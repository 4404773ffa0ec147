------------------------------- MODULE MC_Sched -------------------------------
(***************************************************************************)
(* The four parts of kernel/sched.c, one at a time: a behaviour is one of  *)
(* the part that was chosen at the start, with the others as they began.   *)
(***************************************************************************)
EXTENDS WaitQueue

CONSTANT MathTasks    \* the tasks that use the coprocessor

ASSUME MathTasksAssumption == 0 \notin MathTasks /\ MathTasks # {}

VARIABLES part,
          s_state, counter, priority, alarm, s_signal, s_current,
          m_current, last_task_used_math, used_math, fpu, i387, forked,
          timer_list, early

Slices == INSTANCE Sched WITH
    Tasks <- {1, 2}, MaxPriority <- 2, Seconds <- {1},
    state <- s_state, signal <- s_signal, current <- s_current
Math == INSTANCE MathState WITH Tasks <- MathTasks, current <- m_current
Timing == INSTANCE Timers WITH TIME_REQUESTS <- 4, Delays <- {1, 2, 4}

slices == <<s_state, counter, priority, alarm, s_signal, s_current>>
math   == <<m_current, last_task_used_math, used_math, fpu, i387, forked>>
timing == <<timer_list, early>>
all    == <<part, vars, slices, math, timing>>

MCInit ==
    /\ part \in {"waitqueue", "slices", "math", "timing"}
    /\ Init /\ Slices!Init /\ Math!Init /\ Timing!Init
    /\ part # "waitqueue" => kind = "sleep_on"
    /\ part # "slices" => priority = [t \in {1, 2} |-> 1]
    /\ part # "math" => m_current = CHOOSE t \in MathTasks : TRUE

Only(p) == part = p /\ UNCHANGED part
WaitNext == Only("waitqueue") /\ UNCHANGED <<slices, math, timing>>
SliceNext == Only("slices") /\ UNCHANGED <<vars, math, timing>>

MCNext ==
    \/ WaitNext /\ Next
    \/ SliceNext /\ Slices!Next
    \/ Only("math") /\ Math!Next /\ UNCHANGED <<vars, slices, timing>>
    \/ Only("timing") /\ Timing!Next /\ UNCHANGED <<vars, slices, math>>

\* The fairness of FairSpec and of Sched's Spec.
MCSpec ==
    /\ MCInit /\ [][MCNext]_all
    /\ WF_all(WaitNext /\ schedule)
    /\ \A t \in Tasks : WF_all(WaitNext /\ Resume(t))
    /\ WF_all(SliceNext /\ Slices!do_timer(TRUE))
    /\ WF_all(SliceNext /\ Slices!idle)

\* A runnable task gets the processor (schedule, do_timer).
RunnableRuns == part = "slices" => Slices!RunnableRuns

\* The coprocessor holds the values of the task that used it last, unless that
\* task forked (math_state_restore, switch_to).
OwnMath == Math!OwnMath

\* No timer expires before its time (add_timer, do_timer).
TimersNotEarly == Timing!TimersNotEarly
==============================================================================
