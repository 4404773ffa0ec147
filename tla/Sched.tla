-------------------------------- MODULE Sched --------------------------------
(***************************************************************************)
(* The scheduler: time slices, priorities, alarms, signals that wake a     *)
(* sleeping task.  Task 0 is the idle task.  An alarm is kept as the ticks *)
(* that are left until its value is reached.                               *)
(***************************************************************************)
EXTENDS Integers, FiniteSets

CONSTANTS Tasks,        \* 1 .. NR_TASKS - 1; task 0 is idle
          MaxPriority,
          Seconds       \* ticks an alarm is set to

VARIABLES state, counter, priority, alarm, signal,
          current

vars == <<state, counter, priority, alarm, signal, current>>

Off == -2

Init ==
    /\ state = [t \in Tasks |-> "running"] /\ signal = [t \in Tasks |-> FALSE]
    /\ priority \in [Tasks -> 1 .. MaxPriority] /\ counter = priority
    /\ alarm = [t \in Tasks |-> Off]
    /\ current = 0

------------------------------------------------------------------------------
\* The first half of schedule, for states and alarms as given: a signal, or an
\* alarm that is over, makes a task that sleeps interruptibly run.
Signalled(t, a) == signal[t] \/ a[t] = -1
Woken(states, a) ==
    [t \in Tasks |-> IF states[t] = "interruptible" /\ Signalled(t, a) THEN "running" ELSE states[t]]

\* Faulty: only the tasks that can run get a new slice, and no more than a slice.
Recharged_less(states, c) == [t \in Tasks |-> IF states[t] = "running" THEN c[t] \div 2 ELSE c[t]]

\* No runnable task has time left: all tasks get a new slice.
Recharged(states, c) == [t \in Tasks |-> c[t] \div 2 + priority[t]]

\* The runnable task with the most time left; the last one in the table wins.
Best(states, c) ==
    CHOOSE t \in {u \in Tasks : states[u] = "running"} :
        \A u \in Tasks : states[u] = "running" => c[u] < c[t] \/ (c[u] = c[t] /\ u <= t)

\* schedule, called with the states, counters and alarms as given.
schedule(states, c, a) ==
    LET w == Woken(states, a)
        ready == {t \in Tasks : w[t] = "running"}
        c2 == IF ready # {} /\ \A t \in ready : c[t] = 0 THEN Recharged(w, c) ELSE c IN
    /\ state' = w /\ counter' = c2
    /\ signal' = [t \in Tasks |-> Signalled(t, a)]
    /\ alarm' = [t \in Tasks |-> IF a[t] = -1 THEN Off ELSE a[t]]
    /\ current' = IF ready = {} THEN 0 ELSE Best(w, c2)
    /\ UNCHANGED priority

\* The idle task pauses again and again.
idle ==
    /\ current = 0
    /\ schedule(state, counter, alarm)

Ticked == [t \in Tasks |-> IF alarm[t] >= 0 THEN alarm[t] - 1 ELSE alarm[t]]

\* do_timer; cpl says whether user code was interrupted.  The slice that ends in
\* the kernel is seen when the system call returns.
do_timer(cpl) ==
    /\ LET c == IF current = 0 \/ counter[current] = 0 THEN counter ELSE [counter EXCEPT ![current] = @ - 1] IN
       IF current = 0 \/ c[current] > 0 \/ ~cpl
       THEN counter' = c /\ alarm' = Ticked /\ UNCHANGED <<state, signal, priority, current>>
       ELSE schedule(state, c, Ticked)

\* ret_from_sys_call: a task whose slice is over gives up the processor.
ret_from_sys_call ==
    /\ current # 0 /\ counter[current] = 0
    /\ schedule(state, counter, alarm)

\* sys_pause, and any sleep that a signal ends; or one that none ends.
Sleep(how) ==
    /\ current # 0
    /\ schedule([state EXCEPT ![current] = how], counter, alarm)

\* wake_up of a task that sleeps for a resource.
wake_up(t) ==
    /\ state[t] = "uninterruptible"
    /\ state' = [state EXCEPT ![t] = "running"]
    /\ UNCHANGED <<counter, priority, alarm, signal, current>>

\* send_sig, from a task or an interrupt, and do_signal, which takes it.
send_sig(t) ==
    /\ ~signal[t] /\ signal' = [signal EXCEPT ![t] = TRUE]
    /\ UNCHANGED <<state, counter, priority, alarm, current>>

do_signal ==
    /\ current # 0 /\ signal[current] /\ signal' = [signal EXCEPT ![current] = FALSE]
    /\ UNCHANGED <<state, counter, priority, alarm, current>>

sys_alarm(n) ==
    /\ current # 0 /\ alarm' = [alarm EXCEPT ![current] = n]
    /\ UNCHANGED <<state, counter, priority, signal, current>>

\* sys_nice: the priority stays above 0.
sys_nice(increment) ==
    /\ current # 0 /\ priority[current] - increment \in 1 .. MaxPriority
    /\ priority' = [priority EXCEPT ![current] = @ - increment]
    /\ UNCHANGED <<state, counter, alarm, signal, current>>

Next ==
    \/ idle \/ ret_from_sys_call \/ do_signal
    \/ \E cpl \in BOOLEAN : do_timer(cpl)
    \/ \E how \in {"interruptible", "uninterruptible"} : Sleep(how)
    \/ \E t \in Tasks : wake_up(t) \/ send_sig(t)
    \/ \E n \in Seconds : sys_alarm(n)
    \/ \E increment \in {-1, 1} : sys_nice(increment)

\* Interrupts of user code come again and again, and the idle task loops.
Fairness == WF_vars(do_timer(TRUE)) /\ WF_vars(idle)
Spec == Init /\ [][Next]_vars /\ Fairness
------------------------------------------------------------------------------
\* A runnable task gets the processor.
RunnableRuns == \A t \in Tasks : state[t] = "running" ~> (current = t \/ state[t] # "running")
==============================================================================
