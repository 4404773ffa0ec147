------------------------------ MODULE WaitQueue ------------------------------
(***************************************************************************)
(* One wait queue of the kernel (a struct task_struct ** p such as b_wait, *)
(* i_wait, buffer_wait or proc_list) and the tasks that sleep on it.       *)
(*                                                                         *)
(* The queue itself is one pointer.  A sleeper keeps the previous head in  *)
(* the local variable tmp of its own kernel stack, and the task that comes *)
(* back wakes that one: the list of sleepers is threaded through the       *)
(* stacks.  The kernel is not preempted, so a task gives up the processor  *)
(* only inside schedule(); what it does between two calls of schedule() is *)
(* one action.  The callers disable interrupts around the test and the     *)
(* sleep, so a wake_up from an interrupt is an action of its own.          *)
(*                                                                         *)
(* The users of a queue all sleep with sleep_on, or all with               *)
(* interruptible_sleep_on; kind says which.  Those of a tty, which the     *)
(* serial interrupt wakes too, are interruptible.                          *)
(***************************************************************************)
EXTENDS Naturals, FiniteSets

CONSTANTS Tasks,   \* the tasks other than task 0, which may not sleep
          NULL     \* the null pointer

ASSUME WaitQueueAssumption == NULL \notin Tasks

VARIABLES kind,    \* the primitive the callers of this queue sleep with
          queue,   \* *p
          state,   \* task_struct.state
          tmp,     \* the local variable tmp of a sleeping task
          pc,      \* "out", or the primitive the task is inside of
          signal,  \* an unblocked signal is pending for the task
          due      \* history: the tasks in sleep_on a wake_up was issued for

vars == <<kind, queue, state, tmp, pc, signal, due>>

States == {"RUNNING", "INTERRUPTIBLE", "UNINTERRUPTIBLE"}
Kinds  == {"sleep_on", "interruptible_sleep_on"}

TypeOK ==
    /\ kind \in Kinds
    /\ queue \in Tasks \cup {NULL}
    /\ state \in [Tasks -> States]
    /\ tmp \in [Tasks -> Tasks \cup {NULL}]
    /\ pc \in [Tasks -> {kind, "out"}]
    /\ signal \in [Tasks -> BOOLEAN]
    /\ due \in SUBSET Tasks

Init ==
    /\ kind \in Kinds
    /\ queue = NULL
    /\ state = [t \in Tasks |-> "RUNNING"]
    /\ tmp = [t \in Tasks |-> NULL]
    /\ pc = [t \in Tasks |-> "out"]
    /\ signal = [t \in Tasks |-> FALSE]
    /\ due = {}

asleep  == {t \in Tasks : pc[t] # "out"}
waiting == {t \in Tasks : pc[t] = "sleep_on"}

------------------------------------------------------------------------------
\* The first loop of schedule(): interruptible tasks with a signal run again.
WakeSignalled(st) ==
    [t \in Tasks |-> IF st[t] = "INTERRUPTIBLE" /\ signal[t]
                     THEN "RUNNING" ELSE st[t]]

\* p->state = 0, where p may be the null pointer the caller tested for.
SetRunning(st, p) == [t \in Tasks |-> IF t = p THEN "RUNNING" ELSE st[t]]

\* Faulty: a signal ends the sleep.
sleep_on_interruptibly(t) ==
    /\ kind = "sleep_on"
    /\ pc[t] = "out" /\ state[t] = "RUNNING"
    /\ tmp' = [tmp EXCEPT ![t] = queue]
    /\ queue' = t
    /\ state' = WakeSignalled([state EXCEPT ![t] = "INTERRUPTIBLE"])
    /\ pc' = [pc EXCEPT ![t] = "sleep_on"]
    /\ UNCHANGED <<kind, signal, due>>

\* A task calls sleep_on, up to its call of schedule().
sleep_on(t) ==
    /\ kind = "sleep_on"
    /\ pc[t] = "out" /\ state[t] = "RUNNING"
    /\ tmp' = [tmp EXCEPT ![t] = queue]
    /\ queue' = t
    /\ state' = WakeSignalled([state EXCEPT ![t] = "UNINTERRUPTIBLE"])
    /\ pc' = [pc EXCEPT ![t] = "sleep_on"]
    /\ UNCHANGED <<kind, signal, due>>

\* Faulty: the previous head is forgotten.
sleep_on_return_forgets_tmp(t) ==
    /\ pc[t] = "sleep_on" /\ state[t] = "RUNNING"
    /\ tmp' = [tmp EXCEPT ![t] = NULL]
    /\ pc' = [pc EXCEPT ![t] = "out"]
    /\ due' = due \ {t}
    /\ UNCHANGED <<kind, queue, state, signal>>

\* schedule() has returned inside sleep_on: wake the previous head and return.
sleep_on_return(t) ==
    /\ pc[t] = "sleep_on" /\ state[t] = "RUNNING"
    /\ state' = SetRunning(state, tmp[t])
    /\ tmp' = [tmp EXCEPT ![t] = NULL]
    /\ pc' = [pc EXCEPT ![t] = "out"]
    /\ due' = due \ {t}
    /\ UNCHANGED <<kind, queue, signal>>

interruptible_sleep_on(t) ==
    /\ kind = "interruptible_sleep_on"
    /\ pc[t] = "out" /\ state[t] = "RUNNING"
    /\ tmp' = [tmp EXCEPT ![t] = queue]
    /\ queue' = t
    /\ state' = WakeSignalled([state EXCEPT ![t] = "INTERRUPTIBLE"])
    /\ pc' = [pc EXCEPT ![t] = "interruptible_sleep_on"]
    /\ UNCHANGED <<kind, signal, due>>

\* Faulty: the head is not woken.
interruptible_sleep_on_repeat_silent(t) ==
    /\ pc[t] = "interruptible_sleep_on" /\ state[t] = "RUNNING"
    /\ queue \notin {NULL, t}
    /\ state' = WakeSignalled([state EXCEPT ![t] = "INTERRUPTIBLE"])
    /\ UNCHANGED <<kind, queue, tmp, pc, signal, due>>

\* Somebody else is at the head: wake that task, go to sleep again.
interruptible_sleep_on_repeat(t) ==
    /\ pc[t] = "interruptible_sleep_on" /\ state[t] = "RUNNING"
    /\ queue \notin {NULL, t}
    /\ state' = WakeSignalled([SetRunning(state, queue) EXCEPT
                                   ![t] = "INTERRUPTIBLE"])
    /\ UNCHANGED <<kind, queue, tmp, pc, signal, due>>

interruptible_sleep_on_return(t) ==
    /\ pc[t] = "interruptible_sleep_on" /\ state[t] = "RUNNING"
    /\ queue \in {NULL, t}
    /\ queue' = NULL
    /\ state' = SetRunning(state, tmp[t])
    /\ tmp' = [tmp EXCEPT ![t] = NULL]
    /\ pc' = [pc EXCEPT ![t] = "out"]
    /\ due' = due \ {t}
    /\ UNCHANGED <<kind, signal>>

\* Faulty: the woken task stays at the head.
wake_up_keeps_head ==
    /\ state' = SetRunning(state, queue)
    /\ due' = waiting
    /\ UNCHANGED <<kind, queue, tmp, pc, signal>>

\* wake_up, from an interrupt or from a running task.
wake_up ==
    /\ state' = SetRunning(state, queue)
    /\ queue' = NULL
    /\ due' = waiting
    /\ UNCHANGED <<kind, tmp, pc, signal>>

\* The serial interrupt wakes the head of write_q.proc_list by hand and leaves
\* the pointer as it is.
write_char ==
    /\ kind = "interruptible_sleep_on"
    /\ state' = SetRunning(state, queue)
    /\ UNCHANGED <<kind, queue, tmp, pc, signal, due>>

\* A signal is posted; the task takes it when it is back in user mode.
send_sig(t) ==
    /\ ~signal[t]
    /\ signal' = [signal EXCEPT ![t] = TRUE]
    /\ UNCHANGED <<kind, queue, state, tmp, pc, due>>

do_signal(t) ==
    /\ signal[t] /\ pc[t] = "out"
    /\ signal' = [signal EXCEPT ![t] = FALSE]
    /\ UNCHANGED <<kind, queue, state, tmp, pc, due>>

\* Any other call of schedule(), from the timer or by a task that sleeps
\* elsewhere.
schedule ==
    /\ state' = WakeSignalled(state)
    /\ UNCHANGED <<kind, queue, tmp, pc, signal, due>>

Resume(t) ==
    \/ sleep_on_return(t)
    \/ interruptible_sleep_on_repeat(t)
    \/ interruptible_sleep_on_return(t)

Next ==
    \/ wake_up
    \/ write_char
    \/ schedule
    \/ \E t \in Tasks :
          \/ sleep_on(t)
          \/ interruptible_sleep_on(t)
          \/ Resume(t)
          \/ send_sig(t)
          \/ do_signal(t)

Spec == Init /\ [][Next]_vars

\* The scheduler runs every task that stays runnable, and it is entered again
\* and again from the timer interrupt.
FairSpec ==
    /\ Spec
    /\ WF_vars(schedule)
    /\ \A t \in Tasks : WF_vars(Resume(t))

------------------------------------------------------------------------------
\* A task inside sleep_on is known to somebody who will wake it: it is the head
\* of the queue, or a task that is still inside its own sleep_on holds it in tmp
\* (the last lines of sleep_on).  Otherwise no wake_up could ever reach it.
NoSleeperLost ==
    \A t \in waiting :
        state[t] # "RUNNING" => queue = t \/ \E u \in waiting : tmp[u] = t

\* wake_up and the serial interrupt write through the queue pointer: the task
\* it names is inside its sleep, never one that has left and sleeps elsewhere.
HeadIsAsleep == queue # NULL => queue \in asleep

\* No task is lost to the queue, and the queue names none that is gone.
QueueSound == NoSleeperLost /\ HeadIsAsleep

\* sleep_on and wake_up keep the promise of WaitSet: nobody comes back before
\* a wake_up issued after the call of sleep_on.
Promise == INSTANCE WaitSet WITH asleep <- waiting
SleepersPromise == Promise!Spec

\* ... and one wake_up brings back every task that was asleep, although it
\* touches only the head of the queue.
WakeUpReachesAll == \A t \in Tasks : (t \in due) ~> (t \notin due)

\* Tasks that find somebody else at the head of an interruptible queue wake
\* that task and sleep again (the goto repeat).  They cannot pass the turn
\* around for ever: as long as sleepers are made runnable, sleepers return.
SomeSleeperReturns ==
    []<>(\E t \in asleep \ waiting : state[t] = "RUNNING")
        => []<><<\E t \in Tasks : interruptible_sleep_on_return(t)>>_vars
==============================================================================
