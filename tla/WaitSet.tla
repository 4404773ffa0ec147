------------------------------- MODULE WaitSet -------------------------------
(***************************************************************************)
(* What the kernel promises to the callers of sleep_on and wake_up: a      *)
(* wait queue is a set of sleepers.  wake_up makes every task that is      *)
(* asleep at that moment due, and a task comes back from its sleep when,   *)
(* and only when, it is due.                                               *)
(***************************************************************************)
CONSTANT Tasks

VARIABLES asleep,  \* the tasks that are inside a sleep on this queue
          due      \* those of them a wake_up has been issued for

vars == <<asleep, due>>

Init == asleep = {} /\ due = {}

Sleep(t) ==
    /\ t \notin asleep
    /\ asleep' = asleep \cup {t}
    /\ UNCHANGED due

WakeUp ==
    /\ due' = asleep
    /\ UNCHANGED asleep

Return(t) ==
    /\ t \in due
    /\ asleep' = asleep \ {t}
    /\ due' = due \ {t}

Next ==
    \/ WakeUp
    \/ \E t \in Tasks : Sleep(t) \/ Return(t)

Spec == Init /\ [][Next]_vars

\* A sleeper that is due comes back.
FairSpec == Spec /\ \A t \in Tasks : WF_vars(Return(t))
==============================================================================
