------------------------------ MODULE MathState ------------------------------
(***************************************************************************)
(* The state of the coprocessor, which is saved for a task only when       *)
(* another task uses the coprocessor.                                      *)
(***************************************************************************)
EXTENDS Naturals

CONSTANTS Tasks

VARIABLES current, last_task_used_math, used_math,
          fpu, i387,    \* whose values the coprocessor and each task's save area hold
          forked        \* tasks that lost their values to fork

vars == <<current, last_task_used_math, used_math, fpu, i387, forked>>
None == 0

TypeOK ==
    /\ current \in Tasks /\ last_task_used_math \in Tasks \cup {None}
    /\ used_math \in [Tasks -> BOOLEAN] /\ i387 \in [Tasks -> Tasks \cup {None}]
    /\ fpu \in Tasks \cup {None} /\ forked \subseteq Tasks

Init ==
    /\ current \in Tasks
    /\ last_task_used_math = None /\ used_math = [t \in Tasks |-> FALSE]
    /\ fpu = None /\ i387 = [t \in Tasks |-> None] /\ forked = {}

\* Faulty: the values of the task that used the coprocessor last are not saved.
Saved_not == i387

\* math_state_restore: fnsave for the task that used the coprocessor last.
Saved == IF last_task_used_math = None THEN i387 ELSE [i387 EXCEPT ![last_task_used_math] = fpu]

\* A task uses the coprocessor.  switch_to has left the trap armed unless the
\* task was the last one to use it; the trap is math_state_restore.
use_math ==
    /\ last_task_used_math' = current
    /\ used_math' = [used_math EXCEPT ![current] = TRUE]
    /\ IF last_task_used_math = current THEN UNCHANGED i387 ELSE i387' = Saved
    /\ fpu' = IF last_task_used_math = current \/ used_math[current]
              THEN (IF last_task_used_math = current THEN fpu ELSE Saved[current])
              ELSE current
    /\ UNCHANGED <<current, forked>>

\* copy_process saves the values for the child with fnsave, which leaves the
\* coprocessor empty.
fork_math ==
    /\ last_task_used_math = current
    /\ fpu' = None /\ forked' = forked \cup {current}
    /\ UNCHANGED <<current, last_task_used_math, used_math, i387>>

\* do_execve and do_exit: the program's values are no longer wanted.
exec_math ==
    /\ used_math[current]
    /\ last_task_used_math' = IF last_task_used_math = current THEN None ELSE last_task_used_math
    /\ used_math' = [used_math EXCEPT ![current] = FALSE]
    /\ i387' = [i387 EXCEPT ![current] = None]
    /\ fpu' = IF last_task_used_math = current THEN None ELSE fpu
    /\ forked' = forked \ {current}
    /\ UNCHANGED current

\* schedule chooses another task.
switch_to(t) ==
    /\ current' = t
    /\ UNCHANGED <<last_task_used_math, used_math, fpu, i387, forked>>

Next == use_math \/ fork_math \/ exec_math \/ \E t \in Tasks : switch_to(t)

Spec == Init /\ [][Next]_vars
------------------------------------------------------------------------------
\* A task that uses the coprocessor finds its own values in it, or fresh ones,
\* although they are saved only when another task uses it; a task that forked
\* after using it is the exception.
OwnMath ==
    /\ last_task_used_math \notin forked \cup {None} => fpu = last_task_used_math
    /\ \A t \in Tasks : used_math[t] /\ t # last_task_used_math /\ t \notin forked => i387[t] = t
==============================================================================
