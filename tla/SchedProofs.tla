----------------------------- MODULE SchedProofs -----------------------------
(***************************************************************************)
(* Proofs about a wait queue, for any number of tasks: type correctness,   *)
(* and what a queue slept on with sleep_on (every queue of the kernel but  *)
(* the proc_list of a tty and wait_on_floppy_select) promises; and about   *)
(* the coprocessor, whose values are saved late.                           *)
(***************************************************************************)
EXTENDS MC_Sched, TLAPS

(***************************************************************************)
(* The list threaded through the stacks.  A task is linked (it is the head *)
(* or it is held in some tmp) at most once and only while it sleeps, and   *)
(* due is closed under tmp: whoever was woken after u went to sleep was    *)
(* woken after the task u found at the head did.                           *)
(***************************************************************************)
Linked ==
    /\ queue # NULL => state[queue] = "UNINTERRUPTIBLE" /\ pc[queue] = "sleep_on"
    /\ \A u \in Tasks : tmp[u] # NULL =>
          /\ pc[u] = "sleep_on"
          /\ state[tmp[u]] = "UNINTERRUPTIBLE" /\ pc[tmp[u]] = "sleep_on"
          /\ tmp[u] # queue
          /\ \A v \in Tasks : tmp[v] = tmp[u] => v = u

DueClosed ==
    /\ due \subseteq waiting
    /\ \A t \in waiting : state[t] = "RUNNING" => t \in due
    /\ \A u \in due : tmp[u] # NULL => tmp[u] \in due

QueueInv ==
    /\ TypeOK
    /\ kind = "sleep_on" => NoSleeperLost /\ Linked /\ DueClosed
    /\ kind # "sleep_on" => due = {} /\ HeadIsAsleep

USE DEF States, Kinds

\* Type correctness, for every set of tasks and either kind of queue.
THEOREM TypeCorrect == Spec => []TypeOK
<1> USE WaitQueueAssumption DEF TypeOK
<1>1. Init => TypeOK
  BY DEF Init
<1>2. TypeOK /\ [Next]_vars => TypeOK'
  <2> SUFFICES ASSUME TypeOK, [Next]_vars PROVE TypeOK'
    OBVIOUS
  <2>1. CASE wake_up
    BY <2>1 DEF wake_up, SetRunning, waiting
  <2>2. CASE schedule \/ write_char
    BY <2>2 DEF schedule, WakeSignalled, write_char, SetRunning, waiting
  <2>3. ASSUME NEW t \in Tasks, sleep_on(t) PROVE TypeOK'
    BY <2>3 DEF sleep_on, WakeSignalled
  <2>4. ASSUME NEW t \in Tasks, interruptible_sleep_on(t) PROVE TypeOK'
    BY <2>4 DEF interruptible_sleep_on, WakeSignalled
  <2>5. ASSUME NEW t \in Tasks, Resume(t) PROVE TypeOK'
    <3>1. CASE sleep_on_return(t)
      BY <3>1 DEF sleep_on_return, SetRunning
    <3>2. CASE interruptible_sleep_on_repeat(t)
      BY <3>2 DEF interruptible_sleep_on_repeat, SetRunning, WakeSignalled
    <3>3. CASE interruptible_sleep_on_return(t)
      BY <3>3 DEF interruptible_sleep_on_return, SetRunning
    <3> QED
      BY <2>5, <3>1, <3>2, <3>3 DEF Resume
  <2>6. ASSUME NEW t \in Tasks, send_sig(t) \/ do_signal(t) PROVE TypeOK'
    BY <2>6 DEF send_sig, do_signal
  <2>7. CASE UNCHANGED vars
    BY <2>7 DEF vars
  <2> QED
    BY <2>1, <2>2, <2>3, <2>4, <2>5, <2>6, <2>7 DEF Next
<1> QED
  BY <1>1, <1>2, PTL DEF Spec

\* On an interruptible queue nobody is inside sleep_on.
LEMMA NobodyWaits == TypeOK /\ kind # "sleep_on" => waiting = {}
BY DEF TypeOK, waiting

\* On an interruptible queue a task leaves only when the head is itself or nobody,
\* and clears it, so the head never names a task that has left.
LEMMA HeadStep ==
  ASSUME TypeOK, HeadIsAsleep, kind # "sleep_on", [Next]_vars
  PROVE  HeadIsAsleep'
<1> USE WaitQueueAssumption DEF TypeOK, HeadIsAsleep, asleep
<1>1. CASE wake_up \/ schedule \/ write_char
  BY <1>1 DEF wake_up, schedule, write_char
<1>2. ASSUME NEW t \in Tasks, interruptible_sleep_on(t) PROVE HeadIsAsleep'
  BY <1>2 DEF interruptible_sleep_on
<1>3. ASSUME NEW t \in Tasks, interruptible_sleep_on_return(t) PROVE HeadIsAsleep'
  BY <1>3 DEF interruptible_sleep_on_return
<1>4. ASSUME NEW t \in Tasks,
             interruptible_sleep_on_repeat(t) \/ send_sig(t) \/ do_signal(t)
      PROVE  HeadIsAsleep'
  BY <1>4 DEF interruptible_sleep_on_repeat, send_sig, do_signal
<1>5. ASSUME NEW t \in Tasks PROVE ~sleep_on(t) /\ ~sleep_on_return(t)
  BY DEF sleep_on, sleep_on_return
<1>6. CASE UNCHANGED vars
  BY <1>6 DEF vars
<1> QED
  BY <1>1, <1>2, <1>3, <1>4, <1>5, <1>6 DEF Next, Resume

\* Every step preserves the list and the closure of due: on a queue slept on
\* with sleep_on the actions of interruptible_sleep_on never happen, on the
\* others nothing ever becomes due.
LEMMA QueueInvStep ==
  ASSUME QueueInv, [Next]_vars, TypeOK'
  PROVE  QueueInv'
<1>0. kind' = kind
  BY DEF Next, vars, wake_up, write_char, schedule, sleep_on, interruptible_sleep_on,
         Resume, sleep_on_return, interruptible_sleep_on_repeat,
         interruptible_sleep_on_return, send_sig, do_signal
<1>A. CASE kind # "sleep_on"
  <2>1. waiting = {}
    BY <1>A, NobodyWaits DEF QueueInv
  <2>2. due' = {}
    BY <1>A, <2>1 DEF QueueInv, Next, vars, wake_up, write_char, schedule, sleep_on,
         interruptible_sleep_on, Resume, sleep_on_return,
         interruptible_sleep_on_repeat, interruptible_sleep_on_return, send_sig,
         do_signal
  <2>3. HeadIsAsleep'
    BY <1>A, HeadStep DEF QueueInv
  <2> QED
    BY <1>0, <1>A, <2>2, <2>3 DEF QueueInv
<1>B. CASE kind = "sleep_on"
  <2> USE WaitQueueAssumption, <1>0, <1>B
       DEF QueueInv, TypeOK, NoSleeperLost, Linked, DueClosed, waiting
  <2>1. CASE wake_up
    BY <2>1 DEF wake_up, SetRunning
  <2>2. CASE schedule \/ write_char
    BY <2>2 DEF schedule, WakeSignalled, write_char
  <2>3. ASSUME NEW t \in Tasks, sleep_on(t) PROVE QueueInv'
    <3> USE <2>3 DEF sleep_on, WakeSignalled
    <3>1. \A u \in Tasks : tmp[u] # t
      OBVIOUS
    <3>2. queue # t
      OBVIOUS
    <3>3. Linked'
      BY <3>1, <3>2
    <3>4. DueClosed'
      BY <3>1, <3>2
    <3>5. NoSleeperLost'
      BY <3>1, <3>2
    <3> QED
      BY <3>3, <3>4, <3>5
  <2>4. ASSUME NEW t \in Tasks, sleep_on_return(t) PROVE QueueInv'
    <3> USE <2>4 DEF sleep_on_return, SetRunning
    <3>1. t \in due
      OBVIOUS
    <3>2. \A u \in Tasks : tmp[u] # t
      OBVIOUS
    <3>3. Linked'
      BY <3>2
    <3>4. DueClosed'
      BY <3>1, <3>2
    <3>5. NoSleeperLost'
      BY <3>2
    <3> QED
      BY <3>3, <3>4, <3>5
  <2>5. ASSUME NEW t \in Tasks, send_sig(t) \/ do_signal(t) PROVE QueueInv'
    BY <2>5 DEF send_sig, do_signal
  <2>6. ASSUME NEW t \in Tasks
        PROVE  /\ ~interruptible_sleep_on(t)
               /\ ~interruptible_sleep_on_repeat(t)
               /\ ~interruptible_sleep_on_return(t)
    BY DEF interruptible_sleep_on, interruptible_sleep_on_repeat,
           interruptible_sleep_on_return
  <2>7. CASE UNCHANGED vars
    BY <2>7 DEF vars
  <2> QED
    BY <2>1, <2>2, <2>3, <2>4, <2>5, <2>6, <2>7 DEF Next, Resume
<1> QED
  BY <1>A, <1>B

\* The invariant holds in every reachable state.
LEMMA QueueInvAlways == Spec => []QueueInv
<1>1. Init => QueueInv
  BY WaitQueueAssumption
     DEF Init, QueueInv, TypeOK, NoSleeperLost, HeadIsAsleep, Linked, DueClosed, waiting
<1>2. QueueInv /\ [Next]_vars /\ TypeOK' => QueueInv'
  BY QueueInvStep
<1> QED
  BY <1>1, <1>2, TypeCorrect, PTL DEF Spec

\* No queue ever loses a task inside sleep_on: it is the head, or a task still
\* inside its own sleep_on will wake it.  And no queue, of either kind, names a
\* task that has left, so wake_up and write_char never write to a stranger.
THEOREM SleepersNeverLost == Spec => []QueueSound
<1>1. QueueInv => NoSleeperLost
  BY NobodyWaits DEF QueueInv, NoSleeperLost
<1>2. QueueInv => HeadIsAsleep
  BY DEF QueueInv, Linked, HeadIsAsleep, asleep, TypeOK
<1> QED
  BY <1>1, <1>2, QueueInvAlways, PTL DEF QueueSound

\* sleep_on and wake_up implement the set of sleepers of WaitSet: a task comes
\* back from sleep_on only after a wake_up issued while it was asleep.
THEOREM SleepOnImplementsWaitSet == Spec => SleepersPromise
<1> USE DEF Promise!Init, Promise!Next, Promise!vars, Promise!Sleep,
            Promise!WakeUp, Promise!Return
<1>1. Init => Promise!Init
  BY DEF Init, waiting
<1>2. QueueInv /\ QueueInv' /\ [Next]_vars => [Promise!Next]_(Promise!vars)
  <2> SUFFICES ASSUME QueueInv, QueueInv', [Next]_vars
               PROVE  [Promise!Next]_(Promise!vars)
    OBVIOUS
  <2> USE WaitQueueAssumption DEF QueueInv, TypeOK
  <2>1. CASE wake_up
    BY <2>1 DEF wake_up, waiting
  <2>2. CASE schedule \/ write_char
    BY <2>2 DEF schedule, write_char, waiting
  <2>3. ASSUME NEW t \in Tasks, sleep_on(t) PROVE Promise!Sleep(t)
    BY <2>3 DEF sleep_on, waiting
  <2>4. ASSUME NEW t \in Tasks, sleep_on_return(t) PROVE Promise!Return(t)
    BY <2>4 DEF sleep_on_return, waiting, DueClosed
  <2>5. ASSUME NEW t \in Tasks, send_sig(t) \/ do_signal(t)
        PROVE  UNCHANGED Promise!vars
    BY <2>5 DEF send_sig, do_signal, waiting
  <2>6. ASSUME NEW t \in Tasks,
               \/ interruptible_sleep_on(t)
               \/ interruptible_sleep_on_repeat(t)
               \/ interruptible_sleep_on_return(t)
        PROVE  UNCHANGED Promise!vars
    <3>1. kind # "sleep_on" /\ kind' # "sleep_on"
      BY <2>6 DEF interruptible_sleep_on, interruptible_sleep_on_repeat,
                  interruptible_sleep_on_return
    <3>2. waiting = {} /\ waiting' = {}
      BY <3>1 DEF waiting
    <3>3. due = {} /\ due' = {}
      BY <3>1
    <3> QED
      BY <3>2, <3>3
  <2>7. CASE UNCHANGED vars
    BY <2>7 DEF vars, waiting
  <2> QED
    BY <2>1, <2>2, <2>3, <2>4, <2>5, <2>6, <2>7 DEF Next, Resume
<1> QED
  BY <1>1, <1>2, QueueInvAlways, PTL DEF Spec, SleepersPromise, Promise!Spec
------------------------------------------------------------------------------
\* OwnMath needs only the types to be inductive.
MathInv == Math!TypeOK /\ Math!OwnMath

\* fnsave puts back what the last user left.
LEMMA SavedRight ==
  ASSUME MathInv
  PROVE  /\ Math!Saved \in [MathTasks -> MathTasks \cup {0}]
         /\ \A t \in MathTasks : t = last_task_used_math /\ t \notin forked => Math!Saved[t] = t
         /\ \A t \in MathTasks : t # last_task_used_math => Math!Saved[t] = i387[t]
BY MathTasksAssumption DEF MathInv, Math!TypeOK, Math!OwnMath, Math!Saved, Math!None

\* Each of the actions keeps the invariant.
LEMMA MathStep ==
  ASSUME MathInv, [Math!Next]_math
  PROVE  MathInv'
<1> USE MathTasksAssumption DEF MathInv, Math!None
<1>1. CASE Math!use_math
  <2>1. Math!TypeOK'
    BY <1>1, SavedRight DEF Math!TypeOK, Math!use_math
  <2>2. CASE last_task_used_math = m_current
    BY <1>1, <2>1, <2>2 DEF Math!use_math, Math!OwnMath, Math!TypeOK
  <2>3. CASE last_task_used_math # m_current
    <3>1. /\ i387' = Math!Saved
          /\ fpu' = IF used_math[m_current] THEN Math!Saved[m_current] ELSE m_current
      BY <1>1, <2>3 DEF Math!use_math
    <3>2. m_current \notin forked => fpu' = m_current
      BY <2>3, <3>1, SavedRight DEF Math!OwnMath, Math!TypeOK
    <3> QED
      BY <1>1, <2>1, <3>1, <3>2, SavedRight DEF Math!use_math, Math!OwnMath, Math!TypeOK
  <2> QED
    BY <2>2, <2>3
<1>2. CASE Math!fork_math
  BY <1>2 DEF Math!fork_math, Math!OwnMath, Math!TypeOK
<1>3. CASE Math!exec_math
  BY <1>3 DEF Math!exec_math, Math!OwnMath, Math!TypeOK
<1>4. CASE \E t \in MathTasks : Math!switch_to(t)
  BY <1>4 DEF Math!switch_to, Math!OwnMath, Math!TypeOK
<1>5. CASE UNCHANGED math
  BY <1>5 DEF math, Math!OwnMath, Math!TypeOK
<1> QED
  BY <1>1, <1>2, <1>3, <1>4, <1>5 DEF Math!Next

\* For any number of tasks: whoever uses the coprocessor finds its own values or
\* fresh ones, however tasks switch, fork, exec and exit in between, unless it
\* has forked itself (math_state_restore, switch_to).
THEOREM MathIsOwn == MCSpec => []OwnMath
<1>1. MCInit => MathInv
  BY MathTasksAssumption DEF MCInit, Math!Init, MathInv, Math!TypeOK, Math!OwnMath, Math!None
<1>2. [MCNext]_all => [Math!Next]_math
  BY DEF MCNext, WaitNext, SliceNext, Only, all, math
<1>3. MathInv /\ [MCNext]_all => MathInv'
  BY <1>2, MathStep
<1> QED
  BY <1>1, <1>3, PTL DEF MCSpec, MathInv, OwnMath
==============================================================================
