------------------------------- MODULE Process -------------------------------
(***************************************************************************)
(* The life of tasks: fork, exit, waitpid and the signals between them.    *)
(*                                                                         *)
(* Parents are known by process id.  Ids are handed out by a counter that  *)
(* wraps around, so they are used again; a task that exits hands its       *)
(* children to init, and then sleeps while its files are closed before it  *)
(* becomes a zombie and tells its father.                                  *)
(*                                                                         *)
(* Init stands for the task init() runs in: it never exits and is not sent *)
(* signals by others, which exit.c calls the assumption that task[1] is    *)
(* always init.                                                            *)
(***************************************************************************)
EXTENDS Naturals, FiniteSets

CONSTANTS Tasks, Init1,  \* task slots other than task 0; the slot of init
          MaxPid,        \* bound: where the counter of process ids wraps
          Signals,       \* the signals tasks send, other than "CHLD"
          Catchable,     \* those a task may install a handler for
          Callers,       \* bound: the slots whose tasks call setsid, ssetmask, signal
          Masks          \* the sets of signals a task may block

ASSUME ProcessAssumption ==
    /\ IsFiniteSet(Tasks) /\ Init1 \in Tasks
    /\ MaxPid \in Nat /\ MaxPid > Cardinality(Tasks)
    /\ Catchable \subseteq Signals /\ Callers \subseteq Tasks \ {Init1}
    /\ {} \in Masks /\ \A m \in Masks : m \subseteq Signals \cup {"CHLD"}

Pids == 1 .. MaxPid

VARIABLES state,      \* task_struct.state, NONE for an empty slot
          pid, father,
          session, leader,
          signal, blocked,
          caught,     \* signals handled or ignored; the others have the default
          waits,      \* the process ids a task inside waitpid waits for
          last_pid

ids  == <<pid, father, last_pid>>
sess == <<session, leader>>
sigs == <<blocked, caught>>
vars == <<state, ids, sess, signal, sigs, waits>>

All == Signals \cup {"CHLD"}

TypeOK ==
    /\ state \in [Tasks -> {"NONE", "RUNNING", "INTERRUPTIBLE", "EXITING", "ZOMBIE"}]
    /\ pid \in [Tasks -> 0 .. MaxPid] /\ father \in [Tasks -> 0 .. MaxPid]
    /\ session \in [Tasks -> 0 .. MaxPid] /\ leader \in [Tasks -> BOOLEAN]
    /\ signal \in [Tasks -> SUBSET All]
    /\ blocked \in [Tasks -> Masks] /\ caught \in [Tasks -> SUBSET Catchable]
    /\ waits \in [Tasks -> SUBSET Pids]
    /\ last_pid \in Pids

\* After the first fork: init is alone.
Init ==
    /\ state = [t \in Tasks |-> IF t = Init1 THEN "RUNNING" ELSE "NONE"]
    /\ pid = [t \in Tasks |-> IF t = Init1 THEN 1 ELSE 0]
    /\ father = [t \in Tasks |-> 0]
    /\ session = [t \in Tasks |-> 0] /\ leader = [t \in Tasks |-> FALSE]
    /\ signal = [t \in Tasks |-> {}]
    /\ blocked = [t \in Tasks |-> {}] /\ caught = [t \in Tasks |-> {}]
    /\ waits = [t \in Tasks |-> {}]
    /\ last_pid = 1

------------------------------------------------------------------------------
Live == {t \in Tasks : state[t] # "NONE"}

\* t runs in user mode and may make a system call.
User(t) == state[t] = "RUNNING" /\ waits[t] = {}

Deliverable(t) == signal[t] \ blocked[t]

\* Faulty: an id still in use may be handed out again.
find_empty_process_next == IF last_pid = MaxPid THEN 1 ELSE last_pid + 1

\* The next id, wrapping to 1, that no task uses; zombies count.
find_empty_process ==
    LET after(n) == IF n > last_pid THEN n - last_pid ELSE n + MaxPid - last_pid
        unused   == {n \in Pids : \A u \in Live : pid[u] # n}
    IN CHOOSE n \in unused : \A m \in unused : after(n) <= after(m)

copy_process(t, c) ==
    LET new == find_empty_process IN
    /\ User(t) /\ state[c] = "NONE"
    /\ state' = [state EXCEPT ![c] = "RUNNING"]
    /\ pid' = [pid EXCEPT ![c] = new] /\ last_pid' = new
    /\ father' = [father EXCEPT ![c] = pid[t]]
    /\ session' = [session EXCEPT ![c] = session[t]]
    /\ leader' = [leader EXCEPT ![c] = FALSE]
    /\ signal' = [signal EXCEPT ![c] = {}]
    /\ blocked' = [blocked EXCEPT ![c] = blocked[t]]
    /\ caught' = [caught EXCEPT ![c] = caught[t]]
    /\ UNCHANGED waits

sys_setsid(t) ==
    /\ User(t) /\ ~leader[t] /\ t \in Callers
    /\ leader' = [leader EXCEPT ![t] = TRUE]
    /\ session' = [session EXCEPT ![t] = pid[t]]
    /\ UNCHANGED <<state, ids, signal, sigs, waits>>

sys_ssetmask(t) ==
    /\ User(t) /\ t \in Callers
    /\ \E m \in Masks : blocked' = [blocked EXCEPT ![t] = m]
    /\ UNCHANGED <<state, ids, sess, signal, caught, waits>>

\* sys_signal and sys_sigaction install a handler, or the default.
sys_signal(t) ==
    /\ User(t) /\ t \in Callers
    /\ \E s \in Catchable :
          \/ caught' = [caught EXCEPT ![t] = @ \cup {s}]
          \/ caught' = [caught EXCEPT ![t] = @ \ {s}]
    /\ UNCHANGED <<state, ids, sess, signal, blocked, waits>>

\* exec drops the handlers, and those that ignore a signal with them.
do_execve(t) ==
    /\ User(t)
    /\ caught' = [caught EXCEPT ![t] = {}]
    /\ UNCHANGED <<state, ids, sess, signal, blocked, waits>>

\* sys_kill, by some task, for one process or for all; the signals are noticed
\* later.
sys_kill(targets) ==
    /\ {t \in Tasks : User(t)} # {}
    /\ \E s \in Signals :
          signal' = [u \in Tasks |-> IF u \in targets THEN signal[u] \cup {s} ELSE signal[u]]
    /\ UNCHANGED <<state, ids, sess, sigs, waits>>

\* The first loop of schedule().
schedule ==
    /\ state' = [t \in Tasks |-> IF state[t] = "INTERRUPTIBLE" /\ Deliverable(t) # {}
                                 THEN "RUNNING" ELSE state[t]]
    /\ UNCHANGED <<ids, sess, signal, sigs, waits>>

------------------------------------------------------------------------------
Children(t) == {c \in Live : father[c] = pid[t]}

\* Faulty: init is not told of the zombies it inherits.
Exit_untold(t) ==
    /\ state' = [state EXCEPT ![t] = "EXITING"]
    /\ father' = [c \in Tasks |-> IF c \in Children(t) THEN 1 ELSE father[c]]
    /\ UNCHANGED <<pid, last_pid, sess, signal, sigs, waits>>

\* do_exit up to the point where it closes the files, which may sleep: the
\* children, zombies included, go to init.
Exit(t) ==
    /\ state' = [state EXCEPT ![t] = "EXITING"]
    /\ father' = [c \in Tasks |-> IF c \in Children(t) THEN 1 ELSE father[c]]
    /\ signal' = [signal EXCEPT ![Init1] =
                     IF \E c \in Children(t) : state[c] = "ZOMBIE"
                     THEN @ \cup {"CHLD"} ELSE @]
    /\ UNCHANGED <<pid, last_pid, sess, sigs, waits>>

sys_exit(t) == User(t) /\ t # Init1 /\ Exit(t)

\* The task tell_father finds.
Father(t) == {f \in Live : pid[f] = father[t]}

\* The rest of do_exit: kill_session, tell_father.
do_exit(t) ==
    /\ state[t] = "EXITING"
    /\ state' = [state EXCEPT ![t] = "ZOMBIE"]
    /\ signal' = [u \in Tasks |->
          signal[u] \cup (IF u \in Father(t) THEN {"CHLD"} ELSE {})
                    \cup (IF leader[t] /\ u \in Live /\ session[u] = session[t]
                          THEN {"HUP"} \cap Signals ELSE {})]
    /\ UNCHANGED <<ids, sess, sigs, waits>>

\* On the way back to user mode one deliverable signal is taken.  A handler that
\* sys_signal installed is used once; others, and an ignored signal, stay so.
do_signal(t) ==
    /\ User(t)
    /\ \E s \in Deliverable(t) :
          \/ /\ s \in caught[t] \/ s = "CHLD"
             /\ signal' = [signal EXCEPT ![t] = @ \ {s}]
             /\ caught' = [caught EXCEPT ![t] = @ \ {s}] \/ UNCHANGED caught
             /\ UNCHANGED <<state, ids, sess, blocked, waits>>
          \/ /\ s \notin caught[t] /\ s # "CHLD" /\ t # Init1
             /\ Exit(t)

------------------------------------------------------------------------------
\* One pass over the task table on behalf of t, which asks for the ids in W and
\* keeps the signals sig: reap a zombie, sleep, or report that there is no such
\* child.  release empties the slot.
Scan(t, W, sig) ==
    LET asked == {c \in Children(t) \ {t} : pid[c] \in W}
        dead  == {c \in asked : state[c] = "ZOMBIE"}
    IN
    /\ \/ \E z \in dead :
             /\ state' = [state EXCEPT ![t] = "RUNNING", ![z] = "NONE"]
             /\ pid' = [pid EXCEPT ![z] = 0] /\ father' = [father EXCEPT ![z] = 0]
             /\ session' = [session EXCEPT ![z] = 0] /\ leader' = [leader EXCEPT ![z] = FALSE]
             /\ blocked' = [blocked EXCEPT ![z] = {}] /\ caught' = [caught EXCEPT ![z] = {}]
             /\ signal' = [signal EXCEPT ![t] = sig, ![z] = {}]
             /\ waits' = [waits EXCEPT ![t] = {}]
       \/ /\ dead = {}
          /\ state' = [state EXCEPT ![t] = IF asked # {} THEN "INTERRUPTIBLE" ELSE "RUNNING"]
          /\ waits' = [waits EXCEPT ![t] = IF asked # {} THEN W ELSE {}]
          /\ signal' = [signal EXCEPT ![t] = sig]
          /\ UNCHANGED <<pid, father, sess, sigs>>
    /\ UNCHANGED last_pid

sys_waitpid(t, W) == User(t) /\ Scan(t, W, signal[t])

\* schedule() returned inside waitpid: look again if only SIGCHLD came.
sys_waitpid_repeat(t) ==
    LET rest == signal[t] \ {"CHLD"} IN
    /\ state[t] = "RUNNING" /\ waits[t] # {}
    /\ IF rest = {} THEN Scan(t, waits[t], {})
       ELSE /\ signal' = [signal EXCEPT ![t] = rest]
            /\ waits' = [waits EXCEPT ![t] = {}]
            /\ UNCHANGED <<state, ids, sess, sigs>>

Next ==
    \/ schedule
    \/ sys_kill(Live \ {Init1})
    \/ \E u \in Live \ {Init1} : sys_kill({u})
    \/ \E t \in Tasks :
          \/ sys_setsid(t) \/ sys_ssetmask(t) \/ sys_signal(t) \/ do_execve(t) \/ sys_exit(t)
          \/ do_exit(t) \/ do_signal(t) \/ sys_waitpid_repeat(t)
          \/ sys_waitpid(t, Pids)
          \/ \E u \in Tasks : \/ copy_process(t, u)
                              \/ u \in Live \ {t} /\ sys_waitpid(t, {pid[u]})

Spec == Init /\ [][Next]_vars

------------------------------------------------------------------------------
\* A process id names one task, zombies included, although the counter wraps.
PidsUnique == TypeOK /\ \A t, u \in Live : pid[t] = pid[u] => t = u

\* The father of every task is a task that has not begun to exit, so that
\* tell_father finds it ("BAD BAD - no father found" is never printed) and no
\* id that was used again is mistaken for it.
FatherAlive ==
    \A t \in Live \ {Init1} :
        \E f \in Tasks : pid[f] = father[t] /\ state[f] \in {"RUNNING", "INTERRUPTIBLE"}

\* A father asleep in waitpid for a child that is a zombie has SIGCHLD pending,
\* whoever was the father when the child died: the death is never missed.  It
\* supposes that the father does not block SIGCHLD.
NoDeathMissed ==
    \A f \in Tasks : \A z \in Children(f) :
        state[f] = "INTERRUPTIBLE" /\ state[z] = "ZOMBIE" /\ pid[z] \in waits[f]
            => "CHLD" \in Deliverable(f)

\* No death goes unseen: the zombie has an id of its own, tell_father finds the
\* father, and a father in waitpid has the signal that ends its sleep.
DeathsSeen == PidsUnique /\ FatherAlive /\ NoDeathMissed

------------------------------------------------------------------------------
\* For TLC: nobody looks at the signals, masks and handlers of a task that has
\* begun to exit, nor at the session of a zombie, so states that differ there
\* only are one.
Known(t) ==
    <<state[t], pid[t], father[t],
      IF state[t] = "ZOMBIE" THEN <<>> ELSE <<session[t], leader[t]>>,
      IF state[t] \in {"EXITING", "ZOMBIE"} THEN <<>>
      ELSE <<signal[t], blocked[t], caught[t], waits[t]>> >>

TaskView == <<last_pid, [t \in Tasks |-> Known(t)]>>
==============================================================================
