---------------------------- MODULE ProcessProofs ----------------------------
(***************************************************************************)
(* Proofs about the life of tasks, for any number of slots and of process  *)
(* ids: ids are unique although their counter wraps, fathers are alive,    *)
(* and no death is missed by a father in waitpid.                          *)
(***************************************************************************)
EXTENDS Process, FiniteSetTheorems, WellFoundedInduction, TLAPS

\* A set of numbers has a smallest one.
LEMMA Smallest ==
  ASSUME NEW T, T \subseteq Nat, T # {}
  PROVE  \E x \in T : \A y \in T : x <= y
<1> DEFINE R == {ss \in Nat \X Nat : ss[1] < ss[2]}
<1>1. IsWellFoundedOn(R, Nat)
  BY NatLessThanWellFounded, Zenon DEF OpToRel
<1>2. \A x, y \in Nat : ~(<<y, x>> \in R) => x <= y
  OBVIOUS
<1> HIDE DEF R
<1>3. \E x \in T : \A y \in T : ~(<<y, x>> \in R)
  BY <1>1, WFMin
<1> QED
  BY <1>2, <1>3

\* There are more ids than tasks, so the search of find_empty_process ends with
\* an id that nobody has.
LEMMA NewPid ==
  ASSUME TypeOK
  PROVE  find_empty_process \in Pids /\ \A u \in Live : pid[u] # find_empty_process
<1> DEFINE after(n) == IF n > last_pid THEN n - last_pid ELSE n + MaxPid - last_pid
           unused   == {n \in Pids : \A u \in Live : pid[u] # n}
<1>1. unused # {}
  <2> SUFFICES ASSUME unused = {} PROVE FALSE
    OBVIOUS
  <2> DEFINE g == [n \in Pids |-> CHOOSE u \in Tasks : pid[u] = n]
  <2>1. \A n \in Pids : g[n] \in Tasks /\ pid[g[n]] = n
    BY DEF Live
  <2>2. IsFiniteSet(Pids) /\ Cardinality(Pids) = MaxPid
    BY ProcessAssumption, FS_Interval DEF Pids
  <2>3. \E x, y \in Pids : x # y /\ g[x] = g[y]
    <3>1. g \in [Pids -> Tasks]
      BY <2>1
    <3> HIDE DEF g
    <3> QED
      BY <3>1, <2>2, ProcessAssumption, FS_PigeonHole
  <2> QED
    BY <2>1, <2>3
<1>2. \A n \in unused : after(n) \in Nat
  BY ProcessAssumption DEF TypeOK, Pids
<1>3. \E n \in unused : \A m \in unused : after(n) <= after(m)
  <2> DEFINE T == {after(n) : n \in unused}
  <2>1. T \subseteq Nat /\ T # {}
    BY <1>1, <1>2
  <2> HIDE DEF after, unused
  <2>2. PICK x \in T : \A y \in T : x <= y
    <3> HIDE DEF T
    <3> QED
      BY <2>1, Smallest
  <2> QED
    BY <2>2
<1>4. find_empty_process \in unused
  BY <1>3 DEF find_empty_process
<1> QED
  BY <1>4

------------------------------------------------------------------------------
\* Tasks that exist have an id, one each; init is the one with id 1 and never
\* begins to exit; fathers are alive.
IdInv ==
    /\ \A t \in Live : pid[t] # 0
    /\ \A t, u \in Live : pid[t] = pid[u] => t = u
    /\ state[Init1] \in {"RUNNING", "INTERRUPTIBLE"} /\ pid[Init1] = 1 /\ father[Init1] = 0
    /\ FatherAlive

\* A step that takes ids away at most keeps them unique.
LEMMA IdsKept ==
  ASSUME IdInv, Live' \subseteq Live, \A u \in Live' : pid'[u] = pid[u],
         state'[Init1] \in {"RUNNING", "INTERRUPTIBLE"}, pid'[Init1] = 1, father'[Init1] = 0,
         FatherAlive'
  PROVE  IdInv'
<1>1. \A t \in Live' : pid'[t] # 0
  BY DEF IdInv
<1>2. \A t, u \in Live' : pid'[t] = pid'[u] => t = u
  BY DEF IdInv
<1> QED
  BY <1>1, <1>2 DEF IdInv

\* Fathers stay alive in a step in which nobody begins to exit.
LEMMA FathersKept ==
  ASSUME FatherAlive, Live' = Live, pid' = pid, father' = father,
         \A f \in Tasks : state[f] \in {"RUNNING", "INTERRUPTIBLE"} =>
                          state'[f] \in {"RUNNING", "INTERRUPTIBLE"}
  PROVE  FatherAlive'
<1> SUFFICES ASSUME NEW t \in Live' \ {Init1}
             PROVE  \E f \in Tasks : pid'[f] = father'[t] /\ state'[f] \in {"RUNNING", "INTERRUPTIBLE"}
  BY DEF FatherAlive
<1>1. PICK f \in Tasks : pid[f] = father[t] /\ state[f] \in {"RUNNING", "INTERRUPTIBLE"}
  BY DEF FatherAlive
<1> QED
  BY <1>1

\* NoDeathMissed supposes that nobody blocks SIGCHLD.
Unblocked == \A m \in Masks : "CHLD" \notin m

ProcInv == TypeOK /\ IdInv /\ NoDeathMissed

\* The types but for the boolean flags of session leaders.
TypeBut ==
    /\ state \in [Tasks -> {"NONE", "RUNNING", "INTERRUPTIBLE", "EXITING", "ZOMBIE"}]
    /\ pid \in [Tasks -> 0 .. MaxPid] /\ father \in [Tasks -> 0 .. MaxPid]
    /\ session \in [Tasks -> 0 .. MaxPid]
    /\ signal \in [Tasks -> SUBSET All]
    /\ blocked \in [Tasks -> Masks] /\ caught \in [Tasks -> SUBSET Catchable]
    /\ waits \in [Tasks -> SUBSET Pids]
    /\ last_pid \in Pids
LeaderOK == leader \in [Tasks -> BOOLEAN]

\* The flags are boolean and have steps of their own below.
LEMMA TypeSplit == TypeOK <=> TypeBut /\ LeaderOK
BY DEF TypeOK, TypeBut, LeaderOK

\* Steps that leave the tasks, their ids and their fathers as they are, and take
\* no signal from a task that sleeps, keep what is said of them.
LEMMA QuietStep ==
  ASSUME ProcInv, TypeOK', UNCHANGED <<pid, father>>,
         \A t \in Tasks : \/ state'[t] = state[t]
                          \/ state[t] \in {"RUNNING", "INTERRUPTIBLE"} /\ state'[t] = "RUNNING",
         \A t \in Tasks : state'[t] = "INTERRUPTIBLE" =>
            waits'[t] = waits[t] /\ blocked'[t] = blocked[t] /\ signal[t] \subseteq signal'[t]
  PROVE  ProcInv'
<1>1. Live' = Live
  BY DEF ProcInv, TypeOK, Live
<1>2. IdInv'
  <2>1. \A f \in Tasks : state[f] \in {"RUNNING", "INTERRUPTIBLE"} => state'[f] \in {"RUNNING", "INTERRUPTIBLE"}
    OBVIOUS
  <2> QED
    BY <1>1, <2>1, ProcessAssumption DEF ProcInv, IdInv, FatherAlive
<1>3. NoDeathMissed'
  <2> SUFFICES ASSUME NEW f \in Tasks, NEW z \in Children(f)', state'[f] = "INTERRUPTIBLE",
                      state'[z] = "ZOMBIE", pid'[z] \in waits'[f]
               PROVE  "CHLD" \in Deliverable(f)'
    BY DEF NoDeathMissed
  <2>1. z \in Children(f) /\ z \in Tasks
    BY <1>1 DEF Children, Live
  <2>2. state[f] = "INTERRUPTIBLE" /\ state[z] = "ZOMBIE" /\ pid[z] \in waits[f]
    BY <2>1
  <2>3. "CHLD" \in signal[f] \ blocked[f]
    BY <2>1, <2>2 DEF ProcInv, NoDeathMissed, Deliverable
  <2> QED
    BY <2>3 DEF Deliverable
<1> QED
  BY <1>2, <1>3 DEF ProcInv

\* The calls that change one task's own settings.
LEMMA SettingsStep ==
  ASSUME ProcInv, NEW t \in Tasks,
         sys_setsid(t) \/ sys_ssetmask(t) \/ sys_signal(t) \/ do_execve(t)
  PROVE  ProcInv'
<1>1. TypeOK'
  <2>0. TypeBut /\ LeaderOK /\ t \in Tasks
    BY TypeSplit DEF ProcInv
  <2>1. CASE sys_setsid(t)
    <3>1. TypeBut'
      BY <2>0, <2>1, ProcessAssumption DEF sys_setsid, TypeBut, ids, sigs
    <3>2. LeaderOK'
      BY <2>0, <2>1, Zenon DEF sys_setsid, LeaderOK
    <3> QED
      BY <3>1, <3>2, TypeSplit, PTL
  <2>2. CASE sys_ssetmask(t) \/ sys_signal(t) \/ do_execve(t)
    BY <2>2 DEF ProcInv, TypeOK, sys_ssetmask, sys_signal, do_execve, ids, sess
  <2> QED
    BY <2>1, <2>2
<1>2. UNCHANGED <<pid, father, state, signal, waits>>
  BY DEF sys_setsid, sys_ssetmask, sys_signal, do_execve, ids
<1>3. \A u \in Tasks : state[u] = "INTERRUPTIBLE" => blocked'[u] = blocked[u]
  BY DEF sys_setsid, sys_ssetmask, sys_signal, do_execve, sigs, User, ProcInv, TypeOK
<1> QED
  BY <1>1, <1>2, <1>3, QuietStep

\* Signals are sent, and schedule wakes those who have one.
LEMMA SignalStep ==
  ASSUME ProcInv, NEW targets, schedule \/ sys_kill(targets)
  PROVE  ProcInv'
<1>1. TypeOK'
  <2>1. CASE schedule
    BY <2>1 DEF schedule, ProcInv, TypeOK, ids, sess, sigs
  <2>2. CASE sys_kill(targets)
    BY <2>2 DEF sys_kill, ProcInv, TypeOK, ids, sess, sigs, All
  <2> QED
    BY <2>1, <2>2
<1> QED
  BY <1>1, QuietStep DEF schedule, sys_kill, ids, sigs, ProcInv, TypeOK

\* A fork: the child has an id that no task has, and so no children yet.
LEMMA ForkStep ==
  ASSUME ProcInv, NEW t \in Tasks, NEW c \in Tasks, copy_process(t, c)
  PROVE  ProcInv'
<1> DEFINE new == find_empty_process
<1>1. new \in Pids /\ \A u \in Live : pid[u] # new
  BY NewPid DEF ProcInv
<1>2. TypeBut /\ LeaderOK /\ state[t] = "RUNNING" /\ state[c] = "NONE"
  BY TypeSplit DEF ProcInv, copy_process, User
<1> HIDE DEF new
<1>3. /\ state' = [state EXCEPT ![c] = "RUNNING"] /\ pid' = [pid EXCEPT ![c] = new]
      /\ father' = [father EXCEPT ![c] = pid[t]] /\ signal' = [signal EXCEPT ![c] = {}]
      /\ blocked' = [blocked EXCEPT ![c] = blocked[t]] /\ waits' = waits /\ last_pid' = new
      /\ session' = [session EXCEPT ![c] = session[t]] /\ caught' = [caught EXCEPT ![c] = caught[t]]
  BY DEF copy_process, new
<1>4. TypeOK'
  <2>1. TypeBut'
    BY <1>1, <1>2, <1>3 DEF TypeBut, Pids
  <2>2. LeaderOK'
    BY <1>2, Zenon DEF copy_process, LeaderOK
  <2> QED
    BY <2>1, <2>2, TypeSplit, PTL
<1>5. Live' = Live \cup {c} /\ c \notin Live /\ t \in Live /\ c # t /\ c # Init1
  BY <1>2, <1>3, ProcessAssumption DEF Live, TypeBut, ProcInv, IdInv
<1>6. \A u \in Live : state'[u] = state[u] /\ pid'[u] = pid[u] /\ father'[u] = father[u]
                     /\ signal'[u] = signal[u] /\ blocked'[u] = blocked[u] /\ waits'[u] = waits[u]
  BY <1>2, <1>3, <1>5 DEF TypeBut, Live
<1>7. pid'[c] = new /\ new # 0 /\ father'[c] = pid[t] /\ state'[c] = "RUNNING"
  BY <1>1, <1>2, <1>3 DEF TypeBut, Pids
<1>8. IdInv'
  <2>1. \A u \in Live' : pid'[u] # 0
    BY <1>5, <1>6, <1>7 DEF ProcInv, IdInv
  <2>2. \A u, v \in Live' : pid'[u] = pid'[v] => u = v
    BY <1>1, <1>5, <1>6, <1>7 DEF ProcInv, IdInv
  <2>3. Init1 \in Live
    BY ProcessAssumption DEF ProcInv, IdInv, Live
  <2>4. FatherAlive'
    <3> SUFFICES ASSUME NEW u \in Live', u # Init1
                 PROVE  \E f \in Tasks : pid'[f] = father'[u] /\ state'[f] \in {"RUNNING", "INTERRUPTIBLE"}
      BY DEF FatherAlive
    <3>1. CASE u = c
      BY <3>1, <1>2, <1>5, <1>6, <1>7
    <3>2. CASE u # c
      <4>1. u \in Live \ {Init1}
        BY <3>2, <1>5
      <4>2. PICK f \in Tasks : pid[f] = father[u] /\ state[f] \in {"RUNNING", "INTERRUPTIBLE"}
        BY <4>1 DEF ProcInv, IdInv, FatherAlive
      <4> QED
        BY <4>1, <4>2, <1>6 DEF Live
    <3> QED
      BY <3>1, <3>2
  <2> QED
    BY <2>1, <2>2, <2>3, <2>4, <1>6 DEF ProcInv, IdInv
<1>9. NoDeathMissed'
  <2> SUFFICES ASSUME NEW f \in Tasks, NEW z \in Children(f)', state'[f] = "INTERRUPTIBLE",
                      state'[z] = "ZOMBIE", pid'[z] \in waits'[f]
               PROVE  "CHLD" \in Deliverable(f)'
    BY DEF NoDeathMissed
  <2>1. z \in Live' /\ f \in Live' /\ z # c /\ f # c /\ father'[z] = pid'[f]
    BY <1>7 DEF Children, Live
  <2>2. z \in Live /\ f \in Live
    BY <2>1, <1>5
  <2>3. z \in Children(f) /\ state[f] = "INTERRUPTIBLE" /\ state[z] = "ZOMBIE" /\ pid[z] \in waits[f]
    BY <2>1, <2>2, <1>6 DEF Children
  <2> QED
    BY <2>2, <2>3, <1>6 DEF ProcInv, NoDeathMissed, Deliverable
<1> QED
  BY <1>4, <1>8, <1>9 DEF ProcInv

\* do_exit to its sleep: the children go to init, which is told of the dead.
LEMMA ExitStep ==
  ASSUME ProcInv, Unblocked, NEW t \in Tasks, t # Init1, state[t] = "RUNNING", Exit(t)
  PROVE  ProcInv'
<1> USE ProcessAssumption
<1>1. TypeOK'
  <2>1. TypeBut'
    BY TypeSplit DEF Exit, ProcInv, TypeBut, sess, sigs, All, Pids
  <2>2. LeaderOK'
    BY TypeSplit DEF Exit, ProcInv, LeaderOK, sess
  <2> QED
    BY <2>1, <2>2, TypeSplit, PTL
<1>2. /\ state' = [state EXCEPT ![t] = "EXITING"] /\ pid' = pid /\ blocked' = blocked /\ waits' = waits
      /\ father' = [c \in Tasks |-> IF c \in Children(t) THEN 1 ELSE father[c]]
      /\ \A u \in Tasks : signal[u] \subseteq signal'[u]
      /\ (\E c \in Children(t) : state[c] = "ZOMBIE") => "CHLD" \in signal'[Init1]
  BY DEF Exit, sigs, ProcInv, TypeOK
<1>3. state \in [Tasks -> {"NONE", "RUNNING", "INTERRUPTIBLE", "EXITING", "ZOMBIE"}]
  BY DEF ProcInv, TypeOK
<1>4. Live' = Live /\ t \in Live /\ Init1 \in Live /\ Live \subseteq Tasks
  BY <1>2, <1>3 DEF Live, ProcInv, IdInv
<1>5. Init1 \notin Children(t)
  BY <1>4 DEF Children, ProcInv, IdInv
<1>6. IdInv'
  <2>1. FatherAlive'
    <3> SUFFICES ASSUME NEW u \in Live, u # Init1
                 PROVE  \E f \in Tasks : pid[f] = father'[u] /\ state'[f] \in {"RUNNING", "INTERRUPTIBLE"}
      BY <1>2, <1>4 DEF FatherAlive
    <3>1. CASE u \in Children(t)
      <4>1. father'[u] = 1 /\ state'[Init1] \in {"RUNNING", "INTERRUPTIBLE"} /\ pid[Init1] = 1
        BY <3>1, <1>2, <1>3, <1>4 DEF ProcInv, IdInv
      <4> QED
        BY <4>1
    <3>2. CASE u \notin Children(t)
      <4>1. PICK f \in Tasks : pid[f] = father[u] /\ state[f] \in {"RUNNING", "INTERRUPTIBLE"}
        BY DEF ProcInv, IdInv, FatherAlive
      <4>2. f # t
        BY <3>2, <4>1 DEF Children
      <4> QED
        BY <3>2, <4>1, <4>2, <1>2, <1>3, <1>4
    <3> QED
      BY <3>1, <3>2
  <2>2. father'[Init1] = 0 /\ state'[Init1] = state[Init1]
    BY <1>2, <1>3, <1>5 DEF ProcInv, IdInv
  <2>3. state'[Init1] \in {"RUNNING", "INTERRUPTIBLE"} /\ pid'[Init1] = 1 /\ IdInv
    BY <2>2, <1>2 DEF ProcInv, IdInv
  <2> QED
    BY <2>1, <2>2, <2>3, <1>2, <1>4, IdsKept
<1>7. NoDeathMissed'
  <2> SUFFICES ASSUME NEW f \in Tasks, NEW z \in Children(f)', state'[f] = "INTERRUPTIBLE",
                      state'[z] = "ZOMBIE", pid'[z] \in waits'[f]
               PROVE  "CHLD" \in Deliverable(f)'
    BY DEF NoDeathMissed
  <2>1. /\ z \in Live /\ z # t /\ f # t /\ father'[z] = pid[f]
        /\ state[f] = "INTERRUPTIBLE" /\ state[z] = "ZOMBIE" /\ pid[z] \in waits[f]
    BY <1>2, <1>3, <1>4 DEF Children
  <2>2. CASE z \in Children(t)
    <3>1. pid[f] = pid[Init1] /\ f \in Live
      BY <2>1, <2>2, <1>2, <1>4 DEF ProcInv, IdInv, Live
    <3>2. f = Init1
      BY <3>1, <1>4 DEF ProcInv, IdInv
    <3>3. "CHLD" \in signal'[f] /\ "CHLD" \notin blocked[f]
      BY <3>2, <2>1, <2>2, <1>2 DEF Unblocked, ProcInv, TypeOK
    <3> QED
      BY <3>3, <1>2 DEF Deliverable
  <2>3. CASE z \notin Children(t)
    <3>1. z \in Children(f)
      BY <2>1, <2>3, <1>2, <1>4 DEF Children
    <3>2. "CHLD" \in signal[f] \ blocked[f]
      BY <3>1, <2>1 DEF ProcInv, NoDeathMissed, Deliverable
    <3> QED
      BY <3>2, <1>2 DEF Deliverable
  <2> QED
    BY <2>2, <2>3
<1> QED
  BY <1>1, <1>6, <1>7 DEF ProcInv

\* The end of do_exit: the father, which is alive, is told.
LEMMA ZombieStep ==
  ASSUME ProcInv, Unblocked, NEW t \in Tasks, do_exit(t)
  PROVE  ProcInv'
<1> USE ProcessAssumption
<1>1. TypeOK'
  <2>1. TypeBut'
    BY TypeSplit DEF do_exit, ProcInv, TypeBut, ids, sess, sigs, All
  <2>2. LeaderOK'
    BY TypeSplit DEF do_exit, ProcInv, LeaderOK, sess
  <2> QED
    BY <2>1, <2>2, TypeSplit, PTL
<1>2. /\ state[t] = "EXITING" /\ state' = [state EXCEPT ![t] = "ZOMBIE"]
      /\ pid' = pid /\ father' = father /\ blocked' = blocked /\ waits' = waits
      /\ \A u \in Tasks : signal[u] \subseteq signal'[u]
      /\ \A u \in Father(t) : "CHLD" \in signal'[u]
  BY DEF do_exit, ids, sigs, Father, Live
<1>3. state \in [Tasks -> {"NONE", "RUNNING", "INTERRUPTIBLE", "EXITING", "ZOMBIE"}]
  BY DEF ProcInv, TypeOK
<1>4. Live' = Live /\ Live \subseteq Tasks
  BY <1>2, <1>3 DEF Live
<1>5. \A f \in Tasks : state[f] \in {"RUNNING", "INTERRUPTIBLE"} => state'[f] = state[f]
  BY <1>2, <1>3
<1>6. IdInv'
  <2>1. IdInv /\ FatherAlive /\ Init1 \in Tasks
    BY DEF ProcInv, IdInv
  <2>2. FatherAlive'
    BY <2>1, <1>2, <1>4, <1>5, FathersKept
  <2>3. state'[Init1] \in {"RUNNING", "INTERRUPTIBLE"} /\ pid'[Init1] = 1 /\ father'[Init1] = 0
    BY <2>1, <1>2, <1>5 DEF IdInv
  <2> QED
    BY <2>1, <2>2, <2>3, <1>2, <1>4, IdsKept
<1>7. NoDeathMissed'
  <2> SUFFICES ASSUME NEW f \in Tasks, NEW z \in Children(f)', state'[f] = "INTERRUPTIBLE",
                      state'[z] = "ZOMBIE", pid'[z] \in waits'[f]
               PROVE  "CHLD" \in Deliverable(f)'
    BY DEF NoDeathMissed
  <2>1. z \in Children(f) /\ z \in Tasks /\ state[f] = "INTERRUPTIBLE" /\ pid[z] \in waits[f] /\ f \in Live
    BY <1>2, <1>3, <1>4 DEF Children, Live
  <2>2. "CHLD" \notin blocked[f]
    BY DEF Unblocked, ProcInv, TypeOK
  <2>3. CASE z = t
    <3>1. f \in Father(t)
      BY <2>1, <2>3 DEF Father, Children
    <3> QED
      BY <3>1, <2>2, <1>2 DEF Deliverable
  <2>4. CASE z # t
    <3>1. state[z] = "ZOMBIE"
      BY <2>1, <2>4, <1>2, <1>3
    <3>2. "CHLD" \in signal[f] \ blocked[f]
      BY <3>1, <2>1 DEF ProcInv, NoDeathMissed, Deliverable
    <3> QED
      BY <3>2, <1>2 DEF Deliverable
  <2> QED
    BY <2>3, <2>4
<1> QED
  BY <1>1, <1>6, <1>7 DEF ProcInv

\* A signal that is handled leaves the task as it is; one that is not ends it.
LEMMA DeliverStep ==
  ASSUME ProcInv, Unblocked, NEW t \in Tasks, do_signal(t)
  PROVE  ProcInv'
<1>1. PICK s \in Deliverable(t) :
          \/ /\ signal' = [signal EXCEPT ![t] = @ \ {s}]
             /\ caught' = [caught EXCEPT ![t] = @ \ {s}] \/ UNCHANGED caught
             /\ UNCHANGED <<state, ids, sess, blocked, waits>>
          \/ t # Init1 /\ Exit(t)
  BY DEF do_signal
<1>2. CASE t # Init1 /\ Exit(t)
  BY <1>2, ExitStep DEF do_signal, User
<1>3. CASE /\ signal' = [signal EXCEPT ![t] = @ \ {s}]
           /\ caught' = [caught EXCEPT ![t] = @ \ {s}] \/ UNCHANGED caught
           /\ UNCHANGED <<state, ids, sess, blocked, waits>>
  <2>1. TypeBut'
    BY <1>3, TypeSplit DEF ProcInv, TypeBut, ids, sess
  <2>2. LeaderOK'
    BY <1>3, TypeSplit DEF ProcInv, LeaderOK, sess
  <2>3. TypeOK'
    BY <2>1, <2>2, TypeSplit, PTL
  <2>4. \A u \in Tasks : state'[u] = "INTERRUPTIBLE" => signal'[u] = signal[u]
    BY <1>3 DEF do_signal, User, ProcInv, TypeOK
  <2> QED
    BY <1>3, <2>3, <2>4, QuietStep DEF ids
<1> QED
  BY <1>1, <1>2, <1>3

\* A pass of waitpid: a zombie that is reaped was nobody's father, and one that
\* is not found in the pass is not a child that is waited for.
LEMMA ScanStep ==
  ASSUME ProcInv, NEW t \in Tasks, state[t] = "RUNNING",
         NEW W, W \subseteq Pids, NEW sig, sig \subseteq All, Scan(t, W, sig)
  PROVE  ProcInv'
<1> USE ProcessAssumption
<1>0. state \in [Tasks -> {"NONE", "RUNNING", "INTERRUPTIBLE", "EXITING", "ZOMBIE"}]
  BY DEF ProcInv, TypeOK
<1> DEFINE asked == {c \in Children(t) \ {t} : pid[c] \in W}
           dead  == {c \in asked : state[c] = "ZOMBIE"}
           Reap(z) ==
             /\ state' = [state EXCEPT ![t] = "RUNNING", ![z] = "NONE"]
             /\ pid' = [pid EXCEPT ![z] = 0] /\ father' = [father EXCEPT ![z] = 0]
             /\ session' = [session EXCEPT ![z] = 0] /\ leader' = [leader EXCEPT ![z] = FALSE]
             /\ blocked' = [blocked EXCEPT ![z] = {}] /\ caught' = [caught EXCEPT ![z] = {}]
             /\ signal' = [signal EXCEPT ![t] = sig, ![z] = {}]
             /\ waits' = [waits EXCEPT ![t] = {}]
             /\ UNCHANGED last_pid
           Sleep ==
             /\ dead = {}
             /\ state' = [state EXCEPT ![t] = IF asked # {} THEN "INTERRUPTIBLE" ELSE "RUNNING"]
             /\ waits' = [waits EXCEPT ![t] = IF asked # {} THEN W ELSE {}]
             /\ signal' = [signal EXCEPT ![t] = sig]
             /\ UNCHANGED <<pid, father, sess, sigs, last_pid>>
<1>1. ASSUME NEW z \in dead, Reap(z)
      PROVE  ProcInv'
  <2>1. TypeBut'
    <3>1. TypeBut /\ z \in Tasks
      BY TypeSplit DEF ProcInv, Children, Live
    <3>2. /\ pid' \in [Tasks -> 0 .. MaxPid] /\ father' \in [Tasks -> 0 .. MaxPid]
          /\ session' \in [Tasks -> 0 .. MaxPid]
      BY <1>1, <3>1 DEF TypeBut
    <3>3. /\ state' \in [Tasks -> {"NONE", "RUNNING", "INTERRUPTIBLE", "EXITING", "ZOMBIE"}]
          /\ signal' \in [Tasks -> SUBSET All]
      BY <1>1, <3>1 DEF TypeBut
    <3>4. blocked' \in [Tasks -> Masks] /\ caught' \in [Tasks -> SUBSET Catchable]
      BY <1>1, <3>1 DEF TypeBut
    <3>5. waits' \in [Tasks -> SUBSET Pids] /\ last_pid' \in Pids
      BY <1>1, <3>1 DEF TypeBut
    <3> QED
      BY <3>2, <3>3, <3>4, <3>5 DEF TypeBut
  <2>2. LeaderOK'
    BY <1>1, TypeSplit DEF ProcInv, LeaderOK, Children, Live
  <2>3. TypeOK'
    BY <2>1, <2>2, TypeSplit, PTL
  <2>4. z \in Tasks /\ z # t /\ z # Init1 /\ state[z] = "ZOMBIE"
    BY DEF Children, Live, ProcInv, IdInv
  <2>5. /\ Live' = Live \ {z} /\ t \in Live
        /\ \A u \in Tasks \ {z} : pid'[u] = pid[u] /\ father'[u] = father[u]
        /\ \A u \in Tasks \ {z, t} :
               /\ state'[u] = state[u] /\ waits'[u] = waits[u]
               /\ signal'[u] = signal[u] /\ blocked'[u] = blocked[u]
        /\ state'[t] = "RUNNING" /\ state'[z] = "NONE"
    BY <1>0, <1>1, <2>4 DEF Live, ProcInv, TypeOK
  <2>6. IdInv'
    <3>1. FatherAlive'
      <4> SUFFICES ASSUME NEW u \in Live', u # Init1
                   PROVE  \E f \in Tasks : pid'[f] = father'[u] /\ state'[f] \in {"RUNNING", "INTERRUPTIBLE"}
        BY DEF FatherAlive
      <4>1. u \in Live /\ u # z /\ u \in Tasks
        BY <2>5 DEF Live
      <4>2. PICK f \in Tasks : pid[f] = father[u] /\ state[f] \in {"RUNNING", "INTERRUPTIBLE"}
        BY <4>1 DEF ProcInv, IdInv, FatherAlive
      <4>3. f # z
        BY <4>2, <2>4
      <4> QED
        BY <4>1, <4>2, <4>3, <2>5
    <3>2. \A u \in Live' : u \in Live /\ u \in Tasks \ {z}
      BY <2>5 DEF Live
    <3>3. IdInv /\ Init1 \in Tasks \ {z}
      BY <2>4 DEF ProcInv
    <3>4. state'[Init1] \in {"RUNNING", "INTERRUPTIBLE"} /\ pid'[Init1] = 1 /\ father'[Init1] = 0
      BY <3>3, <2>5 DEF IdInv
    <3>5. \A u \in Live' : pid'[u] = pid[u]
      BY <3>2, <2>5
    <3>6. Live' \subseteq Live
      BY <3>2
    <3> QED
      BY <3>1, <3>3, <3>4, <3>5, <3>6, IdsKept
  <2>7. NoDeathMissed'
    <3> SUFFICES ASSUME NEW f \in Tasks, NEW c \in Children(f)', state'[f] = "INTERRUPTIBLE",
                        state'[c] = "ZOMBIE", pid'[c] \in waits'[f]
                 PROVE  "CHLD" \in Deliverable(f)'
      BY DEF NoDeathMissed
    <3>1. f # t /\ f # z /\ c \in Live /\ c \in Tasks /\ c # z /\ c # t
      BY <2>5 DEF Children, Live
    <3>2. c \in Children(f)
      BY <3>1, <2>5 DEF Children
    <3> QED
      BY <3>1, <3>2, <2>5 DEF ProcInv, NoDeathMissed, Deliverable
  <2> QED
    BY <2>3, <2>6, <2>7 DEF ProcInv
<1>2. ASSUME Sleep
      PROVE  ProcInv'
  <2>1. TypeBut'
    BY <1>2, TypeSplit DEF ProcInv, TypeBut, sess, sigs
  <2>2. LeaderOK'
    BY <1>2, TypeSplit DEF ProcInv, LeaderOK, sess
  <2>3. TypeOK'
    BY <2>1, <2>2, TypeSplit, PTL
  <2>4. /\ Live' = Live /\ pid' = pid /\ father' = father /\ blocked' = blocked
        /\ \A u \in Tasks \ {t} : state'[u] = state[u] /\ waits'[u] = waits[u] /\ signal'[u] = signal[u]
        /\ state'[t] \in {"RUNNING", "INTERRUPTIBLE"}
        /\ state'[t] = "INTERRUPTIBLE" => waits'[t] = W
    BY <1>0, <1>2 DEF Live, sigs, ProcInv, TypeOK
  <2>5. IdInv'
    <3>1. \A f \in Tasks : state[f] \in {"RUNNING", "INTERRUPTIBLE"} => state'[f] \in {"RUNNING", "INTERRUPTIBLE"}
      BY <2>4
    <3>2. IdInv /\ FatherAlive /\ Init1 \in Tasks
      BY DEF ProcInv, IdInv
    <3>3. FatherAlive'
      BY <3>1, <3>2, <2>4, FathersKept
    <3>4. state'[Init1] \in {"RUNNING", "INTERRUPTIBLE"} /\ pid'[Init1] = 1 /\ father'[Init1] = 0
      BY <3>1, <3>2, <2>4 DEF IdInv
    <3> QED
      BY <3>2, <3>3, <3>4, <2>4, IdsKept
  <2>6. NoDeathMissed'
    <3> SUFFICES ASSUME NEW f \in Tasks, NEW c \in Children(f)', state'[f] = "INTERRUPTIBLE",
                        state'[c] = "ZOMBIE", pid'[c] \in waits'[f]
                 PROVE  "CHLD" \in Deliverable(f)'
      BY DEF NoDeathMissed
    <3>1. c \in Children(f) /\ c \in Tasks /\ c # t /\ state[c] = "ZOMBIE"
      BY <2>4 DEF Children, Live
    <3>2. f # t
      BY <1>2, <3>1, <2>4
    <3> QED
      BY <3>1, <3>2, <2>4 DEF ProcInv, NoDeathMissed, Deliverable
  <2> QED
    BY <2>3, <2>5, <2>6 DEF ProcInv
<1>3. (\E z \in dead : Reap(z)) \/ Sleep
  BY DEF Scan
<1> QED
  BY <1>1, <1>2, <1>3

\* waitpid wakes: it goes on, or returns because of another signal.
LEMMA RepeatStep ==
  ASSUME ProcInv, NEW t \in Tasks, sys_waitpid_repeat(t)
  PROVE  ProcInv'
<1> DEFINE rest == signal[t] \ {"CHLD"}
<1>1. CASE rest = {}
  <2>1. Scan(t, waits[t], {}) /\ state[t] = "RUNNING" /\ waits[t] \subseteq Pids
    <3>1. Scan(t, waits[t], {}) /\ state[t] = "RUNNING"
      BY <1>1 DEF sys_waitpid_repeat
    <3>2. waits \in [Tasks -> SUBSET Pids]
      BY DEF ProcInv, TypeOK
    <3> QED
      BY <3>1, <3>2
  <2>2. waits[t] \subseteq Pids /\ {} \subseteq All
    BY <2>1
  <2> DEFINE W == waits[t]
  <2>3. Scan(t, W, {}) /\ state[t] = "RUNNING" /\ W \subseteq Pids /\ {} \subseteq All
    BY <2>1, <2>2
  <2> HIDE DEF W
  <2> QED
    BY <2>3, ScanStep
<1>2. CASE rest # {}
  <2>1. /\ state[t] = "RUNNING" /\ signal' = [signal EXCEPT ![t] = rest]
        /\ waits' = [waits EXCEPT ![t] = {}] /\ UNCHANGED <<state, ids, sess, sigs>>
    BY <1>2 DEF sys_waitpid_repeat
  <2>2. TypeBut'
    BY <2>1, TypeSplit DEF ProcInv, TypeBut, ids, sess, sigs
  <2>3. LeaderOK'
    BY <2>1, TypeSplit DEF ProcInv, LeaderOK, sess
  <2>4. TypeOK'
    BY <2>2, <2>3, TypeSplit, PTL
  <2>5. \A u \in Tasks : state'[u] = "INTERRUPTIBLE" =>
            waits'[u] = waits[u] /\ blocked'[u] = blocked[u] /\ signal[u] \subseteq signal'[u]
    BY <2>1 DEF ProcInv, TypeOK, sigs
  <2> QED
    BY <2>1, <2>4, <2>5, QuietStep DEF ids
<1> QED
  BY <1>1, <1>2

------------------------------------------------------------------------------
\* Only init exists, and it has id 1.
LEMMA InitProc == Init => ProcInv
<1> USE ProcessAssumption
<1> SUFFICES ASSUME Init PROVE ProcInv
  OBVIOUS
<1>1. TypeBut
  <2>1. 0 < MaxPid
    BY FS_CardinalityType, FS_EmptySet
  <2> QED
    BY <2>1 DEF Init, TypeBut, Pids
<1>2. LeaderOK
  BY DEF Init, LeaderOK
<1>3. Live = {Init1}
  BY DEF Init, Live
<1>4. IdInv
  BY <1>3 DEF Init, IdInv, FatherAlive
<1>5. NoDeathMissed
  BY DEF Init, NoDeathMissed
<1> QED
  BY <1>1, <1>2, <1>4, <1>5, TypeSplit DEF ProcInv

\* One lemma per group of actions.
LEMMA ProcStep == ASSUME Unblocked, ProcInv, [Next]_vars PROVE ProcInv'
<1>1. CASE UNCHANGED vars
  <2>1. ProcInv <=> ProcInv'
    BY <1>1 DEF vars, ids, sess, sigs, ProcInv, TypeOK, IdInv, FatherAlive, NoDeathMissed,
                Live, Children, Deliverable
  <2> QED
    BY <2>1
<1>2. CASE schedule \/ sys_kill(Live \ {Init1}) \/ \E u \in Live \ {Init1} : sys_kill({u})
  BY <1>2, SignalStep
<1>3. ASSUME NEW t \in Tasks,
             sys_setsid(t) \/ sys_ssetmask(t) \/ sys_signal(t) \/ do_execve(t)
      PROVE  ProcInv'
  BY <1>3, SettingsStep
<1>4. ASSUME NEW t \in Tasks, sys_exit(t)
      PROVE  ProcInv'
  BY <1>4, ExitStep DEF sys_exit, User
<1>5. ASSUME NEW t \in Tasks, do_exit(t) \/ do_signal(t) \/ sys_waitpid_repeat(t)
      PROVE  ProcInv'
  BY <1>5, ZombieStep, DeliverStep, RepeatStep
<1>6. ASSUME NEW t \in Tasks, NEW W, W \subseteq Pids, sys_waitpid(t, W)
      PROVE  ProcInv'
  <2>1. state[t] = "RUNNING" /\ signal[t] \subseteq All /\ Scan(t, W, signal[t])
    BY <1>6 DEF sys_waitpid, User, ProcInv, TypeOK
  <2> QED
    BY <1>6, <2>1, ScanStep
<1>7. ASSUME NEW t \in Tasks, NEW u \in Live, sys_waitpid(t, {pid[u]})
      PROVE  ProcInv'
  <2>1. pid[u] \in Pids
    BY ProcessAssumption DEF Live, Pids, ProcInv, TypeOK, IdInv
  <2> QED
    BY <1>6, <1>7, <2>1
<1>8. ASSUME NEW t \in Tasks, NEW u \in Tasks, copy_process(t, u)
      PROVE  ProcInv'
  BY <1>8, ForkStep
<1>9. CASE Next
  BY <1>9, <1>2, <1>3, <1>4, <1>5, <1>6, <1>7, <1>8 DEF Next
<1> QED
  BY <1>1, <1>9

\* Whatever the number of task slots, wherever the counter of last_pid wraps and
\* whatever signals are sent, as long as no task blocks SIGCHLD: no two tasks
\* share an id, the father tell_father looks for is alive, and a father asleep
\* in sys_waitpid for a zombie has the signal that wakes it.
THEOREM NoDeathUnseen == ASSUME Unblocked PROVE Spec => []DeathsSeen
<1>1. ProcInv /\ [Next]_vars => ProcInv'
  BY ProcStep
<1>2. ProcInv => DeathsSeen
  BY DEF ProcInv, IdInv, DeathsSeen, PidsUnique
<1> QED
  BY <1>1, <1>2, InitProc, PTL DEF Spec
==============================================================================
