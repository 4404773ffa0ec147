------------------------------ MODULE SemProofs ------------------------------
(***************************************************************************)
(* Proofs about the Posix semaphore in a mapped file, for any number of    *)
(* processes and files: those who open the pathname come to share one      *)
(* initialized semaphore, its units are conserved, and one who waits is    *)
(* not left asleep.                                                        *)
(***************************************************************************)
EXTENDS MC_Ipc, TLAPS

\* What is known of the calls of mysem_open under way: a descriptor is open where
\* the code uses it and a creator turns the mode bit off only after the
\* initialization; and as long as nobody has unlinked the pathname, there is one
\* file, whose bit is on until it is complete.
Opening ==
    /\ \A p \in SemProcs : /\ at_open[p] \in {"init", "fchmod", "stat", "open"} => fd[p] # 0
                           /\ at_open[p] = "fchmod" => fd[p] \in complete
    /\ ~unlinked => /\ path = made
                    /\ \A p \in SemProcs : fd[p] \in {0, path}
                    /\ path # 0 => path \in xusr \/ path \in complete
                    /\ \A p \in SemProcs : at_open[p] = "open" => fd[p] \in complete

\* Every step of mysem_open leaves the variables in their types: what a creator
\* initializes is a file, which it has open.
LEMMA OpenTypes ==
  ASSUME Sem!OpenTypeOK, Opening, Sem!OpenNext
  PROVE  Sem!OpenTypeOK'
<1> USE SemAssumption DEF Sem!OpenTypeOK
<1>1. CASE Sem!unlink
  BY <1>1 DEF Sem!unlink
<1>2. ASSUME NEW p \in SemProcs, Sem!open_creat(p) PROVE Sem!OpenTypeOK'
  <2>1. /\ path' \in SemFiles \cup {0} /\ made' \in SemFiles \cup {0}
        /\ xusr' \subseteq SemFiles /\ complete' \subseteq SemFiles
    <3>1. CASE path = 0
      <4>1. made' \in SemFiles /\ path' = made' /\ xusr' = xusr \cup {path'} /\ complete' = complete
        BY <1>2, <3>1, Zenon DEF Sem!open_creat
      <4> QED
        BY <4>1, SMT
    <3>2. CASE path # 0
      BY <1>2, <3>2, Zenon DEF Sem!open_creat
    <3> QED
      BY <3>1, <3>2
  <2>2. /\ at_open' \in [SemProcs -> {"again", "init", "fchmod", "exists", "stat",
                                   "open", "err", "dead"}]
        /\ fd' \in [SemProcs -> SemFiles \cup {0}]
        /\ tries' \in [SemProcs -> 0 .. SemTries - 1]
    BY <1>2, SMT DEF Sem!open_creat, Sem!Goto
  <2>3. unlinked' \in BOOLEAN
    BY <1>2, Zenon DEF Sem!open_creat, Sem!Goto
  <2> QED
    BY <2>1, <2>2, <2>3, Zenon
<1>3. ASSUME NEW p \in SemProcs, Sem!initialize(p) PROVE Sem!OpenTypeOK'
  <2>1. /\ path' \in SemFiles \cup {0} /\ made' \in SemFiles \cup {0}
        /\ xusr' \subseteq SemFiles /\ complete' \subseteq SemFiles
    BY <1>3 DEF Sem!initialize, Sem!undo, Sem!Goto, Opening
  <2>2. /\ at_open' \in [SemProcs -> {"again", "init", "fchmod", "exists", "stat",
                                   "open", "err", "dead"}]
        /\ fd' \in [SemProcs -> SemFiles \cup {0}]
        /\ tries' \in [SemProcs -> 0 .. SemTries - 1]
    BY <1>3, SMT DEF Sem!initialize, Sem!undo, Sem!Goto
  <2>3. unlinked' \in BOOLEAN
    BY <1>3, Zenon DEF Sem!initialize, Sem!undo, Sem!Goto
  <2> QED
    BY <2>1, <2>2, <2>3, Zenon
<1>4. ASSUME NEW p \in SemProcs, Sem!fchmod(p) PROVE Sem!OpenTypeOK'
  BY <1>4 DEF Sem!fchmod, Sem!undo, Sem!Goto
<1>5. ASSUME NEW p \in SemProcs, Sem!open_exists(p) PROVE Sem!OpenTypeOK'
  BY <1>5 DEF Sem!open_exists, Sem!Enoent, Sem!Goto
<1>6. ASSUME NEW p \in SemProcs, Sem!stat(p) PROVE Sem!OpenTypeOK'
  BY <1>6 DEF Sem!stat, Sem!Enoent, Sem!Goto
<1>7. ASSUME NEW p \in SemProcs, Sem!crash(p) PROVE Sem!OpenTypeOK'
  BY <1>7 DEF Sem!crash, Sem!Goto
<1> QED
  BY <1>1, <1>2, <1>3, <1>4, <1>5, <1>6, <1>7, Zenon DEF Sem!OpenNext, Sem!step

\* Every step of mysem_open keeps what is known of the calls under way: the
\* creator of the one file leaves its bit on until the contents are there, so who
\* finds the bit off has opened a complete file, unless the file was replaced.
LEMMA OpenKeeps ==
  ASSUME Sem!OpenTypeOK, Opening, Sem!OpenNext
  PROVE  Opening'
<1> USE SemAssumption DEF Sem!OpenTypeOK, Opening
<1>1. CASE Sem!unlink
  BY <1>1, Zenon DEF Sem!unlink
<1>2. ASSUME NEW p \in SemProcs, Sem!open_creat(p) PROVE Opening'
  <2>1. CASE path = 0
    <3>1. /\ path' # 0 /\ path' = made' /\ path' \in xusr'
          /\ at_open' = [at_open EXCEPT ![p] = "init"] /\ fd' = [fd EXCEPT ![p] = path']
          /\ complete' = complete /\ unlinked' = unlinked
      BY <1>2, <2>1 DEF Sem!open_creat, Sem!Goto
    <3> QED
      BY <2>1, <3>1, Zenon
  <2>2. CASE path # 0
    <3>1. /\ at_open' = [at_open EXCEPT ![p] = "exists"]
          /\ UNCHANGED <<path, made, xusr, fd, complete, unlinked>>
      BY <1>2, <2>2, Zenon DEF Sem!open_creat, Sem!Goto
    <3> QED
      BY <3>1, Zenon
  <2> QED
    BY <2>1, <2>2
<1>3. ASSUME NEW p \in SemProcs, Sem!initialize(p) PROVE Opening'
  <2>1. CASE Sem!undo(p)
    <3>1. /\ at_open' = [at_open EXCEPT ![p] = "err"] /\ fd' = [fd EXCEPT ![p] = 0]
          /\ unlinked' /\ complete \subseteq complete'
      BY <1>3, <2>1, Zenon DEF Sem!initialize, Sem!undo, Sem!Goto
    <3> QED
      BY <3>1, Zenon
  <2>2. CASE ~Sem!undo(p)
    <3>1. /\ at_open' = [at_open EXCEPT ![p] = "fchmod"]
          /\ complete' = complete \cup {fd[p]} /\ UNCHANGED <<path, made, xusr, fd, unlinked>>
      BY <1>3, <2>2, Zenon DEF Sem!initialize, Sem!Goto
    <3> QED
      BY <1>3, <3>1, Zenon DEF Sem!initialize
  <2> QED
    BY <2>1, <2>2
<1>4. ASSUME NEW p \in SemProcs, Sem!fchmod(p) PROVE Opening'
  <2>1. CASE Sem!undo(p)
    <3>1. /\ at_open' = [at_open EXCEPT ![p] = "err"] /\ fd' = [fd EXCEPT ![p] = 0]
          /\ unlinked' /\ complete' = complete
      BY <1>4, <2>1, Zenon DEF Sem!fchmod, Sem!undo, Sem!Goto
    <3> QED
      BY <3>1, Zenon
  <2>2. CASE ~Sem!undo(p)
    <3>1. /\ at_open[p] = "fchmod" /\ at_open' = [at_open EXCEPT ![p] = "open"]
          /\ xusr' = xusr \ {fd[p]} /\ UNCHANGED <<path, made, complete, fd, unlinked>>
      BY <1>4, <2>2, Zenon DEF Sem!fchmod, Sem!Goto
    <3> QED
      BY <3>1, Zenon
  <2> QED
    BY <2>1, <2>2
<1>5. ASSUME NEW p \in SemProcs, Sem!open_exists(p) PROVE Opening'
  <2>1. CASE path = 0
    <3>1. /\ at_open' = [at_open EXCEPT ![p] = IF p \in SemCreators THEN "again" ELSE "err"]
          /\ UNCHANGED <<path, made, xusr, complete, fd, unlinked>>
      BY <1>5, <2>1, Zenon DEF Sem!open_exists, Sem!Enoent, Sem!Goto
    <3> QED
      BY <3>1
  <2>2. CASE path # 0
    <3>1. /\ at_open' = [at_open EXCEPT ![p] = "stat"] /\ fd' = [fd EXCEPT ![p] = path]
          /\ UNCHANGED <<path, made, xusr, complete, unlinked>>
      BY <1>5, <2>2, Zenon DEF Sem!open_exists, Sem!Goto
    <3> QED
      BY <2>2, <3>1, Zenon
  <2> QED
    BY <2>1, <2>2
<1>6. ASSUME NEW p \in SemProcs, Sem!stat(p) PROVE Opening'
  <2>1. /\ UNCHANGED <<path, made, xusr, complete, unlinked>>
        /\ at_open[p] = "stat"
    BY <1>6, Zenon DEF Sem!stat
  <2>2. CASE fd' = [fd EXCEPT ![p] = 0]
             /\ \E w \in {"again", "err"} : at_open' = [at_open EXCEPT ![p] = w]
    BY <2>1, <2>2
  <2>3. CASE UNCHANGED <<at_open, fd>>
    BY <2>1, <2>3, Zenon
  <2>4. CASE path # 0 /\ path \notin xusr /\ fd' = fd
             /\ at_open' = [at_open EXCEPT ![p] = "open"]
    BY <2>1, <2>4, Zenon
  <2> QED
    BY <1>6, <2>2, <2>3, <2>4 DEF Sem!stat, Sem!Enoent, Sem!Goto
<1>7. ASSUME NEW p \in SemProcs, Sem!crash(p) PROVE Opening'
  BY <1>7, Zenon DEF Sem!crash, Sem!Goto
<1> QED
  BY <1>1, <1>2, <1>3, <1>4, <1>5, <1>6, <1>7, Zenon DEF Sem!OpenNext, Sem!step

------------------------------------------------------------------------------
\* The units of each semaphore, and who is in mysem_wait: in the file it has
\* mapped, whose value is zero if it sleeps.  The last holds for one waiter: with
\* two, the second may sleep between a post and the wakeup of the first.
Units ==
    /\ sem_count \in [SemFiles -> Nat] /\ taken \in [SemFiles -> Nat]
    /\ posts \in [SemFiles -> 0 .. SemPosts]
    /\ at \in [SemProcs -> {"out", "blocked", "woken"}]
    /\ \A f \in SemFiles : sem_count[f] + taken[f] = SemInitial + posts[f]

OneWaiter == \A p, q \in SemWaiters : p = q

Sleeping ==
    \A p \in SemProcs :
        /\ at[p] # "out" => p \in SemWaiters
        /\ at[p] = "blocked" => at_open[p] = "open" /\ fd[p] \in SemFiles /\ sem_count[fd[p]] = 0

\* What a process does with the semaphore in file f.
Use(p, f) ==
    /\ Sem!Has(p, f)
    /\ Sem!mysem_wait(p, f) \/ Sem!mysem_trywait(p, f) \/ Sem!mysem_post(p, f) \/ Sem!spurious(p)

\* Every call conserves the units: a wait takes one that is there.
LEMMA UnitsKept ==
  ASSUME Units, NEW p \in SemProcs, NEW f \in SemFiles, Use(p, f)
  PROVE  Units'
<1> USE SemAssumption DEF Units
<1>1. ASSUME sem_count[f] > 0, Sem!Take(p, f), UNCHANGED posts PROVE Units'
  BY <1>1 DEF Sem!Take
<1>2. CASE Sem!mysem_wait(p, f)
  <2>1. CASE at' = [at EXCEPT ![p] = "blocked"] /\ UNCHANGED <<sem_count, taken, posts>>
    BY <2>1
  <2> QED
    BY <1>1, <1>2, <2>1 DEF Sem!mysem_wait
<1>3. CASE Sem!mysem_trywait(p, f)
  BY <1>1, <1>3 DEF Sem!mysem_trywait
<1>4. CASE Sem!mysem_post(p, f)
  <2>1. at' \in [SemProcs -> {"out", "blocked", "woken"}]
    BY <1>4 DEF Sem!mysem_post, Sem!Signal, Sem!Blocked
  <2>2. /\ posts' = [posts EXCEPT ![f] = @ + 1] /\ posts[f] < SemPosts
        /\ sem_count' = [sem_count EXCEPT ![f] = @ + 1] /\ taken' = taken
    BY <1>4 DEF Sem!mysem_post
  <2> QED
    BY <2>1, <2>2
<1>5. CASE Sem!spurious(p)
  BY <1>5 DEF Sem!spurious
<1> QED
  BY <1>2, <1>3, <1>4, <1>5 DEF Use

\* With one waiter a post that finds the value zero wakes whoever sleeps, so
\* nobody sleeps while the value is positive.
LEMMA SleepingKept ==
  ASSUME Units, Sleeping, OneWaiter,
         NEW p \in SemProcs, NEW f \in SemFiles, Use(p, f), UNCHANGED Sem!file
  PROVE  Sleeping'
<1> USE DEF Sleeping
<1>1. UNCHANGED <<at_open, fd, complete>> /\ at_open[p] = "open" /\ f = fd[p] /\ f \in complete
  BY Zenon DEF Use, Sem!Has, Sem!file
<1>2. ASSUME sem_count[f] > 0, Sem!Take(p, f) PROVE Sleeping'
  BY <1>1, <1>2, SemAssumption DEF Sem!Take, Units
<1>3. CASE Sem!mysem_wait(p, f)
  <2>1. CASE sem_count[f] = 0 /\ at' = [at EXCEPT ![p] = "blocked"] /\ UNCHANGED sem_count
    BY <1>1, <1>3, <2>1 DEF Sem!mysem_wait, Units
  <2> QED
    BY <1>2, <1>3, <2>1, Zenon DEF Sem!mysem_wait
<1>4. CASE Sem!mysem_trywait(p, f)
  BY <1>2, <1>4, Zenon DEF Sem!mysem_trywait
<1>5. CASE Sem!mysem_post(p, f)
  <2>1. sem_count' = [sem_count EXCEPT ![f] = @ + 1]
    BY <1>5, Zenon DEF Sem!mysem_post
  <2>2. CASE UNCHANGED at /\ \A q \in SemProcs : ~(at[q] = "blocked" /\ fd[q] = f)
    BY <1>1, <2>1, <2>2 DEF Units
  <2>3. ASSUME NEW q \in SemProcs, at[q] = "blocked", at' = [at EXCEPT ![q] = "woken"]
        PROVE  Sleeping'
    <3>1. \A r \in SemProcs : at[r] = "blocked" => r = q
      BY <2>3, Zenon DEF OneWaiter
    <3> QED
      BY <2>3, <3>1 DEF Units
  <2>4. CASE sem_count[f] = 0
    <3>1. CASE Sem!Blocked(f) = {}
      <4>1. UNCHANGED at
        BY <1>5, <2>4, <3>1, Zenon DEF Sem!mysem_post, Sem!Signal
      <4>2. \A q \in SemProcs : ~(at[q] = "blocked" /\ fd[q] = f)
        BY <1>1, <3>1, Zenon DEF Sem!Blocked, Sem!Has
      <4> QED
        BY <2>2, <4>1, <4>2, Zenon
    <3>2. CASE Sem!Blocked(f) # {}
      <4>1. \E q \in Sem!Blocked(f) : at' = [at EXCEPT ![q] = "woken"]
        BY <1>5, <2>4, <3>2, Zenon DEF Sem!mysem_post, Sem!Signal
      <4> QED
        BY <2>3, <4>1, Zenon DEF Sem!Blocked
    <3> QED
      BY <3>1, <3>2
  <2>5. CASE sem_count[f] # 0
    BY <1>5, <2>2, <2>5 DEF Sem!mysem_post
  <2> QED
    BY <2>4, <2>5
<1>6. CASE Sem!spurious(p)
  BY <1>1, <1>6 DEF Sem!spurious, Units
<1> QED
  BY <1>3, <1>4, <1>5, <1>6 DEF Use

\* While a process opens the file, those who wait stay where they are: a process
\* that has the file open takes no step of mysem_open.
LEMMA OpenWaits ==
  ASSUME Sem!OpenTypeOK, Sleeping, Sem!OpenNext, UNCHANGED Sem!sems
  PROVE  Sleeping'
<1>1. ASSUME NEW q \in SemProcs, at_open[q] = "open" PROVE at_open'[q] = "open" /\ fd'[q] = fd[q]
  <2>1. CASE Sem!unlink
    BY <1>1, <2>1 DEF Sem!unlink
  <2>2. ASSUME NEW p \in SemProcs, Sem!step(p) \/ Sem!crash(p)
        PROVE  at_open'[q] = "open" /\ fd'[q] = fd[q]
    <3>1. p # q
      BY <1>1, <2>2 DEF Sem!step, Sem!crash, Sem!open_creat, Sem!initialize, Sem!fchmod,
                        Sem!open_exists, Sem!stat
    <3>2. at_open' = at_open \/ \E w : at_open' = [at_open EXCEPT ![p] = w]
      BY <2>2, Zenon DEF Sem!step, Sem!crash, Sem!open_creat, Sem!initialize, Sem!fchmod,
            Sem!open_exists, Sem!stat, Sem!undo, Sem!Enoent, Sem!Goto
    <3>3. fd' = fd \/ \E v : fd' = [fd EXCEPT ![p] = v]
      BY <2>2, Zenon DEF Sem!step, Sem!crash, Sem!open_creat, Sem!initialize, Sem!fchmod,
            Sem!open_exists, Sem!stat, Sem!undo
    <3> QED
      BY <1>1, <3>1, <3>2, <3>3 DEF Sem!OpenTypeOK
  <2> QED
    BY <2>1, <2>2, Zenon DEF Sem!OpenNext
<1> QED
  BY <1>1, Zenon DEF Sleeping, Sem!sems

------------------------------------------------------------------------------
SemInv == Sem!OpenTypeOK /\ Opening /\ Units /\ (OneWaiter => Sleeping)

\* The invariant holds before any process opens the pathname.
LEMMA SemStarts ==
  ASSUME Sem!Init
  PROVE  SemInv
<1> USE SemAssumption
<1>1. Sem!OpenTypeOK
  <2>1. unlinked \in BOOLEAN
    BY Zenon DEF Sem!Init, Sem!OpenInit
  <2>2. tries \in [SemProcs -> 0 .. SemTries - 1]
    BY SMT DEF Sem!Init, Sem!OpenInit
  <2> QED
    BY <2>1, <2>2, Zenon DEF Sem!Init, Sem!OpenInit, Sem!OpenTypeOK
<1>2. Opening
  BY DEF Sem!Init, Sem!OpenInit, Opening
<1>3. Units
  BY DEF Sem!Init, Units
<1>4. Sleeping
  BY DEF Sem!Init, Sleeping
<1> QED
  BY <1>1, <1>2, <1>3, <1>4 DEF SemInv

\* A step of any part keeps what is known of the semaphore.
LEMMA SemSteps ==
  ASSUME SemInv, [MCNext]_all
  PROVE  SemInv'
<1>1. CASE UNCHANGED <<opening, posting>>
  BY <1>1, Zenon DEF SemInv, opening, posting, Opening, Units, Sleeping, Sem!OpenTypeOK, OneWaiter
<1>2. CASE Sem!OpenNext /\ UNCHANGED Sem!sems
  <2>1. Units'
    BY <1>2, Zenon DEF SemInv, Units, Sem!sems
  <2>2. Sem!OpenTypeOK' /\ Opening' /\ (Sleeping => Sleeping')
    BY <1>2, OpenTypes, OpenKeeps, OpenWaits, Zenon DEF SemInv
  <2> QED
    BY <2>1, <2>2, Zenon DEF SemInv, OneWaiter
<1>3. ASSUME NEW p \in SemProcs, NEW f \in SemFiles, Use(p, f), UNCHANGED Sem!file
      PROVE  SemInv'
  <2>1. Sem!OpenTypeOK' /\ Opening'
    BY <1>3, Zenon DEF SemInv, Sem!file, Opening, Sem!OpenTypeOK
  <2>2. Units' /\ (OneWaiter /\ Sleeping => Sleeping')
    BY <1>3, UnitsKept, SleepingKept, Zenon DEF SemInv, OneWaiter
  <2> QED
    BY <2>1, <2>2, Zenon DEF SemInv, OneWaiter
<1> QED
  BY <1>1, <1>2, <1>3, Zenon DEF MCNext, all, PipeOnly, LockOnly, SemOnly, Sem!Next, Use

\* The invariant of the semaphore holds throughout, whatever part runs.
LEMMA SemInvariant == MCSpec => []SemInv
<1>1. MCInit => SemInv
  BY SemStarts, Zenon DEF MCInit
<1>2. SemInv /\ [MCNext]_all => SemInv'
  BY SemSteps, Zenon
<1> QED
  BY <1>1, <1>2, PTL DEF MCSpec

\* Whoever opens the pathname with mysem_open, however the calls of the creators,
\* of the others and the crashes interleave, shares one initialized semaphore
\* until the pathname is unlinked, and no more waits succeed than the initial
\* value and the posts allow, with any number of processes and waiters.
THEOREM SemShared == MCSpec => [](Sem!OpenedComplete /\ Sem!OneObject /\ Sem!Conserved)
<1>1. ASSUME SemInv PROVE Sem!OpenedComplete
  BY <1>1, Zenon DEF SemInv, Opening, Sem!OpenedComplete
<1>2. ASSUME SemInv PROVE Sem!OneObject
  BY <1>2, Zenon DEF SemInv, Opening, Sem!OneObject
<1>3. ASSUME SemInv PROVE Sem!Conserved
  <2>1. /\ sem_count \in [SemFiles -> 0 .. SemInitial + SemPosts]
        /\ taken \in [SemFiles -> 0 .. SemInitial + SemPosts]
    BY <1>3, SemAssumption DEF SemInv, Units
  <2> QED
    BY <1>3, <2>1, Zenon DEF SemInv, Units, Sem!Conserved, Sem!TypeOK
<1> QED
  BY <1>1, <1>2, <1>3, SemInvariant, PTL

\* SemaphoreSound for every number of processes and files, if one process at most
\* calls mysem_wait: then mysem_post, which signals only when the value was zero,
\* leaves nobody asleep while the value is positive.
THEOREM SemStaysSound == MCSpec => [](OneWaiter => SemaphoreSound)
<1>1. ASSUME SemInv, OneWaiter PROVE Sem!NobodyBlockedInVain
  BY <1>1, SemAssumption DEF SemInv, Sleeping, Units, Sem!NobodyBlockedInVain, Sem!Blocked, Sem!Has
<1>2. ASSUME SemInv, Sem!OpenedComplete /\ Sem!OneObject /\ Sem!Conserved
      PROVE  OneWaiter => SemaphoreSound
  BY <1>1, <1>2, Zenon DEF SemaphoreSound, Sem!SemaphoreSound
<1> QED
  BY <1>2, SemInvariant, SemShared, PTL
==============================================================================
