-------------------------------- MODULE PxSem --------------------------------
(***************************************************************************)
(* Posix semaphores in a mapped file (my_pxsem_mmap).  First, how the      *)
(* processes come to share the file, as those of a message queue do too:   *)
(* mysem_open and mymq_open with O_CREAT, and the unlink functions.  The   *)
(* creator keeps the file's user-execute bit on until the contents are     *)
(* initialized; the others look at the bit through the pathname while they *)
(* hold a descriptor they opened before.  An action is one system call     *)
(* with the code up to the next.                                           *)
(***************************************************************************)
EXTENDS Naturals, FiniteSets

CONSTANTS Procs,
          Creators,    \* the processes that pass O_CREAT (the others do not)
          Files,       \* 1 .. n: bound on the files created at the pathname
          MAX_TRIES,
          Waiters,     \* the processes that call mysem_wait
          Initial,     \* the value creators pass to mysem_open
          MaxPosts     \* bound on the calls of mysem_post for a semaphore

VARIABLES path,       \* the file the pathname names, 0 if none
          made,       \* files created so far
          xusr,       \* files with the user-execute bit on
          complete,   \* files whose contents are initialized
          pc, fd, tries,
          unlinked    \* history: the pathname was removed

file == <<path, made, xusr, complete, pc, fd, tries, unlinked>>

OpenTypeOK ==
    /\ path \in Files \cup {0} /\ made \in Files \cup {0}
    /\ xusr \subseteq Files /\ complete \subseteq Files
    /\ pc \in [Procs -> {"again", "init", "fchmod", "exists", "stat", "open", "err", "dead"}]
    /\ fd \in [Procs -> Files \cup {0}]
    /\ tries \in [Procs -> 0 .. MAX_TRIES - 1]
    /\ unlinked \in BOOLEAN

OpenInit ==
    /\ path = 0 /\ made = 0 /\ xusr = {} /\ complete = {}
    /\ pc = [p \in Procs |-> IF p \in Creators THEN "again" ELSE "exists"]
    /\ fd = [p \in Procs |-> 0] /\ tries = [p \in Procs |-> 0] /\ unlinked = FALSE

Goto(p, where) == pc' = [pc EXCEPT ![p] = where]

\* open(pathname, O_CREAT | O_EXCL | O_RDWR, mode | S_IXUSR)
open_creat(p) ==
    /\ pc[p] = "again"
    /\ IF path = 0
       THEN /\ made + 1 \in Files
            /\ made' = made + 1 /\ path' = made'
            /\ xusr' = xusr \cup {path'} /\ fd' = [fd EXCEPT ![p] = path']
            /\ Goto(p, "init")
       ELSE Goto(p, "exists") /\ UNCHANGED <<path, made, xusr, fd>>
    /\ UNCHANGED <<complete, tries, unlinked>>

\* A call of the creator failed: it unlinks whatever the pathname names now.
undo(p) ==
    /\ path' = 0 /\ unlinked' = TRUE /\ fd' = [fd EXCEPT ![p] = 0] /\ Goto(p, "err")

\* The creator sets the size, maps the file and initializes the contents, or
\* fails and unlinks the pathname.
initialize(p) ==
    /\ pc[p] = "init"
    /\ \/ /\ complete' = complete \cup {fd[p]} /\ Goto(p, "fchmod")
          /\ UNCHANGED <<path, fd, unlinked>>
       \/ undo(p) /\ UNCHANGED complete
    /\ UNCHANGED <<made, xusr, tries>>

\* "initialization complete, turn off user-execute bit"
fchmod(p) ==
    /\ pc[p] = "fchmod"
    /\ \/ xusr' = xusr \ {fd[p]} /\ Goto(p, "open") /\ UNCHANGED <<path, fd, unlinked>>
       \/ undo(p) /\ UNCHANGED xusr
    /\ UNCHANGED <<made, complete, tries>>

\* The pathname is gone: who may create the file starts again.
Enoent(p) == Goto(p, IF p \in Creators THEN "again" ELSE "err")

\* open(pathname, O_RDWR)
open_exists(p) ==
    /\ pc[p] = "exists"
    /\ IF path = 0 THEN Enoent(p) /\ UNCHANGED fd
       ELSE Goto(p, "stat") /\ fd' = [fd EXCEPT ![p] = path]
    /\ tries' = [tries EXCEPT ![p] = 0]
    /\ UNCHANGED <<path, made, xusr, complete, unlinked>>

\* Faulty: nobody waits for the initialization.
stat_once(p) ==
    /\ pc[p] = "stat"
    /\ Goto(p, "open")
    /\ UNCHANGED <<path, made, xusr, complete, fd, tries, unlinked>>

\* Faulty: the rounds are not counted.
stat_for_ever(p) ==
    /\ pc[p] = "stat"
    /\ \/ path = 0 /\ Enoent(p) /\ fd' = [fd EXCEPT ![p] = 0]
       \/ path # 0 /\ path \notin xusr /\ Goto(p, "open") /\ UNCHANGED fd
       \/ path \in xusr /\ UNCHANGED <<pc, fd>>
    /\ UNCHANGED <<path, made, xusr, complete, tries, unlinked>>

\* One round of the loop that is to "make certain initialization is complete".
stat(p) ==
    /\ pc[p] = "stat"
    /\ \/ /\ path = 0 /\ Enoent(p) /\ fd' = [fd EXCEPT ![p] = 0]
          /\ UNCHANGED tries
       \/ /\ path # 0 /\ path \notin xusr /\ Goto(p, "open")
          /\ UNCHANGED <<fd, tries>>
       \/ /\ path \in xusr
          /\ IF tries[p] + 1 < MAX_TRIES
             THEN tries' = [tries EXCEPT ![p] = @ + 1] /\ UNCHANGED <<pc, fd>>
             ELSE /\ Goto(p, "err") /\ fd' = [fd EXCEPT ![p] = 0]
                  /\ UNCHANGED tries
    /\ UNCHANGED <<path, made, xusr, complete, unlinked>>

crash(p) ==
    /\ pc[p] \in {"init", "fchmod"}
    /\ Goto(p, "dead")
    /\ UNCHANGED <<path, made, xusr, complete, fd, tries, unlinked>>

\* mysem_unlink, mymq_unlink
unlink ==
    /\ path # 0
    /\ path' = 0 /\ unlinked' = TRUE
    /\ UNCHANGED <<made, xusr, complete, pc, fd, tries>>

step(p) == open_creat(p) \/ initialize(p) \/ fchmod(p) \/ open_exists(p) \/ stat(p)

OpenNext == unlink \/ \E p \in Procs : step(p) \/ crash(p)
------------------------------------------------------------------------------
(***************************************************************************)
(* Then the calls of mysem_wait, mysem_trywait and mysem_post on the file  *)
(* a process has mapped.  sem_count changes only under sem_mutex, so an    *)
(* action is what a process does between taking the mutex and giving it    *)
(* up, in pthread_mutex_unlock or pthread_cond_wait.  A semaphore that was *)
(* never initialized is not used: what its mutex does is undefined.        *)
(***************************************************************************)
VARIABLES sem_count,  \* in each file
          at,         \* blocked: on sem_cond; woken: signalled, still to take the mutex
          posts,      \* history: calls of mysem_post
          taken       \* history: successful waits

sems == <<sem_count, at, posts, taken>>
vars == <<file, sems>>

TypeOK ==
    /\ OpenTypeOK
    /\ sem_count \in [Files -> 0 .. Initial + MaxPosts]
    /\ at \in [Procs -> {"out", "blocked", "woken"}]
    /\ posts \in [Files -> 0 .. MaxPosts]
    /\ taken \in [Files -> 0 .. Initial + MaxPosts]

Init ==
    /\ OpenInit
    /\ sem_count = [f \in Files |-> Initial] /\ at = [p \in Procs |-> "out"]
    /\ posts = [f \in Files |-> 0] /\ taken = [f \in Files |-> 0]

------------------------------------------------------------------------------
\* p has the semaphore in file f mapped.
Has(p, f) == pc[p] = "open" /\ f = fd[p] /\ f \in complete

Take(p, f) ==
    /\ sem_count' = [sem_count EXCEPT ![f] = @ - 1]
    /\ taken' = [taken EXCEPT ![f] = @ + 1]
    /\ at' = [at EXCEPT ![p] = "out"]

\* The call, and the loop again after pthread_cond_wait has returned.
mysem_wait(p, f) ==
    /\ (at[p] = "out" /\ p \in Waiters) \/ at[p] = "woken"
    /\ \/ sem_count[f] > 0 /\ Take(p, f)
       \/ /\ sem_count[f] = 0 /\ at' = [at EXCEPT ![p] = "blocked"]
          /\ UNCHANGED <<sem_count, taken>>
    /\ UNCHANGED posts

mysem_trywait(p, f) ==
    /\ at[p] = "out" /\ sem_count[f] > 0
    /\ Take(p, f) /\ UNCHANGED posts

Blocked(f) == {q \in Procs : Has(q, f) /\ at[q] = "blocked"}
Woken(f)   == {q \in Procs : Has(q, f) /\ at[q] = "woken"}

\* pthread_cond_signal wakes one process, if there is one.
Signal(f) ==
    IF Blocked(f) # {} THEN \E q \in Blocked(f) : at' = [at EXCEPT ![q] = "woken"]
    ELSE UNCHANGED at

\* Faulty: it signals when the semaphore was not zero.
mysem_post_nonzero(p, f) ==
    /\ at[p] = "out" /\ posts[f] < MaxPosts
    /\ posts' = [posts EXCEPT ![f] = @ + 1]
    /\ IF sem_count[f] # 0 THEN Signal(f) ELSE UNCHANGED at
    /\ sem_count' = [sem_count EXCEPT ![f] = @ + 1]
    /\ UNCHANGED taken

mysem_post(p, f) ==
    /\ at[p] = "out" /\ posts[f] < MaxPosts
    /\ posts' = [posts EXCEPT ![f] = @ + 1]
    /\ IF sem_count[f] = 0 THEN Signal(f) ELSE UNCHANGED at
    /\ sem_count' = [sem_count EXCEPT ![f] = @ + 1]
    /\ UNCHANGED taken

\* pthread_cond_wait may return without a signal.
spurious(p) ==
    /\ at[p] = "blocked" /\ at' = [at EXCEPT ![p] = "woken"]
    /\ UNCHANGED <<sem_count, posts, taken>>

Next ==
    \/ OpenNext /\ UNCHANGED sems
    \/ /\ \E p \in Procs, f \in Files :
             /\ Has(p, f)
             /\ mysem_wait(p, f) \/ mysem_trywait(p, f) \/ mysem_post(p, f) \/ spurious(p)
       /\ UNCHANGED file

Spec == Init /\ [][Next]_vars

\* Every process goes on with its calls of mysem_open.
FairSpec ==
    Spec /\ \A p \in Procs : WF_vars(step(p) /\ UNCHANGED sems)

------------------------------------------------------------------------------
\* A process that has opened the semaphore finds it initialized, as the loop on
\* the mode bit in mysem_open is to ensure, unless the pathname was unlinked in
\* the meantime, by mysem_unlink or by a creator that failed.
OpenedComplete == \A p \in Procs : pc[p] = "open" /\ ~unlinked => fd[p] \in complete

\* Processes that open one pathname share one semaphore.
OneObject ==
    \A p, q \in Procs : pc[p] = "open" /\ pc[q] = "open" /\ ~unlinked => fd[p] = fd[q]

\* mysem_open returns, with the semaphore or with an error after MAX_TRIES,
\* whatever happens to the pathname.
OpenReturns == <>(\A p \in Procs : pc[p] \in {"open", "err", "dead"})

\* No more waits succeed than the initial value and the posts allow.
Conserved ==
    /\ TypeOK
    /\ \A f \in Files : sem_count[f] + taken[f] = Initial + posts[f]

\* A process is blocked in mysem_wait only while the value is zero, or another
\* has been woken and will take it.
NobodyBlockedInVain == \A f \in Files : Blocked(f) # {} /\ sem_count[f] > 0 => Woken(f) # {}

\* All who open the pathname share one initialized semaphore, whose units are
\* conserved and for which nobody waits in vain.
SemaphoreSound == OpenedComplete /\ OneObject /\ Conserved /\ NobodyBlockedInVain
==============================================================================
