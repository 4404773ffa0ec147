-------------------------------- MODULE MC_Ipc --------------------------------
(***************************************************************************)
(* A pipe of the kernel, or one of two libraries built on shared memory:   *)
(* the read-write lock and the semaphore.  A behaviour is one of the part  *)
(* that was chosen at the start.                                           *)
(***************************************************************************)
EXTENDS Pipe

CONSTANTS LockThreads, LockUses,   \* Threads and nloop of the read-write lock
          SemProcs, SemCreators, SemFiles, SemTries, SemWaiters, SemInitial,
          SemPosts                 \* Procs .. MaxPosts of the semaphore

VARIABLES part,
          version, rw_refcount, rw_nwaitreaders, rw_nwaitwriters, at_lock, uses,
          path, made, xusr, complete, at_open, fd, tries, unlinked, sem_count, at, posts, taken

ASSUME LockAssumption == IsFiniteSet(LockThreads) /\ LockUses \in Nat
ASSUME SemAssumption ==
    /\ SemFiles \subseteq Nat \ {0} /\ SemTries \in Nat \ {0}
    /\ SemInitial \in Nat /\ SemPosts \in Nat

Lock == INSTANCE Rwlock WITH
    Threads <- LockThreads, nloop <- LockUses, pc <- at_lock, left <- uses
Sem  == INSTANCE PxSem WITH
    Procs <- SemProcs, Creators <- SemCreators, Files <- SemFiles, MAX_TRIES <- SemTries,
    Waiters <- SemWaiters, Initial <- SemInitial, MaxPosts <- SemPosts, pc <- at_open

lockvars == <<version, rw_refcount, rw_nwaitreaders, rw_nwaitwriters, at_lock, uses>>
opening  == <<path, made, xusr, complete, at_open, fd, tries, unlinked>>
posting  == <<sem_count, at, posts, taken>>
all      == <<part, vars, lockvars, opening, posting>>

MCInit ==
    /\ part \in {"pipe", "lock", "sem"} /\ Init /\ Lock!Init /\ Sem!Init
    /\ part # "lock" => version = "my_rwlock"

PipeOnly == part = "pipe" /\ UNCHANGED <<part, lockvars, opening, posting>>
LockOnly == part = "lock" /\ UNCHANGED <<part, vars, opening, posting>>
SemOnly  == part = "sem" /\ UNCHANGED <<part, vars, lockvars>>

\* All three may come to rest: bytes, uses and posts are bounded.
MCNext ==
    \/ PipeOnly /\ Next
    \/ LockOnly /\ Lock!Next
    \/ SemOnly /\ Sem!Next

\* The fairness of the three: in each a process that can go on does.
MCSpec ==
    /\ MCInit /\ [][MCNext]_all
    /\ \A p \in Procs : SF_all(PipeOnly /\ (read_pipe(p) \/ write_pipe(p)))
    /\ \A t \in LockThreads : WF_all(LockOnly /\ Lock!Proceed(t) /\ UNCHANGED version)
    /\ \A p \in SemProcs : WF_all(SemOnly /\ Sem!step(p) /\ UNCHANGED posting)

\* The read-write lock lets in any number of readers or one writer.
Exclusive == Lock!Exclusive

\* All threads that use the lock come to an end.
AllFinish == Lock!AllFinish

\* All who open the pathname share one initialized semaphore, whose units are
\* conserved and for which nobody waits in vain (my_pxsem_mmap).
SemaphoreSound == part = "sem" => Sem!SemaphoreSound

\* mysem_open returns, whatever happens to the pathname.
OpenReturns == part = "sem" => Sem!OpenReturns
==============================================================================
