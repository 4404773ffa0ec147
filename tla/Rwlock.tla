-------------------------------- MODULE Rwlock --------------------------------
(***************************************************************************)
(* The read-write lock built from a mutex and two condition variables, in  *)
(* my_rwlock, and the version of my_rwlock_cancel, whose waiters may be    *)
(* cancelled.  All the fields change only under rw_mutex, so an action is  *)
(* what a thread does between taking the mutex and giving it up, in        *)
(* pthread_mutex_unlock or in pthread_cond_wait.                           *)
(***************************************************************************)
EXTENDS Integers, FiniteSets

CONSTANTS Threads,
          nloop       \* how often a thread uses the lock

VARIABLES version,           \* which of the two, fixed
          rw_refcount,       \* -1 if writer has the lock, else # readers holding it
          rw_nwaitreaders, rw_nwaitwriters,
          pc,                \* rwait, wwait: on a condition variable; rwoken, wwoken:
                             \* signalled, still to take the mutex
          left               \* uses of the lock a thread still has before it

waiters == <<rw_nwaitreaders, rw_nwaitwriters>>
vars    == <<version, rw_refcount, waiters, pc, left>>

At(S)   == {t \in Threads : pc[t] \in S}
readers == At({"read"})
writers == At({"write"})

TypeOK ==
    /\ version \in {"my_rwlock", "my_rwlock_cancel"}
    /\ rw_refcount \in Int /\ rw_refcount >= -1
    /\ rw_nwaitreaders \in Nat /\ rw_nwaitwriters \in Nat
    /\ pc \in [Threads -> {"out", "rwait", "rwoken", "wwait", "wwoken", "read", "write"}]
    /\ left \in [Threads -> 0 .. nloop]

\* PTHREAD_RWLOCK_INITIALIZER, pthread_rwlock_init
Init ==
    /\ version \in {"my_rwlock", "my_rwlock_cancel"}
    /\ rw_refcount = 0 /\ rw_nwaitreaders = 0 /\ rw_nwaitwriters = 0
    /\ pc = [t \in Threads |-> "out"]
    /\ left = [t \in Threads |-> nloop]

Cancel == version = "my_rwlock_cancel"

Goto(t, where) == pc' = [pc EXCEPT ![t] = where]

\* A thread that is out, with another use of the lock before it.
Enter(t) ==
    /\ pc[t] = "out" /\ left[t] > 0
    /\ left' = [left EXCEPT ![t] = @ - 1]

------------------------------------------------------------------------------
\* Faulty: a writer that holds the lock does not stop a reader.
MayRead_written(nwriters) == nwriters = 0

\* The condition of rdlock's loop and of tryrdlock, given rw_nwaitwriters.
MayRead(nwriters) == rw_refcount >= 0 /\ nwriters = 0

pthread_rwlock_rdlock(t) ==
    /\ Enter(t)
    /\ IF MayRead(rw_nwaitwriters)
       THEN /\ rw_refcount' = rw_refcount + 1 /\ Goto(t, "read")
            /\ UNCHANGED waiters
       ELSE /\ rw_nwaitreaders' = rw_nwaitreaders + 1 /\ Goto(t, "rwait")
            /\ UNCHANGED <<rw_refcount, rw_nwaitwriters>>

\* The loop after pthread_cond_wait has returned.
rdlock_repeat(t) ==
    /\ pc[t] = "rwoken"
    /\ IF MayRead(rw_nwaitwriters)
       THEN /\ rw_refcount' = rw_refcount + 1 /\ Goto(t, "read")
            /\ rw_nwaitreaders' = rw_nwaitreaders - 1
       ELSE Goto(t, "rwait") /\ UNCHANGED <<rw_refcount, rw_nwaitreaders>>
    /\ UNCHANGED <<rw_nwaitwriters, left>>

pthread_rwlock_tryrdlock(t) ==
    /\ Enter(t)
    /\ IF MayRead(rw_nwaitwriters)
       THEN rw_refcount' = rw_refcount + 1 /\ Goto(t, "read")
       ELSE UNCHANGED <<rw_refcount, pc>>
    /\ UNCHANGED waiters

pthread_rwlock_wrlock(t) ==
    /\ Enter(t)
    /\ IF rw_refcount = 0
       THEN rw_refcount' = -1 /\ Goto(t, "write") /\ UNCHANGED waiters
       ELSE /\ rw_nwaitwriters' = rw_nwaitwriters + 1 /\ Goto(t, "wwait")
            /\ UNCHANGED <<rw_refcount, rw_nwaitreaders>>

wrlock_repeat(t) ==
    /\ pc[t] = "wwoken"
    /\ IF rw_refcount = 0
       THEN /\ rw_refcount' = -1 /\ Goto(t, "write")
            /\ rw_nwaitwriters' = rw_nwaitwriters - 1
       ELSE Goto(t, "wwait") /\ UNCHANGED <<rw_refcount, rw_nwaitwriters>>
    /\ UNCHANGED <<rw_nwaitreaders, left>>

pthread_rwlock_trywrlock(t) ==
    /\ Enter(t)
    /\ IF rw_refcount = 0
       THEN rw_refcount' = -1 /\ Goto(t, "write")
       ELSE UNCHANGED <<rw_refcount, pc>>
    /\ UNCHANGED waiters

------------------------------------------------------------------------------
\* pthread_cond_signal wakes one waiter, if there is one.
Signal(p) ==
    IF \E u \in Threads : p[u] = "wwait"
    THEN \E u \in Threads : p[u] = "wwait" /\ pc' = [p EXCEPT ![u] = "wwoken"]
    ELSE pc' = p

Broadcast(p) == pc' = [u \in Threads |-> IF p[u] = "rwait" THEN "rwoken" ELSE p[u]]

\* Faulty: the readers are told although writers wait, and the writers are not.
unlock_wakes_readers(t) ==
    /\ pc[t] \in {"read", "write"}
    /\ rw_refcount' = IF rw_refcount > 0 THEN rw_refcount - 1 ELSE 0
    /\ LET p == [pc EXCEPT ![t] = "out"] IN
       IF rw_nwaitreaders > 0 THEN Broadcast(p) ELSE Signal(p)
    /\ UNCHANGED <<waiters, left>>

\* my_rwlock signals a writer only when the lock is free, my_rwlock_cancel
\* whenever one waits.
pthread_rwlock_unlock(t) ==
    /\ pc[t] \in {"read", "write"}
    /\ rw_refcount' = IF rw_refcount > 0 THEN rw_refcount - 1 ELSE 0
    /\ LET p == [pc EXCEPT ![t] = "out"] IN
       IF rw_nwaitwriters > 0
       THEN IF rw_refcount' = 0 \/ Cancel THEN Signal(p) ELSE pc' = p
       ELSE IF rw_nwaitreaders > 0 THEN Broadcast(p)
       ELSE pc' = p
    /\ UNCHANGED <<waiters, left>>

\* rwlock_cancelrdwait and rwlock_cancelwrwait, when a waiter is cancelled.
cancelwait(t) ==
    /\ Cancel /\ pc[t] \in {"rwait", "wwait"}
    /\ IF pc[t] = "rwait"
       THEN rw_nwaitreaders' = rw_nwaitreaders - 1 /\ UNCHANGED rw_nwaitwriters
       ELSE rw_nwaitwriters' = rw_nwaitwriters - 1 /\ UNCHANGED rw_nwaitreaders
    /\ Goto(t, "out")
    /\ UNCHANGED <<rw_refcount, left>>

\* pthread_cond_wait may return without a signal.
spurious(t) ==
    \/ pc[t] = "rwait" /\ Goto(t, "rwoken") /\ UNCHANGED <<rw_refcount, waiters, left>>
    \/ pc[t] = "wwait" /\ Goto(t, "wwoken") /\ UNCHANGED <<rw_refcount, waiters, left>>

Ask(t) ==
    \/ pthread_rwlock_rdlock(t) \/ pthread_rwlock_tryrdlock(t)
    \/ pthread_rwlock_wrlock(t) \/ pthread_rwlock_trywrlock(t)

Proceed(t) == rdlock_repeat(t) \/ wrlock_repeat(t) \/ pthread_rwlock_unlock(t)

Next ==
    /\ \E t \in Threads : Ask(t) \/ Proceed(t) \/ cancelwait(t) \/ spurious(t)
    /\ UNCHANGED version

Spec == Init /\ [][Next]_vars

\* A thread that holds the lock or was woken goes on; nobody relies on spurious
\* wakeups.
FairSpec == Spec /\ \A t \in Threads : WF_vars(Proceed(t) /\ UNCHANGED version)

------------------------------------------------------------------------------
\* rw_refcount says who holds the lock: "-1 if writer has the lock, else #
\* readers holding the lock"; the other counters say who waits.
CountersAgree ==
    /\ TypeOK
    /\ rw_refcount = -1 => readers = {} /\ \E t \in Threads : writers = {t}
    /\ rw_refcount >= 0 => writers = {} /\ rw_refcount = Cardinality(readers)
    /\ rw_nwaitreaders = Cardinality(At({"rwait", "rwoken"}))
    /\ rw_nwaitwriters = Cardinality(At({"wwait", "wwoken"}))

\* The detailed lock implements the abstract one: test1.c's readers never find
\* a writer, and its writers neither a reader nor another writer.
Lock      == INSTANCE ReadersWriter
Exclusive == Lock!Spec

\* Threads that use the lock a bounded number of times, as those of test1.c do,
\* all come to an end.
AllFinish == <>[](\A t \in Threads : pc[t] = "out")
==============================================================================
