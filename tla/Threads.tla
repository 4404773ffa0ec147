------------------------------- MODULE Threads -------------------------------
(***************************************************************************)
(* Threads and processes that share memory and the objects they            *)
(* synchronise with: mutexes, condition variables, Posix and System V      *)
(* semaphores, record locks and lock files.  A program is a record: the    *)
(* code of main and of the workers, whether those are threads or processes *)
(* (or independent runs of the program), the variables with their initial  *)
(* values, those that a fork copies, the size of the buffer, and what may  *)
(* go wrong with it ("race", "stuck", "refusal") or that main is a server. *)
(* Code is a sequence of statements; rest[t] is what thread t still has to *)
(* do.  The calls are those of the system, as the programs use them.       *)
(***************************************************************************)
EXTENDS Integers, SequencesExt

CONSTANT Programs      \* the programs, one of which is run

VARIABLES prog, rest, started,
          mem,         \* value of a variable, for each process that may have a copy
          buff,        \* the buffer of items
          waiting,     \* threads in pthread_cond_wait
          flock,       \* holders of a record lock on the file: w and r
          undo,        \* SEM_UNDO adjustments of a process
          error,       \* what the program prints as an error
          sections,    \* increments done
          killed       \* a process was killed

thvars == <<prog, rest, started, mem, buff, waiting, flock, undo, error, sections, killed>>
Ids == 0 .. Len(prog.workers)

------------------------------------------------------------------------------
\* Statements.
Lock(m)      == [op |-> "lock", x |-> m]
Unlock(m)    == [op |-> "unlock", x |-> m]
Wait(m)      == [op |-> "wait", x |-> m]
Signal       == [op |-> "signal"]
P(s)         == [op |-> "P", x |-> s, undo |-> FALSE]
TryP(s, yes, no) == [op |-> "tryP", x |-> s, undo |-> FALSE, yes |-> yes, no |-> no]
V(s)         == [op |-> "V", x |-> s, undo |-> FALSE]
PUndo(s)     == [op |-> "P", x |-> s, undo |-> TRUE]
VUndo(s)     == [op |-> "V", x |-> s, undo |-> TRUE]
Set(x, v)    == [op |-> "set", x |-> x, v |-> v]
Add(x, d)    == [op |-> "add", x |-> x, d |-> d]
Put(i)       == [op |-> "put", at |-> "item", i |-> i]      \* item i
PutNext      == [op |-> "put", at |-> "next"]               \* item nput, and nput and nval go up
Reserve      == [op |-> "reserve"]                          \* off is nput, which goes up
PutReserved  == [op |-> "put", at |-> "off"]                \* into the slot that was reserved
Check(i)     == [op |-> "check", at |-> "item", i |-> i]
CheckNext    == [op |-> "check", at |-> "next"]             \* item nget, and nget goes up
WLock        == [op |-> "wlock"]
RLock        == [op |-> "rlock"]
TryLock(k)   == [op |-> "trylock", kind |-> k]
UnFlock      == [op |-> "unflock"]
Creat(f)     == [op |-> "creat", x |-> f]
If(x, ge, yes, no) == [op |-> "if", x |-> x, ge |-> ge, yes |-> yes, no |-> no]
TryCreat(f, yes, no) == [op |-> "trycreat", x |-> f, yes |-> yes, no |-> no]
Expect(x, v) == [op |-> "expect", x |-> x, v |-> v]
Pause        == [op |-> "pause"]
Create(W)    == [op |-> "create", W |-> W]
Join(W)      == [op |-> "join", W |-> W]
Finish       == [op |-> "finish"]

\* Loops: for (i = 0; i < n; i++), written out; for ( ; ; ); a while loop around
\* pthread_cond_wait; and one that polls under a mutex until x >= n.
For(n, body(_)) == FlattenSeq([k \in 1 .. n |-> body(k - 1)])
Forever(body) == [op |-> "forever", body |-> body]
WaitWhileZero(x, m) == [op |-> "while", x |-> x, m |-> m]
Poll(m, x, n) == [op |-> "poll", m |-> m, x |-> x, n |-> n]

\* A loop at the head of the code is written out once.
Norm(code) ==
    IF code = <<>> THEN code ELSE
    LET s == Head(code) IN
    CASE s.op = "forever" -> s.body \o code
      [] s.op = "while"   -> <<If(s.x, 1, <<>>, <<Wait(s.m), s>>)>> \o Tail(code)
      [] s.op = "poll"    -> <<Lock(s.m), If(s.x, s.n, <<Unlock(s.m)>>, <<Unlock(s.m), s>>)>> \o Tail(code)
      [] OTHER            -> code

Init ==
    /\ prog \in Programs
    /\ rest = [t \in Ids |-> Norm(IF t = 0 THEN prog.main ELSE prog.workers[t])]
    /\ started = IF prog.by = "independent" THEN Ids ELSE {0}
    /\ mem = [x \in DOMAIN prog.vars |-> [p \in Ids |-> prog.vars[x]]]
    /\ buff = [k \in 0 .. prog.nbuff - 1 |-> -1]
    /\ waiting = {} /\ flock = [w |-> {}, r |-> {}]
    /\ undo = [p \in Ids |-> 0]
    /\ error = FALSE /\ sections = 0 /\ killed = FALSE


------------------------------------------------------------------------------
\* The process of a thread, and where it finds a variable.
Proc(t) == IF prog.by = "threads" THEN 0 ELSE t
Place(t, x) == IF x \in prog.private THEN Proc(t) ELSE 0
Val(t, x) == mem[x][Place(t, x)]
Assign(t, x, v) == mem' = [mem EXCEPT ![x][Place(t, x)] = v]

At(t, op) == t \in started /\ rest[t] # <<>> /\ Head(rest[t]).op = op
St(t) == Head(rest[t])
Then(t) == rest' = [rest EXCEPT ![t] = Norm(Tail(@))]
Goes(t, code) == rest' = [rest EXCEPT ![t] = Norm(code \o Tail(@))]

pthread_mutex_lock(t) ==
    /\ At(t, "lock") /\ t \notin waiting /\ Val(t, St(t).x) = 0
    /\ Assign(t, St(t).x, 1) /\ Then(t)
    /\ UNCHANGED <<prog, started, buff, waiting, flock, undo, error, sections, killed>>

pthread_mutex_unlock(t) ==
    /\ At(t, "unlock") /\ Assign(t, St(t).x, 0) /\ Then(t)
    /\ UNCHANGED <<prog, started, buff, waiting, flock, undo, error, sections, killed>>

\* The mutex is given up and taken again once the thread is woken.
pthread_cond_wait(t) ==
    /\ At(t, "wait") /\ Assign(t, St(t).x, 0)
    /\ waiting' = waiting \cup {t} /\ Goes(t, <<Lock(St(t).x)>>)
    /\ UNCHANGED <<prog, started, buff, flock, undo, error, sections, killed>>

pthread_cond_signal(t) ==
    /\ At(t, "signal") /\ Then(t)
    /\ waiting' \in {waiting \ {u} : u \in IF waiting = {} THEN {0} ELSE waiting}
    /\ UNCHANGED <<prog, started, mem, buff, flock, undo, error, sections, killed>>

\* A wait may return without a signal.
Spurious(t) == t \in waiting /\ waiting' = waiting \ {t}
               /\ UNCHANGED <<prog, rest, started, mem, buff, flock, undo, error, sections, killed>>

\* semop notes the time, which a process that did not create the set looks at.
SemAssign(t, v) == LET s == [mem EXCEPT ![St(t).x][Place(t, St(t).x)] = v] IN
                   mem' = IF St(t).x = "sem" THEN [s EXCEPT !["otime"][0] = 1] ELSE s
Adjust(t, d) == undo' = IF St(t).undo THEN [undo EXCEPT ![Proc(t)] = @ + d] ELSE undo

sem_wait(t) ==
    /\ At(t, "P") /\ Val(t, St(t).x) > 0
    /\ SemAssign(t, Val(t, St(t).x) - 1) /\ Adjust(t, 1) /\ Then(t)
    /\ UNCHANGED <<prog, started, buff, waiting, flock, error, sections, killed>>

sem_trywait(t) ==
    /\ At(t, "tryP")
    /\ IF Val(t, St(t).x) > 0 THEN SemAssign(t, Val(t, St(t).x) - 1) /\ Goes(t, St(t).yes)
       ELSE Goes(t, St(t).no) /\ UNCHANGED mem
    /\ UNCHANGED <<prog, started, buff, waiting, flock, undo, error, sections, killed>>

sem_post(t) ==
    /\ At(t, "V")
    /\ SemAssign(t, Val(t, St(t).x) + 1) /\ Adjust(t, -1) /\ Then(t)
    /\ UNCHANGED <<prog, started, buff, waiting, flock, error, sections, killed>>

assign(t) ==
    /\ At(t, "set") /\ Assign(t, St(t).x, St(t).v) /\ Then(t)
    /\ UNCHANGED <<prog, started, buff, waiting, flock, undo, error, sections, killed>>

\* An addition to the counter is one more increment done.
add(t) ==
    /\ At(t, "add") /\ Assign(t, St(t).x, Val(t, St(t).x) + St(t).d) /\ Then(t)
    /\ sections' = sections + (IF St(t).x = "counter" THEN 1 ELSE 0)
    /\ UNCHANGED <<prog, started, buff, waiting, flock, undo, error, killed>>

\* A slot is taken, to be filled later.
reserve(t) ==
    /\ At(t, "reserve") /\ Then(t)
    /\ mem' = [mem EXCEPT !.off[Proc(t)] = mem.nput[0], !.nput[0] = @ + 1]
    /\ UNCHANGED <<prog, started, buff, waiting, flock, undo, error, sections, killed>>

put(t) ==
    /\ At(t, "put") /\ Then(t)
    /\ IF St(t).at # "next"
       THEN LET i == IF St(t).at = "item" THEN St(t).i ELSE mem.off[Proc(t)] IN
            buff' = [buff EXCEPT ![i % prog.nbuff] = i] /\ UNCHANGED mem
       ELSE /\ buff' = [buff EXCEPT ![mem.nput[0] % prog.nbuff] = mem.nval[0]]
            /\ mem' = [mem EXCEPT !.nput[0] = @ + 1, !.nval[0] = @ + 1]
    /\ UNCHANGED <<prog, started, waiting, flock, undo, error, sections, killed>>

\* The consumer prints an error when item i is not i.
check(t) ==
    /\ At(t, "check") /\ Then(t)
    /\ IF St(t).at = "item" THEN error' = (error \/ buff[St(t).i % prog.nbuff] # St(t).i) /\ UNCHANGED mem
       ELSE /\ error' = (error \/ buff[mem.nget[0] % prog.nbuff] # mem.nget[0])
            /\ mem' = [mem EXCEPT !.nget[0] = @ + 1]
    /\ UNCHANGED <<prog, started, buff, waiting, flock, undo, sections, killed>>

\* A program compares x with what it should be, and prints an error.
expect(t) ==
    /\ At(t, "expect") /\ error' = (error \/ Val(t, St(t).x) # St(t).v) /\ Then(t)
    /\ UNCHANGED <<prog, started, mem, buff, waiting, flock, undo, sections, killed>>

\* What the next statement of a thread reads and writes, of the data the program
\* shares (the state of an object of the system is not data).
Slot(i) == <<"buff", i % prog.nbuff>>
Var(t, x) == <<x, Place(t, x)>>
Names == {<<"otime", 0>>, <<"shmname", 0>>, <<"semname", 0>>}
Reads(t) == IF t \notin started \/ rest[t] = <<>> THEN {} ELSE
            CASE St(t).op \in {"if", "expect"} -> {Var(t, St(t).x)} \ Names
              [] St(t).op = "check" /\ St(t).at = "item" -> {Slot(St(t).i)}
              [] St(t).op = "check" /\ St(t).at = "next" -> {Slot(mem.nget[0])}
              [] OTHER -> {}
Writes(t) == IF t \notin started \/ rest[t] = <<>> THEN {} ELSE
             CASE St(t).op \in {"add", "set"} -> {Var(t, St(t).x)}
               [] St(t).op = "put" /\ St(t).at = "item" -> {Slot(St(t).i)}
               [] St(t).op = "put" /\ St(t).at = "off" -> {Slot(mem.off[Proc(t)])}
               [] St(t).op = "reserve" -> {<<"nput", 0>>}
               [] St(t).op = "put" /\ St(t).at = "next" -> {Slot(mem.nput[0]), <<"nput", 0>>, <<"nval", 0>>}
               [] St(t).op = "check" /\ St(t).at = "next" -> {<<"nget", 0>>}
               [] OTHER -> {}

\* Two threads are about to access the same data and one of them writes it.  The
\* statements above are atomic, which is sound as long as this never happens.
DataRace == \E t, u \in Ids : t # u /\ Writes(t) \cap (Reads(u) \cup Writes(u)) # {}

------------------------------------------------------------------------------
\* Record locks are held by processes, and exclude other processes only.
CanLock(t, k) == flock.w \subseteq {Proc(t)} /\ (k = "w" => flock.r \subseteq {Proc(t)})
Held(p, k) == [w |-> IF k = "w" THEN {p} ELSE flock.w \ {p},
               r |-> IF k = "r" THEN flock.r \cup {p} ELSE flock.r \ {p}]

writew_lock(t) ==
    /\ At(t, "wlock") /\ CanLock(t, "w") /\ flock' = Held(Proc(t), "w") /\ Then(t)
    /\ UNCHANGED <<prog, started, mem, buff, waiting, undo, error, sections, killed>>

readw_lock(t) ==
    /\ At(t, "rlock") /\ CanLock(t, "r") /\ flock' = Held(Proc(t), "r") /\ Then(t)
    /\ UNCHANGED <<prog, started, mem, buff, waiting, undo, error, sections, killed>>

\* write_lock and read_lock do not wait: the caller ends when it is refused.
try_lock(t) ==
    /\ At(t, "trylock")
    /\ LET k == St(t).kind IN
       IF CanLock(t, k) THEN flock' = Held(Proc(t), k) /\ Then(t) /\ UNCHANGED error
       ELSE /\ rest' = [rest EXCEPT ![t] = <<Finish>>]
            /\ error' = (error \/ "refusal" \notin prog.allows) /\ UNCHANGED flock
    /\ UNCHANGED <<prog, started, mem, buff, waiting, undo, sections, killed>>

un_lock(t) ==
    /\ At(t, "unflock") /\ flock' = Held(Proc(t), "none") /\ Then(t)
    /\ UNCHANGED <<prog, started, mem, buff, waiting, undo, error, sections, killed>>

\* open with O_EXCL, or link, tried until the lock file can be made.
creat_excl(t) ==
    /\ At(t, "creat") /\ Val(t, St(t).x) = 0 /\ Assign(t, St(t).x, 1) /\ Then(t)
    /\ UNCHANGED <<prog, started, buff, waiting, flock, undo, error, sections, killed>>

------------------------------------------------------------------------------
\* semget with IPC_EXCL: one arm for the process that creates the set.
semget(t) ==
    /\ At(t, "trycreat")
    /\ IF Val(t, St(t).x) = 0 THEN Assign(t, St(t).x, 1) /\ Goes(t, St(t).yes)
       ELSE Goes(t, St(t).no) /\ UNCHANGED mem
    /\ UNCHANGED <<prog, started, buff, waiting, flock, undo, error, sections, killed>>

\* One arm is taken, by comparing a variable with a bound.
if(t) ==
    /\ At(t, "if") /\ Goes(t, IF Val(t, St(t).x) >= St(t).ge THEN St(t).yes ELSE St(t).no)
    /\ UNCHANGED <<prog, started, mem, buff, waiting, flock, undo, error, sections, killed>>

\* pthread_create or fork, for each of the workers W (one that is created and not
\* scheduled is as good as not created); a child gets a copy of what is private.
\* Record locks are not inherited.
create(t) ==
    /\ At(t, "create") /\ Then(t) /\ started' = started \cup St(t).W
    /\ mem' = [x \in DOMAIN mem |-> [u \in Ids |-> mem[x][IF u \in St(t).W THEN Proc(t) ELSE u]]]
    /\ UNCHANGED <<prog, buff, waiting, flock, undo, error, sections, killed>>

\* pthread_join or waitpid, for each of W.
join(t) ==
    /\ At(t, "join") /\ \A u \in St(t).W : rest[u] = <<>>
    /\ Then(t)
    /\ UNCHANGED <<prog, started, mem, buff, waiting, flock, undo, error, sections, killed>>

\* What the system does when a process ends: its record locks go and its
\* semaphore adjustments are made.
Exit(p) ==
    /\ flock' = Held(p, "none") /\ undo' = [undo EXCEPT ![p] = 0]
    /\ mem' = IF undo[p] = 0 THEN mem ELSE [mem EXCEPT !["sem"][0] = @ + undo[p]]

\* A thread returns, or a process exits.
finish(t) ==
    /\ At(t, "finish") /\ rest' = [rest EXCEPT ![t] = <<>>]
    /\ IF Proc(t) = t THEN Exit(t) ELSE UNCHANGED <<flock, mem, undo>>
    /\ UNCHANGED <<prog, started, buff, waiting, error, sections, killed>>

\* One of several independent processes is killed, wherever it is.
kill(t) ==
    /\ prog.by = "independent" /\ ~killed /\ killed' = TRUE
    /\ rest[t] # <<>> /\ rest' = [rest EXCEPT ![t] = <<>>] /\ Exit(t)
    /\ UNCHANGED <<prog, started, buff, waiting, error, sections>>

Over(t) == rest[t] # <<>> => Head(rest[t]).op = "pause"
Ended == started = Ids /\ \A t \in Ids \ (IF "server" \in prog.allows THEN {0} ELSE {}) : Over(t)

Step(t) ==
    \/ pthread_mutex_lock(t) \/ pthread_mutex_unlock(t) \/ pthread_cond_wait(t) \/ pthread_cond_signal(t)
    \/ Spurious(t) \/ sem_wait(t) \/ sem_trywait(t) \/ sem_post(t) \/ assign(t) \/ add(t) \/ reserve(t) \/ put(t) \/ check(t) \/ expect(t)
    \/ writew_lock(t) \/ readw_lock(t) \/ try_lock(t) \/ un_lock(t) \/ creat_excl(t) \/ semget(t)
    \/ if(t) \/ create(t) \/ join(t) \/ finish(t) \/ kill(t)

\* Only a program that has ended may stop, unless it is one that is said to.
Done ==
    /\ Ended \/ "stuck" \in prog.allows \/ (killed /\ "orphan" \in prog.allows)
    /\ UNCHANGED thvars

Next == Done \/ \E t \in Ids : Step(t)

Spec == Init /\ [][Next]_thvars

------------------------------------------------------------------------------
(* The consumers find in the buffer what the producers put there, once and in   *)
(* order, no two threads meet at the same data, and the counter shows as many   *)
(* increments as were made: the locking of each program is enough for it, but   *)
(* of those that take none, take one that does not exclude or count in copies.  *)
DataSound ==
    /\ "race" \notin prog.allows => ~error /\ ~DataRace
    /\ "counter" \in DOMAIN mem /\ prog.allows \cap {"race", "copies"} = {} => mem.counter[0] = sections
------------------------------------------------------------------------------
(***************************************************************************)
(* Programs as codes for Threads.  First those with producers and          *)
(* consumers: with mutexes and condition variables (mutex/), with          *)
(* semaphores (pxsem/ and the my_pxsem directories), mycat2, and           *)
(* deadlock.c; the consumer checks that item i is i.  Then those that      *)
(* count: bench/incr_xxx, shm/incr_xxx and incr_rwlock1, in which threads  *)
(* or processes add to a shared counter, and the sequence number programs  *)
(* of lock/, run by several processes at a time.                           *)
(***************************************************************************)
CONSTANTS NITEMS, NBUFF,    \* items to produce, slots of the buffer
          NLOOP, MAX_TRIES   \* increments of each worker, looks at a new semaphore

Item(main, workers, vars, nbuff, allows) ==
    [main |-> main, workers |-> workers, by |-> "threads", vars |-> vars, private |-> {},
     nbuff |-> nbuff, allows |-> allows]

\* mutex/: all producers and the consumer at once, or the consumer last.
mutex_main == <<Create({1, 2, 3}), Join({1, 2, 3}), Finish>>
mutex_main_last == <<Create({1, 2}), Join({1, 2}), Create({3}), Join({3}), Finish>>
mutex_vars == [nput |-> 0, nval |-> 0, nready |-> 0, mutex |-> 0, put_mutex |-> 0]
MutexProgram(main, produce, consume, allows) ==
    Item(main, <<produce, produce, consume>>, mutex_vars, NITEMS + 2, allows)

Consume1 == For(NITEMS, LAMBDA i : <<Check(i)>>) \o <<Finish>>

mutex_prodcons1 ==
    MutexProgram(mutex_main_last,
                 <<Forever(<<If("nput", NITEMS, <<Finish>>, <<>>)>> \o <<PutNext>>)>>, Consume1, {"race"})

Locked(m, body) ==
    <<Forever(<<Lock(m), If("nput", NITEMS, <<Unlock(m), Finish>>, <<>>)>> \o body)>>

\* Faulty: the mutex is released before the item is stored.
Produce2_early == Locked("mutex", <<Unlock("mutex"), PutNext>>)
Produce2 == Locked("mutex", <<PutNext, Unlock("mutex")>>)

mutex_prodcons2 == MutexProgram(mutex_main_last, Produce2, Consume1, {})

Consume3 == For(NITEMS, LAMBDA i : <<Poll("mutex", "nput", i + 1), Check(i)>>) \o <<Finish>>
mutex_prodcons3 == MutexProgram(mutex_main, Produce2, Consume3, {})

\* sched_yield between two polls.
mutex_prodcons4 == MutexProgram(mutex_main, Produce2, Consume3, {})

Consume5 == For(NITEMS, LAMBDA i : <<Lock("mutex"), WaitWhileZero("nready", "mutex"), Add("nready", -1),
                                    Unlock("mutex"), Check(i)>>) \o <<Finish>>
Produce5 == Locked("mutex", <<PutNext, Add("nready", 1), Signal, Unlock("mutex")>>)
mutex_prodcons5 == MutexProgram(mutex_main, Produce5, Consume5, {})

Produce6 == Locked("put_mutex", <<PutNext, Unlock("put_mutex"), Lock("mutex"),
                                  If("nready", 1, <<>>, <<Signal>>), Add("nready", 1), Unlock("mutex")>>)
mutex_prodcons6 == MutexProgram(mutex_main, Produce6, Consume5, {})

\* As prodcons6, and the signals are counted.
mutex_prodcons7 == MutexProgram(mutex_main, Produce6, Consume5, {})

------------------------------------------------------------------------------
\* pxsem/: a circular buffer, with semaphores for its empty and its full slots.
sem_vars == [mutex |-> 1, nempty |-> NBUFF, nstored |-> 0, nput |-> 0, nval |-> 0, nget |-> 0]
SemMain(n) == <<Create(1 .. n), Join(1 .. n), Finish>>
SemProgram(workers, allows) == Item(SemMain(Len(workers)), workers, sem_vars, NBUFF, allows)

\* Faulty: the slot is not waited for.
SemProduce_any == For(NITEMS, LAMBDA i : <<P("mutex"), Put(i), V("mutex"), V("nstored")>>) \o <<Finish>>

SemProduce == For(NITEMS, LAMBDA i : <<P("nempty"), P("mutex"), Put(i), V("mutex"), V("nstored")>>) \o <<Finish>>
SemConsume == For(NITEMS, LAMBDA i : <<P("nstored"), P("mutex"), Check(i), V("mutex"), V("nempty")>>) \o <<Finish>>

pxsem_prodcons1 == SemProgram(<<SemProduce, SemConsume>>, {})
pxsem_prodcons2 == SemProgram(<<SemProduce, SemConsume>>, {})
my_pxsem_mmap_prodcons1 == SemProgram(<<SemProduce, SemConsume>>, {})
my_pxsem_fifo_prodcons1 == SemProgram(<<SemProduce, SemConsume>>, {})
my_pxsem_svsem_prodcons1 == SemProgram(<<SemProduce, SemConsume>>, {})

\* Several producers; with several consumers, a producer that ends lets one end.
SemProduceAll(last) ==
    <<Forever(<<P("nempty"), P("mutex"), If("nput", NITEMS, last \o <<V("nempty"), V("mutex"), Finish>>, <<>>)>>
              \o <<PutNext, V("mutex"), V("nstored")>>)>>
pxsem_prodcons3 == SemProgram(<<SemProduceAll(<<>>), SemProduceAll(<<>>), SemConsume>>, {})

SemConsumeAll ==
    <<Forever(<<P("nstored"), P("mutex"), If("nget", NITEMS, <<V("nstored"), V("mutex"), Finish>>, <<>>),
                CheckNext, V("mutex"), V("nempty")>>)>>
pxsem_prodcons4 == LET p == SemProduceAll(<<V("nstored")>>) IN SemProgram(<<p, p, SemConsumeAll, SemConsumeAll>>, {})

\* The critical regions are empty: the semaphores alone keep the two apart.  The
\* file has NITEMS blocks; an empty read ends both.
mycat2 ==
    SemProgram(<<For(NITEMS + 1, LAMBDA i : <<P("nempty"), P("mutex"), V("mutex"), Put(i), V("nstored")>>) \o <<Finish>>,
                 For(NITEMS, LAMBDA i : <<P("nstored"), P("mutex"), V("mutex"), Check(i), V("nempty")>>)
                     \o <<P("nstored"), P("mutex"), V("mutex"), Finish>> >>, {})

\* The consumer takes the mutex before it waits for an item.
deadlock ==
    SemProgram(<<SemProduce,
                 For(NITEMS, LAMBDA i : <<P("mutex"), P("nstored"), Check(i), V("mutex"), V("nempty")>>) \o <<Finish>> >>,
               {"stuck"})

------------------------------------------------------------------------------
\* pxshm/: clients leave messages for a server in shared memory, which it has
\* initialized before they start.  A client that finds no empty slot counts the
\* message as lost.  The message is stored after the mutex is released.
client2(nloop) ==
    For(nloop, LAMBDA i :
        <<TryP("nempty", <<P("mutex"), Reserve, V("mutex"), PutReserved, V("nstored")>>,
               <<P("noverflowmutex"), Add("noverflow", 1), V("noverflowmutex")>>)>>) \o <<Finish>>
server2(n) ==
    <<Create(1 .. n), Forever(<<P("nstored"), P("mutex"), CheckNext, V("mutex"), V("nempty"),
                                P("noverflowmutex"), If("noverflow", 1, <<>>, <<>>), V("noverflowmutex")>>)>>
pxshm_server2(n, nloop, allows) ==
    [Item(server2(n), [k \in 1 .. n |-> client2(nloop)],
          sem_vars @@ [noverflowmutex |-> 1, noverflow |-> 0, off |-> 0], NBUFF, {"server"} \cup allows)
     EXCEPT !.by = "processes", !.private = {"off"}]

ProdConsPrograms ==
    {mutex_prodcons1, mutex_prodcons2, mutex_prodcons3, mutex_prodcons4, mutex_prodcons5, mutex_prodcons6,
     mutex_prodcons7, pxsem_prodcons1, pxsem_prodcons2, pxsem_prodcons3, pxsem_prodcons4, mycat2, deadlock,
     pxshm_server2(1, NITEMS, {}), pxshm_server2(2, 2, {"race"}),
     my_pxsem_mmap_prodcons1, my_pxsem_fifo_prodcons1, my_pxsem_svsem_prodcons1}

------------------------------------------------------------------------------
W == {1, 2}

\* Workers that each add to the counter NLOOP times; main holds them up until all
\* are created, waits for them and checks the sum.
Workers(by, vars, private, hold, go, body, allows) ==
    [main |-> hold \o <<Create(W)>> \o go \o <<Join(W), Expect("counter", 2 * NLOOP), Finish>>,
     workers |-> <<body, body>>, by |-> by, vars |-> vars, private |-> private,
     nbuff |-> 1, allows |-> allows]
Times(acquire, release) ==
    For(NLOOP, LAMBDA i : <<acquire, Add("counter", 1), release>>) \o <<Finish>>

MutexVars == [mutex |-> 0, counter |-> 0]
WithMutex(by) ==
    Workers(by, MutexVars, {}, <<Lock("mutex")>>, <<Unlock("mutex")>>, Times(Lock("mutex"), Unlock("mutex")), {})
WithSem(by, private, allows) ==
    Workers(by, MutexVars, private, <<>>, <<V("mutex")>>, Times(P("mutex"), V("mutex")), allows)
WithFcntl(by, allows) ==
    Workers(by, [counter |-> 0], {}, <<WLock>>, <<UnFlock>>, Times(WLock, UnFlock), allows)
SvVars == [sem |-> 0, otime |-> 0, counter |-> 0]
WithSvsem(by, p, v) == Workers(by, SvVars, {}, <<>>, <<v>>, Times(p, v), {})

\* No lock: main's mutex only starts the threads.
incr_pxmutex0 ==
    Workers("threads", MutexVars, {}, <<Lock("mutex")>>, <<Unlock("mutex")>>,
            <<Lock("mutex"), Unlock("mutex")>> \o For(NLOOP, LAMBDA i : <<Add("counter", 1)>>) \o <<Finish>>, {"race"})
incr_pxmutex1 == WithMutex("threads")
incr_pxmutex5 == WithMutex("processes")
incr_pxsem1 == WithSem("threads", {}, {})
incr_pxsem2 == WithSem("threads", {}, {})
incr_pxsem5 == WithSem("processes", {}, {})
incr_pxsem6 == WithSem("processes", {}, {})
incr_pxsem7 == WithSem("processes", {}, {})

\* Each child opens the semaphore by its name, which main removes at the end.
incr_pxsem8 ==
    LET body == <<If("name", 1, <<>>, <<Finish>>)>> \o Times(P("mutex"), V("mutex")) IN
    [Workers("processes", [mutex |-> 0, counter |-> 0, name |-> 1], {}, <<>>, <<V("mutex")>>, body, {})
     EXCEPT !.main = Front(@) \o <<Set("name", 0), Finish>>]

\* The semaphore itself is copied by fork: no child gets past it.
incr_pxsem9 == WithSem("processes", {"mutex"}, {"stuck"})

\* Record locks do not exclude threads of one process.
incr_fcntl1 == WithFcntl("threads", {"race"})
incr_fcntl5 == WithFcntl("processes", {})
incr_rwlock1 == WithMutex("threads")
incr_rwlock2 == WithMutex("threads")
incr_rwlock5 == WithMutex("processes")
incr_svsem1 == WithSvsem("threads", P("sem"), V("sem"))
incr_svsem2 == WithSvsem("threads", PUndo("sem"), VUndo("sem"))
incr_svsem5 == WithSvsem("processes", P("sem"), V("sem"))
incr_svsem6 == WithSvsem("processes", PUndo("sem"), VUndo("sem"))
bench_test1 == WithSem("threads", {}, {})
my_rwlock_incr_rwlock1 == WithMutex("threads")
my_rwlock_cancel_incr_rwlock1 == WithMutex("threads")

\* shm/: parent and child both count, in a global (copied by the fork), a private
\* or a shared mapping; the parent does not wait for the child.
ParentChild(private, allows) ==
    LET body == Times(P("mutex"), V("mutex")) IN
    [main |-> <<Create({1})>> \o body, workers |-> <<body>>, by |-> "processes",
     vars |-> [mutex |-> 1, counter |-> 0], private |-> private, nbuff |-> 1, allows |-> allows]
shm_incr1 == ParentChild({"counter"}, {"copies"})
shm_incr2 == ParentChild({}, {})
shm_incr2private == ParentChild({"counter"}, {"copies"})
shm_incr3 == ParentChild({}, {})
incr_dev_zero == ParentChild({}, {})
incr_map_anon == ParentChild({}, {})

------------------------------------------------------------------------------
\* lock/: lockmain, lockmainubuf, loopmain and loopmainnonb read the number in a
\* file and write it back plus one, between my_lock and my_unlock; first is what
\* my_lock does when it is first called.
Independent(code, vars, allows) ==
    [main |-> code, workers |-> <<code, code>>, by |-> "independent", vars |-> vars, private |-> {},
     nbuff |-> 1, allows |-> allows]
loop(first, my_lock, my_unlock) ==
    For(NLOOP, LAMBDA i : (IF i = 0 THEN first ELSE <<>>) \o <<my_lock, Add("counter", 1), my_unlock>>) \o <<Finish>>
lockmain(first, my_lock, my_unlock) == loop(first, my_lock, my_unlock)
lockmainubuf(first, my_lock, my_unlock) == loop(first, my_lock, my_unlock)
loopmain(first, my_lock, my_unlock) == loop(first, my_lock, my_unlock)
loopmainnonb(first, my_lock, my_unlock) == loop(first, my_lock, my_unlock)

LockVars == [counter |-> 0, lockfile |-> 0]
locknone == Independent(For(NLOOP, LAMBDA i : <<Add("counter", 1)>>) \o <<Finish>>, LockVars, {"race"})
lockfcntl == Independent(lockmain(<<>>, WLock, UnFlock), LockVars, {})

\* The lock is a file; a process that dies with it leaves the others waiting.
lockopen == Independent(loopmain(<<>>, Creat("lockfile"), Set("lockfile", 0)), LockVars, {"orphan"})
lockopen2 == Independent(loopmainnonb(<<>>, Creat("lockfile"), Set("lockfile", 0)), LockVars, {"orphan"})
locklink == Independent(lockmainubuf(<<>>, Creat("lockfile"), Set("lockfile", 0)), LockVars, {"orphan"})
lockpxsem == Independent(lockmain(<<>>, P("mutex"), V("mutex")), [counter |-> 0, mutex |-> 1], {"orphan"})

\* Faulty: a process that did not create the semaphore does not wait for it to be
\* initialized, but initializes it too.
svsem_init_twice == <<TryCreat("exists", <<Set("sem", 1)>>, <<Set("sem", 1)>>)>>

\* The process that creates the semaphore sets it to one; the others look
\* MAX_TRIES times for a semop, and give up.
tries[n \in 0 .. MAX_TRIES] == IF n = 0 THEN <<Finish>> ELSE <<If("otime", 1, <<>>, tries[n - 1])>>
svsem_init == <<TryCreat("exists", <<Set("sem", 1)>>, tries[MAX_TRIES])>>
locksvsem ==
    Independent(lockmain(svsem_init, PUndo("sem"), VUndo("sem")),
                [counter |-> 0, sem |-> 0, otime |-> 0, exists |-> 0], {})

\* pxshm/: server1 makes the memory and then the semaphore that its clients open.
client1 ==
    <<If("shmname", 1, <<>>, <<Finish>>), If("semname", 1, <<>>, <<Finish>>)>>
    \o loopmain(<<>>, P("mutex"), V("mutex"))
server1 == <<Set("shmname", 1), Set("mutex", 1), Set("semname", 1), Finish>>
pxshm_server1 ==
    [Independent(client1, [counter |-> 0, mutex |-> 0, shmname |-> 0, semname |-> 0], {"orphan"})
     EXCEPT !.main = server1]

\* Threads that open the same two semaphores take them nwaits times each.
testsem ==
    LET nwaits == NLOOP
        initval == 2 * nwaits + 1
        doit == <<TryCreat("name1", <<Set("sem1", initval)>>, <<>>), TryCreat("name2", <<Set("sem2", initval)>>, <<>>)>>
                \o For(nwaits, LAMBDA i : <<P("sem1"), P("sem2")>>) \o <<Finish>> IN
    [main |-> <<Create(W), Join(W), Expect("sem1", initval - 2 * nwaits), Expect("sem2", initval - 2 * nwaits), Finish>>,
     workers |-> <<doit, doit>>, by |-> "threads", private |-> {}, nbuff |-> 1, allows |-> {},
     vars |-> [name1 |-> 0, name2 |-> 0, sem1 |-> 0, sem2 |-> 0]]
my_pxsem_mmap_testsem == testsem
my_pxsem_svsem_testsem == testsem

\* The children of one process lock and unlock; the parent counts conflicts until
\* all have ended.
locksvsemrace1 ==
    LET child == <<P("start")>> \o svsem_init
                 \o For(NLOOP, LAMBDA i : <<PUndo("sem"), VUndo("sem")>>) \o <<Finish>> IN
    [main |-> <<Create(W), V("start"), V("start"), Join(W), Finish>>, workers |-> <<child, child>>,
     by |-> "processes", vars |-> [sem |-> 0, otime |-> 0, exists |-> 0, start |-> 0, counter |-> 0],
     private |-> {}, nbuff |-> 1, allows |-> {}]

\* A daemon holds its lock until it dies; a second one is refused.
onedaemon == Independent(<<TryLock("w"), Set("pidfile", 1), Pause>>, [pidfile |-> 0, counter |-> 0], {"refusal"})

\* Readers share the file; a writer waits for them.
Parent(kind, children) ==
    [main |-> <<TryLock(kind), Create(1 .. Len(children)), UnFlock, Finish>>, workers |-> children,
     by |-> "processes", vars |-> [counter |-> 0], private |-> {}, nbuff |-> 1, allows |-> {}]
lock_test1 == Parent("r", <<<<TryLock("r"), UnFlock, TryLock("r"), Finish>>>>)
lock_test2 == Parent("r", <<<<WLock, UnFlock, Finish>>, <<RLock, UnFlock, Finish>>>>)
lock_test3 == Parent("w", <<<<WLock, UnFlock, Finish>>, <<RLock, UnFlock, Finish>>>>)
lock_test4 == Parent("w", <<<<WLock, UnFlock, Finish>>, <<RLock, UnFlock, Finish>>>>)

IncrPrograms ==
    {incr_pxmutex0, incr_pxmutex1, incr_pxmutex5, incr_pxsem1, incr_pxsem2, incr_pxsem5, incr_pxsem6, incr_pxsem7,
     incr_pxsem8, incr_pxsem9, incr_fcntl1, incr_fcntl5, incr_rwlock1, incr_rwlock2, incr_rwlock5,
     incr_svsem1, incr_svsem2, incr_svsem5, incr_svsem6, bench_test1, my_rwlock_incr_rwlock1,
     my_rwlock_cancel_incr_rwlock1, shm_incr1, shm_incr2, shm_incr2private, shm_incr3, incr_dev_zero, incr_map_anon,
     locknone, lockfcntl, lockopen, lockopen2, locklink, lockpxsem, locksvsem, locksvsemrace1, onedaemon,
     pxshm_server1, my_pxsem_mmap_testsem, my_pxsem_svsem_testsem,
     lock_test1, lock_test2, lock_test3, lock_test4}
==============================================================================
