------------------------------ MODULE Commands -------------------------------
(***************************************************************************)
(* The small commands that make, use and remove one named object: svmsg/,  *)
(* svsem/, svshm/ (System V), pxmsg/, my_pxmsg_mmap/, pxsem/ and pxshm/    *)
(* (Posix).  Users run them in any order and at the same time.  A command  *)
(* looks its object up first and uses it in later steps, so that the name  *)
(* can be given to another object in between.  The calls are those of the  *)
(* system, as the commands use them.                                       *)
(***************************************************************************)
EXTENDS Integers, SequencesExt, FiniteSetsExt

CONSTANTS Users, MaxCommands,
          ROOM,        \* messages a queue holds
          NBYTES       \* lengths of a memory

VARIABLES kind,        \* of the object
          key,         \* the object the name stands for, 0 when there is none
          obj,         \* all objects made so far
          run,         \* what each user's command still has to do
          ncommands

cmdvars == <<kind, key, obj, run, ncommands>>

\* A System V message queue or semaphore set is gone at once when it is removed;
\* every other object stays for those who have it.
Vanishes == kind \in {"msg", "sem"}

\* sent and got are histories, and so are net (what the operations that are not
\* undone add up to), written (every byte was stored since the size last changed)
\* and complaint (a reader found a byte wrong that had been stored).
Fresh(len) == [gone |-> FALSE, msgs |-> <<>>, sent |-> 0, got |-> <<>>,
               val |-> IF kind = "pxsem" THEN len ELSE 0, net |-> IF kind = "pxsem" THEN len ELSE 0, clamped |-> FALSE,
               bytes |-> IF kind = "shm" THEN [i \in 1 .. len |-> 0] ELSE <<>>, written |-> FALSE, complaint |-> FALSE]
\* n is the size a command has seen, sound what it saw of written, still that the size is that still.
Idle == [todo |-> <<>>, id |-> 0, n |-> 0, adj |-> 0, sound |-> FALSE, still |-> FALSE]

------------------------------------------------------------------------------
\* Statements, and the commands written with them.
Get(how, len)  == [op |-> "get", how |-> how, len |-> len]
GetId          == [op |-> "getid"]                       \* the identifier is an argument
Remove_        == [op |-> "rm"]
Send(type)     == [op |-> "send", type |-> type]
Receive(type, nowait) == [op |-> "receive", type |-> type, nowait |-> nowait]
Stat           == [op |-> "stat"]                        \* and attach, map or print
SetAll(v)      == [op |-> "setall", v |-> v]
Semop(d, nowait, undo) == [op |-> "semop", d |-> d, nowait |-> nowait, undo |-> undo]
Truncate(len)  == [op |-> "truncate", len |-> len]
Store(i)       == [op |-> "store", i |-> i]
Fetch(i)       == [op |-> "fetch", i |-> i]
Pause          == [op |-> "pause"]

Lookup == Get("lookup", 0)
Creates == {Get("create", 0), Get("excl", 0)}
Types == {1, 2}

msgcreate == {<<g>> : g \in Creates}
msgsnd == {<<Lookup, Send(t)>> : t \in Types}
msgrcv == {<<Lookup, Receive(t, n)>> : t \in {0} \cup Types, n \in BOOLEAN}
msgrcvid == {<<GetId, Receive(0, FALSE)>>}
msgrmid == {<<Lookup, Remove_>>}

mqcreate == {<<g>> : g \in Creates}
mqsend == {<<Lookup, Send(t)>> : t \in Types}
mqreceive == {<<Lookup, Stat, Receive(0, n)>> : n \in BOOLEAN}
mqgetattr == {<<Lookup, Stat>>}
mqunlink == {<<Remove_>>}

\* my_pxmsg_mmap/ has the same commands, with its own message queues; pxmsg/mqcreate1
\* creates one with the default attributes.
my_mqcreate == mqcreate
my_mqsend == mqsend
my_mqreceive == mqreceive
my_mqgetattr == mqgetattr
my_mqunlink == mqunlink
mqcreate1 == mqcreate

svsem_semcreate == {<<g>> : g \in Creates}
semsetvalues == {<<Lookup, Stat, SetAll(v)>> : v \in {0, 2}}
semgetvalues == {<<Lookup, Stat, Stat>>}
semops == {<<Lookup, Semop(d, n, u)>> : d \in {-1, 0, 1}, n \in BOOLEAN, u \in BOOLEAN}
semopsid == {<<GetId, Semop(d, FALSE, u)>> : d \in {-1, 1}, u \in BOOLEAN}
semrmid == {<<Lookup, Remove_>>}

pxsem_semcreate == {<<Get(h, v)>> : h \in {"create", "excl"}, v \in {0, 1}}
sempost == {<<Lookup, Semop(1, FALSE, FALSE), Stat>>}
semwait == {<<Lookup, Semop(-1, FALSE, FALSE), Stat, Pause>>}
semgetvalue == {<<Lookup, Stat>>}
semunlink == {<<Remove_>>}

shmget == {<<Get(h, len), Stat>> : h \in {"create", "excl"}, len \in NBYTES}
shmwrite == {<<Lookup, Stat, Store(1)>>}
shmread == {<<Lookup, Stat, Fetch(1)>>}
shmreadid == {<<GetId, Stat, Fetch(1)>>}
shmrmid == {<<Lookup, Remove_>>}
pxshm_shmwrite == shmwrite
pxshm_shmread == shmread
shmcreate == {<<Get(h, 0), Truncate(len)>> : h \in {"create", "excl"}, len \in NBYTES}
shmunlink == {<<Remove_>>}

CommandsOf(k) ==
    CASE k = "msg" -> msgcreate \cup msgsnd \cup msgrcv \cup msgrcvid \cup msgrmid
      [] k = "mq" -> mqcreate \cup mqcreate1 \cup mqsend \cup mqreceive \cup mqgetattr \cup mqunlink
                     \cup my_mqcreate \cup my_mqsend \cup my_mqreceive \cup my_mqgetattr \cup my_mqunlink
      [] k = "sem" -> svsem_semcreate \cup semsetvalues \cup semgetvalues \cup semops \cup semopsid \cup semrmid
      [] k = "pxsem" -> pxsem_semcreate \cup sempost \cup semwait \cup semgetvalue \cup semunlink
      [] k = "shm" -> shmget \cup shmwrite \cup shmread \cup shmreadid \cup shmrmid
      [] k = "pxshm" -> shmcreate \cup pxshm_shmwrite \cup pxshm_shmread \cup shmunlink

Init ==
    /\ kind \in {"msg", "mq", "sem", "pxsem", "shm", "pxshm"}
    /\ key = 0 /\ obj = <<>> /\ run = [u \in Users |-> Idle] /\ ncommands = 0

start(u) ==
    /\ run[u] = Idle /\ ncommands < MaxCommands /\ ncommands' = ncommands + 1
    /\ \E c \in CommandsOf(kind) : run' = [run EXCEPT ![u].todo = c]
    /\ UNCHANGED <<kind, key, obj>>

At(u, op) == run[u].todo # <<>> /\ Head(run[u].todo).op = op
St(u) == Head(run[u].todo)
Ob(u) == obj[run[u].id]
Lost(u) == Ob(u).gone /\ Vanishes

\* A call fails, and the wrapper ends the command; the next statement, with r what
\* the command knows; and a change of its object.
Fails(u) == run' = [run EXCEPT ![u].todo = <<>>]
Then(u, r) == run' = [run EXCEPT ![u] = [r EXCEPT !.todo = Tail(@)]]
Becomes(u, o) == obj' = [obj EXCEPT ![run[u].id] = o]

\* The process ends: an adjustment it still has is made, but no value becomes negative.
Undone(o, adj) == [o EXCEPT !.val = IF @ + adj < 0 THEN 0 ELSE @ + adj, !.clamped = @ \/ o.val + adj < 0]
exit(u) ==
    /\ run[u] # Idle /\ run[u].todo = <<>> /\ run' = [run EXCEPT ![u] = Idle]
    /\ IF run[u].adj = 0 THEN UNCHANGED obj ELSE Becomes(u, Undone(Ob(u), run[u].adj))
    /\ UNCHANGED <<kind, key, ncommands>>

\* msgget, semget, shmget, mq_open, sem_open and shm_open, by the name.  A memory
\* that exists must be as long as is asked for.
get(u) ==
    /\ At(u, "get")
    /\ LET s == St(u) IN
       IF key = 0 /\ s.how # "lookup"
       THEN /\ obj' = Append(obj, Fresh(s.len)) /\ key' = Len(obj) + 1
            /\ Then(u, [run[u] EXCEPT !.id = Len(obj) + 1])
       ELSE /\ UNCHANGED <<obj, key>>
            /\ IF key = 0 \/ s.how = "excl" \/ (kind = "shm" /\ s.len > Len(obj[key].bytes)) THEN Fails(u)
               ELSE Then(u, [run[u] EXCEPT !.id = key])
    /\ UNCHANGED <<kind, ncommands>>

\* The identifier of an object made at some time.
getid(u) ==
    /\ At(u, "getid") /\ \E id \in DOMAIN obj : Then(u, [run[u] EXCEPT !.id = id])
    /\ UNCHANGED <<kind, key, obj, ncommands>>

\* IPC_RMID on the identifier, or unlink of the name.
rm(u) ==
    /\ At(u, "rm")
    /\ LET id == IF run[u].id = 0 THEN key ELSE run[u].id IN
       IF id = 0 \/ obj[id].gone THEN Fails(u) /\ UNCHANGED <<obj, key>>
       ELSE /\ obj' = [obj EXCEPT ![id].gone = TRUE] /\ key' = IF key = id THEN 0 ELSE key
            /\ Then(u, run[u])
    /\ UNCHANGED <<kind, ncommands>>

\* The size is asked for, a memory is attached or mapped, values are printed.
stat(u) ==
    /\ At(u, "stat")
    /\ IF Lost(u) \/ (kind = "shm" /\ Ob(u).gone /\ run[u].n = 0) THEN Fails(u)
       ELSE Then(u, [run[u] EXCEPT !.n = Len(Ob(u).bytes), !.sound = Ob(u).written, !.still = TRUE])
    /\ UNCHANGED <<kind, key, obj, ncommands>>

------------------------------------------------------------------------------
\* msgsnd and mq_send wait while the queue is full.
send(u) ==
    /\ At(u, "send")
    /\ LET o == Ob(u) IN
       IF Lost(u) THEN Fails(u) /\ UNCHANGED obj
       ELSE /\ Len(o.msgs) < ROOM /\ Then(u, run[u])
            /\ Becomes(u, [o EXCEPT !.msgs = Append(@, [type |-> St(u).type, n |-> o.sent]), !.sent = @ + 1])
    /\ UNCHANGED <<kind, key, ncommands>>

\* msgrcv takes the first message (of the type), mq_receive the first of the highest priority.
Wanted(msgs, type) ==
    {i \in DOMAIN msgs : IF kind = "msg" THEN type \in {0, msgs[i].type} ELSE \A m \in DOMAIN msgs : msgs[m].type <= msgs[i].type}
receive(u) ==
    /\ At(u, "receive")
    /\ LET o == Ob(u)
           I == Wanted(o.msgs, St(u).type) IN
       IF Lost(u) \/ (I = {} /\ St(u).nowait) THEN Fails(u) /\ UNCHANGED obj
       ELSE /\ I # {} /\ Then(u, run[u])
            /\ LET i == CHOOSE k \in I : \A l \in I : k <= l IN
               Becomes(u, [o EXCEPT !.msgs = RemoveAt(@, i), !.got = Append(@, o.msgs[i])])
    /\ UNCHANGED <<kind, key, ncommands>>

\* SETALL; adjustments kept for the old values are forgotten.
setall(u) ==
    /\ At(u, "setall")
    /\ IF Lost(u) THEN Fails(u) /\ UNCHANGED obj
       ELSE /\ Becomes(u, [Ob(u) EXCEPT !.val = St(u).v, !.net = St(u).v, !.clamped = FALSE])
            /\ run' = [w \in Users |-> IF w = u THEN [run[u] EXCEPT !.todo = Tail(@)]
                                      ELSE IF run[w].id = run[u].id THEN [run[w] EXCEPT !.adj = 0] ELSE run[w]]
    /\ UNCHANGED <<kind, key, ncommands>>

\* semop, sem_wait and sem_post.
Blocks(v, d) == IF d = 0 THEN v # 0 ELSE v + d < 0
semop(u) ==
    /\ At(u, "semop")
    /\ LET s == St(u)
           o == Ob(u) IN
       IF Lost(u) \/ (Blocks(o.val, s.d) /\ s.nowait) THEN Fails(u) /\ UNCHANGED obj
       ELSE /\ ~Blocks(o.val, s.d)
            /\ Then(u, [run[u] EXCEPT !.adj = IF s.undo THEN @ - s.d ELSE @])
            /\ Becomes(u, [o EXCEPT !.val = @ + s.d, !.net = IF s.undo THEN @ ELSE @ + s.d])
    /\ UNCHANGED <<kind, key, ncommands>>

\* The holder of the semaphore is killed.
pause(u) == At(u, "pause") /\ Then(u, run[u]) /\ UNCHANGED <<kind, key, obj, ncommands>>

------------------------------------------------------------------------------
\* A byte (which stands for a page of them) has its index as value.
Pattern(i) == (i - 1) % 256
Resized(bytes, len) == [i \in 1 .. len |-> IF i \in DOMAIN bytes THEN bytes[i] ELSE 0]
Upset(id) == [w \in Users |-> IF run[w].id = id THEN [run[w] EXCEPT !.still = FALSE] ELSE run[w]]

\* ftruncate by shmcreate, also of a memory that exists already.
truncate(u) ==
    /\ At(u, "truncate")
    /\ LET o == Ob(u)
           len == St(u).len IN
       /\ Becomes(u, [o EXCEPT !.bytes = Resized(@, len), !.written = @ /\ len <= Len(o.bytes)])
       /\ run' = [(IF len = Len(o.bytes) THEN run ELSE Upset(run[u].id)) EXCEPT ![u].todo = Tail(@)]
    /\ UNCHANGED <<kind, key, ncommands>>

\* Faulty: the last byte is left out.
Stored_early(i, n) == i >= n
Stored(i, n) == i > n

\* The loops of shmwrite and shmread.  A page that was cut off kills the process.
store(u) ==
    /\ At(u, "store")
    /\ LET i == St(u).i
           o == Ob(u) IN
       IF Stored(i, run[u].n) THEN Then(u, run[u]) /\ Becomes(u, [o EXCEPT !.written = @ \/ run[u].still])
       ELSE IF i > Len(o.bytes) THEN Fails(u) /\ UNCHANGED obj
       ELSE /\ run' = [run EXCEPT ![u].todo = <<Store(i + 1)>>]
            /\ Becomes(u, [o EXCEPT !.bytes[i] = Pattern(i)])
    /\ UNCHANGED <<kind, key, ncommands>>

fetch(u) ==
    /\ At(u, "fetch")
    /\ LET i == St(u).i
           o == Ob(u)
           bad == i <= run[u].n /\ (i > Len(o.bytes) \/ o.bytes[i] # Pattern(i)) IN
       /\ IF i > run[u].n \/ i > Len(o.bytes) THEN Fails(u)
          ELSE run' = [run EXCEPT ![u].todo = <<Fetch(i + 1)>>]
       /\ Becomes(u, [o EXCEPT !.complaint = @ \/ (bad /\ run[u].sound /\ run[u].still)])
    /\ UNCHANGED <<kind, key, ncommands>>

Next ==
    \E u \in Users :
       \/ start(u) \/ exit(u) \/ get(u) \/ getid(u) \/ rm(u) \/ stat(u) \/ send(u) \/ receive(u)
       \/ setall(u) \/ semop(u) \/ pause(u) \/ truncate(u) \/ store(u) \/ fetch(u)

Spec == Init /\ [][Next]_cmdvars

------------------------------------------------------------------------------
\* What the commands that still run will add back to a semaphore.
SumOver(id) == FoldSet(LAMBDA u, sum : sum + run[u].adj, 0, {u \in Users : run[u].id = id})

\* Whatever the commands are run with and in whatever order their steps fall: each
\* message is received once, and messages of one type (or priority) in the order they
\* were sent; a semaphore has the value its operations add up to, those of ended
\* "semops -u" commands left out, unless an adjustment met a value that was too
\* small; and shmread complains of no byte of a memory that shmwrite has written and
\* nobody has resized since.
ObjectsKeep ==
    \A id \in DOMAIN obj :
       LET o == obj[id] IN
       /\ Len(o.got) + Len(o.msgs) = o.sent
       /\ \A i, j \in DOMAIN o.got : i < j /\ o.got[i].type = o.got[j].type => o.got[i].n < o.got[j].n
       /\ o.val >= 0
       /\ ~o.clamped => o.val = o.net - SumOver(id)
       /\ ~o.complaint
==============================================================================
