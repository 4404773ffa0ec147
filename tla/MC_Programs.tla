------------------------------ MODULE MC_Programs ------------------------------
(***************************************************************************)
(* The programs and libraries of unpv22e, and hoc.  A behaviour is one of  *)
(* the part that is chosen at the start.  Only one part moves, so all but  *)
(* PxMsg keep their state in the same variables v1, v2, ...                *)
(***************************************************************************)
EXTENDS PxMsg

VARIABLES part, v1, v2, v3, v4, v5, v6, v7, v8, v9, v10, v11, v12

\* Threads and processes with shared data: producers, consumers and counters.
Texts == INSTANCE Threads WITH
    Programs <- {}, NITEMS <- 4, NBUFF <- 2, NLOOP <- 2, MAX_TRIES <- 2,
    prog <- v1, rest <- v2, started <- v3, mem <- v4, buff <- v5, waiting <- v6, flock <- v7,
    undo <- v8, error <- v9, sections <- v10, killed <- v11
Running == INSTANCE Threads WITH
    Programs <- Texts!ProdConsPrograms \cup Texts!IncrPrograms,
    NITEMS <- 4, NBUFF <- 2, NLOOP <- 2, MAX_TRIES <- 2,
    prog <- v1, rest <- v2, started <- v3, mem <- v4, buff <- v5, waiting <- v6, flock <- v7,
    undo <- v8, error <- v9, sections <- v10, killed <- v11

\* Clients with their servers, over pipes, FIFOs and message queues.
Codes == INSTANCE ClientServer WITH
    ChanPrograms <- {}, ROOM <- 2, NLOOP <- 2, NWRITES <- 3,
    cprog <- v1, path <- v2, todo <- v3, made <- v4, msgs <- v5, rd <- v6, wr <- v7, printed <- v8,
    failed <- v9, zombie <- v10, chld <- v11, killed <- v12
Clients == INSTANCE ClientServer WITH
    ChanPrograms <- Codes!ClientServerPrograms, ROOM <- 2, NLOOP <- 2, NWRITES <- 3,
    cprog <- v1, path <- v2, todo <- v3, made <- v4, msgs <- v5, rd <- v6, wr <- v7, printed <- v8,
    failed <- v9, zombie <- v10, chld <- v11, killed <- v12

DoorPair == INSTANCE Doors WITH
    DoorClients <- {2, 3}, NTHREADS <- 3,
    dprog <- v1, main <- v2, fd <- v3, fdlock <- v4, path <- v5, revoked <- v6, thread <- v7,
    client <- v8, down <- v9, unref <- v10

Shell == INSTANCE Commands WITH
    Users <- {"u1", "u2"}, MaxCommands <- 5, ROOM <- 1, NBYTES <- {1, 2},
    kind <- v1, key <- v2, obj <- v3, run <- v4, ncommands <- v5

Sems == INSTANCE SemImpl WITH
    SemProcs <- {"p1", "p2"}, VALUE <- 1, NSEMS <- 2, MAX_TRIES <- 2, MaxSemCalls <- 5,
    impl <- v1, name <- v2, files <- v3, key <- v4, sem <- v5, call <- v6, ncalls <- v7, windows <- v8

Signals == INSTANCE Notify WITH
    NSENDS <- 2, SIGQUEUE_MAX <- 14,
    nprog <- v1, code <- v2, mq <- v3, open <- v4, waiting <- v5, pend <- v6, mask <- v7, got <- v8,
    failed <- v9

Calculator == INSTANCE Hoc WITH
    NSTACK <- 8, NPROG <- 110, NFRAME <- 4, MaxLines <- 4,
    version <- v1, m <- v2, meant <- v3, hwindows <- v4, nlines <- v5

------------------------------------------------------------------------------
others == <<v1, v2, v3, v4, v5, v6, v7, v8, v9, v10, v11, v12>>

\* The variables that a part does not use, from the sixth, ninth, ... on.
Rest6  == v6 = 0 /\ v7 = 0 /\ v8 = 0
Rest9  == v9 = 0 /\ v10 = 0
Rest11 == v11 = 0 /\ v12 = 0

MCInit ==
    /\ part \in {"threads", "clients", "doors", "shell", "sems", "signals", "hoc", "queue"}
    /\ Init
    /\ CASE part = "threads" -> Running!Init /\ v12 = 0
         [] part = "clients" -> Clients!Init
         [] part = "doors" -> DoorPair!Init /\ Rest11
         [] part = "shell" -> Shell!Init /\ Rest6 /\ Rest9 /\ Rest11
         [] part = "sems" -> Sems!Init /\ Rest9 /\ Rest11
         [] part = "signals" -> Signals!Init /\ v10 = 0 /\ Rest11
         [] part = "hoc" -> Calculator!Init /\ Rest6 /\ Rest9 /\ Rest11
         [] OTHER -> v1 = 0 /\ v2 = 0 /\ v3 = 0 /\ v4 = 0 /\ v5 = 0 /\ Rest6 /\ Rest9 /\ Rest11

MCNext ==
    /\ UNCHANGED part
    /\ \/ part = "queue" /\ Next /\ UNCHANGED others
       \/ /\ part # "queue" /\ UNCHANGED vars
          /\ \/ part = "threads" /\ Running!Next /\ UNCHANGED v12
             \/ part = "clients" /\ Clients!Next
             \/ part = "doors" /\ DoorPair!Next /\ UNCHANGED <<v11, v12>>
             \/ part = "shell" /\ Shell!Next /\ UNCHANGED <<v6, v7, v8, v9, v10, v11, v12>>
             \/ part = "sems" /\ Sems!Next /\ UNCHANGED <<v9, v10, v11, v12>>
             \/ part = "signals" /\ Signals!Next /\ UNCHANGED <<v10, v11, v12>>
             \/ part = "hoc" /\ Calculator!Next /\ UNCHANGED <<v6, v7, v8, v9, v10, v11, v12>>
       \/ part # "threads" /\ UNCHANGED <<vars, others>>  \* only the threads have to go on

MCSpec == MCInit /\ [][MCNext]_<<part, vars, others>>

(* Nobody waits at a queue of my_pxmsg_mmap/ that it could use.                *)
NobodyWaits == part = "queue" => NobodyStuck
(* mq_receive takes the oldest of the messages of the highest priority: each   *)
(* step is one of the abstract queue, as InPriorityOrder says.                 *)
PriorityOrder == Queue!Init /\ [][part = "queue" => [Queue!Next]_<<Contents, received>>]_vars
(* The programs with threads find their data as their locking promises:        *)
(* mutex/, pxsem/, lock/ and others of unpv22e.                                *)
DataSound == part = "threads" => Running!DataSound
(* A client gets the file it asked for, and no process is left behind: the     *)
(* programs of pipe, fifo and svmsg.                                           *)
ClientsServed == part = "clients" => Clients!ClientsServed
(* A door call returns the answer of its own call, once: doors/.               *)
DoorsRight == part = "doors" => DoorPair!DoorsRight
(* The commands on message queues, semaphores and shared memory keep what is   *)
(* in them: svmsg/, pxmsg/, svsem/, pxsem/, svshm/, pxshm/.                    *)
ObjectsKeep == part = "shell" => Shell!ObjectsKeep
(* my_pxsem_fifo/ and my_pxsem_svsem/ keep the value of a semaphore.           *)
SemsKeepValue == part = "sems" => Sems!SemsKeepValue
(* No message waits for a receiver that is notified of messages: pxmsg/ and    *)
(* rtsignals/.                                                                 *)
QueueWatched == part = "signals" => Signals!QueueWatched
(* A line that hoc runs prints and stores what it means: code.c.               *)
HocRight == part = "hoc" => Calculator!HocRight
==============================================================================
