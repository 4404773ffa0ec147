------------------------------- MODULE SemImpl --------------------------------
(***************************************************************************)
(* Two more implementations of named semaphores: with the bytes of a FIFO  *)
(* (my_pxsem_fifo) and with a System V semaphore whose key comes from a    *)
(* file (my_pxsem_svsem).  An action is one system call with the code up   *)
(* to the next.  A FIFO's bytes vanish when nobody has it open any more; a *)
(* System V semaphore stays until it is removed, and is then gone for all. *)
(***************************************************************************)
EXTENDS Integers, FiniteSets

CONSTANTS SemProcs,
          VALUE,       \* what creators pass to mysem_open
          MAX_TRIES,
          NSEMS,       \* bound on the FIFOs, or files, and on the semaphores
          MaxSemCalls  \* bound on the calls

VARIABLES impl,        \* "fifo" or "svsem"
          name,        \* the FIFO or file at the pathname, 0 if none
          files,       \* made so far
          key,         \* svsem: the semaphore of each file, 0 if none
          sem,         \* value, sem_otime, removed; histories: units put in by
                       \* mysem_open, posts less waits, and that the bytes vanished
          call,        \* what each process is doing
          ncalls, windows

semvars == <<impl, name, files, key, sem, call, ncalls, windows>>

Sems == 1 .. NSEMS
NoSem == [val |-> 0, otime |-> FALSE, gone |-> FALSE, init |-> 0, net |-> 0, drained |-> FALSE]
Out == [pc |-> "out", creat |-> FALSE, excl |-> FALSE, big |-> FALSE, f |-> 0, rd |-> 0, wr |-> 0, n |-> 0]

Init ==
    /\ impl \in {"fifo", "svsem"} /\ name = 0 /\ files = 0
    /\ key = [f \in Sems |-> 0] /\ sem = [s \in Sems |-> NoSem]
    /\ call = [p \in SemProcs |-> Out] /\ ncalls = 0 /\ windows = {}

Starts(p) == ncalls < MaxSemCalls /\ ncalls' = ncalls + 1
At(p, pc) == call[p].pc = pc
To(p, r) == call' = [call EXCEPT ![p] = r]
Goto(p, pc) == To(p, [call[p] EXCEPT !.pc = pc])
Opened(p) == call[p].pc = "open"

------------------------------------------------------------------------------
\* my_pxsem_fifo.  Faulty: O_CREAT is not cleared when the FIFO exists already.
Created_always(p) == TRUE
Created(p) == name = 0

fifo_open(p, creat, excl) ==
    /\ impl = "fifo" /\ At(p, "out") /\ Starts(p)
    /\ IF ~creat THEN To(p, [Out EXCEPT !.pc = "fd0"]) /\ UNCHANGED <<name, files>>
       ELSE IF name # 0 THEN /\ To(p, IF excl THEN Out ELSE [Out EXCEPT !.pc = "fd0", !.creat = Created(p)])
                             /\ UNCHANGED <<name, files>>
       ELSE /\ files < NSEMS /\ files' = files + 1 /\ name' = files'
            /\ To(p, [Out EXCEPT !.pc = "fd0", !.creat = TRUE])
    /\ UNCHANGED <<impl, key, sem, windows>>

\* A FIFO that no process has open loses its bytes.
Uses(r) == {r.rd, r.wr} \ {0}
Drained(sems, c) ==
    [s \in Sems |-> IF sems[s].val > 0 /\ \A q \in SemProcs : s \notin Uses(c[q])
                    THEN [sems[s] EXCEPT !.val = 0, !.drained = TRUE] ELSE sems[s]]
CloseBoth(p) == LET c == [call EXCEPT ![p] = Out] IN call' = c /\ sem' = Drained(sem, c)

\* "if we created FIFO": whatever has its name now is unlinked.
fifo_error(p) == CloseBoth(p) /\ name' = IF call[p].creat THEN 0 ELSE name

\* open(pathname, O_RDONLY | O_NONBLOCK), then O_WRONLY | O_NONBLOCK, which needs a reader.
fifo_open_read(p) ==
    /\ At(p, "fd0")
    /\ IF name = 0 THEN fifo_error(p)
       ELSE To(p, [call[p] EXCEPT !.pc = "fd1", !.rd = name]) /\ UNCHANGED <<sem, name>>
    /\ UNCHANGED <<impl, files, key, ncalls, windows>>

Readers(s) == {q \in SemProcs : call[q].rd = s}
Writers(s) == {q \in SemProcs : call[q].wr = s}
fifo_open_write(p) ==
    /\ At(p, "fd1")
    /\ IF name = 0 \/ Readers(name) = {} THEN fifo_error(p)
       ELSE /\ To(p, [call[p] EXCEPT !.pc = IF call[p].creat /\ VALUE > 0 THEN "init" ELSE "open", !.wr = name])
            /\ UNCHANGED <<sem, name>>
    /\ UNCHANGED <<impl, files, key, ncalls, windows>>

\* One byte for each unit of the value.
fifo_init(p) ==
    /\ At(p, "init")
    /\ sem' = [sem EXCEPT ![call[p].wr].val = @ + 1, ![call[p].wr].init = @ + 1]
    /\ To(p, [call[p] EXCEPT !.n = @ + 1, !.pc = IF call[p].n + 1 = VALUE THEN "open" ELSE "init"])
    /\ UNCHANGED <<impl, name, files, key, ncalls, windows>>

\* read and write of one byte.  Both ends are one FIFO, unless the name was removed
\* and given again between the two calls of open.
fifo_wait(p) ==
    /\ impl = "fifo" /\ Opened(p) /\ Starts(p)
    /\ LET s == call[p].rd IN
       IF sem[s].val = 0 THEN Writers(s) = {} /\ UNCHANGED sem
       ELSE sem' = [sem EXCEPT ![s].val = @ - 1, ![s].net = @ - 1]
    /\ UNCHANGED <<impl, name, files, key, call, windows>>

fifo_post(p) ==
    /\ impl = "fifo" /\ Opened(p) /\ Starts(p)
    /\ LET s == call[p].wr IN
       IF Readers(s) = {} THEN CloseBoth(p)
       ELSE sem' = [sem EXCEPT ![s].val = @ + 1, ![s].net = @ + 1] /\ UNCHANGED call
    /\ UNCHANGED <<impl, name, files, key, windows>>

\* mysem_close, and what happens when the process ends anywhere.
fifo_close(p) ==
    /\ impl = "fifo" /\ ~At(p, "out") /\ CloseBoth(p)
    /\ UNCHANGED <<impl, name, files, key, ncalls, windows>>

fifo_unlink(p) ==
    /\ impl = "fifo" /\ At(p, "out") /\ Starts(p) /\ name # 0 /\ name' = 0
    /\ windows' = windows \cup {"unlinked"}
    /\ UNCHANGED <<impl, files, key, sem, call>>

------------------------------------------------------------------------------
\* my_pxsem_svsem.  The file is made or found, by open with oflag.
svsem_open(p, creat, excl) ==
    /\ impl = "svsem" /\ At(p, "out") /\ Starts(p)
    /\ \E big \in IF creat THEN BOOLEAN ELSE {FALSE} :
       LET r == [Out EXCEPT !.creat = creat, !.excl = excl, !.big = big] IN
       IF ~creat THEN To(p, [r EXCEPT !.pc = "lookup"]) /\ UNCHANGED <<name, files>>
       ELSE IF name # 0 THEN To(p, IF excl THEN Out ELSE [r EXCEPT !.pc = "ftok"]) /\ UNCHANGED <<name, files>>
       ELSE files < NSEMS /\ files' = files + 1 /\ name' = files' /\ To(p, [r EXCEPT !.pc = "ftok"])
    /\ UNCHANGED <<impl, key, sem, windows>>

ftok(p) ==
    /\ At(p, "ftok")
    /\ IF name = 0 THEN To(p, Out) ELSE To(p, [call[p] EXCEPT !.pc = "semget", !.f = name])
    /\ UNCHANGED <<impl, name, files, key, sem, ncalls, windows>>

\* "create the System V semaphore with IPC_EXCL"
Unused == {s \in Sems : \A f \in Sems : key[f] # s /\ sem[s] = NoSem}
Newest == CHOOSE s \in Unused : \A t \in Unused : s <= t
semget(p) ==
    /\ At(p, "semget")
    /\ LET f == call[p].f IN
       IF key[f] = 0
       THEN /\ Unused # {} /\ key' = [key EXCEPT ![f] = Newest]
            /\ To(p, [call[p] EXCEPT !.pc = "setval", !.rd = Newest])
       ELSE To(p, IF call[p].excl THEN Out ELSE [call[p] EXCEPT !.pc = "lookup"]) /\ UNCHANGED key
    /\ UNCHANGED <<impl, name, files, sem, ncalls, windows>>

\* IPC_RMID of a semaphore that is still there.
Removed(s) == /\ sem' = [sem EXCEPT ![s].gone = TRUE]
              /\ key' = [f \in Sems |-> IF key[f] = s THEN 0 ELSE key[f]]

\* "we're the first so initialize to 0"; a value that is too large is found out now.
setval(p) ==
    /\ At(p, "setval")
    /\ LET s == call[p].rd IN
       IF sem[s].gone THEN To(p, Out) /\ UNCHANGED <<sem, key, windows>>
       ELSE IF call[p].big THEN Removed(s) /\ To(p, Out) /\ windows' = windows \cup {"big"}
       ELSE sem' = [sem EXCEPT ![s].val = 0] /\ Goto(p, "initop") /\ UNCHANGED <<key, windows>>
    /\ UNCHANGED <<impl, name, files, ncalls>>

\* "then increment by value to set sem_otime nonzero"
initop(p) ==
    /\ At(p, "initop")
    /\ LET s == call[p].rd IN
       IF sem[s].gone THEN To(p, Out) /\ UNCHANGED sem
       ELSE /\ sem' = [sem EXCEPT ![s].val = @ + VALUE, ![s].otime = TRUE, ![s].init = @ + VALUE]
            /\ Goto(p, "open")
    /\ UNCHANGED <<impl, name, files, key, ncalls, windows>>

\* "Must open semaphore and make certain it has been initialized."
lookup(p) ==
    /\ At(p, "lookup")
    /\ IF name = 0 \/ key[name] = 0 THEN To(p, Out)
       ELSE To(p, [call[p] EXCEPT !.pc = "stat", !.f = name, !.rd = key[name], !.n = 0])
    /\ UNCHANGED <<impl, name, files, key, sem, ncalls, windows>>

\* Faulty: nobody waits for the initialization.
Initialized_hoped(s) == TRUE
Initialized(s) == sem[s].otime

\* One round of the loop; after MAX_TRIES the semaphore is removed, whoever made it.
stat(p) ==
    /\ At(p, "stat")
    /\ LET s == call[p].rd IN
       IF sem[s].gone THEN To(p, Out) /\ UNCHANGED <<sem, key, windows>>
       ELSE IF Initialized(s) THEN Goto(p, "open") /\ UNCHANGED <<sem, key, windows>>
       ELSE IF call[p].n + 1 < MAX_TRIES THEN To(p, [call[p] EXCEPT !.n = @ + 1]) /\ UNCHANGED <<sem, key, windows>>
       ELSE Removed(s) /\ To(p, Out) /\ windows' = windows \cup {"timeout"}
    /\ UNCHANGED <<impl, name, files, ncalls>>

\* semop: mysem_wait and mysem_trywait, and mysem_post.  On a semaphore that is gone it fails.
svsem_op(p, d) ==
    /\ impl = "svsem" /\ Opened(p) /\ Starts(p)
    /\ LET s == call[p].rd IN
       IF sem[s].gone THEN UNCHANGED sem
       ELSE sem[s].val + d >= 0 /\ sem' = [sem EXCEPT ![s].val = @ + d, ![s].net = @ + d, ![s].otime = TRUE]
    /\ UNCHANGED <<impl, name, files, key, call, windows>>

svsem_close(p) ==
    /\ impl = "svsem" /\ At(p, "open") /\ To(p, Out)
    /\ UNCHANGED <<impl, name, files, key, sem, ncalls, windows>>

\* The process dies in mysem_open.
crash(p) ==
    /\ impl = "svsem" /\ call[p].pc \in {"semget", "setval", "initop"} /\ To(p, Out)
    /\ UNCHANGED <<impl, name, files, key, sem, ncalls, windows>>

\* mysem_unlink: ftok, unlink of the name, and IPC_RMID of the semaphore of that key.
svsem_unlink(p) ==
    /\ impl = "svsem" /\ At(p, "out") /\ Starts(p) /\ name # 0
    /\ To(p, [Out EXCEPT !.pc = "unlink", !.f = name]) /\ windows' = windows \cup {"unlinked"}
    /\ UNCHANGED <<impl, name, files, key, sem>>
svsem_unlink_file(p) ==
    /\ At(p, "unlink")
    /\ IF name = 0 THEN To(p, Out) ELSE Goto(p, "rmid")
    /\ name' = 0 /\ UNCHANGED <<impl, files, key, sem, ncalls, windows>>
svsem_unlink_rmid(p) ==
    /\ At(p, "rmid") /\ To(p, Out)
    /\ IF key[call[p].f] = 0 THEN UNCHANGED <<sem, key>> ELSE Removed(key[call[p].f])
    /\ UNCHANGED <<impl, name, files, ncalls, windows>>

Next ==
    \E p \in SemProcs :
       \/ \E creat, excl \in BOOLEAN : (excl => creat) /\ (fifo_open(p, creat, excl) \/ svsem_open(p, creat, excl))
       \/ fifo_open_read(p) \/ fifo_open_write(p) \/ fifo_init(p) \/ fifo_wait(p) \/ fifo_post(p)
       \/ fifo_close(p) \/ fifo_unlink(p)
       \/ ftok(p) \/ semget(p) \/ setval(p) \/ initop(p) \/ lookup(p) \/ stat(p)
       \/ \E d \in {-1, 1} : svsem_op(p, d)
       \/ svsem_close(p) \/ crash(p) \/ svsem_unlink(p) \/ svsem_unlink_file(p) \/ svsem_unlink_rmid(p)

Spec == Init /\ [][Next]_semvars

------------------------------------------------------------------------------
\* A semaphore's value is the one its creator gave it, plus the posts, less the waits,
\* and it is given once; a FIFO loses it only when nobody has it open.  While
\* nobody has unlinked the name, given too large a value or tired of waiting in
\* mysem_open, all who have opened it share one semaphore, and it is there.
SemsKeepValue ==
    /\ \A s \in Sems :
          /\ sem[s].val >= 0 /\ (windows = {} => sem[s].init <= VALUE)
          /\ ~sem[s].drained => sem[s].val = sem[s].init + sem[s].net
    /\ impl = "svsem" => \A p \in SemProcs : Opened(p) => sem[call[p].rd].init = VALUE \/ sem[call[p].rd].gone
    /\ windows = {} =>
          \A p, q \in SemProcs : Opened(p) /\ Opened(q) =>
             /\ call[p].rd = call[q].rd
             /\ ~sem[call[p].rd].gone
             /\ impl = "fifo" => call[p].wr = call[p].rd
==============================================================================
