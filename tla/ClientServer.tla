---------------------------- MODULE ClientServer -----------------------------
(***************************************************************************)
(* Processes that talk over channels: pipes and FIFOs, message queues, and *)
(* the pending signals of a process.  A program is a record: the code of   *)
(* the processes that run from the start, the kind of each channel, what a *)
(* server does for a request, the clients, and what may go wrong.  Code is *)
(* a sequence of statements; todo[p] is what process p still has to do.    *)
(* The calls are those of the system, as the programs use them; a call     *)
(* through a wrapper (Open, Read, Msgsnd...) ends the process on an error. *)
(***************************************************************************)
EXTENDS Integers, SequencesExt

CONSTANTS ChanPrograms,   \* the programs, one of which is run
          ROOM            \* messages a pipe or a queue holds

VARIABLES cprog, path,    \* the program, and the pathname each client asks for
          todo, made,     \* code left; FIFOs and queues that exist
          msgs, rd, wr,   \* contents of a channel, and who has its ends open
          printed,        \* what a client wrote to its standard output
          failed,         \* processes that ended with an error or by a signal
          zombie, chld,   \* children nobody has waited for; SIGCHLD is pending
          killed

chvars == <<cprog, path, todo, made, msgs, rd, wr, printed, failed, zombie, chld, killed>>
Procs == DOMAIN cprog.code
Chans == DOMAIN cprog.kind

------------------------------------------------------------------------------
\* Statements.
Pipe(c)         == [op |-> "pipe", c |-> c]
Mkfifo(c)       == [op |-> "make", c |-> c]
Msgcreate(c)    == [op |-> "make", c |-> c]
Msgget(c)       == [op |-> "lookup", c |-> c]
Open(c, m)      == [op |-> "open", c |-> c, mode |-> m]
TryOpen(c, yes) == [op |-> "tryopen", c |-> c, yes |-> yes]
Close(c, m)     == [op |-> "close", c |-> c, mode |-> m]
Unlink(c)       == [op |-> "remove", c |-> c]        \* unlink, or msgctl with IPC_RMID
Send(c, t, m)   == [op |-> "send", c |-> c, type |-> t, m |-> m]
Ask(c, t)       == [op |-> "ask", c |-> c, type |-> t]   \* send one's name and pathname
Recv(c, t)      == [op |-> "recv", c |-> c, type |-> t]
Copy(c, t)      == [op |-> "copy", c |-> c, type |-> t]  \* to the standard output, till the end
Serve(c)        == [op |-> "serve", c |-> c, again |-> FALSE]
ServeAll(c)     == [op |-> "serve", c |-> c, again |-> TRUE]
Fork(q, code)   == [op |-> "fork", q |-> q, code |-> code]
Waitpid(q)      == [op |-> "waitpid", q |-> q]
Kill(q)         == [op |-> "kill", q |-> q]
Loop(body)      == [op |-> "loop", body |-> body]
Exit            == [op |-> "exit"]
Fail            == [op |-> "fail"]

Unroll(code) == IF code # <<>> /\ Head(code).op = "loop" THEN Head(code).body \o code ELSE code

\* What the file of a pathname has: the text that is sent back.
Reply(f) == IF f = "file" THEN <<"line1", "line2">> ELSE <<"can't open">>
Requests(C) == [from : C, path : {"file", "none"}]

Init ==
    /\ cprog \in ChanPrograms
    /\ path \in [cprog.clients -> {"file", "none"}]
    /\ todo = [p \in Procs |-> Unroll(cprog.code[p])]
    /\ made \in SUBSET cprog.leftover
    /\ msgs = [c \in Chans |-> <<>>]
    /\ rd = [c \in Chans |-> {}] /\ wr = [c \in Chans |-> {}]
    /\ printed = [p \in cprog.clients |-> <<>>]
    /\ failed = {} /\ zombie = {} /\ chld = FALSE /\ killed = {}

------------------------------------------------------------------------------
At(p, op) == todo[p] # <<>> /\ Head(todo[p]).op = op
St(p) == Head(todo[p])
Then(p) == todo' = [todo EXCEPT ![p] = Unroll(Tail(@))]
Goes(p, code) == todo' = [todo EXCEPT ![p] = Unroll(code)]

\* The end of a process: its descriptors are closed; a child becomes a zombie.
End(p) ==
    /\ todo' = [todo EXCEPT ![p] = <<>>]
    /\ rd' = [c \in Chans |-> rd[c] \ {p}] /\ wr' = [c \in Chans |-> wr[c] \ {p}]
    /\ zombie' = IF p \in cprog.children THEN zombie \cup {p} ELSE zombie
    /\ chld' = (chld \/ (p \in cprog.children /\ cprog.handler))
Die(p) == End(p) /\ failed' = failed \cup {p}

pipe(p) ==
    /\ At(p, "pipe") /\ Then(p)
    /\ rd' = [rd EXCEPT ![St(p).c] = {p}] /\ wr' = [wr EXCEPT ![St(p).c] = {p}]
    /\ UNCHANGED <<cprog, path, made, msgs, printed, failed, zombie, chld, killed>>

\* mkfifo, or msgget with IPC_CREAT; it is not an error that the name exists.
make(p) ==
    /\ At(p, "make") /\ made' = made \cup {St(p).c} /\ Then(p)
    /\ UNCHANGED <<cprog, path, msgs, rd, wr, printed, failed, zombie, chld, killed>>

lookup(p) ==
    /\ At(p, "lookup")
    /\ IF St(p).c \in made THEN Then(p) /\ UNCHANGED <<rd, wr, failed, zombie, chld>> ELSE Die(p)
    /\ UNCHANGED <<cprog, path, made, msgs, printed, killed>>

\* The open of a FIFO waits until its other end is opened too; both then return.
Waits(q, c, m) == todo[q] # <<>> /\ Head(todo[q]) = [op |-> "opening", c |-> c, mode |-> m]
OpenEnd(p, c, m, code) ==
    LET other == IF m = "r" THEN wr[c] ELSE rd[c] IN
    /\ IF m = "r" THEN rd' = [rd EXCEPT ![c] = @ \cup {p}] /\ UNCHANGED wr
                  ELSE wr' = [wr EXCEPT ![c] = @ \cup {p}] /\ UNCHANGED rd
    /\ todo' = [q \in Procs |->
                  IF q = p THEN IF other # {} THEN Unroll(code)
                                ELSE <<[op |-> "opening", c |-> c, mode |-> m]>> \o code
                  ELSE IF Waits(q, c, IF m = "r" THEN "w" ELSE "r") THEN Unroll(Tail(todo[q]))
                  ELSE todo[q]]

open(p) ==
    /\ At(p, "open")
    /\ IF St(p).c \in made THEN OpenEnd(p, St(p).c, St(p).mode, Tail(todo[p])) /\ UNCHANGED <<failed, zombie, chld>>
                           ELSE Die(p)
    /\ UNCHANGED <<cprog, path, made, msgs, printed, killed>>

\* open itself, whose failure is only reported.
try_open(p) ==
    /\ At(p, "tryopen")
    /\ IF St(p).c \in made THEN OpenEnd(p, St(p).c, "w", St(p).yes \o Tail(todo[p]))
                           ELSE Then(p) /\ UNCHANGED <<rd, wr>>
    /\ UNCHANGED <<cprog, path, made, msgs, printed, failed, zombie, chld, killed>>

close(p) ==
    /\ At(p, "close") /\ Then(p)
    /\ IF St(p).mode = "r" THEN rd' = [rd EXCEPT ![St(p).c] = @ \ {p}] /\ UNCHANGED wr
                           ELSE wr' = [wr EXCEPT ![St(p).c] = @ \ {p}] /\ UNCHANGED rd
    /\ UNCHANGED <<cprog, path, made, msgs, printed, failed, zombie, chld, killed>>

remove(p) ==
    /\ At(p, "remove") /\ made' = made \ {St(p).c} /\ Then(p)
    /\ UNCHANGED <<cprog, path, msgs, rd, wr, printed, failed, zombie, chld, killed>>

------------------------------------------------------------------------------
\* A write to a pipe without readers is the end of the writer, as is a message
\* to a queue that was removed.  A signal that is pending already is not queued,
\* unless it is a realtime signal.
Dead(c) == IF cprog.kind[c] = "pipe" THEN rd[c] = {} ELSE cprog.kind[c] = "queue" /\ c \notin made
Full(c) == cprog.kind[c] \in {"pipe", "queue"} /\ Len(msgs[c]) >= ROOM

Sends(p, m) ==
    LET c == St(p).c IN
    IF Dead(c) THEN Die(p) /\ UNCHANGED msgs
    ELSE /\ ~Full(c)
         /\ msgs' = [msgs EXCEPT ![c] = IF cprog.kind[c] = "signal" /\ @ # <<>> THEN @
                                       ELSE Append(@, [type |-> St(p).type, m |-> m])]
         /\ Then(p) /\ UNCHANGED <<rd, wr, failed, zombie, chld>>

send(p) == /\ At(p, "send") /\ Sends(p, St(p).m)
           /\ UNCHANGED <<cprog, path, made, printed, killed>>

ask(p) == /\ At(p, "ask") /\ Sends(p, [from |-> p, path |-> path[p]])
          /\ UNCHANGED <<cprog, path, made, printed, killed>>

\* Receiving: the first message of the type (0 is any), the end of the file once
\* no process can write, or an error when the queue is gone.
Nth(c, t) == LET I == {k \in DOMAIN msgs[c] : t = 0 \/ msgs[c][k].type = t} IN
             IF I = {} THEN 0 ELSE Min(I)
AtEnd(c) == cprog.kind[c] = "pipe" /\ msgs[c] = <<>> /\ wr[c] = {}
Taken(c, t) == msgs' = [msgs EXCEPT ![c] = RemoveAt(@, Nth(c, t))]
Lost(p) == (AtEnd(St(p).c) \/ (cprog.kind[St(p).c] = "queue" /\ St(p).c \notin made)) /\ Die(p) /\ UNCHANGED msgs

recv(p) ==
    /\ At(p, "recv")
    /\ IF Nth(St(p).c, St(p).type) = 0 THEN Lost(p)
       ELSE Taken(St(p).c, St(p).type) /\ Then(p) /\ UNCHANGED <<rd, wr, failed, zombie, chld>>
    /\ UNCHANGED <<cprog, path, made, printed, killed>>

\* while ( (n = Read(...)) > 0) Write(STDOUT_FILENO, ...): to the end of the file,
\* or to a message of no bytes.
copy(p) ==
    LET c == St(p).c
        k == Nth(c, St(p).type) IN
    /\ At(p, "copy")
    /\ IF k # 0
       THEN /\ Taken(c, St(p).type) /\ UNCHANGED <<rd, wr, failed, zombie, chld>>
            /\ IF msgs[c][k].m = "" THEN Then(p) /\ UNCHANGED printed
               ELSE printed' = [printed EXCEPT ![p] = Append(@, msgs[c][k].m)] /\ UNCHANGED todo
       ELSE IF AtEnd(c) THEN Then(p) /\ UNCHANGED <<msgs, rd, wr, printed, failed, zombie, chld>>
       ELSE Lost(p) /\ UNCHANGED printed
    /\ UNCHANGED <<cprog, path, made, killed>>

\* A server takes a request and goes on with the code for it.
serve(p) ==
    LET c == St(p).c
        k == Nth(c, cprog.reqtype) IN
    /\ At(p, "serve")
    /\ IF k = 0 THEN Lost(p)
       ELSE /\ Taken(c, cprog.reqtype)
            /\ Goes(p, cprog.serve[msgs[c][k].m] \o (IF St(p).again THEN todo[p] ELSE Tail(todo[p])))
            /\ UNCHANGED <<rd, wr, failed, zombie, chld>>
    /\ UNCHANGED <<cprog, path, made, printed, killed>>

------------------------------------------------------------------------------
\* A child has the descriptors of its parent.
fork(p) ==
    LET q == St(p).q IN
    /\ At(p, "fork")
    /\ todo' = [todo EXCEPT ![p] = Unroll(Tail(@)), ![q] = Unroll(St(p).code)]
    /\ rd' = [c \in Chans |-> IF p \in rd[c] THEN rd[c] \cup {q} ELSE rd[c]]
    /\ wr' = [c \in Chans |-> IF p \in wr[c] THEN wr[c] \cup {q} ELSE wr[c]]
    /\ UNCHANGED <<cprog, path, made, msgs, printed, failed, zombie, chld, killed>>

waitpid(p) ==
    /\ At(p, "waitpid") /\ St(p).q \in zombie /\ zombie' = zombie \ {St(p).q} /\ Then(p)
    /\ UNCHANGED <<cprog, path, made, msgs, rd, wr, printed, failed, chld, killed>>

\* Faulty: the handler waits for one child for each SIGCHLD.
Reaped_one == {CHOOSE q \in zombie : TRUE}
\* waitpid with WNOHANG until there is no more.
Reaped == zombie

\* SIGCHLD interrupts what the server waits for, and the wait starts again.
sig_chld ==
    /\ chld /\ chld' = FALSE /\ zombie' = zombie \ Reaped
    /\ UNCHANGED <<cprog, path, todo, made, msgs, rd, wr, printed, failed, killed>>

\* The benchmarks end their child with SIGTERM, and the children of a process
\* that exits are waited for by init.
kill(p) ==
    LET q == St(p).q IN
    /\ At(p, "kill")
    /\ todo' = [todo EXCEPT ![p] = Unroll(Tail(@)), ![q] = <<>>]
    /\ rd' = [c \in Chans |-> rd[c] \ {q}] /\ wr' = [c \in Chans |-> wr[c] \ {q}]
    /\ UNCHANGED <<cprog, path, made, msgs, printed, failed, zombie, chld, killed>>

exit(p) == At(p, "exit") /\ End(p) /\ UNCHANGED <<cprog, path, made, msgs, printed, failed, killed>>
fail(p) == At(p, "fail") /\ Die(p) /\ UNCHANGED <<cprog, path, made, msgs, printed, killed>>

\* A client that runs on its own is killed.
killed_client(p) ==
    /\ killed = {} /\ p \in cprog.mortal /\ todo[p] # <<>> /\ killed' = {p} /\ Die(p)
    /\ UNCHANGED <<cprog, path, made, msgs, printed>>

Does(p) ==
    \/ pipe(p) \/ make(p) \/ lookup(p) \/ open(p) \/ try_open(p) \/ close(p) \/ remove(p)
    \/ send(p) \/ ask(p) \/ recv(p) \/ copy(p) \/ serve(p)
    \/ fork(p) \/ waitpid(p) \/ kill(p) \/ exit(p) \/ fail(p)
Next == (\E p \in Procs : Does(p) \/ killed_client(p)) \/ sig_chld

------------------------------------------------------------------------------
\* No process can go on.
Stopped == ~chld /\ \A p \in Procs : ~ENABLED Does(p)
\* A server that waits for the next request, or that never got one.
Listening(p) == At(p, "serve") \/ (todo[p] # <<>> /\ Head(todo[p]).op = "opening")

(* A client prints the file it asked for, and nothing of another client's:    *)
(* when nothing can go on, each client that did not fail has printed all of   *)
(* its reply and ended, the other processes have ended or wait for requests,  *)
(* and no child is left that nobody waited for.                               *)
ClientsServed ==
    /\ \A p \in cprog.clients : IsPrefix(printed[p], Reply(path[p]))
    /\ failed \subseteq killed \cup cprog.fails \/ (killed # {} /\ cprog.blocks)
    /\ Stopped => \/ cprog.stops /\ \E c \in Chans : Full(c)
                  \/ killed # {} /\ cprog.blocks
                  \/ /\ \A p \in cprog.clients \ failed : todo[p] = <<>> /\ printed[p] = Reply(path[p])
                     /\ \A p \in Procs \ cprog.clients :
                           todo[p] = <<>> \/ Listening(p) \/ (p \in cprog.children /\ killed # {})
                     /\ (failed \subseteq killed \/ cprog.handler => zombie = {})
------------------------------------------------------------------------------
(***************************************************************************)
(* The programs in which a client asks a server for a file, over pipes,    *)
(* FIFOs and System V message queues, and the benchmarks that measure the  *)
(* bandwidth and the latency of these channels and of signals.  The server *)
(* is process 1 and the clients are 2, 3...; channel 1 is the well-known   *)
(* one, and a client's own channel has the client's number.                *)
(***************************************************************************)
CONSTANTS NLOOP, NWRITES    \* rounds of a benchmark, and writes in one round

NoProgram ==
    [code |-> <<>>, kind |-> <<>>, leftover |-> {}, clients |-> {}, children |-> {}, handler |-> FALSE,
     reqtype |-> 0, serve |-> <<>>, mortal |-> {}, blocks |-> FALSE, stops |-> FALSE, fails |-> {}]

\* What a server sends back: the lines of the file or why it cannot be opened.
Lines(c, t, f) == [k \in DOMAIN Reply(f) |-> Send(c, t, Reply(f)[k])]
LinesAndEnd(c, t, f) == Lines(c, t, f) \o <<Send(c, t, "")>>
Serves(C, code(_)) == [m \in Requests(C) |-> code(m)]

------------------------------------------------------------------------------
\* pipe/: one client and one server, related by fork or not.
client == <<Ask(1, 0), Copy(2, 0)>>
server(readfd) == <<Serve(readfd)>>

\* Faulty: the client keeps the writing end of the pipe it reads from.
CloseUnused_one == <<Close(1, "r")>>
CloseUnused == <<Close(1, "r"), Close(2, "w")>>

pipe_mainpipe ==
    [NoProgram EXCEPT
       !.code = (1 :> <<>>) @@
                (2 :> <<Pipe(1), Pipe(2),
                        Fork(1, <<Close(1, "w"), Close(2, "r")>> \o server(1) \o <<Exit>>)>>
                      \o CloseUnused \o client \o <<Waitpid(1), Exit>>),
       !.kind = <<"pipe", "pipe">>, !.clients = {2}, !.children = {1},
       !.serve = Serves({2}, LAMBDA m : Lines(2, 0, m.path))]

client_opens == <<Open(1, "w"), Open(2, "r")>> \o client
server_opens == <<Open(1, "r"), Open(2, "w")>> \o server(1) \o <<Exit>>
client_done == <<Close(2, "r"), Close(1, "w"), Unlink(1), Unlink(2), Exit>>
mkfifos == <<Mkfifo(1), Mkfifo(2)>>

pipe_mainfifo ==
    [pipe_mainpipe EXCEPT
       !.code = (1 :> <<>>) @@ (2 :> mkfifos \o <<Fork(1, server_opens)>> \o client_opens
                                     \o <<Waitpid(1)>> \o client_done),
       !.leftover = {1, 2}]

\* The client ends at once when the server has not made the FIFOs yet.
pipe_client_server_main ==
    [pipe_mainpipe EXCEPT
       !.code = (1 :> mkfifos \o server_opens) @@ (2 :> client_opens \o client_done),
       !.leftover = {1, 2}, !.children = {}, !.fails = {1, 2}, !.mortal = {2}]

\* A pipe that is full-duplex has a channel in each direction.
pipe_fduplex ==
    [NoProgram EXCEPT
       !.code = (1 :> <<>>) @@
                (2 :> <<Pipe(1), Pipe(2), Fork(1, <<Recv(1, 0), Send(2, 0, "c"), Exit>>),
                        Send(1, 0, "p"), Recv(2, 0), Exit>>),
       !.kind = <<"pipe", "pipe">>]

------------------------------------------------------------------------------
\* pipemesg/: Mesg_send compares what write returned, header included, with the
\* length of the data, and so quits after each message it has sent.
Mesg_send(s) == <<s, Fail>>
mesg_client == Mesg_send(Ask(1, 0)) \o <<Copy(2, 0)>>
mesg_serve == Serves({2}, LAMBDA m : Mesg_send(Lines(2, 0, m.path)[1]))

pipemesg_mainpipe ==
    [pipe_mainpipe EXCEPT
       !.code = (1 :> <<>>) @@
                (2 :> <<Pipe(1), Pipe(2), Fork(1, <<Close(1, "w"), Close(2, "r"), Serve(1), Exit>>),
                        Close(1, "r"), Close(2, "w")>> \o mesg_client \o <<Waitpid(1), Exit>>),
       !.serve = mesg_serve, !.fails = {1, 2}]

pipemesg_mainfifo ==
    [pipe_mainfifo EXCEPT
       !.code = (1 :> <<>>) @@
                (2 :> mkfifos \o <<Fork(1, server_opens), Open(1, "w"), Open(2, "r")>> \o mesg_client
                      \o <<Waitpid(1)>> \o client_done),
       !.serve = mesg_serve, !.fails = {1, 2}]

------------------------------------------------------------------------------
\* fifocliserv/: an iterative server with a well-known FIFO, which it also opens
\* for writing so as not to read the end of the file; each client has a FIFO.
fifo_client(p) == <<Mkfifo(p), Open(1, "w"), Ask(1, 0), Open(p, "r"), Copy(p, 0), Close(p, "r"), Unlink(p), Exit>>
fifo_serve(m) == <<TryOpen(m.from, Lines(m.from, 0, m.path) \o <<Close(m.from, "w")>>)>>

fifocliserv ==
    [NoProgram EXCEPT
       !.code = <<<<Mkfifo(1), Open(1, "r"), Open(1, "w"), ServeAll(1)>>, fifo_client(2), fifo_client(3)>>,
       !.kind = <<"pipe", "pipe", "pipe">>, !.leftover = {1}, !.clients = {2, 3},
       !.serve = Serves({2, 3}, fifo_serve), !.mortal = {2}, !.blocks = TRUE, !.fails = {2, 3}]

------------------------------------------------------------------------------
\* svmsgcliserv/: a queue in each direction.  The client deletes both.
svmsg_client == <<Ask(1, 1), Copy(2, 1)>>
svmsg_client_main == <<Msgget(1), Msgget(2)>> \o svmsg_client \o <<Unlink(2), Unlink(1), Exit>>
svmsg_server(m) == LinesAndEnd(2, 1, m.path)
svmsg_server_main == <<Msgcreate(1), Msgcreate(2), Serve(1), Exit>>
svmsgcliserv ==
    [NoProgram EXCEPT
       !.code = <<svmsg_server_main, svmsg_client_main>>,
       !.kind = <<"queue", "queue">>, !.clients = {2}, !.reqtype = 1, !.fails = {2},
       !.mortal = {2}, !.blocks = TRUE, !.serve = Serves({2}, svmsg_server)]

\* svmsgmpx1q/: one queue for both directions; the type of a message tells a
\* request (1) from the replies to a client (its process ID).  Requests that
\* fill the queue leave the server no room for a reply.
mpx1q_client(p) == <<Ask(1, 1), Copy(1, p)>>
mpx1q_client_main(p) == <<Msgget(1)>> \o mpx1q_client(p) \o <<Exit>>
mpx1q_server(m) == LinesAndEnd(1, m.from, m.path)
mpx1q_server_main == <<Msgcreate(1), ServeAll(1)>>
svmsgmpx1q ==
    [NoProgram EXCEPT
       !.code = <<mpx1q_server_main>> \o [k \in 1 .. 3 |-> mpx1q_client_main(k + 1)],
       !.kind = <<"queue">>, !.clients = 2 .. 4, !.reqtype = 1, !.fails = 2 .. 4,
       !.serve = Serves(2 .. 4, mpx1q_server),
       !.mortal = {2}, !.blocks = TRUE, !.stops = TRUE]

\* svmsgmpxnq/: a queue for each client, and a child of the server for each request.
nq_client(p) == <<Ask(1, 1), Copy(p, 1)>>
nq_client_main(p) == <<Msgget(1), Msgcreate(p)>> \o nq_client(p) \o <<Unlink(p), Exit>>
nq_server(m) == <<Fork(10 + m.from, LinesAndEnd(m.from, 1, m.path) \o <<Exit>>)>>
nq_server_main == <<Msgcreate(1), ServeAll(1)>>
svmsgmpxnq ==
    [NoProgram EXCEPT
       !.code = (1 :> nq_server_main) @@ (2 :> nq_client_main(2)) @@ (3 :> nq_client_main(3))
                @@ (12 :> <<>>) @@ (13 :> <<>>),
       !.kind = <<"queue", "queue", "queue">>, !.clients = {2, 3}, !.children = {12, 13}, !.handler = TRUE,
       !.reqtype = 1, !.fails = {2, 3}, !.mortal = {2}, !.serve = Serves({2, 3}, nq_server)]

------------------------------------------------------------------------------
\* bench/: the parent is process 2, the child process 1.
Times(n, code) == FlattenSeq([k \in 1 .. n |-> code])
Pair(kinds, before, child, after) ==
    [NoProgram EXCEPT !.code = (1 :> <<>>) @@ (5 :> <<>>) @@ (2 :> before \o <<Fork(1, child)>> \o after \o <<Exit>>),
                      !.kind = kinds]

\* bw_*: the parent says how much it wants, and reads that much.
bw_writer == <<Loop(<<Recv(1, 0)>> \o Times(NWRITES, <<Send(2, 1, "data")>>))>>
bw_reader == Times(NLOOP, <<Send(1, 0, "nbytes")>> \o Times(NWRITES, <<Recv(2, 0)>>)) \o <<Kill(1)>>
bw_pipe == Pair(<<"pipe", "pipe">>, <<Pipe(1), Pipe(2)>>, bw_writer, bw_reader)
bw_pxmsg == Pair(<<"pipe", "queue">>, <<Pipe(1), Unlink(2), Msgcreate(2)>>, bw_writer, bw_reader \o <<Unlink(2)>>)
bw_svmsg == Pair(<<"pipe", "queue">>, <<Pipe(1), Msgcreate(2)>>, bw_writer, bw_reader \o <<Unlink(2)>>)

\* lat_*: a byte, a message or a signal goes to the child and back.
lat_child == <<Loop(<<Recv(1, 0), Send(2, 0, "c")>>)>>
doit(n) == Times(n, <<Send(1, 0, "c"), Recv(2, 0)>>)
lat_pipe == Pair(<<"pipe", "pipe">>, <<Pipe(1), Pipe(2)>>, lat_child, doit(NLOOP + 1) \o <<Kill(1)>>)
lat_pxmsg == Pair(<<"queue", "queue">>, <<Msgcreate(1), Msgcreate(2)>>, lat_child,
                  doit(NLOOP + 1) \o <<Kill(1), Unlink(1), Unlink(2)>>)
lat_svmsg == Pair(<<"queue">>, <<Msgcreate(1)>>, <<Loop(<<Recv(1, 1), Send(1, 2, "c")>>)>>,
                  Times(NLOOP + 1, <<Send(1, 1, "c"), Recv(1, 2)>>) \o <<Kill(1), Unlink(1)>>)

lat_signal == Pair(<<"signal", "signal">>, <<>>, lat_child, doit(NLOOP) \o <<Kill(1)>>)
sig_child == Times(NLOOP, <<Recv(1, 0), Send(2, 0, "c")>>) \o <<Exit>>
lat_sigwait == Pair(<<"signal", "signal">>, <<>>, sig_child, doit(NLOOP))
lat_sigqueue == Pair(<<"realtime", "realtime">>, <<>>, sig_child, doit(NLOOP))

\* A call through a door is a message to a thread of the server (5) and one back.
\* bw_door: the server's procedure tells the main thread when it has seen all.
bw_door == Pair(<<"pipe", "pipe", "queue", "realtime">>, <<Pipe(1), Pipe(2)>>,
                <<Recv(1, 0), Msgget(3), Loop(<<Recv(1, 0)>> \o Times(NWRITES, <<Send(3, 0, "data"), Recv(4, 0)>>))>>,
                <<Msgcreate(3), Fork(5, <<Loop(Times(NWRITES - 1, <<Recv(3, 0), Send(4, 0, "")>>)
                                                \o <<Recv(3, 0), Send(2, 0, "done"), Send(4, 0, "")>>)>>),
                  Send(1, 0, "ready")>> \o Times(NLOOP, <<Send(1, 0, "nbytes"), Recv(2, 0)>>)
                \o <<Kill(1), Kill(5), Unlink(3)>>)
lat_door == Pair(<<"pipe", "pipe", "queue", "realtime">>, <<Pipe(1)>>,
                 <<Msgcreate(3), Send(1, 0, "ready"), Loop(<<Recv(3, 0), Send(4, 0, "c")>>)>>,
                 <<Recv(1, 0), Msgget(3)>> \o Times(NLOOP + 1, <<Send(3, 0, "c"), Recv(4, 0)>>)
                 \o <<Kill(1), Unlink(3)>>)

ClientServerPrograms ==
    {pipe_mainpipe, pipe_mainfifo, pipe_client_server_main, pipe_fduplex, pipemesg_mainpipe, pipemesg_mainfifo,
     fifocliserv, svmsgcliserv, svmsgmpx1q, svmsgmpxnq, bw_pipe, bw_pxmsg, bw_svmsg, lat_pipe, lat_pxmsg,
     lat_svmsg, lat_signal, lat_sigwait, lat_sigqueue, bw_door, lat_door}
==============================================================================
