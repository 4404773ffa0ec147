-------------------------------- MODULE Doors --------------------------------
(***************************************************************************)
(* The door programs: a server attaches doors to pathnames and its threads *)
(* run the server procedure for each call of a client.  A program is a     *)
(* pair of a server (what main does, what a new thread does, and the       *)
(* procedure behind each door) and a client (what it does, and the signal  *)
(* that may interrupt its call).  Doors themselves are the system's, as    *)
(* the programs use them: a thread is made when a door is created and when *)
(* a call leaves no thread idle.                                           *)
(***************************************************************************)
EXTENDS Integers, Sequences, FiniteSets

CONSTANTS DoorClients,    \* numbers, which are also what the clients pass
          NTHREADS        \* threads a server may come to have

VARIABLES dprog, main,    \* the program; what the main thread still has to do
          fd, fdlock,     \* the server's variable (-1 as TRUE/FALSE: assigned) and its mutex
          path, revoked,  \* what is at the pathname of a door; the door was revoked
          thread,         \* code, whose call it runs, its value, whether it can be cancelled
          client,         \* code, door descriptors, result, reason it failed, calls run for it
          down, unref     \* the server has ended; the door was found unreferenced

dovars == <<dprog, main, fd, fdlock, path, revoked, thread, client, down, unref>>
Threads == 1 .. NTHREADS
Doors == {"square", "sqrt"}
NoThread == [code |-> <<>>, for |-> 0, door |-> "square", value |-> 0, cancel |-> FALSE]

------------------------------------------------------------------------------
\* Servers.
attach(d) == <<<<"unlink", d>>, <<"creat", d>>, <<"fattach", d>>>>
DoorServer(servproc) ==
    [main |-> <<<<"door_create", "square">>, <<"setfd">>>> \o attach("square"),
     thread |-> <<>>, servproc |-> [d \in Doors |-> servproc], unref |-> FALSE]

servproc == <<"square", "return">>
server1 == DoorServer(servproc)
server2 == DoorServer(servproc)
server3 == DoorServer(servproc)
server4 == DoorServer(<<"cred", "square", "return">>)
server5 == DoorServer(<<"sleep", "square", "return">>)

\* server6: private threads, which wait for the descriptor before they bind to it.
\* Faulty: they do not wait for main to release the mutex.
my_thread_early == <<"bind">>
my_thread == <<"pass", "bind">>
my_create == my_thread
server6 == [DoorServer(<<"sleep", "square", "return">>) EXCEPT
              !.main = <<<<"lock">>, <<"door_create", "square">>, <<"setfd">>, <<"unlock">>>> \o attach("square"),
              !.thread = my_create]

\* server7: two doors, with a procedure each.
squareproc == <<"sleep", "square", "return">>
sqrtproc == <<"sleep", "sqrt", "return">>
server7 == [DoorServer(<<>>) EXCEPT
              !.main = <<<<"door_create", "square">>, <<"setfd">>>> \o attach("square")
                       \o <<<<"door_create", "sqrt">>, <<"setfd">>>> \o attach("sqrt"),
              !.servproc = [d \in Doors |-> IF d = "square" THEN squareproc ELSE sqrtproc]]

\* server8 and server9 revoke the door during its first call; the descriptor is a
\* global variable, or is found through the cookie.
server8 == DoorServer(<<"revoke", "square", "return">>)
server9 == DoorServer(<<"revoke", "square", "return">>)

\* serverfd1 answers with a descriptor of the file that the argument names.
serverfd1 == DoorServer(<<"open", "return">>)

serverintr1 == DoorServer(<<"pthread_exit">>)
serverintr2 == DoorServer(<<"sleep", "square", "return">>)
serverintr3 == DoorServer(<<"sleep", "square", "return">>)
serverintr4 == DoorServer(<<"enable", "sleep", "square", "disable", "return">>)

\* serverunref1 and 2 are told of a door nobody has open any more.
serverunref1 == [DoorServer(<<"sleep", "square", "return">>) EXCEPT !.unref = TRUE]
serverunref2 == [DoorServer(<<"sleep", "square", "return">>) EXCEPT !.unref = TRUE]

\* tserver1: as server6, but a thread polls the variable.
tserver1 == [server6 EXCEPT !.main = <<<<"door_create", "square">>, <<"setfd">>>> \o attach("square"),
                            !.thread = <<"yield", "bind">>,
                            !.servproc = [d \in Doors |-> <<"sleep", "cred", "square", "return">>]]

------------------------------------------------------------------------------
\* Clients, and how a call may end without a result when its server runs.
DoorClient == [code |-> <<<<"open", "square">>, <<"call", "square">>>>, signal |-> "none"]
client1 == DoorClient
client2 == DoorClient
client3 == DoorClient
client4 == DoorClient
client5 == DoorClient
client6 == DoorClient
client7 == [DoorClient EXCEPT !.code = <<<<"open", "square">>, <<"open", "sqrt">>, <<"call", "square">>, <<"call", "sqrt">>>>]
client8 == DoorClient
client9 == DoorClient
clientfd1 == DoorClient
clientintr1 == DoorClient
clientintr2 == [DoorClient EXCEPT !.signal = "interrupts"]
clientintr3 == [DoorClient EXCEPT !.signal = "retries"]
clientintr4 == [DoorClient EXCEPT !.signal = "alarm"]
clientunref1 == DoorClient
clientunref2 == DoorClient
tclient1 == DoorClient

Run(s, c, ends) == [server |-> s, client |-> c, ends |-> ends \cup {"not ready"}]
DoorPrograms ==
    {Run(server1, client1, {}), Run(server2, client2, {}), Run(server3, client3, {}), Run(server4, client4, {}),
     Run(server5, client5, {}), Run(server6, client6, {}), Run(server7, client7, {}),
     Run(server8, client8, {"revoked", "down"}), Run(server9, client9, {"revoked", "down"}),
     Run(serverfd1, clientfd1, {}), Run(serverintr1, clientintr1, {"exit"}),
     Run(serverintr2, clientintr2, {"signal"}), Run(serverintr3, clientintr3, {}),
     Run(serverintr4, clientintr4, {"signal"}), Run(serverunref1, clientunref1, {}),
     Run(serverunref2, clientunref2, {}), Run(tserver1, tclient1, {})}

Init ==
    /\ dprog \in DoorPrograms /\ main = dprog.server.main
    /\ fd = FALSE /\ fdlock = FALSE
    /\ path = [d \in Doors |-> "none"] /\ revoked = FALSE
    /\ thread = [t \in Threads |-> NoThread]
    /\ client = [c \in DoorClients |->
                   [code |-> dprog.client.code, has |-> {}, got |-> <<>>, end |-> "no", runs |-> 0, tries |-> 0]]
    /\ down = FALSE /\ unref = ~dprog.server.unref

------------------------------------------------------------------------------
\* A new thread goes through the server's own start-up, then waits for calls.
Exists(t) == thread[t].code # <<>>
Idle(th, t) == th[t].code # <<>> /\ th[t].code[1] = "wait"
WithThread(th) ==
    IF \A t \in Threads : th[t].code # <<>> THEN th
    ELSE [th EXCEPT ![CHOOSE t \in Threads : th[t].code = <<>>] = [NoThread EXCEPT !.code = dprog.server.thread \o <<"wait">>]]

main_op(op) == ~down /\ main # <<>> /\ main[1][1] = op /\ main' = Tail(main)
main_door == main[1][2]

Door_create ==
    /\ main_op("door_create") /\ thread' = WithThread(thread)
    /\ UNCHANGED <<dprog, fd, fdlock, path, revoked, client, down, unref>>
setfd == main_op("setfd") /\ fd' = TRUE /\ UNCHANGED <<dprog, fdlock, path, revoked, thread, client, down, unref>>
main_lock == main_op("lock") /\ fdlock' = TRUE /\ UNCHANGED <<dprog, fd, path, revoked, thread, client, down, unref>>
main_unlock == main_op("unlock") /\ fdlock' = FALSE /\ UNCHANGED <<dprog, fd, path, revoked, thread, client, down, unref>>

\* Between the creation of the file and Fattach, the pathname is a plain file.
main_path(op, what) ==
    /\ main_op(op) /\ path' = [path EXCEPT ![main_door] = what]
    /\ UNCHANGED <<dprog, fd, fdlock, revoked, thread, client, down, unref>>

------------------------------------------------------------------------------
\* A client whose call ends without a result.
Ends(c, why) == [client EXCEPT ![c].code = <<>>, ![c].end = why]
InCall(c) == client[c].code # <<>> /\ client[c].code[1][1] = "called"
client_op(c, op) == client[c].code # <<>> /\ client[c].code[1][1] = op
client_door(c) == client[c].code[1][2]

client_open(c) ==
    /\ client_op(c, "open")
    /\ client' = IF path[client_door(c)] = "none" THEN Ends(c, "not ready")
                 ELSE [client EXCEPT ![c].code = Tail(@),
                                     ![c].has = IF path[client_door(c)] = "door" THEN @ \cup {client_door(c)} ELSE @]
    /\ UNCHANGED <<dprog, main, fd, fdlock, path, revoked, thread, down, unref>>

Door_call(c) ==
    LET d == client_door(c) IN
    /\ client_op(c, "call")
    /\ client' = IF d \notin client[c].has THEN Ends(c, "not ready")
                 ELSE IF down THEN Ends(c, "down")
                 ELSE IF revoked THEN Ends(c, "revoked")
                 ELSE [client EXCEPT ![c].code = <<<<"called", d>>>> \o Tail(@), ![c].tries = @ + 1]
    /\ UNCHANGED <<dprog, main, fd, fdlock, path, revoked, thread, down, unref>>

\* Who runs the call of a client; a call nobody runs yet waits for a thread.
Runs(t, c) == Exists(t) /\ thread[t].for = c
\* The call of c is given up: the thread runs on for nobody, or is cancelled.
Abandon(c) == [t \in Threads |-> IF Runs(t, c) THEN IF thread[t].cancel THEN NoThread ELSE [thread[t] EXCEPT !.for = 0]
                                 ELSE thread[t]]

\* SIGCHLD or SIGALRM during the call: EINTR, a new call, or the end of the client.
interrupted(c) ==
    /\ InCall(c) /\ client[c].tries = 1 /\ dprog.client.signal # "none"
    /\ client' = IF dprog.client.signal = "retries" THEN [client EXCEPT ![c].code[1][1] = "call"] ELSE Ends(c, "signal")
    /\ thread' = Abandon(c)
    /\ UNCHANGED <<dprog, main, fd, fdlock, path, revoked, down, unref>>

------------------------------------------------------------------------------
at(t, op) == ~down /\ Exists(t) /\ thread[t].code[1] = op
on(t) == [thread EXCEPT ![t].code = Tail(@)]

\* An idle thread takes a call; a new thread is made when no other is idle.
take(t, c) ==
    /\ at(t, "wait") /\ InCall(c) /\ ~\E u \in Threads : Runs(u, c)
    /\ LET th == [thread EXCEPT ![t] = [NoThread EXCEPT !.code = dprog.server.servproc[client_door(c)],
                                                        !.for = c, !.door = client_door(c)]] IN
       thread' = IF \E u \in Threads : Idle(th, u) THEN th ELSE WithThread(th)
    /\ client' = [client EXCEPT ![c].runs = @ + 1]
    /\ UNCHANGED <<dprog, main, fd, fdlock, path, revoked, down, unref>>

\* The door is unreferenced: the procedure runs for nobody and returns at once.
take_unref(t) ==
    /\ at(t, "wait") /\ ~unref /\ unref' = TRUE
    /\ thread' = [thread EXCEPT ![t].code = <<"return">>, ![t].for = 0]
    /\ UNCHANGED <<dprog, main, fd, fdlock, path, revoked, client, down>>

\* The mutex is locked and unlocked again, or the variable is polled.
pass(t) == /\ \/ at(t, "pass") /\ ~fdlock
              \/ at(t, "yield") /\ fd
           /\ thread' = on(t) /\ UNCHANGED <<dprog, main, fd, fdlock, path, revoked, client, down, unref>>

\* The end of the server ends all calls.
Down == /\ down' = TRUE /\ thread' = [t \in Threads |-> NoThread]
        /\ client' = [c \in DoorClients |-> IF InCall(c) THEN [client[c] EXCEPT !.code = <<>>, !.end = "down"] ELSE client[c]]

Door_bind(t) ==
    /\ at(t, "bind")
    /\ IF fd THEN thread' = on(t) /\ UNCHANGED <<client, down>> ELSE Down
    /\ UNCHANGED <<dprog, main, fd, fdlock, path, revoked, unref>>

\* What is computed from the argument, which is the number of the client.
compute(t) ==
    /\ \E op \in {"square", "sqrt", "open", "cred", "sleep", "enable", "disable"} :
         /\ at(t, op)
         /\ thread' = [on(t) EXCEPT ![t].value = CASE op = "square" -> thread[t].for * thread[t].for
                                                   [] op \in {"sqrt", "open"} -> thread[t].for
                                                   [] OTHER -> @,
                                    ![t].cancel = IF op = "enable" THEN TRUE ELSE IF op = "disable" THEN FALSE ELSE @]
    /\ UNCHANGED <<dprog, main, fd, fdlock, path, revoked, client, down, unref>>

\* Revoking closes the descriptor: a second call that revokes it fails, and Door_revoke
\* then ends the server.
Door_revoke(t) ==
    /\ at(t, "revoke") /\ revoked' = TRUE
    /\ IF revoked THEN Down ELSE thread' = on(t) /\ UNCHANGED <<client, down>>
    /\ UNCHANGED <<dprog, main, fd, fdlock, path, unref>>

pthread_exit(t) ==
    /\ at(t, "pthread_exit")
    /\ client' = IF thread[t].for = 0 THEN client ELSE Ends(thread[t].for, "exit")
    /\ thread' = [thread EXCEPT ![t] = NoThread]
    /\ UNCHANGED <<dprog, main, fd, fdlock, path, revoked, down, unref>>

\* The thread goes back to wait; the result goes to the client that still waits.
Door_return(t) ==
    LET c == thread[t].for IN
    /\ at(t, "return")
    /\ thread' = [thread EXCEPT ![t] = [NoThread EXCEPT !.code = <<"wait">>]]
    /\ client' = IF c = 0 THEN client
                 ELSE [client EXCEPT ![c].code = Tail(@), ![c].got = Append(@, thread[t].value)]
    /\ UNCHANGED <<dprog, main, fd, fdlock, path, revoked, down, unref>>

main_step == \/ Door_create \/ setfd \/ main_lock \/ main_unlock
             \/ main_path("unlink", "none") \/ main_path("creat", "file") \/ main_path("fattach", "door")
client_step(c) == client_open(c) \/ Door_call(c) \/ interrupted(c)
thread_step(t) ==
    \/ \E c \in DoorClients : take(t, c)
    \/ take_unref(t) \/ pass(t) \/ Door_bind(t) \/ compute(t) \/ Door_revoke(t) \/ pthread_exit(t) \/ Door_return(t)
Next == main_step \/ (\E c \in DoorClients : client_step(c)) \/ (\E t \in Threads : thread_step(t))

------------------------------------------------------------------------------
Stops == main = <<>> /\ ~\E c \in DoorClients : ENABLED client_step(c) \/ \E t \in Threads : ENABLED thread_step(t)
Expected(c) == IF dprog.server = serverfd1 THEN <<c>> ELSE IF Len(dprog.client.code) = 4 THEN <<c * c, c>> ELSE <<c * c>>

(* A client gets the results for its own arguments, each from one run of the  *)
(* server procedure unless it called again after a signal; and when nothing   *)
(* can go on it has them all, or its call failed in a way these programs are  *)
(* written to show (the server was not ready, the door was revoked, a signal  *)
(* or a thread that exits).  In particular no thread binds to a descriptor    *)
(* that main has not stored yet.                                              *)
DoorsRight ==
    /\ \A c \in DoorClients :
         /\ \A k \in DOMAIN client[c].got : client[c].got[k] = Expected(c)[k]
         /\ client[c].end # "no" => client[c].end \in dprog.ends
         /\ client[c].tries = Len(dprog.client.code) \div 2 =>
               client[c].runs <= Len(dprog.client.code) \div 2
         /\ client[c].code = <<>> /\ client[c].end = "no" => client[c].got = Expected(c)
    /\ down => "down" \in dprog.ends
    /\ Stops => \A c \in DoorClients : client[c].code = <<>>
==============================================================================
