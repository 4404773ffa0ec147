------------------------------- MODULE Notify -------------------------------
(***************************************************************************)
(* The programs of unpv22e that watch a message queue: the receivers of    *)
(* pxmsg/mqnotify*.c, which ask for a notification when a message arrives  *)
(* on an empty queue, the test programs my_pxmsg_mmap/testmq.c and         *)
(* test1.c, and the three programs of rtsignals/, which queue signals.     *)
(*                                                                         *)
(* A program is a record of statement lists, one per process.  The queue   *)
(* is the abstract one (PxMsg shows mymq_send and mymq_receive to          *)
(* implement it): here the calls are atomic and what matters is their      *)
(* order, the notification and the results the programs expect.            *)
(***************************************************************************)
EXTENDS Integers, SequencesExt, FiniteSets

CONSTANTS NSENDS,       \* messages each sender of a receiver program sends
          SIGQUEUE_MAX  \* signals the system queues for a process

VARIABLES nprog,     \* the program
          code,      \* what each process still has to do
          mq,        \* the queue: exists, attributes, messages, mqh_pid
          open,      \* O_NONBLOCK of the descriptor
          waiting,   \* processes blocked in mq_receive (mqh_nwait)
          pend,      \* signals pending for the process that catches them
          mask,      \* whether it has them blocked
          got,       \* sigusr1, mqflag, the bytes of the pipe; caught signals
          failed     \* an expectation failed: err_quit, err_sys

ntvars == <<nprog, code, mq, open, waiting, pend, mask, got, failed>>

(***************************************************************************)
(* Statements.  e is the result the program insists on, Whatever when it does  *)
(* not look.                                                               *)
(***************************************************************************)
Whatever == -1
OK == -2
ENOENT == -3
EEXIST == -4
EMSGSIZE == -5
EAGAIN == -6
EBUSY == -7
Differs == -8
St(op, a, b, e) == <<[op |-> op, a |-> a, b |-> b, e |-> e]>>
Mq_open(nonblock, attr, e) == St("open", nonblock, attr, e)
Mq_send(len, e) == St("send", len, len, e)
Mq_receive(maxlen, e) == St("receive", maxlen, 0, e)
Mq_getattr(nonblock, cur) == St("getattr", nonblock, cur, OK)
Mq_setattr(nonblock, old, cur) == Mq_getattr(old, cur) \o St("setattr", nonblock, 0, OK)
Mq_notify(on, e) == St("notify", on, 0, e)
Fork(p) == St("fork", p, 0, OK)
Waitpid(p) == St("waitpid", p, 0, OK)
Sleep(n) == St("sleep", n, 0, OK)
Sigprocmask(block) == St("mask", block, 0, OK)
Repeat(n, s) == IF n = 0 THEN <<>> ELSE FlattenSeq([i \in 1..n |-> s])
Sends(ms) == FlattenSeq([i \in DOMAIN ms |-> Mq_send(ms[i], OK)])
Receives(ms) == FlattenSeq([i \in DOMAIN ms |-> Mq_receive(7, ms[i])])
Program(name, codes, handler, notice, allows) ==
  [name |-> name, codes |-> codes, handler |-> handler, notice |-> notice, allows |-> allows]
Pids == 0..6
Sigs == {-2, -1, 1, 2, 3}   \* SIGUSR1, SIGTERM and three realtime signals

(***************************************************************************)
(* my_pxmsg_mmap/testmq.c; test1.c is the same script on the system's      *)
(* queues.                                                                 *)
(***************************************************************************)
DefaultAttr == [maxmsg |-> 128, msgsize |-> 1024]
OldAttr == [maxmsg |-> 0, msgsize |-> 0]   \* open what is there
TestAttr == [maxmsg |-> 4, msgsize |-> 7]

test_open ==
  St("unlink", 0, 0, Whatever) \o St("unlink", 0, 0, ENOENT)
  \o Mq_open(FALSE, DefaultAttr, OK) \o Mq_getattr(FALSE, 0) \o St("close", 0, 0, OK)
  \o Mq_open(FALSE, DefaultAttr, EEXIST) \o St("unlink", 0, 0, OK)
  \o Mq_open(FALSE, TestAttr, OK) \o Mq_getattr(FALSE, 0)
  \o Sends(<<1>>) \o Receives(<<1>>) \o Sends(<<0>>) \o Receives(<<0>>)
  \o Sends(<<1, 2>>) \o Receives(<<2, 1>>)
  \o Sends(<<1, 2, 3>>) \o Receives(<<3, 2, 1>>)
  \o Sends(<<1, 2, 3, 4>>) \o Receives(<<4, 3, 2, 1>>)

test_order ==
  Sends(<<4>>) \o Receives(<<4>>) \o Sends(<<4, 3>>) \o Receives(<<4, 3>>)
  \o Sends(<<4, 3, 2>>) \o Receives(<<4, 3, 2>>)
  \o Mq_send(8, EMSGSIZE) \o Sends(<<4, 3, 2, 1>>) \o Receives(<<4, 3, 2>>)
  \o Mq_receive(6, EMSGSIZE) \o Receives(<<1>>)
  \o Sends(<<1, 2, 4, 3>>) \o St("close", 0, 0, OK)
  \o Mq_open(TRUE, OldAttr, OK) \o Mq_getattr(TRUE, 4)
  \o Receives(<<4, 3, 2, 1>>) \o Mq_receive(7, EAGAIN)
  \o Sends(<<1, 4, 2, 3>>) \o Mq_send(5, EAGAIN) \o St("close", 0, 0, OK)

test_setattr ==
  Mq_open(FALSE, OldAttr, OK) \o Receives(<<4>>)
  \o Mq_setattr(TRUE, FALSE, 3) \o Mq_getattr(TRUE, 3)
  \o Receives(<<3, 2, 1>>) \o Mq_receive(7, EAGAIN)
  \o Mq_setattr(FALSE, TRUE, 0) \o Mq_getattr(FALSE, 0)

test_notify ==
  Mq_notify(TRUE, OK) \o Mq_notify(TRUE, EBUSY) \o Mq_notify(FALSE, OK)
  \o Mq_notify(TRUE, OK) \o Mq_notify(TRUE, EBUSY)
  \o Fork(1) \o Waitpid(1)
  \o Sends(<<5>>) \o Sleep(1) \o St("sigusr1", 1, 0, OK) \o Receives(<<5>>)
  \o Sends(<<2>>) \o Sleep(1) \o St("sigusr1", 1, 0, OK) \o Receives(<<2>>)
  \o Mq_notify(TRUE, OK) \o Fork(2) \o Sleep(2) \o Sends(<<6>>) \o Waitpid(2)
  \o St("sigusr1", 1, 0, OK)

test_child ==
  Fork(3) \o Sends(<<1, 3>>) \o Waitpid(3) \o Mq_getattr(FALSE, 0)
  \o Fork(4) \o Sleep(2) \o Receives(<<5, 3, 1>>) \o Waitpid(4) \o Mq_getattr(FALSE, 0)

Test(name, main) ==
  Program(name,
          <<main,
            Mq_notify(TRUE, EBUSY),
            Receives(<<6>>),
            Sleep(2) \o Receives(<<3, 1>>),
            Sends(<<3, 5, 1>>)>>,
          St("sigusr1++", 0, 0, OK), "signal", {})
testmq == Test("testmq", test_open \o test_order \o test_setattr \o test_notify \o test_child)

\* test1.c does the same with the system's message queues
test1_open == test_open
test1_order == test_order
test1_setattr == test_setattr
test1_notify == test_notify
test1_child == test_child
test1 == Test("test1", test1_open \o test1_order \o test1_setattr \o test1_notify \o test1_child)

(***************************************************************************)
(* The receivers.  Two senders start when the receiver has registered; a   *)
(* message that was there before would not be announced at all.  sig1 and  *)
(* sig2 receive one message per notification and may leave others behind;  *)
(* mqnotify3 and mqnotify1 receive none.                                   *)
(***************************************************************************)
Receiver(name, nonblock, setup, loop, handler, notice, allows) ==
  Program(name,
          <<Mq_open(nonblock, OldAttr, OK) \o setup \o Mq_notify(TRUE, OK)
              \o Fork(1) \o Fork(2) \o St("for", loop, 0, OK),
            Sends([i \in 1..NSENDS |-> 1]), Sends([i \in 1..NSENDS |-> 2])>>,
          handler, notice, allows)
Drain == St("drain", 7, 0, EAGAIN)
Suspended == Sigprocmask(TRUE) \o St("sigsuspend", 0, 0, OK)
Reregister == Mq_notify(TRUE, OK)

mqnotifysig1 == Receiver("mqnotifysig1", FALSE, <<>>, St("pause", 0, 0, OK),
                         Reregister \o Mq_receive(7, Whatever), "signal", {"left"})
mqnotifysig2 == Receiver("mqnotifysig2", FALSE, <<>>,
                         Suspended \o Reregister \o Mq_receive(7, Whatever) \o Sigprocmask(FALSE),
                         St("mqflag", 0, 0, OK), "signal", {"left"})

\* the queue is drained first: a message that comes in between is not announced
sig3_loop_late == Suspended \o Drain \o Reregister \o Sigprocmask(FALSE)

sig3_loop == Suspended \o Reregister \o Drain \o Sigprocmask(FALSE)
mqnotifysig3 == Receiver("mqnotifysig3", TRUE, <<>>, sig3_loop,
                         St("mqflag", 0, 0, OK), "signal", {})
mqnotifysig4 == Receiver("mqnotifysig4", TRUE, Sigprocmask(TRUE),
                         St("sigwait", 0, 0, OK) \o Reregister \o Drain, <<>>, "signal", {})
mqnotifysig5 == Receiver("mqnotifysig5", TRUE, <<>>,
                         St("select", 0, 0, OK) \o Reregister \o Drain,
                         St("write", 0, 0, OK), "signal", {})
mqnotifythread1 == Receiver("mqnotifythread1", TRUE, <<>>, St("pause", 0, 0, OK),
                            Reregister \o Drain, "thread", {})
mqnotify3 == Receiver("mqnotify3", FALSE, <<>>, St("pause", 0, 0, OK),
                      Reregister, "signal", {"left"})
mqnotify1 == Receiver("mqnotify1", FALSE, <<>>, St("pause", 0, 0, OK),
                      Reregister, "signal", {"left"})

(***************************************************************************)
(* rtsignals: the parent queues signals for a child that has them blocked. *)
(* Whether ordinary signals are queued, as realtime ones are, is what      *)
(* test2 finds out; test3 goes on until the system's limit.                *)
(***************************************************************************)
Sigqueue(sig, vals) == FlattenSeq([i \in 1..vals |-> St("sigqueue", sig, i - 1, OK)])
rtsignals(name, sends, notice, allows) ==
  Program(name,
          <<Fork(1) \o Sleep(3) \o sends,
            Sigprocmask(TRUE) \o Sleep(6) \o Sigprocmask(FALSE) \o Sleep(3)>>,
          <<>>, notice, allows)
rtsignals_test1 ==
  rtsignals("rtsignals_test1", Sigqueue(3, 3) \o Sigqueue(2, 3) \o Sigqueue(1, 3), "queue", {})
rtsignals_test2 ==
  {rtsignals("rtsignals_test2", Sigqueue(-2, 7) \o Sigqueue(-1, 7) \o Waitpid(1), notice, {}) :
     notice \in {"queue", "merge"}}
rtsignals_test3 ==
  rtsignals("rtsignals_test3", Sigqueue(1, SIGQUEUE_MAX + 2) \o Waitpid(1), "queue", {"full"})

NotifyPrograms ==
  {testmq, test1, mqnotifysig1, mqnotifysig2, mqnotifysig3, mqnotifysig4,
   mqnotifysig5, mqnotifythread1, mqnotify3, mqnotify1, rtsignals_test1, rtsignals_test3}
  \cup rtsignals_test2

-----------------------------------------------------------------------------
Empty == [exists |-> FALSE, attr |-> TestAttr, msgs |-> <<>>, pid |-> -1]

\* a test program may find its queue left over; a receiver opens one that exists
Init ==
  /\ nprog \in NotifyPrograms
  /\ code = [p \in Pids |-> IF p = 0 THEN nprog.codes[1] ELSE <<>>]
  /\ mq = [Empty EXCEPT !.exists = TRUE]
  /\ open = FALSE
  /\ waiting = {} /\ pend = <<>> /\ mask = FALSE
  /\ got = [sigusr1 |-> 0, mqflag |-> 0, bytes |-> 0, busy |-> FALSE,
            sent |-> [s \in Sigs |-> 0], caught |-> [s \in Sigs |-> <<>>]]
  /\ failed = FALSE

Op(p) == IF code[p] = <<>> THEN "exit" ELSE Head(code[p]).op
Arg(p) == Head(code[p])
Process(p) == IF nprog.notice = "thread" THEN 0 ELSE p
Catcher == IF nprog.notice \in {"queue", "merge"} THEN 1 ELSE 0

\* the program goes on with result r, or gives up because it expected another
Result(p, r) ==
  /\ code' = [code EXCEPT ![p] = IF Arg(p).e \in {Whatever, r} THEN Tail(@) ELSE <<>>]
  /\ failed' = (failed \/ Arg(p).e \notin {Whatever, r})

Goes(p) == code' = [code EXCEPT ![p] = Tail(@)] /\ UNCHANGED failed

mq_unlink(p) ==
  /\ Op(p) = "unlink"
  /\ Result(p, IF mq.exists THEN OK ELSE ENOENT)
  /\ mq' = [mq EXCEPT !.exists = FALSE]
  /\ UNCHANGED <<nprog, open, waiting, pend, mask, got>>

mq_open(p) ==
  /\ Op(p) = "open"
  /\ LET r == IF Arg(p).b = OldAttr THEN IF mq.exists THEN OK ELSE ENOENT
              ELSE IF mq.exists THEN EEXIST ELSE OK
     IN /\ Result(p, r)
        /\ open' = IF r = OK THEN Arg(p).a ELSE open
        /\ mq' = IF r = OK /\ Arg(p).b # OldAttr
                 THEN [Empty EXCEPT !.exists = TRUE, !.attr = Arg(p).b] ELSE mq
  /\ UNCHANGED <<nprog, waiting, pend, mask, got>>

\* mq_close takes the registration of the process with it
mq_close(p) ==
  /\ Op(p) = "close"
  /\ Goes(p)
  /\ open' = FALSE
  /\ mq' = [mq EXCEPT !.pid = IF @ = Process(p) THEN -1 ELSE @]
  /\ UNCHANGED <<nprog, waiting, pend, mask, got>>

mq_getattr(p) ==
  /\ Op(p) = "getattr"
  /\ Result(p, IF open = Arg(p).a /\ Len(mq.msgs) = Arg(p).b THEN OK ELSE Differs)
  /\ UNCHANGED <<nprog, mq, open, waiting, pend, mask, got>>

mq_setattr(p) ==
  /\ Op(p) = "setattr"
  /\ Goes(p)
  /\ open' = Arg(p).a
  /\ UNCHANGED <<nprog, mq, waiting, pend, mask, got>>

mq_notify(p) ==
  /\ Op(p) = "notify"
  /\ LET busy == Arg(p).a /\ mq.pid # -1 /\ code[mq.pid] # <<>>
     IN /\ Result(p, IF busy THEN EBUSY ELSE OK)
        /\ mq' = IF busy THEN mq
                 ELSE IF Arg(p).a THEN [mq EXCEPT !.pid = Process(p)]
                 ELSE [mq EXCEPT !.pid = IF @ = Process(p) THEN -1 ELSE @]
  /\ UNCHANGED <<nprog, open, waiting, pend, mask, got>>

\* behind every message of the same or a higher priority
Placed(msgs, prio) ==
  LET n == Cardinality({i \in DOMAIN msgs : msgs[i] >= prio})
  IN SubSeq(msgs, 1, n) \o <<prio>> \o SubSeq(msgs, n + 1, Len(msgs))

\* the queue was empty, a process has registered and none is blocked in mq_receive
Announced == mq.msgs = <<>> /\ mq.pid # -1 /\ waiting = {}

mq_send(p) ==
  /\ Op(p) = "send"
  /\ LET r == IF Arg(p).a > mq.attr.msgsize THEN EMSGSIZE
              ELSE IF Len(mq.msgs) = mq.attr.maxmsg THEN EAGAIN ELSE OK
         tell == r = OK /\ Announced
         thread == CHOOSE q \in 3..6 : code[q] = <<>>
     IN /\ r = EAGAIN => open
        /\ failed' = (failed \/ Arg(p).e # r)
        /\ code' = [q \in Pids |->
                      IF q = p THEN (IF Arg(p).e = r THEN Tail(code[p]) ELSE <<>>)
                      ELSE IF tell /\ nprog.notice = "thread" /\ q = thread THEN nprog.handler
                      ELSE code[q]]
        /\ mq' = IF r # OK THEN mq
                 ELSE [mq EXCEPT !.msgs = Placed(@, Arg(p).b), !.pid = IF tell THEN -1 ELSE @]
        /\ pend' = IF tell /\ nprog.notice = "signal" THEN <<[sig |-> 0, val |-> 0]>> ELSE pend
  /\ UNCHANGED <<nprog, open, waiting, mask, got>>

mq_receive(p) ==
  /\ Op(p) = "receive"
  /\ IF Arg(p).a < mq.attr.msgsize
     THEN Result(p, EMSGSIZE) /\ UNCHANGED <<mq, waiting>>
     ELSE IF mq.msgs # <<>>
     THEN /\ Result(p, Head(mq.msgs))
          /\ mq' = [mq EXCEPT !.msgs = Tail(@)]
          /\ waiting' = waiting \ {p}
     ELSE IF open
     THEN Result(p, EAGAIN) /\ UNCHANGED <<mq, waiting>>
     ELSE /\ p \notin waiting
          /\ waiting' = waiting \cup {p}
          /\ UNCHANGED <<code, failed, mq>>
  /\ UNCHANGED <<nprog, open, pend, mask, got>>

\* while ((n = mq_receive(...)) >= 0): one message of the loop, or its end
mq_drain(p) ==
  /\ Op(p) = "drain"
  /\ IF mq.msgs = <<>> THEN Goes(p) /\ UNCHANGED mq
     ELSE mq' = [mq EXCEPT !.msgs = Tail(@)] /\ UNCHANGED <<code, failed>>
  /\ UNCHANGED <<nprog, open, waiting, pend, mask, got>>

-----------------------------------------------------------------------------
fork(p) ==
  /\ Op(p) = "fork"
  /\ code' = [code EXCEPT ![p] = Tail(@), ![Arg(p).a] = nprog.codes[Arg(p).a + 1]]
  /\ UNCHANGED <<nprog, mq, open, waiting, pend, mask, got, failed>>

waitpid(p) ==
  /\ Op(p) = "waitpid" /\ code[Arg(p).a] = <<>>
  /\ Goes(p)
  /\ UNCHANGED <<nprog, mq, open, waiting, pend, mask, got>>

\* the programs sleep until the others have done what they can: everybody
\* else has ended, is blocked or sleeps longer
sleep(p) ==
  /\ Op(p) = "sleep"
  /\ \A q \in Pids \ {p} : \/ Op(q) \in {"exit", "waitpid"}
                           \/ Op(q) = "receive" /\ q \in waiting /\ mq.msgs = <<>>
                           \/ Op(q) = "sleep" /\ Arg(q).a > Arg(p).a
  /\ pend # <<>> => mask \/ got.busy
  /\ Goes(p)
  /\ UNCHANGED <<nprog, mq, open, waiting, pend, mask, got>>

sigprocmask(p) ==
  /\ Op(p) = "mask"
  /\ Goes(p)
  /\ mask' = Arg(p).a
  /\ UNCHANGED <<nprog, mq, open, waiting, pend, got>>

forever(p) ==
  /\ Op(p) = "for"
  /\ code' = [code EXCEPT ![p] = Arg(p).a \o @]
  /\ UNCHANGED <<nprog, mq, open, waiting, pend, mask, got, failed>>

\* Sigqueue: the system's limit ends the program, an ordinary signal may merge
sigqueue(p) ==
  /\ Op(p) = "sigqueue"
  /\ LET s == Arg(p)
         full == Len(pend) >= SIGQUEUE_MAX
         merged == nprog.notice = "merge" /\ \E i \in DOMAIN pend : pend[i].sig = s.a
     IN IF full THEN /\ code' = [code EXCEPT ![p] = <<>>]
                     /\ failed' = (failed \/ "full" \notin nprog.allows)
                     /\ UNCHANGED <<pend, got>>
        ELSE /\ Goes(p)
             /\ pend' = IF merged THEN pend ELSE pend \o <<[sig |-> s.a, val |-> s.b]>>
             /\ got' = [got EXCEPT !.sent[s.a] = @ + 1]
  /\ UNCHANGED <<nprog, mq, open, waiting, mask>>

\* a signal reaches its process when it has it unblocked, or sleeps in
\* sigsuspend; pause and sigsuspend return when the handler has
deliver ==
  LET p == Catcher
      suspended == Op(p) = "sigsuspend" /\ got.mqflag = 0
  IN /\ code[p] # <<>> /\ pend # <<>> /\ ~got.busy /\ (~mask \/ suspended)
     /\ \E i \in DOMAIN pend :
          /\ \A j \in 1..(i - 1) : pend[j].sig # pend[i].sig
          /\ pend' = SubSeq(pend, 1, i - 1) \o SubSeq(pend, i + 1, Len(pend))
          /\ IF nprog.notice = "signal"
             THEN /\ code' = [code EXCEPT ![p] =
                                nprog.handler \o St("return", 0, 0, OK)
                                \o (IF Op(p) = "pause" THEN Tail(@) ELSE @)]
                  /\ got' = [got EXCEPT !.busy = TRUE]
             ELSE /\ got' = [got EXCEPT !.caught[pend[i].sig] = Append(@, pend[i].val)]
                  /\ UNCHANGED code
     /\ UNCHANGED <<nprog, mq, open, waiting, mask, failed>>

\* what the handlers do, and what waits for them
signalled(p) ==
  /\ LET is(op) == Op(p) = op
     IN \/ is("sigusr1++") /\ got' = [got EXCEPT !.sigusr1 = @ + 1] /\ Goes(p)
        \/ is("mqflag") /\ got' = [got EXCEPT !.mqflag = 1] /\ Goes(p)
        \/ is("write") /\ got' = [got EXCEPT !.bytes = @ + 1] /\ Goes(p)
        \/ is("return") /\ got' = [got EXCEPT !.busy = FALSE] /\ Goes(p)
        \/ is("sigsuspend") /\ got.mqflag = 1 /\ got' = [got EXCEPT !.mqflag = 0] /\ Goes(p)
        \/ is("select") /\ got.bytes > 0 /\ got' = [got EXCEPT !.bytes = @ - 1] /\ Goes(p)
        \/ /\ is("sigusr1")
           /\ Result(p, IF got.sigusr1 = Arg(p).a THEN OK ELSE Differs)
           /\ UNCHANGED got
  /\ UNCHANGED <<nprog, mq, open, waiting, pend, mask>>

sigwait(p) ==
  /\ Op(p) = "sigwait" /\ pend # <<>>
  /\ pend' = <<>>
  /\ Goes(p)
  /\ UNCHANGED <<nprog, mq, open, waiting, mask, got>>

Step(p) ==
  \/ mq_unlink(p) \/ mq_open(p) \/ mq_close(p) \/ mq_getattr(p) \/ mq_setattr(p)
  \/ mq_notify(p) \/ mq_send(p) \/ mq_receive(p) \/ mq_drain(p) \/ fork(p) \/ waitpid(p)
  \/ sleep(p) \/ sigprocmask(p) \/ forever(p) \/ sigqueue(p) \/ signalled(p) \/ sigwait(p)

Next == deliver \/ \E p \in Pids : Step(p)

Spec == Init /\ [][Next]_ntvars

-----------------------------------------------------------------------------
\* everybody has ended or waits for a signal that is not on its way
Quiet ==
  /\ \A p \in Pids : Op(p) \in {"exit", "pause", "sigsuspend", "sigwait", "select"}
  /\ pend = <<>> /\ got.mqflag = 0 /\ got.bytes = 0

\* The test programs get every result they insist on (testmq.c and test1.c end
\* with "done"); the receivers that register again before they drain the queue
\* never sleep over a message (mqnotifysig3, 4, 5, mqnotifythread1); and the
\* signals queued for the child of rtsignals arrive each once, in the order of
\* their values, or merged to the first.
QueueWatched ==
  /\ ~failed
  /\ Quiet /\ "left" \notin nprog.allows => mq.msgs = <<>>
  /\ (nprog.notice = "queue" /\ Quiet) =>
        \A s \in Sigs : got.caught[s] = [i \in 1..got.sent[s] |-> i - 1]
  /\ (nprog.notice = "merge" /\ Quiet) =>
        \A s \in Sigs : got.sent[s] > 0 => got.caught[s] = <<0>>
=============================================================================
