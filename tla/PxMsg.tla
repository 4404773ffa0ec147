-------------------------------- MODULE PxMsg --------------------------------
(***************************************************************************)
(* Posix message queues in a mapped file (my_pxmsg_mmap): mymq_send,       *)
(* mymq_receive and mymq_notify.  The header and the messages change only  *)
(* under mqh_lock, so an action is what a thread does between taking the   *)
(* lock and giving it up, in pthread_mutex_unlock or in pthread_cond_wait. *)
(* Messages are in linked lists of indices into the file; 0 ends a list.   *)
(* Senders that find the queue full and receivers that find it empty wait  *)
(* on one condition variable.                                              *)
(***************************************************************************)
EXTENDS Naturals, FiniteSets, Sequences

CONSTANTS Senders, Receivers,
          NonBlocking,   \* threads whose descriptor is O_NONBLOCK
          Listeners,     \* processes that call mymq_notify
          Prios,
          mq_maxmsg,
          MaxSends       \* bound on the messages sent

VARIABLES mqh_head, mqh_free, msg_next,  \* the two lists
          msg,                           \* the message at an index
          mq_curmsgs, mqh_nwait, mqh_pid,
          pc, holding,                   \* a blocked sender has its message at hand
          sent,                          \* history: messages made so far
          received,                      \* history: messages received
          told                           \* processes that were sent the signal

lists   == <<mqh_head, mqh_free, msg_next, msg>>
threads == <<pc, holding>>
vars    == <<lists, mq_curmsgs, mqh_nwait, mqh_pid, threads, sent, received, told>>

Threads  == Senders \cup Receivers
Slots    == 1 .. mq_maxmsg
Messages == [prio : Prios, id : 1 .. MaxSends]
NoOne    == "none"

TypeOK ==
    /\ mqh_head \in 0 .. mq_maxmsg /\ mqh_free \in 0 .. mq_maxmsg
    /\ msg_next \in [Slots -> 0 .. mq_maxmsg]
    /\ msg \in [Slots -> Messages \cup {<<>>}]
    /\ mq_curmsgs \in 0 .. mq_maxmsg
    /\ mqh_nwait \in 0 .. Cardinality(Receivers)
    /\ mqh_pid \in Listeners \cup {NoOne} /\ told \subseteq Listeners
    /\ pc \in [Threads -> {"out", "blocked", "woken"}]
    /\ holding \in [Senders -> Messages \cup {<<>>}]
    /\ sent \in 0 .. MaxSends
    /\ received \in Seq(Messages)

\* mymq_open: all the messages are in the free list.
Init ==
    /\ mqh_head = 0 /\ mqh_free = 1
    /\ msg_next = [i \in Slots |-> IF i < mq_maxmsg THEN i + 1 ELSE 0]
    /\ msg = [i \in Slots |-> <<>>]
    /\ mq_curmsgs = 0 /\ mqh_nwait = 0 /\ mqh_pid = NoOne
    /\ pc = [t \in Threads |-> "out"] /\ holding = [t \in Senders |-> <<>>]
    /\ sent = 0 /\ received = <<>> /\ told = {}

\* The indices of the list that starts at first.
Chain(first) ==
    LET f[n \in 0 .. mq_maxmsg] ==
            IF n = 0 THEN <<>>
            ELSE LET before == f[n - 1]
                     i == IF before = <<>> THEN first ELSE msg_next[before[Len(before)]]
                 IN IF i = 0 \/ Len(before) < n - 1 THEN before ELSE Append(before, i)
    IN f[mq_maxmsg]

------------------------------------------------------------------------------
\* pthread_cond_signal wakes one thread, sender or receiver, if there is one.
Signal(p) ==
    IF \E u \in Threads : p[u] = "blocked"
    THEN \E u \in Threads : p[u] = "blocked" /\ pc' = [p EXCEPT ![u] = "woken"]
    ELSE pc' = p

\* The process registered in mqh_pid is sent its signal and unregistered.
Notify ==
    IF mq_curmsgs = 0 /\ mqh_pid # NoOne /\ mqh_nwait = 0
    THEN told' = told \cup {mqh_pid} /\ mqh_pid' = NoOne
    ELSE UNCHANGED <<told, mqh_pid>>

\* Faulty: a message goes before those of its own priority.
Place_before(list, m) == {n \in DOMAIN list : m.prio >= msg[list[n]].prio}

\* Where the search for the right place may stop.
Place(list, m) == {n \in DOMAIN list : m.prio > msg[list[n]].prio}

\* Faulty: nobody who waits for a message is told.
Woken_none(p) == pc' = p

\* mymq_send wakes a thread when the queue was empty.
Woken(p) == IF mq_curmsgs = 0 THEN Signal(p) ELSE pc' = p

\* mymq_send from err_dump on: the message takes the first free slot and is
\* linked behind those of at least its priority.
Link(t, m) ==
    LET new  == mqh_free
        list == Chain(mqh_head)
        at   == Place(list, m)
        n    == IF at = {} THEN Len(list) + 1
                ELSE CHOOSE k \in at : \A j \in at : k <= j
        next == IF n > Len(list) THEN 0 ELSE list[n]
        p    == [pc EXCEPT ![t] = "out"]
    IN
    /\ msg' = [msg EXCEPT ![new] = m]
    /\ mqh_free' = msg_next[new]
    /\ msg_next' = [i \in Slots |-> IF i = new THEN next
                                    ELSE IF n > 1 /\ i = list[n - 1] THEN new
                                    ELSE msg_next[i]]
    /\ mqh_head' = IF n = 1 THEN new ELSE mqh_head
    /\ Woken(p)
    /\ mq_curmsgs' = mq_curmsgs + 1
    /\ holding' = [holding EXCEPT ![t] = <<>>]

Full == mq_curmsgs >= mq_maxmsg

\* Only an empty queue is looked at for a notification, and only on the call: a
\* sender that had to wait does not come back to it.
mymq_send(t, prio) ==
    LET m == [prio |-> prio, id |-> sent + 1] IN
    /\ pc[t] = "out" /\ sent < MaxSends
    /\ \/ ~Full /\ Notify /\ Link(t, m) /\ sent' = sent + 1 /\ UNCHANGED <<mqh_nwait, received>>
       \/ /\ Full /\ t \notin NonBlocking
          /\ pc' = [pc EXCEPT ![t] = "blocked"] /\ holding' = [holding EXCEPT ![t] = m]
          /\ sent' = sent + 1
          /\ UNCHANGED <<lists, mq_curmsgs, mqh_nwait, mqh_pid, received, told>>

mymq_send_repeat(t) ==
    /\ pc[t] = "woken"
    /\ \/ ~Full /\ Link(t, holding[t])
       \/ /\ Full /\ pc' = [pc EXCEPT ![t] = "blocked"]
          /\ UNCHANGED <<lists, mq_curmsgs, holding>>
    /\ UNCHANGED <<mqh_nwait, mqh_pid, sent, received, told>>

------------------------------------------------------------------------------
\* Faulty: nobody who waits for room is told.
Unlink_silent(t) ==
    LET i == mqh_head IN
    /\ received' = Append(received, msg[i])
    /\ msg' = [msg EXCEPT ![i] = <<>>]
    /\ mqh_head' = msg_next[i]
    /\ msg_next' = [msg_next EXCEPT ![i] = mqh_free]
    /\ mqh_free' = i
    /\ pc' = [pc EXCEPT ![t] = "out"]
    /\ mq_curmsgs' = mq_curmsgs - 1

\* mymq_receive from err_dump on; the slot's contents are dead afterwards.
Unlink(t) ==
    LET i == mqh_head
        p == [pc EXCEPT ![t] = "out"]
    IN
    /\ received' = Append(received, msg[i])
    /\ msg' = [msg EXCEPT ![i] = <<>>]
    /\ mqh_head' = msg_next[i]
    /\ msg_next' = [msg_next EXCEPT ![i] = mqh_free]
    /\ mqh_free' = i
    /\ IF mq_curmsgs = mq_maxmsg THEN Signal(p) ELSE pc' = p
    /\ mq_curmsgs' = mq_curmsgs - 1

mymq_receive(t) ==
    /\ pc[t] = "out"
    /\ \/ mq_curmsgs > 0 /\ Unlink(t) /\ UNCHANGED mqh_nwait
       \/ /\ mq_curmsgs = 0 /\ t \notin NonBlocking
          /\ mqh_nwait' = mqh_nwait + 1 /\ pc' = [pc EXCEPT ![t] = "blocked"]
          /\ UNCHANGED <<lists, mq_curmsgs, received>>
    /\ UNCHANGED <<mqh_pid, holding, sent, told>>

mymq_receive_repeat(t) ==
    /\ pc[t] = "woken"
    /\ \/ mq_curmsgs > 0 /\ Unlink(t) /\ mqh_nwait' = mqh_nwait - 1
       \/ /\ mq_curmsgs = 0 /\ pc' = [pc EXCEPT ![t] = "blocked"]
          /\ UNCHANGED <<lists, mq_curmsgs, mqh_nwait, received>>
    /\ UNCHANGED <<mqh_pid, holding, sent, told>>

\* A process registers, unless another one is; mymq_close unregisters it.  One
\* that has had its signal has forgotten it.
mymq_notify(p) ==
    /\ \/ mqh_pid = NoOne /\ mqh_pid' = p
       \/ mqh_pid = p /\ mqh_pid' = NoOne
    /\ told' = told \ {p}
    /\ UNCHANGED <<lists, mq_curmsgs, mqh_nwait, threads, sent, received>>

\* pthread_cond_wait may return without a signal.
spurious(t) ==
    /\ pc[t] = "blocked" /\ pc' = [pc EXCEPT ![t] = "woken"]
    /\ UNCHANGED <<lists, mq_curmsgs, mqh_nwait, mqh_pid, holding, sent, received, told>>

Next ==
    \/ \E t \in Threads : spurious(t)
    \/ \E t \in Senders : mymq_send_repeat(t) \/ \E prio \in Prios : mymq_send(t, prio)
    \/ \E t \in Receivers : mymq_receive(t) \/ mymq_receive_repeat(t)
    \/ \E p \in Listeners : mymq_notify(p)

Spec == Init /\ [][Next]_vars

------------------------------------------------------------------------------
\* The two lists share out the slots and mq_curmsgs is the length of the first:
\* neither "free = 0" nor "head = 0" of the two err_dump calls can happen.  And
\* mqh_nwait is the number of "threads blocked in mq_receive()".
HeaderSound ==
    LET used == Chain(mqh_head)
        free == Chain(mqh_free)
        Set(list) == {list[n] : n \in DOMAIN list}
    IN /\ TypeOK
       /\ Len(used) = mq_curmsgs /\ Len(used) + Len(free) = mq_maxmsg
       /\ Set(used) \cup Set(free) = Slots
       /\ mqh_nwait = Cardinality({t \in Receivers : pc[t] # "out"})

\* The mapped queue implements the abstract one: highest priority first, in
\* order of sending within a priority.
Contents == LET list == Chain(mqh_head) IN [n \in DOMAIN list |-> msg[list[n]]]
Queue == INSTANCE PriorityQueue WITH queue <- Contents, Capacity <- mq_maxmsg
InPriorityOrder == Queue!Spec

\* mymq_send is to "wake up anyone blocked in mq_receive waiting for a message":
\* a receiver stays blocked beside a message only while another that was woken
\* has not run yet.
ReceiversWoken ==
    (\E t \in Receivers : pc[t] = "blocked") /\ mq_curmsgs > 0
        => \E t \in Threads : pc[t] = "woken"

\* mymq_receive is to "wake up anyone blocked in mq_send waiting for room".
SendersWoken ==
    (\E t \in Senders : pc[t] = "blocked") /\ mq_curmsgs < mq_maxmsg
        => \E t \in Threads : pc[t] = "woken"

\* The header describes the queue, and nobody is left blocked beside a message or
\* beside room for one (mymq_send, mymq_receive).
NobodyStuck == HeaderSound /\ ReceiversWoken /\ SendersWoken
==============================================================================
