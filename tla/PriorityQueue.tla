---------------------------- MODULE PriorityQueue ----------------------------
(***************************************************************************)
(* What a message queue promises: messages come out by descending priority *)
(* and, within a priority, in the order they went in; there are never more *)
(* than the queue has room for.                                            *)
(***************************************************************************)
EXTENDS Naturals, Sequences, SequencesExt

CONSTANTS Messages,   \* records with a field prio
          Capacity

VARIABLES queue,      \* the messages, the next one to come out first
          received    \* the messages that came out, the latest last

Init == queue = <<>> /\ received = <<>>

Send(m) ==
    /\ Len(queue) < Capacity
    /\ LET before(x) == x.prio >= m.prio
       IN queue' = SelectSeq(queue, before) \o <<m>>
                   \o SelectSeq(queue, LAMBDA x : ~before(x))
    /\ UNCHANGED received

Receive ==
    /\ queue # <<>>
    /\ received' = Append(received, Head(queue))
    /\ queue' = Tail(queue)

Next == Receive \/ \E m \in Messages : Send(m)

Spec == Init /\ [][Next]_<<queue, received>>
==============================================================================
