------------------------------- MODULE BlockDev -------------------------------
(***************************************************************************)
(* The request list of a block device and the hard disk driver behind it.  *)
(*                                                                         *)
(* Buffers are identified with the number of their block, so a buffer also *)
(* stands for the task that makes a request for it: that task holds the    *)
(* buffer's lock until the driver's interrupt handler ends the request,    *)
(* and sleeps on wait_for_request when there is no free request.           *)
(* Interrupts come between any two steps of tasks; add_request runs with   *)
(* interrupts disabled.                                                    *)
(***************************************************************************)
EXTENDS Naturals, FiniteSets, FiniteSetsExt, Sequences

CONSTANTS Buffers,      \* block numbers
          nr_sects,     \* length of the partition; a block is two sectors
          NR_REQUEST,   \* length of the request array
          MAX_ERRORS    \* tries per request

ASSUME BlockDevAssumption ==
    /\ Buffers \subseteq Nat /\ nr_sects \in Nat
    /\ NR_REQUEST \in Nat /\ NR_REQUEST > 1
    /\ MAX_ERRORS \in Nat /\ MAX_ERRORS > 0

VARIABLES request,             \* the array; NoRequest where dev < 0
          queue,               \* the list from current_request on
          b_lock, b_uptodate,
          pc, rw,              \* where the task that locked a buffer is; its command
          moved,               \* history: sectors transferred for a buffer
          do_hd,               \* the handler the next interrupt calls
          reset, recalibrate

list  == <<request, queue>>
drive == <<do_hd, reset, recalibrate>>
vars  == <<list, b_lock, b_uptodate, pc, rw, moved, drive>>

Requests  == 1 .. NR_REQUEST
NoRequest == [cmd |-> "NONE", bh |-> 0, errors |-> 0, nr_sectors |-> 0]

TypeOK ==
    /\ request \in [Requests -> [cmd : {"NONE", "READ", "WRITE"}, bh : Buffers \cup {0},
                                 errors : 0 .. MAX_ERRORS - 1, nr_sectors : 0 .. 2]]
    /\ queue \in Seq(Requests) /\ Len(queue) <= NR_REQUEST
    /\ b_lock \in [Buffers -> BOOLEAN] /\ b_uptodate \in [Buffers -> BOOLEAN]
    /\ pc \in [Buffers -> {"out", "find", "full", "asleep"}]
    /\ rw \in [Buffers -> {"READ", "WRITE"}]
    /\ moved \in [Buffers -> 0 .. 2]
    /\ do_hd \in {"none", "READ", "WRITE", "recal"}
    /\ reset \in BOOLEAN /\ recalibrate \in BOOLEAN

\* blk_dev_init and hd_init.
Init ==
    /\ request = [s \in Requests |-> NoRequest] /\ queue = <<>>
    /\ b_lock = [b \in Buffers |-> FALSE] /\ b_uptodate = [b \in Buffers |-> FALSE]
    /\ pc = [b \in Buffers |-> "out"] /\ rw = [b \in Buffers |-> "READ"]
    /\ moved = [b \in Buffers |-> 0]
    /\ do_hd = "none" /\ reset = FALSE /\ recalibrate = FALSE

------------------------------------------------------------------------------
\* The test of do_hd_request for a request beyond the end of the partition.
\* sector has moved on by the sectors already transferred, the 2 has not.
Beyond(r) ==
    LET sector == 2 * r.bh + (2 - r.nr_sectors) IN sector + 2 > nr_sects

\* The requests do_hd_request does not end at once.
Rest(q, req) ==
    LET good == {n \in DOMAIN q : ~Beyond(req[q[n]])}
    IN IF good = {} THEN <<>> ELSE SubSeq(q, Min(good), Len(q))

\* Faulty: a request beyond the end leaves the list but is not freed.
do_hd_request_kept(q, req, locked, ended, uptodate, rst) ==
    LET rest == Rest(q, req)
        bad  == Range(q) \ Range(rest)
        over == {req[s].bh : s \in ended \cup bad}
    IN
    /\ queue' = rest
    /\ request' = [s \in Requests |-> IF s \in ended THEN NoRequest ELSE req[s]]
    /\ b_lock' = [b \in Buffers |-> locked[b] /\ b \notin over]
    /\ b_uptodate' = [b \in Buffers |-> IF b \in over
                                        THEN uptodate /\ \E s \in ended : req[s].bh = b
                                        ELSE b_uptodate[b]]
    /\ pc' = [b \in Buffers |-> IF pc[b] = "asleep" /\ over # {} THEN "find"
                                ELSE IF \E s \in Range(q) \cup ended : req[s].bh = b THEN "out"
                                ELSE pc[b]]
    /\ IF rest = <<>>
       THEN do_hd' = "none" /\ reset' = rst /\ UNCHANGED recalibrate
       ELSE /\ reset' = FALSE
            /\ recalibrate' = rst
            /\ do_hd' = IF rst \/ recalibrate THEN "recal" ELSE req[Head(rest)].cmd

\* do_hd_request on list q of the requests req, after the requests in ended
\* were ended with the given outcome: it ends those beyond the partition with an
\* error and starts the first that is left.  Ending a request frees it, unlocks
\* its buffer and wakes those who wait for a free request.  A drive that does
\* not ask for the data of a write in time is one that interrupts at once with
\* an error: both go through bad_rw_intr to do_hd_request.
do_hd_request(q, req, locked, ended, uptodate, rst) ==
    LET rest == Rest(q, req)
        bad  == Range(q) \ Range(rest)
        over == {req[s].bh : s \in ended \cup bad}
    IN
    /\ queue' = rest
    /\ request' = [s \in Requests |-> IF s \in ended \cup bad THEN NoRequest ELSE req[s]]
    /\ b_lock' = [b \in Buffers |-> locked[b] /\ b \notin over]
    /\ b_uptodate' = [b \in Buffers |-> IF b \in over
                                        THEN uptodate /\ \E s \in ended : req[s].bh = b
                                        ELSE b_uptodate[b]]
    /\ pc' = [b \in Buffers |-> IF pc[b] = "asleep" /\ over # {} THEN "find"
                                ELSE IF \E s \in Range(q) \cup ended : req[s].bh = b THEN "out"
                                ELSE pc[b]]
    /\ IF rest = <<>>
       THEN do_hd' = "none" /\ reset' = rst /\ UNCHANGED recalibrate
       ELSE /\ reset' = FALSE
            /\ recalibrate' = rst
            /\ do_hd' = IF rst \/ recalibrate THEN "recal" ELSE req[Head(rest)].cmd

------------------------------------------------------------------------------
\* The elevator.
IN_ORDER(r1, r2) ==
    \/ r1.cmd = "READ" /\ r2.cmd = "WRITE"
    \/ r1.cmd = r2.cmd /\ r1.bh < r2.bh

\* add_request puts s behind this position of a list that is not empty.
Place(q, req, s) ==
    Min({n \in DOMAIN q :
            \/ n = Len(q)
            \/ /\ IN_ORDER(req[q[n]], req[s]) \/ ~IN_ORDER(req[q[n]], req[q[n + 1]])
               /\ IN_ORDER(req[s], req[q[n + 1]])})

\* The list with s linked in at position i.
Linked(q, i, s) == SubSeq(q, 1, i - 1) \o <<s>> \o SubSeq(q, i, Len(q))

\* Writes leave the last third of the array to reads.
Room(cmd) == IF cmd = "READ" THEN Requests ELSE 1 .. (NR_REQUEST * 2) \div 3

FreeFor(cmd) == {s \in Room(cmd) : request[s] = NoRequest}

\* The part of make_request after the label repeat, with add_request.
Enqueue(b, cmd, locked) ==
    LET s   == Max(FreeFor(cmd))
        req == [request EXCEPT ![s] = [cmd |-> cmd, bh |-> b, errors |-> 0, nr_sectors |-> 2]]
    IN IF queue = <<>>
       THEN do_hd_request(<<s>>, req, locked, {}, FALSE, reset)
       ELSE /\ queue' = Linked(queue, Place(queue, req, s) + 1, s)
            /\ request' = req
            /\ b_lock' = locked
            /\ pc' = [pc EXCEPT ![b] = "out"]
            /\ UNCHANGED <<b_uptodate, drive>>

\* A task asks for a transfer; a read-ahead is forgotten when the buffer is
\* locked or no request is free.
make_request(b, cmd, ahead) ==
    LET locked == [b_lock EXCEPT ![b] = TRUE] IN
    /\ ~b_lock[b]
    /\ cmd = "READ" => ~b_uptodate[b]
    /\ rw' = [rw EXCEPT ![b] = cmd]
    /\ moved' = [moved EXCEPT ![b] = 0]
    /\ \/ FreeFor(cmd) # {} /\ Enqueue(b, cmd, locked)
       \/ /\ FreeFor(cmd) = {} /\ ~ahead
          /\ b_lock' = locked
          /\ pc' = [pc EXCEPT ![b] = "full"]
          /\ UNCHANGED <<list, b_uptodate, drive>>

\* sleep_on(&wait_for_request)
sleep_on(b) ==
    /\ pc[b] = "full"
    /\ pc' = [pc EXCEPT ![b] = "asleep"]
    /\ UNCHANGED <<list, b_lock, b_uptodate, rw, moved, drive>>

make_request_repeat(b) ==
    /\ pc[b] = "find"
    /\ \/ FreeFor(rw[b]) # {} /\ Enqueue(b, rw[b], b_lock)
       \/ /\ FreeFor(rw[b]) = {}
          /\ pc' = [pc EXCEPT ![b] = "full"]
          /\ UNCHANGED <<list, b_lock, b_uptodate, drive>>
    /\ UNCHANGED <<rw, moved>>

\* The task, or another one, changes the buffer, or drops it from the cache.
forget(b) ==
    /\ ~b_lock[b] /\ b_uptodate[b]
    /\ b_uptodate' = [b_uptodate EXCEPT ![b] = FALSE]
    /\ moved' = [moved EXCEPT ![b] = 0]
    /\ UNCHANGED <<list, b_lock, pc, rw, drive>>

------------------------------------------------------------------------------
CURRENT == Head(queue)

\* Faulty: errors are not counted.
bad_rw_intr_uncounted ==
    do_hd_request(queue, request, b_lock, {}, FALSE, TRUE)

\* bad_rw_intr, then do_hd_request.  After end_request CURRENT is the next
\* request, and with an empty list a read through the null pointer.
bad_rw_intr ==
    LET s == CURRENT
        r == [request EXCEPT ![s].errors = @ + 1]
    IN IF r[s].errors < MAX_ERRORS
       THEN do_hd_request(queue, r, b_lock, {}, FALSE,
                          reset \/ r[s].errors > MAX_ERRORS \div 2)
       ELSE \E any \in BOOLEAN :
               LET next == Tail(queue)
                   many == IF next = <<>> THEN any
                           ELSE r[Head(next)].errors > MAX_ERRORS \div 2
               IN do_hd_request(next, request, b_lock, {s}, FALSE, reset \/ many)

\* Faulty: a request ends after its first sector.
Transferred_half ==
    LET s == CURRENT IN
    /\ moved' = [moved EXCEPT ![request[s].bh] = @ + 1]
    /\ do_hd_request(Tail(queue), request, b_lock, {s}, TRUE, reset)

\* read_intr and write_intr when the drive reports success.
Transferred ==
    LET s == CURRENT IN
    /\ moved' = [moved EXCEPT ![request[s].bh] = @ + 1]
    /\ IF request[s].nr_sectors > 1
       THEN /\ request' = [request EXCEPT ![s].nr_sectors = @ - 1,
                                          ![s].errors = IF do_hd = "READ" THEN 0 ELSE @]
            /\ UNCHANGED <<queue, b_lock, b_uptodate, pc, drive>>
       ELSE do_hd_request(Tail(queue), request, b_lock, {s}, TRUE, reset)

hd_interrupt ==
    /\ do_hd # "none"
    /\ \/ do_hd # "recal" /\ Transferred
       \/ /\ do_hd = "recal"
          /\ do_hd_request(queue, request, b_lock, {}, FALSE, reset)
          /\ UNCHANGED moved
       \/ bad_rw_intr /\ UNCHANGED moved
    /\ UNCHANGED rw

Next ==
    \/ hd_interrupt
    \/ \E b \in Buffers :
          \/ sleep_on(b) \/ make_request_repeat(b) \/ forget(b)
          \/ \E cmd \in {"READ", "WRITE"}, ahead \in BOOLEAN : make_request(b, cmd, ahead)

Spec == Init /\ [][Next]_vars

\* The drive answers every command.
FairSpec == Spec /\ WF_vars(hd_interrupt)

------------------------------------------------------------------------------
\* The list and the array agree: a request is in use exactly when it is in the
\* list, once; its buffer is locked, as INIT_REQUEST demands, and no two
\* requests are for one buffer.  The driver is busy exactly while the list has
\* a request: read_intr and write_intr use CURRENT unchecked.
ListSound ==
    /\ TypeOK
    /\ Range(queue) = {s \in Requests : request[s] # NoRequest}
    /\ \A m, n \in DOMAIN queue : request[queue[m]].bh = request[queue[n]].bh => m = n
    /\ \A s \in Range(queue) : b_lock[request[s].bh] /\ pc[request[s].bh] = "out"
    /\ (do_hd # "none") <=> (queue # <<>>)

\* Nobody loses the lock of a buffer: a locked buffer has a request in the list
\* or a task that is still looking for one.
LockedForReason ==
    \A b \in Buffers : b_lock[b] <=> (pc[b] # "out" \/ \E s \in Range(queue) : request[s].bh = b)

\* A buffer is up to date only after both its sectors were transferred,
\* whatever errors, retries and resets came in between.
WholeBlock == \A b \in Buffers : ~b_lock[b] /\ b_uptodate[b] => moved[b] = 2

\* The driver's list, the locks and the buffers agree after every interrupt.
RequestsSound == ListSound /\ LockedForReason /\ WholeBlock

\* The request in progress ends, after MAX_ERRORS errors at the latest: as long as
\* there are requests, the first one is replaced again and again.
CurrentEnds ==
    \/ []<>(queue = <<>>)
    \/ []<><<queue # <<>> /\ (queue' = <<>> \/ Head(queue') # Head(queue))>>_queue
==============================================================================
