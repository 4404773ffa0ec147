------------------------------ MODULE BufferCache ------------------------------
(***************************************************************************)
(* The buffer cache: getblk, bread, breada, brelse, sync_dev and sys_sync, *)
(* run by several tasks.  A task gives up the processor only where it      *)
(* sleeps, so an action is the code between two places where a task may    *)
(* sleep; going back to the label repeat of getblk is a step of its own.   *)
(* There is one device.  The driver behind ll_rw_block is its effect: it   *)
(* moves the data of a locked buffer at some moment and unlocks it later.  *)
(* The contents of a block are the number of times it was written.         *)
(***************************************************************************)
EXTENDS Naturals, FiniteSets

CONSTANTS Tasks,
          NR_BUFFERS,
          Blocks,      \* block numbers 1 .. n; 0 is no block
          MaxWrites,   \* bound on the writes to a block
          Calls,       \* what each task does, with which blocks
          Syncers,     \* the tasks that call sync
          Errors       \* commands the device may fail

ASSUME BufferCacheAssumption ==
    /\ NR_BUFFERS \in Nat \ {0}
    /\ IsFiniteSet(Blocks) /\ Blocks # {} /\ Blocks = 1 .. Cardinality(Blocks)
    /\ MaxWrites \in Nat
    /\ IsFiniteSet(Tasks)
    /\ Calls \in [Tasks -> SUBSET ({"read", "update", "overwrite", "ahead"} \X Blocks)]
    /\ Syncers \subseteq Tasks
    /\ Errors \subseteq {"READ", "WRITE"}

VARIABLES bh,      \* the buffer heads
          data,    \* what the buffers hold
          io,      \* the device's work on a buffer
          disk,
          latest,  \* history: the last contents written to a block
          blind,   \* history: blocks overwritten in a buffer never read in
          quiet,   \* history: breada gave up a buffer others wait for
          pc, op, want,
          mine,    \* the buffer a task has found, chosen or holds
          first,   \* breada's first buffer while it gets the next one
          scan     \* the position of sync_dev, which goes over the buffers twice

cache  == <<bh, data, io>>
caller == <<pc, op, want, mine, first, scan>>
past   == <<blind, quiet>>
vars   == <<cache, disk, latest, past, caller>>

Buffers == 1 .. NR_BUFFERS
Data    == 0 .. MaxWrites

\* Where a task holds a count on its buffer.
Holding == {"hash", "read", "use", "release"}

TypeOK ==
    /\ bh \in [Buffers -> [blocknr : Blocks \cup {0}, count : 0 .. 2 * Cardinality(Tasks),
                           dirt : BOOLEAN, uptodate : BOOLEAN, lock : BOOLEAN]]
    /\ data \in [Buffers -> Data] /\ disk \in [Blocks -> Data] /\ latest \in [Blocks -> Data]
    /\ io \in [Buffers -> {"none", "READ", "WRITE", "moved"}]
    /\ blind \subseteq Blocks /\ quiet \in BOOLEAN
    /\ pc \in [Tasks -> {"idle", "repeat", "full", "victim", "sync"} \cup Holding]
    /\ op \in [Tasks -> {"read", "update", "overwrite", "ahead"}]
    /\ want \in [Tasks -> Blocks]
    /\ mine \in [Tasks -> 0 .. NR_BUFFERS] /\ first \in [Tasks -> 0 .. NR_BUFFERS]
    /\ scan \in [Tasks -> 0 .. 2 * NR_BUFFERS]

\* buffer_init
Init ==
    /\ bh = [b \in Buffers |-> [blocknr |-> 0, count |-> 0, dirt |-> FALSE,
                                uptodate |-> FALSE, lock |-> FALSE]]
    /\ data = [b \in Buffers |-> 0] /\ io = [b \in Buffers |-> "none"]
    /\ disk = [k \in Blocks |-> 0] /\ latest = [k \in Blocks |-> 0]
    /\ blind = {} /\ quiet = FALSE
    /\ pc = [t \in Tasks |-> "idle"] /\ op = [t \in Tasks |-> "read"]
    /\ want = [t \in Tasks |-> 1]
    /\ mine = [t \in Tasks |-> 0] /\ first = [t \in Tasks |-> 0]
    /\ scan = [t \in Tasks |-> 0]

------------------------------------------------------------------------------
\* The block getblk is looking for: breada asks for the next one as well.
After(k)  == (k % Cardinality(Blocks)) + 1
Target(t) == IF first[t] = 0 THEN want[t] ELSE After(want[t])

find_buffer(k) == {b \in Buffers : bh[b].blocknr = k}

\* ll_rw_block on the buffer b of heads H, not locked: the lock is taken, and
\* kept for the device when there is something to transfer.
Needed(H, cmd, b) == IF cmd = "READ" THEN ~H[b].uptodate ELSE H[b].dirt

ll_rw_block(H, cmd, b) ==
    IF Needed(H, cmd, b) /\ ~H[b].lock
    THEN /\ bh' = [H EXCEPT ![b].lock = TRUE, ![b].dirt = FALSE]
         /\ io' = [io EXCEPT ![b] = cmd]
    ELSE bh' = H /\ UNCHANGED io

Goto(t, where) == pc' = [pc EXCEPT ![t] = where]

\* A task that is done has forgotten what it did.
Done(t) == op' = [op EXCEPT ![t] = "read"] /\ want' = [want EXCEPT ![t] = 1]

\* getblk returns buffer b, counted in H, to the caller t: bread starts the
\* read, block_write overwrites a whole block without one, breada starts it and
\* gets the next block, for which it then calls ll_rw_block(READA, bh) and
\* counts the buffer down again.
Got(t, b, H) ==
    /\ \/ /\ op[t] = "overwrite"
          /\ Goto(t, "use") /\ mine' = [mine EXCEPT ![t] = b]
          /\ bh' = H /\ UNCHANGED <<io, first, quiet>>
       \/ /\ op[t] \in {"read", "update"}
          /\ Goto(t, "read") /\ mine' = [mine EXCEPT ![t] = b]
          /\ ll_rw_block(H, "READ", b) /\ UNCHANGED <<first, quiet>>
       \/ /\ op[t] = "ahead" /\ first[t] = 0
          /\ Goto(t, "repeat") /\ first' = [first EXCEPT ![t] = b]
          /\ ll_rw_block(H, "READ", b) /\ UNCHANGED <<mine, quiet>>
       \/ /\ op[t] = "ahead" /\ first[t] # 0
          /\ Goto(t, "read") /\ mine' = [mine EXCEPT ![t] = first[t]]
          /\ first' = [first EXCEPT ![t] = 0]
          /\ LET D == [H EXCEPT ![b].count = @ - 1] IN
             IF H[b].uptodate THEN bh' = D /\ UNCHANGED io
             ELSE ll_rw_block(D, "READ", first[t])
          /\ quiet' = (quiet \/ \E u \in Tasks : pc[u] = "full")
    /\ UNCHANGED <<data, disk, latest, blind, op, want, scan>>

\* A step of t that changes only where t is and which buffer it looks at.
Move(t, where, b) ==
    /\ Goto(t, where) /\ mine' = [mine EXCEPT ![t] = b]
    /\ scan' = [scan EXCEPT ![t] = IF where = "sync" THEN 1 ELSE 0]
    /\ UNCHANGED <<cache, disk, latest, past, op, want, first>>

------------------------------------------------------------------------------
\* Faulty: the block is not looked up again after sleeping.
Claim_blindly(t, b) ==
    IF bh[b].count > 0 THEN Move(t, "repeat", 0)
    ELSE IF bh[b].dirt THEN Move(t, "sync", b)
    ELSE Got(t, b, [bh EXCEPT ![b] = [blocknr |-> Target(t), count |-> 1, dirt |-> FALSE,
                                      uptodate |-> FALSE, lock |-> FALSE]])

\* getblk after wait_on_buffer(b): b may have been taken, may be dirty, and the
\* block may have come into the cache.
Claim(t, b) ==
    IF bh[b].count > 0 THEN Move(t, "repeat", 0)
    ELSE IF bh[b].dirt THEN Move(t, "sync", b)
    ELSE IF find_buffer(Target(t)) # {} THEN Move(t, "repeat", 0)
    ELSE Got(t, b, [bh EXCEPT ![b] = [blocknr |-> Target(t), count |-> 1, dirt |-> FALSE,
                                      uptodate |-> FALSE, lock |-> FALSE]])

BADNESS(b) == (IF bh[b].dirt THEN 2 ELSE 0) + (IF bh[b].lock THEN 1 ELSE 0)

\* The unused buffers getblk may choose; their order in the free list, which
\* decides between equally good ones, is left open.
Unused == {b \in Buffers : bh[b].count = 0}
Best   == {b \in Unused : \A c \in Unused : BADNESS(b) <= BADNESS(c)}

getblk(t) ==
    /\ pc[t] = "repeat"
    /\ \/ \E b \in find_buffer(Target(t)) :
             LET H == [bh EXCEPT ![b].count = @ + 1] IN
             IF bh[b].lock
             THEN /\ bh' = H
                  /\ Goto(t, "hash") /\ mine' = [mine EXCEPT ![t] = b]
                  /\ UNCHANGED <<data, io, disk, latest, past, op, want, first, scan>>
             ELSE Got(t, b, H)
       \/ /\ find_buffer(Target(t)) = {}
          /\ \/ Unused = {} /\ Move(t, "full", 0)
             \/ \E b \in Best : IF bh[b].lock THEN Move(t, "victim", b) ELSE Claim(t, b)

\* get_hash_table after wait_on_buffer.
get_hash_table_return(t) ==
    /\ pc[t] = "hash" /\ ~bh[mine[t]].lock
    /\ LET b == mine[t] IN
       IF bh[b].blocknr = Target(t) THEN Got(t, b, bh)
       ELSE /\ bh' = [bh EXCEPT ![b].count = @ - 1]
            /\ Goto(t, "repeat") /\ mine' = [mine EXCEPT ![t] = 0]
            /\ UNCHANGED <<data, io, disk, latest, past, op, want, first, scan>>

getblk_wait_on_buffer(t) ==
    /\ pc[t] = "victim" /\ ~bh[mine[t]].lock
    /\ Claim(t, mine[t])

\* One round of the loops of sync_dev, for getblk's while (bh->b_dirt), and of
\* sys_sync, which goes over the buffers once.
sync_dev(t) ==
    LET b == ((scan[t] - 1) % NR_BUFFERS) + 1 IN
    /\ pc[t] = "sync" /\ ~bh[b].lock
    /\ ll_rw_block(bh, "WRITE", b)
    /\ IF scan[t] < 2 * NR_BUFFERS
       THEN scan' = [scan EXCEPT ![t] = @ + 1] /\ UNCHANGED pc
       ELSE /\ scan' = [scan EXCEPT ![t] = 0]
            /\ Goto(t, IF mine[t] = 0 THEN "idle" ELSE "victim")
    /\ UNCHANGED <<data, disk, latest, past, op, want, mine, first>>

sys_sync(t) ==
    /\ pc[t] = "idle" /\ t \in Syncers
    /\ Goto(t, "sync") /\ scan' = [scan EXCEPT ![t] = NR_BUFFERS + 1]
    /\ UNCHANGED <<cache, disk, latest, past, op, want, mine, first>>

------------------------------------------------------------------------------
\* A task calls bread, breada or getblk.
call(t, o, k) ==
    /\ pc[t] = "idle"
    /\ op' = [op EXCEPT ![t] = o] /\ want' = [want EXCEPT ![t] = k]
    /\ Goto(t, "repeat")
    /\ UNCHANGED <<cache, disk, latest, past, mine, first, scan>>

\* Faulty: an error of the read goes unnoticed.
bread_return_unchecked(t) ==
    /\ pc[t] = "read" /\ ~bh[mine[t]].lock
    /\ Move(t, "use", mine[t])

\* bread and breada after wait_on_buffer.
bread_return(t) ==
    /\ pc[t] = "read" /\ ~bh[mine[t]].lock
    /\ Move(t, IF bh[mine[t]].uptodate THEN "use" ELSE "release", mine[t])

\* Faulty: the buffer is not marked dirty.
change_unmarked(t) ==
    LET k == want[t] IN
    /\ pc[t] = "use" /\ op[t] \in {"update", "overwrite"} /\ latest[k] < MaxWrites
    /\ latest' = [latest EXCEPT ![k] = @ + 1]
    /\ data' = [data EXCEPT ![mine[t]] = latest[k] + 1]
    /\ Goto(t, "release")
    /\ UNCHANGED <<bh, io, disk, past, op, want, mine, first, scan>>

\* The caller changes the data and marks the buffer dirty.
change(t) ==
    LET k == want[t] IN
    /\ pc[t] = "use" /\ op[t] \in {"update", "overwrite"} /\ latest[k] < MaxWrites
    /\ latest' = [latest EXCEPT ![k] = @ + 1]
    /\ data' = [data EXCEPT ![mine[t]] = latest[k] + 1]
    /\ bh' = [bh EXCEPT ![mine[t]].dirt = TRUE]
    /\ blind' = IF bh[mine[t]].uptodate THEN blind ELSE blind \cup {k}
    /\ Goto(t, "release")
    /\ UNCHANGED <<io, disk, quiet, op, want, mine, first, scan>>

\* When a caller is done with its buffer; at the bound on writes it only looks
\* at the data.
Finished(t) ==
    \/ pc[t] = "release"
    \/ pc[t] = "use" /\ (op[t] \in {"read", "ahead"} \/ latest[want[t]] = MaxWrites)

\* Faulty: nobody who waits for a free buffer is told.
brelse_silent(t) ==
    /\ Finished(t) /\ ~bh[mine[t]].lock
    /\ bh' = [bh EXCEPT ![mine[t]].count = @ - 1]
    /\ Goto(t, "idle")
    /\ mine' = [mine EXCEPT ![t] = 0] /\ Done(t)
    /\ UNCHANGED <<data, io, disk, latest, past, first, scan>>

brelse(t) ==
    /\ Finished(t) /\ ~bh[mine[t]].lock
    /\ bh' = [bh EXCEPT ![mine[t]].count = @ - 1]
    /\ pc' = [u \in Tasks |-> IF u = t THEN "idle"
                              ELSE IF pc[u] = "full" THEN "repeat" ELSE pc[u]]
    /\ quiet' = FALSE
    /\ mine' = [mine EXCEPT ![t] = 0] /\ Done(t)
    /\ UNCHANGED <<data, io, disk, latest, blind, first, scan>>

------------------------------------------------------------------------------
\* The device moves the data of a buffer ...
transfer(b) ==
    LET k == bh[b].blocknr IN
    /\ io[b] \in {"READ", "WRITE"}
    /\ io' = [io EXCEPT ![b] = "moved"]
    /\ IF io[b] = "READ"
       THEN data' = [data EXCEPT ![b] = disk[k]] /\ UNCHANGED disk
       ELSE disk' = [disk EXCEPT ![k] = data[b]] /\ UNCHANGED data
    /\ UNCHANGED <<bh, latest, past, caller>>

\* ... and its interrupt handler ends the request, perhaps with an error.
end_request(b) ==
    /\ io[b] = "moved" \/ io[b] \in Errors
    /\ io' = [io EXCEPT ![b] = "none"]
    /\ bh' = [bh EXCEPT ![b].uptodate = (io[b] = "moved"), ![b].lock = FALSE]
    /\ UNCHANGED <<data, disk, latest, past, caller>>

Next ==
    \/ \E b \in Buffers : transfer(b) \/ end_request(b)
    \/ \E t \in Tasks :
          \/ getblk(t) \/ get_hash_table_return(t) \/ getblk_wait_on_buffer(t)
          \/ sync_dev(t) \/ sys_sync(t) \/ bread_return(t) \/ change(t) \/ brelse(t)
          \/ \E o \in Calls[t] : call(t, o[1], o[2])

Spec == Init /\ [][Next]_vars

------------------------------------------------------------------------------
\* There is one buffer for a block, "the only one of it's kind", however many
\* tasks look for it while others sleep, and it keeps its block while a task
\* holds it, asleep or not.
OnePerBlock ==
    /\ \A b, c \in Buffers : bh[b].blocknr # 0 /\ bh[b].blocknr = bh[c].blocknr => b = c
    /\ \A t \in Tasks :
          /\ pc[t] = "hash" => bh[mine[t]].blocknr = Target(t)
          /\ pc[t] \in {"read", "use", "release"} => bh[mine[t]].blocknr = want[t]

\* The count of a buffer is the number of tasks that hold it, so brelse never
\* meets "Trying to free free buffer".
CountsHeld ==
    /\ TypeOK
    /\ \A b \in Buffers :
          bh[b].count = Cardinality({t \in Tasks : pc[t] \in Holding /\ mine[t] = b})
                        + Cardinality({t \in Tasks : first[t] = b})

\* bread "reads a specified block and returns the buffer that contains it": the
\* caller sees what was last written to the block, by whichever task.
ReadsLatest ==
    \A t \in Tasks : pc[t] = "use" /\ op[t] # "overwrite" => data[mine[t]] = latest[want[t]]

\* ... unless block_write overwrote the block in a buffer it had not read in,
\* which it does not mark up to date.
ReadsLatestUnlessBlind ==
    \A t \in Tasks :
        pc[t] = "use" /\ op[t] # "overwrite" /\ want[t] \notin blind
            => data[mine[t]] = latest[want[t]]

\* No write is lost while the device works: the last contents of a block are on
\* the disk, or in a buffer that is dirty or being written.
NothingLost ==
    \A k \in Blocks \ blind :
        \/ disk[k] = latest[k]
        \/ \E b \in find_buffer(k) :
              data[b] = latest[k] /\ (bh[b].dirt \/ io[b] = "WRITE")

\* A task waits for a free buffer only while there is none; breada alone gives
\* up a buffer without waking anybody.
WaitsOnlyWhenFull == quiet \/ \A t \in Tasks : pc[t] = "full" => Unused = {}

\* The table of buffers is sound: a block has one buffer, its count is that of
\* its users, and getblk sleeps only when all are in use.
CacheSound == OnePerBlock /\ CountsHeld /\ WaitsOnlyWhenFull

\* What was written is kept, on the disk or in a buffer, and is what bread gives.
DataKept == ReadsLatestUnlessBlind /\ NothingLost
==============================================================================
