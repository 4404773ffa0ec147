--------------------------------- MODULE Pipe ---------------------------------
(***************************************************************************)
(* A pipe: the ring buffer of one page, the reference counts of its two    *)
(* open files and of its inode, and the processes that share them.         *)
(*                                                                         *)
(* Readers and writers sleep on the same queue i_wait.  A system call runs *)
(* without preemption from one sleep to the next, except that copying to   *)
(* or from user memory may fault and sleep while the page is loaded.  Then *)
(* the copy of every byte is a step of its own, and it comes after the     *)
(* pointer has been moved, as in the code.                                 *)
(*                                                                         *)
(* The kernel never looks at the bytes, so the n-th byte written to the    *)
(* pipe is the number n.                                                   *)
(***************************************************************************)
EXTENDS Naturals, FiniteSets, FiniteSetsExt

CONSTANTS Procs,      \* the processes that may come to share the pipe
          Creator,    \* the one that calls sys_pipe
          PAGE_SIZE,  \* slots in the ring, a power of two
          NoProc,     \* no process
          Counts,     \* bound: the counts read and write are called with
          MaxBytes    \* bound: no write starts that would pass this many bytes

ASSUME PipeAssumption ==
    /\ IsFiniteSet(Procs)
    /\ Creator \in Procs /\ NoProc \notin Procs
    /\ PAGE_SIZE \in Nat /\ PAGE_SIZE > 1
    /\ Counts \subseteq Nat \ {0} /\ MaxBytes \in Nat

VARIABLES head, tail,     \* PIPE_HEAD and PIPE_TAIL
          page,           \* the bytes in the ring
          i_count,        \* references to the inode from open files
          f_count,        \* references to the two files from descriptors
          filp,           \* the ends a process holds a descriptor for
          cpu,            \* the process that is running inside a pipe call
          asleep,         \* the processes asleep on i_wait
          pc,             \* where a process is
          left,           \* count: bytes still to be transferred
          pend,           \* the slots still to be copied, and the byte for each
          sent, received, \* history: bytes accepted from and given to callers
          faulted         \* history: some copy has faulted

ring == <<head, tail, page>>
refs == <<i_count, f_count, filp>>
call == <<pc, left, pend>>
hist == <<sent, received, faulted>>
vars == <<ring, refs, cpu, asleep, call, hist>>

Ends  == {"r", "w"}
Slots == 0 .. PAGE_SIZE - 1

TypeOK ==
    /\ head \in Slots /\ tail \in Slots
    /\ page \in [Slots -> Nat]
    /\ i_count \in 0 .. 2
    /\ f_count \in [Ends -> Nat]
    /\ filp \in [Procs -> SUBSET Ends]
    /\ cpu \in Procs \cup {NoProc}
    /\ asleep \subseteq Procs
    /\ pc \in [Procs -> {"unborn", "user", "read", "write", "copy_out", "copy_in"}]
    /\ left \in [Procs -> Nat]
    /\ pend \in [Procs -> [from : Nat, chars : Nat, byte : Nat]]
    /\ sent \in Nat /\ received \in Nat /\ faulted \in BOOLEAN

NoCopy == [from |-> 0, chars |-> 0, byte |-> 0]

\* The state sys_pipe leaves behind, with get_pipe_inode.
Init ==
    /\ head = 0 /\ tail = 0
    /\ page = [s \in Slots |-> 0]
    /\ i_count = 2
    /\ f_count = [e \in Ends |-> 1]
    /\ filp = [p \in Procs |-> IF p = Creator THEN Ends ELSE {}]
    /\ cpu = NoProc
    /\ asleep = {}
    /\ pc = [p \in Procs |-> IF p = Creator THEN "user" ELSE "unborn"]
    /\ left = [p \in Procs |-> 0]
    /\ pend = [p \in Procs |-> NoCopy]
    /\ sent = 0 /\ received = 0 /\ faulted = FALSE

------------------------------------------------------------------------------
\* (PIPE_HEAD - PIPE_TAIL) & (PAGE_SIZE - 1)
PIPE_SIZE == IF tail <= head THEN head - tail ELSE head + PAGE_SIZE - tail

\* A pointer after an increment of at most PAGE_SIZE - pointer, masked.
Masked(n) == IF n = PAGE_SIZE THEN 0 ELSE n

\* Faulty: the third test is missing.
Chars_beyond_size(p, pointer, size) == Min({PAGE_SIZE - pointer, left[p]})

\* The bytes one turn of the loop moves: up to the end of the page.
Chars(p, pointer, size) == Min({PAGE_SIZE - pointer, left[p], size})

\* The rest of a chunk once its first byte is copied.
NextByte(c) ==
    IF c.chars = 1 THEN NoCopy
    ELSE [from |-> c.from + 1, chars |-> c.chars - 1, byte |-> c.byte + 1]

\* The kernel is not preempted: p runs when it is awake and nobody else is in
\* the middle of a call.
Runs(p) == p \notin asleep /\ cpu \in {NoProc, p}

\* wake_up(&inode->i_wait): everybody asleep runs again (module WaitSet).
wake_up == asleep' = {}

Return(p) ==
    /\ pc' = [pc EXCEPT ![p] = "user"]
    /\ left' = [left EXCEPT ![p] = 0]
    /\ cpu' = NoProc
    /\ UNCHANGED pend

\* sys_read and sys_write on a descriptor of the pipe.
sys_read(p) ==
    /\ Runs(p) /\ pc[p] = "user" /\ "r" \in filp[p]
    /\ \E count \in Counts : left' = [left EXCEPT ![p] = count]
    /\ pc' = [pc EXCEPT ![p] = "read"]
    /\ cpu' = p
    /\ UNCHANGED <<ring, refs, asleep, pend, hist>>

sys_write(p) ==
    /\ Runs(p) /\ pc[p] = "user" /\ "w" \in filp[p]
    /\ \E count \in Counts :
          /\ sent + count <= MaxBytes
          /\ left' = [left EXCEPT ![p] = count]
    /\ pc' = [pc EXCEPT ![p] = "write"]
    /\ cpu' = p
    /\ UNCHANGED <<ring, refs, asleep, pend, hist>>

\* The pipe is empty: wake the writers, then give up or sleep.
read_pipe_empty(p) ==
    /\ pc[p] = "read" /\ Runs(p) /\ left[p] > 0 /\ PIPE_SIZE = 0
    /\ IF i_count # 2
       THEN wake_up /\ Return(p)
       ELSE asleep' = {p} /\ cpu' = NoProc /\ UNCHANGED call
    /\ UNCHANGED <<ring, refs, hist>>

read_pipe_chunk(p) ==
    /\ pc[p] = "read" /\ Runs(p) /\ left[p] > 0 /\ PIPE_SIZE # 0
    /\ LET chars == Chars(p, tail, PIPE_SIZE) IN
          /\ left' = [left EXCEPT ![p] = @ - chars]
          /\ tail' = Masked(tail + chars)
          /\ received' = received + chars
          /\ \/ cpu' = p /\ UNCHANGED <<pc, pend, faulted>>
             \/ /\ cpu' = NoProc /\ faulted' = TRUE
                /\ pc' = [pc EXCEPT ![p] = "copy_out"]
                /\ pend' = [pend EXCEPT ![p] = [from |-> tail, chars |-> chars,
                                                byte |-> received]]
    /\ UNCHANGED <<head, page, refs, asleep, sent>>

\* Faulty: writers are not woken.
read_pipe_return_silent(p) ==
    /\ pc[p] = "read" /\ Runs(p) /\ left[p] = 0
    /\ Return(p)
    /\ UNCHANGED <<ring, refs, asleep, hist>>

read_pipe_return(p) ==
    /\ pc[p] = "read" /\ Runs(p) /\ left[p] = 0
    /\ wake_up
    /\ Return(p)
    /\ UNCHANGED <<ring, refs, hist>>

\* put_fs_byte of the next byte of the chunk.
put_fs_byte(p) ==
    /\ pc[p] = "copy_out" /\ Runs(p)
    /\ pend' = [pend EXCEPT ![p] = NextByte(@)]
    /\ pc' = [pc EXCEPT ![p] = IF pend[p].chars = 1 THEN "read" ELSE @]
    /\ UNCHANGED <<ring, refs, cpu, asleep, left, hist>>

\* The pipe is full: wake the readers, then SIGPIPE or sleep.
write_pipe_full(p) ==
    /\ pc[p] = "write" /\ Runs(p) /\ left[p] > 0 /\ PIPE_SIZE = PAGE_SIZE - 1
    /\ IF i_count # 2
       THEN wake_up /\ Return(p)
       ELSE asleep' = {p} /\ cpu' = NoProc /\ UNCHANGED call
    /\ UNCHANGED <<ring, refs, hist>>

write_pipe_chunk(p) ==
    /\ pc[p] = "write" /\ Runs(p) /\ left[p] > 0 /\ PIPE_SIZE # PAGE_SIZE - 1
    /\ LET chars == Chars(p, head, PAGE_SIZE - 1 - PIPE_SIZE) IN
          /\ left' = [left EXCEPT ![p] = @ - chars]
          /\ head' = Masked(head + chars)
          /\ sent' = sent + chars
          /\ \/ /\ page' = [s \in Slots |-> IF s \in head .. head + chars - 1
                                            THEN sent + (s - head) ELSE page[s]]
                /\ cpu' = p
                /\ UNCHANGED <<pc, pend, faulted>>
             \/ /\ cpu' = NoProc /\ faulted' = TRUE
                /\ pc' = [pc EXCEPT ![p] = "copy_in"]
                /\ pend' = [pend EXCEPT ![p] = [from |-> head, chars |-> chars,
                                                byte |-> sent]]
                /\ UNCHANGED page
    /\ UNCHANGED <<tail, refs, asleep, received>>

\* get_fs_byte of the next byte of the chunk, stored into the ring.
get_fs_byte(p) ==
    /\ pc[p] = "copy_in" /\ Runs(p)
    /\ page' = [page EXCEPT ![pend[p].from] = pend[p].byte]
    /\ pend' = [pend EXCEPT ![p] = NextByte(@)]
    /\ pc' = [pc EXCEPT ![p] = IF pend[p].chars = 1 THEN "write" ELSE @]
    /\ UNCHANGED <<head, tail, refs, cpu, asleep, left, hist>>

write_pipe_return(p) ==
    /\ pc[p] = "write" /\ Runs(p) /\ left[p] = 0
    /\ wake_up
    /\ Return(p)
    /\ UNCHANGED <<ring, refs, hist>>

\* Faulty: the child's descriptors are not counted.
copy_process_uncounted(p, q) ==
    /\ Runs(p) /\ pc[p] = "user" /\ pc[q] = "unborn"
    /\ pc' = [pc EXCEPT ![q] = "user"]
    /\ filp' = [filp EXCEPT ![q] = filp[p]]
    /\ UNCHANGED <<ring, i_count, f_count, cpu, asleep, left, pend, hist>>

\* fork: the child shares the open files of its parent.
copy_process(p, q) ==
    /\ Runs(p) /\ pc[p] = "user" /\ pc[q] = "unborn"
    /\ pc' = [pc EXCEPT ![q] = "user"]
    /\ filp' = [filp EXCEPT ![q] = filp[p]]
    /\ f_count' = [e \in Ends |-> IF e \in filp[p] THEN f_count[e] + 1 ELSE f_count[e]]
    /\ UNCHANGED <<ring, i_count, cpu, asleep, left, pend, hist>>

\* Faulty: iput does not wake the other end.
sys_close_silent(p, e) ==
    /\ Runs(p) /\ pc[p] = "user" /\ e \in filp[p]
    /\ filp' = [filp EXCEPT ![p] = @ \ {e}]
    /\ f_count' = [f_count EXCEPT ![e] = @ - 1]
    /\ i_count' = IF f_count[e] = 1 THEN i_count - 1 ELSE i_count
    /\ UNCHANGED <<ring, cpu, asleep, call, hist>>

\* sys_close; the last descriptor of a file drops its reference to the inode,
\* and iput wakes the other end before it lets go.
sys_close(p, e) ==
    /\ Runs(p) /\ pc[p] = "user" /\ e \in filp[p]
    /\ filp' = [filp EXCEPT ![p] = @ \ {e}]
    /\ f_count' = [f_count EXCEPT ![e] = @ - 1]
    /\ IF f_count[e] = 1
       THEN wake_up /\ i_count' = i_count - 1
       ELSE UNCHANGED <<asleep, i_count>>
    /\ UNCHANGED <<ring, cpu, call, hist>>

read_pipe(p) ==
    read_pipe_empty(p) \/ read_pipe_chunk(p) \/ put_fs_byte(p) \/ read_pipe_return(p)

write_pipe(p) ==
    write_pipe_full(p) \/ write_pipe_chunk(p) \/ get_fs_byte(p) \/ write_pipe_return(p)

Next ==
    \/ \E p \in Procs :
          \/ sys_read(p) \/ sys_write(p)
          \/ read_pipe(p) \/ write_pipe(p)
          \/ \E e \in Ends : sys_close(p, e)
    \/ \E p, q \in Procs : copy_process(p, q)

Spec == Init /\ [][Next]_vars

\* schedule() runs every process that stays runnable, whoever else takes the
\* processor in between; programs need not go on reading
\* or writing.
FairSpec ==
    /\ Spec
    /\ \A p \in Procs : SF_vars(read_pipe(p) \/ write_pipe(p))

------------------------------------------------------------------------------
\* The slot of the i-th unread byte.
SlotOf(i) == IF tail + i < PAGE_SIZE THEN tail + i ELSE tail + i - PAGE_SIZE

\* What readers find between the tail and the head is what writers put there,
\* in order, nothing lost, doubled or overwritten: read_pipe and write_pipe
\* move their pointers by the number of bytes they copy, through every wrap.
\* It needs every copy to be over before anybody else runs.
InOrder ==
    ~faulted =>
        /\ sent = received + PIPE_SIZE
        /\ \A i \in 0 .. PIPE_SIZE - 1 : page[SlotOf(i)] = received + i

Open(e) == IF f_count[e] > 0 THEN 1 ELSE 0

\* The counts sys_close relies on: f_count counts descriptors, i_count counts
\* open files, so "i_count != 2" means that the other end is closed.
CountsAgree ==
    /\ \A e \in Ends : f_count[e] = Cardinality({p \in Procs : e \in filp[p]})
    /\ i_count = Open("r") + Open("w")

\* Nobody sleeps in vain.  While a process sleeps both ends are open, and if it
\* could go on (a reader with bytes in the pipe, a writer with room) somebody
\* is inside a call that has not come to its wake_up yet.
NoSleepInVain ==
    \A p \in asleep :
        /\ i_count = 2
        /\ \/ pc[p] = "read" /\ PIPE_SIZE = 0
           \/ pc[p] = "write" /\ PIPE_SIZE = PAGE_SIZE - 1
           \/ \E q \in Procs \ asleep : pc[q] \notin {"user", "unborn"}

\* Once one end is closed, every read or write in progress returns: iput wakes
\* the sleepers, and they see i_count before they sleep again.
HangupReturns ==
    \A p \in Procs : (pc[p] \in {"read", "write"} /\ i_count # 2) ~> (pc[p] = "user")
==============================================================================
