------------------------------- MODULE FileData -------------------------------
(***************************************************************************)
(* The blocks of regular files: the bitmap of free blocks, the pointers of *)
(* an inode with its indirect and double indirect blocks, and what         *)
(* file_write, file_read, lseek and truncate do with them.  A task gives   *)
(* up the processor where bread, getblk or get_hash_table may sleep.  A    *)
(* byte is 0 or 1; 1 is a byte that some task has written.                 *)
(***************************************************************************)
EXTENDS Naturals, Sequences, FiniteSets, SequencesExt

CONSTANTS Tasks, Files,
          NDIRECT,     \* direct pointers of an inode (7)
          NIND,        \* pointers in a block (512)
          BLOCK_SIZE,
          s_nzones,    \* data blocks of the device
          Seeks,       \* positions a task seeks to
          Appenders,   \* tasks whose file is open with O_APPEND
          Counts,      \* bytes a task reads or writes in one call
          MaxCalls

VARIABLES s_zmap,      \* blocks whose bit is set
          i_zone, i_size,
          ind,         \* the contents of a block read as pointers
          data,        \* and as bytes
          bytes,       \* history: the files as their writers know them
          f_inode, f_pos,   \* each task's open file
          overlap,     \* history: calls on one file got in each other's way
          calls,
          call         \* what each task is doing

vars == <<s_zmap, i_zone, i_size, ind, data, bytes, f_inode, f_pos,
          overlap, calls, call>>
disk == <<s_zmap, i_zone, ind, data>>

Zones  == 1 .. s_nzones
Slots  == 0 .. NDIRECT + 1
NoPtrs == [k \in 0 .. NIND - 1 |-> 0]
NoData == [k \in 0 .. BLOCK_SIZE - 1 |-> 0]
Idle   == [pc |-> "idle", op |-> "none", left |-> 0, pos |-> 0, level |-> 1, from |-> 0,
           blk |-> 0, todo |-> <<>>]

Init ==
    /\ s_zmap = {}
    /\ i_zone = [f \in Files |-> [k \in Slots |-> 0]] /\ i_size = [f \in Files |-> 0]
    /\ ind = [b \in Zones |-> NoPtrs] /\ data = [b \in Zones |-> NoData]
    /\ bytes = [f \in Files |-> <<>>]
    /\ f_inode \in [Tasks -> Files]
    /\ f_pos = [t \in Tasks |-> 0]
    /\ overlap = FALSE /\ calls = 0
    /\ call = [t \in Tasks |-> Idle]

\* Once two calls have damaged a file nothing is claimed, and the model ends.
At(t, where) == call[t].pc = where /\ ~overlap

File(t) == f_inode[t]

------------------------------------------------------------------------------
\* Faulty: the first double indirect block is taken for the last indirect one.
Path_short(n) ==
    IF n < NDIRECT THEN <<n>>
    ELSE IF n <= NDIRECT + NIND THEN <<NDIRECT, (n - NDIRECT) % NIND>>
    ELSE <<NDIRECT + 1, (n - NDIRECT - NIND) \div NIND, (n - NDIRECT - NIND) % NIND>>

\* _bmap: the pointers that lead to block n of a file.
Path(n) ==
    IF n < NDIRECT THEN <<n>>
    ELSE IF n < NDIRECT + NIND THEN <<NDIRECT, n - NDIRECT>>
    ELSE <<NDIRECT + 1, (n - NDIRECT - NIND) \div NIND, (n - NDIRECT - NIND) % NIND>>

MaxBlocks == NDIRECT + NIND + NIND * NIND

\* The pointer k of block b, or of the inode of f when b = 0.
Pointer(f, b, k) == IF b = 0 THEN i_zone[f][k] ELSE ind[b][k]

\* bmap: the block that holds block n of f; 0 is a hole.
bmap(f, n) == FoldLeft(LAMBDA b, k : IF b = 0 THEN 0 ELSE ind[b][k],
                       i_zone[f][Path(n)[1]], Tail(Path(n)))

Zeros == Zones \ s_zmap

\* new_block to the sleep in getblk: find_first_zero and set_bit.
new_block(t) ==
    LET j == CHOOSE b \in Zeros : \A c \in Zeros : b <= c IN
    /\ s_zmap' = s_zmap \cup {j}
    /\ call' = [call EXCEPT ![t].pc = "new", ![t].blk = j]

Return(t) == call' = [call EXCEPT ![t] = Idle]

\* file_write ends: the position is kept unless the file was opened to append.
WriteReturn(t, pos) ==
    /\ f_pos' = IF t \in Appenders THEN f_pos ELSE [f_pos EXCEPT ![t] = pos]
    /\ Return(t)

\* _bmap at one of its pointers: a block in use is read next, a missing one is
\* created for file_write and is a hole for file_read.
bmap_step(t) ==
    /\ At(t, "bmap")
    /\ LET c == call[t]
           p == Path(c.pos \div BLOCK_SIZE)
           b == Pointer(File(t), c.from, p[c.level]) IN
       \/ /\ b # 0
          /\ call' = [call EXCEPT ![t] =
                 IF c.level < Len(p) THEN [c EXCEPT !.level = @ + 1, !.from = b]
                 ELSE [c EXCEPT !.pc = "copy", !.blk = b]]
          /\ UNCHANGED <<disk, f_pos>>
       \/ /\ b = 0 /\ c.op = "write"
          /\ IF Zeros = {} THEN WriteReturn(t, c.pos) /\ UNCHANGED disk
             ELSE new_block(t) /\ UNCHANGED <<i_zone, ind, data, f_pos>>
       \/ /\ b = 0 /\ c.op = "read"
          /\ call' = [call EXCEPT ![t] = [c EXCEPT !.pc = "copy", !.blk = 0]]
          /\ UNCHANGED <<disk, f_pos>>
    /\ UNCHANGED <<i_size, bytes, f_inode, overlap, calls>>

\* clear_block, which new_block does in the buffer it got.
clear_block(b) == data' = [data EXCEPT ![b] = NoData]

\* new_block when getblk has returned, and _bmap, which stores the number; by
\* then another call may have stored one.
bmap_new(t) ==
    /\ At(t, "new")
    /\ LET c == call[t]
           k == Path(c.pos \div BLOCK_SIZE)[c.level]
           cleared == [ind EXCEPT ![c.blk] = NoPtrs] IN
       /\ clear_block(c.blk)
       /\ overlap' = (Pointer(File(t), c.from, k) # 0)
       /\ IF c.from = 0
          THEN i_zone' = [i_zone EXCEPT ![File(t)][k] = c.blk] /\ ind' = cleared
          ELSE ind' = [cleared EXCEPT ![c.from][k] = c.blk] /\ UNCHANGED i_zone
       /\ call' = [call EXCEPT ![t] =
              IF c.level < Len(Path(c.pos \div BLOCK_SIZE))
              THEN [c EXCEPT !.pc = "bmap", !.level = @ + 1, !.from = c.blk, !.blk = 0]
              ELSE [c EXCEPT !.pc = "copy"]]
    /\ UNCHANGED <<s_zmap, i_size, bytes, f_inode, f_pos, calls>>

------------------------------------------------------------------------------
\* Some call on f is under way, that of t apart.
Busy(t, f, ops) == \E u \in Tasks \ {t} : File(u) = f /\ call[u].op \in ops

Begin(t, ops) ==
    /\ At(t, "idle") /\ calls < MaxCalls
    /\ calls' = calls + 1
    /\ overlap' = Busy(t, File(t), ops)

\* sys_write of n bytes, to the first pointer of file_write.
sys_write(t, n) ==
    LET pos == IF t \in Appenders THEN i_size[File(t)] ELSE f_pos[t] IN
    /\ Begin(t, {"truncate"})
    /\ pos + n <= MaxBlocks * BLOCK_SIZE
    /\ call' = [call EXCEPT ![t] = [Idle EXCEPT !.pc = "bmap", !.op = "write",
                                                !.left = n, !.pos = pos]]
    /\ UNCHANGED <<disk, i_size, bytes, f_inode, f_pos>>

\* sys_read: what may be read before the end of the file.
Readable(t, n) ==
    LET size == i_size[File(t)] IN
    IF n + f_pos[t] <= size THEN n ELSE IF f_pos[t] < size THEN size - f_pos[t] ELSE 0

sys_read(t, n) ==
    /\ Begin(t, {"truncate"})
    /\ Readable(t, n) > 0
    /\ call' = [call EXCEPT ![t] = [Idle EXCEPT !.pc = "bmap", !.op = "read",
                                    !.left = Readable(t, n), !.pos = f_pos[t]]]
    /\ UNCHANGED <<disk, i_size, bytes, f_inode, f_pos>>

Min2(a, b) == IF a <= b THEN a ELSE b

\* The next block of the call, or its end.
NextBlock(t, c, n) ==
    IF c.left = n THEN Idle
    ELSE [Idle EXCEPT !.pc = "bmap", !.op = c.op, !.left = c.left - n, !.pos = c.pos + n]

\* file_write: the file grows when the write goes beyond its end.
NewSize(f, end) == IF end > i_size[f] THEN end ELSE i_size[f]

\* The bytes of f after n bytes were written at pos.
Written(f, pos, n) ==
    [k \in 1 .. (IF pos + n > Len(bytes[f]) THEN pos + n ELSE Len(bytes[f])) |->
        IF k > pos /\ k <= pos + n THEN 1 ELSE IF k <= Len(bytes[f]) THEN bytes[f][k] ELSE 0]

\* file_write when bread has returned: one block of bytes.
file_write(t) ==
    /\ At(t, "copy") /\ call[t].op = "write"
    /\ LET c == call[t]
           at == c.pos % BLOCK_SIZE
           n == Min2(BLOCK_SIZE - at, c.left) IN
       /\ data' = [data EXCEPT ![c.blk] =
              [k \in 0 .. BLOCK_SIZE - 1 |-> IF k >= at /\ k < at + n THEN 1 ELSE @[k]]]
       /\ i_size' = [i_size EXCEPT ![File(t)] = NewSize(File(t), c.pos + n)]
       /\ bytes' = [bytes EXCEPT ![File(t)] = Written(File(t), c.pos, n)]
       /\ IF c.left = n THEN WriteReturn(t, c.pos + n)
          ELSE call' = [call EXCEPT ![t] = NextBlock(t, c, n)] /\ UNCHANGED f_pos
    /\ UNCHANGED <<s_zmap, i_zone, ind, f_inode, overlap, calls>>

\* file_read when bread has returned.
file_read(t) ==
    /\ At(t, "copy") /\ call[t].op = "read"
    /\ LET c == call[t]
           n == Min2(BLOCK_SIZE - (c.pos % BLOCK_SIZE), c.left) IN
       /\ f_pos' = [f_pos EXCEPT ![t] = c.pos + n]
       /\ call' = [call EXCEPT ![t] = NextBlock(t, c, n)]
    /\ UNCHANGED <<disk, i_size, bytes, f_inode, overlap, calls>>

\* sys_lseek to a position from the start, from here or from the end.
sys_lseek(t, offset, origin) ==
    LET pos == CASE origin = 0 -> offset
                 [] origin = 1 -> f_pos[t] + offset
                 [] OTHER      -> i_size[File(t)] + offset IN
    /\ At(t, "idle") /\ calls < MaxCalls
    /\ pos < MaxBlocks * BLOCK_SIZE /\ pos # f_pos[t]
    /\ f_pos' = [f_pos EXCEPT ![t] = pos] /\ calls' = calls + 1
    /\ UNCHANGED <<disk, i_size, bytes, f_inode, overlap, call>>

------------------------------------------------------------------------------
\* free_ind: the blocks an indirect block leads to, and itself.
free_ind(b) ==
    IF b = 0 THEN <<>>
    ELSE SelectSeq([k \in 1 .. NIND |-> ind[b][k - 1]], LAMBDA p : p # 0) \o <<b>>

\* free_dind: the same, one level up.
free_dind(b) ==
    IF b = 0 THEN <<>>
    ELSE FlattenSeq([k \in 1 .. NIND |-> free_ind(ind[b][k - 1])]) \o <<b>>

\* Faulty: the indirect block is freed before what it leads to is looked up.
Doomed_shallow(f) ==
    SelectSeq([k \in 1 .. NDIRECT |-> i_zone[f][k - 1]], LAMBDA p : p # 0)
    \o free_ind(i_zone[f][NDIRECT]) \o free_ind(i_zone[f][NDIRECT + 1])

\* truncate: the blocks of a file in the order in which they are freed.
Doomed(f) ==
    SelectSeq([k \in 1 .. NDIRECT |-> i_zone[f][k - 1]], LAMBDA p : p # 0)
    \o free_ind(i_zone[f][NDIRECT]) \o free_dind(i_zone[f][NDIRECT + 1])

\* truncate for open with O_TRUNC, to the first sleep in free_block.
truncate(t) ==
    /\ Begin(t, {"read", "write", "truncate"})
    /\ i_size[File(t)] > 0
    /\ call' = [call EXCEPT ![t] = [Idle EXCEPT !.pc = "free", !.op = "truncate",
                                                !.todo = Doomed(File(t))]]
    /\ UNCHANGED <<disk, i_size, bytes, f_inode, f_pos>>

\* free_block when get_hash_table has returned: the bit is cleared and a direct
\* pointer reset; the last block ends truncate.
free_block(t) ==
    /\ At(t, "free")
    /\ LET f == File(t)
           todo == call[t].todo IN
       IF todo = <<>>
       THEN /\ i_zone' = [i_zone EXCEPT ![f][NDIRECT] = 0, ![f][NDIRECT + 1] = 0]
            /\ i_size' = [i_size EXCEPT ![f] = 0] /\ bytes' = [bytes EXCEPT ![f] = <<>>]
            /\ Return(t) /\ UNCHANGED s_zmap
       ELSE /\ s_zmap' = s_zmap \ {Head(todo)}
            /\ i_zone' = [i_zone EXCEPT ![f] = [k \in Slots |->
                  IF k < NDIRECT /\ @[k] = Head(todo) THEN 0 ELSE @[k]]]
            /\ call' = [call EXCEPT ![t].todo = Tail(@)]
            /\ UNCHANGED <<i_size, bytes>>
    /\ UNCHANGED <<ind, data, f_inode, f_pos, overlap, calls>>

Next ==
    \E t \in Tasks :
       \/ \E n \in Counts : sys_write(t, n) \/ sys_read(t, n)
       \/ \E offset \in Seeks, origin \in 0 .. 2 : sys_lseek(t, offset, origin)
       \/ bmap_step(t) \/ bmap_new(t) \/ file_write(t) \/ file_read(t)
       \/ truncate(t) \/ free_block(t)

Spec == Init /\ [][Next]_vars
------------------------------------------------------------------------------
Truncating(f) == \E t \in Tasks : File(t) = f /\ call[t].op = "truncate"
Whole == {f \in Files : ~Truncating(f)}

\* The blocks of pointers of f.
Tables(f) ==
    LET dind == i_zone[f][NDIRECT + 1] IN
    ({i_zone[f][NDIRECT], dind} \cup (IF dind = 0 THEN {} ELSE {ind[dind][j] : j \in DOMAIN ind[dind]}))
    \ {0}

\* All pointers that lead to block b.
References(b) ==
    {<<f, k>> \in Whole \X Slots : i_zone[f][k] = b}
    \cup {<<c, k>> \in (UNION {Tables(f) : f \in Whole}) \X (0 .. NIND - 1) : ind[c][k] = b}

\* A block belongs to one place in one file, and the bitmap has the blocks that
\* belong to files and those a call is about to attach, no other: new_block and
\* free_block lose none and give none to two files, as long as no call truncates
\* a file that another is reading or writing and no two create the same block.
\* (A file that is being truncated still leads to blocks that are free again.)
BlocksOwnedOnce ==
    ~overlap =>
        \A b \in Zones :
            LET R == References(b) IN
            /\ Cardinality(R) <= 1
            /\ b \in s_zmap <=> \/ R # {}
                               \/ \E t \in Tasks : \/ call[t].pc = "new" /\ call[t].blk = b
                                                  \/ b \in ToSet(call[t].todo)

\* What is read from a file, holes as zeros, is what was written to it, whatever
\* blocks the pointers lead to, and i_size is its length.
ReadsBackWritten ==
    ~overlap => \A f \in Whole :
        /\ i_size[f] = Len(bytes[f])
        /\ \A k \in 1 .. i_size[f] :
              LET b == bmap(f, (k - 1) \div BLOCK_SIZE) IN
              bytes[f][k] = IF b = 0 THEN 0 ELSE data[b][(k - 1) % BLOCK_SIZE]
==============================================================================
