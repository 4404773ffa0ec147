------------------------------ MODULE MC_Storage ------------------------------
(***************************************************************************)
(* The buffer cache, or the table of inodes above it: a behaviour is one   *)
(* of the part that was chosen at the start, with the other as it began.   *)
(* In the cache two tasks write one block, one of them also as a whole.    *)
(* One reads two others in one call, the second of which the other reads.  *)
(***************************************************************************)
EXTENDS BufferCache

CONSTANTS t1, t2

ThreeBlocks == 1 .. 3
TwoCalls ==
    [t \in {t1, t2} |-> IF t = t1 THEN {<<"update", 1>>, <<"read", 3>>}
                        ELSE {<<"update", 1>>, <<"overwrite", 1>>, <<"ahead", 2>>}]

VARIABLES part, inode_table, s_imap, i_disk, linked, windows, panicked, itask

Table == INSTANCE Inode WITH NR_INODE <- 2, s_ninodes <- 2, disk <- i_disk

inodes == <<inode_table, s_imap, i_disk, linked, windows, panicked, itask>>
all    == <<part, vars, inodes>>

MCInit == part \in {"cache", "inodes"} /\ Init /\ Table!Init

\* The kernel may panic over its inodes; the users of the cache always go on.
MCNext ==
    \/ part = "cache" /\ Next /\ UNCHANGED <<part, inodes>>
    \/ part = "inodes" /\ Table!Next /\ UNCHANGED <<part, vars>>
    \/ part = "inodes" /\ UNCHANGED all

MCSpec == MCInit /\ [][MCNext]_all

\* The table of inodes is sound and files keep what was stored in them (iget,
\* iput, sync_inodes, new_inode, free_inode), but for the races listed in windows.
InodesSound == Table!TableSound /\ Table!FileKept
==============================================================================
