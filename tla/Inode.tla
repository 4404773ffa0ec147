-------------------------------- MODULE Inode --------------------------------
(***************************************************************************)
(* The table of inodes in memory and the bitmap of inodes on disk: iget,   *)
(* iput, get_empty_inode, new_inode, free_inode, sync_inodes.  Tasks give  *)
(* up the processor where they wait for an inode's lock and where bread or *)
(* truncate may sleep; an action is the code between two such places.      *)
(* There is one device.  Of what an inode says besides its type and its    *)
(* links, a copy of it in memory or on disk tells whether it is the last.  *)
(***************************************************************************)
EXTENDS Naturals, FiniteSets

CONSTANTS Tasks,
          NR_INODE,      \* entries of inode_table
          s_ninodes,     \* inodes on the device, numbered from 1
          Syncers        \* tasks that call sync

VARIABLES inode_table,   \* i_num, i_count, i_dirt, i_lock and the file of each entry
          s_imap,        \* numbers whose bit is set
          disk,          \* the inode blocks, as the buffer cache has them
          linked,        \* numbers that some directory entry names
          windows,       \* history: the known races met so far
          panicked,
          itask          \* where each task is: pc, the number it wants, slots

vars == <<inode_table, s_imap, disk, linked, windows, panicked, itask>>

Slots == 1 .. NR_INODE
Nums  == 1 .. s_ninodes
Files == [mode : {"reg", "blk"}, nlinks : 0 .. 1, last : BOOLEAN]

NoFile == [mode |-> "reg", nlinks |-> 0, last |-> TRUE]

\* memset(inode,0,sizeof(*inode)): i_num = 0 stands for i_dev = 0 as well.
Cleared == [num |-> 0, count |-> 0, dirt |-> FALSE, lock |-> FALSE, file |-> NoFile]

Idle == [pc |-> "idle", nr |-> 0, slot |-> 0, empty |-> 0, ret |-> "idle"]

\* mount_root has run; the first inode is in use on disk, the others are free.
Init ==
    /\ inode_table = [s \in Slots |-> Cleared]
    /\ s_imap = {1}
    /\ disk = [n \in Nums |-> IF n = 1 THEN [NoFile EXCEPT !.nlinks = 1] ELSE NoFile]
    /\ linked = {1}
    /\ windows = {} /\ panicked = FALSE
    /\ itask = [t \in Tasks |-> Idle]

\* Once a race is met anything may follow, up to a panic: nothing is claimed
\* of it, and the model ends there.
At(t, where) == itask[t].pc = where /\ ~panicked /\ windows \subseteq {"removed"}

Goto(t, where) == itask' = [itask EXCEPT ![t].pc = where]

Return(t) == itask' = [itask EXCEPT ![t] = Idle]

panic == panicked' = TRUE /\ UNCHANGED <<inode_table, s_imap, disk, linked, windows, itask>>

Unlocked(s) == ~inode_table[s].lock

------------------------------------------------------------------------------
\* wait_on_inode: the caller goes on when the inode is not locked.
wait_on_inode(s) == Unlocked(s)

\* write_inode, to the sleep in bread; the callers have waited for the lock.
write_inode(t, s, where) ==
    IF inode_table[s].dirt /\ inode_table[s].num # 0
    THEN /\ inode_table' = [inode_table EXCEPT ![s].lock = TRUE]
         /\ itask' = [itask EXCEPT ![t].pc = "written", ![t].slot = s, ![t].ret = where]
    ELSE itask' = [itask EXCEPT ![t].pc = where, ![t].slot = s] /\ UNCHANGED inode_table

\* write_inode when bread has returned; i_num is read again.
write_inode_return(t) ==
    /\ At(t, "written")
    /\ LET s == itask[t].slot IN
       /\ disk' = IF inode_table[s].num = 0 THEN disk
                  ELSE [disk EXCEPT ![inode_table[s].num] = inode_table[s].file]
       /\ inode_table' = [inode_table EXCEPT ![s].dirt = FALSE, ![s].lock = FALSE]
    /\ Goto(t, itask[t].ret)
    /\ UNCHANGED <<s_imap, linked, windows, panicked>>

------------------------------------------------------------------------------
\* get_empty_inode: a free entry, if possible one that is clean and not locked;
\* the place where last_inode goes on is left open.
Unused == {s \in Slots : inode_table[s].count = 0}
Ready  == {s \in Unused : ~inode_table[s].dirt /\ ~inode_table[s].lock}

Claim(t, s) ==
    /\ inode_table' = [inode_table EXCEPT ![s] = [Cleared EXCEPT !.count = 1]]
    /\ itask' = [itask EXCEPT ![t].pc = IF itask[t].nr = 0 THEN "new" ELSE "scan",
                              ![t].slot = 0, ![t].empty = s, ![t].ret = "idle"]

get_empty_inode(t) ==
    /\ At(t, "empty")
    /\ IF Unused = {} THEN panic
       ELSE /\ \E s \in IF Ready # {} THEN Ready ELSE Unused :
                  IF s \in Ready THEN Claim(t, s)
                  ELSE /\ itask' = [itask EXCEPT ![t].pc = "candidate", ![t].slot = s]
                       /\ UNCHANGED inode_table
            /\ UNCHANGED <<s_imap, disk, linked, windows, panicked>>

\* get_empty_inode after wait_on_inode: written while it is dirty, and given up
\* when it came into use.  An entry that is dirty and belongs to no device is
\* not written: the loop does not end and, as it does not sleep, nothing runs.
get_empty_inode_woken(t) ==
    /\ At(t, "candidate")
    /\ LET s == itask[t].slot IN
       /\ wait_on_inode(s)
       /\ IF inode_table[s].dirt
          THEN IF inode_table[s].num = 0 THEN panic
               ELSE /\ write_inode(t, s, "candidate")
                    /\ UNCHANGED <<s_imap, disk, linked, windows, panicked>>
          ELSE /\ IF inode_table[s].count > 0
                  THEN /\ itask' = [itask EXCEPT ![t].pc = "empty", ![t].slot = 0]
                       /\ UNCHANGED inode_table
                  ELSE Claim(t, s)
               /\ UNCHANGED <<s_imap, disk, linked, windows, panicked>>

------------------------------------------------------------------------------
\* A number is looked up in a directory while it is linked there, and passed to
\* iget, which begins with get_empty_inode.
iget(t, nr) ==
    /\ At(t, "idle") /\ windows = {}
    /\ nr \in linked
    /\ itask' = [itask EXCEPT ![t] = [Idle EXCEPT !.pc = "empty", !.nr = nr]]
    /\ UNCHANGED <<inode_table, s_imap, disk, linked, windows, panicked>>

\* The directory entry the number came from is gone.
Late(nr) == nr \notin linked

Found(nr) == {s \in Slots : inode_table[s].num = nr}

\* The inode is in the table: one more user, and the empty entry is put back.
Share(t, s) ==
    /\ inode_table' = [inode_table EXCEPT ![s].count = @ + 1,
                                          ![itask[t].empty].count = @ - 1]
    /\ itask' = [itask EXCEPT ![t] = [Idle EXCEPT !.pc = "hold", !.slot = s]]
    /\ windows' = IF Late(itask[t].nr) THEN windows \cup {"late"} ELSE windows
    /\ UNCHANGED <<s_imap, disk, linked, panicked>>

\* It is not: the empty entry gets the number, and read_inode locks it.
Load(t) ==
    LET s == itask[t].empty IN
    /\ inode_table' = [inode_table EXCEPT ![s].num = itask[t].nr, ![s].lock = TRUE]
    /\ itask' = [itask EXCEPT ![t].pc = "read", ![t].slot = s, ![t].empty = 0]
    /\ windows' = IF Late(itask[t].nr) THEN windows \cup {"late"} ELSE windows
    /\ UNCHANGED <<s_imap, disk, linked, panicked>>

\* iget goes over the table.
iget_scan(t) ==
    /\ At(t, "scan")
    /\ \/ Found(itask[t].nr) = {} /\ Load(t)
       \/ \E s \in Found(itask[t].nr) :
             IF Unlocked(s) THEN Share(t, s)
             ELSE /\ itask' = [itask EXCEPT ![t].pc = "match", ![t].slot = s]
                  /\ UNCHANGED <<inode_table, s_imap, disk, linked, windows, panicked>>

\* Faulty: the number is not compared again after the sleep.
iget_woken_blindly(t) ==
    /\ At(t, "match") /\ wait_on_inode(itask[t].slot)
    /\ Share(t, itask[t].slot)

\* iget after wait_on_inode: the entry may have become another inode.
iget_woken(t) ==
    /\ At(t, "match") /\ wait_on_inode(itask[t].slot)
    /\ IF itask[t].slot \in Found(itask[t].nr) THEN Share(t, itask[t].slot)
       ELSE /\ itask' = [itask EXCEPT ![t].pc = "scan", ![t].slot = 0]
            /\ UNCHANGED <<inode_table, s_imap, disk, linked, windows, panicked>>

\* read_inode when bread has returned: the entry is filled and unlocked.
read_inode(t) ==
    /\ At(t, "read")
    /\ LET s == itask[t].slot IN
       /\ inode_table' = [inode_table EXCEPT ![s].file = disk[itask[t].nr], ![s].lock = FALSE]
       /\ itask' = [itask EXCEPT ![t] = [Idle EXCEPT !.pc = "hold", !.slot = s]]
    /\ UNCHANGED <<s_imap, disk, linked, windows, panicked>>

------------------------------------------------------------------------------
\* new_inode for sys_mknod or open_namei, which set i_mode and enter the name.
new_inode(t) ==
    /\ At(t, "idle")
    /\ itask' = [itask EXCEPT ![t] = [Idle EXCEPT !.pc = "empty"]]
    /\ UNCHANGED <<inode_table, s_imap, disk, linked, windows, panicked>>

Zeros == Nums \ s_imap

\* find_first_zero, set_bit, and the fields; iput(inode) when the map is full.
new_inode_return(t, mode) ==
    /\ At(t, "new")
    /\ LET s == itask[t].empty
           n == CHOOSE k \in Zeros : \A m \in Zeros : k <= m
           f == [mode |-> mode, nlinks |-> 1, last |-> TRUE] IN
       IF Zeros = {}
       THEN /\ inode_table' = [inode_table EXCEPT ![s].count = @ - 1]
            /\ Return(t) /\ UNCHANGED <<s_imap, linked, disk>>
       ELSE /\ s_imap' = s_imap \cup {n}
            /\ inode_table' = [inode_table EXCEPT ![s].count = 1, ![s].dirt = TRUE,
                                                  ![s].num = n, ![s].file = f]
            /\ linked' = linked \cup {n} /\ disk' = [disk EXCEPT ![n].last = FALSE]
            /\ itask' = [itask EXCEPT ![t] = [Idle EXCEPT !.pc = "hold", !.slot = s]]
    /\ UNCHANGED <<windows, panicked>>

\* The file of the entry s is changed there: every other copy is an old one.
Changed(s, f) ==
    LET n == inode_table[s].num IN
    /\ inode_table' = [e \in Slots |->
           IF e = s THEN [inode_table[s] EXCEPT !.file = f, !.dirt = TRUE]
           ELSE IF inode_table[e].num = n THEN [inode_table[e] EXCEPT !.file.last = FALSE]
           ELSE inode_table[e]]
    /\ disk' = [k \in Nums |-> [disk[k] EXCEPT !.last = @ /\ k # n]]

\* A system call changes the file it holds: sys_chmod, sys_utime, file_write.
change(t) ==
    /\ At(t, "hold")
    /\ Changed(itask[t].slot, inode_table[itask[t].slot].file)
    /\ Goto(t, "iput")
    /\ UNCHANGED <<s_imap, linked, windows, panicked>>

\* sys_unlink of the last name.
unlink(t) ==
    /\ At(t, "hold")
    /\ LET s == itask[t].slot IN
       /\ inode_table[s].num \in linked
       /\ linked' = linked \ {inode_table[s].num}
       /\ Changed(s, [inode_table[s].file EXCEPT !.nlinks = 0])
    /\ Goto(t, "iput")
    /\ UNCHANGED <<s_imap, windows, panicked>>

release(t) ==
    /\ At(t, "hold") /\ Goto(t, "iput")
    /\ UNCHANGED <<inode_table, s_imap, disk, linked, windows, panicked>>

------------------------------------------------------------------------------
\* free_inode for iput: it does not wait for the inode's lock.
free_inode(t, s) ==
    IF inode_table[s].num # 0 /\ (inode_table[s].count > 1 \/ inode_table[s].file.nlinks > 0)
    THEN panic
    ELSE /\ s_imap' = s_imap \ {inode_table[s].num}
         /\ inode_table' = [inode_table EXCEPT ![s] = Cleared]
         /\ windows' = IF Unlocked(s) THEN windows ELSE windows \cup {"wiped"}
         /\ Return(t) /\ UNCHANGED <<disk, linked, panicked>>

Release(t, s) == inode_table' = [inode_table EXCEPT ![s].count = @ - 1] /\ Return(t)

\* Faulty: after writing, the inode is let go whatever happened meanwhile.
Put_once(t, s) ==
    IF inode_table[s].count > 1 \/ itask[t].ret = "repeat" \/ ~inode_table[s].dirt
    THEN Release(t, s) /\ UNCHANGED <<s_imap, disk, linked, windows, panicked>>
    ELSE /\ write_inode(t, s, "repeat")
         /\ UNCHANGED <<s_imap, disk, linked, windows, panicked>>

\* iput from the label repeat: another user remains, or the file has no name
\* (truncate sleeps only for files with blocks), or it has changed and is
\* written first; without a device the write does nothing and goto repeat does
\* not end.
Put(t, s) ==
    IF inode_table[s].count > 1
    THEN Release(t, s) /\ UNCHANGED <<s_imap, disk, linked, windows, panicked>>
    ELSE IF inode_table[s].file.nlinks = 0
    THEN IF inode_table[s].file.mode = "reg"
         THEN /\ Goto(t, "truncate")
              /\ UNCHANGED <<inode_table, s_imap, disk, linked, windows, panicked>>
         ELSE free_inode(t, s)
    ELSE IF inode_table[s].dirt /\ inode_table[s].num = 0 THEN panic
    ELSE /\ IF inode_table[s].dirt THEN write_inode(t, s, "repeat") ELSE Release(t, s)
         /\ UNCHANGED <<s_imap, disk, linked, windows, panicked>>

\* iput to its first sleep; a block device is synced first.
iput(t) ==
    /\ At(t, "iput") /\ wait_on_inode(itask[t].slot)
    /\ LET s == itask[t].slot IN
       IF inode_table[s].count = 0 THEN panic
       ELSE IF inode_table[s].num = 0
       THEN Release(t, s) /\ UNCHANGED <<s_imap, disk, linked, windows, panicked>>
       ELSE IF inode_table[s].file.mode = "blk"
       THEN Goto(t, "repeat") /\ UNCHANGED <<inode_table, s_imap, disk, linked, windows, panicked>>
       ELSE Put(t, s)

\* iput again, after sync_dev or write_inode and wait_on_inode.
iput_repeat(t) ==
    /\ At(t, "repeat") /\ wait_on_inode(itask[t].slot)
    /\ Put(t, itask[t].slot)

\* iput after truncate.
iput_free(t) == At(t, "truncate") /\ free_inode(t, itask[t].slot)

------------------------------------------------------------------------------
\* sync_inodes and invalidate_inodes go over the table, entry by entry.  The
\* disk of the device is changed at most once.
Over(t, what) ==
    /\ At(t, "idle") /\ t \in Syncers
    /\ itask' = [itask EXCEPT ![t] = [Idle EXCEPT !.pc = what, !.slot = 1]]
    /\ UNCHANGED <<inode_table, s_imap, disk, linked, panicked>>

sync_inodes(t) == Over(t, "sync") /\ UNCHANGED windows

invalidate_inodes(t) == windows = {} /\ Over(t, "invalidate") /\ windows' = {"removed"}

NextEntry(t, what, s) ==
    IF s = NR_INODE THEN Return(t)
    ELSE itask' = [itask EXCEPT ![t] = [Idle EXCEPT !.pc = what, !.slot = s + 1]]

sync_inodes_step(t) ==
    /\ At(t, "sync") /\ wait_on_inode(itask[t].slot)
    /\ LET s == itask[t].slot IN
       IF inode_table[s].dirt THEN write_inode(t, s, "synced")
       ELSE NextEntry(t, "sync", s) /\ UNCHANGED inode_table
    /\ UNCHANGED <<s_imap, disk, linked, windows, panicked>>

sync_inodes_next(t) ==
    /\ At(t, "synced") /\ NextEntry(t, "sync", itask[t].slot)
    /\ UNCHANGED <<inode_table, s_imap, disk, linked, windows, panicked>>

invalidate_inodes_step(t) ==
    /\ At(t, "invalidate") /\ wait_on_inode(itask[t].slot)
    /\ LET s == itask[t].slot IN
       /\ inode_table' = [inode_table EXCEPT ![s].num = 0, ![s].dirt = FALSE]
       /\ NextEntry(t, "invalidate", s)
    /\ UNCHANGED <<s_imap, disk, linked, windows, panicked>>

Next ==
    \E t \in Tasks :
       \/ \E nr \in Nums : iget(t, nr)
       \/ \E mode \in {"reg", "blk"} : new_inode_return(t, mode)
       \/ write_inode_return(t)
       \/ get_empty_inode(t) \/ get_empty_inode_woken(t)
       \/ iget_scan(t) \/ iget_woken(t) \/ read_inode(t)
       \/ new_inode(t) \/ change(t) \/ unlink(t) \/ release(t)
       \/ iput(t) \/ iput_repeat(t) \/ iput_free(t)
       \/ sync_inodes(t) \/ sync_inodes_step(t) \/ sync_inodes_next(t)
       \/ invalidate_inodes(t) \/ invalidate_inodes_step(t)

Spec == Init /\ [][Next]_vars
------------------------------------------------------------------------------
\* The tasks that count on an entry.
Users(s) == {t \in Tasks : \/ itask[t].empty = s
                           \/ /\ itask[t].slot = s
                              /\ \/ itask[t].pc \in {"read", "hold", "iput", "repeat", "truncate"}
                                 \/ itask[t].pc = "written" /\ itask[t].ret = "repeat"}

\* i_count is the number of tasks that use the entry, even when the disk was
\* changed, and no number is in the table twice although iget and get_empty_inode
\* sleep and look again; but for two races, in which a number is looked up and
\* its last name removed before iget finds the inode, and free_inode clears an
\* entry that sync_inodes is writing.
TableSound ==
    /\ inode_table \in [Slots -> [num : 0 .. s_ninodes, count : 0 .. Cardinality(Tasks),
                                  dirt : BOOLEAN, lock : BOOLEAN, file : Files]]
    /\ s_imap \subseteq Nums /\ disk \in [Nums -> Files]
    /\ windows \subseteq {"removed"} =>
          \A s \in Slots : inode_table[s].count = Cardinality(Users(s))
    /\ windows = {} => \A n \in Nums : Cardinality(Found(n)) <= 1

\* Whoever holds an inode sees the file as the last user left it, and what is
\* no longer in the table is on disk: iput writes a dirty entry before it lets it
\* go.  The bit of an inode is set exactly while the file has a name or a user,
\* and the kernel does not panic or loop.  The two races and a change of the disk
\* are left out.
FileKept ==
    windows = {} =>
        /\ ~panicked
        /\ \A n \in Nums :
            /\ n \in s_imap <=> n \in linked \/ Found(n) # {}
            /\ n \in s_imap /\ Found(n) = {} => disk[n].last
            /\ \A s \in Found(n) :
                  /\ \/ inode_table[s].file.last
                     \/ \E t \in Tasks : itask[t].pc = "read" /\ itask[t].slot = s
                  /\ ~inode_table[s].dirt => disk[n].last
==============================================================================
