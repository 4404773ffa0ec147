-------------------------------- MODULE Super --------------------------------
(***************************************************************************)
(* The table of super blocks: mount, umount and the steps of iget and      *)
(* find_entry that cross a mount point downwards and upwards.  The root    *)
(* file system is always mounted and has its own entry, left out here.     *)
(* Holders of inodes are counted per directory and per mounted device.     *)
(***************************************************************************)
EXTENDS Naturals, FiniteSets

CONSTANTS Tasks, Devs,
          Dirs,       \* directories of the root file system
          NR_SUPER

VARIABLES super_block, i_mount, i_count,
          windows,    \* history: the races that were met
          visit       \* what each task is doing

vars == <<super_block, i_mount, i_count, windows, visit>>

NoDev  == "none"
NoDir  == "none"
Slots  == 1 .. NR_SUPER
Unused == [s_dev |-> NoDev, s_lock |-> FALSE, s_imount |-> NoDir, read |-> FALSE]
Idle   == [pc |-> "idle", dev |-> NoDev, dir |-> NoDir, s |-> 0]

Init ==
    /\ super_block = [s \in Slots |-> Unused]
    /\ i_mount = [m \in Dirs |-> FALSE] /\ i_count = [m \in Dirs |-> 0]
    /\ windows = {} /\ visit = [t \in Tasks |-> Idle]

\* A race ends the model: nothing is claimed of what follows.
At(t, where) == visit[t].pc = where /\ windows = {}

\* get_super: the first entry of the device, 0 for none.
Entry(d) == {s \in Slots : super_block[s].s_dev = d}
First(S) == IF S = {} THEN 0 ELSE CHOOSE s \in S : \A r \in S : s <= r

\* Faulty: get_super does not wait for an entry that is being read.
Settled_not(d) == TRUE

\* wait_on_super lets get_super go on.
Settled(d) == \A s \in Entry(d) : ~super_block[s].s_lock

\* The entry was taken over from put_super and is still to be read.
Unread(s) == {w \in {"unread"} : \E u \in Tasks : visit[u].pc = "lock" /\ visit[u].s = s}
Inside(d) == {t \in Tasks : visit[t].pc = "in" /\ visit[t].dev = d}

------------------------------------------------------------------------------
\* sys_mount: namei of the directory and the test that nobody else uses it.
sys_mount(t, d, m) ==
    /\ At(t, "idle") /\ ~i_mount[m] /\ i_count[m] = 0
    /\ i_count' = [i_count EXCEPT ![m] = 1]
    /\ visit' = [visit EXCEPT ![t] = [Idle EXCEPT !.pc = "mount", !.dev = d, !.dir = m]]
    /\ UNCHANGED <<super_block, i_mount, windows>>

\* The end of sys_mount with super block s; 0 is an error.
Mounted(t, s, table) ==
    LET m == visit[t].dir IN
    /\ IF s = 0 \/ table[s].s_imount # NoDir \/ i_mount[m]
       THEN super_block' = table /\ i_count' = [i_count EXCEPT ![m] = @ - 1] /\ UNCHANGED i_mount
       ELSE /\ super_block' = [table EXCEPT ![s].s_imount = m]
            /\ i_mount' = [i_mount EXCEPT ![m] = TRUE] /\ UNCHANGED i_count
    /\ visit' = [visit EXCEPT ![t] = Idle]

\* read_super: the entry the device has, or a free one, which is locked; the
\* lock may still be that of put_super, and lock_super then waits for it.
read_super(t) ==
    /\ At(t, "mount") /\ Settled(visit[t].dev)
    /\ LET d == visit[t].dev
           old == First(Entry(d))
           s == First(Entry(NoDev)) IN
       IF old # 0 \/ s = 0
       THEN Mounted(t, old, super_block) /\ windows' = Unread(old)
       ELSE /\ super_block' = [super_block EXCEPT ![s] =
                 [Unused EXCEPT !.s_dev = d, !.s_lock = TRUE]]
            /\ visit' = [visit EXCEPT ![t].pc = IF super_block[s].s_lock THEN "lock" ELSE "read", ![t].s = s]
            /\ UNCHANGED <<i_mount, i_count, windows>>

lock_super(t) ==
    /\ At(t, "lock") /\ ~super_block[visit[t].s].s_lock
    /\ super_block' = [super_block EXCEPT ![visit[t].s].s_lock = TRUE]
    /\ visit' = [visit EXCEPT ![t].pc = "read"]
    /\ UNCHANGED <<i_mount, i_count, windows>>

\* The blocks of the super block and of the bitmaps have been read, or not.
read_super_return(t) ==
    /\ At(t, "read")
    /\ LET s == visit[t].s IN
       \/ Mounted(t, 0, [super_block EXCEPT ![s] = Unused])
       \/ Mounted(t, s, [super_block EXCEPT ![s].s_lock = FALSE, ![s].read = TRUE])
    /\ UNCHANGED windows

------------------------------------------------------------------------------
\* Faulty: umount does not look for inodes in use.
Busy_not(d) == FALSE

\* sys_umount: some inode of the device is in use.
Busy(d) == Inside(d) # {}

\* sys_umount to the sleep in iput.  A task that is about to take an inode of
\* the device goes unseen, as does another umount.
sys_umount(t, d) ==
    LET s == First(Entry(d)) IN
    /\ At(t, "idle") /\ Settled(d) /\ s # 0
    /\ super_block[s].s_imount # NoDir /\ ~Busy(d)
    /\ windows' = Unread(s) \cup {w \in {"entered"} : \E u \in Tasks : visit[u].pc \in {"cross", "up"}}
                  \cup {w \in {"twice"} : ~i_mount[super_block[s].s_imount]}
    /\ i_mount' = [i_mount EXCEPT ![super_block[s].s_imount] = FALSE]
    /\ visit' = [visit EXCEPT ![t] = [Idle EXCEPT !.pc = "umount", !.dev = d, !.s = s]]
    /\ UNCHANGED <<super_block, i_count>>

\* sys_umount lets go of the directory and put_super takes the entry, when it is
\* not locked.
put_super(t) ==
    /\ At(t, "umount")
    /\ LET s == visit[t].s IN
       /\ ~super_block[s].s_lock
       /\ i_count' = [i_count EXCEPT ![super_block[s].s_imount] = @ - 1]
       /\ super_block' = [super_block EXCEPT ![s] = [Unused EXCEPT !.s_lock = TRUE]]
    /\ visit' = [visit EXCEPT ![t].pc = "put"]
    /\ UNCHANGED <<i_mount, windows>>

\* put_super has released the bitmaps.
free_super(t) ==
    /\ At(t, "put")
    /\ super_block' = [super_block EXCEPT ![visit[t].s].s_lock = FALSE]
    /\ visit' = [visit EXCEPT ![t] = Idle]
    /\ UNCHANGED <<i_mount, i_count, windows>>

------------------------------------------------------------------------------
\* iget of a directory: a mount point is let go, which may sleep.
iget(t, m) ==
    /\ At(t, "idle")
    /\ IF i_mount[m]
       THEN /\ visit' = [visit EXCEPT ![t] = [Idle EXCEPT !.pc = "cross",
                            !.s = First({s \in Slots : super_block[s].s_imount = m})]]
            /\ UNCHANGED i_count
       ELSE /\ visit' = [visit EXCEPT ![t] = [Idle EXCEPT !.pc = "in", !.dir = m]]
            /\ i_count' = [i_count EXCEPT ![m] = @ + 1]
    /\ UNCHANGED <<super_block, i_mount, windows>>

\* iget takes the root of the device that is mounted there now.
iget_cross(t) ==
    /\ At(t, "cross")
    /\ visit' = [visit EXCEPT ![t] = [Idle EXCEPT !.pc = "in", !.dev = super_block[visit[t].s].s_dev]]
    /\ UNCHANGED <<super_block, i_mount, i_count, windows>>

iput(t) ==
    /\ At(t, "in")
    /\ i_count' = IF visit[t].dir = NoDir THEN i_count ELSE [i_count EXCEPT ![visit[t].dir] = @ - 1]
    /\ visit' = [visit EXCEPT ![t] = Idle]
    /\ UNCHANGED <<super_block, i_mount, windows>>

\* find_entry of ".." in the root of a device lets the root go, which may sleep.
find_entry(t) ==
    /\ At(t, "in") /\ visit[t].dev # NoDev /\ Settled(visit[t].dev)
    /\ visit' = [visit EXCEPT ![t] = [Idle EXCEPT !.pc = "up", !.s = First(Entry(visit[t].dev))]]
    /\ UNCHANGED <<super_block, i_mount, i_count, windows>>

\* find_entry goes on with the directory the device is mounted on.
find_entry_up(t) ==
    /\ At(t, "up")
    /\ LET m == super_block[visit[t].s].s_imount IN
       /\ i_count' = [i_count EXCEPT ![m] = @ + 1]
       /\ visit' = [visit EXCEPT ![t] = [Idle EXCEPT !.pc = "in", !.dir = m]]
    /\ UNCHANGED <<super_block, i_mount, windows>>

Next ==
    \E t \in Tasks :
       \/ \E d \in Devs : sys_umount(t, d) \/ \E m \in Dirs : sys_mount(t, d, m)
       \/ \E m \in Dirs : iget(t, m)
       \/ read_super(t) \/ lock_super(t) \/ read_super_return(t) \/ put_super(t) \/ free_super(t)
       \/ iget_cross(t) \/ iput(t) \/ find_entry(t) \/ find_entry_up(t)

Spec == Init /\ [][Next]_vars
------------------------------------------------------------------------------
\* A device has at most one super block and is mounted in at most one place; a
\* directory marked as a mount point is the one of exactly one super block, whose
\* bitmaps are in memory, and is held by it; and a task that uses an inode of a
\* device finds its file system mounted.  All of this as long as none of the
\* races was met that the code leaves open.
MountsAgree ==
    windows = {} =>
        /\ \A d \in Devs : Cardinality(Entry(d)) <= 1
        /\ \A m \in Dirs :
              /\ i_mount[m] <=> \E s \in Slots : /\ super_block[s].s_imount = m
                                                 /\ \A t \in Tasks : visit[t].pc = "umount" => visit[t].s # s
              /\ i_count[m] = Cardinality({s \in Slots : super_block[s].s_imount = m})
                              + Cardinality({t \in Tasks : visit[t].dir = m})
        /\ \A s \in Slots : super_block[s].s_imount # NoDir => super_block[s].read /\ super_block[s].s_dev # NoDev
        /\ \A t \in Tasks : visit[t].pc = "in" /\ visit[t].dev # NoDev =>
              \E s \in Slots : super_block[s].s_dev = visit[t].dev /\ super_block[s].s_imount # NoDir
==============================================================================
