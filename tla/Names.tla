-------------------------------- MODULE Names --------------------------------
(***************************************************************************)
(* Directories and the system calls that look up, make and remove names.   *)
(* An inode is held by the tasks that work with it, that have it open or   *)
(* that have it as their root or working directory; it is freed when it    *)
(* has no name and nobody holds it.  A task gives up the processor where a *)
(* call may sleep: for the blocks of a directory, in iget and in           *)
(* new_inode.  The last name of a path may be empty ("/usr/").             *)
(***************************************************************************)
EXTENDS Naturals, Sequences, FiniteSets

CONSTANTS Tasks,
          Supers,        \* tasks of the super user
          Inodes,        \* numbers; ROOT_INO is among them
          NSLOT,         \* entries a directory can have, "." and ".." apart
          Paths, Calls,  \* the paths and calls the tasks use
          Modes,         \* permissions that chmod gives
          MaxCalls

ROOT_INO == 1

VARIABLES inode, entries, parent,    \* parent: the entry ".."
          root, pwd, filp,
          windows,                   \* history: the races that were met
          panicked, ncalls, name     \* name: what each task is doing

vars == <<inode, entries, parent, root, pwd, filp, windows, panicked, ncalls, name>>

FreeInode == [kind |-> "free", nlinks |-> 0, mode |-> "open"]
Empty     == [k \in 1 .. NSLOT |-> [name |-> "", ino |-> 0]]
Idle      == [pc |-> "idle", op |-> "none", rest |-> <<>>, path |-> <<>>, dir |-> 0,
              ino |-> 0, old |-> 0, slot |-> 0, mode |-> "none"]

Directory(n) == [kind |-> "dir", nlinks |-> n, mode |-> "open"]

\* A file system with a root directory, or with the directory "a" in it as well.
Init ==
    /\ \E n \in {0, 1} :
          /\ inode = [i \in Inodes |-> CASE i = ROOT_INO -> Directory(2 + n)
                                        [] i = 2 /\ n = 1 -> Directory(2)
                                        [] OTHER -> FreeInode]
          /\ entries = [i \in Inodes |-> IF i = ROOT_INO /\ n = 1
                                         THEN [Empty EXCEPT ![1] = [name |-> "a", ino |-> 2]] ELSE Empty]
          /\ parent = [i \in Inodes |-> IF i = ROOT_INO \/ (i = 2 /\ n = 1) THEN ROOT_INO ELSE 0]
    /\ root = [t \in Tasks |-> ROOT_INO] /\ pwd = root /\ filp = [t \in Tasks |-> 0]
    /\ windows = {} /\ panicked = FALSE /\ ncalls = 0
    /\ name = [t \in Tasks |-> Idle]

\* A race ends the model: nothing is claimed of what follows.
At(t, where) == name[t].pc = where /\ windows = {} /\ ~panicked

------------------------------------------------------------------------------
\* permission: a file without a name is nobody's; root may do the rest, and
\* others what the mode allows.
permission(t, i, inodes) ==
    inodes[i].nlinks # 0 /\ (t \in Supers \/ inodes[i].mode # "closed")

\* find_entry: the first entry with the name, 0 for none.  ".." is the parent,
\* or the directory itself in the root of the task.
find_entry(d, n) ==
    LET S == {k \in 1 .. NSLOT : entries[d][k].ino # 0 /\ entries[d][k].name = n} IN
    IF S = {} THEN 0 ELSE CHOOSE k \in S : \A j \in S : k <= j

Lookup(t, d, n) ==
    CASE n = "."  -> d
      [] n = ".." -> IF d = root[t] THEN d ELSE parent[d]
      [] OTHER    -> IF find_entry(d, n) = 0 THEN 0 ELSE entries[d][find_entry(d, n)].ino

\* add_entry takes the first free entry; 0 when the directory cannot grow.
add_entry(d) ==
    LET S == {k \in 1 .. NSLOT : entries[d][k].ino = 0} IN
    IF S = {} THEN 0 ELSE CHOOSE k \in S : \A j \in S : k <= j

\* Writers of the last directory, which must be writable.
Writes == {"mknod", "mkdir", "rmdir", "unlink", "linkto"}

\* get_dir with directory d, and the test that comes before the directory of
\* the last name is read: what the task does next, or Idle if it fails.
get_dir(t, c, d, inodes) ==
    IF \/ inodes[d].kind # "dir" \/ ~permission(t, d, inodes)
       \/ Len(c.rest) = 1 /\ c.op \in Writes /\ Head(c.rest) = ""
       \/ Len(c.rest) = 1 /\ c.op \in Writes /\ ~permission(t, d, inodes)
    THEN Idle
    ELSE [c EXCEPT !.pc = "find", !.dir = d, !.ino = 0]

Start(t, path) == IF path[1] = "/" THEN root[t] ELSE pwd[t]
Rest(path)     == IF path[1] = "/" THEN Tail(path) ELSE path

------------------------------------------------------------------------------
\* What task t holds, given where the tasks are, as the counts of inodes see it.
Uses(t, names, r, p, o) ==
    <<r[t], p[t], o[t], names[t].dir, names[t].old, IF names[t].pc = "iget" THEN 0 ELSE names[t].ino>>

\* i_count.
UseCount(i, names, r, p, o) == Cardinality({<<t, k>> \in Tasks \X (1 .. 6) : Uses(t, names, r, p, o)[k] = i})

\* The state after iput has let go of what the tasks no longer use.  A number
\* that was read from a directory and is not held yet may go stale, and a
\* directory that rmdir has found unused may be entered.
Settle(inodes, names, r, p, o, races) ==
    LET freed == {i \in Inodes : inodes[i].kind # "free" /\ inodes[i].nlinks = 0
                                 /\ UseCount(i, names, r, p, o) = 0} IN
    /\ inode' = [i \in Inodes |-> IF i \in freed THEN FreeInode ELSE inodes[i]]
    /\ name' = names /\ root' = r /\ pwd' = p /\ filp' = o
    /\ windows' = windows \cup races
          \cup {w \in {"gone"} : \E t \in Tasks : names[t].pc = "iget" /\ names[t].ino \in freed}
          \cup {w \in {"entered"} : \E t \in Tasks :
                   /\ name[t].pc = "empty" /\ names[t].pc = "empty"
                   /\ UseCount(names[t].ino, names, r, p, o) > UseCount(names[t].ino, name, root, pwd, filp)}

\* The task goes on with c, or returns when c = Idle.
Then(t, c, inodes) == Settle(inodes, [name EXCEPT ![t] = c], root, pwd, filp, {})
Unlinked == UNCHANGED <<entries, parent>>

\* A system call with a path, of a task that is in no call; link has two.
syscall(t, op, path, path2, mode) ==
    LET c == [Idle EXCEPT !.op = op, !.rest = Rest(path), !.path = path2, !.mode = mode] IN
    /\ ncalls' = ncalls + 1
    /\ op \in {"mknod", "mkdir", "rmdir", "chroot", "chmod"} => t \in Supers
    /\ op \in {"open", "creat"} => filp[t] = 0
    /\ name' = [name EXCEPT ![t] = get_dir(t, c, Start(t, path), inode)]
    /\ name'[t] # Idle
    /\ UNCHANGED <<inode, root, pwd, filp, windows, panicked>> /\ Unlinked

\* The directory has been read: what the call does with the entry it found or
\* did not find.
find(t) ==
    /\ At(t, "find")
    /\ LET c == name[t]
           n == Head(c.rest)
           i == Lookup(t, c.dir, n)
           iget == [c EXCEPT !.pc = "iget", !.ino = i] IN
       IF Len(c.rest) > 1
       THEN Then(t, IF i = 0 THEN Idle ELSE [iget EXCEPT !.dir = 0], inode)
       ELSE CASE c.op \in {"mknod", "mkdir"} ->
                   Then(t, IF i # 0 THEN Idle ELSE [c EXCEPT !.pc = "new"], inode)
              [] c.op = "linkto" -> Then(t, IF i # 0 THEN Idle ELSE [c EXCEPT !.pc = "add", !.ino = c.old], inode)
              [] c.op \in {"unlink", "rmdir"} ->
                   Then(t, IF i = 0 THEN Idle ELSE [iget EXCEPT !.slot = find_entry(c.dir, n)], inode)
              [] c.op = "creat" ->
                   Then(t, IF i # 0 THEN [iget EXCEPT !.dir = 0]
                           ELSE IF n = "" \/ ~permission(t, c.dir, inode) THEN Idle
                           ELSE [c EXCEPT !.pc = "new"], inode)
              [] OTHER -> Then(t, IF n = "" THEN [c EXCEPT !.pc = "iget", !.ino = c.dir]
                                  ELSE IF i = 0 THEN Idle ELSE [iget EXCEPT !.dir = 0], inode)
    /\ UNCHANGED <<panicked, ncalls>> /\ Unlinked

\* iget inside get_dir: one name of the path is done.
walk(t) ==
    /\ At(t, "iget") /\ Len(name[t].rest) > 1
    /\ LET c == [name[t] EXCEPT !.rest = Tail(@)] IN Then(t, get_dir(t, c, c.ino, inode), inode)
    /\ UNCHANGED <<panicked, ncalls>> /\ Unlinked

LastGot(t, ops) == At(t, "iget") /\ Len(name[t].rest) = 1 /\ name[t].op \in ops

\* open_namei of a file that exists; creat opens it for writing.  A path that
\* ends in a slash opens the directory itself.
open_namei(t) ==
    /\ LastGot(t, {"open", "creat"})
    /\ LET i == name[t].ino
           ok == \/ name[t].rest = <<"">>
                 \/ permission(t, i, inode) /\ (inode[i].kind = "dir" => name[t].op = "open") IN
       Settle(inode, [name EXCEPT ![t] = Idle], root, pwd,
              IF ok THEN [filp EXCEPT ![t] = i] ELSE filp, {})
    /\ UNCHANGED <<panicked, ncalls>> /\ Unlinked

\* sys_chdir and sys_chroot.
chdir(t) ==
    /\ LastGot(t, {"chdir", "chroot"})
    /\ LET i == name[t].ino
           names == [name EXCEPT ![t] = Idle] IN
       IF inode[i].kind # "dir" THEN Settle(inode, names, root, pwd, filp, {})
       ELSE IF name[t].op = "chdir" THEN Settle(inode, names, root, [pwd EXCEPT ![t] = i], filp, {})
       ELSE Settle(inode, names, [root EXCEPT ![t] = i], pwd, filp, {})
    /\ UNCHANGED <<panicked, ncalls>> /\ Unlinked

\* sys_chmod; sys_chown changes what is not modelled here.
chmod(t) ==
    /\ LastGot(t, {"chmod"})
    /\ Then(t, Idle, [inode EXCEPT ![name[t].ino].mode = name[t].mode])
    /\ UNCHANGED <<panicked, ncalls>> /\ Unlinked

\* sys_access and sys_utime, and sys_stat, look the file up and let it go.
access(t) ==
    /\ LastGot(t, {"access"}) /\ Then(t, Idle, inode)
    /\ UNCHANGED <<panicked, ncalls>> /\ Unlinked

stat(t) ==
    /\ LastGot(t, {"stat"}) /\ Then(t, Idle, inode)
    /\ UNCHANGED <<panicked, ncalls>> /\ Unlinked

\* sys_link holds the old file and looks for the directory of the new name.
link_old(t) ==
    /\ LastGot(t, {"link"})
    /\ LET c == [name[t] EXCEPT !.op = "linkto", !.rest = Rest(name[t].path), !.path = <<>>,
                            !.old = name[t].ino] IN
       Then(t, IF inode[c.ino].kind = "dir" THEN Idle
               ELSE get_dir(t, c, Start(t, name[t].path), inode), inode)
    /\ UNCHANGED <<panicked, ncalls>> /\ Unlinked

sticky(t, d) == inode[d].mode = "sticky" /\ t \notin Supers

\* de->inode = 0 and the end of the call, with the links of inodes: the entry may
\* no longer be the one the call found.
Remove(t, inodes) ==
    LET c == name[t] IN
    /\ entries' = [entries EXCEPT ![c.dir][c.slot].ino = 0]
    /\ Settle(inodes, [name EXCEPT ![t] = Idle], root, pwd, filp,
              {w \in {"entry"} : entries[c.dir][c.slot].ino # c.ino})
    /\ UNCHANGED parent

\* sys_unlink from iget on.
unlink(t) ==
    /\ LastGot(t, {"unlink"})
    /\ LET c == name[t] IN
       IF inode[c.ino].kind = "dir" \/ sticky(t, c.dir) THEN Then(t, Idle, inode) /\ Unlinked
       ELSE Remove(t, [inode EXCEPT ![c.ino].nlinks = IF @ = 0 THEN 0 ELSE @ - 1])
    /\ UNCHANGED <<panicked, ncalls>>

\* Faulty: a directory that others use may be removed.
InUse_not(t) == FALSE

\* sys_rmdir: i_count > 1, one of which is the caller's.
InUse(t) == UseCount(name[t].ino, name, root, pwd, filp) > 0

\* sys_rmdir to the sleep in empty_dir.
rmdir(t) ==
    /\ LastGot(t, {"rmdir"})
    /\ LET c == name[t] IN
       Then(t, IF InUse(t) \/ c.ino = c.dir \/ inode[c.ino].kind # "dir" THEN Idle
               ELSE [c EXCEPT !.pc = "empty"], inode)
    /\ UNCHANGED <<panicked, ncalls>> /\ Unlinked

\* empty_dir and the rest of sys_rmdir.  Others may have found the directory
\* since it was seen to be unused.
rmdir_empty(t) ==
    /\ At(t, "empty")
    /\ LET c == name[t] IN
       IF \E k \in 1 .. NSLOT : entries[c.ino][k].ino # 0 THEN Then(t, Idle, inode) /\ Unlinked
       ELSE Remove(t, [inode EXCEPT ![c.ino].nlinks = 0, ![c.dir].nlinks = @ - 1])
    /\ UNCHANGED <<panicked, ncalls>>

\* new_inode has returned an inode, or none is free.
new_inode(t) ==
    /\ At(t, "new")
    /\ LET free == {i \in Inodes : inode[i].kind = "free"}
           i == CHOOSE j \in free : \A k \in free : j <= k IN
       IF free = {} THEN Then(t, Idle, inode) /\ Unlinked
       ELSE /\ Then(t, [name[t] EXCEPT !.pc = IF name[t].op = "mkdir" THEN "block" ELSE "add", !.ino = i],
                    [inode EXCEPT ![i] = [kind |-> "file", nlinks |-> 1, mode |-> "open"]])
            /\ entries' = [entries EXCEPT ![i] = Empty] /\ UNCHANGED parent
    /\ UNCHANGED <<panicked, ncalls>>

\* sys_mkdir: new_block or bread fails (the inode has no mode yet, so iput
\* frees no block), or the new directory gets "." and "..".
mkdir_block(t) ==
    /\ At(t, "block")
    /\ LET c == name[t] IN
       \/ Then(t, Idle, [inode EXCEPT ![c.ino].nlinks = @ - 1]) /\ UNCHANGED parent
       \/ /\ Then(t, [c EXCEPT !.pc = "add"], [inode EXCEPT ![c.ino] = [@ EXCEPT !.kind = "dir", !.nlinks = 2]])
          /\ parent' = [parent EXCEPT ![c.ino] = c.dir]
    /\ UNCHANGED <<entries, panicked, ncalls>>

\* Faulty: sys_link leaves the count as it is.
Counted_not(t) == inode

\* The counts once the entry is in place: sys_mkdir counts "..", sys_link the
\* new name.
Counted(t) ==
    LET c == name[t] IN
    CASE c.op = "mkdir"  -> [inode EXCEPT ![c.dir].nlinks = @ + 1]
      [] c.op = "linkto" -> [inode EXCEPT ![c.ino].nlinks = @ + 1]
      [] OTHER           -> inode

\* add_entry has the directory's block: the name is entered, unless the
\* directory cannot grow.  A new inode is then given back; sys_mkdir frees its
\* block, which iput frees again.
add(t) ==
    /\ At(t, "add")
    /\ LET c == name[t]
           k == add_entry(c.dir)
           dup == find_entry(c.dir, Head(c.rest)) # 0 IN
       IF k = 0
       THEN /\ Then(t, Idle, IF c.op = "linkto" THEN inode ELSE [inode EXCEPT ![c.ino].nlinks = 0])
            /\ panicked' = (c.op = "mkdir") /\ UNCHANGED entries
       ELSE /\ entries' = [entries EXCEPT ![c.dir][k] = [name |-> Head(c.rest), ino |-> c.ino]]
            /\ windows' = windows \cup {w \in {"dup"} : dup}
            /\ inode' = Counted(t)
            /\ name' = [name EXCEPT ![t] = Idle]
            /\ filp' = IF c.op = "creat" THEN [filp EXCEPT ![t] = c.ino] ELSE filp
            /\ UNCHANGED <<root, pwd, panicked>>
    /\ UNCHANGED <<parent, ncalls>>

\* sys_close.
close(t) ==
    /\ At(t, "idle") /\ filp[t] # 0
    /\ Settle(inode, name, root, pwd, [filp EXCEPT ![t] = 0], {})
    /\ UNCHANGED <<panicked, ncalls>> /\ Unlinked

Call(t) ==
    /\ At(t, "idle") /\ ncalls < MaxCalls
    /\ \/ \E op \in Calls \ {"link", "chmod"}, p \in Paths : syscall(t, op, p, <<>>, "none")
       \/ "link" \in Calls /\ \E p, q \in Paths : syscall(t, "link", p, q, "none")
       \/ "chmod" \in Calls /\ \E p \in Paths, m \in Modes : syscall(t, "chmod", p, <<>>, m)

Next ==
    \E t \in Tasks :
       \/ Call(t) \/ find(t) \/ walk(t) \/ open_namei(t) \/ chdir(t) \/ chmod(t) \/ access(t) \/ stat(t)
       \/ link_old(t) \/ unlink(t) \/ rmdir(t) \/ rmdir_empty(t) \/ new_inode(t) \/ mkdir_block(t) \/ add(t) \/ close(t)

Spec == Init /\ [][Next]_vars
------------------------------------------------------------------------------
Names(i) == {<<d, k>> \in Inodes \X (1 .. NSLOT) :
                inode[d].kind = "dir" /\ entries[d][k].ino = i}
Subdirs(d) == {k \in 1 .. NSLOT : entries[d][k].ino # 0 /\ inode[entries[d][k].ino].kind = "dir"}
InHand(i)  == \E t \in Tasks : name[t].ino = i /\ name[t].pc \in {"add", "block"} /\ name[t].op # "linkto"

\* The link count of a file is the number of its names, that of a directory two
\* more than that of its subdirectories; every name leads to an inode in use, a
\* directory has one name, in the directory its ".." leads to, and no directory
\* has the same name twice: whatever calls are under way, as long as none of
\* the races the code leaves open was met.
NamesSound ==
    windows = {} => \A i \in Inodes :
        /\ inode[i].kind = "free" => Names(i) = {}
        /\ inode[i].kind = "file" /\ ~InHand(i) => inode[i].nlinks = Cardinality(Names(i))
        /\ inode[i].kind = "dir" /\ ~InHand(i) /\ inode[i].nlinks # 0 =>
              /\ inode[i].nlinks = 2 + Cardinality(Subdirs(i))
              /\ i # ROOT_INO => \E k \in 1 .. NSLOT : Names(i) = {<<parent[i], k>>}
        /\ inode[i].kind = "dir" => \A j, k \in 1 .. NSLOT :
              entries[i][j].ino # 0 /\ entries[i][k].ino # 0 /\ entries[i][j].name = entries[i][k].name => j = k

\* The root and the working directory of a task are directories that still have
\* a name, so rmdir's test of i_count protects them, unless another task found
\* the directory while rmdir was reading it.
PlaceKept ==
    windows = {} => \A t \in Tasks : \A i \in {root[t], pwd[t]} :
        inode[i].kind = "dir" /\ inode[i].nlinks >= 2
==============================================================================
