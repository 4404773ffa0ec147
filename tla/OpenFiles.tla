------------------------------ MODULE OpenFiles ------------------------------
(***************************************************************************)
(* Descriptors, the table of open files and the counts that tie them       *)
(* together: open, close, dup, dup2, fcntl and pipe, and what fork, execve *)
(* and exit do with the descriptors of a process.  open and pipe take      *)
(* their entries before they sleep in open_namei and get_pipe_inode.       *)
(***************************************************************************)
EXTENDS Naturals, FiniteSets

CONSTANTS Procs, First,  \* processes, and the one that runs first
          NR_OPEN, NR_FILE,
          Inos,          \* inodes that can be opened
          Pipes          \* inodes for pipes

VARIABLES file_table,    \* f_count and f_inode
          i_count, filp, close_on_exec, alive,
          opening,       \* descriptors whose open or pipe sleeps
          died           \* the kernel has panicked

vars == <<file_table, i_count, filp, close_on_exec, alive, opening, died>>

Fds    == 0 .. NR_OPEN - 1
Slots  == 1 .. NR_FILE
Closed == [fd \in Fds |-> 0]

Unused == [f_count |-> 0, f_inode |-> 0]

\* An entry with n uses fewer; f_inode is not looked at once none is left.
Less(f, n) == IF file_table[f].f_count <= n THEN Unused ELSE [file_table[f] EXCEPT !.f_count = @ - n]

Init ==
    /\ file_table = [f \in Slots |-> Unused]
    /\ i_count = [i \in Inos \cup Pipes |-> 0]
    /\ filp = [p \in Procs |-> Closed] /\ close_on_exec = [p \in Procs |-> {}]
    /\ alive = {First} /\ opening = [p \in Procs |-> {}] /\ died = FALSE

Runs(p) == p \in alive /\ opening[p] = {} /\ ~died
LowestOf(S) == CHOOSE x \in S : \A y \in S : x <= y
FreeFds(p, from) == {fd \in Fds : fd >= from /\ filp[p][fd] = 0}
FreeSlots == {f \in Slots : file_table[f].f_count = 0}

\* sys_open to the sleep in open_namei: the lowest descriptor, the first entry.
sys_open(p) ==
    /\ Runs(p) /\ FreeFds(p, 0) # {}
    /\ LET fd == LowestOf(FreeFds(p, 0))
           f == LowestOf(FreeSlots) IN
       /\ close_on_exec' = [close_on_exec EXCEPT ![p] = @ \ {fd}]
       /\ IF FreeSlots = {} THEN UNCHANGED <<filp, file_table, opening>>
          ELSE /\ filp' = [filp EXCEPT ![p][fd] = f]
               /\ file_table' = [file_table EXCEPT ![f].f_count = @ + 1]
               /\ opening' = [opening EXCEPT ![p] = {fd}]
    /\ UNCHANGED <<i_count, alive, died>>

\* Faulty: a failed open keeps its entry in the table.
GiveBack_not(p) ==
    /\ filp' = [filp EXCEPT ![p] = [fd \in Fds |-> IF fd \in opening[p] THEN 0 ELSE @[fd]]]
    /\ UNCHANGED file_table

\* sys_open and sys_pipe give back what they took when they fail.
GiveBack(p) ==
    /\ file_table' = [f \in Slots |-> IF \E fd \in opening[p] : filp[p][fd] = f
                                      THEN Unused ELSE file_table[f]]
    /\ filp' = [filp EXCEPT ![p] = [fd \in Fds |-> IF fd \in opening[p] THEN 0 ELSE @[fd]]]

\* open_namei has returned inode i with its count raised, or an error.
sys_open_return(p) ==
    /\ Cardinality(opening[p]) = 1 /\ ~died
    /\ \/ GiveBack(p) /\ UNCHANGED i_count
       \/ \E i \in Inos :
             /\ i_count' = [i_count EXCEPT ![i] = @ + 1]
             /\ \E fd \in opening[p] :
                   file_table' = [file_table EXCEPT ![filp[p][fd]] = [f_count |-> 1, f_inode |-> i]]
             /\ UNCHANGED filp
    /\ opening' = [opening EXCEPT ![p] = {}]
    /\ UNCHANGED <<close_on_exec, alive, died>>

\* sys_pipe to the sleep in get_empty_inode: two entries and two descriptors.
sys_pipe(p) ==
    /\ Runs(p) /\ Cardinality(FreeSlots) >= 2 /\ Cardinality(FreeFds(p, 0)) >= 2
    /\ LET f0 == LowestOf(FreeSlots)
           f1 == LowestOf(FreeSlots \ {f0})
           d0 == LowestOf(FreeFds(p, 0))
           d1 == LowestOf(FreeFds(p, d0 + 1)) IN
       /\ file_table' = [file_table EXCEPT ![f0].f_count = 1, ![f1].f_count = 1]
       /\ filp' = [filp EXCEPT ![p][d0] = f0, ![p][d1] = f1]
       /\ opening' = [opening EXCEPT ![p] = {d0, d1}]
    /\ UNCHANGED <<i_count, close_on_exec, alive, died>>

\* get_pipe_inode has returned an unused inode with count 2, or none.
sys_pipe_return(p) ==
    /\ Cardinality(opening[p]) = 2 /\ ~died
    /\ \/ GiveBack(p) /\ UNCHANGED i_count
       \/ \E i \in Pipes :
             /\ i_count[i] = 0 /\ i_count' = [i_count EXCEPT ![i] = 2]
             /\ file_table' = [f \in Slots |-> IF \E fd \in opening[p] : filp[p][fd] = f
                                 THEN [file_table[f] EXCEPT !.f_inode = i] ELSE file_table[f]]
             /\ UNCHANGED filp
    /\ opening' = [opening EXCEPT ![p] = {}]
    /\ UNCHANGED <<close_on_exec, alive, died>>

------------------------------------------------------------------------------
\* Uses of file f by the descriptors S of p.
Uses(p, S, f) == Cardinality({fd \in S : filp[p][fd] = f})

\* sys_close of the descriptors S in turn: the last one of a file lets go of its
\* inode.  A count that is already 0 is a panic.
CloseAll(p, S) ==
    /\ file_table' = [f \in Slots |-> Less(f, Uses(p, S, f))]
    /\ i_count' = [i \in DOMAIN i_count |-> i_count[i] -
          Cardinality({f \in Slots : /\ Uses(p, S, f) > 0 /\ file_table[f].f_count = Uses(p, S, f)
                                     /\ file_table[f].f_inode = i})]
    /\ died' = (\E f \in Slots : Uses(p, S, f) > file_table[f].f_count)

sys_close(p, fd) ==
    /\ Runs(p) /\ filp[p][fd] # 0
    /\ CloseAll(p, {fd})
    /\ filp' = [filp EXCEPT ![p][fd] = 0] /\ close_on_exec' = [close_on_exec EXCEPT ![p] = @ \ {fd}]
    /\ UNCHANGED <<alive, opening>>

\* dupfd, for dup, F_DUPFD and dup2: the first free descriptor from arg on.
dupfd(p, fd, arg) ==
    /\ Runs(p) /\ filp[p][fd] # 0 /\ FreeFds(p, arg) # {}
    /\ LET new == LowestOf(FreeFds(p, arg)) IN
       /\ filp' = [filp EXCEPT ![p][new] = filp[p][fd]]
       /\ close_on_exec' = [close_on_exec EXCEPT ![p] = @ \ {new}]
       /\ file_table' = [file_table EXCEPT ![filp[p][fd]].f_count = @ + 1]
    /\ UNCHANGED <<i_count, alive, opening, died>>

\* sys_dup2 closes newfd first; the descriptor to copy is then looked at, so a
\* descriptor copied to itself is closed.
sys_dup2(p, fd, new) ==
    /\ Runs(p) /\ filp[p][new] # 0
    /\ close_on_exec' = [close_on_exec EXCEPT ![p] = @ \ {new}]
    /\ IF fd = new \/ filp[p][fd] = 0
       THEN CloseAll(p, {new}) /\ filp' = [filp EXCEPT ![p][new] = 0]
       ELSE LET f == filp[p][fd]
                old == filp[p][new]
                last == file_table[old].f_count = 1 IN
            /\ filp' = [filp EXCEPT ![p][new] = f]
            /\ IF old = f THEN UNCHANGED <<file_table, i_count>>
               ELSE /\ file_table' = [file_table EXCEPT ![old] = Less(old, 1), ![f].f_count = @ + 1]
                    /\ i_count' = IF last THEN [i_count EXCEPT ![file_table[old].f_inode] = @ - 1] ELSE i_count
            /\ UNCHANGED died
    /\ UNCHANGED <<alive, opening>>

\* sys_fcntl with F_SETFD.
sys_fcntl(p, fd, on) ==
    /\ Runs(p) /\ filp[p][fd] # 0
    /\ close_on_exec' = [close_on_exec EXCEPT ![p] = IF on THEN @ \cup {fd} ELSE @ \ {fd}]
    /\ UNCHANGED <<file_table, i_count, filp, alive, opening, died>>

\* copy_process: the child has the same files open.
Shared(p) == [f \in Slots |-> [file_table[f] EXCEPT !.f_count = @ + Uses(p, Fds, f)]]

copy_process(p, child) ==
    /\ Runs(p) /\ child \notin alive
    /\ alive' = alive \cup {child}
    /\ filp' = [filp EXCEPT ![child] = filp[p]]
    /\ close_on_exec' = [close_on_exec EXCEPT ![child] = close_on_exec[p]]
    /\ file_table' = Shared(p)
    /\ UNCHANGED <<i_count, opening, died>>

\* do_execve closes the descriptors marked by F_SETFD.
do_execve(p) ==
    /\ Runs(p) /\ close_on_exec[p] # {}
    /\ CloseAll(p, close_on_exec[p])
    /\ filp' = [filp EXCEPT ![p] = [fd \in Fds |-> IF fd \in close_on_exec[p] THEN 0 ELSE @[fd]]]
    /\ close_on_exec' = [close_on_exec EXCEPT ![p] = {}]
    /\ UNCHANGED <<alive, opening>>

\* do_exit closes all.
do_exit(p) ==
    /\ Runs(p) /\ p # First
    /\ CloseAll(p, Fds)
    /\ filp' = [filp EXCEPT ![p] = Closed] /\ close_on_exec' = [close_on_exec EXCEPT ![p] = {}]
    /\ alive' = alive \ {p}
    /\ UNCHANGED opening

Next ==
    \E p \in Procs :
       \/ sys_open(p) \/ sys_open_return(p) \/ sys_pipe(p) \/ sys_pipe_return(p)
       \/ do_execve(p) \/ do_exit(p)
       \/ \E fd \in Fds : \/ sys_close(p, fd)
                          \/ \E on \in BOOLEAN : sys_fcntl(p, fd, on)
                          \/ \E arg \in Fds : dupfd(p, fd, arg) \/ sys_dup2(p, fd, arg)
       \/ \E child \in Procs : copy_process(p, child)

Spec == Init /\ [][Next]_vars
------------------------------------------------------------------------------
Descriptors(f) == {<<p, fd>> \in alive \X Fds : filp[p][fd] = f}

\* f_count is the number of descriptors of all processes that use the entry and
\* i_count the number of entries that use the inode, so that the last close, and
\* no other, lets go of the inode and sys_close never panics; only an open
\* descriptor is marked to be closed by execve.
FilesCounted ==
    /\ ~died
    /\ \A f \in Slots : file_table[f].f_count = Cardinality(Descriptors(f))
    /\ \A i \in Inos \cup Pipes : i_count[i] = Cardinality({f \in Slots :
          /\ file_table[f].f_inode = i /\ file_table[f].f_count > 0
          /\ \A p \in Procs : \A fd \in opening[p] : filp[p][fd] # f})
    /\ \A p \in alive : \A fd \in close_on_exec[p] : filp[p][fd] # 0
==============================================================================
