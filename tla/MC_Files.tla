------------------------------- MODULE MC_Files -------------------------------
(***************************************************************************)
(* The file system above its inodes: names, the data of files, open files  *)
(* and mounted devices.  A behaviour is one of the part that was chosen at *)
(* the start, with the others as they began.                               *)
(***************************************************************************)
EXTENDS Names, TLC

CONSTANTS t1, t2, file1, file2

VARIABLES part,
          s_zmap, i_zone, i_size, ind, data, bytes, f_inode, f_pos, overlap, calls, call,
          file_table, i_count_of, fds, close_on_exec, alive, opening, died,
          super_block, i_mount, s_count, s_windows, visit

\* The root, and two more inodes for what the paths name.
ThreePaths == {<<"a">>, <<"/", "a", "b">>, <<"a", "..", "">>}

\* Files of a direct block, an indirect block and a doubly indirect one, in five
\* blocks; one of the tasks appends.
Data == INSTANCE FileData WITH
    Files <- {file1, file2}, NDIRECT <- 1, NIND <- 2, BLOCK_SIZE <- 2, s_nzones <- 5,
    Seeks <- {0, 1, 6}, Appenders <- {t2}, Counts <- {1, 3}, MaxCalls <- 4

Table == INSTANCE OpenFiles WITH
    Procs <- {"p1", "p2"}, First <- "p1", NR_OPEN <- 2, NR_FILE <- 3, Inos <- {1}, Pipes <- {2},
    i_count <- i_count_of, filp <- fds

Mounts == INSTANCE Super WITH
    Tasks <- {"t1", "t2", "t3"}, Devs <- {"d1", "d2"}, Dirs <- {"m1", "m2"}, NR_SUPER <- 2,
    i_count <- s_count, windows <- s_windows

datavars  == <<s_zmap, i_zone, i_size, ind, data, bytes, f_inode, f_pos, overlap, calls, call>>
filevars  == <<file_table, i_count_of, fds, close_on_exec, alive, opening, died>>
mountvars == <<super_block, i_mount, s_count, s_windows, visit>>
all       == <<part, vars, datavars, filevars, mountvars>>

MCInit ==
    /\ part \in {"names", "data", "files", "mounts"}
    /\ Init /\ Data!Init /\ Table!Init /\ Mounts!Init
    /\ part # "names" => inode[2].kind = "free"
    /\ part # "data" => f_inode = [t \in Tasks |-> file1]

\* Calls on names and data are bounded, and a task that mounts can wait for ever
\* for another; the users of the file table always go on.
MCNext ==
    \/ part = "names" /\ Next /\ UNCHANGED <<part, datavars, filevars, mountvars>>
    \/ part = "data" /\ Data!Next /\ UNCHANGED <<part, vars, filevars, mountvars>>
    \/ part = "files" /\ Table!Next /\ UNCHANGED <<part, vars, datavars, mountvars>>
    \/ part = "mounts" /\ Mounts!Next /\ UNCHANGED <<part, vars, datavars, filevars>>
    \/ part # "files" /\ UNCHANGED all

MCSpec == MCInit /\ [][MCNext]_all

\* The two files are alike.
Alike == Permutations({file1, file2})

\* The entries agree with the inodes they name, and a task's directories stay in
\* the tree (namei.c), but for the races listed in windows.
TreeSound == part = "names" => NamesSound /\ PlaceKept

\* A block belongs to one file, and a file reads as it was last written (bmap,
\* new_block, free_block, truncate, file_read, file_write).
ContentsKept == part = "data" => Data!BlocksOwnedOnce /\ Data!ReadsBackWritten

\* f_count and i_count are the numbers of users (open.c, fcntl.c, pipe.c, fork, exit).
FilesCounted == part = "files" => Table!FilesCounted

\* Mounted devices, their super blocks and their directories agree (super.c).
MountsAgree == part = "mounts" => Mounts!MountsAgree
==============================================================================
