-------------------------------- MODULE Memory --------------------------------
(***************************************************************************)
(* Physical pages and page tables: fork shares every page of the parent    *)
(* write-protected, a write fault copies it, demand loading shares clean   *)
(* pages between tasks that run the same executable, and mem_map counts    *)
(* the users of a page.                                                    *)
(*                                                                         *)
(* The kernel is not preempted, so a handler is one step, except where it  *)
(* may sleep: do_no_page while it reads the page from disk; copy_strings   *)
(* while exec gathers its arguments; do_execve while it closes files,      *)
(* between naming the new executable and freeing the old page tables; and  *)
(* a system call between verify_area and storing its result.  A program    *)
(* can also be preempted before it repeats the store that faulted.         *)
(***************************************************************************)
EXTENDS Naturals, FiniteSets, Functions

CONSTANTS Tasks, Root,     \* task slots; task 0, which lives in low memory
          Frames,          \* the pages mem_map manages
          Low,             \* the pages below LOW_MEM
          Blocks, Pages,   \* page directory entries of a task, pages in each
          FilePages,       \* the addresses below end_data
          ArgPage,         \* the address of the argument page
          Execs,           \* executables; also stands for their contents
          Data,            \* bound: what programs store
          Zero, Args,      \* contents of a cleared page, of the arguments
          None

Addrs  == Blocks \X Pages
Values == Execs \cup Data \cup {Zero, Args}

ASSUME MemoryAssumption ==
    /\ IsFiniteSet(Tasks) /\ Root \in Tasks
    /\ Low \notin Frames /\ None \notin Frames \cup {Low} \cup Execs \cup Addrs \cup Values
    /\ FilePages \subseteq Addrs /\ ArgPage \in Addrs \ FilePages

VARIABLES mem_map,      \* users of a frame
          content,      \* what a frame holds
          task,         \* the frame of the task structure
          status,       \* where a task is
          dir,          \* the frame of each page table
          pte,          \* the page table entries: frame, R/W and dirty bits
          executable,   \* current->executable
          buf,          \* where the current system call, or the store that
                        \* faulted, is going to store
          args,         \* exec: the argument page
          fault, hold,  \* do_no_page: the address, and the page being read in
          lost,         \* history: argument pages nobody refers to any more
          spoiled       \* history: a task has stored into a page it shared, or
                        \* taken a page of a program that is being replaced

tables == <<dir, pte>>
calls  == <<buf, args>>
load   == <<fault, hold>>
history == <<lost, spoiled>>
vars   == <<mem_map, content, task, status, tables, executable, calls, load, history>>

\* The field written is history: the page was written, perhaps before a copy.
Pte == [frame : Frames \cup {Low, None}, rw : BOOLEAN, dirty : BOOLEAN, written : BOOLEAN]

TypeOK ==
    /\ mem_map \in [Frames -> Nat]
    /\ content \in [Frames \cup {Low} -> Values]
    /\ task \in [Tasks -> Frames \cup {None}]
    /\ status \in [Tasks -> {"free", "user", "trap", "call", "args", "closing", "zombie"}]
    /\ dir \in [Tasks -> [Blocks -> Frames \cup {Low, None}]]
    /\ pte \in [Tasks -> [Addrs -> Pte]]
    /\ executable \in [Tasks -> Execs \cup {None}]
    /\ buf \in [Tasks -> Addrs \cup {None}]
    /\ args \in [Tasks -> Frames \cup {None}]
    /\ fault \in [Tasks -> Addrs \cup {None}]
    /\ hold \in [Tasks -> Frames \cup {None}]
    /\ lost \subseteq Frames
    /\ spoiled \in BOOLEAN

NotPresent == [frame |-> None, rw |-> FALSE, dirty |-> FALSE, written |-> FALSE]
NoTables   == [b \in Blocks |-> None]
NoPages    == [a \in Addrs |-> NotPresent]

\* mem_init, and task 0 running in the low pages the boot code mapped.
Init ==
    /\ mem_map = [f \in Frames |-> 0]
    /\ content = [f \in Frames \cup {Low} |-> Zero]
    /\ task = [t \in Tasks |-> None]
    /\ status = [t \in Tasks |-> IF t = Root THEN "user" ELSE "free"]
    /\ \E b \in Blocks :
          /\ dir = [t \in Tasks |-> IF t = Root THEN [NoTables EXCEPT ![b] = Low] ELSE NoTables]
          /\ pte = [t \in Tasks |-> [a \in Addrs |->
                       IF t = Root /\ a[1] = b
                       THEN [frame |-> Low, rw |-> TRUE, dirty |-> FALSE, written |-> FALSE] ELSE NotPresent]]
    /\ executable = [t \in Tasks |-> None]
    /\ buf = [t \in Tasks |-> None] /\ args = [t \in Tasks |-> None]
    /\ fault = [t \in Tasks |-> None] /\ hold = [t \in Tasks |-> None]
    /\ lost = {} /\ spoiled = FALSE

------------------------------------------------------------------------------
\* A task whose page is being read in is asleep.
Runs(t) == fault[t] = None

\* A user program runs in t; t is not task 0, which only forks and pauses.
Program(t) == Runs(t) /\ status[t] = "user" /\ t # Root

Free == {f \in Frames : mem_map[f] = 0}

\* get_free_page: the code takes the last free page.
Pick(S) == CHOOSE f \in S : TRUE

Taken(S) == [f \in Frames |-> IF f \in S THEN 1 ELSE mem_map[f]]

\* The frames t's page tables refer to: free_page_tables gives up each of them
\* once for every entry, and no frame has two entries in a task (SingleUse).
Mapped(t) == {dir[t][b] : b \in Blocks} \cup {pte[t][a].frame : a \in Addrs}

Released(S) == [f \in Frames |-> IF f \in S THEN mem_map[f] - 1 ELSE mem_map[f]]

\* get_free_page clears the page it returns.  Nobody looks at a page between
\* free_page and that moment, so it is cleared here when its count drops to 0.
Wiped(count) == [f \in Frames \cup {Low} |->
                    IF f \in Frames /\ count[f] = 0 THEN Zero ELSE content[f]]

\* The page table put_page must add to map an address, from the frames left.
NeedsTable(t, a) == dir[t][a[1]] = None
CanMap(t, a, pool) == NeedsTable(t, a) => pool # {}
NewTable(t, a, pool) == IF NeedsTable(t, a) THEN {Pick(pool)} ELSE {}
WithTable(t, a, pool) ==
    IF NeedsTable(t, a) THEN [dir EXCEPT ![t][a[1]] = Pick(pool)] ELSE dir

\* do_exit; S is what the caller still holds and gave back before, as
\* do_no_page does with the page it could not map.  The pages exec keeps in
\* its frame are not among them.
Exit(t, S) ==
    /\ mem_map' = Released(Mapped(t) \cup S)
    /\ dir' = [dir EXCEPT ![t] = NoTables]
    /\ pte' = [pte EXCEPT ![t] = NoPages]
    /\ executable' = [executable EXCEPT ![t] = None]
    /\ status' = [status EXCEPT ![t] = "zombie"]
    /\ buf' = [buf EXCEPT ![t] = None]
    /\ args' = [args EXCEPT ![t] = None]
    /\ fault' = [fault EXCEPT ![t] = None]
    /\ hold' = [hold EXCEPT ![t] = None]
    /\ content' = Wiped(mem_map')
    /\ lost' = lost \cup ({args[t]} \ {None})
    /\ UNCHANGED <<task, spoiled>>

oom(t) == Exit(t, {hold[t]})

do_exit(t) == Program(t) /\ Exit(t, {})

release(t) ==
    /\ status[t] = "zombie"
    /\ status' = [status EXCEPT ![t] = "free"]
    /\ task' = [task EXCEPT ![t] = None]
    /\ mem_map' = Released({task[t]})
    /\ UNCHANGED <<content, tables, executable, calls, load, history>>

\* fork: one frame for the task structure, one for each page table.
Tabled(p) == {b \in Blocks : dir[p][b] # None}

\* Faulty: the parent keeps its write permission.
WriteProtected_not(e) == e

WriteProtected(e) == IF e.frame = Low THEN e ELSE [e EXCEPT !.rw = FALSE]

\* Faulty: the pages shared with the child are not counted.
copy_process_uncounted(p, c) ==
    LET page   == Pick(Free)
        copies == Injection(Tabled(p), Free \ {page})
        table  == CHOOSE g \in copies : TRUE
        new    == {page} \cup {table[b] : b \in Tabled(p)}
    IN
    /\ Runs(p) /\ status[p] = "user" /\ status[c] = "free"
    /\ Free # {} /\ copies # {}
    /\ status' = [status EXCEPT ![c] = "user"]
    /\ task' = [task EXCEPT ![c] = page]
    /\ dir' = [dir EXCEPT ![c] = [b \in Blocks |-> IF b \in Tabled(p) THEN table[b] ELSE None]]
    /\ pte' = [pte EXCEPT ![c] = [a \in Addrs |-> [pte[p][a] EXCEPT !.rw = FALSE]],
                          ![p] = [a \in Addrs |-> WriteProtected(pte[p][a])]]
    /\ mem_map' = [f \in Frames |-> IF f \in new THEN 1 ELSE mem_map[f]]
    /\ executable' = [executable EXCEPT ![c] = executable[p]]
    /\ UNCHANGED <<content, calls, load, history>>

copy_process(p, c) ==
    LET page   == Pick(Free)
        copies == Injection(Tabled(p), Free \ {page})
        table  == CHOOSE g \in copies : TRUE
        new    == {page} \cup {table[b] : b \in Tabled(p)}
        shared == {pte[p][a].frame : a \in Addrs}
    IN
    /\ Runs(p) /\ status[p] = "user" /\ status[c] = "free"
    /\ Free # {} /\ copies # {}
    /\ status' = [status EXCEPT ![c] = "user"]
    /\ task' = [task EXCEPT ![c] = page]
    /\ dir' = [dir EXCEPT ![c] = [b \in Blocks |-> IF b \in Tabled(p) THEN table[b] ELSE None]]
    /\ pte' = [pte EXCEPT ![c] = [a \in Addrs |-> [pte[p][a] EXCEPT !.rw = FALSE]],
                          ![p] = [a \in Addrs |-> WriteProtected(pte[p][a])]]
    /\ mem_map' = [f \in Frames |-> CASE f \in new -> 1
                                      [] f \in shared -> mem_map[f] + 1
                                      [] OTHER -> mem_map[f]]
    /\ executable' = [executable EXCEPT ![c] = executable[p]]
    /\ UNCHANGED <<content, calls, load, history>>

\* Out of memory after some page tables were copied: free_page_tables gives
\* everything back, but the parent's entries stay write-protected.
copy_process_fails(p, c) ==
    /\ Runs(p) /\ status[p] = "user" /\ status[c] = "free"
    /\ Free # {} /\ Injection(Tabled(p), Free \ {Pick(Free)}) = {}
    /\ \E D \in SUBSET Tabled(p) :
          /\ Cardinality(D) = Cardinality(Free) - 1
          /\ pte' = [pte EXCEPT ![p] = [a \in Addrs |->
                        IF a[1] \in D THEN WriteProtected(pte[p][a]) ELSE pte[p][a]]]
    /\ UNCHANGED <<mem_map, content, task, status, dir, executable, calls, load, history>>

------------------------------------------------------------------------------
\* The page fault handlers.
\* Faulty: the task that copies a page stays counted as a user of the old one.
un_wp_page_uncounted(t, a) ==
    LET old == pte[t][a].frame
        new == Pick(Free)
    IN
    IF old # Low /\ mem_map[old] = 1
    THEN /\ pte' = [pte EXCEPT ![t][a].rw = TRUE]
         /\ UNCHANGED <<mem_map, content>>
    ELSE /\ mem_map' = [f \in Frames |-> IF f = new THEN 1 ELSE mem_map[f]]
         /\ pte' = [pte EXCEPT ![t][a] = [@ EXCEPT !.frame = new, !.rw = TRUE, !.dirty = FALSE]]
         /\ content' = [content EXCEPT ![new] = content[old]]

un_wp_page(t, a) ==
    LET old == pte[t][a].frame
        new == Pick(Free)
    IN
    IF old # Low /\ mem_map[old] = 1
    THEN /\ pte' = [pte EXCEPT ![t][a].rw = TRUE]
         /\ UNCHANGED <<mem_map, content>>
    ELSE /\ mem_map' = [f \in Frames |-> CASE f = new -> 1
                                           [] f = old -> mem_map[f] - 1
                                           [] OTHER -> mem_map[f]]
         /\ pte' = [pte EXCEPT ![t][a] = [@ EXCEPT !.frame = new, !.rw = TRUE, !.dirty = FALSE]]
         /\ content' = [content EXCEPT ![new] = content[old]]

\* A page is copied and there is none left.
NoCopyLeft(t, a) ==
    LET old == pte[t][a].frame IN Free = {} /\ ~(old # Low /\ mem_map[old] = 1)

\* A write to a present, protected page.  It may have been shared again before
\* the program came to repeat the store.
do_wp_page(t, a) ==
    /\ Program(t) \/ (Runs(t) /\ status[t] = "trap" /\ buf[t] = a)
    /\ pte[t][a].frame # None /\ ~pte[t][a].rw
    /\ IF NoCopyLeft(t, a) THEN oom(t)
       ELSE /\ un_wp_page(t, a)
            /\ status' = [status EXCEPT ![t] = "trap"]
            /\ buf' = [buf EXCEPT ![t] = a]
            /\ UNCHANGED <<task, dir, executable, args, load, history>>

\* verify_area at the start of a system call that will store at address a.
verify_area(t, a) ==
    /\ Program(t)
    /\ LET protected == pte[t][a].frame # None /\ ~pte[t][a].rw IN
       IF protected /\ NoCopyLeft(t, a) THEN oom(t)
       ELSE /\ IF protected THEN un_wp_page(t, a) ELSE UNCHANGED <<mem_map, content, pte>>
            /\ status' = [status EXCEPT ![t] = "call"]
            /\ buf' = [buf EXCEPT ![t] = a]
            /\ UNCHANGED <<task, dir, executable, args, load, history>>

\* A page fault on an address that is not present is taken by a program, by a
\* system call storing its result, or by exec reading its arguments.
Faults(t, a) ==
    /\ Runs(t) /\ t # Root /\ pte[t][a].frame = None
    /\ \/ status[t] = "user"
       \/ status[t] = "call" /\ buf[t] = a
       \/ status[t] = "args"

get_empty_page(t, a) ==
    LET page == Pick(Free)
        pool == Free \ {page}
    IN IF Free # {} /\ CanMap(t, a, pool)
       THEN /\ mem_map' = Taken({page} \cup NewTable(t, a, pool))
            /\ dir' = WithTable(t, a, pool)
            /\ pte' = [pte EXCEPT ![t][a] = [frame |-> page, rw |-> TRUE, dirty |-> FALSE, written |-> FALSE]]
            /\ UNCHANGED <<content, task, status, executable, calls, load, history>>
       ELSE oom(t)

\* The tasks whose page share_page may take.
Sharers(t, a) ==
    {q \in Tasks \ {t, Root} :
        /\ executable[q] = executable[t]
        /\ pte[q][a].frame \notin {None, Low} /\ ~pte[q][a].dirty}

\* Faulty: the other task may go on writing.
try_to_share_writable(t, a, q) ==
    LET page == pte[q][a].frame IN
    IF CanMap(t, a, Free)
    THEN /\ mem_map' = [f \in Frames |-> CASE f \in NewTable(t, a, Free) -> 1
                                           [] f = page -> mem_map[f] + 1
                                           [] OTHER -> mem_map[f]]
         /\ dir' = WithTable(t, a, Free)
         /\ pte' = [pte EXCEPT ![t][a] = [frame |-> page, rw |-> FALSE, dirty |-> FALSE, written |-> FALSE]]
         /\ spoiled' = (spoiled \/ status[q] = "closing" \/ pte[q][a].written)
         /\ UNCHANGED <<content, task, status, executable, calls, load, lost>>
    ELSE oom(t)

try_to_share(t, a, q) ==
    LET page == pte[q][a].frame IN
    IF CanMap(t, a, Free)
    THEN /\ mem_map' = [f \in Frames |-> CASE f \in NewTable(t, a, Free) -> 1
                                           [] f = page -> mem_map[f] + 1
                                           [] OTHER -> mem_map[f]]
         /\ dir' = WithTable(t, a, Free)
         /\ pte' = [pte EXCEPT ![q][a].rw = FALSE,
                               ![t][a] = [frame |-> page, rw |-> FALSE, dirty |-> FALSE, written |-> FALSE]]
         /\ spoiled' = (spoiled \/ status[q] = "closing" \/ pte[q][a].written)
         /\ UNCHANGED <<content, task, status, executable, calls, load, lost>>
    ELSE oom(t)

do_no_page(t, a) ==
    /\ Faults(t, a)
    /\ IF executable[t] = None \/ a \notin FilePages THEN get_empty_page(t, a)
       ELSE \/ \E q \in Sharers(t, a) : try_to_share(t, a, q)
            \/ /\ Sharers(t, a) = {}
               /\ IF Free = {} THEN oom(t)
                  ELSE /\ fault' = [fault EXCEPT ![t] = a]
                       /\ hold' = [hold EXCEPT ![t] = Pick(Free)]
                       /\ mem_map' = Taken({Pick(Free)})
                       /\ UNCHANGED <<content, task, status, tables, executable, calls, history>>

\* The page has been read: put_page.
do_no_page_loaded(t) ==
    LET a == fault[t] IN
    /\ a # None
    /\ IF CanMap(t, a, Free)
       THEN /\ mem_map' = Taken(NewTable(t, a, Free))
            /\ content' = [content EXCEPT ![hold[t]] = executable[t]]
            /\ dir' = WithTable(t, a, Free)
            /\ pte' = [pte EXCEPT ![t][a] = [frame |-> hold[t], rw |-> TRUE, dirty |-> FALSE, written |-> FALSE]]
            /\ fault' = [fault EXCEPT ![t] = None]
            /\ hold' = [hold EXCEPT ![t] = None]
            /\ UNCHANGED <<task, status, executable, calls, history>>
       ELSE oom(t)

------------------------------------------------------------------------------
\* A store by a program, at once or repeated after a fault.
Store(t, a) ==
    /\ \E v \in Data : content' = [content EXCEPT ![pte[t][a].frame] = v]
    /\ pte' = [pte EXCEPT ![t][a].dirty = TRUE, ![t][a].written = TRUE]
    /\ status' = [status EXCEPT ![t] = "user"]
    /\ buf' = [buf EXCEPT ![t] = None]
    /\ spoiled' = (spoiled \/ ~pte[t][a].rw)
    /\ UNCHANGED <<mem_map, task, dir, executable, args, load, lost>>

user_store(t, a) ==
    /\ Program(t) \/ (Runs(t) /\ status[t] = "trap" /\ buf[t] = a)
    /\ pte[t][a].rw
    /\ Store(t, a)

\* The store of a system call: in supervisor mode the processor ignores the
\* R/W bit.
put_fs_byte(t) ==
    /\ Runs(t) /\ status[t] = "call" /\ pte[t][buf[t]].frame # None
    /\ Store(t, buf[t])

\* It stores nothing: an error, or the end of the file.
sys_read_fails(t) ==
    /\ Runs(t) /\ status[t] = "call"
    /\ status' = [status EXCEPT ![t] = "user"]
    /\ buf' = [buf EXCEPT ![t] = None]
    /\ UNCHANGED <<mem_map, content, task, tables, executable, args, load, history>>

------------------------------------------------------------------------------
\* exec.
copy_strings(t) ==
    /\ Program(t) /\ Free # {}
    /\ args' = [args EXCEPT ![t] = Pick(Free)]
    /\ status' = [status EXCEPT ![t] = "args"]
    /\ mem_map' = Taken({Pick(Free)})
    /\ content' = [content EXCEPT ![Pick(Free)] = Args]
    /\ UNCHANGED <<task, tables, executable, buf, load, history>>

exec_error(t) ==
    /\ Runs(t) /\ status[t] = "args"
    /\ mem_map' = Released({args[t]})
    /\ content' = Wiped(mem_map')
    /\ args' = [args EXCEPT ![t] = None]
    /\ status' = [status EXCEPT ![t] = "user"]
    /\ UNCHANGED <<task, tables, executable, buf, load, history>>

\* The point of no return.
do_execve(t) ==
    /\ Runs(t) /\ status[t] = "args"
    /\ \E e \in Execs : executable' = [executable EXCEPT ![t] = e]
    /\ status' = [status EXCEPT ![t] = "closing"]
    /\ UNCHANGED <<mem_map, content, task, tables, calls, load, history>>

\* free_page_tables and change_ldt.  put_page's result is not looked at.
change_ldt(t) ==
    LET freed == Released(Mapped(t))
        pool  == {f \in Frames : freed[f] = 0}
    IN
    /\ Runs(t) /\ status[t] = "closing"
    /\ IF pool # {}
       THEN /\ mem_map' = [freed EXCEPT ![Pick(pool)] = 1]
            /\ dir' = [dir EXCEPT ![t] = [NoTables EXCEPT ![ArgPage[1]] = Pick(pool)]]
            /\ pte' = [pte EXCEPT ![t] = [NoPages EXCEPT ![ArgPage] =
                           [frame |-> args[t], rw |-> TRUE, dirty |-> FALSE, written |-> FALSE]]]
            /\ UNCHANGED lost
       ELSE /\ mem_map' = freed
            /\ lost' = lost \cup {args[t]}
            /\ dir' = [dir EXCEPT ![t] = NoTables]
            /\ pte' = [pte EXCEPT ![t] = NoPages]
    /\ content' = Wiped(freed)
    /\ args' = [args EXCEPT ![t] = None]
    /\ status' = [status EXCEPT ![t] = "user"]
    /\ UNCHANGED <<task, executable, buf, load, spoiled>>

Next ==
    \/ \E t \in Tasks :
          \/ do_exit(t) \/ release(t) \/ do_no_page_loaded(t) \/ put_fs_byte(t) \/ sys_read_fails(t)
          \/ copy_strings(t) \/ exec_error(t) \/ do_execve(t) \/ change_ldt(t)
          \/ \E c \in Tasks : copy_process(t, c) \/ copy_process_fails(t, c)
          \/ \E a \in Addrs :
                do_wp_page(t, a) \/ verify_area(t, a) \/ do_no_page(t, a) \/ user_store(t, a)

Spec == Init /\ [][Next]_vars

------------------------------------------------------------------------------
\* The references to frames: by a task structure, by exec and do_no_page while
\* they sleep, by a page directory and by a page table.
Uses == {<<"task", None>>, <<"args", None>>, <<"hold", None>>}
        \cup ({"table"} \X Blocks) \cup ({"page"} \X Addrs)

Target(t, u) ==
    CASE u[1] = "task"  -> task[t]
      [] u[1] = "args"  -> args[t]
      [] u[1] = "hold"  -> hold[t]
      [] u[1] = "table" -> dir[t][u[2]]
      [] u[1] = "page"  -> pte[t][u[2]].frame

Refs(f) == {r \in Tasks \X Uses : Target(r[1], r[2]) = f}

\* A frame has one use.  Tasks share pages only, never a page table or a task
\* structure, and they share a page at one address: no frame is taken while
\* somebody uses it, and mem_map stays within the number of tasks although it
\* is an unsigned char.
SingleUse ==
    \A f \in Frames :
        LET uses == {r[2] : r \in Refs(f)} IN
        /\ Cardinality(uses) <= 1
        /\ Cardinality(Refs(f)) > 1 => uses \subseteq {"page"} \X Addrs

\* mem_map is exact: free_page never meets a free page and nothing is freed that
\* somebody still uses, also when fork, a page fault or exec runs out of memory
\* half way.  Only the argument page of an exec that is killed for lack of
\* memory stays counted for ever.
CountExact ==
    \A f \in Frames : mem_map[f] = Cardinality(Refs(f)) + IF f \in lost THEN 1 ELSE 0

\* A page of several tasks is write-protected in all of them, so that the next
\* write faults and un_wp_page copies it.
SharedReadOnly ==
    \A t, u \in Tasks, a \in Addrs :
        /\ t # u /\ pte[t][a].rw
        /\ pte[t][a].frame \notin {None, Low}
        => pte[u][a].frame # pte[t][a].frame

\* The frames are accounted for: each has one use, mem_map counts its users, and
\* a user that may write has it alone.
FramesSound == TypeOK /\ SingleUse /\ CountExact /\ SharedReadOnly

\* What a task finds at an address, once exec has committed itself the new image.
Seen(t) ==
    IF status[t] = "closing"
    THEN [a \in Addrs |-> IF a = ArgPage THEN Args ELSE None]
    ELSE [a \in Addrs |-> IF pte[t][a].frame = None THEN None ELSE content[pte[t][a].frame]]

Private == INSTANCE AddressSpaces WITH mem <- [t \in Tasks |-> Seen(t)]

\* Copy-on-write, demand loading and page sharing cannot be told from memory of
\* one's own (module AddressSpaces): the comment at do_wp_page says a write to a
\* shared page copies it.
PrivateMemory == Private!Spec

\* ... as long as no system call stores through an entry that is write-protected
\* (verify_area passed over a page that was absent, or the page was shared again
\* after verify_area), no page is taken from a task in exec that has the name of
\* the new program and still the pages of the old one, and none whose contents
\* were written before un_wp_page gave them an entry that is not dirty.
PrivateUnlessSpoiled ==
    Private!Init /\ [][Private!Next \/ spoiled']_(Private!vars)
------------------------------------------------------------------------------
\* Two pages under one page table, the first backed by the executable, the second
\* taking the arguments, for the configurations.
OneBlock == {1}
TwoPages == {0, 1}
TextPage == {<<1, 0>>}
ArgPage1 == <<1, 1>>

\* Frames are alike: no action and no property depends on which free frame
\* get_free_page returns.  A frame is told from others by its uses, so two
\* states that differ in the names of frames only are one state.
Frame(f) == IF f \in Frames THEN <<Refs(f), mem_map[f], content[f]>> ELSE f

FrameView ==
    <<[t \in Tasks |-> [u \in Uses |-> Frame(Target(t, u))]],
      [t \in Tasks |-> [a \in Addrs |-> [pte[t][a] EXCEPT !.frame = None]]],
      content[Low], status, executable, buf, fault, spoiled,
      Cardinality(Free), Cardinality(lost)>>
==============================================================================
