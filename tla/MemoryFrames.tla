----------------------------- MODULE MemoryFrames ----------------------------
(***************************************************************************)
(* What the handlers of module Memory do to the page frames, for any       *)
(* number of tasks, frames, page tables and pages.                         *)
(*                                                                         *)
(* Every handler changes what one task refers to.  A frame has at most one *)
(* place in a task, so what a handler does to a frame is how its place in  *)
(* that task changes: taken, given back, shared, moved or lost.  That the  *)
(* counts then stay right is shown in module MemoryProofs.  First come the *)
(* handlers that take, keep or give back the pages of one task, then those *)
(* that map pages and page tables: get_empty_page, do_no_page,             *)
(* try_to_share, change_ldt and copy_process.                              *)
(***************************************************************************)
EXTENDS Memory, TLAPS

\* The places where a task may refer to a frame.
TaskUse     == <<"task", None>>
ArgsUse     == <<"args", None>>
HoldUse     == <<"hold", None>>
TableUse(b) == <<"table", b>>
PageUse(a)  == <<"page", a>>
NoUse       == <<"none", None>>

\* w is the one place of f in a task with the given components.
PlaceOf(tk, ag, hd, dr, row, f, w) ==
    /\ w \in Uses \cup {NoUse}
    /\ tk = f <=> w = TaskUse
    /\ ag = f <=> w = ArgsUse
    /\ hd = f <=> w = HoldUse
    /\ \A b \in Blocks : dr[b] = f <=> w = TableUse(b)
    /\ \A a \in Addrs : row[a].frame = f <=> w = PageUse(a)

Place(t, f, w) == PlaceOf(task[t], args[t], hold[t], dir[t], pte[t], f, w)

\* Target, of one task with the given components.
At(tk, ag, hd, dr, row, u) ==
    CASE u[1] = "task"  -> tk
      [] u[1] = "args"  -> ag
      [] u[1] = "hold"  -> hd
      [] u[1] = "table" -> dr[u[2]]
      [] u[1] = "page"  -> row[u[2]].frame

\* A frame f with the set S of references to it and the count n; l are the lost
\* frames.  References of several tasks are pages at one address.
Accounted(f, S, n, l) ==
    /\ \A r, s \in S : r[2] = s[2] /\ (r # s => r[2][1] = "page")
    /\ IsFiniteSet(S)
    /\ n = Cardinality(S) + IF f \in l THEN 1 ELSE 0
    /\ f \in l => S = {}

\* What such a count tells.
Tells(S, n) ==
    /\ n \in Nat /\ (n = 0 => S = {})
    /\ \A r \in S : n # 0 /\ (n = 1 => S = {r})

FrameOK(f, S, n, l) == Accounted(f, S, n, l) /\ Tells(S, n)

\* What holds of one task besides the types: exec and do_no_page have their page
\* while they sleep, and a task that is gone has no memory.
TaskOK(t) ==
    /\ args[t] # None <=> status[t] \in {"args", "closing"}
    /\ hold[t] # None <=> fault[t] # None
    /\ fault[t] # None => /\ status[t] \in {"user", "call", "args"}
                          /\ pte[t][fault[t]].frame = None /\ executable[t] # None
    /\ status[t] \in {"free", "zombie"} => \A b \in Blocks : dir[t][b] = None
    /\ status[t] \in {"free", "zombie"} => \A a \in Addrs : pte[t][a].frame = None
    /\ status[t] = "free" => task[t] = None
    /\ status[t] \in {"trap", "call"} => buf[t] # None

\* The types; that a count is a number follows from FrameOK.
Types ==
    /\ mem_map = [f \in Frames |-> mem_map[f]]
    /\ content \in [Frames \cup {Low} -> Values]
    /\ task \in [Tasks -> Frames \cup {None}]
    /\ status \in [Tasks -> {"free", "user", "trap", "call", "args", "closing", "zombie"}]
    /\ dir \in [Tasks -> [Blocks -> Frames \cup {Low, None}]]
    /\ executable \in [Tasks -> Execs \cup {None}]
    /\ buf \in [Tasks -> Addrs \cup {None}]
    /\ args \in [Tasks -> Frames \cup {None}]
    /\ fault \in [Tasks -> Addrs \cup {None}]
    /\ hold \in [Tasks -> Frames \cup {None}]
    /\ lost \subseteq Frames

PtesOK(pt) == pt \in [Tasks -> [Addrs -> Pte]]

Counted == \A f \in Frames : FrameOK(f, Refs(f), mem_map[f], lost)

\* The inductive invariant.
MemInv ==
    /\ Types /\ PtesOK(pte) /\ spoiled \in BOOLEAN
    /\ Counted /\ SharedReadOnly
    /\ \A t \in Tasks : TaskOK(t)

-------------------------------------------------------------------------------
\* A use is of one of five kinds, and the kinds are different.
LEMMA UseKinds ==
  ASSUME NEW u \in Uses
  PROVE  \/ u = TaskUse \/ u = ArgsUse \/ u = HoldUse
         \/ \E b \in Blocks : u = TableUse(b)
         \/ \E a \in Addrs : u = PageUse(a)
BY DEF Uses, TaskUse, ArgsUse, HoldUse, TableUse, PageUse

\* The places are different.
LEMMA UsesApart ==
    /\ TaskUse # ArgsUse /\ TaskUse # HoldUse /\ ArgsUse # HoldUse
    /\ NoUse \notin {TaskUse, ArgsUse, HoldUse}
    /\ \A b \in Blocks : TableUse(b) \notin {NoUse, TaskUse, ArgsUse, HoldUse}
    /\ \A a \in Addrs : PageUse(a) \notin {NoUse, TaskUse, ArgsUse, HoldUse}
    /\ \A b \in Blocks, a \in Addrs : TableUse(b) # PageUse(a)
    /\ \A b, c \in Blocks : TableUse(b) = TableUse(c) => b = c
    /\ \A a, c \in Addrs : PageUse(a) = PageUse(c) => a = c
BY Zenon DEF TaskUse, ArgsUse, HoldUse, TableUse, PageUse, NoUse

\* Only pages are shared.
LEMMA UsesAre ==
    /\ {TaskUse, ArgsUse, HoldUse} \subseteq Uses /\ NoUse \notin Uses
    /\ \A b \in Blocks : TableUse(b) \in Uses
    /\ \A a \in Addrs : PageUse(a) \in Uses
    /\ \A u \in Uses : u[1] = "page" <=> \E a \in Addrs : u = PageUse(a)
BY DEF Uses, TaskUse, ArgsUse, HoldUse, TableUse, PageUse, NoUse

\* The targets by kind.
Targets(tk, ag, hd, dr, row) ==
    /\ At(tk, ag, hd, dr, row, TaskUse) = tk /\ At(tk, ag, hd, dr, row, ArgsUse) = ag
    /\ At(tk, ag, hd, dr, row, HoldUse) = hd
    /\ \A b \in Blocks : At(tk, ag, hd, dr, row, TableUse(b)) = dr[b]
    /\ \A a \in Addrs : At(tk, ag, hd, dr, row, PageUse(a)) = row[a].frame

\* At is one of the components.
LEMMA AtKinds ==
  ASSUME NEW tk, NEW ag, NEW hd, NEW dr, NEW row
  PROVE  Targets(tk, ag, hd, dr, row)
BY Zenon DEF Targets, At, TaskUse, ArgsUse, HoldUse, TableUse, PageUse

\* The one place of a frame is the one use that refers to it.
LEMMA PlaceAt ==
  ASSUME NEW tk, NEW ag, NEW hd, NEW dr, NEW row, NEW f, NEW w, PlaceOf(tk, ag, hd, dr, row, f, w),
         NEW u \in Uses
  PROVE  At(tk, ag, hd, dr, row, u) = f <=> u = w
<1>1. Targets(tk, ag, hd, dr, row)
  BY AtKinds, Zenon
<1> QED
  BY <1>1, UseKinds, Zenon DEF PlaceOf, Targets

-------------------------------------------------------------------------------
\* What may become of a frame f with the references S and the count n, whose place
\* in t was w and is w2, and the lost frames l: nothing, it is taken, given back,
\* shared with a task that has it at the same address, moved, or lost.
Becomes(f, S, t, w, w2, n, n2, l, l2) ==
    \/ w2 = w /\ n2 = n /\ (f \in l2 <=> f \in l)
    \/ n = 0 /\ w2 \in Uses /\ n2 = 1 /\ (f \in l2 <=> f \in l)
    \/ w \in Uses /\ w2 = NoUse /\ n2 = n - 1 /\ (f \in l2 <=> f \in l)
    \/ /\ w = NoUse /\ n2 = n + 1 /\ (f \in l2 <=> f \in l)
       /\ \E q \in Tasks, a \in Addrs : w2 = PageUse(a) /\ <<q, w2>> \in S
    \/ /\ w \in Uses /\ w2 \in Uses /\ (n = 1 \/ w[1] # "page") /\ n2 = n
       /\ f \in l2 <=> f \in l
    \/ w \in Uses /\ w[1] # "page" /\ w2 = NoUse /\ n2 = n /\ f \in l2

\* A step that leaves the components of q alone, but for the flags in its entries.
SameTask(q) ==
    /\ task'[q] = task[q] /\ args'[q] = args[q] /\ hold'[q] = hold[q] /\ dir'[q] = dir[q]
    /\ status'[q] = status[q] /\ executable'[q] = executable[q] /\ buf'[q] = buf[q]
    /\ fault'[q] = fault[q]
    /\ \A a \in Addrs : pte'[q][a].frame = pte[q][a].frame

OnlyTask(t) == \A q \in Tasks : q # t => SameTask(q)

FrameMoves(t, f) ==
    \E w, w2 : /\ Place(t, f, w) /\ Place(t, f, w2)'
               /\ Becomes(f, Refs(f), t, w, w2, mem_map[f], mem_map'[f], lost, lost')

\* What a handler does, to one task.
Changes(t) ==
    /\ OnlyTask(t) /\ Types' /\ PtesOK(pte') /\ spoiled' \in BOOLEAN
    /\ SharedReadOnly' /\ TaskOK(t)'
    /\ \A f \in Frames : FrameMoves(t, f)

\* A reference is a use whose target is the frame.
LEMMA RefIs ==
  ASSUME NEW f, NEW q \in Tasks, NEW u \in Uses
  PROVE  <<q, u>> \in Refs(f) <=> At(task[q], args[q], hold[q], dir[q], pte[q], u) = f
BY Zenon DEF Refs, Target, At

\* A frame has one place in a task.
LEMMA Placed ==
  ASSUME MemInv, NEW t \in Tasks, NEW f \in Frames
  PROVE  \E w \in Uses \cup {NoUse} : Place(t, f, w)
<1> DEFINE U(u) == At(task[t], args[t], hold[t], dir[t], pte[t], u)
<1>1. \A u, v \in Uses : U(u) = f /\ U(v) = f => u = v
  <2>1. FrameOK(f, Refs(f), mem_map[f], lost)
    BY Zenon DEF MemInv, Counted
  <2> SUFFICES ASSUME NEW u \in Uses, NEW v \in Uses, U(u) = f, U(v) = f PROVE u = v
    BY Zenon
  <2>2. <<t, u>> \in Refs(f) /\ <<t, v>> \in Refs(f)
    BY RefIs, Zenon
  <2> QED
    BY <2>1, <2>2, Zenon DEF FrameOK, Accounted
<1>2. /\ U(TaskUse) = task[t] /\ U(ArgsUse) = args[t] /\ U(HoldUse) = hold[t]
      /\ \A b \in Blocks : U(TableUse(b)) = dir[t][b]
      /\ \A a \in Addrs : U(PageUse(a)) = pte[t][a].frame
  <2>1. Targets(task[t], args[t], hold[t], dir[t], pte[t])
    BY AtKinds, Zenon
  <2> QED
    BY <2>1, Zenon DEF Targets
<1> HIDE DEF U
<1>3. /\ TaskUse \in Uses /\ ArgsUse \in Uses /\ HoldUse \in Uses /\ NoUse \notin Uses
      /\ \A b \in Blocks : TableUse(b) \in Uses
      /\ \A a \in Addrs : PageUse(a) \in Uses
  BY UsesAre, Zenon
<1>4. ASSUME NEW w \in Uses, U(w) = f PROVE Place(t, f, w)
  BY <1>1, <1>2, <1>3, <1>4, Zenon DEF Place, PlaceOf
<1>5. ASSUME \A u \in Uses : U(u) # f PROVE Place(t, f, NoUse)
  BY <1>2, <1>3, <1>5, Zenon DEF Place, PlaceOf
<1> QED
  BY <1>4, <1>5, Zenon

\* A place is a reference,
LEMMA PlaceRef ==
  ASSUME NEW t \in Tasks, NEW f, NEW w \in Uses, Place(t, f, w)
  PROVE  <<t, w>> \in Refs(f)
<1>1. At(task[t], args[t], hold[t], dir[t], pte[t], w) = f
  BY PlaceAt DEF Place
<1> QED
  BY <1>1, RefIs, Zenon

\* and so is an entry.
LEMMA PageRef ==
  ASSUME NEW q \in Tasks, NEW a \in Addrs
  PROVE  PageUse(a) \in Uses /\ <<q, PageUse(a)>> \in Refs(pte[q][a].frame)
<1>1. PageUse(a) \in Uses /\ Targets(task[q], args[q], hold[q], dir[q], pte[q])
  BY UsesAre, AtKinds, Zenon
<1> QED
  BY <1>1, RefIs, Zenon DEF Targets

\* A frame that is referred to is not free, and its references are alike.
LEMMA OneUse ==
  ASSUME MemInv, NEW f \in Frames
  PROVE  /\ mem_map[f] \in Nat
         /\ \A r, s \in Refs(f) : r[2] = s[2] /\ mem_map[f] # 0 /\ (mem_map[f] = 1 => r = s)
<1>1. FrameOK(f, Refs(f), mem_map[f], lost)
  BY Zenon DEF MemInv, Counted
<1> QED
  BY <1>1, Zenon DEF FrameOK, Accounted, Tells

\* The same for two references given by task and use.
LEMMA SameUse ==
  ASSUME MemInv, NEW f \in Frames, NEW q, NEW w, NEW r, NEW x,
         <<q, w>> \in Refs(f), <<r, x>> \in Refs(f)
  PROVE  w = x /\ (mem_map[f] = 1 => q = r)
<1>1. <<q, w>>[2] = <<r, x>>[2] /\ (mem_map[f] = 1 => <<q, w>> = <<r, x>>)
  BY OneUse, ZenonT(40)
<1> QED
  BY <1>1, Zenon

\* So is one with a place.
LEMMA UsedCount ==
  ASSUME MemInv, NEW t \in Tasks, NEW f \in Frames, NEW w, Place(t, f, w)
  PROVE  mem_map[f] \in Nat /\ (w \in Uses => mem_map[f] # 0)
BY PlaceRef, OneUse, Zenon

\* A free frame has no place,
LEMMA FreePlace ==
  ASSUME MemInv, NEW t \in Tasks, NEW f \in Frames, mem_map[f] = 0
  PROVE  Place(t, f, NoUse)
<1>1. PICK w \in Uses \cup {NoUse} : Place(t, f, w)
  BY Placed, Zenon
<1> QED
  BY <1>1, UsedCount, Zenon

\* and no entry has it.
LEMMA FreeFrame ==
  ASSUME MemInv, NEW f \in Frames, mem_map[f] = 0, NEW q \in Tasks, NEW a \in Addrs
  PROVE  pte[q][a].frame # f
<1>1. <<q, PageUse(a)>> \in Refs(pte[q][a].frame)
  BY PageRef, Zenon
<1> QED
  BY <1>1, OneUse, Zenon

\* No task has a page that is something else to another task.
LEMMA NotShared ==
  ASSUME MemInv, NEW t \in Tasks, NEW f \in Frames, NEW w \in {HoldUse, ArgsUse}, Place(t, f, w),
         NEW q \in Tasks, NEW a \in Addrs
  PROVE  pte[q][a].frame # f
<1> SUFFICES ASSUME pte[q][a].frame = f PROVE FALSE
  BY Zenon
<1>1. w \in Uses /\ w # PageUse(a)
  BY UsesApart, UsesAre, Zenon
<1>2. <<t, w>> \in Refs(f)
  BY <1>1, PlaceRef, Zenon
<1>3. <<q, PageUse(a)>> \in Refs(f)
  BY PageRef, Zenon
<1>4. w = PageUse(a)
  BY <1>2, <1>3, SameUse, Zenon
<1> QED
  BY <1>1, <1>4, Zenon

\* The invariant when only flags of entries and what tasks are doing change.
LEMMA FramesStay ==
  ASSUME MemInv, UNCHANGED <<mem_map, task, dir, args, hold, lost>>,
         \A q \in Tasks, a \in Addrs : pte'[q][a].frame = pte[q][a].frame,
         NEW t \in Tasks, NEW f \in Frames
  PROVE  FrameMoves(t, f)
<1>1. PICK w \in Uses \cup {NoUse} : Place(t, f, w)
  BY Placed, Zenon
<1>2. Place(t, f, w)'
  BY <1>1, Zenon DEF Place, PlaceOf
<1>3. Becomes(f, Refs(f), t, w, w, mem_map[f], mem_map'[f], lost, lost')
  BY Zenon DEF Becomes
<1> QED
  BY <1>1, <1>2, <1>3, Zenon DEF FrameMoves

\* What the proofs take from the invariant.
LEMMA Known ==
  ASSUME MemInv, NEW t \in Tasks
  PROVE  /\ Types /\ PtesOK(pte) /\ SharedReadOnly /\ TaskOK(t) /\ spoiled \in BOOLEAN
         /\ None \notin Frames /\ Low \notin Frames /\ None # Low /\ None \notin Addrs /\ None \notin Execs
BY MemoryAssumption, Zenon DEF MemInv

\* No task may write to a page it shares after a step that gives no entry a frame
\* or write permission,
LEMMA ReadOnlyKept ==
  ASSUME SharedReadOnly,
         \A t \in Tasks, a \in Addrs :
            \/ pte'[t][a].frame \in {None, Low}
            \/ pte'[t][a].frame = pte[t][a].frame /\ (pte'[t][a].rw => pte[t][a].rw)
  PROVE  SharedReadOnly'
BY DEF SharedReadOnly

\* nor after an entry got a frame that no other task has there.
LEMMA ReadOnlyOne ==
  ASSUME SharedReadOnly, NEW t \in Tasks, NEW a \in Addrs,
         \A q \in Tasks, c \in Addrs : q # t \/ c # a => pte'[q][c] = pte[q][c],
         \A q \in Tasks : q # t => pte[q][a].frame # pte'[t][a].frame
  PROVE  SharedReadOnly'
BY DEF SharedReadOnly

\* A task that only goes on to something else: sys_read_fails, do_execve, and
\* verify_area when there is nothing to copy.
LEMMA QuietStep ==
  ASSUME MemInv, NEW t \in Tasks, OnlyTask(t), Types', TaskOK(t)',
         UNCHANGED <<mem_map, task, dir, pte, args, hold, lost, spoiled>>
  PROVE  Changes(t)
<1>1. PtesOK(pte') /\ spoiled' \in BOOLEAN /\ SharedReadOnly'
  BY Known, ZenonT(40) DEF PtesOK, SharedReadOnly
<1>2. \A f \in Frames : FrameMoves(t, f)
  BY FramesStay, Zenon
<1> QED
  BY <1>1, <1>2, Zenon DEF Changes

\* sys_read returns without having stored anything.
LEMMA ReadFailsStep ==
  ASSUME MemInv, NEW t \in Tasks, sys_read_fails(t)
  PROVE  Changes(t)
<1>1. Types' /\ OnlyTask(t) /\ UNCHANGED <<mem_map, task, dir, pte, args, hold, lost, spoiled>>
  BY Known, Zenon DEF sys_read_fails, Types, OnlyTask, SameTask, tables, load, history
<1>2. TaskOK(t)'
  BY Known, Zenon DEF TaskOK, Types, sys_read_fails, tables, load
<1> QED
  BY <1>1, <1>2, QuietStep, Zenon

\* do_execve at its point of no return: only the executable changes.
LEMMA ExecveStep ==
  ASSUME MemInv, NEW t \in Tasks, do_execve(t)
  PROVE  Changes(t)
<1>1. Types' /\ OnlyTask(t) /\ UNCHANGED <<mem_map, task, dir, pte, args, hold, lost, spoiled>>
  BY Known, Zenon DEF do_execve, Types, OnlyTask, SameTask, tables, calls, load, history
<1>2. TaskOK(t)'
  BY Known, Zenon DEF TaskOK, Types, do_execve, tables, calls, load, Runs
<1> QED
  BY <1>1, <1>2, QuietStep

\* verify_area when there is nothing to copy.
LEMMA VerifyStep ==
  ASSUME MemInv, NEW t \in Tasks, NEW a \in Addrs, Program(t),
         status' = [status EXCEPT ![t] = "call"], buf' = [buf EXCEPT ![t] = a],
         UNCHANGED <<mem_map, content, pte, task, dir, executable, args, load, history>>
  PROVE  Changes(t)
<1>1. Types' /\ OnlyTask(t) /\ UNCHANGED <<mem_map, task, dir, pte, args, hold, lost, spoiled>>
  BY Known, Zenon DEF Types, OnlyTask, SameTask, load, history
<1>2. TaskOK(t)'
  BY Known, Zenon DEF TaskOK, Types, Program, Runs, load
<1> QED
  BY <1>1, <1>2, QuietStep, Zenon

\* Pick takes a member.
LEMMA PickFree ==
  ASSUME NEW S \in SUBSET Frames, S # {}
  PROVE  Pick(S) \in S
BY Zenon DEF Pick

\* A page taken by exec for its arguments.
LEMMA CopyStringsStep ==
  ASSUME MemInv, NEW t \in Tasks, copy_strings(t)
  PROVE  Changes(t)
<1> DEFINE x == Pick(Free)
<1>1. /\ x \in Frames /\ mem_map[x] = 0 /\ args[t] = None /\ args'[t] = x
      /\ mem_map' = [f \in Frames |-> IF f = x THEN 1 ELSE mem_map[f]]
      /\ UNCHANGED <<task, dir, pte, hold, fault, lost, spoiled>>
  <2>1. x \in Frames /\ mem_map[x] = 0
    BY PickFree, Zenon DEF copy_strings, Free
  <2> HIDE DEF x
  <2> QED
    BY <2>1, Known, Zenon DEF copy_strings, Program, Runs, Types, TaskOK, Taken, tables, load, history, x
<1>2. Types' /\ OnlyTask(t)
  BY Known, <1>1, ZenonT(40) DEF Types, Values, OnlyTask, SameTask, copy_strings
<1>3. TaskOK(t)'
  BY Known, <1>1, Zenon DEF TaskOK, Types, copy_strings, Program, Runs
<1> HIDE DEF x
<1>4. ASSUME NEW f \in Frames PROVE FrameMoves(t, f)
  <2>1. PICK w \in Uses \cup {NoUse} : Place(t, f, w)
    BY Placed, Zenon
  <2>2. CASE f = x
    <3>1. Place(t, f, NoUse)
      BY <1>1, <2>2, FreePlace, Zenon
    <3>2. Place(t, f, ArgsUse)'
      BY <1>1, <2>2, <3>1, UsesApart, UsesAre, Zenon DEF Place, PlaceOf
    <3>3. Becomes(f, Refs(f), t, NoUse, ArgsUse, mem_map[f], mem_map'[f], lost, lost')
      BY <1>1, <2>2, UsesAre, Zenon DEF Becomes
    <3> QED
      BY <3>1, <3>2, <3>3, Zenon DEF FrameMoves
  <2>3. CASE f # x
    <3>1. Place(t, f, w)'
      BY <1>1, <2>1, <2>3, Known, Zenon DEF Place, PlaceOf
    <3>2. Becomes(f, Refs(f), t, w, w, mem_map[f], mem_map'[f], lost, lost')
      BY <1>1, <2>3, Zenon DEF Becomes
    <3> QED
      BY <2>1, <3>1, <3>2, Zenon DEF FrameMoves
  <2> QED
    BY <2>2, <2>3, Zenon
<1>5. PtesOK(pte') /\ spoiled' \in BOOLEAN /\ SharedReadOnly'
  BY Known, <1>1, Zenon DEF PtesOK, SharedReadOnly
<1> QED
  BY <1>2, <1>3, <1>4, <1>5, Zenon DEF Changes

\* exec gives up and frees the argument page.
LEMMA ExecErrorStep ==
  ASSUME MemInv, NEW t \in Tasks, exec_error(t)
  PROVE  Changes(t)
<1> DEFINE x == args[t]
<1>1. /\ x \in Frames /\ args'[t] = None
      /\ mem_map' = [f \in Frames |-> IF f = x THEN mem_map[f] - 1 ELSE mem_map[f]]
      /\ UNCHANGED <<task, dir, pte, hold, fault, lost, spoiled>>
  BY Known DEF exec_error, Types, TaskOK, Released, tables, load, history
<1>2. Types' /\ OnlyTask(t)
  BY Known, <1>1, ZenonT(40) DEF Types, Values, OnlyTask, SameTask, exec_error, Wiped
<1>3. TaskOK(t)'
  BY Known, <1>1, Zenon DEF TaskOK, Types, exec_error, Runs
<1> HIDE DEF x
<1>4. ASSUME NEW f \in Frames PROVE FrameMoves(t, f)
  <2>1. PICK w \in Uses \cup {NoUse} : Place(t, f, w)
    BY Placed
  <2>2. CASE f = x
    <3>1. w = ArgsUse
      BY <2>1, <2>2, Zenon DEF Place, PlaceOf, x
    <3>2. Place(t, f, NoUse)'
      BY <1>1, <2>1, <3>1, UsesApart, Known, Zenon DEF Place, PlaceOf
    <3>3. Becomes(f, Refs(f), t, w, NoUse, mem_map[f], mem_map'[f], lost, lost')
      BY <1>1, <2>2, <3>1, UsesAre, Zenon DEF Becomes
    <3> QED
      BY <2>1, <3>2, <3>3, Zenon DEF FrameMoves
  <2>3. CASE f # x
    <3>1. Place(t, f, w)'
      BY <1>1, <2>1, <2>3, Known, Zenon DEF Place, PlaceOf, x
    <3>2. Becomes(f, Refs(f), t, w, w, mem_map[f], mem_map'[f], lost, lost')
      BY <1>1, <2>3, Zenon DEF Becomes
    <3> QED
      BY <2>1, <3>1, <3>2 DEF FrameMoves
  <2> QED
    BY <2>2, <2>3
<1>5. PtesOK(pte') /\ spoiled' \in BOOLEAN /\ SharedReadOnly'
  BY Known, <1>1, ZenonT(40) DEF PtesOK, SharedReadOnly
<1> QED
  BY <1>2, <1>3, <1>4, <1>5 DEF Changes

\* release frees the task structure of a zombie.
LEMMA ReleaseStep ==
  ASSUME MemInv, NEW t \in Tasks, release(t)
  PROVE  Changes(t)
<1> DEFINE x == task[t]
<1>1. /\ task'[t] = None
      /\ mem_map' = [f \in Frames |-> IF f = x THEN mem_map[f] - 1 ELSE mem_map[f]]
      /\ UNCHANGED <<args, dir, pte, hold, fault, lost, spoiled>>
  BY Known, Zenon DEF release, Types, Released, tables, load, calls, history
<1>2. Types' /\ OnlyTask(t)
  BY Known, <1>1, Zenon DEF Types, OnlyTask, SameTask, release, calls
<1>3. TaskOK(t)'
  BY Known, <1>1, Zenon DEF TaskOK, Types, release, calls
<1> HIDE DEF x
<1>4. ASSUME NEW f \in Frames PROVE FrameMoves(t, f)
  <2>1. PICK w \in Uses \cup {NoUse} : Place(t, f, w)
    BY Placed
  <2>2. CASE f = x
    <3>1. w = TaskUse
      BY <2>1, <2>2, Zenon DEF Place, PlaceOf, x
    <3>2. Place(t, f, NoUse)'
      BY <1>1, <2>1, <3>1, UsesApart, Known, Zenon DEF Place, PlaceOf
    <3>3. Becomes(f, Refs(f), t, w, NoUse, mem_map[f], mem_map'[f], lost, lost')
      BY <1>1, <2>2, <3>1, UsesAre, Zenon DEF Becomes
    <3> QED
      BY <2>1, <3>2, <3>3 DEF FrameMoves
  <2>3. CASE f # x
    <3>1. Place(t, f, w)'
      BY <1>1, <2>1, <2>3, Known, Zenon DEF Place, PlaceOf, x
    <3>2. Becomes(f, Refs(f), t, w, w, mem_map[f], mem_map'[f], lost, lost')
      BY <1>1, <2>3, Zenon DEF Becomes
    <3> QED
      BY <2>1, <3>1, <3>2 DEF FrameMoves
  <2> QED
    BY <2>2, <2>3
<1>5. PtesOK(pte') /\ spoiled' \in BOOLEAN /\ SharedReadOnly'
  BY Known, <1>1, ZenonT(40) DEF PtesOK, SharedReadOnly
<1> QED
  BY <1>2, <1>3, <1>4, <1>5 DEF Changes

\* do_no_page, when it takes a page and sleeps until it is read in.
LEMMA SleepStep ==
  ASSUME MemInv, NEW t \in Tasks, NEW a \in Addrs, Faults(t, a), executable[t] # None, Free # {},
         fault' = [fault EXCEPT ![t] = a], hold' = [hold EXCEPT ![t] = Pick(Free)],
         mem_map' = Taken({Pick(Free)}),
         UNCHANGED <<content, task, status, tables, executable, calls, history>>
  PROVE  Changes(t)
<1> DEFINE x == Pick(Free)
<1>1. /\ x \in Frames /\ mem_map[x] = 0 /\ hold[t] = None /\ hold'[t] = x
      /\ mem_map' = [f \in Frames |-> IF f = x THEN 1 ELSE mem_map[f]]
      /\ UNCHANGED <<task, dir, pte, args, lost, spoiled>>
  <2>1. x \in Frames /\ mem_map[x] = 0
    BY PickFree, Zenon DEF Free
  <2> HIDE DEF x
  <2> QED
    BY <2>1, Known, Zenon DEF Faults, Runs, Types, TaskOK, Taken, tables, calls, history, x
<1>2. Types' /\ OnlyTask(t)
  BY Known, <1>1, ZenonT(40) DEF Types, OnlyTask, SameTask, calls
<1>3. TaskOK(t)'
  BY Known, <1>1, Zenon DEF TaskOK, Types, Faults, Runs, calls
<1> HIDE DEF x
<1>4. ASSUME NEW f \in Frames PROVE FrameMoves(t, f)
  <2>1. PICK w \in Uses \cup {NoUse} : Place(t, f, w)
    BY Placed, Zenon
  <2>2. CASE f = x
    <3>1. Place(t, f, NoUse)
      BY <1>1, <2>2, FreePlace, Zenon
    <3>2. Place(t, f, HoldUse)'
      BY <1>1, <2>2, <3>1, UsesApart, UsesAre, Zenon DEF Place, PlaceOf
    <3>3. Becomes(f, Refs(f), t, NoUse, HoldUse, mem_map[f], mem_map'[f], lost, lost')
      BY <1>1, <2>2, UsesAre, Zenon DEF Becomes
    <3> QED
      BY <3>1, <3>2, <3>3, Zenon DEF FrameMoves
  <2>3. CASE f # x
    <3>1. Place(t, f, w)'
      BY <1>1, <2>1, <2>3, Known, Zenon DEF Place, PlaceOf
    <3>2. Becomes(f, Refs(f), t, w, w, mem_map[f], mem_map'[f], lost, lost')
      BY <1>1, <2>3, Zenon DEF Becomes
    <3> QED
      BY <2>1, <3>1, <3>2, Zenon DEF FrameMoves
  <2> QED
    BY <2>2, <2>3, Zenon
<1>5. PtesOK(pte') /\ spoiled' \in BOOLEAN /\ SharedReadOnly'
  BY Known, <1>1 DEF PtesOK, SharedReadOnly
<1> QED
  BY <1>2, <1>3, <1>4, <1>5, Zenon DEF Changes

\* do_exit, and oom, which gives back the page do_no_page holds: everything but
\* the task structure goes, and the argument page of an exec is lost.
LEMMA ExitStep ==
  ASSUME MemInv, NEW t \in Tasks, NEW S, Exit(t, S), \A f \in Frames : f \in S <=> f = hold[t]
  PROVE  Changes(t)
<1>1. /\ task' = task /\ args'[t] = None /\ hold'[t] = None /\ fault'[t] = None /\ status'[t] = "zombie"
      /\ pte' = [pte EXCEPT ![t] = NoPages] /\ spoiled' = spoiled
      /\ lost' = lost \cup ({args[t]} \ {None})
      /\ \A b \in Blocks : dir'[t][b] = None
  BY Known, Zenon DEF Exit, Types, NoTables
<1>2. PtesOK(pte') /\ \A q \in Tasks, a \in Addrs : pte'[q][a] = IF q = t THEN NotPresent ELSE pte[q][a]
  <2>1. NoPages \in [Addrs -> Pte] /\ \A a \in Addrs : NoPages[a] = NotPresent
    BY Zenon DEF NoPages, NotPresent, Pte
  <2> QED
    BY <2>1, <1>1, Known, Zenon DEF PtesOK
<1>3. \A a \in Addrs : pte'[t][a].frame = None
  BY <1>2 DEF NotPresent
<1>4. Types' /\ OnlyTask(t)
  BY Known, <1>1, <1>2 DEF Types, Values, Exit, Released, Wiped, NoTables, OnlyTask, SameTask
<1>5. TaskOK(t)'
  BY Known, <1>1, <1>3, Zenon DEF TaskOK
<1>6. ASSUME NEW f \in Frames PROVE FrameMoves(t, f)
  <2>1. PICK w \in Uses \cup {NoUse} : Place(t, f, w)
    BY Placed, Zenon
  <2>2. /\ task[t] = f <=> w = TaskUse
        /\ args[t] = f <=> w = ArgsUse
        /\ f \in Mapped(t) \cup S <=> w \notin {NoUse, TaskUse, ArgsUse}
    <3>1. f \in Mapped(t) <=> (\E b \in Blocks : dir[t][b] = f) \/ (\E a \in Addrs : pte[t][a].frame = f)
      BY Zenon DEF Mapped
    <3> QED
      BY <3>1, <2>1, UseKinds, UsesApart, Zenon DEF Place, PlaceOf
  <2>3. mem_map'[f] = IF w \in {NoUse, TaskUse, ArgsUse} THEN mem_map[f] ELSE mem_map[f] - 1
    BY <2>2, Zenon DEF Exit, Released
  <2>4. f \in lost' <=> f \in lost \/ w = ArgsUse
    BY <1>1, <2>2, Known, Zenon
  <2>5. CASE w = TaskUse
    <3>1. Place(t, f, w)'
      BY <1>1, <1>3, <2>1, <2>5, UsesApart, Known, Zenon DEF Place, PlaceOf
    <3>2. Becomes(f, Refs(f), t, w, w, mem_map[f], mem_map'[f], lost, lost')
      BY <2>3, <2>4, <2>5, UsesApart, Zenon DEF Becomes
    <3> QED
      BY <2>1, <3>1, <3>2, Zenon DEF FrameMoves
  <2>6. CASE w # TaskUse
    <3>1. Place(t, f, NoUse)'
      BY <1>1, <1>3, <2>2, <2>6, UsesApart, Known, Zenon DEF Place, PlaceOf
    <3>2. Becomes(f, Refs(f), t, w, NoUse, mem_map[f], mem_map'[f], lost, lost')
      <4>1. ArgsUse[1] # "page"
        BY Zenon DEF ArgsUse
      <4> QED
        BY <4>1, <2>1, <2>3, <2>4, <2>6, UsesApart, UsesAre, Zenon DEF Becomes, Place, PlaceOf
    <3> QED
      BY <2>1, <3>1, <3>2, Zenon DEF FrameMoves
  <2> QED
    BY <2>5, <2>6, Zenon
<1>7. spoiled' \in BOOLEAN
  BY Known, <1>1, Zenon
<1>8. SharedReadOnly'
  <2>1. \A q \in Tasks, a \in Addrs : pte'[q][a].frame = None \/ pte'[q][a] = pte[q][a]
    BY <1>1, <1>2 DEF NotPresent
  <2>2. SharedReadOnly
    BY Known, Zenon
  <2> QED
    BY <2>1, <2>2, ReadOnlyKept, Zenon
<1> QED
  BY <1>2, <1>4, <1>5, <1>6, <1>7, <1>8, Zenon DEF Changes

\* Changes of an entry: a new one, a store, and the R/W bit.
LEMMA Entries ==
    /\ \A f \in Frames, w \in BOOLEAN :
          LET d == [frame |-> f, rw |-> w, dirty |-> FALSE, written |-> FALSE] IN
          d \in Pte /\ d.frame = f /\ d.rw = w
    /\ \A e \in Pte :
          /\ LET d == [e EXCEPT !.dirty = TRUE, !.written = TRUE] IN d \in Pte /\ d.frame = e.frame /\ d.rw = e.rw
          /\ LET d == [e EXCEPT !.rw = TRUE] IN d \in Pte /\ d.frame = e.frame
          /\ LET d == [e EXCEPT !.rw = FALSE] IN d \in Pte /\ d.frame = e.frame /\ d.rw = FALSE
          /\ LET d == WriteProtected(e) IN
             d \in Pte /\ d.frame = e.frame /\ (d.rw => e.rw) /\ (d.frame # Low => d.rw = FALSE)
BY Zenon DEF Pte, WriteProtected

\* The entry of t for address a becomes d and the others stay.
OneEntry(t, a, d) ==
    /\ PtesOK(pte') /\ pte'[t][a] = d
    /\ \A q \in Tasks, c \in Addrs : q # t \/ c # a => pte'[q][c] = pte[q][c]

\* An assignment to one entry changes only that entry.
LEMMA EntrySet ==
  ASSUME PtesOK(pte), NEW t \in Tasks, NEW a \in Addrs, NEW d \in Pte, pte' = [pte EXCEPT ![t][a] = d]
  PROVE  OneEntry(t, a, d)
<1> HIDE DEF Pte
<1> QED
  BY Zenon DEF PtesOK, OneEntry

\* A store marks the entry.
LEMMA StoreStep ==
  ASSUME MemInv, NEW t \in Tasks, NEW a \in Addrs, Store(t, a),
         fault[t] = None, status[t] \in {"user", "trap", "call"}
  PROVE  Changes(t)
<1> DEFINE d == [pte[t][a] EXCEPT !.dirty = TRUE, !.written = TRUE]
<1>1. OneEntry(t, a, d) /\ d.frame = pte[t][a].frame /\ d.rw = pte[t][a].rw
  <2>1. pte[t][a] \in Pte
    BY Known, Zenon DEF PtesOK
  <2>2. d \in Pte /\ d.frame = pte[t][a].frame /\ d.rw = pte[t][a].rw
    BY <2>1, Entries, Zenon
  <2>3. pte' = [pte EXCEPT ![t][a] = d]
    BY Known, Zenon DEF Store, PtesOK
  <2> QED
    BY <2>2, <2>3, Known, EntrySet, Zenon
<1> HIDE DEF d
<1>2. \A q \in Tasks, c \in Addrs : pte'[q][c].frame = pte[q][c].frame /\ pte'[q][c].rw = pte[q][c].rw
  BY <1>1, Zenon DEF OneEntry
<1>3. Types' /\ OnlyTask(t) /\ UNCHANGED <<mem_map, task, dir, args, hold, lost>>
  <2>1. /\ UNCHANGED <<mem_map, task, dir, executable, args, fault, hold, lost>>
        /\ status' = [status EXCEPT ![t] = "user"] /\ buf' = [buf EXCEPT ![t] = None]
        /\ \E v \in Data : content' = [content EXCEPT ![pte[t][a].frame] = v]
    BY Zenon DEF Store, load
  <2>2. Types
    BY Known, Zenon
  <2>3. Types'
    <3>1. content' \in [Frames \cup {Low} -> Values]
      BY <2>1, <2>2, ZenonT(40) DEF Types, Values
    <3> QED
      BY <2>1, <2>2, <3>1, Zenon DEF Types
  <2>4. OnlyTask(t)
    BY <1>2, <2>1, <2>2 DEF Types, OnlyTask, SameTask
  <2> QED
    BY <2>1, <2>3, <2>4, Zenon
<1>4. TaskOK(t)'
  BY Known, <1>2, Zenon DEF TaskOK, Types, Store, load
<1>5. PtesOK(pte') /\ SharedReadOnly'
  BY Known, <1>1, <1>2, ReadOnlyKept, Zenon DEF OneEntry
<1>6. spoiled' \in BOOLEAN
  BY Known, Zenon DEF Store, PtesOK, Pte
<1>7. \A f \in Frames : FrameMoves(t, f)
  BY <1>2, <1>3, FramesStay, Zenon
<1> QED
  BY <1>3, <1>4, <1>5, <1>6, <1>7, Zenon DEF Changes

\* copy_process runs out of pages; entries of the parent stay protected.
LEMMA ForkFailsStep ==
  ASSUME MemInv, NEW p \in Tasks, NEW c \in Tasks, copy_process_fails(p, c)
  PROVE  Changes(p)
<1>1. PICK D \in SUBSET Tabled(p) :
         pte' = [pte EXCEPT ![p] = [a \in Addrs |-> IF a[1] \in D THEN WriteProtected(pte[p][a]) ELSE pte[p][a]]]
  BY Zenon DEF copy_process_fails
<1>2. \A q \in Tasks, a \in Addrs : pte[q][a] \in Pte
  BY Known, Zenon DEF PtesOK
<1>3. \A q \in Tasks, a \in Addrs : /\ pte'[q][a] \in Pte /\ pte'[q][a].frame = pte[q][a].frame
                                    /\ pte'[q][a].rw => pte[q][a].rw
  <2> SUFFICES ASSUME NEW q \in Tasks, NEW a \in Addrs
               PROVE  /\ pte'[q][a] \in Pte /\ pte'[q][a].frame = pte[q][a].frame
                      /\ pte'[q][a].rw => pte[q][a].rw
    BY Zenon
  <2>1. pte'[q][a] \in {pte[q][a], WriteProtected(pte[q][a])}
    BY <1>1, Known, Zenon DEF PtesOK
  <2>2. LET d == WriteProtected(pte[q][a]) IN d \in Pte /\ d.frame = pte[q][a].frame /\ (d.rw => pte[q][a].rw)
    BY <1>2, Entries, Zenon
  <2> QED
    BY <1>2, <2>1, <2>2, Zenon
<1>4. PtesOK(pte') /\ SharedReadOnly'
  BY Known, <1>1, <1>3, ReadOnlyKept, Zenon DEF PtesOK
<1>5. Types' /\ OnlyTask(p) /\ spoiled' \in BOOLEAN /\ UNCHANGED <<mem_map, task, dir, args, hold, lost>>
  BY Known, <1>3, Zenon DEF Types, OnlyTask, SameTask, copy_process_fails, calls, load, history
<1>6. TaskOK(p)'
  BY Known, <1>3 DEF TaskOK, Types, copy_process_fails, calls, load
<1>7. \A f \in Frames : FrameMoves(p, f)
  BY <1>3, <1>5, FramesStay, Zenon
<1> QED
  BY <1>4, <1>5, <1>6, <1>7, Zenon DEF Changes

\* A page whose count is one is that of one task.
LEMMA OnlyUser ==
  ASSUME MemInv, NEW t \in Tasks, NEW a \in Addrs, pte[t][a].frame \in Frames,
         mem_map[pte[t][a].frame] = 1, NEW q \in Tasks, q # t
  PROVE  pte[q][a].frame # pte[t][a].frame
<1> SUFFICES ASSUME pte[q][a].frame = pte[t][a].frame PROVE FALSE
  BY Zenon
<1> DEFINE f == pte[t][a].frame
<1>1. <<q, PageUse(a)>> \in Refs(f) /\ <<t, PageUse(a)>> \in Refs(f)
  BY PageRef, Zenon
<1>2. f \in Frames /\ mem_map[f] = 1
  BY Zenon
<1> HIDE DEF f
<1>3. q = t
  BY <1>1, <1>2, SameUse
<1> QED
  BY <1>3, Zenon

\* un_wp_page unprotects a page of one user, or gives the task its own copy.
LEMMA UnWpStep ==
  ASSUME MemInv, NEW t \in Tasks, NEW a \in Addrs, NEW st \in {"trap", "call"},
         fault[t] = None, status[t] \in {"user", "trap"}, pte[t][a].frame # None, ~NoCopyLeft(t, a),
         un_wp_page(t, a), status' = [status EXCEPT ![t] = st], buf' = [buf EXCEPT ![t] = a],
         UNCHANGED <<task, dir, executable, args, load, history>>
  PROVE  Changes(t)
<1> DEFINE old == pte[t][a].frame
           new == Pick(Free)
<1>1. pte[t][a] \in Pte /\ old \in Frames \cup {Low}
  BY Known DEF PtesOK, Pte
<1>2. UNCHANGED <<task, dir, executable, args, fault, hold, lost, spoiled>>
  BY Zenon DEF load, history
<1>3. ASSUME NEW d \in Pte, OneEntry(t, a, d), content' \in [Frames \cup {Low} -> Values],
             mem_map' = [f \in Frames |-> mem_map'[f]]
      PROVE  PtesOK(pte') /\ spoiled' \in BOOLEAN /\ Types' /\ OnlyTask(t) /\ TaskOK(t)'
  <2>1. Types /\ TaskOK(t) /\ spoiled \in BOOLEAN
    BY Known, Zenon
  <2>2. Types' /\ OnlyTask(t)
    BY <1>2, <1>3, <2>1, Zenon DEF Types, OnlyTask, SameTask, OneEntry
  <2>3. TaskOK(t)'
    BY <1>2, <2>1, Known, Zenon DEF TaskOK, Types
  <2> QED
    BY <1>2, <1>3, <2>1, <2>2, <2>3, Zenon DEF OneEntry
<1>4. CASE old # Low /\ mem_map[old] = 1
  <2> DEFINE d == [pte[t][a] EXCEPT !.rw = TRUE]
  <2>1. d \in Pte /\ d.frame = old
    BY <1>1, Entries, Zenon
  <2>2. pte' = [pte EXCEPT ![t][a] = d] /\ UNCHANGED <<mem_map, content>>
    BY <1>4, Known, Zenon DEF un_wp_page, PtesOK
  <2> HIDE DEF d
  <2>3. OneEntry(t, a, d)
    BY <2>1, <2>2, Known, EntrySet, Zenon
  <2>4. \A q \in Tasks, c \in Addrs : pte'[q][c].frame = pte[q][c].frame
    BY <2>1, <2>3, Zenon DEF OneEntry
  <2>5. SharedReadOnly'
    <3>1. \A q \in Tasks : q # t => pte[q][a].frame # pte'[t][a].frame
      BY <1>1, <1>4, <2>4, OnlyUser
    <3> QED
      BY <3>1, <2>3, Known, ReadOnlyOne, Zenon DEF OneEntry
  <2>6. \A f \in Frames : FrameMoves(t, f)
    BY <1>2, <2>2, <2>4, FramesStay, Zenon
  <2>7. content' \in [Frames \cup {Low} -> Values] /\ mem_map' = [f \in Frames |-> mem_map'[f]]
    BY <2>2, Known, Zenon DEF Types
  <2> QED
    BY <1>3, <2>1, <2>3, <2>5, <2>6, <2>7, Zenon DEF Changes
<1>5. CASE ~(old # Low /\ mem_map[old] = 1)
  <2> DEFINE d == [pte[t][a] EXCEPT !.frame = new, !.rw = TRUE, !.dirty = FALSE]
  <2>1. new \in Frames /\ mem_map[new] = 0
    BY <1>5, PickFree, Zenon DEF NoCopyLeft, Free
  <2>2. d \in Pte /\ d.frame = new
    <3>1. \A e \in Pte, f \in Frames :
             LET c == [e EXCEPT !.frame = f, !.rw = TRUE, !.dirty = FALSE] IN c \in Pte /\ c.frame = f
      BY Zenon DEF Pte
    <3> HIDE DEF new
    <3> QED
      BY <1>1, <2>1, <3>1, Zenon
  <2>3. /\ pte' = [pte EXCEPT ![t][a] = d]
        /\ content' = [content EXCEPT ![new] = content[old]]
        /\ mem_map' = [f \in Frames |-> CASE f = new -> 1 [] f = old -> mem_map[f] - 1 [] OTHER -> mem_map[f]]
    BY <1>5, Known, Zenon DEF un_wp_page, PtesOK
  <2>4. Place(t, new, NoUse) /\ old # new
    BY <2>1, FreePlace, FreeFrame, Zenon
  <2>5. /\ mem_map' = [f \in Frames |-> mem_map'[f]] /\ mem_map'[new] = 1
        /\ old \in Frames => mem_map'[old] = mem_map[old] - 1
        /\ \A f \in Frames : f # new /\ f # old => mem_map'[f] = mem_map[f]
    BY <2>1, <2>3, <2>4, Zenon
  <2> HIDE DEF d, new
  <2>6. OneEntry(t, a, d)
    BY <2>2, <2>3, Known, EntrySet, Zenon
  <2>7. SharedReadOnly'
    <3>1. \A q \in Tasks : pte[q][a].frame # new
      BY <2>1, FreeFrame, Zenon
    <3> QED
      BY <3>1, <2>2, <2>6, Known, ReadOnlyOne, Zenon DEF OneEntry
  <2>8. content' \in [Frames \cup {Low} -> Values] /\ mem_map' = [f \in Frames |-> mem_map'[f]]
    <3>1. content \in [Frames \cup {Low} -> Values]
      BY Known, Zenon DEF Types
    <3> QED
      BY <1>1, <2>1, <2>3, <2>5, <3>1, Zenon
  <2>9. \A c \in Addrs : pte'[t][c].frame = IF c = a THEN new ELSE pte[t][c].frame
    BY <2>2, <2>6, Zenon DEF OneEntry
  <2>10. ASSUME NEW f \in Frames PROVE FrameMoves(t, f)
    <3>1. PICK w \in Uses \cup {NoUse} : Place(t, f, w)
      BY Placed, Zenon
    <3>3. CASE f = new
      <4>1. Place(t, f, PageUse(a))'
        BY <1>2, <2>9, <2>4, <3>3, UsesApart, UsesAre, ZenonT(40) DEF Place, PlaceOf
      <4>2. Becomes(f, Refs(f), t, NoUse, PageUse(a), mem_map[f], mem_map'[f], lost, lost')
        BY <1>2, <2>1, <2>5, <3>3, UsesAre, Zenon DEF Becomes
      <4> QED
        BY <2>4, <3>3, <4>1, <4>2, Zenon DEF FrameMoves
    <3>4. CASE f = old
      <4>1. w = PageUse(a)
        BY <3>1, <3>4, Zenon DEF Place, PlaceOf
      <4>2. Place(t, f, NoUse)'
        BY <1>2, <2>9, <2>4, <3>1, <3>4, <4>1, UsesApart, ZenonT(40) DEF Place, PlaceOf
      <4>3. Becomes(f, Refs(f), t, w, NoUse, mem_map[f], mem_map'[f], lost, lost')
        BY <1>2, <2>5, <3>4, <4>1, UsesAre, Zenon DEF Becomes
      <4> QED
        BY <3>1, <4>2, <4>3, Zenon DEF FrameMoves
    <3>5. CASE f # new /\ f # old
      <4>1. Place(t, f, w)'
        BY <1>2, <2>9, <3>1, <3>5, Zenon DEF Place, PlaceOf
      <4>2. Becomes(f, Refs(f), t, w, w, mem_map[f], mem_map'[f], lost, lost')
        BY <1>2, <2>5, <3>5, Zenon DEF Becomes
      <4> QED
        BY <3>1, <4>1, <4>2, Zenon DEF FrameMoves
    <3> QED
      BY <3>3, <3>4, <3>5, Zenon
  <2> QED
    BY <1>3, <2>2, <2>6, <2>7, <2>8, <2>10, Zenon DEF Changes
<1> QED
  BY <1>4, <1>5, Zenon

\* put_page maps page at address a of t, with a page table from pool if there is
\* none; page may be the one t holds.
Put(t, a, pool, page) ==
    /\ dir' = WithTable(t, a, pool) /\ task' = task /\ args' = args
    /\ \A f \in Frames : hold'[t] = f <=> hold[t] = f /\ f # page
    /\ \A c \in Addrs : pte'[t][c].frame = IF c = a THEN page ELSE pte[t][c].frame

\* dr is dir after put_page added the page table it needs for address a of t.
AddsTable(t, a, pool, dr) ==
    /\ NewTable(t, a, pool) \subseteq pool /\ a[1] \in Blocks
    /\ dr \in [Tasks -> [Blocks -> Frames \cup {Low, None}]]
    /\ \A q \in Tasks : q # t => dr[q] = dir[q]
    /\ \A b \in Blocks : b # a[1] => dr[t][b] = dir[t][b]
    /\ \A f \in Frames : dr[t][a[1]] = f <=> dir[t][a[1]] = f \/ f \in NewTable(t, a, pool)

\* WithTable does that.
LEMMA TablePut ==
  ASSUME Types, NEW t \in Tasks, NEW a \in Addrs, NEW pool \in SUBSET Frames, CanMap(t, a, pool)
  PROVE  AddsTable(t, a, pool, WithTable(t, a, pool))
<1>1. a[1] \in Blocks /\ dir \in [Tasks -> [Blocks -> Frames \cup {Low, None}]] /\ None \notin Frames
  BY MemoryAssumption, Zenon DEF Addrs, Types
<1>2. CASE NeedsTable(t, a)
  <2>1. Pick(pool) \in pool
    BY <1>2, PickFree, Zenon DEF CanMap
  <2> QED
    BY <1>1, <1>2, <2>1, Zenon DEF AddsTable, NeedsTable, NewTable, WithTable
<1>3. CASE ~NeedsTable(t, a)
  BY <1>1, <1>3, Zenon DEF AddsTable, NewTable, WithTable
<1> QED
  BY <1>2, <1>3, Zenon

\* What becomes of the frames when put_page maps page, whose place was v.
LEMMA PutMoves ==
  ASSUME MemInv, NEW t \in Tasks, NEW a \in Addrs, pte[t][a].frame = None,
         NEW pool \in SUBSET Frames, \A f \in pool : mem_map[f] = 0, CanMap(t, a, pool),
         NEW page \in Frames \ pool, Put(t, a, pool, page), NEW v \in {NoUse, HoldUse}, Place(t, page, v),
         Becomes(page, Refs(page), t, v, PageUse(a), mem_map[page], mem_map'[page], lost, lost'),
         \A f \in Frames : f # page => mem_map'[f] = IF f \in NewTable(t, a, pool) THEN 1 ELSE mem_map[f],
         lost' = lost, NEW f \in Frames
  PROVE  FrameMoves(t, f)
<1>1. /\ NewTable(t, a, pool) \subseteq pool /\ a[1] \in Blocks /\ dir' = WithTable(t, a, pool)
      /\ \A b \in Blocks : b # a[1] => dir'[t][b] = dir[t][b]
      /\ dir'[t][a[1]] = f <=> dir[t][a[1]] = f \/ f \in NewTable(t, a, pool)
  <2>1. AddsTable(t, a, pool, dir')
    BY Known, TablePut, Zenon DEF Put
  <2>2. dir' = WithTable(t, a, pool)
    BY Zenon DEF Put
  <2> QED
    BY <2>1, <2>2, Zenon DEF AddsTable
<1>2. /\ task' = task /\ args' = args
      /\ hold'[t] = f <=> hold[t] = f /\ f # page
      /\ \A c \in Addrs : pte'[t][c].frame = IF c = a THEN page ELSE pte[t][c].frame
  BY Zenon DEF Put
<1>3. CASE f = page
  <2>1. /\ task[t] # f /\ args[t] # f /\ (\A b \in Blocks : dir[t][b] # f)
        /\ \A c \in Addrs : pte[t][c].frame # f
    BY <1>3, UsesApart, ZenonT(40) DEF Place, PlaceOf
  <2>2. /\ task'[t] # f /\ args'[t] # f /\ hold'[t] # f /\ (\A b \in Blocks : dir'[t][b] # f)
        /\ \A c \in Addrs : pte'[t][c].frame = f <=> c = a
    BY <1>1, <1>2, <1>3, <2>1, Zenon
  <2>3. Place(t, f, PageUse(a))'
    BY <2>2, UsesApart, UsesAre, Zenon DEF Place, PlaceOf
  <2> QED
    BY <1>3, <2>3, Zenon DEF FrameMoves
<1>4. CASE f \in NewTable(t, a, pool)
  <2>1. mem_map[f] = 0 /\ f # page /\ Place(t, f, NoUse) /\ mem_map'[f] = 1
    BY <1>1, <1>4, FreePlace, Zenon
  <2>2. /\ task[t] # f /\ args[t] # f /\ hold[t] # f /\ (\A b \in Blocks : dir[t][b] # f)
        /\ \A c \in Addrs : pte[t][c].frame # f
    BY <2>1, UsesApart, Zenon DEF Place, PlaceOf
  <2>3. /\ task'[t] # f /\ args'[t] # f /\ hold'[t] # f /\ (\A b \in Blocks : dir'[t][b] = f <=> b = a[1])
        /\ \A c \in Addrs : pte'[t][c].frame # f
    BY <1>1, <1>2, <1>4, <2>1, <2>2, ZenonT(40)
  <2>4. Place(t, f, TableUse(a[1]))'
    BY <1>1, <2>3, UsesApart, UsesAre, ZenonT(40) DEF Place, PlaceOf
  <2>5. Becomes(f, Refs(f), t, NoUse, TableUse(a[1]), mem_map[f], mem_map'[f], lost, lost')
    BY <1>1, <2>1, UsesAre, Zenon DEF Becomes
  <2> QED
    BY <2>1, <2>4, <2>5, Zenon DEF FrameMoves
<1>5. CASE f # page /\ f \notin NewTable(t, a, pool)
  <2>1. PICK w \in Uses \cup {NoUse} : Place(t, f, w)
    BY Placed, Zenon
  <2>2. /\ \A b \in Blocks : dir'[t][b] = f <=> dir[t][b] = f
        /\ \A c \in Addrs : pte'[t][c].frame = f <=> pte[t][c].frame = f
        /\ hold'[t] = f <=> hold[t] = f
    <3>1. None # f
      BY Known, Zenon
    <3>2. \A b \in Blocks : dir'[t][b] = f <=> dir[t][b] = f
      BY <1>1, <1>5, Zenon
    <3>3. \A c \in Addrs : pte'[t][c].frame = f <=> pte[t][c].frame = f
      BY <1>2, <1>5, <3>1, Zenon
    <3> QED
      BY <1>2, <1>5, <3>2, <3>3, Zenon
  <2>3. Place(t, f, w)'
    BY <1>2, <2>1, <2>2, Zenon DEF Place, PlaceOf
  <2>4. Becomes(f, Refs(f), t, w, w, mem_map[f], mem_map'[f], lost, lost')
    BY <1>5, Zenon DEF Becomes
  <2> QED
    BY <2>1, <2>3, <2>4, Zenon DEF FrameMoves
<1> QED
  BY <1>3, <1>4, <1>5, Zenon

------------------------------------------------------------------------------
\* get_empty_page maps a cleared page.
LEMMA EmptyPageStep ==
  ASSUME MemInv, NEW t \in Tasks, NEW a \in Addrs, Faults(t, a), get_empty_page(t, a),
         Free # {}, CanMap(t, a, Free \ {Pick(Free)})
  PROVE  Changes(t)
<1> DEFINE page == Pick(Free)
           pool == Free \ {page}
           d == [frame |-> page, rw |-> TRUE, dirty |-> FALSE, written |-> FALSE]
<1>1. /\ page \in Frames \ pool /\ mem_map[page] = 0 /\ pool \in SUBSET Frames
      /\ \A f \in pool : mem_map[f] = 0
  BY PickFree, Zenon DEF Free
<1>2. CanMap(t, a, pool) /\ pte[t][a].frame = None /\ hold[t] = None /\ fault[t] = None
  BY Known, Zenon DEF Faults, Runs, TaskOK
<1>3. /\ mem_map' = Taken({page} \cup NewTable(t, a, pool))
      /\ dir' = WithTable(t, a, pool) /\ pte' = [pte EXCEPT ![t][a] = d]
      /\ UNCHANGED <<content, task, status, executable, buf, args, fault, hold, lost, spoiled>>
  BY Zenon DEF get_empty_page, calls, load, history
<1> HIDE DEF page, pool
<1>4. d \in Pte /\ d.frame = page
  BY <1>1, Entries, Zenon
<1> HIDE DEF d
<1>5. OneEntry(t, a, d)
  BY <1>3, <1>4, Known, EntrySet, Zenon
<1>6. Types' /\ OnlyTask(t)
  <2>1. Types
    BY Known, Zenon
  <2>2. /\ dir' \in [Tasks -> [Blocks -> Frames \cup {Low, None}]]
        /\ \A q \in Tasks : q # t => dir'[q] = dir[q]
    <3>1. AddsTable(t, a, pool, dir')
      BY <1>1, <1>2, <1>3, <2>1, TablePut, Zenon
    <3> QED
      BY <3>1, Zenon DEF AddsTable
  <2> QED
    BY <1>3, <1>5, <2>1, <2>2, ZenonT(40) DEF Types, OnlyTask, SameTask, OneEntry, Taken
<1>7. TaskOK(t)'
  BY <1>2, <1>3, Known, Zenon DEF TaskOK, Faults
<1>8. Place(t, page, NoUse) /\ \A q \in Tasks : pte[q][a].frame # page
  BY <1>1, FreePlace, FreeFrame, Zenon
<1>9. SharedReadOnly' /\ PtesOK(pte') /\ spoiled' \in BOOLEAN
  BY <1>3, <1>4, <1>5, <1>8, Known, ReadOnlyOne DEF OneEntry
<1>10. \A f \in Frames : FrameMoves(t, f)
  <2>1. Put(t, a, pool, page)
    BY <1>2, <1>3, <1>4, <1>5, Known DEF Put, OneEntry
  <2>2. Becomes(page, Refs(page), t, NoUse, PageUse(a), mem_map[page], mem_map'[page], lost, lost')
    BY <1>1, <1>3, UsesAre, Zenon DEF Becomes, Taken
  <2>3. \A f \in Frames : f # page => mem_map'[f] = IF f \in NewTable(t, a, pool) THEN 1 ELSE mem_map[f]
    BY <1>3, Zenon DEF Taken
  <2> QED
    BY <1>1, <1>2, <1>3, <1>8, <2>1, <2>2, <2>3, PutMoves, ZenonT(40)
<1> QED
  BY <1>6, <1>7, <1>9, <1>10, Zenon DEF Changes

\* do_no_page maps the page it has read in.
LEMMA LoadedStep ==
  ASSUME MemInv, NEW t \in Tasks, do_no_page_loaded(t), CanMap(t, fault[t], Free)
  PROVE  Changes(t)
<1> DEFINE a == fault[t]
           page == hold[t]
           d == [frame |-> page, rw |-> TRUE, dirty |-> FALSE, written |-> FALSE]
<1>1. /\ a \in Addrs /\ page \in Frames /\ pte[t][a].frame = None /\ executable[t] \in Values
      /\ status[t] \in {"user", "call", "args"}
  BY Known DEF do_no_page_loaded, TaskOK, Types, Values
<1>2. Place(t, page, HoldUse)
  <2>1. PICK w \in Uses \cup {NoUse} : Place(t, page, w)
    BY <1>1, Placed, Zenon
  <2>2. w = HoldUse
    BY <2>1, Zenon DEF Place, PlaceOf
  <2> QED
    BY <2>1, <2>2, Zenon
<1>3. /\ page \in Frames \ Free /\ Free \in SUBSET Frames
      /\ \A f \in Free : mem_map[f] = 0
  BY <1>1, <1>2, UsedCount, UsesAre, Zenon DEF Free
<1>4. /\ mem_map' = Taken(NewTable(t, a, Free))
      /\ content' = [content EXCEPT ![page] = executable[t]]
      /\ dir' = WithTable(t, a, Free) /\ pte' = [pte EXCEPT ![t][a] = d]
      /\ fault' = [fault EXCEPT ![t] = None] /\ hold' = [hold EXCEPT ![t] = None]
      /\ UNCHANGED <<task, status, executable, buf, args, lost, spoiled>>
  BY Zenon DEF do_no_page_loaded, calls, history
<1>5. d \in Pte /\ d.frame = page
  BY <1>1, Entries, Zenon
<1> HIDE DEF d
<1>6. OneEntry(t, a, d)
  BY <1>1, <1>4, <1>5, Known, EntrySet, Zenon
<1>7. CanMap(t, a, Free)
  BY Zenon
<1>8. Types' /\ OnlyTask(t)
  <2>1. Types
    BY Known, Zenon
  <2>2. /\ dir' \in [Tasks -> [Blocks -> Frames \cup {Low, None}]]
        /\ \A q \in Tasks : q # t => dir'[q] = dir[q]
    <3>1. AddsTable(t, a, Free, dir')
      BY <1>1, <1>3, <1>4, <1>7, <2>1, TablePut, Zenon
    <3> QED
      BY <3>1, Zenon DEF AddsTable
  <2> QED
    BY <1>1, <1>4, <1>6, <2>1, <2>2, ZenonT(40) DEF Types, OnlyTask, SameTask, OneEntry, Taken
<1>9. TaskOK(t)'
  BY <1>1, <1>4, Known, Zenon DEF TaskOK, Types
<1> HIDE DEF a, page
<1>10. SharedReadOnly' /\ PtesOK(pte') /\ spoiled' \in BOOLEAN
  <2>1. \A q \in Tasks : pte[q][a].frame # page
    BY <1>1, <1>2, NotShared, Zenon
  <2> QED
    BY <1>1, <1>4, <1>5, <1>6, <2>1, Known, ReadOnlyOne DEF OneEntry
<1>11. \A f \in Frames : FrameMoves(t, f)
  <2>1. Put(t, a, Free, page)
    <3>1. hold[t] = page /\ hold'[t] = None
      BY <1>4, Known, Zenon DEF Types, page
    <3> QED
      BY <1>1, <1>4, <1>5, <1>6, <3>1, Known DEF Put, OneEntry
  <2>2. /\ Becomes(page, Refs(page), t, HoldUse, PageUse(a), mem_map[page], mem_map'[page], lost, lost')
        /\ \A f \in Frames : f # page => mem_map'[f] = IF f \in NewTable(t, a, Free) THEN 1 ELSE mem_map[f]
    <3>1. NewTable(t, a, Free) \subseteq Free
      BY <1>1, <1>3, <1>7, TablePut, Known, Zenon DEF AddsTable
    <3>2. HoldUse[1] # "page"
      BY Zenon DEF HoldUse
    <3> QED
      BY <1>1, <1>3, <1>4, <3>1, <3>2, UsesAre, Zenon DEF Becomes, Taken
  <2> QED
    BY <1>1, <1>2, <1>3, <1>4, <1>7, <2>1, <2>2, PutMoves, ZenonT(40)
<1> QED
  BY <1>8, <1>9, <1>10, <1>11, Zenon DEF Changes

\* try_to_share maps a page of another task, write-protected in both.
LEMMA ShareStep ==
  ASSUME MemInv, NEW t \in Tasks, NEW a \in Addrs, Faults(t, a), NEW q \in Sharers(t, a),
         try_to_share(t, a, q), CanMap(t, a, Free)
  PROVE  Changes(t)
<1> DEFINE page == pte[q][a].frame
           d == [frame |-> page, rw |-> FALSE, dirty |-> FALSE, written |-> FALSE]
           e == [pte[q][a] EXCEPT !.rw = FALSE]
<1>1. /\ q \in Tasks /\ q # t /\ page \in Frames /\ pte[q][a] \in Pte
      /\ pte[t][a].frame = None /\ hold[t] = None /\ fault[t] = None
  <2>1. q \in Tasks /\ q # t /\ page \notin {None, Low} /\ pte[t][a].frame = None /\ fault[t] = None
    BY Zenon DEF Sharers, Faults, Runs
  <2>2. TaskOK(t) /\ pte[q][a] \in Pte
    BY <2>1, Known, Zenon DEF PtesOK
  <2> QED
    BY <2>1, <2>2, Zenon DEF Pte, TaskOK
<1>2. /\ mem_map' = [f \in Frames |-> CASE f \in NewTable(t, a, Free) -> 1
                                        [] f = page -> mem_map[f] + 1
                                        [] OTHER -> mem_map[f]]
      /\ dir' = WithTable(t, a, Free)
      /\ pte' = [pte EXCEPT ![q][a].rw = FALSE, ![t][a] = d]
      /\ spoiled' = (spoiled \/ status[q] = "closing" \/ pte[q][a].written)
      /\ UNCHANGED <<content, task, status, executable, buf, args, fault, hold, lost>>
  BY Zenon DEF try_to_share, calls, load
<1>3. d \in Pte /\ d.frame = page /\ d.rw = FALSE /\ e \in Pte /\ e.frame = page /\ e.rw = FALSE
  BY <1>1, Entries, Zenon
<1>4. pte' = [[pte EXCEPT ![q][a] = e] EXCEPT ![t][a] = d]
  BY <1>1, <1>2, Known, Zenon DEF PtesOK
<1> HIDE DEF d, e
<1>5. /\ PtesOK(pte') /\ pte'[t][a] = d /\ pte'[q][a] = e
      /\ \A r \in Tasks, c \in Addrs : (r # t /\ r # q) \/ c # a => pte'[r][c] = pte[r][c]
  BY <1>1, <1>3, <1>4, Known, Zenon DEF PtesOK
<1>6. Types' /\ OnlyTask(t)
  <2>1. Types /\ Free \in SUBSET Frames
    BY Known, Zenon DEF Free
  <2>2. /\ dir' \in [Tasks -> [Blocks -> Frames \cup {Low, None}]]
        /\ \A r \in Tasks : r # t => dir'[r] = dir[r]
    <3>1. AddsTable(t, a, Free, dir')
      BY <1>2, <2>1, TablePut, Zenon
    <3> QED
      BY <3>1, Zenon DEF AddsTable
  <2>3. \A r \in Tasks, c \in Addrs : r # t => pte'[r][c].frame = pte[r][c].frame
    BY <1>3, <1>5, Zenon
  <2>4. mem_map' = [f \in Frames |-> mem_map'[f]]
    BY <1>2
  <2>5. UNCHANGED <<content, task, status, executable, buf, args, fault, hold, lost>>
    BY <1>2, Zenon
  <2> QED
    BY <2>1, <2>2, <2>3, <2>4, <2>5, Zenon DEF Types, OnlyTask, SameTask
<1>7. TaskOK(t)'
  BY <1>1, <1>2, Known, Zenon DEF TaskOK, Faults
<1>8. SharedReadOnly' /\ spoiled' \in BOOLEAN
  <2>1. SharedReadOnly'
    BY <1>1, <1>3, <1>5, Known DEF SharedReadOnly
  <2>2. pte[q][a].written \in BOOLEAN /\ spoiled \in BOOLEAN
    BY <1>1, Known, Zenon DEF Pte
  <2> QED
    BY <1>2, <2>1, <2>2, Zenon
<1> HIDE DEF page
<1>9. Place(t, page, NoUse) /\ <<q, PageUse(a)>> \in Refs(page) /\ mem_map[page] # 0
  <2>1. PICK w \in Uses \cup {NoUse} : Place(t, page, w)
    BY <1>1, Placed, Zenon
  <2>2. <<q, PageUse(a)>> \in Refs(page)
    BY <1>1, PageRef, Zenon DEF page
  <2>3. ASSUME w \in Uses PROVE w = PageUse(a)
    <3>1. <<t, w>> \in Refs(page)
      BY <2>1, <2>3, PlaceRef, Zenon
    <3>2. page \in Frames
      BY <1>1, Zenon
    <3> QED
      BY <2>2, <3>1, <3>2, SameUse, Zenon
  <2>4. w # PageUse(a)
    BY <1>1, <2>1, Known, Zenon DEF Place, PlaceOf
  <2> QED
    BY <1>1, <2>1, <2>2, <2>3, <2>4, OneUse, Zenon
<1>10. \A f \in Frames : FrameMoves(t, f)
  <2>1. Put(t, a, Free, page)
    <3>1. \A c \in Addrs : pte'[t][c].frame = IF c = a THEN page ELSE pte[t][c].frame
      BY <1>1, <1>3, <1>5, Zenon DEF page
    <3>2. dir' = WithTable(t, a, Free) /\ task' = task /\ args' = args /\ hold' = hold /\ hold[t] \notin Frames
      BY <1>1, <1>2, Known, Zenon
    <3> QED
      BY <3>1, <3>2, Zenon DEF Put
  <2>2. page \in Frames \ Free /\ Free \in SUBSET Frames /\ \A f \in Free : mem_map[f] = 0
    BY <1>1, <1>9, Zenon DEF Free
  <2>3. NewTable(t, a, Free) \subseteq Free
    BY <2>2, TablePut, Known, Zenon DEF AddsTable
  <2>4. /\ mem_map'[page] = mem_map[page] + 1
        /\ \A f \in Frames : f # page => mem_map'[f] = IF f \in NewTable(t, a, Free) THEN 1 ELSE mem_map[f]
    <3>1. page \notin NewTable(t, a, Free)
      BY <2>2, <2>3, Zenon
    <3> HIDE DEF page
    <3>2. mem_map' = [f \in Frames |-> CASE f \in NewTable(t, a, Free) -> 1
                                         [] f = page -> mem_map[f] + 1
                                         [] OTHER -> mem_map[f]]
      BY <1>2, Zenon DEF page
    <3> QED
      BY <1>1, <3>1, <3>2, Zenon
  <2>5. Becomes(page, Refs(page), t, NoUse, PageUse(a), mem_map[page], mem_map'[page], lost, lost')
    BY <1>1, <1>2, <1>9, <2>4, Zenon DEF Becomes
  <2> QED
    BY <1>1, <1>2, <1>9, <2>1, <2>2, <2>4, <2>5, PutMoves, Zenon
<1> QED
  BY <1>5, <1>6, <1>7, <1>8, <1>10, Zenon DEF Changes

\* exec frees the old page tables and maps the argument page.
LEMMA ChangeLdtStep ==
  ASSUME MemInv, NEW t \in Tasks, change_ldt(t)
  PROVE  Changes(t)
<1> DEFINE freed == Released(Mapped(t))
           pool == {f \in Frames : freed[f] = 0}
           x == Pick(pool)
           ok == pool # {}
           e == [frame |-> args[t], rw |-> TRUE, dirty |-> FALSE, written |-> FALSE]
           dr == IF ok THEN [NoTables EXCEPT ![ArgPage[1]] = x] ELSE NoTables
           row == IF ok THEN [NoPages EXCEPT ![ArgPage] = e] ELSE NoPages
<1>1. /\ hold[t] = None /\ fault[t] = None /\ args[t] \in Frames /\ status[t] = "closing"
      /\ ArgPage \in Addrs /\ ArgPage[1] \in Blocks
  BY Known, MemoryAssumption DEF change_ldt, Runs, TaskOK, Types, Addrs
<1>2. /\ mem_map' = IF ok THEN [freed EXCEPT ![x] = 1] ELSE freed
      /\ dir' = [dir EXCEPT ![t] = dr] /\ pte' = [pte EXCEPT ![t] = row]
      /\ lost' = IF ok THEN lost ELSE lost \cup {args[t]}
      /\ content' = Wiped(freed) /\ args' = [args EXCEPT ![t] = None]
      /\ status' = [status EXCEPT ![t] = "user"]
      /\ UNCHANGED <<task, executable, buf, fault, hold, spoiled>>
  BY Zenon DEF change_ldt, load
<1>3. ok => x \in Frames /\ freed[x] = 0
  BY PickFree, Zenon
<1>4. freed = [f \in Frames |-> IF f \in Mapped(t) THEN mem_map[f] - 1 ELSE mem_map[f]]
  BY Zenon DEF Released
<1> HIDE DEF freed, x, ok
<1>5. /\ dr \in [Blocks -> Frames \cup {Low, None}]
      /\ \A b \in Blocks : dr[b] = IF ok /\ b = ArgPage[1] THEN x ELSE None
  BY <1>1, <1>3, Zenon DEF NoTables
<1>6. /\ row \in [Addrs -> Pte]
      /\ \A a \in Addrs : row[a] = IF ok /\ a = ArgPage THEN e ELSE NotPresent
  <2>1. e \in Pte /\ NotPresent \in Pte
    BY <1>1, Entries, Zenon DEF NotPresent, Pte
  <2> HIDE DEF e
  <2> QED
    BY <1>1, <2>1, Zenon DEF NoPages
<1>7. \A a \in Addrs : row[a].frame = IF ok /\ a = ArgPage THEN args[t] ELSE None
  BY <1>6 DEF NotPresent
<1> HIDE DEF e, dr, row
<1>8. /\ PtesOK(pte') /\ pte'[t] = row /\ dir'[t] = dr
      /\ \A q \in Tasks : q # t => pte'[q] = pte[q] /\ dir'[q] = dir[q]
  BY <1>2, <1>5, <1>6, Known, Zenon DEF PtesOK, Types
<1>9. Types'
  <2>1. Types /\ Zero \in Values
    BY Known, Zenon DEF Values
  <2>2. content' \in [Frames \cup {Low} -> Values]
    BY <1>2, <2>1, Zenon DEF Types, Wiped
  <2>3. mem_map' = [f \in Frames |-> mem_map'[f]]
    BY <1>2, <1>4, Zenon
  <2>4. dir' \in [Tasks -> [Blocks -> Frames \cup {Low, None}]]
    BY <1>2, <1>5, <2>1, Zenon DEF Types
  <2> QED
    BY <1>1, <1>2, <2>1, <2>2, <2>3, <2>4, Zenon DEF Types
<1>10. OnlyTask(t)
  BY <1>2, <1>8, Known, Zenon DEF Types, OnlyTask, SameTask
<1>11. TaskOK(t)'
  BY <1>1, <1>2, Known, Zenon DEF TaskOK, Types
<1>12. ASSUME NEW f \in Frames PROVE FrameMoves(t, f)
  <2>1. PICK w \in Uses \cup {NoUse} : Place(t, f, w)
    BY Placed, Zenon
  <2>2. /\ task[t] = f <=> w = TaskUse
        /\ args[t] = f <=> w = ArgsUse
        /\ w # HoldUse
        /\ f \in Mapped(t) <=> w \notin {NoUse, TaskUse, ArgsUse}
    <3>1. f \in Mapped(t) <=> (\E b \in Blocks : dir[t][b] = f) \/ (\E a \in Addrs : pte[t][a].frame = f)
      BY Zenon DEF Mapped
    <3>2. hold[t] # f
      BY <1>1, Known, Zenon
    <3> QED
      BY <3>1, <3>2, <2>1, UseKinds, UsesApart, Zenon DEF Place, PlaceOf
  <2>3. /\ mem_map[f] \in Nat /\ (w \in Uses => mem_map[f] # 0)
        /\ freed[f] = IF w \in {NoUse, TaskUse, ArgsUse} THEN mem_map[f] ELSE mem_map[f] - 1
    BY <1>4, <2>1, <2>2, UsedCount, Zenon
  <2>4. task'[t] = task[t] /\ args'[t] = None /\ hold'[t] = None
    BY <1>1, <1>2, Known, Zenon DEF Types
  <2>5. CASE ok /\ f = x
    <3>1. w \notin {TaskUse, ArgsUse} /\ mem_map'[f] = 1 /\ lost' = lost
      BY <1>2, <1>3, <1>4, <2>3, <2>5, UsesAre, Zenon
    <3>2. /\ task'[t] # f /\ args'[t] # f /\ hold'[t] # f
          /\ \A b \in Blocks : dir'[t][b] = f <=> b = ArgPage[1]
          /\ \A a \in Addrs : pte'[t][a].frame # f
      BY <1>1, <1>5, <1>7, <1>8, <2>2, <2>4, <2>5, <3>1, Known
    <3>3. Place(t, f, TableUse(ArgPage[1]))'
      BY <1>1, <3>2, UsesApart, UsesAre, Zenon DEF Place, PlaceOf
    <3>4. CASE w = NoUse
      <4>1. mem_map[f] = 0
        BY <1>3, <2>3, <2>5, <3>4, Zenon
      <4>2. Becomes(f, Refs(f), t, w, TableUse(ArgPage[1]), mem_map[f], mem_map'[f], lost, lost')
        BY <1>1, <3>1, <4>1, UsesAre, Zenon DEF Becomes
      <4> QED
        BY <2>1, <3>3, <4>2, Zenon DEF FrameMoves
    <3>5. CASE w # NoUse
      <4>1. w \in Uses /\ mem_map[f] = 1
        BY <1>3, <2>3, <2>5, <3>1, <3>5
      <4>2. Becomes(f, Refs(f), t, w, TableUse(ArgPage[1]), mem_map[f], mem_map'[f], lost, lost')
        BY <1>1, <3>1, <4>1, UsesAre, Zenon DEF Becomes
      <4> QED
        BY <2>1, <3>3, <4>2, Zenon DEF FrameMoves
    <3> QED
      BY <3>4, <3>5, Zenon
  <2>6. CASE ~(ok /\ f = x)
    <3>1. mem_map'[f] = freed[f]
      BY <1>2, <1>4, <2>6, Zenon
    <3>2. CASE w = ArgsUse /\ ok
      <4>1. /\ task'[t] # f /\ args'[t] # f /\ hold'[t] # f /\ (\A b \in Blocks : dir'[t][b] # f)
            /\ \A a \in Addrs : pte'[t][a].frame = f <=> a = ArgPage
        BY <1>1, <1>5, <1>7, <1>8, <2>2, <2>4, <2>6, <3>2, UsesApart, Known
      <4>2. Place(t, f, PageUse(ArgPage))'
        BY <1>1, <4>1, UsesApart, UsesAre, Zenon DEF Place, PlaceOf
      <4>3. ArgsUse[1] # "page"
        BY Zenon DEF ArgsUse
      <4>4. Becomes(f, Refs(f), t, w, PageUse(ArgPage), mem_map[f], mem_map'[f], lost, lost')
        BY <1>1, <1>2, <2>3, <3>1, <3>2, <4>3, UsesAre, Zenon DEF Becomes
      <4> QED
        BY <2>1, <4>2, <4>4, Zenon DEF FrameMoves
    <3>3. CASE w = TaskUse
      <4>1. /\ task'[t] = f /\ args'[t] # f /\ hold'[t] # f /\ (\A b \in Blocks : dir'[t][b] # f)
            /\ \A a \in Addrs : pte'[t][a].frame # f
        BY <1>5, <1>7, <1>8, <2>2, <2>4, <2>6, <3>3, UsesApart, Known
      <4>2. Place(t, f, w)'
        BY <3>3, <4>1, UsesApart, UsesAre, Zenon DEF Place, PlaceOf
      <4>3. Becomes(f, Refs(f), t, w, w, mem_map[f], mem_map'[f], lost, lost')
        BY <1>2, <2>2, <2>3, <3>1, <3>3, UsesApart, Zenon DEF Becomes
      <4> QED
        BY <2>1, <4>2, <4>3, Zenon DEF FrameMoves
    <3>4. CASE ~(w = ArgsUse /\ ok) /\ w # TaskUse
      <4>1. /\ task'[t] # f /\ args'[t] # f /\ hold'[t] # f /\ (\A b \in Blocks : dir'[t][b] # f)
            /\ \A a \in Addrs : pte'[t][a].frame # f
        BY <1>5, <1>7, <1>8, <2>2, <2>4, <2>6, <3>4, Known, ZenonT(40)
      <4>2. Place(t, f, NoUse)'
        BY <4>1, UsesApart, UsesAre, Zenon DEF Place, PlaceOf
      <4>3. ArgsUse[1] # "page"
        BY DEF ArgsUse
      <4>4. Becomes(f, Refs(f), t, w, NoUse, mem_map[f], mem_map'[f], lost, lost')
        BY <1>2, <2>1, <2>2, <2>3, <3>1, <3>4, <4>3, UsesApart, UsesAre, ZenonT(40) DEF Becomes
      <4> QED
        BY <2>1, <4>2, <4>4, Zenon DEF FrameMoves
    <3> QED
      BY <3>2, <3>3, <3>4, Zenon
  <2> QED
    BY <2>5, <2>6, Zenon
<1>13. SharedReadOnly' /\ spoiled' \in BOOLEAN
  <2>1. \A q \in Tasks, a \in Addrs : pte[q][a].frame # args[t]
    <3>1. PICK w \in Uses \cup {NoUse} : Place(t, args[t], w)
      BY <1>1, Placed, Zenon
    <3>2. w = ArgsUse
      BY <3>1, Zenon DEF Place, PlaceOf
    <3> QED
      BY <1>1, <3>1, <3>2, NotShared, Zenon
  <2>2. SharedReadOnly /\ spoiled' \in BOOLEAN
    BY <1>2, Known, Zenon
  <2>3. \A a \in Addrs : pte'[t][a].frame \in {args[t], None}
    BY <1>7, <1>8, Zenon
  <2>4. \A q \in Tasks, a \in Addrs : q # t => pte'[q][a] = pte[q][a]
    BY <1>8, Zenon
  <2> QED
    BY <2>1, <2>2, <2>3, <2>4, Known DEF SharedReadOnly
<1> QED
  BY <1>8, <1>9, <1>10, <1>11, <1>12, <1>13, Zenon DEF Changes

\* fork shares every page of the parent, write-protected in both.
LEMMA ForkStep ==
  ASSUME MemInv, NEW p \in Tasks, NEW c \in Tasks, copy_process(p, c)
  PROVE  Changes(c)
<1> DEFINE page == Pick(Free)
           copies == Injection(Tabled(p), Free \ {page})
           table == CHOOSE g \in copies : TRUE
           new == {page} \cup {table[b] : b \in Tabled(p)}
           shared == {pte[p][a].frame : a \in Addrs}
           dr == [b \in Blocks |-> IF b \in Tabled(p) THEN table[b] ELSE None]
           child == [a \in Addrs |-> [pte[p][a] EXCEPT !.rw = FALSE]]
           parent == [a \in Addrs |-> WriteProtected(pte[p][a])]
<1>1. /\ p # c /\ fault[c] = None /\ fault[p] = None /\ status[c] = "free"
      /\ task[c] = None /\ args[c] = None /\ hold[c] = None
      /\ \A b \in Blocks : dir[c][b] = None
      /\ \A a \in Addrs : pte[c][a].frame = None
      /\ executable[p] \in Execs \cup {None}
  <2>1. status[c] = "free" /\ p # c /\ fault[p] = None
    BY Zenon DEF copy_process, Runs
  <2> QED
    BY <2>1, Known, Zenon DEF TaskOK, Types
<1>2. page \in Free /\ table \in [Tabled(p) -> Free \ {page}] /\ \A b, d \in Tabled(p) : table[b] = table[d] => b = d
  <2>1. page \in Free
    BY PickFree, Zenon DEF copy_process, Free
  <2>2. table \in copies
    BY Zenon DEF copy_process
  <2> QED
    BY <2>1, <2>2, Zenon DEF Injection, IsInjective
<1>3. /\ status' = [status EXCEPT ![c] = "user"] /\ task' = [task EXCEPT ![c] = page]
      /\ dir' = [dir EXCEPT ![c] = dr] /\ pte' = [pte EXCEPT ![c] = child, ![p] = parent]
      /\ mem_map' = [f \in Frames |-> CASE f \in new -> 1 [] f \in shared -> mem_map[f] + 1 [] OTHER -> mem_map[f]]
      /\ executable' = [executable EXCEPT ![c] = executable[p]]
      /\ UNCHANGED <<content, buf, args, fault, hold, lost, spoiled>>
  BY Zenon DEF copy_process, calls, load, history
<1> HIDE DEF page, table
<1>4. \A f \in Frames : f \in new <=> f = page \/ \E b \in Tabled(p) : f = table[b]
  BY Zenon
<1>5. /\ dr \in [Blocks -> Frames \cup {Low, None}]
      /\ \A b \in Blocks : dr[b] = IF b \in Tabled(p) THEN table[b] ELSE None
  BY <1>2, Zenon DEF Free
<1>6. /\ child \in [Addrs -> Pte] /\ \A a \in Addrs : child[a].frame = pte[p][a].frame /\ child[a].rw = FALSE
      /\ parent \in [Addrs -> Pte]
      /\ \A a \in Addrs : parent[a].frame = pte[p][a].frame /\ (parent[a].frame # Low => parent[a].rw = FALSE)
  <2>1. \A a \in Addrs : pte[p][a] \in Pte
    BY Known, Zenon DEF PtesOK
  <2>2. ASSUME NEW a \in Addrs
        PROVE  /\ child[a] \in Pte /\ child[a].frame = pte[p][a].frame /\ child[a].rw = FALSE
               /\ parent[a] \in Pte /\ parent[a].frame = pte[p][a].frame /\ (parent[a].frame # Low => parent[a].rw = FALSE)
    BY <2>1, <2>2, Entries, Zenon
  <2> QED
    BY <2>2, Zenon
<1> HIDE DEF dr, child, parent, new
<1>7. /\ PtesOK(pte') /\ pte'[c] = child /\ pte'[p] = parent
      /\ \A q \in Tasks \ {c, p} : pte'[q] = pte[q]
  BY <1>1, <1>3, <1>6, Known, Zenon DEF PtesOK
<1>8. Types' /\ OnlyTask(c)
  <2>1. Types /\ page \in Frames
    BY <1>2, Known, Zenon DEF Free
  <2>2. mem_map' = [f \in Frames |-> mem_map'[f]]
    BY <1>3
  <2>3. dir' \in [Tasks -> [Blocks -> Frames \cup {Low, None}]]
    BY <1>3, <1>5, <2>1, Zenon DEF Types
  <2>4. Types'
    BY <1>1, <1>3, <2>1, <2>2, <2>3, Zenon DEF Types
  <2>5. \A q \in Tasks, a \in Addrs : q # c => pte'[q][a].frame = pte[q][a].frame
    BY <1>6, <1>7, Zenon
  <2>6. \A q \in Tasks : q # c => /\ status'[q] = status[q] /\ task'[q] = task[q] /\ dir'[q] = dir[q]
                                  /\ executable'[q] = executable[q]
    BY <1>3, <2>1, Zenon DEF Types
  <2>7. UNCHANGED <<buf, args, fault, hold>>
    BY <1>3, Zenon
  <2> QED
    BY <2>4, <2>5, <2>6, <2>7, Zenon DEF OnlyTask, SameTask
<1>9. TaskOK(c)'
  BY <1>1, <1>3, Known, Zenon DEF TaskOK, Types
<1>10. SharedReadOnly' /\ spoiled' \in BOOLEAN
  <2>1. SharedReadOnly'
    <3> SUFFICES ASSUME NEW t \in Tasks, NEW u \in Tasks, NEW a \in Addrs, t # u, pte'[t][a].rw,
                        pte'[t][a].frame \notin {None, Low}
                 PROVE  pte'[u][a].frame # pte'[t][a].frame
      BY Zenon DEF SharedReadOnly
    <3>1. t # c /\ t # p /\ pte'[t][a] = pte[t][a]
      BY <1>6, <1>7, ZenonT(40)
    <3>2. pte'[u][a].frame = pte[u][a].frame \/ pte'[u][a].frame = pte[p][a].frame
      BY <1>6, <1>7, Zenon
    <3>3. SharedReadOnly
      BY Known, Zenon
    <3> QED
      BY <3>1, <3>2, <3>3 DEF SharedReadOnly
  <2> QED
    BY <2>1, <1>3, Known, Zenon
<1>11. ASSUME NEW f \in Frames PROVE FrameMoves(c, f)
  <2>1. Place(c, f, NoUse)
    BY <1>1, UsesApart, Known, Zenon DEF Place, PlaceOf
  <2>2. PICK w \in Uses \cup {NoUse} : Place(p, f, w)
    BY Placed, Zenon
  <2>3. /\ task'[c] = page /\ args'[c] = None /\ hold'[c] = None /\ lost' = lost
        /\ \A b \in Blocks : dir'[c][b] = IF b \in Tabled(p) THEN table[b] ELSE None
        /\ \A a \in Addrs : pte'[c][a].frame = pte[p][a].frame
    BY <1>1, <1>3, <1>5, <1>6, <1>7, Known DEF Types
  <2>4. ASSUME f \in new
        PROVE  mem_map[f] = 0 /\ w = NoUse /\ mem_map'[f] = 1 /\ \A a \in Addrs : pte[p][a].frame # f
    <3>1. f \in Free
      BY <1>2, <1>4, <2>4
    <3>2. mem_map[f] = 0 /\ w = NoUse
      BY <2>2, <3>1, UsedCount, Zenon DEF Free
    <3> QED
      BY <1>3, <2>2, <2>4, <3>2, UsesApart, Zenon DEF Place, PlaceOf
  <2>5. CASE f = page
    <3>1. f \in new /\ \A b \in Tabled(p) : table[b] # f
      BY <1>2, <1>4, <2>5, Zenon
    <3>2. Place(c, f, TaskUse)'
      BY <2>3, <2>4, <2>5, <3>1, UsesApart, UsesAre, Known, ZenonT(40) DEF Place, PlaceOf
    <3>3. Becomes(f, Refs(f), c, NoUse, TaskUse, mem_map[f], mem_map'[f], lost, lost')
      BY <2>3, <2>4, <3>1, UsesAre, Zenon DEF Becomes
    <3> QED
      BY <2>1, <3>2, <3>3, Zenon DEF FrameMoves
  <2>6. ASSUME NEW b \in Tabled(p), f = table[b] PROVE FrameMoves(c, f)
    <3>1. f \in new /\ f # page /\ b \in Blocks /\ \A d \in Tabled(p) : table[d] = f => d = b
      BY <1>2, <1>4, <2>6, Zenon DEF Tabled
    <3>2. Place(c, f, TableUse(b))'
      BY <2>3, <2>4, <2>6, <3>1, UsesApart, UsesAre, Known, ZenonT(40) DEF Place, PlaceOf
    <3>3. Becomes(f, Refs(f), c, NoUse, TableUse(b), mem_map[f], mem_map'[f], lost, lost')
      BY <2>3, <2>4, <3>1, UsesAre, Zenon DEF Becomes
    <3> QED
      BY <2>1, <3>2, <3>3, Zenon DEF FrameMoves
  <2>7. ASSUME NEW a \in Addrs, pte[p][a].frame = f, f \notin new PROVE FrameMoves(c, f)
    <3>1. w = PageUse(a) /\ mem_map'[f] = mem_map[f] + 1
      BY <1>3, <2>2, <2>7, Zenon DEF Place, PlaceOf
    <3>2. <<p, PageUse(a)>> \in Refs(f)
      BY <2>7, PageRef, Zenon
    <3>3. task'[c] # f /\ \A b \in Blocks : dir'[c][b] # f
      BY <1>4, <2>3, <2>7, Known
    <3>4. Place(c, f, PageUse(a))'
      <4>1. \A d \in Addrs : pte'[c][d].frame = f <=> PageUse(a) = PageUse(d)
        BY <2>2, <2>3, <3>1, Zenon DEF Place, PlaceOf
      <4>2. args'[c] # f /\ hold'[c] # f
        BY <2>3, Known, ZenonT(40)
      <4> QED
        BY <3>3, <4>1, <4>2, UsesApart, UsesAre, Zenon DEF Place, PlaceOf
    <3>5. Becomes(f, Refs(f), c, NoUse, PageUse(a), mem_map[f], mem_map'[f], lost, lost')
      BY <2>3, <3>1, <3>2, Zenon DEF Becomes
    <3> QED
      BY <2>1, <3>4, <3>5, Zenon DEF FrameMoves
  <2>8. CASE f \notin new /\ \A a \in Addrs : pte[p][a].frame # f
    <3>1. mem_map'[f] = mem_map[f]
      BY <1>3, <2>8, Zenon
    <3>2. task'[c] # f /\ \A b \in Blocks : dir'[c][b] # f
      BY <1>4, <2>3, <2>8, Known, ZenonT(40)
    <3>3. Place(c, f, NoUse)'
      BY <2>3, <2>8, <3>2, UsesApart, Known, Zenon DEF Place, PlaceOf
    <3>4. Becomes(f, Refs(f), c, NoUse, NoUse, mem_map[f], mem_map'[f], lost, lost')
      BY <2>3, <3>1, Zenon DEF Becomes
    <3> QED
      BY <2>1, <3>3, <3>4, Zenon DEF FrameMoves
  <2> QED
    BY <1>4, <2>5, <2>6, <2>7, <2>8, Zenon
<1> QED
  BY <1>7, <1>8, <1>9, <1>10, <1>11, Zenon DEF Changes
==============================================================================
