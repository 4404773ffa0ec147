----------------------------- MODULE MemoryProofs -----------------------------
(***************************************************************************)
(* Proofs about the page frames, for any number of tasks, frames, page     *)
(* tables and pages: mem_map counts exactly the references to a frame, a   *)
(* frame has one use, and a page of several tasks is write-protected.      *)
(*                                                                         *)
(* Module MemoryFrames shows what a handler may do to a frame's place in   *)
(* the one task it changes; here this is turned into the number of         *)
(* references.                                                             *)
(***************************************************************************)
EXTENDS MemoryFrames, FiniteSetTheorems

\* The page fault handlers as a whole: a task killed for lack of memory,
LEMMA OomStep ==
  ASSUME MemInv, NEW t \in Tasks, oom(t)
  PROVE  Changes(t)
<1>1. Exit(t, {hold[t]})
  BY Zenon DEF oom
<1>2. \A f \in Frames : f \in {hold[t]} <=> f = hold[t]
  BY Zenon
<1> QED
  BY <1>1, <1>2, ExitStep, Zenon

\* a write to a protected page,
LEMMA WpPageStep ==
  ASSUME MemInv, NEW t \in Tasks, NEW a \in Addrs, do_wp_page(t, a)
  PROVE  Changes(t)
<1>1. CASE NoCopyLeft(t, a)
  BY <1>1, OomStep, Zenon DEF do_wp_page
<1>2. CASE ~NoCopyLeft(t, a)
  <2>1. fault[t] = None /\ status[t] \in {"user", "trap"} /\ pte[t][a].frame # None
    BY Zenon DEF do_wp_page, Program, Runs
  <2>2. /\ un_wp_page(t, a) /\ status' = [status EXCEPT ![t] = "trap"] /\ buf' = [buf EXCEPT ![t] = a]
        /\ UNCHANGED <<task, dir, executable, args, load, history>>
    BY <1>2, Zenon DEF do_wp_page
  <2>3. "trap" \in {"trap", "call"}
    BY Zenon
  <2> QED
    BY <1>2, <2>1, <2>2, <2>3, UnWpStep, Zenon
<1> QED
  BY <1>1, <1>2, Zenon

\* verify_area,
LEMMA VerifyAreaStep ==
  ASSUME MemInv, NEW t \in Tasks, NEW a \in Addrs, verify_area(t, a)
  PROVE  Changes(t)
<1> DEFINE protected == pte[t][a].frame # None /\ ~pte[t][a].rw
<1>1. CASE protected /\ NoCopyLeft(t, a)
  BY <1>1, OomStep, Zenon DEF verify_area
<1>2. CASE protected /\ ~NoCopyLeft(t, a)
  <2>1. fault[t] = None /\ status[t] \in {"user", "trap"} /\ pte[t][a].frame # None
    BY <1>2, Zenon DEF verify_area, Program, Runs
  <2>2. /\ un_wp_page(t, a) /\ status' = [status EXCEPT ![t] = "call"] /\ buf' = [buf EXCEPT ![t] = a]
        /\ UNCHANGED <<task, dir, executable, args, load, history>>
    BY <1>2, Zenon DEF verify_area
  <2>3. "call" \in {"trap", "call"}
    BY Zenon
  <2> QED
    BY <1>2, <2>1, <2>2, <2>3, UnWpStep, ZenonT(40)
<1>3. CASE ~protected
  <2>1. /\ Program(t) /\ status' = [status EXCEPT ![t] = "call"] /\ buf' = [buf EXCEPT ![t] = a]
        /\ UNCHANGED <<mem_map, content, pte, task, dir, executable, args, load, history>>
    BY <1>3, Zenon DEF verify_area
  <2> QED
    BY <2>1, VerifyStep, Zenon
<1> QED
  BY <1>1, <1>2, <1>3, Zenon

\* and an absent page.
LEMMA NoPageStep ==
  ASSUME MemInv, NEW t \in Tasks, NEW a \in Addrs, do_no_page(t, a)
  PROVE  Changes(t)
<1>1. Faults(t, a)
  BY Zenon DEF do_no_page
<1>2. CASE executable[t] = None \/ a \notin FilePages
  <2>1. get_empty_page(t, a)
    BY <1>2, Zenon DEF do_no_page
  <2>2. CASE Free # {} /\ CanMap(t, a, Free \ {Pick(Free)})
    BY <1>1, <2>1, <2>2, EmptyPageStep, Zenon
  <2>3. CASE ~(Free # {} /\ CanMap(t, a, Free \ {Pick(Free)}))
    BY <2>1, <2>3, OomStep, Zenon DEF get_empty_page
  <2> QED
    BY <2>2, <2>3, Zenon
<1>3. CASE executable[t] # None /\ a \in FilePages
  <2>1. ASSUME NEW q \in Sharers(t, a), try_to_share(t, a, q) PROVE Changes(t)
    <3>1. CASE CanMap(t, a, Free)
      BY <1>1, <2>1, <3>1, ShareStep, Zenon
    <3>2. CASE ~CanMap(t, a, Free)
      BY <2>1, <3>2, OomStep, Zenon DEF try_to_share
    <3> QED
      BY <3>1, <3>2, Zenon
  <2>2. ASSUME Free = {}, oom(t) PROVE Changes(t)
    BY <2>2, OomStep, Zenon
  <2>3. ASSUME Free # {}, fault' = [fault EXCEPT ![t] = a], hold' = [hold EXCEPT ![t] = Pick(Free)],
               mem_map' = Taken({Pick(Free)}),
               UNCHANGED <<content, task, status, tables, executable, calls, history>>
        PROVE  Changes(t)
    BY <1>1, <1>3, <2>3, SleepStep, Zenon
  <2> QED
    BY <1>3, <2>1, <2>2, <2>3, Zenon DEF do_no_page
<1> QED
  BY <1>2, <1>3, Zenon

\* Every step is such a change.
Step == \E t \in Tasks : Changes(t)

\* Every handler changes one task.
LEMMA MemStep ==
  ASSUME MemInv, [Next]_vars
  PROVE  Step
<1>1. ASSUME NEW t \in Tasks, do_exit(t) PROVE Step
  <2>1. hold[t] = None
    BY <1>1, Known, Zenon DEF do_exit, Program, Runs, TaskOK
  <2>2. Exit(t, {}) /\ \A f \in Frames : f \in {} <=> f = hold[t]
    BY <1>1, <2>1, Known, Zenon DEF do_exit
  <2> QED
    BY <2>2, ExitStep DEF Step
<1>2. ASSUME NEW t \in Tasks, release(t) PROVE Step
  BY <1>2, ReleaseStep, Zenon DEF Step
<1>3. ASSUME NEW t \in Tasks, do_no_page_loaded(t) PROVE Step
  <2>1. CASE CanMap(t, fault[t], Free)
    BY <1>3, <2>1, LoadedStep, Zenon DEF Step
  <2>2. CASE ~CanMap(t, fault[t], Free)
    BY <1>3, <2>2, OomStep, Zenon DEF do_no_page_loaded, Step
  <2> QED
    BY <2>1, <2>2, Zenon
<1>4. ASSUME NEW t \in Tasks, put_fs_byte(t) PROVE Step
  <2>1. buf[t] \in Addrs
    BY <1>4, Known DEF put_fs_byte, Types, TaskOK
  <2>2. Store(t, buf[t]) /\ fault[t] = None /\ status[t] \in {"user", "trap", "call"}
    BY <1>4, Zenon DEF put_fs_byte, Runs
  <2> QED
    BY <2>1, <2>2, StoreStep, Zenon DEF Step
<1>5. ASSUME NEW t \in Tasks, sys_read_fails(t) PROVE Step
  BY <1>5, ReadFailsStep DEF Step
<1>6. ASSUME NEW t \in Tasks, copy_strings(t) PROVE Step
  BY <1>6, CopyStringsStep DEF Step
<1>7. ASSUME NEW t \in Tasks, exec_error(t) PROVE Step
  BY <1>7, ExecErrorStep DEF Step
<1>8. ASSUME NEW t \in Tasks, do_execve(t) PROVE Step
  BY <1>8, ExecveStep DEF Step
<1>9. ASSUME NEW t \in Tasks, change_ldt(t) PROVE Step
  BY <1>9, ChangeLdtStep DEF Step
<1>10. ASSUME NEW t \in Tasks, NEW c \in Tasks, copy_process(t, c) PROVE Step
  BY <1>10, ForkStep, Zenon DEF Step
<1>11. ASSUME NEW t \in Tasks, NEW c \in Tasks, copy_process_fails(t, c) PROVE Step
  BY <1>11, ForkFailsStep, Zenon DEF Step
<1>12. ASSUME NEW t \in Tasks, NEW a \in Addrs, do_wp_page(t, a) PROVE Step
  BY <1>12, WpPageStep, Zenon DEF Step
<1>13. ASSUME NEW t \in Tasks, NEW a \in Addrs, verify_area(t, a) PROVE Step
  BY <1>13, VerifyAreaStep DEF Step
<1>14. ASSUME NEW t \in Tasks, NEW a \in Addrs, do_no_page(t, a) PROVE Step
  BY <1>14, NoPageStep DEF Step
<1>15. ASSUME NEW t \in Tasks, NEW a \in Addrs, user_store(t, a) PROVE Step
  <2>1. Store(t, a) /\ fault[t] = None /\ status[t] \in {"user", "trap", "call"}
    BY <1>15, Zenon DEF user_store, Program, Runs
  <2> QED
    BY <2>1, StoreStep, Zenon DEF Step
<1>16. CASE UNCHANGED vars
  <2>1. UNCHANGED <<mem_map, content, task, status, dir, pte, executable, buf, args, fault, hold, lost, spoiled>>
    BY <1>16, Zenon DEF vars, tables, calls, load, history
  <2>2. Root \in Tasks
    BY MemoryAssumption, Zenon
  <2>3. Types' /\ OnlyTask(Root)
    BY <2>1, <2>2, Known, Zenon DEF Types, OnlyTask, SameTask
  <2>4. TaskOK(Root)'
    BY <2>1, <2>2, Known, Zenon DEF TaskOK
  <2> QED
    BY <2>1, <2>2, <2>3, <2>4, QuietStep, ZenonT(40) DEF Step
<1>17. CASE Next
  BY <1>17, <1>1, <1>2, <1>3, <1>4, <1>5, <1>6, <1>7, <1>8, <1>9, <1>10, <1>11, <1>12, <1>13, <1>14, <1>15,
     ZenonT(40) DEF Next
<1> QED
  BY <1>16, <1>17, Zenon

------------------------------------------------------------------------------
\* The references S to f of a step that changes those of t, whose place of f was
\* w and is w2, into S2.
Moves(S, S2, t, w, w2) ==
    /\ S \subseteq Tasks \X Uses /\ S2 \subseteq Tasks \X Uses
    /\ \A u \in Uses : <<t, u>> \in S <=> u = w
    /\ \A u \in Uses : <<t, u>> \in S2 <=> u = w2
    /\ \A q \in Tasks, u \in Uses : q # t => (<<q, u>> \in S <=> <<q, u>> \in S2)

\* A count that is the number of references tells what Tells says.
LEMMA CountTells ==
  ASSUME NEW f, NEW S, NEW n, NEW l, Accounted(f, S, n, l)
  PROVE  FrameOK(f, S, n, l)
<1>1. IsFiniteSet(S) /\ n = Cardinality(S) + (IF f \in l THEN 1 ELSE 0) /\ (f \in l => S = {})
  BY Zenon DEF Accounted
<1>2. Cardinality(S) \in Nat /\ (Cardinality(S) = 0 <=> S = {})
  BY <1>1, FS_CardinalityType, FS_EmptySet, Zenon
<1>3. ASSUME NEW r \in S, n = 1 PROVE S = {r}
  <2>1. IsFiniteSet(S \ {r}) /\ Cardinality(S \ {r}) = 0
    <3>1. Cardinality(S) = 1
      BY <1>1, <1>2, <1>3
    <3>2. /\ IsFiniteSet(S \ {r})
          /\ Cardinality(S \ {r}) = IF r \in S THEN Cardinality(S) - 1 ELSE Cardinality(S)
      BY <1>1, FS_RemoveElement, Zenon
    <3> QED
      BY <1>3, <3>1, <3>2
  <2> QED
    BY <2>1, <1>3, FS_EmptySet, Zenon
<1> QED
  BY <1>1, <1>2, <1>3 DEF FrameOK, Tells

\* Whatever becomes of it, a frame stays accounted for.
LEMMA FrameKept ==
  ASSUME NEW f, NEW S, NEW S2, NEW t \in Tasks, NEW w, NEW w2, NEW n, NEW n2, NEW l, NEW l2,
         FrameOK(f, S, n, l), Moves(S, S2, t, w, w2), Becomes(f, S, t, w, w2, n, n2, l, l2)
  PROVE  FrameOK(f, S2, n2, l2)
<1> SUFFICES Accounted(f, S2, n2, l2)
  BY CountTells, Zenon
<1>1. /\ \A r, s \in S : r[2] = s[2] /\ (r # s => r[2][1] = "page")
      /\ IsFiniteSet(S) /\ n = Cardinality(S) + (IF f \in l THEN 1 ELSE 0) /\ (f \in l => S = {})
      /\ n \in Nat /\ Cardinality(S) \in Nat
      /\ n = 0 => S = {} /\ f \notin l
      /\ \A r \in S : f \notin l /\ n = Cardinality(S) /\ n >= 1 /\ (n = 1 => S = {r})
  BY FS_CardinalityType DEF FrameOK, Accounted, Tells
<1>2. \A r \in S \cup S2 : r = <<r[1], r[2]>> /\ r[1] \in Tasks /\ r[2] \in Uses
  BY DEF Moves
<1>3. NoUse \notin Uses
  BY UsesAre, Zenon
<1>4. ASSUME S2 = {<<t, w2>>}, n2 = 1, f \notin l2 PROVE Accounted(f, S2, n2, l2)
  <2>1. IsFiniteSet(S2) /\ Cardinality(S2) = 1
    BY <1>4, FS_Singleton, Zenon
  <2> QED
    BY <1>4, <2>1 DEF Accounted
<1>5. CASE w2 = w /\ n2 = n /\ (f \in l2 <=> f \in l)
  <2>1. S2 = S
    BY <1>2, <1>5 DEF Moves
  <2> QED
    BY <2>1, <1>5, Zenon DEF FrameOK, Accounted
<1>6. CASE n = 0 /\ w2 \in Uses /\ n2 = 1 /\ (f \in l2 <=> f \in l)
  <2>1. S2 = {<<t, w2>>} /\ f \notin l2
    BY <1>1, <1>2, <1>6 DEF Moves
  <2> QED
    BY <2>1, <1>4, <1>6, ZenonT(40)
<1>7. CASE w \in Uses /\ w2 = NoUse /\ n2 = n - 1 /\ (f \in l2 <=> f \in l)
  <2>1. <<t, w>> \in S /\ S2 = S \ {<<t, w>>}
    BY <1>1, <1>2, <1>3, <1>7 DEF Moves
  <2>2. IsFiniteSet(S2) /\ Cardinality(S2) = Cardinality(S) - 1
    BY <1>1, <2>1, FS_RemoveElement, ZenonT(40)
  <2> QED
    BY <1>1, <1>7, <2>1, <2>2 DEF Accounted
<1>8. ASSUME w = NoUse, n2 = n + 1, f \in l2 <=> f \in l,
             NEW q \in Tasks, NEW a \in Addrs, w2 = PageUse(a), <<q, w2>> \in S
      PROVE  Accounted(f, S2, n2, l2)
  <2>1. w2 \in Uses /\ w2[1] = "page"
    BY <1>8, UsesAre, Zenon
  <2>2. <<t, w2>> \notin S /\ S2 = S \cup {<<t, w2>>}
    BY <1>2, <1>3, <1>8, <2>1 DEF Moves
  <2>3. IsFiniteSet(S2) /\ Cardinality(S2) = Cardinality(S) + 1
    BY <1>1, <2>2, FS_AddElement, ZenonT(40)
  <2>4. \A r \in S2 : r[2] = w2
    BY <1>1, <1>8, <2>2
  <2> QED
    BY <1>1, <1>8, <2>1, <2>3, <2>4 DEF Accounted
<1>9. ASSUME w \in Uses, n = 1 \/ w[1] # "page" PROVE S = {<<t, w>>} /\ n = 1 /\ f \notin l
  <2>1. <<t, w>> \in S
    BY <1>9, Zenon DEF Moves
  <2>2. S = {<<t, w>>}
    BY <2>1, <1>1, <1>9, ZenonT(40)
  <2>3. Cardinality({<<t, w>>}) = 1
    BY FS_Singleton, Zenon
  <2> QED
    BY <2>1, <2>2, <2>3, <1>1, ZenonT(40)
<1>10. CASE w \in Uses /\ w2 \in Uses /\ (n = 1 \/ w[1] # "page") /\ n2 = n /\ (f \in l2 <=> f \in l)
  <2>1. S2 = {<<t, w2>>}
    BY <1>2, <1>9, <1>10 DEF Moves
  <2> QED
    BY <2>1, <1>4, <1>9, <1>10
<1>11. CASE w \in Uses /\ w[1] # "page" /\ w2 = NoUse /\ n2 = n /\ f \in l2
  <2>1. S2 = {}
    BY <1>2, <1>3, <1>9, <1>11 DEF Moves
  <2> QED
    BY <2>1, <1>9, <1>11, FS_EmptySet DEF Accounted
<1> QED
  BY <1>5, <1>6, <1>7, <1>8, <1>10, <1>11, Zenon DEF Becomes

\* A handler keeps the invariant when it changes one task, and the frames become
\* what they may become.
LEMMA StepKeeps ==
  ASSUME MemInv, NEW t \in Tasks, Changes(t)
  PROVE  MemInv'
<1>1. ASSUME NEW f \in Frames PROVE FrameOK(f, Refs(f), mem_map[f], lost)'
  <2>1. PICK w, w2 : /\ Place(t, f, w) /\ Place(t, f, w2)'
                     /\ Becomes(f, Refs(f), t, w, w2, mem_map[f], mem_map'[f], lost, lost')
    BY Zenon DEF Changes, FrameMoves
  <2>2. FrameOK(f, Refs(f), mem_map[f], lost)
    BY Zenon DEF MemInv, Counted
  <2>3. ASSUME NEW q \in Tasks, NEW u \in Uses
        PROVE  <<q, u>> \in Refs(f)' <=> At(task'[q], args'[q], hold'[q], dir'[q], pte'[q], u) = f
    BY Zenon DEF Refs, Target, At
  <2>4. ASSUME NEW u \in Uses PROVE <<t, u>> \in Refs(f) <=> u = w
    <3>1. At(task[t], args[t], hold[t], dir[t], pte[t], u) = f <=> u = w
      BY <2>1, PlaceAt DEF Place
    <3> QED
      BY <3>1, RefIs, ZenonT(40)
  <2>5. ASSUME NEW u \in Uses PROVE <<t, u>> \in Refs(f)' <=> u = w2
    <3>1. At(task'[t], args'[t], hold'[t], dir'[t], pte'[t], u) = f <=> u = w2
      BY <2>1, PlaceAt DEF Place
    <3> QED
      BY <3>1, <2>3, ZenonT(40)
  <2>6. ASSUME NEW q \in Tasks, NEW u \in Uses, q # t PROVE <<q, u>> \in Refs(f) <=> <<q, u>> \in Refs(f)'
    <3>1. SameTask(q)
      BY <2>6, Zenon DEF Changes, OnlyTask
    <3>2. /\ Targets(task[q], args[q], hold[q], dir[q], pte[q])
          /\ Targets(task'[q], args'[q], hold'[q], dir'[q], pte'[q])
      BY AtKinds, Zenon
    <3>3. At(task'[q], args'[q], hold'[q], dir'[q], pte'[q], u) = At(task[q], args[q], hold[q], dir[q], pte[q], u)
      BY <3>1, <3>2, UseKinds, ZenonT(40) DEF SameTask, Targets
    <3> QED
      BY <3>3, <2>3, RefIs
  <2>7. Moves(Refs(f), Refs(f)', t, w, w2)
    BY <2>4, <2>5, <2>6, Zenon DEF Moves, Refs
  <2> QED
    BY <2>1, <2>2, <2>7, FrameKept, ZenonT(40)
<1>2. ASSUME NEW q \in Tasks PROVE TaskOK(q)'
  <2>1. CASE q # t
    <3>1. SameTask(q) /\ TaskOK(q) /\ fault[q] \in Addrs \cup {None}
      BY <2>1, Zenon DEF Changes, OnlyTask, MemInv, Types
    <3> QED
      BY <3>1, Zenon DEF SameTask, TaskOK
  <2> QED
    BY <2>1, Zenon DEF Changes
<1> QED
  BY <1>1, <1>2, Zenon DEF MemInv, Counted, PtesOK, Changes

\* mem_init leaves every frame free, and task 0 in low memory.
LEMMA MemInit ==
  ASSUME Init
  PROVE  MemInv
<1>1. PICK b \in Blocks :
        /\ dir = [t \in Tasks |-> IF t = Root THEN [NoTables EXCEPT ![b] = Low] ELSE NoTables]
        /\ pte = [t \in Tasks |-> [a \in Addrs |->
                     IF t = Root /\ a[1] = b
                     THEN [frame |-> Low, rw |-> TRUE, dirty |-> FALSE, written |-> FALSE] ELSE NotPresent]]
  BY Zenon DEF Init
<1>2. Types /\ spoiled \in BOOLEAN
  <2>1. dir \in [Tasks -> [Blocks -> Frames \cup {Low, None}]]
    BY <1>1, Zenon DEF NoTables
  <2> QED
    BY <2>1, Zenon DEF Init, Types, Values
<1>3. PtesOK(pte) /\ \A t \in Tasks, a \in Addrs : pte[t][a].frame \in {Low, None}
  BY <1>1, Zenon DEF PtesOK, Pte, NotPresent
<1>4. SharedReadOnly
  BY <1>3, Zenon DEF SharedReadOnly
<1>5. ASSUME NEW f \in Frames PROVE FrameOK(f, Refs(f), mem_map[f], lost)
  <2>1. ASSUME NEW t \in Tasks, NEW u \in Uses PROVE <<t, u>> \notin Refs(f)
    <3>1. Targets(task[t], args[t], hold[t], dir[t], pte[t])
      BY AtKinds, Zenon
    <3>2. f \notin {None, Low} /\ task[t] = None /\ args[t] = None /\ hold[t] = None
      BY MemoryAssumption, Zenon DEF Init
    <3>3. (\A c \in Blocks : dir[t][c] # f) /\ (\A a \in Addrs : pte[t][a].frame # f)
      BY <1>1, <1>3, <3>2, Zenon DEF NoTables
    <3>4. At(task[t], args[t], hold[t], dir[t], pte[t], u) # f
      BY <3>1, <3>2, <3>3, UseKinds, ZenonT(40) DEF Targets
    <3> QED
      BY <3>4, RefIs, Zenon
  <2>2. Refs(f) = {}
    BY <2>1, Zenon DEF Refs
  <2>3. mem_map[f] = 0 /\ lost = {}
    BY Zenon DEF Init
  <2>4. IsFiniteSet({}) /\ Cardinality({}) = 0
    BY FS_EmptySet, Zenon
  <2> QED
    BY <2>2, <2>3, <2>4, CountTells DEF Accounted
<1>6. ASSUME NEW t \in Tasks PROVE TaskOK(t)
  <2>1. /\ status[t] = IF t = Root THEN "user" ELSE "free"
        /\ args[t] = None /\ hold[t] = None /\ fault[t] = None /\ task[t] = None
    BY Zenon DEF Init
  <2>2. t # Root => (\A c \in Blocks : dir[t][c] = None) /\ (\A a \in Addrs : pte[t][a].frame = None)
    BY <1>1, Zenon DEF NoTables, NotPresent
  <2> QED
    BY <2>1, <2>2, Zenon DEF TaskOK
<1> QED
  BY <1>2, <1>3, <1>4, <1>5, <1>6 DEF MemInv, Counted

\* What the invariant says of the frames.
LEMMA MemInvSound ==
  ASSUME MemInv
  PROVE  FramesSound
<1> DEFINE S(f) == Refs(f)
<1>1. ASSUME NEW f \in Frames
      PROVE  /\ \A r, s \in S(f) : r[2] = s[2] /\ (r # s => r[2][1] = "page")
             /\ IsFiniteSet(S(f))
             /\ mem_map[f] = Cardinality(S(f)) + IF f \in lost THEN 1 ELSE 0
  BY Zenon DEF MemInv, Counted, FrameOK, Accounted
<1>2. TypeOK
  <2>1. Types /\ pte \in [Tasks -> [Addrs -> Pte]] /\ spoiled \in BOOLEAN
    BY Zenon DEF MemInv, PtesOK
  <2>2. \A f \in Frames : mem_map[f] \in Nat
    BY Zenon DEF MemInv, Counted, FrameOK, Tells
  <2> QED
    BY <2>1, <2>2, Zenon DEF TypeOK, Types
<1>3. CountExact
  BY <1>1, Zenon DEF CountExact
<1>4. SharedReadOnly
  BY Zenon DEF MemInv
<1>5. SingleUse
  <2> SUFFICES ASSUME NEW f \in Frames
               PROVE  LET uses == {r[2] : r \in Refs(f)} IN
                      /\ Cardinality(uses) <= 1
                      /\ Cardinality(Refs(f)) > 1 => uses \subseteq {"page"} \X Addrs
    BY Zenon DEF SingleUse
  <2> DEFINE T    == Refs(f)
             uses == {r[2] : r \in T}
  <2>1. \A r, s \in T : r[2] = s[2] /\ (r # s => r[2][1] = "page")
    BY <1>1, Zenon
  <2>2. \A r \in T : r[2] \in Uses
    BY Zenon DEF Refs
  <2> HIDE DEF T
  <2>3. Cardinality(uses) <= 1
    <3>1. CASE T = {}
      <4>1. uses = {}
        BY <3>1, Zenon
      <4> QED
        BY <4>1, FS_EmptySet
    <3>2. ASSUME NEW r \in T PROVE Cardinality(uses) <= 1
      <4>1. \A s \in T : s[2] = r[2]
        BY <2>1, Zenon
      <4>2. uses = {r[2]}
        BY <4>1, Zenon
      <4>3. Cardinality({r[2]}) = 1
        BY FS_Singleton, Zenon
      <4> HIDE DEF uses
      <4> QED
        BY <4>2, <4>3
    <3> QED
      BY <3>1, <3>2, Zenon
  <2>4. ASSUME Cardinality(T) > 1 PROVE uses \subseteq {"page"} \X Addrs
    <3> SUFFICES ASSUME NEW r \in T PROVE r[2] \in {"page"} \X Addrs
      BY Zenon
    <3>1. T # {r}
      <4>1. Cardinality({r}) = 1
        BY FS_Singleton, Zenon
      <4> QED
        BY <4>1, <2>4
    <3>2. r[2][1] = "page" /\ r[2] \in Uses
      BY <3>1, <2>1, <2>2, Zenon
    <3> QED
      BY <3>2 DEF Uses
  <2> QED
    BY <2>3, <2>4, Zenon DEF T
<1> QED
  BY <1>2, <1>3, <1>4, <1>5, ZenonT(40) DEF FramesSound

\* However many tasks, frames and pages there are, and however fork, exec, page
\* faults and exits interleave and fail: mem_map counts exactly the references to
\* a frame, a frame has one use, and a page of several tasks is write-protected.
THEOREM FramesStaySound == Spec => []FramesSound
<1>1. Init => MemInv
  BY MemInit, Zenon
<1>2. MemInv /\ [Next]_vars => MemInv'
  BY MemStep, StepKeeps, Zenon DEF Step
<1>3. MemInv => FramesSound
  BY MemInvSound, Zenon
<1> QED
  BY <1>1, <1>2, <1>3, PTL DEF Spec
===============================================================================
