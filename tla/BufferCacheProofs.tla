--------------------------- MODULE BufferCacheProofs ---------------------------
(***************************************************************************)
(* The buffer cache is sound and keeps what was written, for any number of *)
(* tasks, buffers and blocks.  A step of a task is first abstracted to what *)
(* it may do to buffers, counts and the task itself (Step); that keeps the *)
(* invariant, whatever the step was.                                       *)
(***************************************************************************)
EXTENDS BufferCache, FiniteSetTheorems, TLAPS

Heads == [blocknr : Blocks \cup {0}, count : Nat,
          dirt : BOOLEAN, uptodate : BOOLEAN, lock : BOOLEAN]

\* TypeOK, but for the bound on counts, which CountsHeld gives.
HeadTypes == bh \in [Buffers -> Heads] /\ io \in [Buffers -> {"none", "READ", "WRITE", "moved"}]
DataTypes == /\ data \in [Buffers -> Data] /\ disk \in [Blocks -> Data] /\ latest \in [Blocks -> Data]
             /\ blind \subseteq Blocks
TaskTypes == /\ pc \in [Tasks -> {"idle", "repeat", "full", "victim", "sync"} \cup Holding]
             /\ op \in [Tasks -> {"read", "update", "overwrite", "ahead"}]
             /\ want \in [Tasks -> Blocks]
             /\ mine \in [Tasks -> 0 .. NR_BUFFERS] /\ first \in [Tasks -> 0 .. NR_BUFFERS]
             /\ scan \in [Tasks -> 0 .. 2 * NR_BUFFERS] /\ quiet \in BOOLEAN

\* What a task knows of its buffers, wherever it sleeps.
TaskOK(t) ==
    /\ pc[t] \in Holding \cup {"victim"} => mine[t] # 0
    /\ pc[t] = "hash" => bh[mine[t]].blocknr = Target(t)
    /\ pc[t] \in {"read", "use", "release"} => bh[mine[t]].blocknr = want[t] /\ first[t] = 0
    /\ first[t] # 0 => op[t] = "ahead" /\ bh[first[t]].blocknr = want[t]
    /\ pc[t] = "idle" => first[t] = 0
    /\ pc[t] = "sync" => scan[t] # 0 /\ (mine[t] = 0 => first[t] = 0)

Unique == \A b, c \in Buffers : bh[b].blocknr # 0 /\ bh[b].blocknr = bh[c].blocknr => b = c

\* A locked buffer is one the device works on, and has a block, as a dirty one has.
HeadOK(b) ==
    /\ bh[b].lock <=> io[b] # "none"
    /\ io[b] # "none" => bh[b].blocknr # 0
    /\ bh[b].dirt => bh[b].blocknr # 0

Held(b)   == {t \in Tasks : pc[t] \in Holding /\ mine[t] = b}
Firsts(b) == {t \in Tasks : first[t] = b}
Counted   == \A b \in Buffers : bh[b].count = Cardinality(Held(b)) + Cardinality(Firsts(b))

CacheInv == /\ HeadTypes /\ DataTypes /\ TaskTypes
            /\ \A t \in Tasks : TaskOK(t)
            /\ Unique /\ \A b \in Buffers : HeadOK(b)
            /\ Counted /\ WaitsOnlyWhenFull

\* What the buffer of a block and the disk hold, unless the block was overwritten
\* in a buffer that had not been read in.
BlockOK(k) ==
    /\ find_buffer(k) = {} => disk[k] = latest[k]
    /\ \A b \in find_buffer(k) :
          /\ bh[b].uptodate \/ io[b] = "moved" => data[b] = latest[k]
          /\ bh[b].dirt \/ io[b] = "WRITE" => bh[b].uptodate
          /\ ~bh[b].dirt /\ io[b] # "WRITE" => disk[k] = latest[k]

\* A buffer is read only before it is up to date, and it is up to date when a
\* caller uses what bread returned.
DataInv ==
    /\ \A b \in Buffers : io[b] = "READ" => ~bh[b].uptodate
    /\ \A t \in Tasks : pc[t] = "use" /\ op[t] # "overwrite" => bh[mine[t]].uptodate
    /\ \A k \in Blocks \ blind : BlockOK(k)

------------------------------------------------------------------------------
\* What a step of a task may do to a buffer: nothing but count, start the device
\* on it, or take it for another block.
Same(b) ==
    /\ bh'[b].blocknr = bh[b].blocknr /\ bh'[b].uptodate = bh[b].uptodate
    /\ bh'[b].dirt = bh[b].dirt /\ bh'[b].lock = bh[b].lock /\ io'[b] = io[b]

Starts(b) ==
    /\ bh'[b].blocknr = bh[b].blocknr /\ bh'[b].uptodate = bh[b].uptodate
    /\ ~bh[b].lock /\ bh'[b].lock /\ ~bh'[b].dirt
    /\ \/ io'[b] = "READ" /\ ~bh[b].uptodate
       \/ io'[b] = "WRITE" /\ bh[b].dirt
    /\ bh[b].blocknr # 0

Claims(b, k) ==
    /\ bh[b].count = 0 /\ ~bh[b].dirt /\ ~bh[b].lock
    /\ find_buffer(k) = {} /\ k \in Blocks /\ bh'[b].blocknr = k
    /\ ~bh'[b].dirt /\ ~bh'[b].uptodate
    /\ \/ ~bh'[b].lock /\ io'[b] = "none"
       \/ bh'[b].lock /\ io'[b] = "READ"

\* What it may do to the other tasks: brelse wakes those that wait for a buffer.
SameTask(u) ==
    /\ op'[u] = op[u] /\ want'[u] = want[u] /\ mine'[u] = mine[u] /\ first'[u] = first[u]
    /\ scan'[u] = scan[u]
    /\ pc'[u] = pc[u] \/ (pc[u] = "full" /\ pc'[u] = "repeat")

One(x)     == IF x THEN 1 ELSE 0
Uses(t, b) == One(pc[t] \in Holding /\ mine[t] = b) + One(first[t] = b)

\* A step of task t that takes buffer v, or none when v is 0.
Step(t, v) ==
    /\ HeadTypes' /\ TaskTypes'
    /\ \A u \in Tasks \ {t} : SameTask(u)
    /\ \A b \in Buffers : bh'[b].count + Uses(t, b) = bh[b].count + Uses(t, b)'
    /\ \A b \in Buffers : Same(b) \/ Starts(b) \/ (b = v /\ Claims(b, Target(t)))
    /\ TaskOK(t)' /\ WaitsOnlyWhenFull'
    /\ pc'[t] = "use" /\ op'[t] # "overwrite" => bh'[mine'[t]].uptodate
    /\ UNCHANGED <<data, disk, latest, blind>>
------------------------------------------------------------------------------
\* The numbers of blocks and of buffers.
LEMMA Known ==
  /\ NR_BUFFERS \in Nat /\ NR_BUFFERS # 0 /\ IsFiniteSet(Tasks)
  /\ Cardinality(Blocks) \in Nat /\ Cardinality(Blocks) # 0
  /\ 0 \notin Buffers /\ Buffers \subseteq Nat
  /\ 0 \notin Blocks /\ Blocks \subseteq Nat /\ Blocks = 1 .. Cardinality(Blocks)
<1>1. Cardinality(Blocks) \in Nat /\ Cardinality(Blocks) # 0
  BY BufferCacheAssumption, FS_CardinalityType, FS_EmptySet, Zenon
<1> QED
  BY <1>1, BufferCacheAssumption DEF Buffers

\* The block that getblk is looking for is one.
LEMMA TargetType ==
  ASSUME TaskTypes, NEW t \in Tasks
  PROVE  Target(t) \in Blocks
<1>1. want[t] \in 1 .. Cardinality(Blocks)
  BY Known, Zenon DEF TaskTypes
<1>2. After(want[t]) \in 1 .. Cardinality(Blocks)
  BY <1>1, Known DEF After
<1> QED
  BY <1>1, <1>2, Known, Zenon DEF Target

\* A head whose flags change is one.
LEMMA FlagsSet ==
  ASSUME NEW h \in Heads, NEW x \in BOOLEAN, NEW y \in BOOLEAN
  PROVE  /\ [h EXCEPT !.dirt = x] \in Heads
         /\ [h EXCEPT !.lock = x, !.dirt = y] \in Heads
         /\ [h EXCEPT !.uptodate = x, !.lock = y] \in Heads
BY Zenon DEF Heads

\* ll_rw_block leaves the buffer alone or starts the device on it.
LEMMA LlRwBlock ==
  ASSUME NEW H \in [Buffers -> Heads], NEW cmd \in {"READ", "WRITE"}, NEW b \in Buffers,
         io \in [Buffers -> {"none", "READ", "WRITE", "moved"}],
         ll_rw_block(H, cmd, b)
  PROVE  /\ HeadTypes'
         /\ \A c \in Buffers : /\ bh'[c].blocknr = H[c].blocknr
                               /\ bh'[c].uptodate = H[c].uptodate
                               /\ bh'[c].count = H[c].count
         /\ \A c \in Buffers : \/ bh'[c] = H[c] /\ io'[c] = io[c]
                               \/ /\ c = b /\ Needed(H, cmd, b) /\ ~H[b].lock
                                  /\ bh'[b].lock /\ ~bh'[b].dirt /\ io'[b] = cmd
<1>1. CASE Needed(H, cmd, b) /\ ~H[b].lock
  <2>1. bh' = [H EXCEPT ![b].lock = TRUE, ![b].dirt = FALSE] /\ io' = [io EXCEPT ![b] = cmd]
    BY <1>1, Zenon DEF ll_rw_block
  <2>2. bh' \in [Buffers -> Heads] /\ io' \in [Buffers -> {"none", "READ", "WRITE", "moved"}]
    <3>1. [H[b] EXCEPT !.lock = TRUE, !.dirt = FALSE] \in Heads
      BY FlagsSet, Zenon
    <3>2. bh' = [H EXCEPT ![b] = [H[b] EXCEPT !.lock = TRUE, !.dirt = FALSE]]
      BY <2>1, Zenon
    <3> QED
      BY <2>1, <3>1, <3>2, ZenonT(40)
  <2>3. \A c \in Buffers : c # b => bh'[c] = H[c] /\ io'[c] = io[c]
    BY <2>1, Zenon
  <2>4. /\ bh'[b].blocknr = H[b].blocknr /\ bh'[b].uptodate = H[b].uptodate
        /\ bh'[b].count = H[b].count /\ bh'[b].lock = TRUE /\ bh'[b].dirt = FALSE
        /\ io'[b] = cmd
    BY <2>1, Zenon DEF Heads
  <2> QED
    BY <1>1, <2>2, <2>3, <2>4, Zenon DEF HeadTypes
<1>2. CASE ~(Needed(H, cmd, b) /\ ~H[b].lock)
  BY <1>2, Zenon DEF ll_rw_block, HeadTypes
<1> QED
  BY <1>1, <1>2, Zenon

\* A task that holds a buffer has one.
LEMMA MineIsBuffer ==
  ASSUME CacheInv, NEW u \in Tasks, pc[u] \in Holding
  PROVE  mine[u] \in Buffers
<1>1. mine[u] \in 0 .. NR_BUFFERS /\ mine[u] # 0
  BY Zenon DEF CacheInv, TaskTypes, TaskOK
<1> QED
  BY <1>1, Known DEF Buffers

\* A buffer that a task holds, or that breada has put aside, is counted.
LEMMA HeldCounted ==
  ASSUME CacheInv, NEW u \in Tasks, NEW b \in Buffers,
         (pc[u] \in Holding /\ mine[u] = b) \/ first[u] = b
  PROVE  bh[b].count # 0
<1>1. /\ IsFiniteSet(Held(b)) /\ Cardinality(Held(b)) \in Nat
      /\ IsFiniteSet(Firsts(b)) /\ Cardinality(Firsts(b)) \in Nat
  BY Known, FS_Subset, FS_CardinalityType, Zenon DEF Held, Firsts
<1>2. Held(b) # {} \/ Firsts(b) # {}
  BY Zenon DEF Held, Firsts
<1>3. Cardinality(Held(b)) # 0 \/ Cardinality(Firsts(b)) # 0
  BY <1>1, <1>2, FS_EmptySet, Zenon
<1>4. bh[b].count = Cardinality(Held(b)) + Cardinality(Firsts(b))
  BY Zenon DEF CacheInv, Counted
<1> QED
  BY <1>1, <1>3, <1>4

\* The size of a set of tasks that task t alone may enter or leave.
LEMMA Tally ==
  ASSUME NEW t \in Tasks, NEW S \in SUBSET Tasks, NEW R \in SUBSET Tasks,
         \A u \in Tasks \ {t} : u \in S <=> u \in R
  PROVE  /\ Cardinality(S) \in Nat /\ Cardinality(R) \in Nat
         /\ Cardinality(R) + One(t \in S) = Cardinality(S) + One(t \in R)
<1>1. /\ IsFiniteSet(S) /\ Cardinality(S) \in Nat /\ IsFiniteSet(R) /\ Cardinality(R) \in Nat
  BY Known, FS_Subset, FS_CardinalityType, Zenon
<1>2. CASE (t \in S) = (t \in R)
  <2>1. S = R
    BY <1>2
  <2> QED
    BY <1>1, <2>1, Zenon DEF One
<1>3. CASE t \in S /\ t \notin R
  <2>1. S = R \cup {t}
    BY <1>3, Zenon
  <2>2. Cardinality(S) = Cardinality(R) + 1
    BY <1>1, <1>3, <2>1, FS_AddElement, Zenon
  <2> QED
    BY <1>1, <1>3, <2>2 DEF One
<1>4. CASE t \notin S /\ t \in R
  <2>1. R = S \cup {t}
    BY <1>4, Zenon
  <2>2. Cardinality(R) = Cardinality(S) + 1
    BY <1>1, <1>4, <2>1, FS_AddElement, Zenon
  <2> QED
    BY <1>1, <1>4, <2>2 DEF One
<1> QED
  BY <1>2, <1>3, <1>4

\* Counts stay exact when the step counts what the task itself takes and gives up.
LEMMA StaysCounted ==
  ASSUME Counted, TaskTypes, TaskTypes', HeadTypes, HeadTypes', NEW t \in Tasks,
         \A u \in Tasks \ {t} : SameTask(u),
         \A b \in Buffers : bh'[b].count + Uses(t, b) = bh[b].count + Uses(t, b)'
  PROVE  Counted'
<1> SUFFICES ASSUME NEW b \in Buffers
             PROVE  bh'[b].count = Cardinality(Held(b)') + Cardinality(Firsts(b)')
  BY Zenon DEF Counted
<1> DEFINE S == Held(b) R == Held(b)' F == Firsts(b) G == Firsts(b)'
<1>1. S \in SUBSET Tasks /\ R \in SUBSET Tasks /\ F \in SUBSET Tasks /\ G \in SUBSET Tasks
  BY Zenon DEF Held, Firsts
<1>2. \A u \in Tasks \ {t} : (u \in S <=> u \in R) /\ (u \in F <=> u \in G)
  BY Zenon DEF Held, Firsts, SameTask, Holding
<1>3. Uses(t, b) = One(t \in S) + One(t \in F) /\ Uses(t, b)' = One(t \in R) + One(t \in G)
  BY Zenon DEF Held, Firsts, Uses, One
<1>4. bh[b].count = Cardinality(S) + Cardinality(F)
  BY Zenon DEF Counted
<1>5. bh[b].count \in Nat /\ bh'[b].count \in Nat
  BY Zenon DEF HeadTypes, Heads
<1>6. bh'[b].count + Uses(t, b) = bh[b].count + Uses(t, b)'
  BY Zenon
<1> HIDE DEF S, R, F, G
<1>7. /\ Cardinality(S) \in Nat /\ Cardinality(R) \in Nat
      /\ Cardinality(R) + One(t \in S) = Cardinality(S) + One(t \in R)
  BY <1>1, <1>2, Tally, Zenon
<1>8. /\ Cardinality(F) \in Nat /\ Cardinality(G) \in Nat
      /\ Cardinality(G) + One(t \in F) = Cardinality(F) + One(t \in G)
  BY <1>1, <1>2, Tally, Zenon
<1>9. bh'[b].count = Cardinality(R) + Cardinality(G)
  BY <1>3, <1>4, <1>5, <1>6, <1>7, <1>8 DEF One
<1> QED
  BY <1>9, Zenon DEF R, G

\* A task that sleeps still knows its buffers: nobody takes a buffer that is counted.
LEMMA OthersKeep ==
  ASSUME CacheInv, HeadTypes', TaskTypes', NEW u \in Tasks, TaskOK(u), SameTask(u),
         \A b \in Buffers : bh'[b].blocknr = bh[b].blocknr \/ bh[b].count = 0
  PROVE  TaskOK(u)'
<1>1. mine[u] \in 0 .. NR_BUFFERS /\ first[u] \in 0 .. NR_BUFFERS
  BY Zenon DEF CacheInv, TaskTypes
<1>2. pc[u] \in Holding /\ mine[u] # 0 => bh'[mine[u]].blocknr = bh[mine[u]].blocknr
  BY <1>1, HeldCounted, Known DEF Buffers
<1>3. first[u] # 0 => bh'[first[u]].blocknr = bh[first[u]].blocknr
  BY <1>1, HeldCounted, Known DEF Buffers
<1>4. Target(u)' = Target(u)
  BY Zenon DEF Target, SameTask
<1> QED
  BY <1>2, <1>3, <1>4, Zenon DEF TaskOK, SameTask, Holding

\* A step of a task keeps the invariant of the cache ...
LEMMA StepKeeps ==
  ASSUME CacheInv, NEW t \in Tasks, NEW v, Step(t, v)
  PROVE  CacheInv'
<1>1. HeadTypes /\ TaskTypes /\ DataTypes /\ HeadTypes' /\ TaskTypes' /\ DataTypes'
  BY Zenon DEF CacheInv, Step, DataTypes
<1>2. \A b \in Buffers : bh'[b].blocknr = bh[b].blocknr \/ (b = v /\ Claims(b, Target(t)))
  BY Zenon DEF Step, Same, Starts
<1>3. \A u \in Tasks : TaskOK(u)'
  <2>1. \A b \in Buffers : bh'[b].blocknr = bh[b].blocknr \/ bh[b].count = 0
    BY <1>2, Zenon DEF Claims
  <2> QED
    BY <1>1, <2>1, OthersKeep, Zenon DEF Step, CacheInv
<1>4. Unique'
  <2> SUFFICES ASSUME NEW b \in Buffers, NEW c \in Buffers,
                      bh'[b].blocknr # 0, bh'[b].blocknr = bh'[c].blocknr
               PROVE  b = c
    BY Zenon DEF Unique
  <2>1. Unique
    BY Zenon DEF CacheInv
  <2> QED
    BY <1>2, <2>1 DEF Unique, Claims, find_buffer
<1>5. \A b \in Buffers : HeadOK(b)'
  <2> SUFFICES ASSUME NEW b \in Buffers
               PROVE  HeadOK(b)'
    BY Zenon
  <2>1. HeadOK(b) /\ (Same(b) \/ Starts(b) \/ Claims(b, Target(t)))
    BY Zenon DEF Step, CacheInv
  <2>2. CASE Same(b)
    BY <2>1, <2>2, Zenon DEF HeadOK, Same
  <2>3. CASE Starts(b)
    BY <2>1, <2>3, Zenon DEF HeadOK, Starts
  <2>4. CASE Claims(b, Target(t))
    BY <2>4, Known, Zenon DEF HeadOK, Claims
  <2> QED
    BY <2>1, <2>2, <2>3, <2>4, Zenon
<1>6. Counted'
  BY <1>1, StaysCounted, Zenon DEF Step, CacheInv
<1> QED
  BY <1>1, <1>3, <1>4, <1>5, <1>6, Zenon DEF CacheInv, Step

\* ... and what is known of the data.
LEMMA StepKeepsData ==
  ASSUME CacheInv, DataInv, NEW t \in Tasks, NEW v, Step(t, v)
  PROVE  DataInv'
<1> USE DEF Step
<1>1. \A b \in Buffers : io'[b] = "READ" => ~bh'[b].uptodate
  <2> SUFFICES ASSUME NEW b \in Buffers, io'[b] = "READ"
               PROVE  ~bh'[b].uptodate
    BY Zenon
  <2>1. io[b] = "READ" => ~bh[b].uptodate
    BY Zenon DEF DataInv
  <2> QED
    BY <2>1, Zenon DEF Same, Starts, Claims
<1>2. ASSUME NEW u \in Tasks, pc'[u] = "use", op'[u] # "overwrite"
      PROVE  bh'[mine'[u]].uptodate
  <2>1. CASE u = t
    BY <1>2, <2>1, Zenon
  <2>2. CASE u # t
    <3>1. pc[u] = "use" /\ op[u] # "overwrite" /\ mine'[u] = mine[u] /\ bh[mine[u]].uptodate
      BY <1>2, <2>2, Zenon DEF SameTask, DataInv
    <3>2. mine[u] \in Buffers
      BY <3>1, MineIsBuffer, Zenon DEF Holding
    <3>3. bh[mine[u]].count # 0
      BY <3>1, <3>2, HeldCounted, Zenon DEF Holding
    <3>4. Same(mine[u]) \/ Starts(mine[u])
      BY <3>2, <3>3, Zenon DEF Claims
    <3> QED
      BY <3>1, <3>4, Zenon DEF Same, Starts
  <2> QED
    BY <2>1, <2>2, Zenon
<1>3. ASSUME NEW k \in Blocks \ blind
      PROVE  BlockOK(k)'
  <2>1. BlockOK(k) /\ data' = data /\ disk' = disk /\ latest' = latest
    BY Zenon DEF DataInv
  <2>2. ASSUME find_buffer(k)' = {}
        PROVE  disk[k] = latest[k]
    <3>1. ASSUME NEW b \in find_buffer(k)
          PROVE  disk[k] = latest[k]
      <4>1. b \in Buffers /\ bh[b].blocknr = k /\ bh'[b].blocknr # k
        BY <2>2, <3>1, Zenon DEF find_buffer
      <4>2. Claims(b, Target(t)) /\ HeadOK(b)
        BY <4>1, Zenon DEF Same, Starts, CacheInv
      <4>3. ~bh[b].dirt /\ io[b] # "WRITE"
        BY <4>2, Zenon DEF Claims, HeadOK
      <4> QED
        BY <2>1, <3>1, <4>3, Zenon DEF BlockOK
    <3> QED
      BY <2>1, <3>1, Zenon DEF BlockOK
  <2>3. ASSUME NEW b \in Buffers, bh'[b].blocknr = k
        PROVE  /\ bh'[b].uptodate \/ io'[b] = "moved" => data[b] = latest[k]
               /\ bh'[b].dirt \/ io'[b] = "WRITE" => bh'[b].uptodate
               /\ ~bh'[b].dirt /\ io'[b] # "WRITE" => disk[k] = latest[k]
    <3>1. CASE Same(b)
      <4>1. b \in find_buffer(k)
        BY <2>3, <3>1, Zenon DEF Same, find_buffer
      <4> QED
        BY <2>1, <3>1, <4>1, Zenon DEF Same, BlockOK
    <3>2. CASE Starts(b)
      <4>1. b \in find_buffer(k)
        BY <2>3, <3>2, Zenon DEF Starts, find_buffer
      <4>2. io[b] = "none"
        BY <3>2, Zenon DEF Starts, HeadOK, CacheInv
      <4> QED
        BY <2>1, <3>2, <4>1, <4>2, Zenon DEF Starts, BlockOK
    <3>3. CASE Claims(b, Target(t))
      <4>1. find_buffer(k) = {}
        BY <2>3, <3>3, Zenon DEF Claims
      <4> QED
        BY <2>1, <3>3, <4>1, Zenon DEF Claims, BlockOK
    <3> QED
      BY <3>1, <3>2, <3>3, Zenon
  <2> QED
    BY <2>1, <2>2, <2>3, Zenon DEF BlockOK, find_buffer
<1> QED
  BY <1>1, <1>2, <1>3, Zenon DEF DataInv

\* What is known when getblk returns buffer b to task t, with the heads H: b is the
\* one of the block looked for, found in the table (v = 0) or just taken (v = b).
Ready(t, b, H, v) ==
    /\ pc[t] \in {"repeat", "hash", "victim"} /\ H \in [Buffers -> Heads]
    /\ \A c \in Buffers \ {b} : H[c] = bh[c]
    /\ H[b].blocknr = Target(t) /\ ~H[b].lock /\ ~bh[b].lock
    /\ H[b].count + One(pc[t] = "hash") = bh[b].count + 1
    /\ pc[t] = "hash" => mine[t] = b
    /\ \/ /\ v = 0 /\ bh[b].blocknr = Target(t)
          /\ H[b].uptodate = bh[b].uptodate /\ H[b].dirt = bh[b].dirt
       \/ /\ v = b /\ bh[b].count = 0 /\ ~bh[b].dirt /\ find_buffer(Target(t)) = {}
          /\ ~H[b].dirt /\ ~H[b].uptodate

\* Heads that differ in the counts only.
Alike(D, H) ==
    \A c \in Buffers : /\ D[c].blocknr = H[c].blocknr /\ D[c].uptodate = H[c].uptodate
                       /\ D[c].dirt = H[c].dirt /\ D[c].lock = H[c].lock

\* The buffers after getblk has left the heads D and a read may have been started.
Left(t, D, v) ==
    /\ HeadTypes'
    /\ \A c \in Buffers : bh'[c].blocknr = D[c].blocknr /\ bh'[c].count = D[c].count
    /\ \A c \in Buffers : Same(c) \/ Starts(c) \/ (c = v /\ Claims(c, Target(t)))

\* Nobody waits beside a free buffer when none was given up.
LEMMA StillFull ==
  ASSUME WaitsOnlyWhenFull, quiet' = quiet,
         \A c \in Buffers : bh'[c].count = 0 => bh[c].count = 0,
         \A u \in Tasks : pc'[u] = "full" => pc[u] = "full"
  PROVE  WaitsOnlyWhenFull'
BY Zenon DEF WaitsOnlyWhenFull, Unused

\* What ll_rw_block(READ), if it is called, makes of the buffers that getblk leaves.
LEMMA ReadStarts ==
  ASSUME CacheInv, NEW t \in Tasks, NEW b \in Buffers, NEW H, NEW v, Ready(t, b, H, v),
         NEW D \in [Buffers -> Heads], Alike(D, H), NEW f \in Buffers, D[f].blocknr # 0,
         ll_rw_block(D, "READ", f) \/ (bh' = D /\ io' = io)
  PROVE  Left(t, D, v)
<1> USE DEF Alike
<1>1. /\ HeadTypes /\ TaskTypes /\ HeadOK(b) /\ HeadOK(f)
  BY Zenon DEF CacheInv
<1>2. /\ HeadTypes'
      /\ \A c \in Buffers : /\ bh'[c].blocknr = D[c].blocknr
                            /\ bh'[c].uptodate = D[c].uptodate
                            /\ bh'[c].count = D[c].count
      /\ \A c \in Buffers : \/ bh'[c] = D[c] /\ io'[c] = io[c]
                            \/ /\ c = f /\ Needed(D, "READ", f) /\ ~D[f].lock
                               /\ bh'[f].lock /\ ~bh'[f].dirt /\ io'[f] = "READ"
  BY <1>1, LlRwBlock DEF HeadTypes
<1>3. ASSUME NEW c \in Buffers
      PROVE  Same(c) \/ Starts(c) \/ (c = v /\ Claims(c, Target(t)))
  <2>1. CASE c = v
    <3>1. c = b /\ io[b] = "none"
      BY <1>1, <2>1, Known, Zenon DEF Ready, HeadOK
    <3>2. Claims(c, Target(t))
      BY <1>2, <2>1, <3>1, <1>1, TargetType, Known DEF Ready, Claims
    <3> QED
      BY <2>1, <3>2, Zenon
  <2>2. CASE c # v
    <3>1. /\ H[c].blocknr = bh[c].blocknr /\ H[c].uptodate = bh[c].uptodate
          /\ H[c].dirt = bh[c].dirt /\ H[c].lock = bh[c].lock
      BY <1>1, <2>2 DEF Ready, HeadTypes, Heads
    <3>2. CASE bh'[c] = D[c] /\ io'[c] = io[c]
      <4>1. /\ bh'[c].blocknr = D[c].blocknr /\ bh'[c].uptodate = D[c].uptodate
            /\ bh'[c].dirt = D[c].dirt /\ bh'[c].lock = D[c].lock
        BY <3>2, Zenon
      <4> QED
        BY <3>1, <3>2, <4>1, Zenon DEF Same
    <3>3. CASE /\ c = f /\ Needed(D, "READ", f) /\ ~D[f].lock
               /\ bh'[f].lock /\ ~bh'[f].dirt /\ io'[f] = "READ"
      <4>1. ~bh[c].uptodate /\ ~bh[c].lock
        BY <3>1, <3>3, Zenon DEF Needed
      <4>2. bh[c].blocknr # 0
        BY <3>1, <3>3, Zenon
      <4>3. bh'[c].blocknr = bh[c].blocknr /\ bh'[c].uptodate = bh[c].uptodate
        BY <1>2, <3>1, ZenonT(40)
      <4> QED
        BY <3>3, <4>1, <4>2, <4>3, Zenon DEF Starts
    <3> QED
      BY <1>2, <3>2, <3>3, Zenon
  <2> QED
    BY <2>1, <2>2, Zenon
<1> QED
  BY <1>2, <1>3, Zenon DEF Left

\* getblk returns a buffer to its caller.
LEMMA GotStep ==
  ASSUME CacheInv, NEW t \in Tasks, NEW b \in Buffers, NEW H, NEW v, Ready(t, b, H, v),
         Got(t, b, H)
  PROVE  Step(t, v)
<1>1. HeadTypes /\ TaskTypes /\ TaskOK(t) /\ WaitsOnlyWhenFull /\ H \in [Buffers -> Heads]
  BY Zenon DEF CacheInv, Ready
<1>2. /\ UNCHANGED <<data, disk, latest, blind, op, want, scan>>
      /\ pc' = [pc EXCEPT ![t] = pc'[t]] /\ pc'[t] \in {"use", "read", "repeat"}
      /\ mine' = [mine EXCEPT ![t] = mine'[t]] /\ mine'[t] \in {mine[t], b, first[t]}
      /\ first' = [first EXCEPT ![t] = first'[t]] /\ first'[t] \in {first[t], b, 0}
  BY <1>1 DEF Got, Goto, TaskTypes
<1>3. /\ H[b].blocknr # 0 /\ b # 0 /\ b \in 0 .. NR_BUFFERS /\ 0 \in 0 .. NR_BUFFERS
      /\ Alike(H, H)
  BY <1>1, TargetType, Known DEF Ready, Buffers, Alike
<1>4. TaskTypes' /\ \A u \in Tasks \ {t} : SameTask(u)
  <2>1. quiet' \in BOOLEAN
    BY <1>1, Zenon DEF Got, TaskTypes
  <2>2. \A u \in Tasks \ {t} : SameTask(u)
    BY <1>1, <1>2 DEF SameTask, TaskTypes
  <2> QED
    BY <1>1, <1>2, <1>3, <2>1, <2>2 DEF TaskTypes, Holding
<1>5. \A u \in Tasks : pc'[u] # "full" \/ pc[u] = "full"
  BY <1>2, <1>4, Zenon DEF SameTask
<1>6. \A c \in Buffers :
         /\ c # 0 /\ bh[c].count \in Nat /\ H[c].count \in Nat
         /\ One(first[t] = c) \in Nat /\ One(pc[t] \in Holding /\ mine[t] = c) \in Nat
         /\ Uses(t, c) = One(pc[t] \in Holding /\ mine[t] = c) + One(first[t] = c)
         /\ H[c].count + One(pc[t] \in Holding /\ mine[t] = c) = bh[c].count + One(c = b)
  <2>1. \A c \in Buffers : c # 0 /\ bh[c].count \in Nat /\ H[c].count \in Nat
    BY <1>1, Known, Zenon DEF HeadTypes, Heads
  <2>2. \A c \in Buffers : One(pc[t] \in Holding /\ mine[t] = c) = One(pc[t] = "hash" /\ c = b)
    BY Zenon DEF Ready, Holding
  <2>3. \A c \in Buffers : H[c].count + One(pc[t] = "hash" /\ c = b) = bh[c].count + One(c = b)
    BY <2>1, Zenon DEF Ready, One
  <2> QED
    BY <2>1, <2>2, <2>3 DEF Uses, One, Left
<1>7. \A c \in Buffers : H[c].count = 0 => bh[c].count = 0
  BY <1>6 DEF Ready, One
<1>8. CASE op[t] = "overwrite"
  <2>1. pc'[t] = "use" /\ mine'[t] = b /\ bh' = H /\ io' = io /\ first' = first /\ quiet' = quiet
    BY <1>1, <1>8, Zenon DEF Got, Goto, TaskTypes
  <2>2. first[t] = 0
    BY <1>1, <1>8, Zenon DEF TaskOK
  <2>3. Left(t, H, v)
    BY <1>1, <1>3, <2>1, ReadStarts, Zenon
  <2>4. \A c \in Buffers : Uses(t, c)' = One(c = b)
    BY <1>6, <2>1, <2>2 DEF Uses, One, Holding
  <2>5. \A c \in Buffers : bh'[c].count + Uses(t, c) = bh[c].count + Uses(t, c)'
    BY <1>6, <2>1, <2>2, <2>4 DEF One
  <2>6. TaskOK(t)'
    BY <1>2, <1>3, <2>1, <2>2, Zenon DEF TaskOK, Ready, Target
  <2>7. WaitsOnlyWhenFull'
    BY <1>1, <1>5, <1>7, <2>1, StillFull, Zenon DEF Left
  <2> QED
    BY <1>2, <1>4, <1>8, <2>1, <2>3, <2>5, <2>6, <2>7, ZenonT(40) DEF Step, Left
<1>9. CASE op[t] \in {"read", "update"}
  <2>1. pc'[t] = "read" /\ mine'[t] = b /\ ll_rw_block(H, "READ", b) /\ first' = first /\ quiet' = quiet
    BY <1>1, <1>9, Zenon DEF Got, Goto, TaskTypes
  <2>2. first[t] = 0
    BY <1>1, <1>9, Zenon DEF TaskOK
  <2>3. Left(t, H, v)
    BY <1>1, <1>3, <2>1, ReadStarts, Zenon
  <2>4. \A c \in Buffers : Uses(t, c)' = One(c = b)
    BY <1>6, <2>1, <2>2 DEF Uses, One, Holding
  <2>5. \A c \in Buffers : bh'[c].count + Uses(t, c) = bh[c].count + Uses(t, c)'
    BY <1>6, <2>2, <2>3, <2>4 DEF One, Left
  <2>6. TaskOK(t)'
    BY <1>2, <1>3, <2>1, <2>2, <2>3, Zenon DEF TaskOK, Ready, Target, Left
  <2>7. WaitsOnlyWhenFull'
    BY <1>1, <1>5, <1>7, <2>1, <2>3, StillFull, Zenon DEF Left
  <2> QED
    BY <1>2, <1>4, <2>1, <2>3, <2>5, <2>6, <2>7, Zenon DEF Step, Left
<1>10. CASE op[t] = "ahead" /\ first[t] = 0
  <2>1. pc'[t] = "repeat" /\ mine' = mine /\ ll_rw_block(H, "READ", b) /\ first'[t] = b /\ quiet' = quiet
    BY <1>1, <1>10, Zenon DEF Got, Goto, TaskTypes
  <2>3. Left(t, H, v)
    BY <1>1, <1>3, <2>1, ReadStarts, Zenon
  <2>4. \A c \in Buffers : Uses(t, c)' = One(c = b)
    BY <1>6, <2>1 DEF Uses, One, Holding
  <2>5. \A c \in Buffers : bh'[c].count + Uses(t, c) = bh[c].count + Uses(t, c)'
    BY <1>6, <1>10, <2>3, <2>4 DEF One, Left
  <2>6. TaskOK(t)'
    BY <1>2, <1>3, <1>10, <2>1, <2>3, Zenon DEF TaskOK, Ready, Target, Holding, Left
  <2>7. WaitsOnlyWhenFull'
    BY <1>1, <1>5, <1>7, <2>1, <2>3, StillFull, Zenon DEF Left
  <2> QED
    BY <1>2, <1>4, <2>1, <2>3, <2>5, <2>6, <2>7, ZenonT(40) DEF Step, Left
<1>11. CASE op[t] = "ahead" /\ first[t] # 0
  <2> DEFINE f == first[t]
             D == [H EXCEPT ![b].count = @ - 1]
  <2>1. /\ pc'[t] = "read" /\ mine'[t] = f /\ first'[t] = 0
        /\ ll_rw_block(D, "READ", f) \/ (bh' = D /\ io' = io)
        /\ quiet' \/ \A u \in Tasks : pc[u] # "full"
    BY <1>1, <1>11, Zenon DEF Got, Goto, TaskTypes
  <2>2. f \in Buffers /\ bh[f].count # 0 /\ bh[f].blocknr = want[t]
    BY <1>1, <1>11, HeldCounted, Known DEF TaskTypes, TaskOK, Buffers
  <2>3. H[b].count - 1 \in Nat /\ H[f].blocknr = want[t] /\ want[t] # 0
    <3>1. pc[t] = "hash" => bh[b].count # 0
      BY HeldCounted, Zenon DEF Ready, Holding
    <3>2. want[t] # 0
      BY <1>1, Known, Zenon DEF TaskTypes
    <3>3. bh[b].count \in Nat /\ H[b].count \in Nat
      BY <1>6, Zenon
    <3>4. H[b].count - 1 \in Nat
      BY <3>1, <3>3 DEF Ready, One
    <3>5. H[f].blocknr = want[t]
      BY <2>2, Zenon DEF Ready
    <3> QED
      BY <3>2, <3>4, <3>5, Zenon
  <2>4. /\ D \in [Buffers -> Heads]
        /\ \A c \in Buffers : /\ D[c].blocknr = H[c].blocknr /\ D[c].uptodate = H[c].uptodate
                              /\ D[c].dirt = H[c].dirt /\ D[c].lock = H[c].lock
                              /\ D[c].count = H[c].count - One(c = b)
    BY <1>1, <2>3 DEF Heads, One, Left
  <2> HIDE DEF D
  <2>5. Left(t, D, v)
    <3>1. Alike(D, H)
      BY <2>4, Zenon DEF Alike
    <3>2. D[f].blocknr # 0 /\ f \in Buffers
      BY <2>2, <2>3, <2>4, Zenon
    <3> QED
      BY <2>1, <2>4, <3>1, <3>2, ReadStarts, Zenon
  <2>6. \A c \in Buffers : Uses(t, c)' = One(c = f)
    BY <1>6, <2>1 DEF Uses, One, Holding
  <2>7. \A c \in Buffers : bh'[c].count + Uses(t, c) = bh[c].count + Uses(t, c)'
    BY <1>6, <2>4, <2>5, <2>6 DEF One, Left
  <2>8. TaskOK(t)'
    <3>1. bh'[f].blocknr = want[t] /\ f # 0
      BY <2>2, <2>3, <2>4, <2>5, Known DEF Left
    <3> QED
      BY <1>2, <2>1, <3>1, ZenonT(40) DEF TaskOK, Target
  <2>9. WaitsOnlyWhenFull'
    BY <1>5, <2>1, Zenon DEF WaitsOnlyWhenFull
  <2> QED
    BY <1>2, <1>4, <2>1, <2>5, <2>7, <2>8, <2>9, ZenonT(40) DEF Step, Left
<1> QED
  BY <1>1, <1>8, <1>9, <1>10, <1>11, Zenon DEF TaskTypes

\* A step that moves task t only, and none of the buffers.
LEMMA MoveStep ==
  ASSUME CacheInv, NEW t \in Tasks, NEW where, NEW b, Move(t, where, b),
         first[t] = 0 \/ pc[t] # "idle", pc[t] \notin Holding,
         \/ where = "repeat" /\ b = 0
         \/ where = "full" /\ b = 0 /\ Unused = {}
         \/ where \in {"victim", "sync"} /\ b \in Buffers
  PROVE  Step(t, 0)
<1>1. HeadTypes /\ TaskTypes /\ TaskOK(t) /\ WaitsOnlyWhenFull
  BY Zenon DEF CacheInv
<1>2. /\ UNCHANGED <<bh, data, io, disk, latest, blind, quiet, op, want, first>>
      /\ pc' = [pc EXCEPT ![t] = where] /\ mine' = [mine EXCEPT ![t] = b]
      /\ scan' = [scan EXCEPT ![t] = IF where = "sync" THEN 1 ELSE 0]
  BY Zenon DEF Move, Goto, cache, past
<1>3. b \in 0 .. NR_BUFFERS /\ 1 \in 0 .. 2 * NR_BUFFERS /\ 0 \in 0 .. 2 * NR_BUFFERS /\ (b \in Buffers => b # 0)
  BY Known DEF Buffers
<1>4. HeadTypes' /\ TaskTypes'
  <2>1. quiet' \in BOOLEAN /\ HeadTypes'
    BY <1>1, <1>2, Zenon DEF TaskTypes, HeadTypes
  <2> QED
    BY <1>1, <1>2, <1>3, <2>1, Zenon DEF TaskTypes
<1>5. \A u \in Tasks \ {t} : SameTask(u)
  BY <1>1, <1>2, Zenon DEF SameTask, TaskTypes
<1>6. \A c \in Buffers : Same(c) /\ bh'[c].count = bh[c].count
  BY <1>2, Zenon DEF Same
<1>7. pc'[t] = where /\ mine'[t] = b /\ first'[t] = first[t] /\ where \notin Holding
  BY <1>1, <1>2, Zenon DEF TaskTypes, Holding
<1>8. \A c \in Buffers : Uses(t, c)' = Uses(t, c)
  BY <1>7, ZenonT(40) DEF Uses
<1>9. TaskOK(t)'
  BY <1>1, <1>2, <1>3, <1>7 DEF TaskOK, Holding, TaskTypes
<1>10. WaitsOnlyWhenFull'
  <2>1. Unused' = Unused /\ \A u \in Tasks \ {t} : pc'[u] = "full" => pc[u] = "full"
    BY <1>2, <1>5, Zenon DEF Unused, SameTask
  <2> QED
    BY <1>1, <1>2, <1>7, <2>1, Zenon DEF WaitsOnlyWhenFull
<1> QED
  BY <1>2, <1>4, <1>5, <1>6, <1>7, <1>8, <1>9, <1>10, Zenon DEF Step

\* getblk after wait_on_buffer.
LEMMA ClaimStep ==
  ASSUME CacheInv, NEW t \in Tasks, NEW b \in Buffers, Claim(t, b), ~bh[b].lock,
         pc[t] \in {"repeat", "victim"}
  PROVE  Step(t, 0) \/ Step(t, b)
<1>1. HeadTypes /\ TaskTypes /\ pc[t] \notin Holding /\ pc[t] # "idle" /\ pc[t] # "hash"
  BY Zenon DEF CacheInv, Holding
<1>2. CASE bh[b].count > 0 \/ (~bh[b].dirt /\ find_buffer(Target(t)) # {})
  <2>1. bh[b].count > 0 \/ ~bh[b].dirt => Move(t, "repeat", 0)
    BY <1>2, Zenon DEF Claim
  <2> QED
    BY <1>1, <1>2, <2>1, MoveStep, Zenon
<1>3. CASE ~(bh[b].count > 0) /\ bh[b].dirt
  <2>1. Move(t, "sync", b)
    BY <1>3, Zenon DEF Claim
  <2> QED
    BY <1>1, <2>1, MoveStep, Zenon
<1>4. CASE ~(bh[b].count > 0) /\ ~bh[b].dirt /\ find_buffer(Target(t)) = {}
  <2> DEFINE H == [bh EXCEPT ![b] = [blocknr |-> Target(t), count |-> 1, dirt |-> FALSE,
                                     uptodate |-> FALSE, lock |-> FALSE]]
  <2>1. Got(t, b, H)
    BY <1>4, Zenon DEF Claim
  <2>2. Ready(t, b, H, b)
    <3>1. bh[b].count = 0
      BY <1>1, <1>4 DEF HeadTypes, Heads
    <3>2. Target(t) \in Blocks
      BY <1>1, TargetType, Zenon
    <3>3. /\ H \in [Buffers -> Heads] /\ \A c \in Buffers \ {b} : H[c] = bh[c]
          /\ H[b] = [blocknr |-> Target(t), count |-> 1, dirt |-> FALSE, uptodate |-> FALSE, lock |-> FALSE]
      BY <1>1, <3>2, Zenon DEF HeadTypes, Heads
    <3>4. H[b].blocknr = Target(t) /\ H[b].count = 1 /\ ~H[b].dirt /\ ~H[b].uptodate /\ ~H[b].lock
      BY <3>3, Zenon
    <3>5. H[b].count + One(pc[t] = "hash") = bh[b].count + 1
      BY <1>1, <3>1, <3>4 DEF One
    <3> HIDE DEF H
    <3> QED
      BY <1>1, <1>4, <3>1, <3>3, <3>4, <3>5, Zenon DEF Ready
  <2> QED
    BY <2>1, <2>2, GotStep, Zenon
<1> QED
  BY <1>2, <1>3, <1>4, Zenon

\* The first part of getblk, with get_hash_table.
LEMMA GetblkStep ==
  ASSUME CacheInv, NEW t \in Tasks, getblk(t)
  PROVE  \E v : Step(t, v)
<1>1. /\ HeadTypes /\ TaskTypes /\ TaskOK(t) /\ WaitsOnlyWhenFull
      /\ pc[t] = "repeat" /\ pc[t] \notin Holding /\ pc[t] # "idle"
  BY Zenon DEF CacheInv, getblk, Holding
<1>2. ASSUME NEW b \in find_buffer(Target(t)),
             LET H == [bh EXCEPT ![b].count = @ + 1] IN
             IF bh[b].lock
             THEN /\ bh' = H
                  /\ Goto(t, "hash") /\ mine' = [mine EXCEPT ![t] = b]
                  /\ UNCHANGED <<data, io, disk, latest, past, op, want, first, scan>>
             ELSE Got(t, b, H)
      PROVE  Step(t, 0)
  <2> DEFINE H == [bh EXCEPT ![b].count = @ + 1]
  <2>1. b \in Buffers /\ bh[b].blocknr = Target(t)
    BY <1>2, Zenon DEF find_buffer
  <2>2. /\ H \in [Buffers -> Heads] /\ \A c \in Buffers \ {b} : H[c] = bh[c]
        /\ H[b].count = bh[b].count + 1 /\ bh[b].count \in Nat
        /\ H[b].blocknr = bh[b].blocknr /\ H[b].uptodate = bh[b].uptodate
        /\ H[b].dirt = bh[b].dirt /\ H[b].lock = bh[b].lock
    BY <1>1, <2>1 DEF HeadTypes, Heads
  <2>3. CASE ~bh[b].lock
    <3>1. Got(t, b, H)
      BY <1>2, <2>3, Zenon
    <3> HIDE DEF H
    <3>2. Ready(t, b, H, 0)
      BY <1>1, <2>1, <2>2, <2>3 DEF Ready, One
    <3> QED
      BY <2>1, <3>1, <3>2, GotStep, Zenon
  <2>4. CASE bh[b].lock
    <3>1. /\ bh' = H /\ pc' = [pc EXCEPT ![t] = "hash"] /\ mine' = [mine EXCEPT ![t] = b]
          /\ UNCHANGED <<data, io, disk, latest, blind, quiet, op, want, first, scan>>
      BY <1>2, <2>4, Zenon DEF Goto, past
    <3> HIDE DEF H
    <3>2. HeadTypes' /\ TaskTypes'
      <4>1. quiet' \in BOOLEAN
        BY <1>1, <3>1, Zenon DEF TaskTypes
      <4>2. b \in 0 .. NR_BUFFERS
        BY <2>1, Known DEF Buffers
      <4> QED
        BY <1>1, <2>2, <3>1, <4>1, <4>2, Zenon DEF TaskTypes, HeadTypes, Holding
    <3>3. \A u \in Tasks \ {t} : SameTask(u)
      BY <1>1, <3>1, Zenon DEF SameTask, TaskTypes
    <3>4. \A c \in Buffers : Same(c)
      <4>1. \A c \in Buffers : /\ H[c].blocknr = bh[c].blocknr /\ H[c].uptodate = bh[c].uptodate
                               /\ H[c].dirt = bh[c].dirt /\ H[c].lock = bh[c].lock
        BY <2>2, Zenon
      <4> QED
        BY <3>1, <4>1, Zenon DEF Same
    <3>5. pc'[t] = "hash" /\ mine'[t] = b /\ b # 0
      BY <1>1, <2>1, <3>1, Known, Zenon DEF TaskTypes
    <3>6. \A c \in Buffers : bh'[c].count + Uses(t, c) = bh[c].count + Uses(t, c)'
      BY <1>1, <2>2, <3>1, <3>5 DEF Uses, One, HeadTypes, Heads, Holding
    <3>7. TaskOK(t)'
      <4>1. first[t] # 0 => first[t] \in Buffers
        BY <1>1, Known DEF TaskTypes, Buffers
      <4>2. \A c \in Buffers : bh'[c].blocknr = bh[c].blocknr
        BY <3>4, Zenon DEF Same
      <4> QED
        BY <1>1, <2>1, <3>1, <3>5, <4>1, <4>2, ZenonT(40) DEF TaskOK, Target, Holding
    <3>8. WaitsOnlyWhenFull'
      <4>1. \A c \in Buffers : bh'[c].count = 0 => bh[c].count = 0
        BY <2>2, <3>1
      <4>2. \A u \in Tasks : pc'[u] = "full" => pc[u] = "full"
        BY <3>3, <3>5, Zenon DEF SameTask
      <4> QED
        BY <1>1, <3>1, <4>1, <4>2, StillFull, Zenon
    <3> QED
      BY <3>1, <3>2, <3>3, <3>4, <3>5, <3>6, <3>7, <3>8, Zenon DEF Step
  <2> QED
    BY <2>3, <2>4, Zenon
<1>3. CASE Unused = {} /\ Move(t, "full", 0)
  BY <1>1, <1>3, MoveStep, Zenon
<1>4. ASSUME NEW b \in Best, IF bh[b].lock THEN Move(t, "victim", b) ELSE Claim(t, b)
      PROVE  \E v : Step(t, v)
  <2>1. b \in Buffers
    BY Zenon DEF Best, Unused
  <2>2. CASE bh[b].lock
    BY <1>1, <1>4, <2>1, <2>2, MoveStep, Zenon
  <2>3. CASE ~bh[b].lock
    BY <1>1, <1>4, <2>1, <2>3, ClaimStep, Zenon
  <2> QED
    BY <2>2, <2>3, Zenon
<1> QED
  BY <1>2, <1>3, <1>4, Zenon DEF getblk

\* get_hash_table after wait_on_buffer: the buffer that was counted still has its
\* block, so the comparison of get_hash_table never fails.
LEMMA HashStep ==
  ASSUME CacheInv, NEW t \in Tasks, get_hash_table_return(t)
  PROVE  Step(t, 0)
<1>1. HeadTypes /\ TaskTypes /\ TaskOK(t) /\ pc[t] = "hash" /\ ~bh[mine[t]].lock
  BY Zenon DEF CacheInv, get_hash_table_return
<1> DEFINE b == mine[t]
<1>2. b \in Buffers /\ bh[b].blocknr = Target(t)
  BY <1>1, Known DEF TaskOK, TaskTypes, Holding, Buffers
<1>3. Got(t, b, bh)
  BY <1>1, <1>2, Zenon DEF get_hash_table_return
<1>4. Ready(t, b, bh, 0)
  BY <1>1, <1>2, Zenon DEF Ready, One, HeadTypes, Heads
<1> QED
  BY <1>2, <1>3, <1>4, GotStep, Zenon

\* getblk goes on when the buffer it chose is unlocked.
LEMMA VictimStep ==
  ASSUME CacheInv, NEW t \in Tasks, getblk_wait_on_buffer(t)
  PROVE  \E v : Step(t, v)
<1>1. mine[t] \in Buffers
  BY Known DEF CacheInv, TaskOK, TaskTypes, getblk_wait_on_buffer, Buffers
<1> QED
  BY <1>1, ClaimStep, Zenon DEF getblk_wait_on_buffer

\* sync_dev and sys_sync start a write and go on to the next buffer.
LEMMA SyncStep ==
  ASSUME CacheInv, NEW t \in Tasks, sync_dev(t)
  PROVE  Step(t, 0)
<1> DEFINE b == ((scan[t] - 1) % NR_BUFFERS) + 1
<1>1. HeadTypes /\ TaskTypes /\ TaskOK(t) /\ WaitsOnlyWhenFull /\ pc[t] = "sync" /\ ~bh[b].lock
  BY Zenon DEF CacheInv, sync_dev
<1>2. b \in Buffers
  <2>1. scan[t] - 1 \in Nat
    BY <1>1, Known DEF TaskTypes, TaskOK
  <2> QED
    BY <2>1, Known DEF Buffers
<1>3. /\ ll_rw_block(bh, "WRITE", b)
      /\ UNCHANGED <<data, disk, latest, blind, quiet, op, want, mine, first>>
  BY Zenon DEF sync_dev, past
<1>4. /\ scan' = [scan EXCEPT ![t] = scan'[t]] /\ pc' = [pc EXCEPT ![t] = pc'[t]]
      /\ scan'[t] \in 0 .. 2 * NR_BUFFERS
      /\ \/ scan'[t] # 0 /\ pc'[t] = "sync"
         \/ mine[t] = 0 /\ pc'[t] = "idle"
         \/ mine[t] # 0 /\ pc'[t] = "victim"
  BY <1>1, Known DEF sync_dev, Goto, TaskTypes
<1> HIDE DEF b
<1>5. /\ HeadTypes'
      /\ \A c \in Buffers : /\ bh'[c].blocknr = bh[c].blocknr
                            /\ bh'[c].uptodate = bh[c].uptodate
                            /\ bh'[c].count = bh[c].count
      /\ \A c \in Buffers : \/ bh'[c] = bh[c] /\ io'[c] = io[c]
                            \/ /\ c = b /\ Needed(bh, "WRITE", b) /\ ~bh[b].lock
                               /\ bh'[b].lock /\ ~bh'[b].dirt /\ io'[b] = "WRITE"
  BY <1>1, <1>2, <1>3, LlRwBlock DEF HeadTypes
<1>6. \A c \in Buffers : Same(c) \/ Starts(c)
  <2> SUFFICES ASSUME NEW c \in Buffers PROVE Same(c) \/ Starts(c)
    BY Zenon
  <2>1. CASE bh'[c] = bh[c] /\ io'[c] = io[c]
    BY <2>1, Zenon DEF Same
  <2>2. CASE /\ c = b /\ Needed(bh, "WRITE", b) /\ ~bh[b].lock
             /\ bh'[b].lock /\ ~bh'[b].dirt /\ io'[b] = "WRITE"
    <3>1. bh[c].dirt
      BY <2>2, Zenon DEF Needed
    <3>2. bh[c].blocknr # 0
      BY <3>1, Zenon DEF CacheInv, HeadOK
    <3> QED
      BY <1>5, <2>2, <3>1, <3>2, Zenon DEF Starts
  <2> QED
    BY <1>5, <2>1, <2>2, Zenon
<1>7. TaskTypes'
  <2>1. quiet' \in BOOLEAN
    BY <1>1, <1>3, Zenon DEF TaskTypes
  <2> QED
    BY <1>1, <1>3, <1>4, <2>1 DEF TaskTypes
<1>8. \A u \in Tasks \ {t} : SameTask(u)
  BY <1>1, <1>3, <1>4, Zenon DEF SameTask, TaskTypes
<1>9. pc[t] \notin Holding /\ pc'[t] \notin Holding /\ pc'[t] \notin {"full", "use"}
  BY <1>1, <1>4, Zenon DEF Holding
<1>10. \A c \in Buffers : bh'[c].count + Uses(t, c) = bh[c].count + Uses(t, c)'
  BY <1>3, <1>5, <1>9 DEF Uses
<1>11. TaskOK(t)'
  <2>1. first[t] # 0 => first[t] \in Buffers
    BY <1>1, Known DEF TaskTypes, Buffers
  <2> QED
    BY <1>1, <1>3, <1>4, <1>5, <2>1 DEF TaskOK, Holding
<1>12. WaitsOnlyWhenFull'
  <2>1. \A u \in Tasks : pc'[u] = "full" => pc[u] = "full"
    BY <1>8, <1>9, Zenon DEF SameTask
  <2> QED
    BY <1>1, <1>3, <1>5, <2>1, StillFull, Zenon
<1> QED
  BY <1>3, <1>5, <1>6, <1>7, <1>8, <1>9, <1>10, <1>11, <1>12, Zenon DEF Step

\* Steps that touch no buffer: sys_sync begins, a task calls bread, and bread returns.
LEMMA CallerStep ==
  ASSUME CacheInv, NEW t \in Tasks,
         \/ sys_sync(t) \/ bread_return(t)
         \/ \E o \in Calls[t] : call(t, o[1], o[2])
  PROVE  Step(t, 0)
<1>1. /\ HeadTypes /\ TaskTypes /\ TaskOK(t) /\ WaitsOnlyWhenFull
  BY Zenon DEF CacheInv
<1>2. UNCHANGED <<bh, data, io, disk, latest, blind, quiet, first>>
  BY Zenon DEF sys_sync, bread_return, call, Move, cache, past
<1>3. \/ /\ pc[t] = "idle" /\ pc' = [pc EXCEPT ![t] = "sync"] /\ UNCHANGED <<op, want, mine>>
         /\ scan' = [scan EXCEPT ![t] = NR_BUFFERS + 1]
      \/ /\ pc[t] = "idle" /\ pc' = [pc EXCEPT ![t] = "repeat"] /\ UNCHANGED <<mine, scan>>
         /\ \E o \in {"read", "update", "overwrite", "ahead"} : op' = [op EXCEPT ![t] = o]
         /\ \E k \in Blocks : want' = [want EXCEPT ![t] = k]
      \/ /\ pc[t] = "read" /\ UNCHANGED <<op, want>> /\ mine' = [mine EXCEPT ![t] = mine[t]]
         /\ scan' = [scan EXCEPT ![t] = 0]
         /\ \/ pc' = [pc EXCEPT ![t] = "use"] /\ bh[mine[t]].uptodate
            \/ pc' = [pc EXCEPT ![t] = "release"]
  <2>1. CASE sys_sync(t)
    BY <2>1, Zenon DEF sys_sync, Goto
  <2>2. CASE bread_return(t)
    BY <2>2, Zenon DEF bread_return, Move, Goto
  <2>3. ASSUME NEW o \in Calls[t], call(t, o[1], o[2])
        PROVE  /\ pc[t] = "idle" /\ pc' = [pc EXCEPT ![t] = "repeat"] /\ UNCHANGED <<mine, scan>>
               /\ \E p \in {"read", "update", "overwrite", "ahead"} : op' = [op EXCEPT ![t] = p]
               /\ \E k \in Blocks : want' = [want EXCEPT ![t] = k]
    <3>1. o[1] \in {"read", "update", "overwrite", "ahead"} /\ o[2] \in Blocks
      BY BufferCacheAssumption
    <3> QED
      BY <2>3, <3>1, ZenonT(40) DEF call, Goto
  <2> QED
    BY <2>1, <2>2, <2>3, Zenon
<1>4. HeadTypes' /\ TaskTypes'
  <2>1. quiet' \in BOOLEAN /\ HeadTypes'
    BY <1>1, <1>2, Zenon DEF TaskTypes, HeadTypes
  <2>2. NR_BUFFERS + 1 \in 0 .. 2 * NR_BUFFERS /\ 0 \in 0 .. 2 * NR_BUFFERS
    BY Known
  <2> QED
    BY <1>1, <1>2, <1>3, <2>1, <2>2 DEF TaskTypes, Holding
<1>5. \A u \in Tasks \ {t} : SameTask(u)
  BY <1>1, <1>2, <1>3 DEF SameTask, TaskTypes
<1>6. \A c \in Buffers : Same(c) /\ bh'[c].count = bh[c].count
  BY <1>2, Zenon DEF Same
<1>7. \A c \in Buffers : Uses(t, c)' = Uses(t, c)
  BY <1>1, <1>2, <1>3, ZenonT(40) DEF Uses, TaskTypes, Holding
<1>8. TaskOK(t)'
  BY <1>1, <1>2, <1>3, Known DEF TaskOK, TaskTypes, Holding
<1>9. WaitsOnlyWhenFull'
  <2>1. \A u \in Tasks : pc'[u] = "full" => pc[u] = "full"
    BY <1>1, <1>3, <1>5, Zenon DEF SameTask, TaskTypes
  <2> QED
    BY <1>1, <1>2, <1>6, <2>1, StillFull, Zenon
<1>10. pc'[t] = "use" /\ op'[t] # "overwrite" => bh'[mine'[t]].uptodate
  BY <1>1, <1>2, <1>3, Zenon DEF TaskTypes
<1> QED
  BY <1>2, <1>4, <1>5, <1>6, <1>7, <1>8, <1>9, <1>10, Zenon DEF Step

\* brelse counts the buffer down and wakes those that wait for one.
LEMMA BrelseStep ==
  ASSUME CacheInv, NEW t \in Tasks, brelse(t)
  PROVE  Step(t, 0)
<1> DEFINE b == mine[t]
<1>1. /\ HeadTypes /\ TaskTypes /\ TaskOK(t)
  BY Zenon DEF CacheInv
<1>2. pc[t] \in {"use", "release"}
  BY Zenon DEF brelse, Finished
<1>3. /\ bh' = [bh EXCEPT ![b].count = @ - 1] /\ quiet' = FALSE
      /\ pc' = [u \in Tasks |-> IF u = t THEN "idle" ELSE IF pc[u] = "full" THEN "repeat" ELSE pc[u]]
      /\ mine' = [mine EXCEPT ![t] = 0] /\ op' = [op EXCEPT ![t] = "read"]
      /\ want' = [want EXCEPT ![t] = 1]
      /\ UNCHANGED <<data, io, disk, latest, blind, first, scan>>
  BY Zenon DEF brelse, Done
<1>4. b \in Buffers /\ b # 0 /\ first[t] = 0
  BY <1>1, <1>2, Known DEF TaskOK, TaskTypes, Holding, Buffers
<1>5. bh[b].count - 1 \in Nat
  <2>1. bh[b].count # 0
    BY <1>2, <1>4, HeldCounted, Zenon DEF Holding
  <2> QED
    BY <1>1, <1>4, <2>1 DEF HeadTypes, Heads
<1>6. /\ HeadTypes'
      /\ \A c \in Buffers : Same(c) /\ bh'[c].count = bh[c].count - One(c = b)
  <2>1. HeadTypes' /\ io' = io
    BY <1>1, <1>3, <1>4, <1>5 DEF HeadTypes, Heads
  <2>2. \A c \in Buffers : /\ bh'[c].blocknr = bh[c].blocknr /\ bh'[c].uptodate = bh[c].uptodate
                           /\ bh'[c].dirt = bh[c].dirt /\ bh'[c].lock = bh[c].lock
                           /\ bh'[c].count = bh[c].count - One(c = b)
    BY <1>1, <1>3, <1>4 DEF HeadTypes, Heads, One
  <2> QED
    BY <2>1, <2>2, Zenon DEF Same
<1>7. TaskTypes' /\ \A u \in Tasks \ {t} : SameTask(u)
  <2>1. 1 \in Blocks /\ 0 \in 0 .. NR_BUFFERS
    BY Known
  <2>2. quiet' \in BOOLEAN
    BY <1>3, Zenon
  <2> QED
    BY <1>1, <1>3, <2>1, <2>2, Zenon DEF TaskTypes, SameTask, Holding
<1>8. pc'[t] = "idle" /\ first'[t] = 0 /\ mine'[t] = 0 /\ pc[t] \in Holding
  BY <1>1, <1>2, <1>3, <1>4, Zenon DEF TaskTypes, Holding
<1>9. \A c \in Buffers : bh'[c].count + Uses(t, c) = bh[c].count + Uses(t, c)'
  <2>1. \A c \in Buffers : bh[c].count \in Nat /\ c # 0
    BY <1>1, Known, Zenon DEF HeadTypes, Heads
  <2> QED
    BY <1>4, <1>6, <1>8, <2>1 DEF Uses, One, Holding
<1>10. TaskOK(t)' /\ WaitsOnlyWhenFull'
  BY <1>1, <1>3, <1>8, Zenon DEF TaskOK, WaitsOnlyWhenFull, Holding, TaskTypes
<1> QED
  BY <1>3, <1>6, <1>7, <1>8, <1>9, <1>10, Zenon DEF Step

\* Steps that leave the blocks and counts of all buffers as they are, and the tasks,
\* but for one that has changed the data it uses.
LEMMA RestKept ==
  ASSUME CacheInv, HeadTypes', DataTypes', TaskTypes',
         \A b \in Buffers : bh'[b].blocknr = bh[b].blocknr /\ bh'[b].count = bh[b].count,
         \A b \in Buffers : HeadOK(b)',
         UNCHANGED <<op, want, mine, first, scan, quiet>>,
         \A u \in Tasks : pc'[u] = pc[u] \/ (pc[u] = "use" /\ pc'[u] = "release")
  PROVE  CacheInv'
<1>1. \A t \in Tasks : TaskOK(t)'
  <2> SUFFICES ASSUME NEW t \in Tasks PROVE TaskOK(t)'
    BY Zenon
  <2>1. TaskOK(t) /\ mine[t] \in 0 .. NR_BUFFERS /\ first[t] \in 0 .. NR_BUFFERS
    BY Zenon DEF CacheInv, TaskTypes
  <2>2. /\ mine[t] # 0 => bh'[mine[t]].blocknr = bh[mine[t]].blocknr
        /\ first[t] # 0 => bh'[first[t]].blocknr = bh[first[t]].blocknr
    BY <2>1, Known DEF Buffers
  <2> QED
    BY <2>1, <2>2, Zenon DEF TaskOK, Target, Holding
<1>2. Unique'
  BY DEF CacheInv, Unique
<1>3. Counted'
  <2>1. \A b \in Buffers : Held(b)' = Held(b) /\ Firsts(b)' = Firsts(b)
    BY Zenon DEF Held, Firsts, Holding
  <2> QED
    BY <2>1, Zenon DEF CacheInv, Counted
<1>4. WaitsOnlyWhenFull'
  <2>1. \A u \in Tasks : pc'[u] = "full" => pc[u] = "full"
    BY Zenon
  <2> QED
    BY <2>1, StillFull, Zenon DEF CacheInv
<1> QED
  BY <1>1, <1>2, <1>3, <1>4, Zenon DEF CacheInv

\* The caller changes the data of the buffer it holds and marks it dirty.
LEMMA ChangeKeeps ==
  ASSUME CacheInv, NEW t \in Tasks, change(t)
  PROVE  CacheInv' /\ (DataInv => DataInv')
<1> DEFINE m == mine[t]
           k == want[t]
<1>1. /\ HeadTypes /\ DataTypes /\ TaskTypes /\ TaskOK(t) /\ Unique
      /\ pc[t] = "use" /\ latest[k] < MaxWrites
  BY Zenon DEF CacheInv, change
<1>2. /\ latest' = [latest EXCEPT ![k] = latest[k] + 1]
      /\ data' = [data EXCEPT ![m] = latest[k] + 1]
      /\ bh' = [bh EXCEPT ![m].dirt = TRUE]
      /\ blind' = IF bh[m].uptodate THEN blind ELSE blind \cup {k}
      /\ pc' = [pc EXCEPT ![t] = "release"]
      /\ UNCHANGED <<io, disk, quiet, op, want, mine, first, scan>>
  BY Zenon DEF change, Goto
<1>3. m \in Buffers /\ k \in Blocks /\ bh[m].blocknr = k /\ k # 0
  BY <1>1, Known DEF TaskOK, TaskTypes, Holding, Buffers
<1> HIDE DEF m, k
<1>4. /\ HeadTypes'
      /\ \A b \in Buffers : /\ bh'[b].blocknr = bh[b].blocknr /\ bh'[b].count = bh[b].count
                            /\ bh'[b].uptodate = bh[b].uptodate /\ bh'[b].lock = bh[b].lock
                            /\ b # m => bh'[b].dirt = bh[b].dirt
      /\ bh'[m].dirt
  <2>1. bh[m] \in Heads /\ bh' = [bh EXCEPT ![m] = [bh[m] EXCEPT !.dirt = TRUE]]
    BY <1>1, <1>2, <1>3, Zenon DEF HeadTypes
  <2>2. HeadTypes'
    BY <1>1, <1>2, <2>1, FlagsSet, Zenon DEF HeadTypes
  <2>3. \A b \in Buffers : b # m => bh'[b] = bh[b]
    BY <1>1, <2>1, Zenon DEF HeadTypes
  <2>4. /\ bh'[m].blocknr = bh[m].blocknr /\ bh'[m].count = bh[m].count
        /\ bh'[m].uptodate = bh[m].uptodate /\ bh'[m].lock = bh[m].lock /\ bh'[m].dirt
    BY <1>1, <1>3, <2>1, Zenon DEF HeadTypes, Heads
  <2> QED
    BY <2>2, <2>3, <2>4, Zenon
<1>5. DataTypes'
  <2>1. latest[k] + 1 \in Data
    BY <1>1, <1>3, BufferCacheAssumption DEF DataTypes, Data
  <2>2. blind' \subseteq Blocks
    BY <1>1, <1>2, <1>3, Zenon DEF DataTypes
  <2> QED
    BY <1>1, <1>2, <1>3, <2>1, <2>2, Zenon DEF DataTypes
<1>6. CacheInv'
  <2>1. quiet' \in BOOLEAN
    BY <1>1, <1>2, Zenon DEF TaskTypes
  <2>2. TaskTypes'
    BY <1>1, <1>2, <2>1, Zenon DEF TaskTypes, Holding
  <2>3. \A b \in Buffers : HeadOK(b)'
    BY <1>2, <1>3, <1>4 DEF CacheInv, HeadOK
  <2>4. \A u \in Tasks : pc'[u] = pc[u] \/ (pc[u] = "use" /\ pc'[u] = "release")
    BY <1>1, <1>2, Zenon DEF TaskTypes
  <2> QED
    BY <1>2, <1>4, <1>5, <2>2, <2>3, <2>4, RestKept, Zenon
<1>7. ASSUME DataInv
      PROVE  DataInv'
  <2>1. \A b \in Buffers : io'[b] = "READ" => ~bh'[b].uptodate
    BY <1>2, <1>4, <1>7, Zenon DEF DataInv
  <2>2. ASSUME NEW u \in Tasks, pc'[u] = "use", op'[u] # "overwrite"
        PROVE  bh'[mine'[u]].uptodate
    <3>1. pc[u] = "use" /\ op[u] # "overwrite" /\ mine'[u] = mine[u] /\ mine[u] \in Buffers
      BY <1>1, <1>2, <2>2, Known DEF TaskTypes, TaskOK, CacheInv, Holding, Buffers
    <3>2. bh[mine[u]].uptodate
      BY <1>7, <3>1, Zenon DEF DataInv
    <3> QED
      BY <1>4, <3>1, <3>2, Zenon
  <2>3. ASSUME NEW j \in Blocks \ blind'
        PROVE  BlockOK(j)'
    <3>1. find_buffer(j)' = find_buffer(j) /\ j \notin blind
      BY <1>2, <1>4, <2>3 DEF find_buffer
    <3>2. BlockOK(j)
      BY <1>7, <3>1, Zenon DEF DataInv
    <3>3. CASE j # k
      <4>1. m \notin find_buffer(j) /\ latest'[j] = latest[j] /\ disk' = disk /\ io' = io
        BY <1>1, <1>2, <1>3, <3>3, Zenon DEF find_buffer, DataTypes
      <4>2. \A b \in find_buffer(j) : /\ bh'[b].uptodate = bh[b].uptodate
                                      /\ bh'[b].dirt = bh[b].dirt /\ data'[b] = data[b]
        BY <1>1, <1>2, <1>4, <4>1, Zenon DEF find_buffer, DataTypes
      <4> QED
        BY <3>1, <3>2, <4>1, <4>2, ZenonT(40) DEF BlockOK
    <3>4. CASE j = k
      <4>1. bh[m].uptodate
        BY <1>2, <2>3, <3>4
      <4>2. \A b \in find_buffer(j) : b = m
        BY <1>1, <1>3, <3>4, Zenon DEF find_buffer, Unique
      <4>3. bh'[m].uptodate /\ bh'[m].dirt /\ data'[m] = latest'[j] /\ m \in find_buffer(j)
        BY <1>1, <1>2, <1>3, <1>4, <3>4, <4>1 DEF DataTypes, find_buffer
      <4> QED
        BY <3>1, <4>2, <4>3, Zenon DEF BlockOK
    <3> QED
      BY <3>3, <3>4, Zenon
  <2> QED
    BY <2>1, <2>2, <2>3, Zenon DEF DataInv
<1> QED
  BY <1>6, <1>7, Zenon

\* The device moves the data of a buffer from or to the disk.
LEMMA TransferKeeps ==
  ASSUME CacheInv, NEW b \in Buffers, transfer(b)
  PROVE  CacheInv' /\ (DataInv => DataInv')
<1> DEFINE k == bh[b].blocknr
<1>1. /\ HeadTypes /\ DataTypes /\ TaskTypes /\ HeadOK(b) /\ Unique /\ io[b] \in {"READ", "WRITE"}
  BY Zenon DEF CacheInv, transfer
<1>2. k \in Blocks
  BY <1>1, Zenon DEF HeadTypes, Heads, HeadOK
<1>3. /\ io' = [io EXCEPT ![b] = "moved"]
      /\ UNCHANGED <<bh, latest, blind, quiet, pc, op, want, mine, first, scan>>
  BY Zenon DEF transfer, past, caller
<1>4. \/ io[b] = "READ" /\ data' = [data EXCEPT ![b] = disk[k]] /\ disk' = disk
      \/ io[b] = "WRITE" /\ disk' = [disk EXCEPT ![k] = data[b]] /\ data' = data
  BY <1>1, Zenon DEF transfer
<1> HIDE DEF k
<1>5. CacheInv'
  <2>1. HeadTypes'
    BY <1>1, <1>3, Zenon DEF HeadTypes
  <2>2. DataTypes'
    BY <1>1, <1>2, <1>3, <1>4 DEF DataTypes
  <2>3. TaskTypes'
    BY <1>1, <1>3, Zenon DEF TaskTypes
  <2>4. \A c \in Buffers : HeadOK(c)'
    BY <1>1, <1>3, Zenon DEF CacheInv, HeadOK, HeadTypes
  <2> QED
    BY <1>3, <2>1, <2>2, <2>3, <2>4, RestKept, Zenon
<1>6. ASSUME DataInv
      PROVE  DataInv'
  <2>1. \A c \in Buffers : io'[c] = "READ" => ~bh'[c].uptodate
    BY <1>1, <1>3, <1>6, Zenon DEF DataInv, HeadTypes
  <2>2. \A u \in Tasks : pc'[u] = "use" /\ op'[u] # "overwrite" => bh'[mine'[u]].uptodate
    BY <1>3, <1>6, Zenon DEF DataInv
  <2>3. ASSUME NEW j \in Blocks \ blind'
        PROVE  BlockOK(j)'
    <3>1. find_buffer(j)' = find_buffer(j) /\ BlockOK(j)
      BY <1>3, <1>6, <2>3 DEF find_buffer, DataInv
    <3>2. CASE j # k
      <4>1. b \notin find_buffer(j) /\ disk'[j] = disk[j]
        BY <1>1, <1>2, <1>4, <3>2 DEF find_buffer, DataTypes, k
      <4>2. \A c \in find_buffer(j) : data'[c] = data[c] /\ io'[c] = io[c]
        BY <1>1, <1>3, <1>4, <4>1 DEF find_buffer, DataTypes, HeadTypes
      <4> QED
        BY <1>3, <3>1, <4>1, <4>2, Zenon DEF BlockOK
    <3>3. CASE j = k
      <4>1. b \in find_buffer(j) /\ \A c \in find_buffer(j) : c = b
        BY <1>1, <1>2, <3>3, Known, Zenon DEF find_buffer, Unique, k
      <4>2. /\ io'[b] = "moved"
            /\ io[b] = "READ" => ~bh[b].uptodate
        BY <1>1, <1>3, <1>6, Zenon DEF DataInv, HeadTypes
      <4>3. /\ bh[b].uptodate => data[b] = latest[j]
            /\ bh[b].dirt \/ io[b] = "WRITE" => bh[b].uptodate
            /\ ~bh[b].dirt /\ io[b] # "WRITE" => disk[j] = latest[j]
        BY <3>1, <4>1, ZenonT(40) DEF BlockOK
      <4>4. data'[b] = latest[j] /\ disk'[j] = latest[j]
        BY <1>1, <1>2, <1>4, <3>3, <4>2, <4>3 DEF DataTypes
      <4>5. bh[b].dirt => bh[b].uptodate
        BY <4>3, Zenon
      <4> QED
        BY <1>3, <3>1, <4>1, <4>2, <4>4, <4>5 DEF BlockOK
    <3> QED
      BY <3>2, <3>3, Zenon
  <2> QED
    BY <2>1, <2>2, <2>3, Zenon DEF DataInv
<1> QED
  BY <1>5, <1>6, Zenon

\* end_request: a buffer is up to date when its data was moved.  An error of a
\* read leaves it as it was; that of a write would lose what is in it.
LEMMA EndRequestKeeps ==
  ASSUME CacheInv, NEW b \in Buffers, end_request(b)
  PROVE  CacheInv' /\ (DataInv /\ "WRITE" \notin Errors => DataInv')
<1>1. /\ HeadTypes /\ DataTypes /\ TaskTypes /\ HeadOK(b) /\ Unique
      /\ io[b] = "moved" \/ io[b] \in Errors
  BY Zenon DEF CacheInv, end_request
<1>2. /\ io' = [io EXCEPT ![b] = "none"]
      /\ bh' = [bh EXCEPT ![b].uptodate = (io[b] = "moved"), ![b].lock = FALSE]
      /\ UNCHANGED <<data, disk, latest, blind, quiet, pc, op, want, mine, first, scan>>
  BY Zenon DEF end_request, past, caller
<1>3. io[b] \in {"moved", "READ", "WRITE"}
  BY <1>1, BufferCacheAssumption, Zenon
<1>4. /\ HeadTypes'
      /\ \A c \in Buffers : /\ bh'[c].blocknr = bh[c].blocknr /\ bh'[c].count = bh[c].count
                            /\ bh'[c].dirt = bh[c].dirt
                            /\ c # b => /\ bh'[c].uptodate = bh[c].uptodate
                                        /\ bh'[c].lock = bh[c].lock /\ io'[c] = io[c]
      /\ bh'[b].uptodate <=> io[b] = "moved"
      /\ ~bh'[b].lock /\ io'[b] = "none"
  <2> DEFINE h == [bh[b] EXCEPT !.uptodate = (io[b] = "moved"), !.lock = FALSE]
  <2>1. bh[b] \in Heads /\ bh' = [bh EXCEPT ![b] = h]
    BY <1>1, <1>2, Zenon DEF HeadTypes
  <2>2. h \in Heads
    BY <2>1, FlagsSet, Zenon
  <2>3. /\ h.blocknr = bh[b].blocknr /\ h.count = bh[b].count /\ h.dirt = bh[b].dirt
        /\ h.uptodate = (io[b] = "moved") /\ h.lock = FALSE
    BY <2>1, Zenon DEF Heads
  <2> HIDE DEF h
  <2>4. HeadTypes' /\ bh'[b] = h /\ io'[b] = "none"
    BY <1>1, <1>2, <2>1, <2>2, ZenonT(40) DEF HeadTypes
  <2>5. \A c \in Buffers : c # b => bh'[c] = bh[c] /\ io'[c] = io[c]
    BY <1>1, <1>2, <2>1, Zenon DEF HeadTypes
  <2> QED
    BY <2>3, <2>4, <2>5, Zenon
<1>5. CacheInv'
  <2>1. DataTypes'
    BY <1>1, <1>2, Zenon DEF DataTypes
  <2>2. TaskTypes'
    BY <1>1, <1>2, ZenonT(40) DEF TaskTypes
  <2>3. \A c \in Buffers : HeadOK(c)'
    BY <1>4 DEF CacheInv, HeadOK
  <2> QED
    BY <1>2, <1>4, <2>1, <2>2, <2>3, RestKept, Zenon
<1>6. ASSUME DataInv, "WRITE" \notin Errors
      PROVE  DataInv'
  <2>1. \A c \in Buffers : io'[c] = "READ" => ~bh'[c].uptodate
    BY <1>4, <1>6 DEF DataInv
  <2>2. io[b] = "READ" \/ io[b] = "moved"
    BY <1>1, <1>3, <1>6, Zenon
  <2>3. bh[b].uptodate => bh'[b].uptodate
    BY <1>4, <1>6, <2>2, Zenon DEF DataInv
  <2>4. ASSUME NEW u \in Tasks, pc'[u] = "use", op'[u] # "overwrite"
        PROVE  bh'[mine'[u]].uptodate
    <3>1. bh[mine[u]].uptodate /\ mine'[u] = mine[u]
      BY <1>2, <1>6, <2>4, Zenon DEF DataInv
    <3>2. mine[u] \in Buffers
      BY <1>1, <1>2, <2>4, Known DEF TaskTypes, TaskOK, CacheInv, Holding, Buffers
    <3> QED
      BY <1>4, <2>3, <3>1, <3>2
  <2>5. ASSUME NEW j \in Blocks \ blind'
        PROVE  BlockOK(j)'
    <3>1. find_buffer(j)' = find_buffer(j) /\ BlockOK(j) /\ find_buffer(j) \subseteq Buffers
      <4>1. find_buffer(j)' = find_buffer(j) /\ find_buffer(j) \subseteq Buffers
        BY <1>4, Zenon DEF find_buffer
      <4> QED
        BY <1>2, <1>6, <2>5, <4>1, Zenon DEF DataInv
    <3>2. ASSUME NEW c \in find_buffer(j)
          PROVE  /\ bh'[c].uptodate \/ io'[c] = "moved" => data[c] = latest[j]
                 /\ bh'[c].dirt \/ io'[c] = "WRITE" => bh'[c].uptodate
                 /\ ~bh'[c].dirt /\ io'[c] # "WRITE" => disk[j] = latest[j]
      <4>1. /\ bh[c].uptodate \/ io[c] = "moved" => data[c] = latest[j]
            /\ bh[c].dirt \/ io[c] = "WRITE" => bh[c].uptodate
            /\ ~bh[c].dirt /\ io[c] # "WRITE" => disk[j] = latest[j]
        BY <3>1, Zenon DEF BlockOK
      <4>2. CASE c = b
        BY <1>4, <2>2, <2>3, <4>1, <4>2, Zenon
      <4>3. CASE c # b
        BY <1>4, <3>1, <4>1, <4>3, Zenon
      <4> QED
        BY <4>2, <4>3, Zenon
    <3> QED
      BY <1>2, <3>1, <3>2, Zenon DEF BlockOK
  <2> QED
    BY <2>1, <2>4, <2>5 DEF DataInv
<1> QED
  BY <1>5, <1>6, Zenon

\* buffer_init: no buffer has a block, and nobody holds one.
LEMMA StartsSound == Init => CacheInv /\ DataInv
<1> SUFFICES ASSUME Init PROVE CacheInv /\ DataInv
  BY Zenon
<1>1. HeadTypes /\ DataTypes /\ MaxWrites \in Nat
  BY BufferCacheAssumption DEF Init, HeadTypes, Heads, DataTypes, Data
<1>2. TaskTypes
  <2>1. 1 \in Blocks /\ 0 \in 0 .. NR_BUFFERS /\ 0 \in 0 .. 2 * NR_BUFFERS
    BY Known
  <2>2. quiet \in BOOLEAN
    BY Zenon DEF Init
  <2> QED
    BY <2>1, <2>2, Zenon DEF Init, TaskTypes
<1>3. (\A t \in Tasks : TaskOK(t)) /\ Unique /\ \A b \in Buffers : HeadOK(b)
  BY Zenon DEF Init, TaskOK, Holding, Unique, HeadOK
<1>4. Counted
  <2>1. \A b \in Buffers : Held(b) = {} /\ Firsts(b) = {} /\ bh[b].count = 0
    BY Known, Zenon DEF Init, Held, Firsts, Holding
  <2>2. Cardinality({}) = 0
    BY FS_EmptySet, Zenon
  <2> QED
    BY <2>1, <2>2 DEF Counted
<1>5. WaitsOnlyWhenFull
  BY Zenon DEF Init, WaitsOnlyWhenFull
<1>6. DataInv
  <2>1. \A k \in Blocks : find_buffer(k) = {} /\ disk[k] = latest[k]
    BY Known, Zenon DEF Init, find_buffer
  <2>2. \A b \in Buffers : io[b] # "READ"
    BY Zenon DEF Init
  <2>3. \A t \in Tasks : pc[t] # "use"
    BY Zenon DEF Init
  <2> QED
    BY <2>1, <2>2, <2>3, Zenon DEF DataInv, BlockOK
<1> QED
  BY <1>1, <1>2, <1>3, <1>4, <1>5, <1>6, Zenon DEF CacheInv

\* Every step keeps the table of buffers sound, and one that fails no write keeps
\* what was written.
LEMMA NextKeeps ==
  ASSUME CacheInv, [Next]_vars
  PROVE  CacheInv' /\ (DataInv /\ "WRITE" \notin Errors => DataInv')
<1>1. ASSUME NEW t \in Tasks, \E v : Step(t, v)
      PROVE  CacheInv' /\ (DataInv => DataInv')
  <2>1. PICK v : Step(t, v)
    BY <1>1, Zenon
  <2>2. CacheInv'
    BY <2>1, StepKeeps, Zenon
  <2>3. DataInv => DataInv'
    BY <2>1, StepKeepsData, Zenon
  <2> QED
    BY <2>2, <2>3, Zenon
<1>2. ASSUME NEW b \in Buffers, transfer(b) \/ end_request(b)
      PROVE  CacheInv' /\ (DataInv /\ "WRITE" \notin Errors => DataInv')
  BY <1>2, TransferKeeps, EndRequestKeeps, Zenon
<1>3. ASSUME NEW t \in Tasks,
             \/ getblk(t) \/ get_hash_table_return(t) \/ getblk_wait_on_buffer(t)
             \/ sync_dev(t) \/ sys_sync(t) \/ bread_return(t) \/ change(t) \/ brelse(t)
             \/ \E o \in Calls[t] : call(t, o[1], o[2])
      PROVE  CacheInv' /\ (DataInv => DataInv')
  <2>1. CASE change(t)
    BY <2>1, ChangeKeeps, Zenon
  <2>2. CASE getblk(t) \/ getblk_wait_on_buffer(t)
    BY <1>1, <2>2, GetblkStep, VictimStep, Zenon
  <2>3. CASE get_hash_table_return(t) \/ sync_dev(t) \/ brelse(t)
    BY <1>1, <2>3, HashStep, SyncStep, BrelseStep, Zenon
  <2>4. CASE \/ sys_sync(t) \/ bread_return(t)
             \/ \E o \in Calls[t] : call(t, o[1], o[2])
    BY <1>1, <2>4, CallerStep, Zenon
  <2> QED
    BY <1>3, <2>1, <2>2, <2>3, <2>4, Zenon
<1>4. CASE UNCHANGED vars
  <2>1. UNCHANGED <<bh, data, io, disk, latest, blind, quiet, pc, op, want, mine, first, scan>>
    BY <1>4, Zenon DEF vars, cache, past, caller
  <2>2. CacheInv'
    <3>1. HeadTypes' /\ DataTypes' /\ TaskTypes'
      BY <2>1, Zenon DEF CacheInv, HeadTypes, DataTypes, TaskTypes
    <3>2. \A b \in Buffers : HeadOK(b)'
      BY <2>1, Zenon DEF CacheInv, HeadOK
    <3> QED
      BY <2>1, <3>1, <3>2, RestKept
  <2>3. DataInv => DataInv'
    <3>1. \A k \in Blocks : find_buffer(k)' = find_buffer(k)
      BY <2>1, Zenon DEF find_buffer
    <3>2. \A k \in Blocks : BlockOK(k) => BlockOK(k)'
      BY <2>1, <3>1, Zenon DEF BlockOK
    <3> QED
      BY <2>1, <3>2, Zenon DEF DataInv
  <2> QED
    BY <2>2, <2>3, Zenon
<1> QED
  BY <1>2, <1>3, <1>4, Zenon DEF Next

\* What the invariant says of the buffers is CacheSound: a task uses a buffer at
\* most twice, so counts are bounded.
LEMMA SoundCache == CacheInv => CacheSound
<1> SUFFICES ASSUME CacheInv PROVE CacheSound
  BY Zenon
<1>1. HeadTypes /\ DataTypes /\ TaskTypes /\ (\A t \in Tasks : TaskOK(t)) /\ Unique /\ Counted
      /\ WaitsOnlyWhenFull
  BY Zenon DEF CacheInv
<1>2. OnePerBlock
  BY <1>1, Zenon DEF OnePerBlock, Unique, TaskOK
<1>3. \A b \in Buffers : bh[b].count \in 0 .. 2 * Cardinality(Tasks)
  <2> SUFFICES ASSUME NEW b \in Buffers PROVE bh[b].count \in 0 .. 2 * Cardinality(Tasks)
    BY Zenon
  <2>1. Held(b) \subseteq Tasks /\ Firsts(b) \subseteq Tasks
    BY Zenon DEF Held, Firsts
  <2>2. Cardinality(Held(b)) \in Nat /\ Cardinality(Held(b)) =< Cardinality(Tasks)
    BY <2>1, Known, FS_Subset, FS_CardinalityType
  <2>3. Cardinality(Firsts(b)) \in Nat /\ Cardinality(Firsts(b)) =< Cardinality(Tasks)
    BY <2>1, Known, FS_Subset, FS_CardinalityType, Zenon
  <2>4. Cardinality(Tasks) \in Nat
    BY Known, FS_CardinalityType, Zenon
  <2>5. bh[b].count = Cardinality(Held(b)) + Cardinality(Firsts(b))
    BY <1>1, Zenon DEF Counted
  <2> QED
    BY <2>2, <2>3, <2>4, <2>5
<1>4. TypeOK
  <2>1. bh \in [Buffers -> [blocknr : Blocks \cup {0}, count : 0 .. 2 * Cardinality(Tasks),
                            dirt : BOOLEAN, uptodate : BOOLEAN, lock : BOOLEAN]]
    BY <1>1, <1>3, Zenon DEF HeadTypes, Heads
  <2> QED
    BY <1>1, <2>1, Zenon DEF TypeOK, HeadTypes, DataTypes, TaskTypes
<1>5. CountsHeld
  BY <1>1, <1>4, Zenon DEF CountsHeld, Counted, Held, Firsts
<1> QED
  BY <1>1, <1>2, <1>5, Zenon DEF CacheSound

\* What it says of their data is DataKept.
LEMMA SoundData == CacheInv /\ DataInv => DataKept
<1> SUFFICES ASSUME CacheInv, DataInv PROVE DataKept
  BY Zenon
<1>1. ASSUME NEW t \in Tasks, pc[t] = "use", op[t] # "overwrite", want[t] \notin blind
      PROVE  data[mine[t]] = latest[want[t]]
  <2>1. mine[t] \in Buffers /\ want[t] \in Blocks /\ bh[mine[t]].blocknr = want[t]
    BY <1>1, Known DEF CacheInv, TaskTypes, TaskOK, Holding, Buffers
  <2>2. bh[mine[t]].uptodate /\ BlockOK(want[t])
    BY <1>1, <2>1, Zenon DEF DataInv
  <2>3. mine[t] \in find_buffer(want[t])
    BY <2>1, Zenon DEF find_buffer
  <2> QED
    BY <2>2, <2>3, ZenonT(40) DEF BlockOK
<1>2. ASSUME NEW k \in Blocks \ blind
      PROVE  \/ disk[k] = latest[k]
             \/ \E b \in find_buffer(k) :
                   data[b] = latest[k] /\ (bh[b].dirt \/ io[b] = "WRITE")
  BY ZenonT(40) DEF DataInv, BlockOK
<1> QED
  BY <1>1, <1>2, Zenon DEF DataKept, ReadsLatestUnlessBlind, NothingLost

\* However many tasks sleep in getblk, bread and wait_on_buffer, a block never gets
\* a second buffer, a buffer keeps its block while it is held, its count is that of
\* its users, and a task sleeps for a free buffer only while there is none, but for
\* breada's silent count.
THEOREM CacheStaysSound == Spec => []CacheSound
<1>1. Init => CacheInv
  BY StartsSound, Zenon
<1>2. CacheInv /\ [Next]_vars => CacheInv'
  BY NextKeeps, Zenon
<1> QED
  BY <1>1, <1>2, SoundCache, PTL DEF Spec

\* As long as no write fails, bread gives what was last written to the block and
\* nothing that was written is lost: it is on the disk, or in a buffer that is dirty
\* or being written, but for the blocks block_write filled without reading them.
\* A write that fails does lose it, for ll_rw_block has cleared b_dirt already.
THEOREM DataStaysKept ==
  ASSUME "WRITE" \notin Errors
  PROVE  Spec => []DataKept
<1>1. Init => CacheInv /\ DataInv
  BY StartsSound, Zenon
<1>2. CacheInv /\ DataInv /\ [Next]_vars => (CacheInv /\ DataInv)'
  BY NextKeeps, Zenon
<1> QED
  BY <1>1, <1>2, SoundData, PTL DEF Spec
==============================================================================
