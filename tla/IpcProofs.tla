------------------------------ MODULE IpcProofs ------------------------------
(***************************************************************************)
(* Proofs about the ring buffer of a pipe, for every page size and every   *)
(* number of processes, and about the read-write lock of both libraries,   *)
(* for any finite number of threads: the counters under rw_mutex say who   *)
(* holds the lock and who waits, and the lock implements the abstract one. *)
(***************************************************************************)
EXTENDS MC_Ipc, FiniteSetTheorems, TLAPS

\* What one turn of the loop moves is one of the three limits and the smallest.
LEMMA MinOfThree ==
  ASSUME NEW a \in Nat, NEW b \in Nat, NEW c \in Nat
  PROVE  /\ Min({a, b, c}) \in {a, b, c}
         /\ Min({a, b, c}) <= a /\ Min({a, b, c}) <= b /\ Min({a, b, c}) <= c
<1>1. \E x \in {a, b, c} : \A y \in {a, b, c} : x <= y
  OBVIOUS
<1> QED
  BY <1>1, Zenon DEF Min

\* A chunk is not empty and fits below the end of the page, the count and the
\* size it was given.
LEMMA ChunkFits ==
  ASSUME TypeOK, NEW p \in Procs, NEW pointer \in Slots, NEW size \in Nat,
         left[p] > 0, size > 0
  PROVE  /\ Chars(p, pointer, size) \in Nat \ {0}
         /\ Chars(p, pointer, size) <= PAGE_SIZE - pointer
         /\ Chars(p, pointer, size) <= left[p]
         /\ Chars(p, pointer, size) <= size
<1>1. PAGE_SIZE - pointer \in Nat \ {0} /\ left[p] \in Nat
  BY PipeAssumption DEF TypeOK, Slots
<1> QED
  BY <1>1, MinOfThree DEF Chars

\* A chunk that is pending still has its slots inside the page.
PendOK ==
    \A p \in Procs : pc[p] \in {"copy_out", "copy_in"} =>
        /\ pend[p].chars > 0
        /\ pend[p].from + pend[p].chars <= PAGE_SIZE

\* The ring never holds a whole page of bytes.
LEMMA SizeRange == TypeOK => PIPE_SIZE \in 0 .. PAGE_SIZE - 1
BY PipeAssumption DEF TypeOK, Slots, PIPE_SIZE

\* The holders of a descriptor for one end.
Holders(e) == {p \in Procs : e \in filp[p]}

\* f_count can count them.
LEMMA HoldersFinite == \A e \in Ends : IsFiniteSet(Holders(e)) /\ Cardinality(Holders(e)) \in Nat
BY PipeAssumption, FS_Subset, FS_CardinalityType, Zenon DEF Holders

\* A process that closes an end is counted by f_count and i_count.
LEMMA CloseCounts ==
  ASSUME CountsAgree, NEW p \in Procs, NEW e \in Ends, e \in filp[p]
  PROVE  f_count[e] \in Nat \ {0} /\ i_count \in 1 .. 2
<1>1. f_count[e] = Cardinality(Holders(e)) /\ p \in Holders(e)
  BY Zenon DEF CountsAgree, Holders
<1>2. f_count[e] \in Nat \ {0}
  BY <1>1, HoldersFinite, FS_EmptySet, Zenon
<1> QED
  BY <1>2 DEF CountsAgree, Open, Ends

\* The state sys_pipe leaves behind has the types.
LEMMA InitTyped == Init => TypeOK /\ PendOK
<1> SUFFICES ASSUME Init PROVE TypeOK /\ PendOK
  BY Zenon
<1>1. faulted \in BOOLEAN
  BY Zenon DEF Init
<1> QED
  BY <1>1, PipeAssumption DEF Init, TypeOK, PendOK, Slots, Ends, NoCopy

\* Every action keeps the types: the pointers stay in the page because a chunk
\* never crosses its end, the counts stay natural because of CountsAgree.
LEMMA TypeStep ==
  ASSUME TypeOK, PendOK, CountsAgree, [Next]_vars
  PROVE  TypeOK' /\ PendOK'
<1> USE DEF ring, refs, call, hist
<1>1. ASSUME NEW p \in Procs, sys_read(p) \/ sys_write(p) PROVE TypeOK' /\ PendOK'
  <2>1. TypeOK'
    BY <1>1, PipeAssumption, ZenonT(40) DEF sys_read, sys_write, TypeOK
  <2>2. PendOK'
    BY <1>1, Zenon DEF sys_read, sys_write, TypeOK, PendOK
  <2> QED
    BY <2>1, <2>2, Zenon
<1>2. ASSUME NEW p \in Procs,
             read_pipe_empty(p) \/ read_pipe_return(p) \/ write_pipe_full(p) \/ write_pipe_return(p)
      PROVE  TypeOK' /\ PendOK'
  <2>1. /\ asleep' \in SUBSET Procs /\ cpu' = NoProc
        /\ \/ UNCHANGED call
           \/ /\ pc' = [pc EXCEPT ![p] = "user"]
              /\ left' = [left EXCEPT ![p] = 0]
              /\ UNCHANGED pend
        /\ UNCHANGED <<ring, refs, hist>>
    BY <1>2 DEF read_pipe_empty, read_pipe_return, write_pipe_full,
                write_pipe_return, Return, wake_up
  <2>2. TypeOK'
    BY <2>1 DEF TypeOK
  <2>3. PendOK'
    BY <2>1, Zenon DEF TypeOK, PendOK
  <2> QED
    BY <2>2, <2>3
<1>3. ASSUME NEW p \in Procs, read_pipe_chunk(p) PROVE TypeOK' /\ PendOK'
  <2> DEFINE n == Chars(p, tail, PIPE_SIZE)
  <2>1. tail \in Slots /\ left[p] \in Nat
    BY Zenon DEF TypeOK
  <2>2. n \in Nat \ {0} /\ n <= PAGE_SIZE - tail /\ n <= left[p]
    BY <1>3, <2>1, ChunkFits, SizeRange DEF read_pipe_chunk
  <2> HIDE DEF n
  <2>3. /\ tail' = Masked(tail + n) /\ received' = received + n
        /\ left' = [left EXCEPT ![p] = left[p] - n]
        /\ cpu' \in {p, NoProc}
        /\ \/ UNCHANGED <<pc, pend>>
           \/ /\ pc' = [pc EXCEPT ![p] = "copy_out"]
              /\ pend' = [pend EXCEPT ![p] = [from |-> tail, chars |-> n, byte |-> received]]
        /\ UNCHANGED <<head, page, refs, asleep, sent>>
    BY <1>3, Zenon DEF read_pipe_chunk, n
  <2>4. tail' \in Slots /\ left[p] - n \in Nat /\ tail \in Nat /\ tail + n <= PAGE_SIZE
    BY <2>1, <2>2, <2>3, PipeAssumption DEF Masked, Slots
  <2> DEFINE r == [from |-> tail, chars |-> n, byte |-> received]
  <2>5. /\ r \in [from : Nat, chars : Nat, byte : Nat]
        /\ r.chars > 0 /\ r.from + r.chars <= PAGE_SIZE
    BY <2>2, <2>4 DEF TypeOK
  <2>6. \/ UNCHANGED <<pc, pend>>
        \/ pc' = [pc EXCEPT ![p] = "copy_out"] /\ pend' = [pend EXCEPT ![p] = r]
    BY <2>3, Zenon
  <2> HIDE DEF r
  <2>7. received' \in Nat
    BY <2>2, <2>3 DEF TypeOK
  <2>a. faulted' \in BOOLEAN
    BY <1>3, Zenon DEF read_pipe_chunk, TypeOK
  <2>b. pc' \in [Procs -> {"unborn", "user", "read", "write", "copy_out", "copy_in"}]
    BY <2>6, Zenon DEF TypeOK
  <2>c. pend' \in [Procs -> [from : Nat, chars : Nat, byte : Nat]]
    BY <2>5, <2>6, Zenon DEF TypeOK
  <2>d. left' \in [Procs -> Nat]
    BY <2>3, <2>4, Zenon DEF TypeOK
  <2>8. TypeOK'
    <3>1. /\ cpu' \in {p, NoProc}
          /\ UNCHANGED <<head, page, refs, asleep, sent>>
      BY <2>3, Zenon
    <3> QED
      BY <3>1, <2>4, <2>7, <2>a, <2>b, <2>c, <2>d, ZenonT(40) DEF TypeOK
  <2>9. PendOK'
    BY <2>5, <2>6, Zenon DEF TypeOK, PendOK
  <2> QED
    BY <2>8, <2>9
<1>4. ASSUME NEW p \in Procs, write_pipe_chunk(p) PROVE TypeOK' /\ PendOK'
  <2> DEFINE n == Chars(p, head, PAGE_SIZE - 1 - PIPE_SIZE)
  <2>1. head \in Slots /\ left[p] \in Nat
    BY Zenon DEF TypeOK
  <2>2. left[p] > 0 /\ PAGE_SIZE - 1 - PIPE_SIZE \in Nat \ {0}
    BY <1>4, SizeRange, PipeAssumption DEF write_pipe_chunk
  <2>3. n \in Nat \ {0} /\ n <= PAGE_SIZE - head /\ n <= left[p]
    BY <2>1, <2>2, ChunkFits
  <2> HIDE DEF n
  <2>4. /\ head' = Masked(head + n) /\ sent' = sent + n
        /\ left' = [left EXCEPT ![p] = left[p] - n]
        /\ cpu' \in {p, NoProc}
        /\ \/ /\ UNCHANGED <<pc, pend>>
              /\ page' = [s \in Slots |-> IF s \in head .. head + n - 1
                                          THEN sent + (s - head) ELSE page[s]]
           \/ /\ pc' = [pc EXCEPT ![p] = "copy_in"]
              /\ pend' = [pend EXCEPT ![p] = [from |-> head, chars |-> n, byte |-> sent]]
              /\ UNCHANGED page
        /\ UNCHANGED <<tail, refs, asleep, received>>
    BY <1>4, Zenon DEF write_pipe_chunk, n
  <2>5. head' \in Slots /\ left[p] - n \in Nat /\ head \in Nat /\ head + n <= PAGE_SIZE
    BY <2>1, <2>3, <2>4, PipeAssumption DEF Masked, Slots
  <2>6. page' \in [Slots -> Nat]
    <3>1. \A s \in head .. head + n - 1 : sent + (s - head) \in Nat
      BY <2>3, <2>5 DEF TypeOK
    <3> QED
      BY <2>4, <3>1 DEF TypeOK
  <2>a. faulted' \in BOOLEAN
    BY <1>4, Zenon DEF write_pipe_chunk, TypeOK
  <2>b. pc' \in [Procs -> {"unborn", "user", "read", "write", "copy_out", "copy_in"}]
    BY <2>4, Zenon DEF TypeOK
  <2>c. pend' \in [Procs -> [from : Nat, chars : Nat, byte : Nat]]
    BY <2>3, <2>4, <2>5 DEF TypeOK
  <2>d. left' \in [Procs -> Nat] /\ sent' \in Nat
    BY <2>3, <2>4, <2>5 DEF TypeOK
  <2>7. TypeOK'
    <3>1. /\ cpu' \in {p, NoProc}
          /\ UNCHANGED <<tail, refs, asleep, received>>
      BY <2>4, Zenon
    <3> QED
      BY <3>1, <2>5, <2>6, <2>a, <2>b, <2>c, <2>d, Zenon DEF TypeOK
  <2>8. PendOK'
    BY <2>3, <2>4, <2>5 DEF TypeOK, PendOK
  <2> QED
    BY <2>7, <2>8
<1>5. ASSUME NEW p \in Procs, put_fs_byte(p) \/ get_fs_byte(p) PROVE TypeOK' /\ PendOK'
  <2>1. pend[p] \in [from : Nat, chars : Nat, byte : Nat] /\ pend[p].chars > 0
        /\ pend[p].from + pend[p].chars <= PAGE_SIZE
    BY <1>5, Zenon DEF put_fs_byte, get_fs_byte, TypeOK, PendOK
  <2>2. /\ NextByte(pend[p]) \in [from : Nat, chars : Nat, byte : Nat]
        /\ pend[p].chars # 1 =>
              /\ NextByte(pend[p]).chars > 0
              /\ NextByte(pend[p]).from + NextByte(pend[p]).chars <= PAGE_SIZE
    BY <2>1, PipeAssumption DEF NextByte, NoCopy
  <2>3. /\ pend' = [pend EXCEPT ![p] = NextByte(pend[p])]
        /\ pc' = [pc EXCEPT ![p] = IF pend[p].chars = 1 THEN IF pc[p] = "copy_out" THEN "read" ELSE "write"
                                   ELSE pc[p]]
        /\ \/ UNCHANGED page
           \/ page' = [page EXCEPT ![pend[p].from] = pend[p].byte]
        /\ UNCHANGED <<head, tail, refs, cpu, asleep, left, hist>>
    BY <1>5, Zenon DEF put_fs_byte, get_fs_byte
  <2>4. TypeOK'
    BY <2>1, <2>2, <2>3, Zenon DEF TypeOK
  <2>5. PendOK'
    BY <2>2, <2>3, Zenon DEF TypeOK, PendOK
  <2> QED
    BY <2>4, <2>5
<1>6. ASSUME NEW p \in Procs, NEW e \in Ends, sys_close(p, e) PROVE TypeOK' /\ PendOK'
  <2>1. f_count[e] - 1 \in Nat /\ i_count - 1 \in 0 .. 2
    BY <1>6, CloseCounts DEF sys_close
  <2>2. TypeOK'
    BY <1>6, <2>1, Zenon DEF sys_close, wake_up, TypeOK
  <2>3. PendOK'
    BY <1>6, Zenon DEF sys_close, PendOK
  <2> QED
    BY <2>2, <2>3, Zenon
<1>7. ASSUME NEW p \in Procs, NEW q \in Procs, copy_process(p, q) PROVE TypeOK' /\ PendOK'
  <2>1. TypeOK'
    BY <1>7 DEF copy_process, TypeOK
  <2>2. PendOK'
    BY <1>7, Zenon DEF copy_process, PendOK, TypeOK
  <2> QED
    BY <2>1, <2>2, Zenon
<1>8. CASE UNCHANGED vars
  BY <1>8, Zenon DEF vars, TypeOK, PendOK
<1> QED
  BY <1>1, <1>2, <1>3, <1>4, <1>5, <1>6, <1>7, <1>8, ZenonT(40) DEF Next, read_pipe, write_pipe

\* A process that is not born yet holds nothing, so fork adds a new holder.
UnbornBare == \A p \in Procs : pc[p] = "unborn" => filp[p] = {}

\* fork adds and sys_close removes one holder of a file; nothing else does.
LEMMA CountsStep ==
  ASSUME TypeOK, CountsAgree, UnbornBare, [Next]_vars
  PROVE  CountsAgree' /\ UnbornBare'
<1> USE DEF ring, refs, call, hist
<1>1. CASE /\ UNCHANGED refs
           /\ \A p \in Procs : pc'[p] = "unborn" => pc[p] = "unborn"
  BY <1>1, Zenon DEF CountsAgree, UnbornBare, Open
<1>2. ASSUME NEW p \in Procs, NEW e \in Ends, sys_close(p, e) PROVE CountsAgree' /\ UnbornBare'
  <2>1. filp' = [filp EXCEPT ![p] = filp[p] \ {e}] /\ e \in filp[p]
    BY <1>2, Zenon DEF sys_close
  <2>2. f_count' = [f_count EXCEPT ![e] = f_count[e] - 1] /\ UNCHANGED pc
    BY <1>2, Zenon DEF sys_close
  <2>3. i_count' = IF f_count[e] = 1 THEN i_count - 1 ELSE i_count
    BY <1>2, Zenon DEF sys_close
  <2>4. Holders(e)' = Holders(e) \ {p} /\ p \in Holders(e)
    BY <2>1, Zenon DEF TypeOK, Holders
  <2>5. \A d \in Ends \ {e} : Holders(d)' = Holders(d)
    BY <2>1, Zenon DEF TypeOK, Holders
  <2>6. Cardinality(Holders(e)') = Cardinality(Holders(e)) - 1
    BY <2>4, HoldersFinite, FS_RemoveElement, ZenonT(40)
  <2>7. \A d \in Ends : f_count'[d] = Cardinality(Holders(d)')
    BY <2>2, <2>5, <2>6, Zenon DEF CountsAgree, Holders, TypeOK
  <2>8. f_count[e] \in Nat \ {0}
    BY <2>1, CloseCounts, Zenon
  <2>9. i_count' = Open("r")' + Open("w")'
    BY <2>2, <2>3, <2>8 DEF CountsAgree, Open, Ends, TypeOK
  <2>10. UnbornBare'
    BY <2>1, <2>2, Zenon DEF UnbornBare, TypeOK
  <2> QED
    BY <2>7, <2>9, <2>10, Zenon DEF CountsAgree, Holders
<1>3. ASSUME NEW p \in Procs, NEW q \in Procs, copy_process(p, q)
      PROVE  CountsAgree' /\ UnbornBare'
  <2>1. /\ filp' = [filp EXCEPT ![q] = filp[p]] /\ filp[q] = {} /\ UNCHANGED i_count
        /\ pc' = [pc EXCEPT ![q] = "user"]
    BY <1>3, Zenon DEF copy_process, UnbornBare
  <2>2. f_count' = [e \in Ends |-> IF e \in filp[p] THEN f_count[e] + 1 ELSE f_count[e]]
    BY <1>3, Zenon DEF copy_process
  <2>3. ASSUME NEW e \in Ends PROVE f_count'[e] = Cardinality(Holders(e)')
    <3>1. CASE e \in filp[p]
      <4>1. Holders(e)' = Holders(e) \cup {q} /\ q \notin Holders(e)
        BY <2>1, <3>1, Zenon DEF TypeOK, Holders
      <4>2. Cardinality(Holders(e)') = Cardinality(Holders(e)) + 1
        BY <4>1, HoldersFinite, FS_AddElement, Zenon
      <4> QED
        BY <4>2, <3>1, <2>2, Zenon DEF CountsAgree, Holders
    <3>2. CASE e \notin filp[p]
      <4>1. Holders(e)' = Holders(e)
        BY <2>1, <3>2, Zenon DEF TypeOK, Holders
      <4> QED
        BY <4>1, <3>2, <2>2, Zenon DEF CountsAgree, Holders
    <3> QED
      BY <3>1, <3>2, Zenon
  <2>4. \A e \in Ends : e \in filp[p] => f_count[e] \in Nat \ {0}
    BY CloseCounts, Zenon
  <2>5. i_count' = Open("r")' + Open("w")'
    BY <2>1, <2>2, <2>4 DEF CountsAgree, Open, Ends, TypeOK
  <2>6. UnbornBare'
    BY <2>1, Zenon DEF UnbornBare, TypeOK
  <2> QED
    BY <2>3, <2>5, <2>6, Zenon DEF CountsAgree, Holders
<1>4. ASSUME NEW p \in Procs, read_pipe(p) \/ write_pipe(p) \/ sys_read(p) \/ sys_write(p)
      PROVE  CountsAgree' /\ UnbornBare'
  <2>1. /\ UNCHANGED refs
        /\ \A q \in Procs : q # p => pc'[q] = pc[q]
        /\ pc'[p] # "unborn"
    BY <1>4, Zenon DEF TypeOK, read_pipe, write_pipe, sys_read, sys_write, read_pipe_empty,
                read_pipe_chunk, put_fs_byte, read_pipe_return, write_pipe_full,
                write_pipe_chunk, get_fs_byte, write_pipe_return, Return
  <2> QED
    BY <2>1, <1>1, ZenonT(40)
<1>5. CASE UNCHANGED vars
  BY <1>5, <1>1, Zenon DEF vars
<1> QED
  BY <1>2, <1>3, <1>4, <1>5, Zenon DEF Next

\* sys_pipe leaves one holder of each end.
LEMMA InitCounts == Init => CountsAgree /\ UnbornBare
<1> SUFFICES ASSUME Init PROVE CountsAgree /\ UnbornBare
  BY Zenon
<1>1. \A e \in Ends : Holders(e) = {Creator}
  BY PipeAssumption, Zenon DEF Init, Holders, Ends
<1>2. \A e \in Ends : f_count[e] = Cardinality(Holders(e))
  BY <1>1, FS_Singleton, Zenon DEF Init
<1>3. i_count = Open("r") + Open("w") /\ UnbornBare
  BY PipeAssumption DEF Init, Open, Ends, UnbornBare
<1> QED
  BY <1>2, <1>3, Zenon DEF CountsAgree, Holders

\* The inductive invariant behind the types and the counts.
PipeInv == TypeOK /\ PendOK /\ CountsAgree /\ UnbornBare

\* PipeInv holds in every reachable state.
LEMMA PipeInvAlways == Spec => []PipeInv
<1>1. Init => PipeInv
  BY InitTyped, InitCounts, Zenon DEF PipeInv
<1>2. PipeInv /\ [Next]_vars => PipeInv'
  BY TypeStep, CountsStep, Zenon DEF PipeInv
<1> QED
  BY <1>1, <1>2, PTL DEF Spec

\* Type correctness: the pointers of read_pipe and write_pipe stay inside the
\* page, and no count goes negative.
THEOREM PipeTypeCorrect == Spec => []TypeOK
BY PipeInvAlways, PTL DEF PipeInv

\* sys_close never meets the panic "Close: file count is 0", and the test
\* i_count != 2 of read_pipe and write_pipe is the test that an end is closed.
THEOREM PipeCounts == Spec => []CountsAgree
BY PipeInvAlways, PTL DEF PipeInv

(***************************************************************************)
(* The contents.  Until a copy faults every chunk is copied before anybody *)
(* else runs, and InOrder is inductive.                                    *)
(***************************************************************************)
NoneCopies == \A p \in Procs : pc[p] \notin {"copy_out", "copy_in"}

\* The pointers as numbers, for the arithmetic below.
LEMMA RingBounds ==
  ASSUME TypeOK
  PROVE  /\ head \in Nat /\ head < PAGE_SIZE /\ tail \in Nat /\ tail < PAGE_SIZE
         /\ PAGE_SIZE \in Nat
BY PipeAssumption DEF TypeOK, Slots

\* A step without a fault keeps the bytes in order.
LEMMA OrderStep ==
  ASSUME TypeOK, TypeOK', NoneCopies, InOrder, [Next]_vars, ~faulted, ~faulted'
  PROVE  InOrder' /\ NoneCopies'
<1> USE DEF ring, refs, call, hist
<1>1. ASSUME UNCHANGED <<ring, hist>> PROVE InOrder'
  BY <1>1, Zenon DEF InOrder, PIPE_SIZE, SlotOf
<1>2. ASSUME NEW p \in Procs, read_pipe_chunk(p) PROVE InOrder' /\ NoneCopies'
  <2> DEFINE n == Chars(p, tail, PIPE_SIZE)
  <2>a. left[p] > 0 /\ PIPE_SIZE # 0
    BY <1>2, Zenon DEF read_pipe_chunk
  <2>b. tail \in Slots /\ PIPE_SIZE \in Nat /\ PIPE_SIZE > 0
    <3>1. tail \in Slots
      BY Zenon DEF TypeOK
    <3>2. PIPE_SIZE \in 0 .. PAGE_SIZE - 1
      BY SizeRange, Zenon
    <3> QED
      BY <2>a, <3>1, <3>2, PipeAssumption
  <2>1. /\ n \in Nat \ {0} /\ n <= PAGE_SIZE - tail /\ n <= PIPE_SIZE
        /\ PIPE_SIZE \in Nat
    BY <2>a, <2>b, ChunkFits, Zenon
  <2>2. /\ tail' = Masked(tail + n) /\ received' = received + n
        /\ UNCHANGED <<head, page, sent, pc>>
    BY <1>2, Zenon DEF read_pipe_chunk
  <2> HIDE DEF n
  <2>3. PIPE_SIZE' = PIPE_SIZE - n
    BY <2>1, <2>2, RingBounds DEF Masked, PIPE_SIZE
  <2>4. ASSUME NEW i \in Nat, i < PIPE_SIZE' PROVE SlotOf(i)' = SlotOf(i + n)
    BY <2>1, <2>2, <2>3, <2>4, RingBounds DEF Masked, SlotOf, PIPE_SIZE
  <2>5. sent' = received' + PIPE_SIZE'
    BY <2>1, <2>2, <2>3 DEF InOrder, TypeOK
  <2>6. ASSUME NEW i \in 0 .. PIPE_SIZE' - 1 PROVE page'[SlotOf(i)'] = received' + i
    <3>1. i + n \in 0 .. PIPE_SIZE - 1 /\ i \in Nat /\ i < PIPE_SIZE'
      BY <2>1, <2>3
    <3>2. page[SlotOf(i + n)] = received + (i + n)
      BY <3>1, Zenon DEF InOrder
    <3> QED
      BY <2>1, <2>2, <2>4, <3>1, <3>2 DEF TypeOK
  <2> QED
    BY <2>2, <2>5, <2>6, Zenon DEF InOrder, NoneCopies
<1>3. ASSUME NEW p \in Procs, write_pipe_chunk(p) PROVE InOrder' /\ NoneCopies'
  <2> DEFINE room == PAGE_SIZE - 1 - PIPE_SIZE
             n == Chars(p, head, room)
  <2>1. PIPE_SIZE \in Nat /\ room \in Nat \ {0} /\ left[p] > 0 /\ head \in Slots
    <3>1. left[p] > 0 /\ PIPE_SIZE # PAGE_SIZE - 1
      BY <1>3, Zenon DEF write_pipe_chunk
    <3>2. PIPE_SIZE \in 0 .. PAGE_SIZE - 1
      BY SizeRange
    <3>3. head \in Slots
      BY Zenon DEF TypeOK
    <3> QED
      BY <3>1, <3>2, <3>3, PipeAssumption
  <2>2. n \in Nat \ {0} /\ n <= PAGE_SIZE - head /\ n <= room
    BY <2>1, ChunkFits
  <2>3. /\ head' = Masked(head + n) /\ sent' = sent + n
        /\ page' = [s \in Slots |-> IF s \in head .. head + n - 1
                                    THEN sent + (s - head) ELSE page[s]]
        /\ UNCHANGED <<tail, received, pc>>
    BY <1>3, Zenon DEF write_pipe_chunk
  <2> HIDE DEF n
  <2>4. PIPE_SIZE' = PIPE_SIZE + n
    BY <2>1, <2>2, <2>3, RingBounds DEF Masked, PIPE_SIZE
  <2>a. tail' = tail
    BY <2>3, Zenon
  <2>b. n <= PAGE_SIZE - 1 - PIPE_SIZE
    BY <2>2, Zenon
  <2>5. ASSUME NEW i \in 0 .. PIPE_SIZE - 1
        PROVE  /\ SlotOf(i) \in Slots /\ SlotOf(i)' = SlotOf(i)
               /\ SlotOf(i) \notin head .. head + n - 1
    <3> i \in Nat /\ i < PIPE_SIZE /\ n \in Nat
      BY <2>1, <2>2
    <3>1. CASE tail <= head
      BY <2>a, <2>b, <3>1, RingBounds DEF SlotOf, PIPE_SIZE, Slots
    <3>2. CASE ~(tail <= head)
      BY <2>a, <2>b, <3>2, RingBounds DEF SlotOf, PIPE_SIZE, Slots
    <3> QED
      BY <3>1, <3>2, Zenon
  <2>6. ASSUME NEW i \in PIPE_SIZE .. PIPE_SIZE + n - 1
        PROVE  /\ SlotOf(i)' \in Slots /\ SlotOf(i)' \in head .. head + n - 1
               /\ SlotOf(i)' - head = i - PIPE_SIZE
    <3> i \in Nat /\ i >= PIPE_SIZE /\ i < PIPE_SIZE + n /\ n \in Nat
      BY <2>1, <2>2
    <3>a. n <= PAGE_SIZE - head
      BY <2>2, Zenon
    <3>1. CASE tail <= head
      BY <2>a, <2>b, <3>a, <3>1, RingBounds DEF SlotOf, PIPE_SIZE, Slots
    <3>2. CASE ~(tail <= head)
      BY <2>a, <2>b, <3>a, <3>2, RingBounds DEF SlotOf, PIPE_SIZE, Slots
    <3> QED
      BY <3>1, <3>2, Zenon
  <2>7. sent' = received' + PIPE_SIZE'
    BY <2>1, <2>2, <2>3, <2>4 DEF InOrder, TypeOK
  <2>8. ASSUME NEW i \in 0 .. PIPE_SIZE' - 1 PROVE page'[SlotOf(i)'] = received' + i
    <3>1. CASE i \in 0 .. PIPE_SIZE - 1
      BY <2>3, <2>5, <3>1, Zenon DEF InOrder
    <3>2. CASE i \in PIPE_SIZE .. PIPE_SIZE + n - 1
      <4>1. page'[SlotOf(i)'] = sent + (i - PIPE_SIZE)
        BY <2>3, <2>6, <3>2, Zenon
      <4>2. sent = received + PIPE_SIZE /\ received \in Nat /\ received' = received
        BY <2>3, Zenon DEF InOrder, TypeOK
      <4>3. i \in Nat
        BY <2>1, <3>2
      <4> QED
        BY <4>1, <4>2, <4>3, <2>1
    <3> QED
      BY <3>1, <3>2, <2>1, <2>2, <2>4
  <2> QED
    BY <2>3, <2>7, <2>8, Zenon DEF InOrder, NoneCopies
<1>4. ASSUME NEW p \in Procs, ~read_pipe_chunk(p), ~write_pipe_chunk(p),
             read_pipe(p) \/ write_pipe(p) \/ sys_read(p) \/ sys_write(p)
      PROVE  InOrder' /\ NoneCopies'
  <2>1. /\ UNCHANGED <<ring, hist>>
        /\ \A q \in Procs : q # p => pc'[q] = pc[q]
        /\ pc'[p] \in {"user", "read", "write"}
    BY <1>4 DEF TypeOK, NoneCopies, read_pipe, write_pipe, sys_read, sys_write,
                read_pipe_empty, put_fs_byte, read_pipe_return, write_pipe_full,
                get_fs_byte, write_pipe_return, Return
  <2> QED
    BY <2>1, <1>1, Zenon DEF NoneCopies
<1>5. ASSUME NEW p \in Procs, NEW e \in Ends, sys_close(p, e) PROVE InOrder' /\ NoneCopies'
  BY <1>1, <1>5, Zenon DEF sys_close, NoneCopies
<1>6. ASSUME NEW p \in Procs, NEW q \in Procs, copy_process(p, q) PROVE InOrder' /\ NoneCopies'
  BY <1>1, <1>6, Zenon DEF copy_process, NoneCopies, TypeOK
<1>7. CASE UNCHANGED vars
  BY <1>1, <1>7, Zenon DEF vars, NoneCopies
<1> QED
  BY <1>2, <1>3, <1>4, <1>5, <1>6, <1>7, ZenonT(40) DEF Next

\* A fault is not forgotten.
LEMMA FaultStays == [Next]_vars /\ faulted => faulted'
<1> SUFFICES ASSUME [Next]_vars, faulted PROVE faulted'
  BY Zenon
<1>1. ASSUME NEW p \in Procs, read_pipe_chunk(p) PROVE faulted'
  BY <1>1, Zenon DEF read_pipe_chunk
<1>2. ASSUME NEW p \in Procs, write_pipe_chunk(p) PROVE faulted'
  BY <1>2, Zenon DEF write_pipe_chunk
<1>3. ASSUME NEW p \in Procs,
             \/ read_pipe_empty(p) \/ put_fs_byte(p) \/ read_pipe_return(p)
             \/ write_pipe_full(p) \/ get_fs_byte(p) \/ write_pipe_return(p)
      PROVE  faulted'
  BY <1>3, Zenon DEF hist, read_pipe_empty, put_fs_byte, read_pipe_return,
                     write_pipe_full, get_fs_byte, write_pipe_return
<1>4. ASSUME NEW p \in Procs, sys_read(p) \/ sys_write(p) PROVE faulted'
  BY <1>4, Zenon DEF hist, sys_read, sys_write
<1>5. ASSUME NEW p \in Procs, NEW e \in Ends, sys_close(p, e) PROVE faulted'
  BY <1>5, Zenon DEF hist, sys_close
<1>6. ASSUME NEW p \in Procs, NEW q \in Procs, copy_process(p, q) PROVE faulted'
  BY <1>6, Zenon DEF hist, copy_process
<1>7. CASE UNCHANGED vars
  BY <1>7, Zenon DEF vars, hist
<1> QED
  BY <1>1, <1>2, <1>3, <1>4, <1>5, <1>6, <1>7 DEF Next, read_pipe, write_pipe

OrderInv == ~faulted => InOrder /\ NoneCopies

\* A pipe is a FIFO: as long as copying does not fault, what lies between the
\* tail and the head is what was written and not yet read, in order, for every
\* page size and every mix of counts.
THEOREM PipeInOrder == Spec => []InOrder
<1>1. Init => OrderInv
  BY PipeAssumption DEF Init, OrderInv, InOrder, NoneCopies, PIPE_SIZE
<1>2. TypeOK /\ TypeOK' /\ OrderInv /\ [Next]_vars => OrderInv'
  BY OrderStep, FaultStays, Zenon DEF OrderInv
<1>3. OrderInv => InOrder
  BY Zenon DEF OrderInv, InOrder
<1> QED
  BY <1>1, <1>2, <1>3, PipeTypeCorrect, PTL DEF Spec

(***************************************************************************)
(* The sleepers.  A process sleeps only when it has just seen that it must *)
(* and both ends are open; whoever changes that is inside a call that ends *)
(* with wake_up, so NoSleepInVain is inductive.                            *)
(***************************************************************************)

\* A process inside a call, and awake, after a step: those who sleep have not
\* slept in vain.
LEMMA CallerAwake ==
  ASSUME NoSleepInVain, NEW p \in Procs, p \notin asleep',
         pc'[p] \notin {"user", "unborn"}, asleep' = asleep, i_count' = i_count
  PROVE  NoSleepInVain'
BY Zenon DEF NoSleepInVain

\* Every action leaves nobody asleep in vain.
LEMMA SleepStep ==
  ASSUME TypeOK, NoSleepInVain, [Next]_vars
  PROVE  NoSleepInVain'
<1> USE DEF ring, refs, call, hist
<1>1. ASSUME asleep' = {} PROVE NoSleepInVain'
  BY <1>1, Zenon DEF NoSleepInVain
<1>2. ASSUME NEW p \in Procs, sys_read(p) \/ sys_write(p) PROVE NoSleepInVain'
  BY <1>2, CallerAwake, Zenon DEF sys_read, sys_write, Runs, TypeOK
<1>3. ASSUME NEW p \in Procs, read_pipe_empty(p) PROVE NoSleepInVain'
  <2>1. CASE i_count # 2
    BY <1>1, <1>3, <2>1, Zenon DEF read_pipe_empty, wake_up
  <2>2. CASE i_count = 2
    BY <1>3, <2>2, Zenon DEF read_pipe_empty, NoSleepInVain, PIPE_SIZE
  <2> QED
    BY <2>1, <2>2, Zenon
<1>4. ASSUME NEW p \in Procs, write_pipe_full(p) PROVE NoSleepInVain'
  <2>1. CASE i_count # 2
    BY <1>1, <1>4, <2>1, Zenon DEF write_pipe_full, wake_up
  <2>2. CASE i_count = 2
    BY <1>4, <2>2, Zenon DEF write_pipe_full, NoSleepInVain, PIPE_SIZE
  <2> QED
    BY <2>1, <2>2
<1>5. ASSUME NEW p \in Procs, read_pipe_return(p) \/ write_pipe_return(p)
      PROVE  NoSleepInVain'
  BY <1>1, <1>5, Zenon DEF read_pipe_return, write_pipe_return, wake_up
<1>6. ASSUME NEW p \in Procs,
             \/ read_pipe_chunk(p) \/ put_fs_byte(p)
             \/ write_pipe_chunk(p) \/ get_fs_byte(p)
      PROVE  NoSleepInVain'
  <2>1. /\ p \notin asleep' /\ pc'[p] \notin {"user", "unborn"}
        /\ asleep' = asleep /\ i_count' = i_count
    BY <1>6 DEF read_pipe_chunk, put_fs_byte, write_pipe_chunk, get_fs_byte, Runs, TypeOK
  <2> QED
    BY <2>1, CallerAwake, ZenonT(40)
<1>7. ASSUME NEW p \in Procs, NEW e \in Ends, sys_close(p, e) PROVE NoSleepInVain'
  <2>1. CASE f_count[e] = 1
    BY <1>1, <1>7, <2>1, Zenon DEF sys_close, wake_up
  <2>2. CASE f_count[e] # 1
    BY <1>7, <2>2, Zenon DEF sys_close, NoSleepInVain, PIPE_SIZE
  <2> QED
    BY <2>1, <2>2, Zenon
<1>8. ASSUME NEW p \in Procs, NEW q \in Procs, copy_process(p, q) PROVE NoSleepInVain'
  BY <1>8, Zenon DEF copy_process, NoSleepInVain, PIPE_SIZE, TypeOK
<1>9. CASE UNCHANGED vars
  BY <1>9, Zenon DEF vars, NoSleepInVain, PIPE_SIZE
<1> QED
  BY <1>2, <1>3, <1>4, <1>5, <1>6, <1>7, <1>8, <1>9, ZenonT(40) DEF Next, read_pipe, write_pipe

\* However many processes share a pipe, and whatever faults, nobody sleeps on
\* i_wait beside bytes to read or room to write, or after a hangup.
THEOREM PipeWakes == Spec => []NoSleepInVain
<1>1. Init => NoSleepInVain
  BY Zenon DEF Init, NoSleepInVain
<1>2. TypeOK /\ NoSleepInVain /\ [Next]_vars => NoSleepInVain'
  BY SleepStep, Zenon
<1> QED
  BY <1>1, <1>2, PipeTypeCorrect, PTL DEF Spec

------------------------------------------------------------------------------
\* The read-write lock: the places of a thread, and the threads that are waiting.
RWait   == {"rwait", "rwoken"}
WWait   == {"wwait", "wwoken"}
Classes == {{"read"}, {"write"}, RWait, WWait}

Places  == {"out", "rwait", "rwoken", "wwait", "wwoken", "read", "write"}

One(b) == IF b THEN 1 ELSE 0

\* CountersAgree, with Cardinality as the facts about finite sets know it.
Agree ==
    /\ Lock!TypeOK
    /\ rw_refcount = -1 => Lock!readers = {} /\ \E t \in LockThreads : Lock!writers = {t}
    /\ rw_refcount >= 0 => Lock!writers = {} /\ rw_refcount = Cardinality(Lock!readers)
    /\ rw_nwaitreaders = Cardinality(Lock!At(RWait))
    /\ rw_nwaitwriters = Cardinality(Lock!At(WWait))

\* The lock counts its threads with the same Cardinality.
LEMMA SameCount == \A S : Lock!Cardinality(S) = Cardinality(S)
BY Zenon DEF Lock!Cardinality, Cardinality

\* So the two say the same.
LEMMA SameCounters == Agree => Lock!CountersAgree
BY SameCount, Zenon DEF Agree, Lock!CountersAgree, RWait, WWait

\* Only t changes what it has to do with the lock.
OnlyMoves(t) ==
    \A u \in LockThreads \ {t} : \A S \in Classes : at_lock'[u] \in S <=> at_lock[u] \in S

\* The threads of a class after a step in which only t moves.
LEMMA SetMoves ==
  ASSUME NEW t \in LockThreads, NEW CONSTANT S \in Classes, OnlyMoves(t)
  PROVE  Lock!At(S)' = IF at_lock'[t] \in S THEN Lock!At(S) \cup {t} ELSE Lock!At(S) \ {t}
BY Zenon DEF Lock!At, OnlyMoves

\* Their number.
LEMMA CountMoves ==
  ASSUME NEW t \in LockThreads, NEW CONSTANT S \in Classes, OnlyMoves(t)
  PROVE  /\ IsFiniteSet(Lock!At(S)) /\ Cardinality(Lock!At(S)) \in Nat
         /\ Cardinality(Lock!At(S)') \in Nat
         /\ Cardinality(Lock!At(S)') =
                Cardinality(Lock!At(S)) + One(at_lock'[t] \in S) - One(at_lock[t] \in S)
<1>1. IsFiniteSet(Lock!At(S)) /\ IsFiniteSet(Lock!At(S)')
  BY LockAssumption, FS_Subset, Zenon DEF Lock!At
<1>2. Cardinality(Lock!At(S)) \in Nat /\ Cardinality(Lock!At(S)') \in Nat
  BY <1>1, FS_CardinalityType, ZenonT(40)
<1>3. CASE at_lock'[t] \in S
  <2>1. Cardinality(Lock!At(S)') =
          IF t \in Lock!At(S) THEN Cardinality(Lock!At(S)) ELSE Cardinality(Lock!At(S)) + 1
    BY <1>1, <1>3, SetMoves, FS_AddElement
  <2> QED
    BY <1>1, <1>2, <1>3, <2>1 DEF Lock!At, One
<1>4. CASE at_lock'[t] \notin S
  <2>1. Cardinality(Lock!At(S)') =
          IF t \in Lock!At(S) THEN Cardinality(Lock!At(S)) - 1 ELSE Cardinality(Lock!At(S))
    BY <1>1, <1>4, SetMoves, FS_RemoveElement
  <2> QED
    BY <1>1, <1>2, <1>4, <2>1 DEF Lock!At, One
<1> QED
  BY <1>3, <1>4, Zenon

\* What a step of thread t may do with the lock itself: nothing, take it as a
\* reader or as the writer, or release it.
Keeps(t)    == rw_refcount' = rw_refcount /\ {at_lock[t], at_lock'[t]} \cap {"read", "write"} = {}
TakesR(t)   == /\ rw_refcount >= 0 /\ rw_refcount' = rw_refcount + 1
               /\ at_lock[t] \notin {"read", "write"} /\ at_lock'[t] = "read"
TakesW(t)   == /\ rw_refcount = 0 /\ rw_refcount' = -1
               /\ at_lock[t] \notin {"read", "write"} /\ at_lock'[t] = "write"
Releases(t) == /\ rw_refcount' = IF rw_refcount > 0 THEN rw_refcount - 1 ELSE 0
               /\ at_lock[t] \in {"read", "write"} /\ at_lock'[t] = "out"

\* The whole of a step of thread t, on the fields under rw_mutex.
Moves(t) ==
    /\ OnlyMoves(t)
    /\ Keeps(t) \/ TakesR(t) \/ TakesW(t) \/ Releases(t)
    /\ rw_nwaitreaders' = rw_nwaitreaders + One(at_lock'[t] \in RWait) - One(at_lock[t] \in RWait)
    /\ rw_nwaitwriters' = rw_nwaitwriters + One(at_lock'[t] \in WWait) - One(at_lock[t] \in WWait)
    /\ version' = version
    /\ at_lock' \in [LockThreads -> Places]
    /\ uses' \in [LockThreads -> 0 .. LockUses]

\* The abstract lock sees such a step as one of its own or as none.
LEMMA MovesKeepCounters ==
  ASSUME Agree, NEW t \in LockThreads, Moves(t)
  PROVE  Agree' /\ (Lock!Lock!Next \/ UNCHANGED <<Lock!readers, Lock!writers>>)
<1> USE DEF Classes
<1>1. /\ rw_nwaitreaders' = Cardinality(Lock!At(RWait)') /\ rw_nwaitreaders' \in Nat
      /\ rw_nwaitwriters' = Cardinality(Lock!At(WWait)') /\ rw_nwaitwriters' \in Nat
  BY CountMoves, Zenon DEF Moves, Agree, RWait, WWait
<1>2. /\ Lock!readers' = IF at_lock'[t] = "read" THEN Lock!readers \cup {t} ELSE Lock!readers \ {t}
      /\ Lock!writers' = IF at_lock'[t] = "write" THEN Lock!writers \cup {t} ELSE Lock!writers \ {t}
  BY SetMoves, Zenon DEF Moves, Lock!readers, Lock!writers
<1>3. /\ IsFiniteSet(Lock!readers) /\ Cardinality(Lock!readers) \in Nat
      /\ Cardinality(Lock!readers') \in Nat
      /\ Cardinality(Lock!readers') =
             Cardinality(Lock!readers) + One(at_lock'[t] = "read") - One(at_lock[t] = "read")
  BY CountMoves, Zenon DEF Moves, Lock!readers, One
<1>4. t \in Lock!readers <=> at_lock[t] = "read"
  BY Zenon DEF Lock!readers, Lock!At
<1>5. t \in Lock!writers <=> at_lock[t] = "write"
  BY Zenon DEF Lock!writers, Lock!At
<1>6. rw_refcount = 0 => Lock!readers = {} /\ Lock!writers = {}
  BY <1>3, FS_EmptySet DEF Agree
<1>7. rw_refcount \in Int /\ rw_refcount >= -1
  BY Zenon DEF Agree, Lock!TypeOK
<1> DEFINE Holds(refcount, r, w) ==
      /\ refcount \in Int /\ refcount >= -1
      /\ refcount = -1 => r = {} /\ \E u \in LockThreads : w = {u}
      /\ refcount >= 0 => w = {} /\ refcount = Cardinality(r)
<1>8. Holds(rw_refcount, Lock!readers, Lock!writers)
  BY <1>7, Zenon DEF Agree
<1> HIDE DEF Holds
<1>9. /\ Holds(rw_refcount', Lock!readers', Lock!writers')
      /\ (Lock!Lock!Next \/ UNCHANGED <<Lock!readers, Lock!writers>>)
  <2>1. CASE Keeps(t)
    <3>1. UNCHANGED <<Lock!readers, Lock!writers>>
      BY <2>1, <1>2, <1>4, <1>5, Zenon DEF Keeps
    <3> QED
      BY <3>1, <2>1, <1>8, Zenon DEF Keeps
  <2>2. CASE TakesR(t)
    <3>1. /\ Lock!writers = {} /\ t \notin Lock!readers
          /\ Lock!readers' = Lock!readers \cup {t} /\ Lock!writers' = Lock!writers
      BY <2>2, <1>2, <1>4, <1>5, <1>7, <1>8 DEF TakesR, Holds
    <3>2. Holds(rw_refcount', Lock!readers', Lock!writers')
      BY <3>1, <2>2, <1>3, <1>7, <1>8 DEF Holds, TakesR, One
    <3> QED
      BY <3>1, <3>2, Zenon DEF Lock!Lock!Next, Lock!Lock!Read
  <2>3. CASE TakesW(t)
    <3>1. /\ Lock!readers = {} /\ Lock!writers = {}
          /\ Lock!readers' = Lock!readers /\ Lock!writers' = {t}
      BY <2>3, <1>2, <1>6, ZenonT(40) DEF TakesW
    <3>2. Holds(rw_refcount', Lock!readers', Lock!writers')
      BY <3>1, <2>3 DEF Holds, TakesW
    <3> QED
      BY <3>1, <3>2, Zenon DEF Lock!Lock!Next, Lock!Lock!Write
  <2>4. CASE Releases(t)
    <3>1. Lock!readers' = Lock!readers \ {t} /\ Lock!writers' = Lock!writers \ {t}
      BY <2>4, <1>2, Zenon DEF Releases
    <3>2. CASE rw_refcount > 0
      <4>1. Lock!writers = {} /\ at_lock[t] = "read" /\ t \in Lock!readers
        BY <3>2, <2>4, <1>4, <1>5, <1>7, <1>8 DEF Releases, Holds
      <4>2. Holds(rw_refcount', Lock!readers', Lock!writers')
        BY <4>1, <3>1, <3>2, <2>4, <1>3, <1>7, <1>8 DEF Holds, Releases, One
      <4> QED
        BY <4>1, <4>2, <3>1, ZenonT(40) DEF Lock!Lock!Next, Lock!Lock!Release
    <3>3. CASE rw_refcount = -1
      <4>1. Lock!readers = {} /\ Lock!writers = {t}
        BY <3>3, <2>4, <1>4, <1>5, <1>8 DEF Releases, Holds
      <4>2. Holds(rw_refcount', Lock!readers', Lock!writers')
        BY <4>1, <3>1, <3>3, <2>4, FS_EmptySet DEF Holds, Releases
      <4> QED
        BY <4>1, <4>2, <3>1 DEF Lock!Lock!Next, Lock!Lock!Release
    <3>4. rw_refcount # 0
      BY <2>4, <1>4, <1>5, <1>6, ZenonT(40) DEF Releases
    <3> QED
      BY <3>2, <3>3, <3>4, <1>7
  <2> QED
    BY <2>1, <2>2, <2>3, <2>4, ZenonT(40) DEF Moves
<1>10. Lock!TypeOK'
  BY <1>1, <1>9, Zenon DEF Lock!TypeOK, Moves, Places, Holds, Agree
<1> QED
  BY <1>1, <1>9, <1>10, Zenon DEF Agree, Holds, RWait, WWait

\* A thread changes its own place only.
LEMMA GotoMoves ==
  ASSUME Lock!TypeOK, NEW t \in LockThreads,
         NEW where \in Places, Lock!Goto(t, where)
  PROVE  /\ OnlyMoves(t) /\ at_lock'[t] = where
         /\ at_lock' \in [LockThreads -> Places]
BY Zenon DEF Lock!TypeOK, Lock!Goto, OnlyMoves, Places

\* A call uses up one of the thread's uses of the lock.
LEMMA EnterLeft ==
  ASSUME Lock!TypeOK, NEW t \in LockThreads, Lock!Enter(t)
  PROVE  uses' \in [LockThreads -> 0 .. LockUses] /\ at_lock[t] = "out"
BY LockAssumption DEF Lock!TypeOK, Lock!Enter

\* Waking changes nothing but who is woken.
LEMMA WakingMoves ==
  ASSUME Lock!TypeOK, NEW t \in LockThreads, NEW p, p = [at_lock EXCEPT ![t] = "out"],
         Lock!Signal(p) \/ Lock!Broadcast(p) \/ at_lock' = p
  PROVE  /\ OnlyMoves(t) /\ at_lock'[t] = "out"
         /\ at_lock' \in [LockThreads -> Places]
<1> USE DEF Lock!TypeOK, OnlyMoves, Places, Classes, RWait, WWait
<1>1. CASE Lock!Signal(p)
  BY <1>1, Zenon DEF Lock!Signal
<1>2. CASE Lock!Broadcast(p)
  BY <1>2, Zenon DEF Lock!Broadcast
<1> QED
  BY <1>1, <1>2, Zenon

\* Every action of a thread is such a step.
LEMMA ActionsMove ==
  ASSUME Agree, NEW t \in LockThreads, version' = version,
         Lock!Ask(t) \/ Lock!Proceed(t) \/ Lock!cancelwait(t) \/ Lock!spurious(t)
  PROVE  Moves(t)
<1>1. Lock!TypeOK /\ rw_nwaitreaders \in Nat /\ rw_nwaitwriters \in Nat /\ rw_refcount \in Int
      /\ uses \in [LockThreads -> 0 .. LockUses]
  BY Zenon DEF Agree, Lock!TypeOK
<1> USE <1>1 DEF Moves, Places, RWait, WWait, One
<1>2. CASE Lock!pthread_rwlock_rdlock(t)
  BY <1>2, EnterLeft, GotoMoves
     DEF Lock!pthread_rwlock_rdlock, Lock!MayRead, TakesR, Keeps, Lock!waiters
<1>3. CASE Lock!pthread_rwlock_tryrdlock(t)
  <2>1. CASE Lock!MayRead(rw_nwaitwriters)
    BY <1>3, <2>1, EnterLeft, GotoMoves
       DEF Lock!pthread_rwlock_tryrdlock, Lock!MayRead, TakesR, Lock!waiters
  <2>2. CASE ~Lock!MayRead(rw_nwaitwriters)
    BY <1>3, <2>2, EnterLeft
       DEF Lock!pthread_rwlock_tryrdlock, Keeps, Lock!waiters, OnlyMoves, Lock!TypeOK
  <2> QED
    BY <2>1, <2>2, ZenonT(40)
<1>4. CASE Lock!pthread_rwlock_wrlock(t)
  BY <1>4, EnterLeft, GotoMoves DEF Lock!pthread_rwlock_wrlock, TakesW, Keeps, Lock!waiters
<1>5. CASE Lock!pthread_rwlock_trywrlock(t)
  <2>1. CASE rw_refcount = 0
    BY <1>5, <2>1, EnterLeft, GotoMoves DEF Lock!pthread_rwlock_trywrlock, TakesW, Lock!waiters
  <2>2. CASE rw_refcount # 0
    BY <1>5, <2>2, EnterLeft
       DEF Lock!pthread_rwlock_trywrlock, Keeps, Lock!waiters, OnlyMoves, Lock!TypeOK
  <2> QED
    BY <2>1, <2>2, Zenon
<1>6. CASE Lock!rdlock_repeat(t)
  BY <1>6, GotoMoves DEF Lock!rdlock_repeat, Lock!MayRead, TakesR, Keeps
<1>7. CASE Lock!wrlock_repeat(t)
  BY <1>7, GotoMoves DEF Lock!wrlock_repeat, TakesW, Keeps
<1>8. CASE Lock!pthread_rwlock_unlock(t)
  <2> DEFINE p == [at_lock EXCEPT ![t] = "out"]
  <2>1. Lock!Signal(p) \/ Lock!Broadcast(p) \/ at_lock' = p
    BY <1>8, Zenon DEF Lock!pthread_rwlock_unlock
  <2>2. /\ OnlyMoves(t) /\ at_lock'[t] = "out"
        /\ at_lock' \in [LockThreads -> Places]
    BY <2>1, WakingMoves, ZenonT(40)
  <2> QED
    BY <1>8, <2>2 DEF Lock!pthread_rwlock_unlock, Releases, Lock!waiters
<1>9. CASE Lock!cancelwait(t)
  BY <1>9, GotoMoves DEF Lock!cancelwait, Keeps
<1>10. CASE Lock!spurious(t)
  BY <1>10, GotoMoves DEF Lock!spurious, Keeps, Lock!waiters
<1> QED
  BY <1>2, <1>3, <1>4, <1>5, <1>6, <1>7, <1>8, <1>9, <1>10, ZenonT(40) DEF Lock!Ask, Lock!Proceed

\* Every step keeps the counters and is one of the abstract lock, or none.
LEMMA LockStepKeeps ==
  ASSUME Agree, [Lock!Next]_(Lock!vars)
  PROVE  Agree' /\ [Lock!Lock!Next]_<<Lock!readers, Lock!writers>>
<1>1. CASE Lock!Next
  BY <1>1, ActionsMove, MovesKeepCounters, Zenon DEF Lock!Next
<1>2. CASE UNCHANGED Lock!vars
  BY <1>2, Zenon
     DEF Lock!vars, Lock!waiters, Agree, Lock!TypeOK, Lock!readers, Lock!writers, Lock!At
<1> QED
  BY <1>1, <1>2, Zenon

\* At the start nobody holds the lock or waits.
LEMMA LockStarts ==
  ASSUME Lock!Init
  PROVE  Agree /\ Lock!Lock!Init
<1>1. Lock!TypeOK
  BY LockAssumption DEF Lock!Init, Lock!TypeOK
<1>2. \A S \in Classes : Lock!At(S) = {}
  BY Zenon DEF Lock!Init, Lock!At, Classes, RWait, WWait
<1>3. Lock!readers = {} /\ Lock!writers = {} /\ Lock!At(RWait) = {} /\ Lock!At(WWait) = {}
  BY <1>2, Zenon DEF Classes, Lock!readers, Lock!writers
<1> QED
  BY <1>1, <1>3, FS_EmptySet DEF Lock!Init, Agree, Lock!Lock!Init

\* A step of the whole is one of the lock, or leaves the lock alone.
LEMMA LockSteps ==
  ASSUME [MCNext]_all
  PROVE  [Lock!Next]_(Lock!vars)
BY Zenon DEF MCNext, all, LockOnly, PipeOnly, SemOnly, lockvars, Lock!vars, Lock!waiters

\* So they agree in every state.
LEMMA Agreed == MCSpec => []Agree
<1>1. MCInit => Agree
  BY LockStarts, Zenon DEF MCInit
<1>2. Agree /\ [MCNext]_all => Agree'
  BY LockSteps, LockStepKeeps, Zenon
<1> QED
  BY <1>1, <1>2, PTL DEF MCSpec

\* rw_refcount is -1 while one writer has the lock and otherwise the number of
\* readers, and the two other counters are those of the threads that wait in
\* pthread_rwlock_rdlock and wrlock, cancelled ones not counted.
THEOREM CountersRight == MCSpec => []Lock!CountersAgree
BY Agreed, SameCounters, PTL

\* Both libraries implement the abstract lock: any number of readers or one
\* writer, whatever wakeups come and whoever is cancelled.
THEOREM LockExcludes == MCSpec => Exclusive
<1>1. MCInit => Lock!Lock!Init
  BY LockStarts, Zenon DEF MCInit
<1>2. Agree /\ [MCNext]_all => [Lock!Lock!Next]_<<Lock!readers, Lock!writers>>
  BY LockSteps, LockStepKeeps, Zenon
<1> QED
  BY <1>1, <1>2, Agreed, PTL DEF MCSpec, Exclusive, Lock!Exclusive, Lock!Lock!Spec
==============================================================================
