---------------------------- MODULE BlockDevProofs ----------------------------
(***************************************************************************)
(* Proofs about the request list of a block device, for any number of      *)
(* buffers and requests, any length of the partition and any number of     *)
(* tries: the array, the list, the locks and the driver agree, and a       *)
(* buffer is up to date only when all of it was transferred.               *)
(***************************************************************************)
EXTENDS BlockDev, FiniteSetTheorems, WellFoundedInduction, TLAPS

\* A set of numbers has a smallest one, which Min finds.
LEMMA MinOfSet ==
  ASSUME NEW T, T \subseteq Nat, T # {}
  PROVE  Min(T) \in T /\ \A y \in T : Min(T) <= y
<1> DEFINE R == {ss \in Nat \X Nat : ss[1] < ss[2]}
<1>1. IsWellFoundedOn(R, Nat)
  BY NatLessThanWellFounded, Zenon DEF OpToRel
<1>2. \A x, y \in Nat : ~(<<y, x>> \in R) => x <= y
  OBVIOUS
<1> HIDE DEF R
<1>3. \E x \in T : \A y \in T : ~(<<y, x>> \in R)
  BY <1>1, WFMin, Zenon
<1>4. \E x \in T : \A y \in T : x <= y
  BY <1>2, <1>3, Zenon
<1> QED
  BY <1>4, Zenon DEF Min

\* A set of requests has a largest one, which Max finds.
LEMMA MaxOfRequests ==
  ASSUME NEW T, T \subseteq Requests, T # {}
  PROVE  Max(T) \in T
<1> DEFINE D == {NR_REQUEST - x : x \in T}
<1>1. D \subseteq Nat /\ D # {}
  <2>1. \A x \in T : NR_REQUEST - x \in Nat
    BY BlockDevAssumption DEF Requests
  <2> QED
    BY <2>1, Zenon
<1>2. PICK x \in T : Min(D) = NR_REQUEST - x
  BY <1>1, MinOfSet, Zenon
<1>3. \A y \in T : Min(D) <= NR_REQUEST - y
  BY <1>1, MinOfSet, Zenon
<1>4. \A y \in T : x >= y
  BY <1>2, <1>3, BlockDevAssumption DEF Requests
<1> QED
  BY <1>4, Zenon DEF Max

------------------------------------------------------------------------------
\* The lists of requests.
Once(q) == \A m, n \in DOMAIN q : q[m] = q[n] => m = n

\* What do_hd_request leaves of a list is a list of some of its requests.
LEMMA RestOfList ==
  ASSUME NEW q \in Seq(Requests), Once(q), NEW req
  PROVE  /\ Rest(q, req) \in Seq(Requests) /\ Once(Rest(q, req))
         /\ Range(Rest(q, req)) \subseteq Range(q)
<1> DEFINE good == {n \in DOMAIN q : ~Beyond(req[q[n]])}
           k == Min(good)
           rest == SubSeq(q, k, Len(q))
<1>1. CASE good = {}
  <2>1. Rest(q, req) = <<>>
    BY <1>1, Zenon DEF Rest
  <2> QED
    BY <2>1 DEF Once, Range
<1>2. CASE good # {}
  <2>1. Rest(q, req) = rest
    BY <1>2, Zenon DEF Rest
  <2>2. k \in 1 .. Len(q)
    <3>1. good \subseteq 1 .. Len(q)
      OBVIOUS
    <3>2. good \subseteq Nat
      BY <3>1
    <3> HIDE DEF good
    <3> QED
      BY <1>2, <3>1, <3>2, MinOfSet, Zenon
  <2> HIDE DEF k
  <2>3. \A i \in k .. Len(q) : q[i] \in Requests
    BY <2>2
  <2>4. /\ rest \in Seq(Requests) /\ Len(rest) = Len(q) - k + 1
        /\ \A i \in 1 .. Len(q) - k + 1 : rest[i] = q[k + i - 1]
    BY <2>2, <2>3
  <2> HIDE DEF rest
  <2>5. DOMAIN rest = 1 .. Len(q) - k + 1 /\ DOMAIN q = 1 .. Len(q) /\ Len(q) \in Nat
    BY <2>4
  <2>6. \A i \in DOMAIN rest : k + i - 1 \in DOMAIN q /\ rest[i] = q[k + i - 1]
    BY <2>2, <2>4, <2>5
  <2>7. Once(rest)
    <3> SUFFICES ASSUME NEW m \in DOMAIN rest, NEW n \in DOMAIN rest, rest[m] = rest[n] PROVE m = n
      BY Zenon DEF Once
    <3>1. k + m - 1 = k + n - 1
      BY <2>6, Zenon DEF Once
    <3> QED
      BY <3>1, <2>2, <2>5
  <2>8. Range(rest) \subseteq Range(q)
    BY <2>6, Zenon DEF Range
  <2> QED
    BY <2>1, <2>4, <2>7, <2>8, Zenon
<1> QED
  BY <1>1, <1>2, Zenon

\* add_request links one more request into the list.
LEMMA InsertedList ==
  ASSUME NEW q \in Seq(Requests), Once(q), NEW s \in Requests, s \notin Range(q),
         NEW i \in 1 .. Len(q) + 1
  PROVE  /\ Linked(q, i, s) \in Seq(Requests) /\ Once(Linked(q, i, s))
         /\ Linked(q, i, s) # <<>>
         /\ Range(Linked(q, i, s)) = Range(q) \cup {s}
<1> DEFINE a == SubSeq(q, 1, i - 1)
           b == SubSeq(q, i, Len(q))
           c == a \o <<s>>
           t == c \o b
<1>1. t = Linked(q, i, s)
  BY Zenon DEF Linked
<1>2. Len(q) \in Nat /\ DOMAIN q = 1 .. Len(q) /\ \A j \in 1 .. Len(q) : q[j] \in Requests
  OBVIOUS
<1>3. /\ a \in Seq(Requests) /\ Len(a) = i - 1
      /\ \A j \in 1 .. i - 1 : a[j] = q[j]
  BY <1>2
<1>4. /\ b \in Seq(Requests) /\ Len(b) = Len(q) - i + 1
      /\ \A j \in 1 .. Len(q) - i + 1 : b[j] = q[i + j - 1]
  BY <1>2
<1> HIDE DEF a, b
<1>5. /\ c \in Seq(Requests) /\ Len(c) = i
      /\ \A j \in 1 .. i : c[j] = IF j = i THEN s ELSE q[j]
  <2>1. <<s>> \in Seq(Requests) /\ Len(<<s>>) = 1 /\ <<s>>[1] = s
    OBVIOUS
  <2> QED
    BY <1>3, <2>1
<1> HIDE DEF c
<1>6. /\ t \in Seq(Requests) /\ Len(t) = Len(q) + 1
      /\ \A j \in 1 .. Len(q) + 1 : t[j] = IF j < i THEN q[j] ELSE IF j = i THEN s ELSE q[j - 1]
  <2>1. /\ t \in Seq(Requests) /\ Len(t) = Len(c) + Len(b)
        /\ \A j \in 1 .. Len(c) + Len(b) : t[j] = IF j <= Len(c) THEN c[j] ELSE b[j - Len(c)]
    <3>1. c \in Seq(Requests) /\ b \in Seq(Requests)
      BY <1>4, <1>5, Zenon
    <3> QED
      BY <3>1
  <2> HIDE DEF t
  <2>2. Len(t) = Len(q) + 1
    BY <2>1, <1>2, <1>4, <1>5
  <2>3. ASSUME NEW j \in 1 .. Len(q) + 1
        PROVE  t[j] = IF j < i THEN q[j] ELSE IF j = i THEN s ELSE q[j - 1]
    <3>1. CASE j <= i
      BY <3>1, <2>1, <1>2, <1>4, <1>5
    <3>2. CASE j > i
      <4>1. j - i \in 1 .. Len(q) - i + 1 /\ i + (j - i) - 1 = j - 1
        BY <3>2, <1>2
      <4>2. b[j - i] = q[i + (j - i) - 1]
        BY <4>1, <1>4, Zenon
      <4>3. t[j] = b[j - i]
        BY <3>2, <2>1, <1>2, <1>4, <1>5
      <4> QED
        BY <3>2, <4>1, <4>2, <4>3
    <3> QED
      BY <3>1, <3>2
  <2> QED
    BY <2>1, <2>2, <2>3, Zenon
<1> HIDE DEF t
<1>7. DOMAIN t = 1 .. Len(q) + 1
  BY <1>6
<1>8. Once(t)
  <2> SUFFICES ASSUME NEW m \in DOMAIN t, NEW n \in DOMAIN t, t[m] = t[n] PROVE m = n
    BY Zenon DEF Once
  <2>1. \A j \in 1 .. Len(q) : q[j] # s
    BY <1>2, Zenon DEF Range
  <2>2. m \in 1 .. Len(q) + 1 /\ n \in 1 .. Len(q) + 1
    BY <1>7, Zenon
  <2>3. \A j, l \in 1 .. Len(q) : q[j] = q[l] => j = l
    BY <1>2, Zenon DEF Once
  <2>4. \A j \in 1 .. Len(q) + 1 : j # i =>
            /\ (IF j < i THEN j ELSE j - 1) \in 1 .. Len(q)
            /\ t[j] = q[IF j < i THEN j ELSE j - 1]
    BY <1>2, <1>6
  <2>5. m = i <=> n = i
    BY <2>1, <2>2, <2>4, <1>2, <1>6
  <2>6. CASE m # i /\ n # i
    <3>1. (IF m < i THEN m ELSE m - 1) = (IF n < i THEN n ELSE n - 1)
      BY <2>2, <2>3, <2>4, <2>6
    <3> QED
      BY <3>1, <2>2, <2>6, <1>2
  <2> QED
    BY <2>5, <2>6, Zenon
<1>9. Range(t) = Range(q) \cup {s}
  <2>1. \A j \in DOMAIN t : t[j] \in Range(q) \cup {s}
    <3>1. \A j \in 1 .. Len(q) + 1 : j # i => (IF j < i THEN j ELSE j - 1) \in DOMAIN q
      BY <1>2
    <3>2. \A j \in 1 .. Len(q) + 1 : j # i => t[j] = q[IF j < i THEN j ELSE j - 1]
      BY <1>6, Zenon
    <3>3. \A j \in 1 .. Len(q) + 1 : j = i => t[j] = s
      BY <1>6
    <3> QED
      BY <3>1, <3>2, <3>3, <1>7, Zenon DEF Range
  <2>2. \A j \in DOMAIN q : \E l \in DOMAIN t : t[l] = q[j]
    <3> SUFFICES ASSUME NEW j \in 1 .. Len(q) PROVE \E l \in 1 .. Len(q) + 1 : t[l] = q[j]
      BY <1>2, <1>7, Zenon
    <3>1. CASE j < i
      BY <3>1, <1>2, <1>6
    <3>2. CASE ~(j < i)
      <4>1. j + 1 \in 1 .. Len(q) + 1 /\ t[j + 1] = q[j]
        BY <3>2, <1>2, <1>6
      <4> QED
        BY <4>1, Zenon
    <3> QED
      BY <3>1, <3>2, Zenon
  <2>3. i \in DOMAIN t /\ t[i] = s
    BY <1>2, <1>6, <1>7
  <2> QED
    BY <2>1, <2>2, <2>3, Zenon DEF Range
<1>10. t # <<>>
  BY <1>6
<1> QED
  BY <1>1, <1>6, <1>8, <1>9, <1>10, Zenon

\* A list that has no request twice fits the array.
LEMMA ListFits ==
  ASSUME NEW q \in Seq(Requests), Once(q)
  PROVE  Len(q) <= NR_REQUEST
<1>1. IsFiniteSet(Requests) /\ Cardinality(Requests) = NR_REQUEST
  BY BlockDevAssumption, FS_Interval DEF Requests
<1>2. q \in [1 .. Len(q) -> Requests] /\ Len(q) \in Nat
  OBVIOUS
<1>3. IsFiniteSet(1 .. Len(q)) /\ Cardinality(1 .. Len(q)) = Len(q)
  <2> DEFINE n == Len(q)
  <2>1. n \in Nat
    BY <1>2, Zenon
  <2> HIDE DEF n
  <2>2. IsFiniteSet(1 .. n) /\ Cardinality(1 .. n) = n
    BY <2>1, FS_Interval
  <2> QED
    BY <2>2, Zenon DEF n
<1> SUFFICES ASSUME Len(q) > NR_REQUEST PROVE FALSE
  BY <1>2, BlockDevAssumption
<1>4. \E x, y \in 1 .. Len(q) : x # y /\ q[x] = q[y]
  BY <1>1, <1>2, <1>3, FS_PigeonHole, Zenon
<1> QED
  BY <1>2, <1>4, Zenon DEF Once

------------------------------------------------------------------------------
\* The requests in use, and what make_request puts into one.
ReqType == [cmd : {"NONE", "READ", "WRITE"}, bh : Buffers \cup {0},
            errors : 0 .. MAX_ERRORS - 1, nr_sectors : 0 .. 2]

Used(req) == {s \in Requests : req[s] # NoRequest}

Valid(r) == r \in [cmd : {"READ", "WRITE"}, bh : Buffers,
                   errors : 0 .. MAX_ERRORS - 1, nr_sectors : 1 .. 2]

\* Requests in use are complete, and for different buffers.
Complete(req) == \A s \in Used(req) : Valid(req[s])
Apart(req)    == \A s, u \in Used(req) : req[s].bh = req[u].bh => s = u

\* The tasks that made them are through with make_request.
Made(req, at) == \A s \in Used(req) : at[req[s].bh] = "out"

\* A locked buffer has a request or a task that looks for one.
LockedFor(locked, at, req) ==
    \A b \in Buffers : locked[b] <=> (at[b] # "out" \/ \E s \in Used(req) : req[s].bh = b)

\* The sectors transferred for a request are those it no longer asks for.
Left(S, req, mv) == \A s \in S : mv[req[s].bh] + req[s].nr_sectors = 2

\* For a buffer that waits for a request nothing is transferred.
Fresh(at, mv) == \A b \in Buffers : at[b] # "out" => mv[b] = 0

Whole(locked, uptodate, mv) == \A b \in Buffers : ~locked[b] /\ uptodate[b] => mv[b] = 2

\* The inductive invariant.  To RequestsSound it adds that a request in use is
\* complete and that the sectors already transferred for its buffer are those it
\* no longer asks for; a task still looking for a request has none transferred.
BlockInv ==
    /\ TypeOK
    /\ Range(queue) = Used(request) /\ Once(queue)
    /\ Complete(request) /\ Apart(request) /\ Made(request, pc)
    /\ (do_hd # "none") <=> (queue # <<>>)
    /\ LockedFor(b_lock, pc, request)
    /\ Left(Used(request), request, moved)
    /\ Fresh(pc, moved)
    /\ Whole(b_lock, b_uptodate, moved)

\* The types without the flags.
TypeBut ==
    /\ request \in [Requests -> ReqType]
    /\ queue \in Seq(Requests) /\ Len(queue) <= NR_REQUEST
    /\ pc \in [Buffers -> {"out", "find", "full", "asleep"}]
    /\ rw \in [Buffers -> {"READ", "WRITE"}]
    /\ moved \in [Buffers -> 0 .. 2]
    /\ do_hd \in {"none", "READ", "WRITE", "recal"}

Flags ==
    /\ b_lock \in [Buffers -> BOOLEAN] /\ b_uptodate \in [Buffers -> BOOLEAN]
    /\ reset \in BOOLEAN /\ recalibrate \in BOOLEAN

\* The flags are boolean and have steps of their own below.
LEMMA TypeSplit == TypeOK <=> TypeBut /\ Flags
BY Zenon DEF TypeOK, TypeBut, Flags, ReqType

\* What holds when do_hd_request is called: the list q and the requests just ended
\* are those in use, complete, and locked for; what was transferred fits.
HdReady(q, req, locked, ended, uptodate, rst) ==
    /\ TypeOK
    /\ q \in Seq(Requests) /\ Once(q) /\ req \in [Requests -> ReqType]
    /\ locked \in [Buffers -> BOOLEAN] /\ ended \in SUBSET Requests
    /\ uptodate \in BOOLEAN /\ rst \in BOOLEAN
    /\ moved' \in [Buffers -> 0 .. 2] /\ rw' \in [Buffers -> {"READ", "WRITE"}]
    /\ Range(q) \cup ended = Used(req) /\ Range(q) \cap ended = {}
    /\ Complete(req) /\ Apart(req)
    /\ \A s \in Used(req) : pc[req[s].bh] # "asleep"
    /\ LockedFor(locked, pc, req)
    /\ Left(Range(q), req, moved')
    /\ uptodate => \A s \in ended : moved'[req[s].bh] = 2
    /\ \A b \in Buffers : pc[b] # "out" /\ (\A s \in Used(req) : req[s].bh # b) => moved'[b] = 0
    /\ Whole(locked, b_uptodate, moved')

\* do_hd_request restores the invariant: what it ends leaves the list, the array
\* and the locked buffers together.
LEMMA HdRequestStep ==
  ASSUME NEW q, NEW req, NEW locked, NEW ended, NEW uptodate, NEW rst,
         HdReady(q, req, locked, ended, uptodate, rst),
         do_hd_request(q, req, locked, ended, uptodate, rst)
  PROVE  BlockInv'
<1>a. /\ TypeBut /\ Flags
      /\ q \in Seq(Requests) /\ Once(q) /\ req \in [Requests -> ReqType]
      /\ locked \in [Buffers -> BOOLEAN] /\ uptodate \in BOOLEAN /\ rst \in BOOLEAN
      /\ moved' \in [Buffers -> 0 .. 2] /\ rw' \in [Buffers -> {"READ", "WRITE"}]
  BY TypeSplit, Zenon DEF HdReady
<1>b. /\ ended \subseteq Requests
      /\ Range(q) \cup ended = Used(req) /\ Range(q) \cap ended = {}
  BY Zenon DEF HdReady
<1>c. /\ Complete(req) /\ Apart(req) /\ LockedFor(locked, pc, req)
      /\ Left(Range(q), req, moved') /\ Whole(locked, b_uptodate, moved')
  BY Zenon DEF HdReady
<1> DEFINE rest == Rest(q, req)
           bad  == Range(q) \ Range(rest)
           over == {req[s].bh : s \in ended \cup bad}
<1>1. rest \in Seq(Requests) /\ Once(rest) /\ Range(rest) \subseteq Range(q) /\ Range(rest) \subseteq Requests
  <2>1. rest \in Seq(Requests) /\ Once(rest) /\ Range(rest) \subseteq Range(q)
    BY <1>a, RestOfList, Zenon
  <2> HIDE DEF rest
  <2>2. \A n \in DOMAIN rest : rest[n] \in Requests
    BY <2>1
  <2> QED
    BY <2>1, <2>2, Zenon DEF Range
<1>2. /\ queue' = rest
      /\ request' = [s \in Requests |-> IF s \in ended \cup bad THEN NoRequest ELSE req[s]]
      /\ b_lock' = [b \in Buffers |-> locked[b] /\ b \notin over]
      /\ b_uptodate' = [b \in Buffers |-> IF b \in over
                                          THEN uptodate /\ \E s \in ended : req[s].bh = b
                                          ELSE b_uptodate[b]]
      /\ pc' = [b \in Buffers |-> IF pc[b] = "asleep" /\ over # {} THEN "find"
                                  ELSE IF \E s \in Range(q) \cup ended : req[s].bh = b THEN "out"
                                  ELSE pc[b]]
  BY Zenon DEF do_hd_request
<1>3. /\ rest = <<>> => do_hd' = "none"
      /\ rest # <<>> => do_hd' = IF rst \/ recalibrate THEN "recal" ELSE req[Head(rest)].cmd
  BY Zenon DEF do_hd_request
<1>4. reset' \in BOOLEAN /\ recalibrate' \in BOOLEAN
  <2>1. CASE rest = <<>>
    BY <2>1, <1>a, Zenon DEF do_hd_request, Flags
  <2>2. CASE rest # <<>>
    BY <2>2, <1>a, Zenon DEF do_hd_request
  <2> QED
    BY <2>1, <2>2, Zenon
<1> HIDE DEF rest
<1>5. Used(request') = Range(rest) /\ \A s \in Range(rest) : request'[s] = req[s]
  BY <1>1, <1>2, <1>b, Zenon DEF Used
<1>6. over \subseteq Buffers /\ \A s \in Range(rest) : req[s].bh \in Buffers /\ req[s].bh \notin over
  BY <1>1, <1>b, <1>c DEF Complete, Apart, Valid
<1>7. \A b \in Buffers : b \in over <=> \E s \in Used(req) \ Range(rest) : req[s].bh = b
  BY <1>1, <1>b, Zenon
<1>8. \A b \in Buffers : pc'[b] = IF pc[b] = "asleep" /\ over # {} THEN "find"
                                 ELSE IF \E s \in Used(req) : req[s].bh = b THEN "out"
                                 ELSE pc[b]
  BY <1>2, <1>b, Zenon
<1> HIDE DEF over, bad
<1>9. Flags'
  <2>1. b_lock' \in [Buffers -> BOOLEAN]
    BY <1>2, <1>a, Zenon
  <2>2. b_uptodate' \in [Buffers -> BOOLEAN]
    BY <1>2, <1>a, Zenon DEF Flags
  <2> QED
    BY <2>1, <2>2, <1>4, Zenon DEF Flags
<1>10. do_hd' \in {"none", "READ", "WRITE", "recal"} /\ (do_hd' # "none" <=> rest # <<>>)
  <2>1. CASE rest # <<>>
    <3>1. Head(rest) \in Range(rest)
      BY <1>1, <2>1 DEF Range
    <3>2. req[Head(rest)].cmd \in {"READ", "WRITE"}
      BY <1>1, <3>1, <1>b, <1>c, Zenon DEF Complete, Valid
    <3> QED
      BY <1>3, <2>1, <3>2, Zenon
  <2> QED
    BY <1>3, <2>1, Zenon
<1>11. TypeBut'
  <2>1. NoRequest \in ReqType
    BY BlockDevAssumption DEF NoRequest, ReqType
  <2>2. request' \in [Requests -> ReqType]
    BY <1>2, <1>a, <2>1, Zenon
  <2>3. pc' \in [Buffers -> {"out", "find", "full", "asleep"}]
    BY <1>2, <1>a, Zenon DEF TypeBut
  <2>4. Len(rest) <= NR_REQUEST
    BY <1>1, ListFits, Zenon
  <2> QED
    BY <1>a, <1>1, <1>2, <1>10, <2>2, <2>3, <2>4, Zenon DEF TypeBut
<1>12. TypeOK'
  BY <1>9, <1>11, TypeSplit, PTL
<1>13. Made(request', pc')
  <2> SUFFICES ASSUME NEW s \in Range(rest) PROVE pc'[req[s].bh] = "out"
    BY <1>5, Zenon DEF Made
  <2>1. s \in Used(req) /\ req[s].bh \in Buffers /\ pc[req[s].bh] # "asleep"
    BY <1>1, <1>6, <1>b, Zenon DEF HdReady
  <2> QED
    BY <2>1, <1>8, Zenon
<1>14. LockedFor(b_lock', pc', request')
  <2>a. \A b \in Buffers : b_lock'[b] <=> (locked[b] /\ b \notin over)
    BY <1>2, Zenon
  <2>b. \A b \in Buffers : (\E s \in Used(request') : request'[s].bh = b)
                            <=> (\E s \in Range(rest) : req[s].bh = b)
    BY <1>5, Zenon
  <2> SUFFICES ASSUME NEW b \in Buffers
               PROVE  (locked[b] /\ b \notin over)
                         <=> (pc'[b] # "out" \/ \E s \in Range(rest) : req[s].bh = b)
    BY <2>a, <2>b, Zenon DEF LockedFor
  <2>1. locked[b] <=> (pc[b] # "out" \/ \E s \in Used(req) : req[s].bh = b)
    BY <1>c, Zenon DEF LockedFor
  <2>2. CASE \E s \in Range(rest) : req[s].bh = b
    BY <2>1, <2>2, <1>1, <1>6, <1>b, Zenon
  <2>3. CASE b \in over
    <3>1. PICK s \in Used(req) : req[s].bh = b
      BY <2>3, <1>7, Zenon
    <3>2. pc'[b] = "out"
      BY <3>1, <1>8, Zenon DEF HdReady
    <3>3. ~\E u \in Range(rest) : req[u].bh = b
      BY <2>3, <1>6, Zenon
    <3> QED
      BY <2>3, <3>2, <3>3, Zenon
  <2>4. CASE b \notin over /\ ~\E s \in Range(rest) : req[s].bh = b
    <3>1. ~\E s \in Used(req) : req[s].bh = b
      BY <2>4, <1>7, Zenon
    <3>2. pc'[b] # "out" <=> pc[b] # "out"
      BY <3>1, <1>8, Zenon
    <3> QED
      BY <2>1, <2>4, <3>1, <3>2, Zenon
  <2> QED
    BY <2>2, <2>3, <2>4, Zenon
<1>15. Left(Used(request'), request', moved')
  BY <1>1, <1>5, <1>c, Zenon DEF Left
<1>16. Fresh(pc', moved')
  <2> SUFFICES ASSUME NEW b \in Buffers, pc'[b] # "out" PROVE moved'[b] = 0
    BY Zenon DEF Fresh
  <2>1. pc[b] # "out" /\ \A s \in Used(req) : req[s].bh # b
    BY <1>8 DEF HdReady
  <2> QED
    BY <2>1, Zenon DEF HdReady
<1>17. Whole(b_lock', b_uptodate', moved')
  <2> SUFFICES ASSUME NEW b \in Buffers, ~b_lock'[b], b_uptodate'[b] PROVE moved'[b] = 2
    BY Zenon DEF Whole
  <2>1. CASE b \in over
    <3>1. uptodate /\ \E s \in ended : req[s].bh = b
      BY <2>1, <1>2, Zenon
    <3> QED
      BY <3>1, Zenon DEF HdReady
  <2>2. CASE b \notin over
    <3>1. ~locked[b] /\ b_uptodate[b]
      BY <2>2, <1>2, Zenon
    <3> QED
      BY <3>1, <1>c, Zenon DEF Whole
  <2> QED
    BY <2>1, <2>2, Zenon
<1>18. Complete(request') /\ Apart(request')
  <2>1. \A s \in Used(request') : s \in Used(req) /\ request'[s] = req[s]
    BY <1>1, <1>5, <1>b, Zenon
  <2> QED
    BY <2>1, <1>c, Zenon DEF Complete, Apart
<1>19. /\ Range(queue') = Used(request') /\ Once(queue')
       /\ (do_hd' # "none") <=> (queue' # <<>>)
  BY <1>1, <1>2, <1>5, <1>10, Zenon
<1> QED
  BY <1>12, <1>13, <1>14, <1>15, <1>16, <1>17, <1>18, <1>19, Zenon DEF BlockInv

\* The first request of a list, and the list after it.
LEMMA FirstOfList ==
  ASSUME NEW q \in Seq(Requests), Once(q), q # <<>>
  PROVE  /\ Head(q) \in Range(q) /\ Head(q) \in Requests
         /\ Tail(q) \in Seq(Requests) /\ Once(Tail(q))
         /\ Range(Tail(q)) \cup {Head(q)} = Range(q) /\ Head(q) \notin Range(Tail(q))
<1>1. /\ Head(q) = q[1] /\ Len(q) \in Nat /\ Len(q) >= 1 /\ DOMAIN q = 1 .. Len(q)
      /\ Head(q) \in Requests /\ Tail(q) \in Seq(Requests)
      /\ DOMAIN Tail(q) = 1 .. Len(q) - 1
      /\ \A n \in 1 .. Len(q) - 1 : Tail(q)[n] = q[n + 1]
  OBVIOUS
<1> DEFINE t == Tail(q)
<1> HIDE DEF t
<1>2. \A n \in DOMAIN t : n + 1 \in DOMAIN q /\ n + 1 # 1 /\ t[n] = q[n + 1]
  BY <1>1 DEF t
<1>3. \A n \in DOMAIN q : n = 1 \/ (n - 1 \in DOMAIN t /\ t[n - 1] = q[n])
  BY <1>1 DEF t
<1>4. Once(t)
  <2> SUFFICES ASSUME NEW m \in DOMAIN t, NEW n \in DOMAIN t, t[m] = t[n] PROVE m = n
    BY Zenon DEF Once
  <2>1. m + 1 = n + 1
    BY <1>2, Zenon DEF Once
  <2> QED
    BY <2>1, <1>1 DEF t
<1>5. Head(q) \notin Range(t)
  BY <1>1, <1>2 DEF Once, Range
<1>6. Range(t) \subseteq Range(q) /\ Head(q) \in Range(q)
  BY <1>1, <1>2 DEF Range
<1>7. Range(q) \subseteq Range(t) \cup {Head(q)}
  BY <1>1, <1>3 DEF Range
<1> QED
  BY <1>1, <1>4, <1>5, <1>6, <1>7, Zenon DEF t

\* add_request finds a place in a list that is not empty.
LEMMA PlaceInList ==
  ASSUME NEW q \in Seq(Requests), q # <<>>, NEW req, NEW s
  PROVE  Place(q, req, s) \in 1 .. Len(q)
<1> DEFINE T == {n \in DOMAIN q :
                    \/ n = Len(q)
                    \/ /\ IN_ORDER(req[q[n]], req[s]) \/ ~IN_ORDER(req[q[n]], req[q[n + 1]])
                       /\ IN_ORDER(req[s], req[q[n + 1]])}
<1>1. Len(q) \in Nat /\ Len(q) >= 1 /\ DOMAIN q = 1 .. Len(q)
  OBVIOUS
<1>2. Len(q) \in T /\ T \subseteq 1 .. Len(q)
  BY <1>1
<1>3. Place(q, req, s) = Min(T)
  BY Zenon DEF Place
<1> HIDE DEF T
<1>4. T \subseteq Nat /\ T # {}
  BY <1>1, <1>2
<1> QED
  BY <1>2, <1>3, <1>4, MinOfSet, Zenon

------------------------------------------------------------------------------
\* The part of make_request after the label repeat: the new request, at its place
\* in the list or started at once, keeps the invariant.
LEMMA EnqueueStep ==
  ASSUME BlockInv,
         NEW b \in Buffers, NEW cmd \in {"READ", "WRITE"},
         NEW locked \in [Buffers -> BOOLEAN],
         \A c \in Buffers : locked[c] <=> (b_lock[c] \/ c = b),
         pc[b] \in {"out", "find"},
         \A s \in Used(request) : request[s].bh # b,
         moved' \in [Buffers -> 0 .. 2], rw' \in [Buffers -> {"READ", "WRITE"}],
         moved'[b] = 0, \A c \in Buffers : c # b => moved'[c] = moved[c],
         FreeFor(cmd) # {}, Enqueue(b, cmd, locked)
  PROVE  BlockInv'
<1> DEFINE s   == Max(FreeFor(cmd))
           new == [cmd |-> cmd, bh |-> b, errors |-> 0, nr_sectors |-> 2]
           req == [request EXCEPT ![s] = new]
<1>1. s \in Requests /\ request[s] = NoRequest
  <2>1. FreeFor(cmd) \subseteq Requests
    BY BlockDevAssumption DEF FreeFor, Room, Requests
  <2>2. s \in FreeFor(cmd)
    BY <2>1, MaxOfRequests, Zenon
  <2> QED
    BY <2>1, <2>2, Zenon DEF FreeFor
<1>2. /\ queue = <<>> => do_hd_request(<<s>>, req, locked, {}, FALSE, reset)
      /\ queue # <<>> => /\ queue' = Linked(queue, Place(queue, req, s) + 1, s)
                         /\ request' = req
                         /\ b_lock' = locked
                         /\ pc' = [pc EXCEPT ![b] = "out"]
                         /\ UNCHANGED <<b_uptodate, drive>>
  BY Zenon DEF Enqueue
<1> HIDE DEF s
<1>3. TypeBut /\ Flags
  BY TypeSplit, Zenon DEF BlockInv
<1>a. /\ Range(queue) = Used(request) /\ Once(queue)
      /\ Complete(request) /\ Apart(request) /\ Made(request, pc)
      /\ LockedFor(b_lock, pc, request) /\ Left(Used(request), request, moved)
      /\ Fresh(pc, moved) /\ Whole(b_lock, b_uptodate, moved)
  BY Zenon DEF BlockInv
<1>4. new \in ReqType /\ Valid(new) /\ new # NoRequest
  BY BlockDevAssumption DEF ReqType, Valid, NoRequest
<1>5. /\ req \in [Requests -> ReqType] /\ req[s] = new
      /\ \A u \in Requests : u # s => req[u] = request[u]
  BY <1>1, <1>3, <1>4, Zenon DEF TypeBut
<1>6. new.bh = b /\ new.nr_sectors = 2
  BY Zenon
<1> HIDE DEF new, req
<1>7. Used(req) = Used(request) \cup {s} /\ s \notin Used(request)
  BY <1>1, <1>4, <1>5, Zenon DEF Used
<1>8. \A u \in Used(request) : u \in Requests /\ req[u] = request[u]
  BY <1>1, <1>5, <1>7, Zenon DEF Used
<1>9. Complete(req)
  BY <1>4, <1>5, <1>7, <1>8, <1>a, Zenon DEF Complete
<1>10. Apart(req)
  <2>1. \A u \in Used(request) : req[u].bh # b
    BY <1>8, Zenon
  <2>2. \A t, u \in Used(request) : req[t].bh = req[u].bh => t = u
    BY <1>8, <1>a, Zenon DEF Apart
  <2>3. req[s].bh = b
    BY <1>5, <1>6, Zenon
  <2> QED
    BY <2>1, <2>2, <2>3, <1>7, Zenon DEF Apart
<1>11. Left(Used(req), req, moved')
  <2>1. \A u \in Used(request) : request[u].bh \in Buffers
    BY <1>a, Zenon DEF Complete, Valid
  <2>2. \A u \in Used(request) : moved'[req[u].bh] + req[u].nr_sectors = 2
    BY <1>8, <2>1, <1>a, SMTT(20) DEF Left
  <2> QED
    BY <1>5, <1>6, <1>7, <2>2 DEF Left
<1>12. \A c \in Buffers : /\ (\E u \in Used(req) : req[u].bh = c)
                              <=> (c = b \/ \E u \in Used(request) : request[u].bh = c)
                          /\ c # b => (locked[c] <=> (pc[c] # "out" \/ \E u \in Used(req) : req[u].bh = c))
  <2>1. \A c \in Buffers : (\E u \in Used(req) : req[u].bh = c)
                              <=> (c = b \/ \E u \in Used(request) : request[u].bh = c)
    BY <1>5, <1>6, <1>7, <1>8
  <2> QED
    BY <2>1, <1>a, Zenon DEF LockedFor
<1>13. Whole(locked, b_uptodate, moved')
  BY <1>a, Zenon DEF Whole
<1>14. CASE queue = <<>>
  <2> DEFINE q == <<s>>
             ended == {}
             uptodate == FALSE
  <2>1. q \in Seq(Requests) /\ Once(q) /\ Range(q) = {s}
    BY <1>1 DEF Once, Range
  <2>2. Used(req) = {s}
    <3>1. Range(queue) = {}
      BY <1>14 DEF Range
    <3> QED
      BY <3>1, <1>7, <1>a, Zenon
  <2>3. \A u \in Used(req) : pc[req[u].bh] # "asleep"
    BY <2>2, <1>5, <1>6, Zenon
  <2>4. LockedFor(locked, pc, req)
    BY <1>12, Zenon DEF LockedFor
  <2>5. \A c \in Buffers : pc[c] # "out" /\ (\A u \in Used(req) : req[u].bh # c) => moved'[c] = 0
    BY <1>12, <1>a, Zenon DEF Fresh
  <2>6. TypeOK /\ reset \in BOOLEAN /\ uptodate \in BOOLEAN
    BY <1>3, TypeSplit, Zenon DEF Flags
  <2>7. do_hd_request(q, req, locked, ended, uptodate, reset)
    BY <1>2, <1>14, Zenon
  <2>8. /\ ended \in SUBSET Requests
        /\ Range(q) \cup ended = Used(req) /\ Range(q) \cap ended = {}
        /\ uptodate => \A u \in ended : moved'[req[u].bh] = 2
    BY <2>1, <2>2, Zenon
  <2>9. Left(Range(q), req, moved')
    BY <2>1, <2>2, <1>11, Zenon
  <2> HIDE DEF q, ended, uptodate
  <2>10. HdReady(q, req, locked, ended, uptodate, reset)
    BY <2>1, <2>3, <2>4, <2>5, <2>6, <2>8, <2>9, <1>5, <1>9, <1>10, <1>13, Zenon DEF HdReady
  <2> QED
    BY <2>7, <2>10, HdRequestStep, Zenon
<1>15. CASE queue # <<>>
  <2> DEFINE i == Place(queue, req, s) + 1
             q == Linked(queue, i, s)
  <2>1. queue \in Seq(Requests) /\ Len(queue) \in Nat /\ Once(queue) /\ s \notin Range(queue)
    <3>1. queue \in Seq(Requests)
      BY <1>3, Zenon DEF TypeBut
    <3>2. Len(queue) \in Nat
      BY <3>1
    <3> QED
      BY <3>1, <3>2, <1>7, <1>a, Zenon
  <2>2. i \in 1 .. Len(queue) + 1
    BY <1>15, <2>1, PlaceInList
  <2> HIDE DEF i
  <2>3. /\ q \in Seq(Requests) /\ Once(q) /\ q # <<>>
        /\ Range(q) = Used(req)
    <3>1. /\ q \in Seq(Requests) /\ Once(q) /\ q # <<>>
          /\ Range(q) = Range(queue) \cup {s}
      BY <1>1, <2>1, <2>2, InsertedList, Zenon
    <3> QED
      BY <3>1, <1>7, <1>a, Zenon
  <2>4. /\ queue' = q /\ request' = req /\ b_lock' = locked
        /\ pc' = [pc EXCEPT ![b] = "out"]
        /\ b_uptodate' = b_uptodate /\ do_hd' = do_hd
        /\ reset' = reset /\ recalibrate' = recalibrate
    BY <1>2, <1>15, Zenon DEF drive, i
  <2> HIDE DEF q
  <2>5. TypeBut' /\ Flags'
    <3>1. Flags'
      BY <2>4, <1>3, Zenon DEF Flags
    <3>2. Len(q) <= NR_REQUEST
      BY <2>3, ListFits, Zenon
    <3> QED
      BY <2>3, <2>4, <3>1, <3>2, <1>3, <1>5, Zenon DEF TypeBut
  <2>6. TypeOK'
    BY <2>5, TypeSplit, PTL
  <2>7. \A c \in Buffers : pc'[c] = IF c = b THEN "out" ELSE pc[c]
    BY <2>4, <1>3, Zenon DEF TypeBut
  <2>8. Made(req, pc')
    <3>1. \A u \in Used(request) : req[u].bh \in Buffers /\ pc[req[u].bh] = "out"
      BY <1>8, <1>a, Zenon DEF Made, Complete, Valid
    <3> QED
      BY <2>7, <3>1, <1>5, <1>6, <1>7 DEF Made
  <2>9. LockedFor(b_lock', pc', req)
    BY <2>4, <2>7, <1>12, SMTT(20) DEF LockedFor
  <2>10. Fresh(pc', moved')
    BY <2>7, <1>a, Zenon DEF Fresh
  <2>11. do_hd' # "none" <=> queue' # <<>>
    BY <2>3, <2>4, <1>15, Zenon DEF BlockInv
  <2> QED
    BY <2>3, <2>4, <2>6, <2>8, <2>9, <2>10, <2>11, <1>9, <1>10, <1>11, <1>13, Zenon DEF BlockInv
<1> QED
  BY <1>14, <1>15, Zenon

\* The driver's interrupt: a sector more, a request ended, a retry or a reset.
LEMMA InterruptStep ==
  ASSUME BlockInv, hd_interrupt
  PROVE  BlockInv'
<1> DEFINE s    == Head(queue)
           next == Tail(queue)
<1>1. TypeBut /\ Flags /\ TypeOK
  BY TypeSplit, Zenon DEF BlockInv
<1>2. queue \in Seq(Requests) /\ Once(queue) /\ queue # <<>> /\ Range(queue) = Used(request)
  BY <1>1, Zenon DEF BlockInv, TypeBut, hd_interrupt
<1>3. /\ s \in Used(request) /\ s \in Requests
      /\ next \in Seq(Requests) /\ Once(next)
      /\ Range(next) \cup {s} = Used(request) /\ Range(next) \cap {s} = {}
  BY <1>2, FirstOfList
<1>4. rw' = rw
  BY Zenon DEF hd_interrupt
<1>7. /\ Complete(request) /\ Apart(request) /\ Made(request, pc)
      /\ LockedFor(b_lock, pc, request) /\ Left(Used(request), request, moved)
      /\ Fresh(pc, moved) /\ Whole(b_lock, b_uptodate, moved)
  BY Zenon DEF BlockInv
<1>5. /\ Valid(request[s]) /\ request[s].bh \in Buffers /\ request[s].nr_sectors \in 1 .. 2
      /\ request[s].errors \in 0 .. MAX_ERRORS - 1
      /\ moved[request[s].bh] + request[s].nr_sectors = 2
      /\ \A u \in Used(request) : request[u].bh \in Buffers
  BY <1>3, <1>7, Zenon DEF Complete, Left, Valid
<1>6. /\ request \in [Requests -> ReqType] /\ b_lock \in [Buffers -> BOOLEAN]
      /\ reset \in BOOLEAN /\ moved \in [Buffers -> 0 .. 2] /\ rw' \in [Buffers -> {"READ", "WRITE"}]
  BY <1>1, <1>4, Zenon DEF TypeBut, Flags
<1> HIDE DEF s, next
<1>8. \A u \in Used(request) : pc[request[u].bh] # "asleep"
  BY <1>7, Zenon DEF Made
<1>9. ASSUME moved' = moved, NEW rst \in BOOLEAN
      PROVE  HdReady(next, request, b_lock, {s}, FALSE, rst)
  <2>1. Left(Range(next), request, moved')
    BY <1>3, <1>7, <1>9, Zenon DEF Left
  <2>2. \A b \in Buffers : pc[b] # "out" => moved'[b] = 0
    BY <1>7, <1>9, Zenon DEF Fresh
  <2> QED
    BY <2>1, <2>2, <1>1, <1>3, <1>6, <1>7, <1>8, <1>9, Zenon DEF HdReady
<1>10. CASE do_hd # "recal" /\ Transferred
  <2>1. moved' = [moved EXCEPT ![request[s].bh] = @ + 1]
    BY <1>10, Zenon DEF Transferred, CURRENT, s
  <2>2. /\ moved' \in [Buffers -> 0 .. 2] /\ moved'[request[s].bh] = moved[request[s].bh] + 1
        /\ \A b \in Buffers : b # request[s].bh => moved'[b] = moved[b]
    BY <2>1, <1>5, <1>6
  <2>3. \A u \in Used(request) : u # s => moved'[request[u].bh] + request[u].nr_sectors = 2
    <3> SUFFICES ASSUME NEW u \in Used(request), u # s
                 PROVE  moved'[request[u].bh] + request[u].nr_sectors = 2
      BY Zenon
    <3>1. request[u].bh # request[s].bh /\ request[u].bh \in Buffers
      BY <1>3, <1>5, <1>7, Zenon DEF Apart
    <3> QED
      BY <3>1, <2>2, <1>7, Zenon DEF Left
  <2>4. Fresh(pc, moved')
    <3>1. pc[request[s].bh] = "out"
      BY <1>3, <1>7, Zenon DEF Made
    <3> QED
      BY <3>1, <2>2, <1>7, Zenon DEF Fresh
  <2>5. Whole(b_lock, b_uptodate, moved')
    <3>1. b_lock[request[s].bh]
      BY <1>3, <1>5, <1>7, Zenon DEF LockedFor
    <3> QED
      BY <3>1, <2>2, <1>7, Zenon DEF Whole
  <2>6. CASE request[s].nr_sectors > 1
    <3>1. /\ request' = [request EXCEPT ![s].nr_sectors = @ - 1,
                                       ![s].errors = IF do_hd = "READ" THEN 0 ELSE @]
          /\ queue' = queue /\ b_lock' = b_lock /\ b_uptodate' = b_uptodate /\ pc' = pc
          /\ do_hd' = do_hd /\ reset' = reset /\ recalibrate' = recalibrate
      BY <1>10, <2>6, Zenon DEF Transferred, CURRENT, s, drive
    <3>2. /\ request' \in [Requests -> ReqType] /\ request'[s].bh = request[s].bh
          /\ request'[s].nr_sectors = request[s].nr_sectors - 1
          /\ Valid(request'[s]) /\ request'[s] # NoRequest
          /\ \A u \in Requests : u # s => request'[u] = request[u]
      <4>1. request[s] \in [cmd : {"READ", "WRITE"}, bh : Buffers,
                            errors : 0 .. MAX_ERRORS - 1, nr_sectors : 1 .. 2]
        BY <1>5, Zenon DEF Valid
      <4>2. /\ request'[s].cmd = request[s].cmd /\ request'[s].bh = request[s].bh
            /\ request'[s].nr_sectors = request[s].nr_sectors - 1
            /\ request'[s].errors = IF do_hd = "READ" THEN 0 ELSE request[s].errors
            /\ request'[s] \in [cmd : {"READ", "WRITE"}, bh : Buffers,
                                errors : 0 .. MAX_ERRORS - 1, nr_sectors : 1 .. 2]
        <5> DEFINE old == request[s]
                   e   == IF do_hd = "READ" THEN 0 ELSE old.errors
                   new == [old EXCEPT !.nr_sectors = @ - 1, !.errors = e]
        <5>1. request'[s] = new
          BY <3>1, <1>3, <1>6, Zenon
        <5>2. e \in 0 .. MAX_ERRORS - 1
          BY <4>1, BlockDevAssumption
        <5>3. old.nr_sectors - 1 \in 1 .. 2
          BY <4>1, <2>6
        <5> HIDE DEF old, e
        <5>4. old \in [cmd : {"READ", "WRITE"}, bh : Buffers,
                       errors : 0 .. MAX_ERRORS - 1, nr_sectors : 1 .. 2]
          BY <4>1, Zenon DEF old
        <5>5. /\ new.cmd = old.cmd /\ new.bh = old.bh
              /\ new.nr_sectors = old.nr_sectors - 1 /\ new.errors = e
              /\ new \in [cmd : {"READ", "WRITE"}, bh : Buffers,
                          errors : 0 .. MAX_ERRORS - 1, nr_sectors : 1 .. 2]
          BY <5>2, <5>3, <5>4, Zenon
        <5> QED
          BY <5>1, <5>5, Zenon DEF old, e
      <4>3. /\ \A u \in Requests : u # s => request'[u] = request[u]
            /\ DOMAIN request' = Requests
        BY <3>1, <1>6, Zenon
      <4>4. request'[s] \in ReqType /\ request'[s] # NoRequest
        BY <4>2 DEF ReqType, NoRequest
      <4>5. request' \in [Requests -> ReqType]
        BY <3>1, <4>3, <4>4, <1>6, Zenon
      <4> QED
        BY <4>2, <4>3, <4>4, <4>5, Zenon DEF Valid
    <3>3. Used(request') = Used(request)
      BY <3>2, <1>3, Zenon DEF Used
    <3>4. \A u \in Used(request) : u \in Requests /\ request'[u].bh = request[u].bh
      BY <3>2, Zenon DEF Used
    <3>5. TypeBut' /\ Flags'
      BY <1>1, <1>6, <2>2, <3>1, <3>2, Zenon DEF TypeBut, Flags
    <3>6. TypeOK'
      BY <3>5, TypeSplit, PTL
    <3>7. Complete(request')
      BY <3>2, <3>3, <3>4, <1>7, Zenon DEF Complete
    <3>8. Left(Used(request'), request', moved')
      <4>1. moved'[request'[s].bh] + request'[s].nr_sectors = 2
        BY <3>2, <2>2, <1>5, <1>6
      <4>2. \A u \in Used(request) : u # s => moved'[request'[u].bh] + request'[u].nr_sectors = 2
        BY <3>2, <3>4, <2>3, Zenon
      <4> QED
        BY <4>1, <4>2, <3>3, Zenon DEF Left
    <3>9. Whole(b_lock', b_uptodate', moved')
      BY <2>5, <3>1, Zenon
    <3>10. LockedFor(b_lock', pc', request')
      <4>1. \A b \in Buffers : (\E u \in Used(request') : request'[u].bh = b)
                                <=> (\E u \in Used(request) : request[u].bh = b)
        BY <3>3, <3>4, Zenon
      <4>2. b_lock' = b_lock /\ pc' = pc
        BY <3>1, Zenon
      <4> QED
        BY <4>1, <4>2, <1>7, Zenon DEF LockedFor
    <3>11. do_hd' # "none" <=> queue' # <<>>
      BY <3>1, Zenon DEF BlockInv
    <3>12. Range(queue') = Used(request') /\ Once(queue')
      BY <3>1, <3>3, <1>2, Zenon
    <3>13. Apart(request')
      BY <3>3, <3>4, <1>7, Zenon DEF Apart
    <3>14. Made(request', pc') /\ Fresh(pc', moved')
      <4>1. pc' = pc
        BY <3>1, Zenon
      <4> QED
        BY <4>1, <3>3, <3>4, <1>7, <2>4, Zenon DEF Made
    <3> QED
      BY <3>6, <3>7, <3>8, <3>9, <3>10, <3>11, <3>12, <3>13, <3>14, Zenon DEF BlockInv
  <2>7. CASE ~(request[s].nr_sectors > 1)
    <3>1. do_hd_request(next, request, b_lock, {s}, TRUE, reset)
      BY <1>10, <2>7, Zenon DEF Transferred, CURRENT, s, next
    <3>2. moved'[request[s].bh] = 2
      BY <2>2, <2>7, <1>5, <1>6
    <3>3. Left(Range(next), request, moved')
      BY <2>3, <1>3, Zenon DEF Left
    <3>4. \A b \in Buffers : pc[b] # "out" => moved'[b] = 0
      BY <2>4, Zenon DEF Fresh
    <3>5. HdReady(next, request, b_lock, {s}, TRUE, reset)
      BY <3>2, <3>3, <3>4, <2>2, <2>5, <1>1, <1>3, <1>6, <1>7, <1>8, Zenon DEF HdReady
    <3> QED
      BY <3>1, <3>5, HdRequestStep, Zenon
  <2> QED
    BY <2>6, <2>7, Zenon
<1>11. CASE /\ do_hd_request(queue, request, b_lock, {}, FALSE, reset)
            /\ moved' = moved
  <2>1. Left(Range(queue), request, moved') /\ Whole(b_lock, b_uptodate, moved')
    BY <1>2, <1>7, <1>11, Zenon
  <2>2. \A b \in Buffers : pc[b] # "out" => moved'[b] = 0
    BY <1>7, <1>11, Zenon DEF Fresh
  <2>3. HdReady(queue, request, b_lock, {}, FALSE, reset)
    BY <2>1, <2>2, <1>1, <1>2, <1>6, <1>7, <1>8, <1>11, Zenon DEF HdReady
  <2> QED
    BY <2>3, <1>11, HdRequestStep, Zenon
<1>12. CASE bad_rw_intr /\ moved' = moved
  <2> DEFINE r == [request EXCEPT ![s].errors = @ + 1]
  <2>1. /\ r \in [Requests -> [cmd : {"NONE", "READ", "WRITE"}, bh : Buffers \cup {0},
                               errors : Nat, nr_sectors : 0 .. 2]]
        /\ r[s].errors = request[s].errors + 1 /\ r[s].bh = request[s].bh
        /\ r[s].cmd = request[s].cmd /\ r[s].nr_sectors = request[s].nr_sectors
        /\ \A u \in Requests : u # s => r[u] = request[u]
    <3> DEFINE old == request[s]
               new == [old EXCEPT !.errors = @ + 1]
    <3>1. r = [request EXCEPT ![s] = new]
      BY <1>3, <1>6, Zenon
    <3>2. old \in ReqType /\ old.errors + 1 \in Nat
      BY <1>3, <1>5, <1>6, BlockDevAssumption
    <3> HIDE DEF old
    <3>3. /\ new \in [cmd : {"NONE", "READ", "WRITE"}, bh : Buffers \cup {0},
                      errors : Nat, nr_sectors : 0 .. 2]
          /\ new.errors = old.errors + 1 /\ new.bh = old.bh
          /\ new.cmd = old.cmd /\ new.nr_sectors = old.nr_sectors
      BY <3>2, BlockDevAssumption, Zenon DEF ReqType
    <3> HIDE DEF new
    <3>4. \A u \in Requests : request[u] \in [cmd : {"NONE", "READ", "WRITE"}, bh : Buffers \cup {0},
                                              errors : Nat, nr_sectors : 0 .. 2]
      <4> SUFFICES ASSUME NEW rec \in ReqType
                   PROVE  rec \in [cmd : {"NONE", "READ", "WRITE"}, bh : Buffers \cup {0},
                                   errors : Nat, nr_sectors : 0 .. 2]
        BY <1>6, Zenon
      <4> QED
        BY BlockDevAssumption DEF ReqType
    <3>5. /\ r[s] = new /\ DOMAIN r = Requests /\ \A u \in Requests : u # s => r[u] = request[u]
          /\ r = [u \in Requests |-> IF u = s THEN new ELSE request[u]]
      BY <3>1, <1>3, <1>6, Zenon
    <3> HIDE DEF r
    <3> QED
      BY <3>3, <3>4, <3>5 DEF old
  <2>2. CASE r[s].errors < MAX_ERRORS
    <3>1. PICK rst \in BOOLEAN : do_hd_request(queue, r, b_lock, {}, FALSE, rst)
      BY <1>12, <2>2, Zenon DEF bad_rw_intr, CURRENT, s
    <3> HIDE DEF r
    <3>2. Valid(r[s]) /\ r[s] # NoRequest
      <4> DEFINE new == r[s]
                 old == request[s]
      <4>1. /\ new \in [cmd : {"NONE", "READ", "WRITE"}, bh : Buffers \cup {0},
                        errors : Nat, nr_sectors : 0 .. 2]
            /\ new.errors < MAX_ERRORS /\ new.bh = old.bh
            /\ new.cmd = old.cmd /\ new.nr_sectors = old.nr_sectors
        BY <2>1, <2>2, <1>3, Zenon
      <4>2. /\ old.cmd \in {"READ", "WRITE"} /\ old.bh \in Buffers /\ old.nr_sectors \in 1 .. 2
        BY <1>5, Zenon DEF Valid
      <4> HIDE DEF new, old
      <4>3. new \in [cmd : {"READ", "WRITE"}, bh : Buffers,
                     errors : 0 .. MAX_ERRORS - 1, nr_sectors : 1 .. 2]
        BY <4>1, <4>2, BlockDevAssumption
      <4>4. new # NoRequest
        BY <4>3 DEF NoRequest
      <4> QED
        BY <4>3, <4>4, Zenon DEF Valid, new
    <3>3. r \in [Requests -> ReqType]
      <4>1. DOMAIN r = Requests /\ r = [u \in Requests |-> r[u]]
        BY <2>1, Zenon
      <4>2. r[s] \in ReqType
        BY <3>2 DEF Valid, ReqType
      <4>3. \A u \in Requests : r[u] \in ReqType
        BY <4>2, <2>1, <1>6, Zenon
      <4> QED
        BY <4>1, <4>3, Zenon
    <3>4. Used(r) = Used(request)
      BY <2>1, <3>2, <1>3, Zenon DEF Used
    <3>5. \A u \in Used(request) : /\ r[u].bh = request[u].bh
                                   /\ r[u].nr_sectors = request[u].nr_sectors
      BY <2>1, Zenon DEF Used
    <3>6. Complete(r)
      BY <2>1, <3>2, <3>4, <1>7, Zenon DEF Complete, Used
    <3>7. Apart(r) /\ Left(Range(queue), r, moved') /\ Whole(b_lock, b_uptodate, moved')
      BY <3>4, <3>5, <1>2, <1>7, <1>12, Zenon DEF Apart, Left
    <3>8. LockedFor(b_lock, pc, r)
      BY <3>4, <3>5, <1>7, Zenon DEF LockedFor
    <3>9. /\ \A u \in Used(r) : pc[r[u].bh] # "asleep"
          /\ \A b \in Buffers : pc[b] # "out" => moved'[b] = 0
      BY <3>4, <3>5, <1>7, <1>8, <1>12, Zenon DEF Fresh
    <3>10. HdReady(queue, r, b_lock, {}, FALSE, rst)
      BY <3>3, <3>4, <3>6, <3>7, <3>8, <3>9, <1>1, <1>2, <1>6, <1>12, Zenon DEF HdReady
    <3> QED
      BY <3>1, <3>10, HdRequestStep, Zenon
  <2>3. CASE ~(r[s].errors < MAX_ERRORS)
    <3>1. PICK rst \in BOOLEAN : do_hd_request(next, request, b_lock, {s}, FALSE, rst)
      BY <1>12, <2>3, Zenon DEF bad_rw_intr, CURRENT, s, next
    <3> QED
      BY <3>1, <1>9, <1>12, HdRequestStep, Zenon
  <2> QED
    BY <2>2, <2>3, Zenon
<1> QED
  BY <1>10, <1>11, <1>12, Zenon DEF hd_interrupt

\* A task that looked for a free request found none and waits, or starts over.
LEMMA WaitStep ==
  ASSUME BlockInv, NEW b \in Buffers, NEW p \in {"full", "asleep"},
         b_lock' = [b_lock EXCEPT ![b] = TRUE], pc' = [pc EXCEPT ![b] = p],
         moved' = [moved EXCEPT ![b] = 0], rw' \in [Buffers -> {"READ", "WRITE"}],
         \A s \in Used(request) : request[s].bh # b,
         UNCHANGED <<list, b_uptodate, drive>>
  PROVE  BlockInv'
<1>1. /\ request' = request /\ queue' = queue /\ b_uptodate' = b_uptodate
      /\ do_hd' = do_hd /\ reset' = reset /\ recalibrate' = recalibrate
  BY Zenon DEF list, drive
<1>2. TypeBut /\ Flags
  BY TypeSplit, Zenon DEF BlockInv
<1>3. TypeBut'
  BY <1>1, <1>2 DEF TypeBut
<1>4. Flags'
  <2>1. b_lock' \in [Buffers -> BOOLEAN]
    BY <1>2, Zenon DEF Flags
  <2> QED
    BY <2>1, <1>1, <1>2, Zenon DEF Flags
<1>5. TypeOK'
  BY <1>3, <1>4, TypeSplit, PTL
<1>6. \A c \in Buffers : /\ pc'[c] = (IF c = b THEN p ELSE pc[c])
                         /\ b_lock'[c] <=> (c = b \/ b_lock[c])
                         /\ moved'[c] = (IF c = b THEN 0 ELSE moved[c])
  BY <1>2, Zenon DEF TypeBut, Flags
<1>a. /\ Complete(request) /\ Apart(request) /\ Made(request, pc)
      /\ LockedFor(b_lock, pc, request) /\ Left(Used(request), request, moved)
      /\ Fresh(pc, moved) /\ Whole(b_lock, b_uptodate, moved)
  BY Zenon DEF BlockInv
<1>7. \A s \in Used(request) : request[s].bh \in Buffers /\ request[s].bh # b
  BY <1>a, Zenon DEF Complete, Valid
<1>8. LockedFor(b_lock', pc', request)
  BY <1>6, <1>a DEF LockedFor
<1>9. Whole(b_lock', b_uptodate', moved') /\ Fresh(pc', moved')
  BY <1>1, <1>6, <1>a, Zenon DEF Whole, Fresh
<1>10. Left(Used(request), request, moved')
  BY <1>6, <1>7, <1>a, SMTT(20) DEF Left
<1>11. Made(request, pc')
  BY <1>6, <1>7, <1>a DEF Made
<1> QED
  BY <1>1, <1>5, <1>8, <1>9, <1>10, <1>11, Zenon DEF BlockInv

\* make_request, for a buffer nobody has locked.
LEMMA RequestStep ==
  ASSUME BlockInv, NEW b \in Buffers, NEW cmd \in {"READ", "WRITE"}, NEW ahead,
         make_request(b, cmd, ahead)
  PROVE  BlockInv'
<1> DEFINE locked == [b_lock EXCEPT ![b] = TRUE]
<1>1. TypeBut /\ Flags
  BY TypeSplit, Zenon DEF BlockInv
<1>2. ~b_lock[b] /\ rw' = [rw EXCEPT ![b] = cmd] /\ moved' = [moved EXCEPT ![b] = 0]
  BY Zenon DEF make_request
<1>3. pc[b] = "out" /\ \A s \in Used(request) : request[s].bh # b
  BY <1>2, Zenon DEF BlockInv, LockedFor
<1>4. /\ locked \in [Buffers -> BOOLEAN]
      /\ \A c \in Buffers : locked[c] <=> (b_lock[c] \/ c = b)
  BY <1>1, Zenon DEF Flags
<1>5. /\ moved' \in [Buffers -> 0 .. 2] /\ rw' \in [Buffers -> {"READ", "WRITE"}]
      /\ moved'[b] = 0 /\ \A c \in Buffers : c # b => moved'[c] = moved[c]
  BY <1>1, <1>2 DEF TypeBut
<1>6. CASE FreeFor(cmd) # {} /\ Enqueue(b, cmd, locked)
  <2> HIDE DEF locked
  <2> QED
    BY <1>3, <1>4, <1>5, <1>6, EnqueueStep
<1>7. CASE /\ FreeFor(cmd) = {} /\ ~ahead
           /\ b_lock' = locked
           /\ pc' = [pc EXCEPT ![b] = "full"]
           /\ UNCHANGED <<list, b_uptodate, drive>>
  BY <1>2, <1>3, <1>5, <1>7, WaitStep, Zenon
<1> QED
  BY <1>6, <1>7, Zenon DEF make_request

\* A task that waits has its buffer locked, no request for it, and nothing
\* transferred.
LEMMA Waiting ==
  ASSUME BlockInv, NEW b \in Buffers, pc[b] # "out"
  PROVE  /\ \A s \in Used(request) : request[s].bh # b
         /\ moved = [moved EXCEPT ![b] = 0] /\ b_lock = [b_lock EXCEPT ![b] = TRUE]
         /\ b_lock[b] /\ moved[b] = 0
<1>1. TypeBut /\ Flags
  BY TypeSplit, Zenon DEF BlockInv
<1>2. b_lock[b] /\ moved[b] = 0 /\ \A s \in Used(request) : request[s].bh # b
  BY Zenon DEF BlockInv, LockedFor, Fresh, Made
<1>3. moved = [moved EXCEPT ![b] = 0]
  BY <1>1, <1>2, Zenon DEF TypeBut
<1>4. b_lock[b] = TRUE
  BY <1>1, <1>2, Zenon DEF Flags
<1>5. b_lock = [b_lock EXCEPT ![b] = TRUE]
  BY <1>1, <1>4, Zenon DEF Flags
<1> QED
  BY <1>2, <1>3, <1>5, Zenon

\* The task goes to sleep, or looks again for a free request.
LEMMA RepeatStep ==
  ASSUME BlockInv, NEW b \in Buffers, sleep_on(b) \/ make_request_repeat(b)
  PROVE  BlockInv'
<1>1. TypeBut /\ Flags
  BY TypeSplit, Zenon DEF BlockInv
<1>2. rw' = rw /\ moved' = moved
  BY Zenon DEF sleep_on, make_request_repeat
<1>3. /\ rw' \in [Buffers -> {"READ", "WRITE"}] /\ moved' \in [Buffers -> 0 .. 2]
      /\ rw[b] \in {"READ", "WRITE"} /\ b_lock \in [Buffers -> BOOLEAN]
  BY <1>1, <1>2, Zenon DEF TypeBut, Flags
<1>4. pc[b] # "out"
  BY Zenon DEF sleep_on, make_request_repeat
<1>5. CASE sleep_on(b)
  <2>1. /\ pc' = [pc EXCEPT ![b] = "asleep"] /\ b_lock' = b_lock
        /\ UNCHANGED <<list, b_uptodate, drive>>
    BY <1>5, Zenon DEF sleep_on
  <2> QED
    BY <2>1, <1>2, <1>3, <1>4, Waiting, WaitStep, Zenon
<1>6. CASE make_request_repeat(b)
  <2>1. CASE FreeFor(rw[b]) # {} /\ Enqueue(b, rw[b], b_lock)
    <3>1. pc[b] \in {"out", "find"}
      BY <1>6, Zenon DEF make_request_repeat
    <3>2. /\ \A c \in Buffers : b_lock[c] <=> (b_lock[c] \/ c = b)
          /\ \A s \in Used(request) : request[s].bh # b
          /\ moved'[b] = 0
      BY <1>2, <1>4, Waiting, Zenon
    <3> DEFINE cmd == rw[b]
    <3> HIDE DEF cmd
    <3>3. cmd \in {"READ", "WRITE"} /\ FreeFor(cmd) # {} /\ Enqueue(b, cmd, b_lock)
      BY <1>3, <2>1, Zenon DEF cmd
    <3> QED
      BY <3>1, <3>2, <3>3, <1>2, <1>3, EnqueueStep, Zenon
  <2>2. CASE /\ pc' = [pc EXCEPT ![b] = "full"]
             /\ UNCHANGED <<list, b_lock, b_uptodate, drive>>
    BY <2>2, <1>2, <1>3, <1>4, Waiting, WaitStep, Zenon
  <2> QED
    BY <1>6, <2>1, <2>2, Zenon DEF make_request_repeat
<1> QED
  BY <1>5, <1>6, Zenon

\* A buffer that is forgotten is not locked: no request is for it.
LEMMA ForgetStep ==
  ASSUME BlockInv, NEW b \in Buffers, forget(b)
  PROVE  BlockInv'
<1>1. /\ ~b_lock[b] /\ b_uptodate' = [b_uptodate EXCEPT ![b] = FALSE]
      /\ moved' = [moved EXCEPT ![b] = 0]
      /\ request' = request /\ queue' = queue /\ b_lock' = b_lock /\ pc' = pc /\ rw' = rw
      /\ do_hd' = do_hd /\ reset' = reset /\ recalibrate' = recalibrate
  BY Zenon DEF forget, list, drive
<1>2. TypeBut /\ Flags
  BY TypeSplit, Zenon DEF BlockInv
<1>3. TypeBut'
  BY <1>1, <1>2 DEF TypeBut
<1>4. Flags'
  <2>1. b_uptodate' \in [Buffers -> BOOLEAN]
    BY <1>1, <1>2, Zenon DEF Flags
  <2> QED
    BY <2>1, <1>1, <1>2, Zenon DEF Flags
<1>5. TypeOK'
  BY <1>3, <1>4, TypeSplit, PTL
<1>6. \A c \in Buffers : /\ b_uptodate'[c] <=> (c # b /\ b_uptodate[c])
                         /\ moved'[c] = (IF c = b THEN 0 ELSE moved[c])
  BY <1>1, <1>2, Zenon DEF TypeBut, Flags
<1>a. /\ Complete(request) /\ Apart(request) /\ Made(request, pc)
      /\ LockedFor(b_lock, pc, request) /\ Left(Used(request), request, moved)
      /\ Fresh(pc, moved) /\ Whole(b_lock, b_uptodate, moved)
  BY Zenon DEF BlockInv
<1>7. \A s \in Used(request) : request[s].bh \in Buffers /\ request[s].bh # b
  BY <1>1, <1>a, Zenon DEF Complete, Valid, LockedFor
<1>8. Whole(b_lock', b_uptodate', moved') /\ Fresh(pc', moved')
  BY <1>1, <1>6, <1>a, Zenon DEF Whole, Fresh
<1>9. Left(Used(request), request, moved')
  BY <1>6, <1>7, <1>a, Zenon DEF Left
<1> QED
  BY <1>1, <1>5, <1>8, <1>9, Zenon DEF BlockInv

------------------------------------------------------------------------------
\* The driver starts with an empty list.
LEMMA BlockInit == Init => BlockInv
<1> SUFFICES ASSUME Init PROVE BlockInv
  BY Zenon
<1>1. Used(request) = {} /\ Range(queue) = {} /\ Once(queue)
  BY DEF Init, Used, Once, Range
<1>2. TypeBut
  BY BlockDevAssumption DEF Init, TypeBut, ReqType, NoRequest
<1>3. Flags
  BY Zenon DEF Init, Flags
<1>4. TypeOK
  BY <1>2, <1>3, TypeSplit, Zenon
<1>5. /\ \A b \in Buffers : ~b_lock[b] /\ ~b_uptodate[b] /\ pc[b] = "out"
      /\ do_hd = "none" /\ queue = <<>>
  BY Zenon DEF Init
<1> QED
  BY <1>1, <1>4, <1>5, Zenon
     DEF BlockInv, Complete, Apart, Made, LockedFor, Left, Fresh, Whole

\* Every step of a task and every interrupt keeps the invariant.
LEMMA BlockStep == BlockInv /\ [Next]_vars => BlockInv'
<1> SUFFICES ASSUME BlockInv, [Next]_vars PROVE BlockInv'
  BY Zenon
<1>1. CASE UNCHANGED vars
  <2>1. /\ request' = request /\ queue' = queue /\ b_lock' = b_lock /\ b_uptodate' = b_uptodate
        /\ pc' = pc /\ rw' = rw /\ moved' = moved
        /\ do_hd' = do_hd /\ reset' = reset /\ recalibrate' = recalibrate
    BY <1>1, Zenon DEF vars, list, drive
  <2>2. TypeOK'
    BY <2>1, Zenon DEF BlockInv, TypeOK
  <2> QED
    BY <2>1, <2>2, Zenon DEF BlockInv
<1>2. CASE hd_interrupt
  BY <1>2, InterruptStep, Zenon
<1>3. ASSUME NEW b \in Buffers, sleep_on(b) \/ make_request_repeat(b) PROVE BlockInv'
  BY <1>3, RepeatStep, Zenon
<1>4. ASSUME NEW b \in Buffers, forget(b) PROVE BlockInv'
  BY <1>4, ForgetStep, Zenon
<1>5. ASSUME NEW b \in Buffers, NEW cmd \in {"READ", "WRITE"}, NEW ahead \in BOOLEAN,
             make_request(b, cmd, ahead)
      PROVE  BlockInv'
  BY <1>5, RequestStep, Zenon
<1> QED
  BY <1>1, <1>2, <1>3, <1>4, <1>5, Zenon DEF Next

\* The list, the locks and the buffers, as ListSound, LockedForReason and
\* WholeBlock say, follow from the invariant.
LEMMA BlockInvSound == BlockInv => RequestsSound
<1> SUFFICES ASSUME BlockInv PROVE RequestsSound
  BY Zenon
<1>1. Range(queue) = Used(request) /\ TypeOK
  BY Zenon DEF BlockInv
<1>2. \A m, n \in DOMAIN queue : request[queue[m]].bh = request[queue[n]].bh => m = n
  <2> SUFFICES ASSUME NEW m \in DOMAIN queue, NEW n \in DOMAIN queue,
                      request[queue[m]].bh = request[queue[n]].bh
               PROVE  m = n
    BY Zenon
  <2>1. queue[m] \in Used(request) /\ queue[n] \in Used(request)
    BY <1>1, Zenon DEF Range
  <2> QED
    BY <2>1, Zenon DEF BlockInv, Apart, Once
<1>3. \A s \in Range(queue) : b_lock[request[s].bh] /\ pc[request[s].bh] = "out"
  BY Zenon DEF BlockInv, Complete, Valid, Made, LockedFor
<1>4. (do_hd # "none") <=> (queue # <<>>)
  BY Zenon DEF BlockInv
<1>5. ListSound
  BY <1>1, <1>2, <1>3, <1>4, Zenon DEF ListSound, Used
<1>6. LockedForReason
  BY Zenon DEF BlockInv, LockedFor, LockedForReason
<1>7. WholeBlock
  BY Zenon DEF BlockInv, Whole, WholeBlock
<1> QED
  BY <1>5, <1>6, <1>7, Zenon DEF RequestsSound

\* The request list of a block device, for every number of requests, every device
\* and every number of tries: whatever the interleaving of the tasks that make
\* requests and wait for a free one with the driver's interrupts, errors and
\* resets, the list holds exactly the requests in use, for different buffers, all
\* locked; every locked buffer has a request or a task that looks for one; and a
\* buffer is up to date only when both sectors of its block were transferred.
THEOREM RequestsStaySound == Spec => []RequestsSound
<1>1. Init => BlockInv
  BY BlockInit, Zenon
<1>2. BlockInv /\ [Next]_vars => BlockInv'
  BY BlockStep, Zenon
<1>3. BlockInv => RequestsSound
  BY BlockInvSound, Zenon
<1> QED
  BY <1>1, <1>2, <1>3, PTL DEF Spec
==============================================================================
