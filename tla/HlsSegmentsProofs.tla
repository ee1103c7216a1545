-------------------------- MODULE HlsSegmentsProofs --------------------------
(***************************************************************************)
(* The bookkeeping of a run of the HLS strategy, for any playlist, workers, *)
(* limits and budgets: which segments are queued, leased, buffered, spilled *)
(* or merged, what was credited for them, and when a refresh may begin; and *)
(* what the cells of its two files hold, whatever stops it.                 *)
(***************************************************************************)
EXTENDS HlsSegments, FiniteSetTheorems, SequenceTheorems, TLAPS

-----------------------------------------------------------------------------
(* The numbers of segments in playlist order. *)

Rank(ss, s) == Cardinality({t \in ss : t <= s})

\* The ranks of a finite set of numbers are 1 to its size, each once.
LEMMA RankOnto ==
  ASSUME NEW ss \in SUBSET Nat, IsFiniteSet(ss)
  PROVE  /\ Cardinality(ss) \in Nat
         /\ \A i \in 1..Cardinality(ss) : \E s \in ss : Rank(ss, s) = i
         /\ \A s \in ss : Rank(ss, s) \in 1..Cardinality(ss)
         /\ \A s, t \in ss : s < t => Rank(ss, s) < Rank(ss, t)
<1> DEFINE n == Cardinality(ss)
           upto(s) == {t \in ss : t <= s}
           f == [s \in ss |-> Rank(ss, s)]
<1>1. n \in Nat
  BY FS_CardinalityType
<1>2. \A s \in ss : IsFiniteSet(upto(s)) /\ Cardinality(upto(s)) \in 1..n
  <2> TAKE s \in ss
  <2>1. upto(s) \in SUBSET ss /\ s \in upto(s)
    OBVIOUS
  <2>2. IsFiniteSet(upto(s)) /\ Cardinality(upto(s)) <= n
    BY <2>1, FS_Subset
  <2>3. Cardinality(upto(s)) \in Nat /\ Cardinality(upto(s)) # 0
    BY <2>1, <2>2, FS_CardinalityType, FS_EmptySet
  <2> QED
    BY <1>1, <2>2, <2>3
<1>3. \A s, t \in ss : s < t => Cardinality(upto(s)) < Cardinality(upto(t))
  <2> SUFFICES ASSUME NEW s \in ss, NEW t \in ss, s < t
               PROVE  Cardinality(upto(s)) < Cardinality(upto(t))
    OBVIOUS
  <2>0. s \in Nat /\ t \in Nat /\ \A x \in ss : x \in Nat
    OBVIOUS
  <2>1. upto(s) \in SUBSET upto(t) /\ t \in upto(t) /\ t \notin upto(s)
    <3>1. \A x \in upto(s) : x \in upto(t)
      BY <2>0
    <3>2. t \in upto(t) /\ t \notin upto(s)
      BY <2>0
    <3> QED
      BY <3>1, <3>2
  <2>2. Cardinality(upto(s)) <= Cardinality(upto(t)) /\ Cardinality(upto(s)) # Cardinality(upto(t))
    BY <1>2, <2>1, FS_Subset
  <2> QED
    BY <1>1, <1>2, <2>2
<1>4. f \in [ss -> 1..n]
  BY <1>2 DEF Rank
<1>5. \A s, t \in ss : f[s] = f[t] => s = t
  <2> SUFFICES ASSUME NEW s \in ss, NEW t \in ss, s # t
               PROVE  f[s] # f[t]
    OBVIOUS
  <2>1. s < t \/ t < s
    OBVIOUS
  <2> QED
    BY <1>2, <1>3, <2>1 DEF Rank
<1>6. f \in Injection(ss, 1..n)
  BY <1>4, <1>5 DEF Injection, IsInjective
<1>7. IsFiniteSet(1..n) /\ Cardinality(1..n) = n
  BY <1>1, FS_Interval
<1>8. f \in Surjection(ss, 1..n)
  BY <1>6, <1>7, FS_Injection
<1>9. \A i \in 1..n : \E s \in ss : f[s] = i
  BY <1>8 DEF Surjection
<1> QED
  BY <1>1, <1>2, <1>3, <1>9 DEF Rank

\* Inorder lists a finite set of numbers once each, in ascending order.
LEMMA InorderLists ==
  ASSUME NEW ss \in SUBSET Nat, IsFiniteSet(ss)
  PROVE  /\ Inorder(ss) \in Seq(ss) /\ Len(Inorder(ss)) = Cardinality(ss)
         /\ \A s \in ss : \E i \in 1..Len(Inorder(ss)) : Inorder(ss)[i] = s
         /\ \A i, j \in 1..Len(Inorder(ss)) : i < j => Inorder(ss)[i] < Inorder(ss)[j]
<1> DEFINE n == Cardinality(ss)
           r == Inorder(ss)
           at(i) == CHOOSE s \in ss : Rank(ss, s) = i
<1>1. n \in Nat
  BY FS_CardinalityType
<1>2. \A i \in 1..n : at(i) \in ss /\ Rank(ss, at(i)) = i
  BY RankOnto
<1>3. r = [i \in 1..n |-> at(i)]
  BY DEF Inorder, Rank
<1>0. \A s, t \in ss : s < t => Rank(ss, s) < Rank(ss, t)
  BY RankOnto
<1>00. \A s \in ss : s \in Nat
  OBVIOUS
<1>4. r \in [1..n -> ss] /\ \A i \in 1..n : Rank(ss, r[i]) = i
  BY <1>2, <1>3
<1> HIDE DEF at, r
<1>5. r \in Seq(ss) /\ Len(r) = n
  BY <1>1, <1>4, LenProperties, SeqDef
<1>6. \A s \in ss : \E i \in 1..n : r[i] = s
  <2> TAKE s \in ss
  <2>1. PICK i \in 1..n : i = Rank(ss, s)
    BY RankOnto
  <2>2. r[i] \in ss /\ Rank(ss, r[i]) = i
    BY <1>4
  <2>a. i \in Nat
    BY <1>1
  <2>b. s \in Nat
    BY <1>00
  <2>c. r[i] \in Nat
    BY <1>00, <2>2, Zenon
  <2>3. r[i] \in Nat /\ s \in Nat /\ i \in Nat
    BY <2>a, <2>b, <2>c
  <2>4. ~(r[i] < s) /\ ~(s < r[i])
    BY <1>0, <2>1, <2>2, <2>3
  <2> QED
    BY <2>3, <2>4
<1>7. \A i, j \in 1..n : i < j => r[i] < r[j]
  <2> SUFFICES ASSUME NEW i \in 1..n, NEW j \in 1..n, i < j
               PROVE  r[i] < r[j]
    OBVIOUS
  <2>1. r[i] \in ss /\ r[j] \in ss /\ Rank(ss, r[i]) = i /\ Rank(ss, r[j]) = j
    BY <1>4
  <2>a. i \in Nat /\ j \in Nat
    BY <1>1
  <2>b. r[i] \in Nat /\ r[j] \in Nat
    BY <1>00, <2>1, Zenon
  <2>2. r[i] \in Nat /\ r[j] \in Nat /\ i \in Nat /\ j \in Nat
    BY <2>a, <2>b
  <2>3. ~(r[j] < r[i]) /\ r[i] # r[j]
    BY <1>0, <2>1, <2>2
  <2> QED
    BY <2>2, <2>3
<1> QED
  BY <1>5, <1>6, <1>7 DEF r

\* A finite set of numbers that has an element has a least one.
LEMMA LeastExists ==
  ASSUME NEW ss \in SUBSET Nat, IsFiniteSet(ss), ss # {}
  PROVE  Min(ss) \in ss /\ \A t \in ss : Min(ss) <= t
<1>1. Cardinality(ss) \in Nat /\ Cardinality(ss) # 0
  BY FS_CardinalityType, FS_EmptySet
<1>2. PICK s \in ss : Rank(ss, s) = 1
  BY <1>1, RankOnto
<1>3. \A t \in ss : s <= t
  <2> SUFFICES ASSUME NEW t \in ss, t < s
               PROVE  FALSE
    OBVIOUS
  <2>1. Rank(ss, t) < 1 /\ Rank(ss, t) \in 1..Cardinality(ss)
    BY <1>2, RankOnto
  <2> QED
    BY <2>1, <1>1
<1> QED
  BY <1>3 DEF Min

-----------------------------------------------------------------------------
(* The spill index and the drain's view of the window. *)

Ledgers == UNION {[D -> Nat] : D \in SUBSET Segs}
CkptType == [merged: 0..NSeg, ledger: Ledgers, size: Nat]
WinType == [merged: 0..NSeg, bits: SUBSET Segs, entries: Ledgers, tail: Nat,
            pending: SUBSET Segs, open: BOOLEAN, fault: BOOLEAN]

\* A spill index maps some of the segments to cells.
LEMMA LedgerIs ==
  ASSUME NEW f
  PROVE  f \in Ledgers <=> DOMAIN f \in SUBSET Segs /\ f \in [DOMAIN f -> Nat]
<1>1. ASSUME f \in Ledgers
      PROVE  DOMAIN f \in SUBSET Segs /\ f \in [DOMAIN f -> Nat]
  <2>1. PICK D \in SUBSET Segs : f \in [D -> Nat]
    BY <1>1 DEF Ledgers
  <2> QED
    BY <2>1
<1>2. ASSUME DOMAIN f \in SUBSET Segs, f \in [DOMAIN f -> Nat]
      PROVE  f \in Ledgers
  BY <1>2 DEF Ledgers
<1> QED
  BY <1>1, <1>2

\* The empty index.
LEMMA EmptyLedger == Empty \in Ledgers /\ DOMAIN Empty = {}
<1>1. DOMAIN Empty = {} /\ Empty \in [{} -> Nat]
  BY DEF Empty
<1> QED
  BY <1>1, LedgerIs

\* An index without segments is the empty one.
LEMMA NoSegmentsIsEmpty ==
  ASSUME NEW f \in Ledgers
  PROVE  f = Empty <=> DOMAIN f = {}
<1>1. f \in [DOMAIN f -> Nat]
  BY LedgerIs
<1> QED
  BY <1>1, EmptyLedger DEF Empty

\* A part of an index is one.
LEMMA PartOfLedger ==
  ASSUME NEW f \in Ledgers, NEW X
  PROVE  [s \in DOMAIN f \ X |-> f[s]] \in Ledgers
<1>1. DOMAIN f \in SUBSET Segs /\ f \in [DOMAIN f -> Nat]
  BY LedgerIs
<1> DEFINE g == [s \in DOMAIN f \ X |-> f[s]]
<1>2. DOMAIN g \in SUBSET Segs /\ g \in [DOMAIN g -> Nat]
  BY <1>1
<1> QED
  BY <1>2, LedgerIs

\* The segments are a finite set of numbers, and so are the workers finite.
LEMMA SegsFinite ==
  /\ Segs \in SUBSET Nat /\ IsFiniteSet(Segs) /\ Cardinality(Segs) = NSeg
  /\ NSeg \in Nat /\ NSeg >= 1 /\ IsFiniteSet(Workers)
<1>1. NSeg \in Nat /\ NSeg >= 1 /\ IsFiniteSet(Workers)
  BY HlsAssumption
<1>2. IsFiniteSet(1..NSeg) /\ Cardinality(1..NSeg) = NSeg
  BY <1>1, FS_Interval
<1> QED
  BY <1>1, <1>2 DEF Segs

\* Contiguous counts the segments behind the merged prefix, up to the first gap.
LEMMA ContiguousRun ==
  ASSUME NEW w \in WinType
  PROVE  /\ Contiguous(w) \in Nat /\ w.merged + Contiguous(w) <= NSeg
         /\ \A i \in w.merged + 1 .. w.merged + Contiguous(w) :
              i \in w.pending \cup DOMAIN w.entries
         /\ w.merged + Contiguous(w) + 1 \notin w.pending \cup DOMAIN w.entries
<1> DEFINE Gaps == (Segs \cup {NSeg + 1}) \ (1..w.merged \cup w.pending \cup DOMAIN w.entries)
           m == Min(Gaps)
<1>1. /\ w.merged \in 0..NSeg /\ w.pending \in SUBSET Segs /\ DOMAIN w.entries \in SUBSET Segs
      /\ NSeg \in Nat
  BY LedgerIs, SegsFinite DEF WinType
<1>2. Gaps \in SUBSET Nat /\ NSeg + 1 \in Gaps
  BY <1>1 DEF Segs
<1>3. IsFiniteSet(Gaps)
  <2>1. IsFiniteSet(Segs \cup {NSeg + 1})
    BY SegsFinite, FS_AddElement
  <2> QED
    BY <2>1, FS_Difference
<1>4. m \in Gaps /\ \A t \in Gaps : m <= t
  BY <1>2, <1>3, LeastExists
<1>5. Contiguous(w) = m - 1 - w.merged
  BY DEF Contiguous
<1> HIDE DEF m
<1>6. m \in 1..NSeg + 1 /\ m > w.merged
  BY <1>1, <1>4 DEF Segs
<1>7. \A i \in w.merged + 1 .. m - 1 : i \in w.pending \cup DOMAIN w.entries
  <2> TAKE i \in w.merged + 1 .. m - 1
  <2>1. i \in Segs /\ i \notin Gaps /\ i \notin 1..w.merged
    BY <1>1, <1>4, <1>6 DEF Segs
  <2> QED
    BY <2>1
<1>8. m \notin w.pending \cup DOMAIN w.entries
  BY <1>4
<1> HIDE DEF Gaps
<1>9. w.merged + Contiguous(w) = m - 1 /\ w.merged + Contiguous(w) + 1 = m
  BY <1>1, <1>5, <1>6
<1>10. Contiguous(w) \in Nat /\ m - 1 <= NSeg
  BY <1>1, <1>5, <1>6
<1> QED
  BY <1>7, <1>8, <1>9, <1>10

\* What Advanced does to each part of the window.
LEMMA AdvancedIs ==
  ASSUME NEW w \in WinType, NEW n \in Nat, w.merged + n <= NSeg
  PROVE  LET d == Advanced(w, n)
             now == w.merged + 1 .. w.merged + n
         IN  /\ d \in WinType
             /\ d.merged = w.merged + n /\ d.bits = w.bits \cup now
             /\ d.pending = w.pending \ now
             /\ DOMAIN d.entries = DOMAIN w.entries \ now
             /\ \A s \in DOMAIN d.entries : d.entries[s] = w.entries[s]
             /\ d.tail = w.tail /\ d.open = w.open /\ d.fault = w.fault
<1> DEFINE now == w.merged + 1 .. w.merged + n
           part == [s \in DOMAIN w.entries \ now |-> w.entries[s]]
<1>1. part \in Ledgers
  BY PartOfLedger DEF WinType
<1>2. now \in SUBSET Segs /\ w.merged + n \in 0..NSeg
  BY SegsFinite DEF WinType, Segs
<1>3. DOMAIN part = DOMAIN w.entries \ now /\ \A s \in DOMAIN part : part[s] = w.entries[s]
  OBVIOUS
<1>4. Advanced(w, n) = [w EXCEPT !.merged = w.merged + n, !.bits = w.bits \cup now,
                                 !.pending = w.pending \ now, !.entries = part]
  BY DEF Advanced
<1> HIDE DEF part, now
<1>5. Advanced(w, n) = [merged |-> w.merged + n, bits |-> w.bits \cup now, entries |-> part,
                        tail |-> w.tail, pending |-> w.pending \ now, open |-> w.open,
                        fault |-> w.fault]
  BY <1>4 DEF WinType
<1>6. Advanced(w, n) \in WinType
  BY <1>1, <1>2, <1>5 DEF WinType
<1>7. /\ Advanced(w, n).merged = w.merged + n /\ Advanced(w, n).bits = w.bits \cup now
      /\ Advanced(w, n).entries = part /\ Advanced(w, n).tail = w.tail
      /\ Advanced(w, n).pending = w.pending \ now /\ Advanced(w, n).open = w.open
      /\ Advanced(w, n).fault = w.fault
  BY <1>5
<1> QED
  BY <1>3, <1>6, <1>7 DEF now

\* The new entries of a spill lie behind the confirmed tail, each at the cell
\* of its own segment.
LEMMA IndexIs ==
  ASSUME win \in WinType, NEW ss \in Seq(Segs)
  PROVE  /\ Index(ss) \in Ledgers /\ DOMAIN Index(ss) = Range(ss)
         /\ \A s \in Range(ss) : \E i \in 1..Len(ss) : ss[i] = s /\ Index(ss)[s] = win.tail + i - 1
<1> DEFINE at(s) == CHOOSE i \in DOMAIN ss : ss[i] = s
           f == Index(ss)
<1>1. win.tail \in Nat /\ Len(ss) \in Nat /\ DOMAIN ss = 1..Len(ss)
  BY DEF WinType
<1>2. \A s \in Range(ss) : at(s) \in 1..Len(ss) /\ ss[at(s)] = s
  BY <1>1 DEF Range
<1>3. f = [s \in Range(ss) |-> win.tail + at(s) - 1]
  BY DEF Index
<1>4. Range(ss) \in SUBSET Segs
  BY DEF Range
<1> HIDE DEF at, f
<1>5. DOMAIN f = Range(ss) /\ \A s \in Range(ss) : f[s] = win.tail + at(s) - 1
  BY <1>3
<1>6. \A s \in Range(ss) : f[s] \in Nat
  BY <1>1, <1>2, <1>5
<1>7. f \in [DOMAIN f -> Nat]
  BY <1>3, <1>5, <1>6
<1>8. f \in Ledgers
  BY <1>4, <1>5, <1>7, LedgerIs
<1> QED
  BY <1>2, <1>5, <1>8 DEF f

\* What a spill does to the window.
LEMMA SpillIs ==
  ASSUME win \in WinType, NEW ss \in Seq(Segs), Spill(ss)
  PROVE  /\ win' \in WinType /\ there' = TRUE /\ win'.open
         /\ win'.merged = win.merged /\ win'.fault = win.fault
         /\ win'.bits = win.bits \cup Range(ss) /\ win'.pending = win.pending \ Range(ss)
         /\ DOMAIN win'.entries = DOMAIN win.entries \cup Range(ss)
         /\ win'.tail = win.tail + Len(ss)
         /\ \A s \in Range(ss) :
              \E i \in 1..Len(ss) : ss[i] = s /\ win'.entries[s] = win.tail + i - 1
         /\ \A s \in DOMAIN win.entries \ Range(ss) : win'.entries[s] = win.entries[s]
<1> DEFINE index == Indexed(ss)
<1>1. win.entries \in Ledgers /\ win.tail \in Nat /\ Len(ss) \in Nat
  BY DEF WinType
<1>2. /\ index \in Ledgers /\ DOMAIN index = DOMAIN win.entries \cup Range(ss)
      /\ \A s \in Range(ss) : index[s] = Index(ss)[s]
      /\ \A s \in DOMAIN win.entries \ Range(ss) : index[s] = win.entries[s]
  <2>1. /\ Index(ss) \in Ledgers /\ DOMAIN Index(ss) = Range(ss)
        /\ DOMAIN win.entries \in SUBSET Segs /\ win.entries \in [DOMAIN win.entries -> Nat]
        /\ \A s \in Range(ss) : Index(ss)[s] \in Nat
    BY <1>1, IndexIs, LedgerIs
  <2>2. index = [s \in DOMAIN win.entries \cup Range(ss) |->
                   IF s \in Range(ss) THEN Index(ss)[s] ELSE win.entries[s]]
    BY DEF Indexed
  <2> HIDE DEF index
  <2>3. DOMAIN index = DOMAIN win.entries \cup Range(ss)
    BY <2>2
  <2>4. /\ \A s \in Range(ss) : index[s] = Index(ss)[s]
        /\ \A s \in DOMAIN win.entries \ Range(ss) : index[s] = win.entries[s]
    BY <2>2
  <2>5. DOMAIN index \in SUBSET Segs
    BY <2>1, <2>3 DEF Range
  <2>6. \A s \in DOMAIN index : index[s] \in Nat
    BY <2>1, <2>3, <2>4
  <2>7. index \in [DOMAIN index -> Nat]
    BY <2>2, <2>3, <2>6
  <2> QED
    BY <2>3, <2>4, <2>5, <2>7, LedgerIs
<1>3. Range(ss) \in SUBSET Segs
  BY DEF Range
<1>4. there' = TRUE /\ win' = [win EXCEPT !.entries = index, !.tail = win.tail + Len(ss),
                                !.bits = win.bits \cup Range(ss),
                                !.pending = win.pending \ Range(ss), !.open = TRUE]
  BY DEF Spill
<1> HIDE DEF index
<1>5. win' = [merged |-> win.merged, bits |-> win.bits \cup Range(ss), entries |-> index,
              tail |-> win.tail + Len(ss), pending |-> win.pending \ Range(ss),
              open |-> TRUE, fault |-> win.fault]
  BY <1>4 DEF WinType
<1>6. win' \in WinType
  BY <1>1, <1>2, <1>3, <1>5 DEF WinType
<1> QED
  BY <1>2, <1>4, <1>5, <1>6, IndexIs

\* The next k segments of the window w were merged.
Merges(w, k) ==
  LET now == w.merged + 1 .. w.merged + k IN
  /\ win' \in WinType /\ win'.merged = w.merged + k /\ win'.bits = w.bits \cup now
  /\ win'.pending = w.pending \ now /\ DOMAIN win'.entries = DOMAIN w.entries \ now
  /\ \A s \in DOMAIN win'.entries : win'.entries[s] = w.entries[s]
  /\ DOMAIN win'.entries # {} => win'.tail = w.tail
  /\ win'.open = w.open

\* Draining merges, and keeps the tail as long as there are entries.
LEMMA DrainIs ==
  ASSUME NEW w \in WinType, NEW n \in Nat, w.merged + n <= NSeg, Drain(w, n)
  PROVE  Merges(w, n) /\ win'.fault = w.fault
<1> DEFINE d == Advanced(w, n)
           now == w.merged + 1 .. w.merged + n
<1>1. /\ d \in WinType /\ d.merged = w.merged + n /\ d.bits = w.bits \cup now
      /\ d.pending = w.pending \ now /\ DOMAIN d.entries = DOMAIN w.entries \ now
      /\ \A s \in DOMAIN d.entries : d.entries[s] = w.entries[s]
      /\ d.tail = w.tail /\ d.open = w.open /\ d.fault = w.fault
  BY AdvancedIs
<1> HIDE DEF d, now
<1>2. CASE ~Emptied(w, d)
  <2>1. win' = d
    BY <1>2 DEF Drain, d
  <2> QED
    BY <1>1, <2>1 DEF Merges, now
<1>3. CASE Emptied(w, d)
  <2>1. win' = [d EXCEPT !.tail = 0]
    BY <1>3 DEF Drain, d
  <2>2. win' = [merged |-> d.merged, bits |-> d.bits, entries |-> d.entries, tail |-> 0,
                pending |-> d.pending, open |-> d.open, fault |-> d.fault]
    BY <1>1, <2>1 DEF WinType
  <2>3. win' \in WinType
    BY <1>1, <2>2 DEF WinType
  <2>4. DOMAIN win'.entries = {}
    BY <1>3, <2>2, EmptyLedger DEF Emptied
  <2>5. /\ win'.merged = d.merged /\ win'.bits = d.bits /\ win'.entries = d.entries
        /\ win'.pending = d.pending /\ win'.open = d.open /\ win'.fault = d.fault
    BY <2>2
  <2> QED
    BY <1>1, <2>3, <2>4, <2>5 DEF Merges, now
<1> QED
  BY <1>2, <1>3

\* A fault on the way merges fewer.
LEMMA DrainFaultIs ==
  ASSUME NEW w \in WinType, NEW n \in Nat, w.merged + n <= NSeg, DrainFault(w, n)
  PROVE  \E k \in 1..n : Merges(w, k) /\ win'.fault
<1>1. PICK k \in 1..n :
        LET d == Advanced(w, k)
            cleared == k < n /\ Emptied(w, d)
        IN  win' = [d EXCEPT !.fault = TRUE, !.tail = IF cleared THEN 0 ELSE @]
  BY DEF DrainFault
<1> DEFINE d == Advanced(w, k)
           now == w.merged + 1 .. w.merged + k
<1>2. k \in Nat /\ w.merged + k <= NSeg
  BY SegsFinite DEF WinType
<1>3. /\ d \in WinType /\ d.merged = w.merged + k /\ d.bits = w.bits \cup now
      /\ d.pending = w.pending \ now /\ DOMAIN d.entries = DOMAIN w.entries \ now
      /\ \A s \in DOMAIN d.entries : d.entries[s] = w.entries[s]
      /\ d.tail = w.tail /\ d.open = w.open /\ d.fault = w.fault
  BY <1>2, AdvancedIs
<1>4. PICK t : /\ t \in {0, d.tail} /\ (t # d.tail => Emptied(w, d))
               /\ win' = [d EXCEPT !.fault = TRUE, !.tail = t]
  <2>1. CASE k < n /\ Emptied(w, d)
    <3>1. win' = [d EXCEPT !.fault = TRUE, !.tail = 0]
      BY <1>1, <2>1
    <3> QED
      BY <2>1, <3>1
  <2>2. CASE ~(k < n /\ Emptied(w, d))
    <3>1. win' = [d EXCEPT !.fault = TRUE, !.tail = d.tail]
      BY <1>1, <2>2
    <3> QED
      BY <3>1
  <2> QED
    BY <2>1, <2>2
<1> HIDE DEF d, now
<1>5. win' = [merged |-> d.merged, bits |-> d.bits, entries |-> d.entries, tail |-> t,
              pending |-> d.pending, open |-> d.open, fault |-> TRUE]
  BY <1>3, <1>4 DEF WinType
<1>6. win' \in WinType
  <2>1. /\ d.merged \in 0..NSeg /\ d.bits \in SUBSET Segs /\ d.entries \in Ledgers
        /\ d.tail \in Nat /\ d.pending \in SUBSET Segs
    BY <1>3 DEF WinType
  <2>2. d.open \in BOOLEAN
    BY <1>3 DEF WinType
  <2>3. t \in Nat
    BY <1>4, <2>1
  <2> QED
    BY <1>5, <2>1, <2>2, <2>3 DEF WinType
<1>7. DOMAIN win'.entries # {} => win'.tail = w.tail
  BY <1>3, <1>4, <1>5, EmptyLedger DEF Emptied
<1>8. /\ win'.merged = d.merged /\ win'.bits = d.bits /\ win'.entries = d.entries
      /\ win'.pending = d.pending /\ win'.open = d.open /\ win'.fault
  BY <1>5
<1> QED
  BY <1>3, <1>6, <1>7, <1>8 DEF Merges, now

-----------------------------------------------------------------------------
(* What the window says of the segments, kept by each of its operations. *)

\* What the window says of the segments: the index and the buffer lie ahead of
\* the merged prefix and are apart, and the index names cells of the spill file.
Sound(w) ==
  /\ w.bits = 1..w.merged \cup DOMAIN w.entries
  /\ DOMAIN w.entries \cap 1..w.merged = {} /\ w.pending \cap 1..w.merged = {}
  /\ DOMAIN w.entries \cap w.pending = {}
  /\ \A s \in DOMAIN w.entries : w.entries[s] < w.tail

Held(w) == w.bits \cup w.pending

\* The ledger of a checkpoint lies ahead of its prefix, inside the declared size.
Ahead(c) ==
  /\ DOMAIN c.ledger \cap 1..c.merged = {}
  /\ \A s \in DOMAIN c.ledger : c.ledger[s] < c.size

\* The segments a sound window holds are counted once.
LEMMA HeldCount ==
  ASSUME NEW w \in WinType, Sound(w)
  PROVE  /\ Held(w) \in SUBSET Segs
         /\ IsFiniteSet(DOMAIN w.entries) /\ IsFiniteSet(w.pending) /\ IsFiniteSet(Held(w))
         /\ Cardinality(DOMAIN w.entries) \in Nat /\ Cardinality(w.pending) \in Nat
         /\ Cardinality(Held(w)) =
              w.merged + Cardinality(DOMAIN w.entries) + Cardinality(w.pending)
         /\ Cardinality(w.bits) = w.merged + Cardinality(DOMAIN w.entries)
<1> DEFINE p == 1..w.merged
           e == DOMAIN w.entries
<1>1. /\ w.merged \in 0..NSeg /\ w.merged \in Nat /\ e \in SUBSET Segs
      /\ w.pending \in SUBSET Segs /\ w.bits \in SUBSET Segs
  BY LedgerIs, SegsFinite DEF WinType
<1>2. IsFiniteSet(e) /\ IsFiniteSet(w.pending) /\ IsFiniteSet(w.bits)
  BY <1>1, SegsFinite, FS_Subset
<1>3. IsFiniteSet(p) /\ Cardinality(p) = w.merged
  <2>1. w.merged \in Nat
    BY <1>1
  <2>2. \A n \in Nat : IsFiniteSet(1..n) /\ Cardinality(1..n) = n
    BY FS_Interval
  <2> QED
    BY <2>1, <2>2
<1>4. w.bits = p \cup e /\ p \cap e = {} /\ w.bits \cap w.pending = {}
  BY DEF Sound
<1>5. Cardinality(w.bits) = Cardinality(p) + Cardinality(e)
  <2>1. Cardinality(p \cap e) = 0
    BY <1>4, FS_EmptySet
  <2>2. Cardinality(p \cup e) = Cardinality(p) + Cardinality(e) - Cardinality(p \cap e)
    BY <1>2, <1>3, FS_Union
  <2> QED
    BY <1>2, <1>3, <1>4, <2>1, <2>2, FS_CardinalityType
<1>6. Cardinality(w.bits \cup w.pending) = Cardinality(w.bits) + Cardinality(w.pending)
  <2>1. Cardinality(w.bits \cap w.pending) = 0
    BY <1>4, FS_EmptySet
  <2>2. Cardinality(w.bits \cup w.pending) =
          Cardinality(w.bits) + Cardinality(w.pending) - Cardinality(w.bits \cap w.pending)
    BY <1>2, FS_Union
  <2> QED
    BY <1>2, <2>1, <2>2, FS_CardinalityType
<1>7. /\ Cardinality(e) \in Nat /\ Cardinality(w.pending) \in Nat
      /\ IsFiniteSet(w.bits \cup w.pending)
  BY <1>2, FS_CardinalityType, FS_Union
<1> QED
  BY <1>1, <1>2, <1>3, <1>5, <1>6, <1>7 DEF Held

\* A window opened from a checkpoint is sound.
LEMMA OpenedIs ==
  ASSUME NEW c \in CkptType, Ahead(c)
  PROVE  LET w == Opened(c) IN
         /\ w \in WinType /\ Sound(w) /\ w.pending = {} /\ w.merged = c.merged
         /\ w.entries = c.ledger /\ w.tail = c.size /\ (w.open <=> c.size > 0) /\ ~w.fault
         /\ w.bits = 1..c.merged \cup DOMAIN c.ledger
<1> DEFINE w == Opened(c)
<1>1. /\ c.merged \in 0..NSeg /\ c.ledger \in Ledgers /\ c.size \in Nat
      /\ DOMAIN c.ledger \in SUBSET Segs /\ 1..c.merged \in SUBSET Segs
  BY LedgerIs, SegsFinite DEF CkptType, Segs
<1>2. w = [merged |-> c.merged, bits |-> 1..c.merged \cup DOMAIN c.ledger,
           entries |-> c.ledger, tail |-> c.size, pending |-> {},
           open |-> c.size > 0, fault |-> FALSE]
  BY DEF Opened
<1> HIDE DEF w
<1>3. /\ w.pending = {} /\ w.merged = c.merged /\ w.entries = c.ledger /\ w.tail = c.size
      /\ (w.open <=> c.size > 0) /\ ~w.fault /\ w.bits = 1..c.merged \cup DOMAIN c.ledger
  BY <1>2
<1>4. w \in WinType
  <2>1. 1..c.merged \cup DOMAIN c.ledger \in SUBSET Segs /\ {} \in SUBSET Segs
    BY <1>1
  <2>2. (c.size > 0) \in BOOLEAN
    OBVIOUS
  <2> QED
    BY <1>1, <1>2, <2>1, <2>2 DEF WinType
<1>5. Sound(w)
  BY <1>3 DEF Sound, Ahead
<1> QED
  BY <1>3, <1>4, <1>5 DEF w

\* A checkpoint without its ledger.
LEMMA DemotedIs ==
  ASSUME NEW c \in CkptType
  PROVE  /\ Demote(c) \in CkptType /\ Ahead(Demote(c)) /\ Demote(c).merged = c.merged
         /\ Demote(c).ledger = Empty /\ Demote(c).size = 0
<1>1. Demote(c) = [merged |-> c.merged, ledger |-> Empty, size |-> 0]
  BY DEF Demote, Ckpt
<1>2. c.merged \in 0..NSeg /\ Empty \in Ledgers /\ DOMAIN Empty = {}
  BY EmptyLedger DEF CkptType
<1> QED
  BY <1>1, <1>2 DEF CkptType, Ahead

\* Merging segments that the window holds keeps it sound, and holds the same.
LEMMA MergeSound ==
  ASSUME NEW w \in WinType, Sound(w), NEW k \in Nat, w.merged + k <= NSeg, Merges(w, k),
         \A i \in w.merged + 1 .. w.merged + k : i \in w.pending \cup DOMAIN w.entries
  PROVE  Sound(win') /\ Held(win') = Held(w)
<1> DEFINE now == w.merged + 1 .. w.merged + k
           e == DOMAIN w.entries
<1>1. /\ w.merged \in Nat /\ e \in SUBSET Nat /\ w.pending \in SUBSET Nat
  BY LedgerIs, SegsFinite DEF WinType
<1>2. /\ w.bits = 1..w.merged \cup e /\ e \cap 1..w.merged = {} /\ w.pending \cap 1..w.merged = {}
      /\ e \cap w.pending = {} /\ \A s \in e : w.entries[s] < w.tail
  BY DEF Sound
<1>3. /\ win'.merged = w.merged + k /\ win'.bits = w.bits \cup now
      /\ win'.pending = w.pending \ now /\ DOMAIN win'.entries = e \ now
      /\ \A s \in DOMAIN win'.entries : win'.entries[s] = w.entries[s]
      /\ DOMAIN win'.entries # {} => win'.tail = w.tail
  BY DEF Merges
<1>4. 1..(w.merged + k) = 1..w.merged \cup now
  BY <1>1
<1>5. now \in SUBSET (w.pending \cup e)
  BY <1>1
<1> HIDE DEF now, e
<1>6. win'.bits = 1..win'.merged \cup DOMAIN win'.entries
  BY <1>2, <1>3, <1>4
<1>7. /\ DOMAIN win'.entries \cap 1..win'.merged = {} /\ win'.pending \cap 1..win'.merged = {}
      /\ DOMAIN win'.entries \cap win'.pending = {}
  BY <1>2, <1>3, <1>4
<1>8. \A s \in DOMAIN win'.entries : win'.entries[s] < win'.tail
  BY <1>2, <1>3
<1>9. win'.bits \cup win'.pending = w.bits \cup w.pending
  BY <1>2, <1>3, <1>5
<1> QED
  BY <1>6, <1>7, <1>8, <1>9 DEF Sound, Held

\* Draining up to the gap keeps the window sound.
LEMMA DrainSound ==
  ASSUME NEW w \in WinType, Sound(w),
         Drain(w, Contiguous(w)) \/ DrainFault(w, Contiguous(w))
  PROVE  win' \in WinType /\ Sound(win') /\ Held(win') = Held(w) /\ win'.open = w.open
<1> DEFINE n == Contiguous(w)
<1>1. /\ n \in Nat /\ w.merged + n <= NSeg /\ w.merged \in Nat
      /\ \A i \in w.merged + 1 .. w.merged + n : i \in w.pending \cup DOMAIN w.entries
  BY ContiguousRun, SegsFinite DEF WinType
<1> HIDE DEF n
<1>2. PICK k \in 0..n : Merges(w, k)
  <2>1. CASE Drain(w, n)
    BY <1>1, <2>1, DrainIs
  <2>2. CASE DrainFault(w, n)
    BY <1>1, <2>2, DrainFaultIs
  <2> QED
    BY <2>1, <2>2 DEF n
<1>3. /\ k \in Nat /\ w.merged + k <= NSeg
      /\ \A i \in w.merged + 1 .. w.merged + k : i \in w.pending \cup DOMAIN w.entries
  BY <1>1, SegsFinite
<1>4. Sound(win') /\ Held(win') = Held(w)
  BY <1>2, <1>3, MergeSound
<1> QED
  BY <1>2, <1>4 DEF Merges

\* One more segment in the buffer.
LEMMA BufferSound ==
  ASSUME NEW w \in WinType, Sound(w), NEW s \in Segs, s \notin Held(w)
  PROVE  LET d == [w EXCEPT !.pending = @ \cup {s}] IN
         /\ d \in WinType /\ Sound(d) /\ Held(d) = Held(w) \cup {s}
         /\ d.merged = w.merged /\ d.open = w.open /\ d.fault = w.fault
         /\ d.entries = w.entries /\ d.tail = w.tail /\ d.pending = w.pending \cup {s}
<1> DEFINE d == [w EXCEPT !.pending = @ \cup {s}]
<1>1. d = [merged |-> w.merged, bits |-> w.bits, entries |-> w.entries, tail |-> w.tail,
           pending |-> w.pending \cup {s}, open |-> w.open, fault |-> w.fault]
  BY DEF WinType
<1>2. /\ w.merged \in 0..NSeg /\ w.bits \in SUBSET Segs /\ w.entries \in Ledgers
      /\ w.tail \in Nat /\ w.pending \cup {s} \in SUBSET Segs
  BY DEF WinType
<1>3. w.open \in BOOLEAN /\ w.fault \in BOOLEAN
  BY DEF WinType
<1> HIDE DEF d
<1>4. d \in WinType
  BY <1>1, <1>2, <1>3 DEF WinType
<1>5. /\ d.merged = w.merged /\ d.open = w.open /\ d.fault = w.fault /\ d.bits = w.bits
      /\ d.entries = w.entries /\ d.tail = w.tail /\ d.pending = w.pending \cup {s}
  BY <1>1
<1>6. Sound(d) /\ Held(d) = Held(w) \cup {s}
  BY <1>5 DEF Sound, Held
<1> QED
  BY <1>4, <1>5, <1>6 DEF d

\* A spill of new or buffered segments keeps the window sound.
LEMMA SpillSound ==
  ASSUME win \in WinType, Sound(win), NEW ss \in Seq(Segs), Spill(ss),
         Range(ss) \cap win.bits = {}
  PROVE  win' \in WinType /\ Sound(win') /\ Held(win') = Held(win) \cup Range(ss)
<1> DEFINE r == Range(ss)
<1>1. /\ win.merged \in Nat /\ win.tail \in Nat /\ Len(ss) \in Nat
      /\ \A s \in DOMAIN win.entries : win.entries[s] \in Nat
  BY SegsFinite, LedgerIs DEF WinType
<1>2. /\ win' \in WinType /\ win'.merged = win.merged
      /\ win'.bits = win.bits \cup r /\ win'.pending = win.pending \ r
      /\ DOMAIN win'.entries = DOMAIN win.entries \cup r
      /\ win'.tail = win.tail + Len(ss)
      /\ \A s \in r : \E i \in 1..Len(ss) : ss[i] = s /\ win'.entries[s] = win.tail + i - 1
      /\ \A s \in DOMAIN win.entries \ r : win'.entries[s] = win.entries[s]
  BY SpillIs
<1>3. r \cap win.bits = {}
  OBVIOUS
<1> HIDE DEF r
<1>4. \A s \in DOMAIN win'.entries : win'.entries[s] < win'.tail
  <2> TAKE s \in DOMAIN win'.entries
  <2>1. CASE s \in r
    BY <1>1, <1>2, <2>1
  <2>2. CASE s \notin r
    <3>1. s \in DOMAIN win.entries /\ win'.entries[s] = win.entries[s]
      BY <1>2, <2>2
    <3>2. win.entries[s] < win.tail
      BY <3>1 DEF Sound
    <3> QED
      BY <1>1, <1>2, <3>1, <3>2
  <2> QED
    BY <2>1, <2>2
<1>5. /\ win'.bits = 1..win'.merged \cup DOMAIN win'.entries
      /\ DOMAIN win'.entries \cap 1..win'.merged = {} /\ win'.pending \cap 1..win'.merged = {}
      /\ DOMAIN win'.entries \cap win'.pending = {}
  <2>1. /\ win.bits = 1..win.merged \cup DOMAIN win.entries
        /\ DOMAIN win.entries \cap 1..win.merged = {} /\ win.pending \cap 1..win.merged = {}
        /\ DOMAIN win.entries \cap win.pending = {}
    BY DEF Sound
  <2> QED
    BY <1>2, <1>3, <2>1
<1>6. Held(win') = Held(win) \cup r
  BY <1>2 DEF Held
<1> QED
  BY <1>2, <1>4, <1>5, <1>6 DEF Sound, r

-----------------------------------------------------------------------------
(* Workers and their attempts. *)

Pcs == {"off", "pop", "try", "ref", "net", "gate", "commit", "first", "wait", "bad"}
Holding == {"try", "ref", "net", "gate", "commit", "wait", "bad"}
Stops == {"none", "kill", "stall", "drain"}
Errs == {"none", "cancel", "refused", "denied", "transport", "io"}
Record == [pc: Pcs, seg: 0..NSeg, stop: Stops, drain: BOOLEAN, cred: 0..1, err: Errs]

\* A worker with a lease holds a segment, one without has none, and the body of its attempt counts from
\* the fetch to the end of the attempt.
Attempt ==
  {a \in Record :
     /\ a.pc \in Holding => a.seg \in Segs
     /\ a.pc = "pop" => a.seg = 0
     /\ a.cred = 1 => a.pc \in {"gate", "commit", "bad"}
     /\ a.pc \in {"gate", "commit"} => a.cred = 1}

Teams == [Workers -> Attempt]

\* The worker w has the attempt a, and nothing else changed.
Becomes(w, a) == wk' = [wk EXCEPT ![w] = a]

\* An attempt is the record of its fields.
LEMMA AttemptIs ==
  ASSUME NEW a \in Attempt
  PROVE  /\ a.pc \in Pcs /\ a.seg \in 0..NSeg /\ a.stop \in Stops /\ a.drain \in BOOLEAN
         /\ a.cred \in 0..1 /\ a.err \in Errs
         /\ (a.pc \in Holding => a.seg \in Segs)
         /\ (a.pc = "pop" => a.seg = 0)
         /\ (a.cred = 1 => a.pc \in {"gate", "commit", "bad"})
         /\ (a.pc \in {"gate", "commit"} => a.cred = 1)
         /\ a = [pc |-> a.pc, seg |-> a.seg, stop |-> a.stop, drain |-> a.drain,
                 cred |-> a.cred, err |-> a.err]
<1>1. a \in Record
  BY DEF Attempt
<1> QED
  BY <1>1 DEF Attempt, Record

\* Fields of the right kind make an attempt.
LEMMA AttemptOf ==
  ASSUME NEW p \in Pcs, NEW s \in 0..NSeg, NEW t \in Stops, NEW d \in BOOLEAN,
         NEW c \in 0..1, NEW e \in Errs, p \in Holding => s \in Segs,
         p = "pop" => s = 0, c = 1 => p \in {"gate", "commit", "bad"}, p \in {"gate", "commit"} => c = 1
  PROVE  LET a == [pc |-> p, seg |-> s, stop |-> t, drain |-> d, cred |-> c, err |-> e]
         IN  /\ a \in Attempt /\ a.pc = p /\ a.seg = s /\ a.stop = t /\ a.drain = d
             /\ a.cred = c /\ a.err = e
<1> DEFINE a == [pc |-> p, seg |-> s, stop |-> t, drain |-> d, cred |-> c, err |-> e]
<1>1. a \in Record
  BY DEF Record
<1>2. /\ a.pc = p /\ a.seg = s /\ a.stop = t /\ a.drain = d /\ a.cred = c /\ a.err = e
  OBVIOUS
<1> HIDE DEF a
<1>3. a \in Attempt
  BY <1>1, <1>2 DEF Attempt
<1> QED
  BY <1>2, <1>3 DEF a

\* One worker's step leaves the others as they are.
LEMMA BecomesIs ==
  ASSUME wk \in Teams, NEW w \in Workers, NEW a \in Attempt, Becomes(w, a)
  PROVE  /\ wk' \in Teams /\ wk'[w] = a
         /\ \A v \in Workers \ {w} : wk'[v] = wk[v]
BY DEF Teams, Becomes

\* A worker that leaves, or returns to the top of its loop, has no attempt.
LEMMA IdleIs ==
  /\ Off \in Attempt /\ Off.pc = "off" /\ Off.cred = 0 /\ Off.err = "none" /\ Off.stop = "none"
  /\ Parked \in Attempt /\ Parked.pc = "pop" /\ Parked.cred = 0 /\ Parked.err = "none"
  /\ Parked.stop = "none"
  /\ \A d \in BOOLEAN : LET a == [Parked EXCEPT !.drain = d] IN
       a \in Attempt /\ a.pc = "pop" /\ a.cred = 0 /\ a.err = "none" /\ a.stop = "none"
<1>1. 0 \in 0..NSeg /\ 0 \in 0..1
  BY SegsFinite
<1>2. Off = [pc |-> "off", seg |-> 0, stop |-> "none", drain |-> FALSE, cred |-> 0, err |-> "none"]
  BY DEF Off
<1>3. Parked = [pc |-> "pop", seg |-> 0, stop |-> "none", drain |-> FALSE, cred |-> 0, err |-> "none"]
  <2>1. \A d \in BOOLEAN :
          [[pc |-> "off", seg |-> 0, stop |-> "none", drain |-> d, cred |-> 0, err |-> "none"]
             EXCEPT !.pc = "pop"]
          = [pc |-> "pop", seg |-> 0, stop |-> "none", drain |-> d, cred |-> 0, err |-> "none"]
    OBVIOUS
  <2> QED
    BY <1>2, <2>1 DEF Parked
<1>4. Off \in Attempt /\ Off.pc = "off" /\ Off.cred = 0 /\ Off.err = "none" /\ Off.stop = "none"
  <2>1. "off" \in Pcs /\ "off" \notin Holding /\ "off" \notin {"gate", "commit"}
    BY DEF Pcs, Holding
  <2>2. "none" \in Stops /\ "none" \in Errs /\ FALSE \in BOOLEAN
    BY DEF Stops, Errs
  <2>3. \A d \in BOOLEAN :
          LET a == [pc |-> "off", seg |-> 0, stop |-> "none", drain |-> d, cred |-> 0, err |-> "none"]
          IN  a \in Attempt /\ a.pc = "off" /\ a.cred = 0 /\ a.err = "none" /\ a.stop = "none"
    BY <1>1, <2>1, <2>2, AttemptOf
  <2> QED
    BY <1>2, <2>3
<1>5. \A d \in BOOLEAN :
        LET a == [pc |-> "pop", seg |-> 0, stop |-> "none", drain |-> d, cred |-> 0, err |-> "none"]
        IN  a \in Attempt /\ a.pc = "pop" /\ a.cred = 0 /\ a.err = "none" /\ a.stop = "none"
  <2>1. "pop" \in Pcs /\ "pop" \notin Holding /\ "pop" \notin {"gate", "commit"}
    BY DEF Pcs, Holding
  <2>2. "none" \in Stops /\ "none" \in Errs
    BY DEF Stops, Errs
  <2> QED
    BY <1>1, <2>1, <2>2, AttemptOf
<1>6. Parked \in Attempt /\ Parked.pc = "pop" /\ Parked.cred = 0 /\ Parked.err = "none" /\ Parked.stop = "none"
  BY <1>3, <1>5
<1>7. \A d \in BOOLEAN : [Parked EXCEPT !.drain = d] =
        [pc |-> "pop", seg |-> 0, stop |-> "none", drain |-> d, cred |-> 0, err |-> "none"]
  BY <1>3
<1> QED
  BY <1>4, <1>5, <1>6, <1>7

\* A worker moves on with the same attempt.
LEMMA GotoIs ==
  ASSUME wk \in Teams, NEW w \in Workers, NEW p \in Pcs, Goto(w, p),
         p \in Holding => Lease(w) \in Segs, wk[w].cred = 1 => p \in {"gate", "commit", "bad"},
         p \in {"gate", "commit"} => wk[w].cred = 1, p # "pop"
  PROVE  /\ wk' \in Teams /\ \A v \in Workers \ {w} : wk'[v] = wk[v]
         /\ wk'[w].pc = p /\ wk'[w].seg = wk[w].seg /\ wk'[w].cred = wk[w].cred
         /\ wk'[w].err = wk[w].err /\ wk'[w].stop = wk[w].stop
<1> DEFINE a == wk[w]
           b == [pc |-> p, seg |-> a.seg, stop |-> a.stop, drain |-> a.drain,
                 cred |-> a.cred, err |-> a.err]
<1>1. a \in Attempt
  BY DEF Teams
<1>2. b \in Attempt /\ b.pc = p /\ b.seg = a.seg /\ b.cred = a.cred /\ b.err = a.err /\ b.stop = a.stop
  BY <1>1, AttemptIs, AttemptOf DEF Lease
<1>3. [a EXCEPT !.pc = p] = b
  BY <1>1, AttemptIs
<1>4. wk' = [wk EXCEPT ![w] = [a EXCEPT !.pc = p]]
  BY DEF Goto
<1>5. Becomes(w, b)
  BY <1>3, <1>4 DEF Becomes
<1> HIDE DEF b
<1> QED
  BY <1>2, <1>5, BecomesIs

\* An attempt fails with an error.
LEMMA BadIs ==
  ASSUME wk \in Teams, NEW w \in Workers, NEW e \in Errs, Bad(w, e), Lease(w) \in Segs
  PROVE  /\ wk' \in Teams /\ \A v \in Workers \ {w} : wk'[v] = wk[v]
         /\ wk'[w].pc = "bad" /\ wk'[w].seg = wk[w].seg /\ wk'[w].cred = wk[w].cred
         /\ wk'[w].err = e /\ wk'[w].stop = wk[w].stop
<1> DEFINE a == wk[w]
           b == [pc |-> "bad", seg |-> a.seg, stop |-> a.stop, drain |-> a.drain,
                 cred |-> a.cred, err |-> e]
<1>1. a \in Attempt /\ a.seg \in Segs
  BY DEF Teams, Lease
<1>2. b \in Attempt /\ b.pc = "bad" /\ b.seg = a.seg /\ b.cred = a.cred /\ b.err = e /\ b.stop = a.stop
  <2>1. "bad" \in Pcs /\ "bad" \notin {"gate", "commit"} /\ "bad" \in {"gate", "commit", "bad"}
    BY DEF Pcs
  <2>2. /\ a.seg \in 0..NSeg /\ a.stop \in Stops /\ a.drain \in BOOLEAN /\ a.cred \in 0..1
    BY <1>1, AttemptIs
  <2> QED
    BY <1>1, <2>1, <2>2, AttemptOf
<1> DEFINE c == [pc |-> "bad", seg |-> a.seg, stop |-> a.stop, drain |-> a.drain,
                 cred |-> a.cred, err |-> a.err]
<1>3. [[a EXCEPT !.pc = "bad"] EXCEPT !.err = e] = b
  <2>1. [a EXCEPT !.pc = "bad"] = c
    BY <1>1, AttemptIs
  <2>2. [c EXCEPT !.err = e] = b
    OBVIOUS
  <2> QED
    BY <2>1, <2>2
<1>4. wk' = [wk EXCEPT ![w] = [[a EXCEPT !.pc = "bad"] EXCEPT !.err = e]]
  BY DEF Bad, Teams
<1>5. Becomes(w, b)
  BY <1>3, <1>4 DEF Becomes
<1> HIDE DEF b
<1> QED
  BY <1>2, <1>5, BecomesIs

\* A worker leaves, or returns to the top of its loop.
LEMMA IdleAgain ==
  ASSUME wk \in Teams, NEW w \in Workers, Exit(w) \/ Loop(w)
  PROVE  /\ wk' \in Teams /\ \A v \in Workers \ {w} : wk'[v] = wk[v]
         /\ wk'[w].pc \in {"off", "pop"} /\ wk'[w].cred = 0 /\ wk'[w].err = "none"
<1>1. CASE Exit(w)
  <2>1. Becomes(w, Off)
    BY <1>1 DEF Exit, Becomes
  <2> QED
    BY <2>1, IdleIs, BecomesIs
<1>2. CASE Loop(w)
  <2> DEFINE a == [Parked EXCEPT !.drain = wk[w].drain]
  <2>1. Becomes(w, a)
    BY <1>2 DEF Loop, Becomes
  <2>2. wk[w].drain \in BOOLEAN
    BY AttemptIs DEF Teams
  <2>3. a \in Attempt /\ a.pc = "pop" /\ a.cred = 0 /\ a.err = "none"
    BY <2>2, IdleIs
  <2> HIDE DEF a
  <2> QED
    BY <2>1, <2>3, BecomesIs
<1> QED
  BY <1>1, <1>2

-----------------------------------------------------------------------------
(* The queue. *)

States == {"ready", "leased", "done"}
QueueType == [ready: Seq(Segs), state: [Segs -> States], left: Int, closed: BOOLEAN]

\* The sequence r lists the members of X, each once.
Lists(r, X) ==
  /\ \A i \in 1..Len(r) : r[i] \in X
  /\ \A i, j \in 1..Len(r) : r[i] = r[j] => i = j
  /\ \A s \in X : \E i \in 1..Len(r) : r[i] = s

\* A new head is listed with the rest.
LEMMA PushLists ==
  ASSUME NEW r \in Seq(Segs), NEW X, Lists(r, X), NEW s \in Segs, s \notin X
  PROVE  LET q == <<s>> \o r IN q \in Seq(Segs) /\ q[1] = s /\ Lists(q, X \cup {s})
<1> DEFINE q == <<s>> \o r
<1>1. q \in Seq(Segs) /\ Len(q) = Len(r) + 1 /\ Len(r) \in Nat
  OBVIOUS
<1>2. q[1] = s /\ \A i \in 1..Len(r) : q[i + 1] = r[i]
  OBVIOUS
<1>3. \A i \in 1..Len(q) : i = 1 \/ (i - 1 \in 1..Len(r) /\ q[i] = r[i - 1])
  <2> TAKE i \in 1..Len(q)
  <2>1. CASE i # 1
    <3>1. i - 1 \in 1..Len(r) /\ (i - 1) + 1 = i
      BY <1>1, <2>1
    <3> QED
      BY <1>2, <3>1
  <2> QED
    BY <2>1
<1> HIDE DEF q
<1>4. \A i \in 1..Len(q) : q[i] \in X \cup {s}
  BY <1>2, <1>3 DEF Lists
<1>5. \A i, j \in 1..Len(q) : q[i] = q[j] => i = j
  <2> SUFFICES ASSUME NEW i \in 1..Len(q), NEW j \in 1..Len(q), q[i] = q[j]
               PROVE  i = j
    OBVIOUS
  <2>1. CASE i = 1 /\ j # 1
    BY <1>2, <1>3, <2>1 DEF Lists
  <2>2. CASE i # 1 /\ j = 1
    <3>1. i - 1 \in 1..Len(r) /\ q[i] = r[i - 1]
      BY <1>3, <2>2
    <3>2. r[i - 1] \in X
      BY <3>1 DEF Lists
    <3> QED
      BY <1>2, <2>2, <3>1, <3>2
  <2>3. CASE i # 1 /\ j # 1
    <3>1. i - 1 = j - 1
      BY <1>3, <2>3 DEF Lists
    <3> QED
      BY <1>1, <3>1
  <2> QED
    BY <2>1, <2>2, <2>3
<1>6. \A t \in X \cup {s} : \E i \in 1..Len(q) : q[i] = t
  <2> TAKE t \in X \cup {s}
  <2>1. CASE t = s
    BY <1>1, <1>2, <2>1
  <2>2. CASE t \in X
    <3>1. PICK i \in 1..Len(r) : r[i] = t
      BY <2>2 DEF Lists
    <3>2. i + 1 \in 1..Len(q) /\ q[i + 1] = t
      BY <1>1, <1>2, <3>1
    <3> QED
      BY <3>2
  <2> QED
    BY <2>1, <2>2
<1>7. Lists(q, X \cup {s})
  BY <1>4, <1>5, <1>6 DEF Lists
<1> QED
  BY <1>1, <1>2, <1>7 DEF q

\* Without its head a list has the rest.
LEMMA PopLists ==
  ASSUME NEW r \in Seq(Segs), r # << >>, NEW X, Lists(r, X)
  PROVE  /\ Head(r) \in X /\ Head(r) = r[1] /\ Head(r) \in Segs /\ Tail(r) \in Seq(Segs)
         /\ Lists(Tail(r), X \ {Head(r)})
<1> DEFINE q == Tail(r)
           h == Head(r)
<1>1. /\ q \in Seq(Segs) /\ Len(r) \in Nat /\ Len(r) >= 1 /\ Len(q) = Len(r) - 1
      /\ h = r[1] /\ h \in Segs
  OBVIOUS
<1>2. \A i \in 1..Len(q) : q[i] = r[i + 1] /\ i + 1 \in 1..Len(r)
  OBVIOUS
<1> HIDE DEF q, h
<1>3. \A i \in 1..Len(q) : q[i] \in X \ {h}
  <2> TAKE i \in 1..Len(q)
  <2>1. r[i + 1] \in X
    BY <1>2 DEF Lists
  <2>2. r[i + 1] # r[1]
    <3>1. 1 \in 1..Len(r) /\ i + 1 \in 1..Len(r) /\ i + 1 # 1
      BY <1>1, <1>2
    <3> QED
      BY <3>1 DEF Lists
  <2> QED
    BY <1>1, <1>2, <2>1, <2>2
<1>4. \A i, j \in 1..Len(q) : q[i] = q[j] => i = j
  <2> SUFFICES ASSUME NEW i \in 1..Len(q), NEW j \in 1..Len(q), q[i] = q[j]
               PROVE  i = j
    OBVIOUS
  <2>1. i + 1 = j + 1
    BY <1>2 DEF Lists
  <2> QED
    BY <1>1, <2>1
<1>5. \A t \in X \ {h} : \E i \in 1..Len(q) : q[i] = t
  <2> TAKE t \in X \ {h}
  <2>1. PICK i \in 1..Len(r) : r[i] = t
    BY DEF Lists
  <2>2. i - 1 \in 1..Len(q) /\ (i - 1) + 1 = i
    BY <1>1, <2>1
  <2>3. q[i - 1] = t
    BY <1>2, <2>1, <2>2
  <2> QED
    BY <2>2, <2>3
<1>6. Lists(q, X \ {h}) /\ h \in X
  BY <1>1, <1>3, <1>4, <1>5 DEF Lists
<1> QED
  BY <1>1, <1>6 DEF q, h

\* A lease that ends returns its segment to the head of an open queue.
LEMMA RequeueIs ==
  ASSUME queue \in QueueType, NEW s \in Segs, queue.state[s] = "leased"
  PROVE  LET q == Requeue(queue, s) IN
         /\ q \in QueueType /\ q.state = [queue.state EXCEPT ![s] = "ready"]
         /\ q.left = queue.left /\ q.closed = queue.closed
         /\ ~queue.closed => q.ready = <<s>> \o queue.ready
<1>1. /\ queue.ready \in Seq(Segs) /\ queue.state \in [Segs -> States]
      /\ queue.left \in Int /\ queue.closed \in BOOLEAN
  BY DEF QueueType
<1> DEFINE st == [queue.state EXCEPT ![s] = "ready"]
<1>2. st \in [Segs -> States]
  BY <1>1 DEF States
<1>3. PICK r : /\ r = IF queue.closed THEN queue.ready ELSE <<s>> \o queue.ready
               /\ r \in Seq(Segs)
  <2>1. <<s>> \o queue.ready \in Seq(Segs)
    BY <1>1
  <2>2. CASE queue.closed
    BY <1>1, <2>2
  <2>3. CASE ~queue.closed
    BY <2>1, <2>3
  <2> QED
    BY <2>2, <2>3
<1> DEFINE q == [ready |-> r, state |-> st, left |-> queue.left, closed |-> queue.closed]
<1>4. Requeue(queue, s) = [[queue EXCEPT !.state = st] EXCEPT !.ready = r]
  <2>1. CASE queue.closed
    BY <1>3, <2>1 DEF Requeue, QueueType
  <2>2. CASE ~queue.closed
    BY <1>3, <2>2 DEF Requeue, QueueType
  <2> QED
    BY <2>1, <2>2
<1>5. Requeue(queue, s) = q
  BY <1>4 DEF QueueType
<1>6. q \in QueueType
  BY <1>1, <1>2, <1>3 DEF QueueType
<1> QED
  BY <1>3, <1>5, <1>6

\* An accepted segment is done; with the last one the queue closes.
LEMMA FinishIs ==
  ASSUME queue \in QueueType, NEW s \in Segs, queue.state[s] = "leased"
  PROVE  LET q == Finish(queue, s) IN
         /\ q \in QueueType /\ q.state = [queue.state EXCEPT ![s] = "done"]
         /\ q.ready = queue.ready /\ q.left = queue.left - 1
         /\ q.closed => queue.closed \/ queue.left = 1
<1>1. /\ queue.ready \in Seq(Segs) /\ queue.state \in [Segs -> States]
      /\ queue.left \in Int /\ queue.closed \in BOOLEAN
  BY DEF QueueType
<1> DEFINE st == [queue.state EXCEPT ![s] = "done"]
<1>2. st \in [Segs -> States]
  BY <1>1 DEF States
<1>3. PICK c \in BOOLEAN : c <=> queue.closed \/ queue.left = 1
  OBVIOUS
<1>4. PICK n \in Int : n = queue.left - 1
  BY <1>1
<1> DEFINE q == [ready |-> queue.ready, state |-> st, left |-> n, closed |-> c]
<1>5. Finish(queue, s) = [[[queue EXCEPT !.state = st] EXCEPT !.left = n] EXCEPT !.closed = c]
  <2>1. Finish(queue, s) = [queue EXCEPT !.state[s] = "done", !.left = @ - 1,
                                         !.closed = @ \/ queue.left = 1]
    BY DEF Finish
  <2>2. (queue.closed \/ queue.left = 1) = c
    BY <1>1, <1>3
  <2> QED
    BY <1>4, <2>1, <2>2 DEF QueueType
<1>6. [[[queue EXCEPT !.state = st] EXCEPT !.left = n] EXCEPT !.closed = c] = q
  <2> DEFINE q1 == [ready |-> queue.ready, state |-> st, left |-> queue.left,
                    closed |-> queue.closed]
             q2 == [ready |-> queue.ready, state |-> st, left |-> n, closed |-> queue.closed]
  <2> HIDE DEF st
  <2>1. [queue EXCEPT !.state = st] = q1
    BY DEF QueueType
  <2>2. [q1 EXCEPT !.left = n] = q2
    OBVIOUS
  <2>3. [q2 EXCEPT !.closed = c] = q
    OBVIOUS
  <2> QED
    BY <2>1, <2>2, <2>3
<1>7. q \in QueueType
  BY <1>1, <1>2 DEF QueueType
<1>8. q.closed => queue.closed \/ queue.left = 1
  BY <1>3
<1> HIDE DEF st
<1> QED
  BY <1>4, <1>5, <1>6, <1>7, <1>8 DEF st

\* A closed queue keeps the rest of its state.
LEMMA ClosedIs ==
  ASSUME NEW q \in QueueType
  PROVE  /\ Closed(q) \in QueueType /\ Closed(q).state = q.state /\ Closed(q).left = q.left
         /\ Closed(q).ready = q.ready
<1>1. PICK c \in BOOLEAN : c = TRUE
  OBVIOUS
<1>2. Closed(q) = [q EXCEPT !.closed = c]
  BY <1>1 DEF Closed
<1>3. Closed(q) = [ready |-> q.ready, state |-> q.state, left |-> q.left, closed |-> c]
  BY <1>2 DEF QueueType
<1> QED
  BY <1>3 DEF QueueType

-----------------------------------------------------------------------------
(* Checkpoints, and the engine of a run. *)

Checkpoints == {c \in CkptType : Ahead(c)}

EngType == [open: BOOLEAN, fatal: BOOLEAN, paused: BOOLEAN, first: Nat, base: Nat,
            rec: Checkpoints \cup {NoCkpt}]
UrlType == [gen: Nat, alive: Nat, flight: BOOLEAN, cool: BOOLEAN]
TaskType == [retries: Nat, mark: BOOLEAN, seen: Nat]

\* The checkpoints the code makes: none yet, the merged prefix, a ledger given
\* up, and all of a sound window.
LEMMA MadeCheckpoints ==
  /\ ZeroSeed \in Checkpoints /\ ZeroSeed.merged = 0 /\ DOMAIN ZeroSeed.ledger = {}
  /\ ZeroSeed.size = 0
  /\ win \in WinType => MergedPrefix \in Checkpoints /\ MergedPrefix.merged = win.merged
                        /\ DOMAIN MergedPrefix.ledger = {} /\ MergedPrefix.size = 0
  /\ \A c \in CkptType : Demote(c) \in Checkpoints
  /\ \A w \in WinType : Sound(w) => Ckpt(w.merged, w.entries, w.tail) \in Checkpoints
  /\ NoCkpt \notin Checkpoints
<1>1. \A m \in 0..NSeg : /\ Ckpt(m, Empty, 0) \in Checkpoints /\ Ckpt(m, Empty, 0).merged = m
                         /\ Ckpt(m, Empty, 0).ledger = Empty /\ Ckpt(m, Empty, 0).size = 0
  <2> TAKE m \in 0..NSeg
  <2>1. Ckpt(m, Empty, 0) = [merged |-> m, ledger |-> Empty, size |-> 0]
    BY DEF Ckpt
  <2>2. Ckpt(m, Empty, 0) \in CkptType /\ Ckpt(m, Empty, 0).ledger = Empty
    BY <2>1, EmptyLedger DEF CkptType
  <2>3. Ckpt(m, Empty, 0).merged = m /\ Ckpt(m, Empty, 0).size = 0
    BY <2>1
  <2> QED
    BY <2>2, <2>3, EmptyLedger DEF Checkpoints, Ahead
<1>2. 0 \in 0..NSeg
  BY SegsFinite
<1>3. ZeroSeed \in Checkpoints /\ ZeroSeed.merged = 0 /\ DOMAIN ZeroSeed.ledger = {} /\ ZeroSeed.size = 0
  BY <1>1, <1>2, EmptyLedger DEF ZeroSeed
<1>4. win \in WinType => MergedPrefix \in Checkpoints /\ MergedPrefix.merged = win.merged
                        /\ DOMAIN MergedPrefix.ledger = {} /\ MergedPrefix.size = 0
  BY <1>1, EmptyLedger DEF MergedPrefix, WinType
<1>5. \A c \in CkptType : Demote(c) \in Checkpoints
  BY DemotedIs DEF Checkpoints
<1>6. ASSUME NEW w \in WinType, Sound(w)
      PROVE  Ckpt(w.merged, w.entries, w.tail) \in Checkpoints
  <2>1. Ckpt(w.merged, w.entries, w.tail) =
          [merged |-> w.merged, ledger |-> w.entries, size |-> w.tail]
    BY DEF Ckpt
  <2>2. Ckpt(w.merged, w.entries, w.tail) \in CkptType
    BY <2>1 DEF WinType, CkptType
  <2>3. /\ Ckpt(w.merged, w.entries, w.tail).merged = w.merged
        /\ Ckpt(w.merged, w.entries, w.tail).ledger = w.entries
        /\ Ckpt(w.merged, w.entries, w.tail).size = w.tail
    BY <2>1
  <2> QED
    BY <1>6, <2>2, <2>3 DEF Checkpoints, Ahead, Sound
<1>7. NoCkpt \notin Checkpoints
  <2>1. NoCkpt.merged = NSeg + 1
    BY DEF NoCkpt, Ckpt
  <2>2. NSeg + 1 \notin 0..NSeg
    BY SegsFinite
  <2> QED
    BY <2>1, <2>2 DEF Checkpoints, CkptType
<1> QED
  BY <1>3, <1>4, <1>5, <1>6, <1>7

\* What may happen to the engine.
LEMMA EngineSteps ==
  ASSUME eng \in EngType
  PROVE  /\ Fatal => eng' \in EngType /\ eng'.fatal /\ eng'.paused = eng.paused
                     /\ eng'.open = eng.open /\ eng'.first = eng.first /\ eng'.rec = eng.rec
                     /\ eng'.base = eng.base
         /\ eng' = [eng EXCEPT !.paused = TRUE] =>
              eng' \in EngType /\ eng'.paused /\ eng'.fatal = eng.fatal
              /\ eng'.open = eng.open /\ eng'.first = eng.first /\ eng'.rec = eng.rec
              /\ eng'.base = eng.base
         /\ eng' = [eng EXCEPT !.open = TRUE] =>
              eng' \in EngType /\ eng'.open /\ eng'.fatal = eng.fatal
              /\ eng'.paused = eng.paused /\ eng'.first = eng.first /\ eng'.rec = eng.rec
              /\ eng'.base = eng.base
         /\ \A c \in Checkpoints : Keep(c) =>
              eng' \in EngType /\ eng'.rec = c /\ eng'.open = eng.open
<1>1. PICK t \in BOOLEAN : t = TRUE
  OBVIOUS
<1>2. Fatal => eng' = [eng EXCEPT !.fatal = t]
  BY <1>1 DEF Fatal
<1>3. eng' = [eng EXCEPT !.paused = TRUE] => eng' = [eng EXCEPT !.paused = t]
  BY <1>1
<1>4. eng' = [eng EXCEPT !.open = TRUE] => eng' = [eng EXCEPT !.open = t]
  BY <1>1
<1>5. eng' = [eng EXCEPT !.fatal = t] =>
        eng' = [open |-> eng.open, fatal |-> t, paused |-> eng.paused, first |-> eng.first,
                base |-> eng.base, rec |-> eng.rec]
  BY DEF EngType
<1>6. eng' = [eng EXCEPT !.paused = t] =>
        eng' = [open |-> eng.open, fatal |-> eng.fatal, paused |-> t, first |-> eng.first,
                base |-> eng.base, rec |-> eng.rec]
  BY DEF EngType
<1>7. eng' = [eng EXCEPT !.open = t] =>
        eng' = [open |-> t, fatal |-> eng.fatal, paused |-> eng.paused, first |-> eng.first,
                base |-> eng.base, rec |-> eng.rec]
  BY DEF EngType
<1>8. \A c \in Checkpoints : Keep(c) =>
        eng' = [open |-> eng.open, fatal |-> eng.fatal, paused |-> eng.paused,
                first |-> eng.first, base |-> eng.base, rec |-> c]
  BY DEF EngType, Keep
<1>9. /\ eng.open \in BOOLEAN /\ eng.fatal \in BOOLEAN /\ eng.paused \in BOOLEAN
      /\ eng.first \in Nat /\ eng.base \in Nat /\ eng.rec \in Checkpoints \cup {NoCkpt}
  BY DEF EngType
<1>10. ASSUME Fatal
       PROVE  /\ eng' \in EngType /\ eng'.fatal /\ eng'.paused = eng.paused
              /\ eng'.open = eng.open /\ eng'.first = eng.first /\ eng'.rec = eng.rec
              /\ eng'.base = eng.base
  <2>1. eng' = [open |-> eng.open, fatal |-> t, paused |-> eng.paused, first |-> eng.first,
                base |-> eng.base, rec |-> eng.rec]
    BY <1>2, <1>5, <1>10
  <2> QED
    BY <1>1, <1>9, <2>1 DEF EngType
<1>11. ASSUME eng' = [eng EXCEPT !.paused = TRUE]
       PROVE  /\ eng' \in EngType /\ eng'.paused /\ eng'.fatal = eng.fatal
              /\ eng'.open = eng.open /\ eng'.first = eng.first /\ eng'.rec = eng.rec
              /\ eng'.base = eng.base
  <2>1. eng' = [open |-> eng.open, fatal |-> eng.fatal, paused |-> t, first |-> eng.first,
                base |-> eng.base, rec |-> eng.rec]
    BY <1>3, <1>6, <1>11
  <2> QED
    BY <1>1, <1>9, <2>1 DEF EngType
<1>12. ASSUME eng' = [eng EXCEPT !.open = TRUE]
       PROVE  /\ eng' \in EngType /\ eng'.open /\ eng'.fatal = eng.fatal
              /\ eng'.paused = eng.paused /\ eng'.first = eng.first /\ eng'.rec = eng.rec
              /\ eng'.base = eng.base
  <2>1. eng' = [open |-> t, fatal |-> eng.fatal, paused |-> eng.paused, first |-> eng.first,
                base |-> eng.base, rec |-> eng.rec]
    BY <1>4, <1>7, <1>12
  <2> QED
    BY <1>1, <1>9, <2>1 DEF EngType
<1>13. ASSUME NEW c \in Checkpoints, Keep(c)
       PROVE  eng' \in EngType /\ eng'.rec = c /\ eng'.open = eng.open
  <2>1. eng' = [open |-> eng.open, fatal |-> eng.fatal, paused |-> eng.paused,
                first |-> eng.first, base |-> eng.base, rec |-> c]
    BY <1>8, <1>13
  <2> QED
    BY <1>9, <2>1 DEF EngType
<1> QED
  BY <1>10, <1>11, <1>12, <1>13

\* The state without a run.
QuietNow ==
  /\ win \in WinType /\ ~win.open /\ ~win.fault /\ win.pending = {} /\ queue \in QueueType
  /\ task \in [Segs -> TaskType] /\ (\A s \in Segs : ~task[s].mark /\ task[s].seen = 0)
  /\ wk \in Teams /\ (\A w \in Workers : wk[w] = Off)
  /\ eng \in EngType /\ eng.rec = NoCkpt /\ ~eng.open
  /\ url \in UrlType /\ ~url.flight /\ url.gen = 0 /\ url.alive = 0

\* The values that Quiet and Init give are of their types.
LEMMA QuietValues ==
  /\ Shut \in WinType /\ ~Shut.open /\ ~Shut.fault /\ Shut.pending = {}
  /\ NoQueue \in QueueType
  /\ FreshTask \in TaskType /\ ~FreshTask.mark /\ FreshTask.seen = 0
  /\ NoEngine \in EngType /\ NoEngine.rec = NoCkpt /\ ~NoEngine.open
  /\ ~NoEngine.fatal /\ ~NoEngine.paused
  /\ NoUrl \in UrlType /\ ~NoUrl.flight /\ NoUrl.gen = 0 /\ NoUrl.alive = 0
<1>1. Shut \in WinType /\ ~Shut.open /\ ~Shut.fault /\ Shut.pending = {}
  <2>1. 0 \in 0..NSeg /\ Empty \in Ledgers /\ {} \in SUBSET Segs
    BY SegsFinite, EmptyLedger
  <2> QED
    BY <2>1 DEF Shut, WinType
<1>2. NoQueue \in QueueType
  <2>1. << >> \in Seq(Segs) /\ [s \in Segs |-> "ready"] \in [Segs -> States]
    BY DEF States
  <2> QED
    BY <2>1 DEF NoQueue, QueueType
<1>3. FreshTask \in TaskType /\ ~FreshTask.mark /\ FreshTask.seen = 0
  BY DEF FreshTask, TaskType
<1>4. /\ NoEngine \in EngType /\ NoEngine.rec = NoCkpt /\ ~NoEngine.open
      /\ ~NoEngine.fatal /\ ~NoEngine.paused
  BY DEF NoEngine, EngType
<1>5. NoUrl \in UrlType /\ ~NoUrl.flight /\ NoUrl.gen = 0 /\ NoUrl.alive = 0
  BY DEF NoUrl, UrlType
<1> QED
  BY <1>1, <1>2, <1>3, <1>4, <1>5

\* A run that ended leaves that state, and the process starts in it.
LEMMA QuietIs == (Quiet => QuietNow') /\ (Init => QuietNow)
<1>1. ASSUME Quiet PROVE QuietNow'
  <2>1. win' = Shut /\ queue' = NoQueue /\ eng' = NoEngine /\ url' = NoUrl
    BY <1>1 DEF Quiet
  <2>2. task' = [s \in Segs |-> FreshTask] /\ wk' = [w \in Workers |-> Off]
    BY <1>1 DEF Quiet
  <2>3. task' \in [Segs -> TaskType] /\ \A s \in Segs : ~task'[s].mark /\ task'[s].seen = 0
    BY <2>2, QuietValues
  <2>4. wk' \in Teams /\ \A w \in Workers : wk'[w] = Off
    BY <2>2, IdleIs DEF Teams
  <2> QED
    BY <2>1, <2>3, <2>4, QuietValues DEF QuietNow
<1>2. ASSUME Init PROVE QuietNow
  <2>1. win = Shut /\ queue = NoQueue /\ eng = NoEngine /\ url = NoUrl
    BY <1>2 DEF Init
  <2>2. task = [s \in Segs |-> FreshTask] /\ wk = [w \in Workers |-> Off]
    BY <1>2 DEF Init
  <2>3. task \in [Segs -> TaskType] /\ \A s \in Segs : ~task[s].mark /\ task[s].seen = 0
    BY <2>2, QuietValues
  <2>4. wk \in Teams /\ \A w \in Workers : wk[w] = Off
    BY <2>2, IdleIs DEF Teams
  <2> QED
    BY <2>1, <2>3, <2>4, QuietValues DEF QuietNow
<1> QED
  BY <1>1, <1>2

\* A run starts with the segments that its window lacks in the queue.
LEMMA EngineIs ==
  ASSUME NEW w \in WinType, NEW bits \in SUBSET Segs, StartEngine(w, bits)
  PROVE  /\ queue' \in QueueType /\ Lists(queue'.ready, Segs \ bits) /\ ~queue'.closed
         /\ \A s \in Segs : queue'.state[s] = IF s \in bits THEN "done" ELSE "ready"
         /\ queue'.left = Cardinality(Segs \ bits)
         /\ task' \in [Segs -> TaskType] /\ (\A s \in Segs : ~task'[s].mark /\ task'[s].seen = 0)
         /\ url' \in UrlType /\ ~url'.flight /\ url'.gen = 0 /\ url'.alive = 0
         /\ wk' \in Teams /\ (\A v \in Workers : wk'[v].pc \in {"off", "pop"} /\ wk'[v].cred = 0)
         /\ \A u, v \in Workers : wk'[u].pc # "off" /\ wk'[v].pc # "off" => u = v
         /\ eng' \in EngType /\ ~eng'.fatal /\ ~eng'.paused /\ ~eng'.open /\ eng'.rec = NoCkpt
         /\ eng'.first = w.merged + 1
         /\ eng'.base = w.merged + Cardinality(DOMAIN w.entries)
         /\ prog' = w.merged + Cardinality(DOMAIN w.entries)
         /\ durable' = Ckpt(w.merged, w.entries, w.tail)
<1>1. /\ queue' = [ready |-> Inorder(Segs \ bits),
                   state |-> [s \in Segs |-> IF s \in bits THEN "done" ELSE "ready"],
                   left |-> Cardinality(Segs \ bits), closed |-> FALSE]
      /\ task' = [s \in Segs |-> FreshTask] /\ url' = NoUrl
      /\ eng' = [NoEngine EXCEPT !.first = w.merged + 1,
                                 !.base = w.merged + Cardinality(DOMAIN w.entries)]
      /\ prog' = w.merged + Cardinality(DOMAIN w.entries)
      /\ durable' = Ckpt(w.merged, w.entries, w.tail)
  BY DEF StartEngine
<1>2. PICK v \in Workers : wk' = [x \in Workers |-> IF x = v /\ bits # Segs THEN Parked ELSE Off]
  BY DEF StartEngine
<1>3. /\ IsFiniteSet(Segs \ bits) /\ Segs \ bits \in SUBSET Nat
      /\ Cardinality(Segs \ bits) \in Nat
  BY SegsFinite, FS_Difference, FS_CardinalityType
<1>4. Inorder(Segs \ bits) \in Seq(Segs) /\ Lists(Inorder(Segs \ bits), Segs \ bits)
  <2> DEFINE r == Inorder(Segs \ bits)
  <2>1. /\ r \in Seq(Segs \ bits)
        /\ \A s \in Segs \ bits : \E i \in 1..Len(r) : r[i] = s
        /\ \A i, j \in 1..Len(r) : i < j => r[i] < r[j]
    BY <1>3, InorderLists
  <2> HIDE DEF r
  <2>2. \A i \in 1..Len(r) : r[i] \in Segs \ bits
    BY <2>1
  <2>3. \A i, j \in 1..Len(r) : r[i] = r[j] => i = j
    <3> SUFFICES ASSUME NEW i \in 1..Len(r), NEW j \in 1..Len(r), i # j
                 PROVE  r[i] # r[j]
      OBVIOUS
    <3>1. r[i] \in Nat /\ r[j] \in Nat
      BY <2>2, <1>3
    <3>2. i < j \/ j < i
      BY <2>1
    <3>3. r[i] < r[j] \/ r[j] < r[i]
      BY <2>1, <3>2
    <3> QED
      BY <3>1, <3>3
  <2>4. r \in Seq(Segs)
    BY <2>1
  <2> QED
    BY <2>1, <2>2, <2>3, <2>4 DEF Lists, r
<1>5. /\ queue' \in QueueType /\ Lists(queue'.ready, Segs \ bits) /\ ~queue'.closed
      /\ \A s \in Segs : queue'.state[s] = IF s \in bits THEN "done" ELSE "ready"
      /\ queue'.left = Cardinality(Segs \ bits)
  <2> DEFINE st == [s \in Segs |-> IF s \in bits THEN "done" ELSE "ready"]
  <2>1. st \in [Segs -> States]
    BY DEF States
  <2>2. /\ queue'.ready = Inorder(Segs \ bits) /\ queue'.state = st
        /\ queue'.left = Cardinality(Segs \ bits) /\ ~queue'.closed
    BY <1>1
  <2>3. \A c \in BOOLEAN : [ready |-> Inorder(Segs \ bits), state |-> st,
                            left |-> Cardinality(Segs \ bits), closed |-> c] \in QueueType
    BY <1>3, <1>4, <2>1 DEF QueueType
  <2>4. queue' \in QueueType
    BY <1>1, <2>3
  <2> QED
    BY <1>4, <2>2, <2>4
<1>6. task' \in [Segs -> TaskType] /\ (\A s \in Segs : ~task'[s].mark /\ task'[s].seen = 0)
  BY <1>1, QuietValues
<1>7. url' \in UrlType /\ ~url'.flight /\ url'.gen = 0 /\ url'.alive = 0
  BY <1>1, QuietValues
<1>8. /\ wk' \in Teams /\ (\A x \in Workers : wk'[x].pc \in {"off", "pop"} /\ wk'[x].cred = 0)
      /\ \A x \in Workers : wk'[x].pc # "off" => x = v
  BY <1>2, IdleIs DEF Teams
<1>9. /\ eng' \in EngType /\ ~eng'.fatal /\ ~eng'.paused /\ ~eng'.open /\ eng'.rec = NoCkpt
      /\ eng'.first = w.merged + 1 /\ eng'.base = w.merged + Cardinality(DOMAIN w.entries)
  <2>1. w.merged \in Nat /\ Cardinality(DOMAIN w.entries) \in Nat
    <3>1. w.merged \in 0..NSeg /\ DOMAIN w.entries \in SUBSET Segs
      BY LedgerIs DEF WinType
    <3>2. IsFiniteSet(DOMAIN w.entries)
      BY <3>1, SegsFinite, FS_Subset
    <3> QED
      BY <3>1, <3>2, SegsFinite, FS_CardinalityType
  <2>2. PICK f \in Nat, b \in Nat : f = w.merged + 1 /\ b = w.merged + Cardinality(DOMAIN w.entries)
    BY <2>1
  <2>3. eng' = [[NoEngine EXCEPT !.first = f] EXCEPT !.base = b]
    BY <1>1, <2>2
  <2>4. eng' = [open |-> NoEngine.open, fatal |-> NoEngine.fatal, paused |-> NoEngine.paused,
                first |-> f, base |-> b, rec |-> NoEngine.rec]
    BY <2>3, QuietValues DEF EngType
  <2> HIDE DEF NoEngine
  <2>5. /\ NoEngine.open \in BOOLEAN /\ NoEngine.fatal \in BOOLEAN
        /\ NoEngine.paused \in BOOLEAN /\ NoEngine.rec \in Checkpoints \cup {NoCkpt}
    BY QuietValues DEF EngType
  <2>6. eng' \in EngType
    BY <2>4, <2>5 DEF EngType
  <2> QED
    BY <2>2, <2>4, <2>6, QuietValues
<1> QED
  BY <1>1, <1>5, <1>6, <1>7, <1>8, <1>9

-----------------------------------------------------------------------------
(* The inductive invariant of the bookkeeping. *)

HoldsLease(w) == wk[w].pc \in Holding
In(x) == {s \in Segs : queue.state[s] = x}
Credited == {w \in Workers : wk[w].cred = 1}

Typed ==
  /\ win \in WinType /\ queue \in QueueType /\ task \in [Segs -> TaskType]
  /\ wk \in Teams /\ eng \in EngType /\ url \in UrlType /\ prog \in Int

CkptsOK ==
  /\ stored \in Checkpoints /\ durable \in Checkpoints /\ owe \in Checkpoints \cup {NoCkpt}
  /\ mode = "save" => eng.rec # NoCkpt

PhaseOK ==
  /\ mode # "run" => \A w \in Workers : wk[w].pc = "off"
  /\ url.flight => mode = "run"

WinOK == mode \in {"run", "save"} => Sound(win)

QueueOK ==
  mode = "run" =>
    /\ In("done") = Held(win)
    /\ queue.left = Cardinality(Segs \ In("done"))
    /\ \A w \in Workers : HoldsLease(w) => queue.state[wk[w].seg] = "leased"
    /\ \A w, v \in Workers : HoldsLease(w) /\ HoldsLease(v) /\ wk[w].seg = wk[v].seg => w = v

ListOK ==
  mode = "run" /\ ~Stopped =>
    /\ Lists(queue.ready, In("ready"))
    /\ \A s \in In("leased") : \E w \in Workers : HoldsLease(w) /\ wk[w].seg = s
    /\ queue.closed => queue.left = 0

CreditOK == mode = "run" => prog = Cardinality(Held(win)) + Cardinality(Credited)

BookInv == Typed /\ CkptsOK /\ PhaseOK /\ WinOK /\ QueueOK /\ ListOK /\ CreditOK

-----------------------------------------------------------------------------
(* What one worker's step does. *)

\* Other workers are untouched, or begin.
Others(w) ==
  \A v \in Workers \ {w} : wk'[v] = wk[v] \/ (wk[v].pc = "off" /\ wk'[v] = Parked)

\* The progress follows the credit of the attempt.
Booked(w) == Held(win') = Held(win) /\ prog' = prog + wk'[w].cred - wk[w].cred

\* No lease begins; unless the run stops, none ends and the queue stays.
Keeps(w) ==
  /\ Booked(w) /\ queue'.state = queue.state /\ queue'.left = queue.left
  /\ HoldsLease(w)' => HoldsLease(w) /\ wk'[w].seg = wk[w].seg
  /\ Stopped' \/ (queue' = queue /\ ~Stopped /\ (HoldsLease(w) => HoldsLease(w)'))

\* The head of the list is leased.
Takes(w) ==
  /\ Booked(w) /\ ~HoldsLease(w) /\ HoldsLease(w)' /\ ~Stopped /\ queue.ready # << >>
  /\ queue'.ready = Tail(queue.ready) /\ queue'.left = queue.left /\ queue'.closed = queue.closed
  /\ queue'.state = [queue.state EXCEPT ![Head(queue.ready)] = "leased"]
  /\ wk'[w].seg = Head(queue.ready)

\* The lease ends, and its segment is queued again.
Returns(w) ==
  /\ Booked(w) /\ HoldsLease(w) /\ ~HoldsLease(w)' /\ queue' = Requeue(queue, wk[w].seg)
  /\ Stopped' <=> Stopped

\* The lease ends with an accepted segment.
Accepts(w) ==
  /\ HoldsLease(w) /\ ~HoldsLease(w)' /\ Held(win') = Held(win) \cup {wk[w].seg}
  /\ wk[w].cred = 1 /\ wk'[w].cred = 0 /\ prog' = prog
  /\ \/ queue' = Finish(queue, wk[w].seg) /\ (Stopped' <=> Stopped)
     \/ queue' = Closed(Finish(queue, wk[w].seg)) /\ Stopped'

Effect(w) ==
  /\ mode = "run" /\ mode' = "run" /\ Typed' /\ Sound(win') /\ Others(w)
  /\ Keeps(w) \/ Takes(w) \/ Returns(w) \/ Accepts(w)

BookBase == Typed /\ PhaseOK /\ WinOK /\ QueueOK

\* A worker that does anything is one of a run.
LEMMA WorksInRun ==
  ASSUME BookBase, NEW w \in Workers, wk[w].pc # "off"
  PROVE  /\ mode = "run" /\ Sound(win) /\ wk[w] \in Attempt /\ wk \in Teams
         /\ wk[w].cred \in 0..1 /\ prog \in Int
         /\ (HoldsLease(w) => wk[w].seg \in Segs /\ queue.state[wk[w].seg] = "leased"
                              /\ wk[w].seg \notin Held(win))
<1>1. mode = "run" /\ wk \in Teams
  BY DEF BookBase, PhaseOK, Typed
<1>2. Sound(win)
  BY <1>1 DEF BookBase, WinOK
<1>3. wk[w] \in Attempt /\ wk[w].cred \in 0..1 /\ (HoldsLease(w) => wk[w].seg \in Segs)
  BY <1>1, AttemptIs DEF Teams, HoldsLease
<1>4. HoldsLease(w) => queue.state[wk[w].seg] = "leased"
  BY <1>1 DEF BookBase, QueueOK
<1>5. HoldsLease(w) => wk[w].seg \notin Held(win)
  <2>1. In("done") = Held(win)
    BY <1>1 DEF BookBase, QueueOK
  <2> QED
    BY <1>4, <2>1 DEF In
<1> QED
  BY <1>1, <1>2, <1>3, <1>4, <1>5 DEF BookBase, Typed

\* A step within the attempt, or outside of any, that leaves the queue, the
\* window's segments and the engine.
LEMMA KeepsEffect ==
  ASSUME BookBase, NEW w \in Workers, wk[w].pc # "off", mode' = mode,
         win' \in WinType, Sound(win'), Held(win') = Held(win),
         UNCHANGED <<queue, eng>>, task' \in [Segs -> TaskType], url' \in UrlType,
         wk' \in Teams, Others(w), prog' = prog + wk'[w].cred - wk[w].cred,
         HoldsLease(w)' => HoldsLease(w) /\ wk'[w].seg = wk[w].seg,
         HoldsLease(w) /\ ~Stopped => HoldsLease(w)'
  PROVE  Effect(w)
<1>1. /\ mode = "run" /\ prog \in Int /\ wk[w].cred \in 0..1
      /\ queue \in QueueType /\ eng \in EngType
  BY WorksInRun DEF BookBase, Typed
<1>2. wk'[w].cred \in 0..1
  BY AttemptIs DEF Teams
<1>3. prog' \in Int
  BY <1>1, <1>2
<1>4. Typed'
  BY <1>1, <1>3 DEF Typed
<1>5. Stopped' <=> Stopped
  BY DEF Stopped
<1>6. Keeps(w)
  BY <1>5 DEF Keeps, Booked
<1> QED
  BY <1>1, <1>4, <1>6 DEF Effect

\* Sets of program counters.
LEMMA PcsAre ==
  /\ {"try", "ref", "net", "gate", "commit", "wait", "bad"} = Holding
  /\ Holding \cup {"off", "pop", "first"} = Pcs
  /\ "off" \notin Holding /\ "pop" \notin Holding /\ "first" \notin Holding
BY DEF Holding, Pcs

\* A worker's step that keeps the window.
LEMMA SameWindow ==
  ASSUME BookBase, NEW w \in Workers, wk[w].pc # "off", UNCHANGED win
  PROVE  win' \in WinType /\ Sound(win') /\ Held(win') = Held(win)
BY WorksInRun DEF BookBase, Typed

\* A task becomes another.
LEMMA TaskIs ==
  ASSUME task \in [Segs -> TaskType], NEW s \in Segs, NEW b \in TaskType,
         task' = [task EXCEPT ![s] = b]
  PROVE  /\ task' \in [Segs -> TaskType] /\ task'[s] = b
         /\ \A r \in Segs \ {s} : task'[r] = task[r]
OBVIOUS

\* Fields of the right kind make a task.
LEMMA TaskOf ==
  ASSUME NEW r \in Nat, NEW k \in BOOLEAN, NEW g \in Nat
  PROVE  LET b == [retries |-> r, mark |-> k, seen |-> g]
         IN  b \in TaskType /\ b.mark = k /\ b.seen = g /\ b.retries = r
BY DEF TaskType

\* A task is its fields.
LEMMA TaskFields ==
  ASSUME NEW a \in TaskType
  PROVE  /\ a = [retries |-> a.retries, mark |-> a.mark, seen |-> a.seen]
         /\ a.retries \in Nat /\ a.mark \in BOOLEAN /\ a.seen \in Nat
BY DEF TaskType

\* A request notes the addresses it was made with.
LEMMA TaskAsks ==
  ASSUME task \in [Segs -> TaskType], NEW s \in Segs, url \in UrlType,
         task' = [task EXCEPT ![s] = [task[s] EXCEPT !.seen = url.gen]]
  PROVE  /\ task' \in [Segs -> TaskType]
         /\ task'[s].mark = task[s].mark /\ task'[s].seen = url.gen
         /\ \A r \in Segs \ {s} : task'[r] = task[r]
<1> DEFINE a == task[s]
           u == [a EXCEPT !.seen = url.gen]
<1>1. a \in TaskType /\ url.gen \in Nat
  BY DEF UrlType
<1>2. u = [retries |-> a.retries, mark |-> a.mark, seen |-> url.gen]
  BY <1>1, TaskFields
<1>3. u \in TaskType /\ u.mark = a.mark /\ u.seen = url.gen
  BY <1>1, <1>2, TaskFields, TaskOf
<1>4. task' = [task EXCEPT ![s] = u]
  OBVIOUS
<1> HIDE DEF u
<1> QED
  BY <1>3, <1>4, TaskIs

\* A request that also consumes the mark, or keeps it.
LEMMA TaskMarks ==
  ASSUME task \in [Segs -> TaskType], NEW s \in Segs, url \in UrlType, NEW m \in BOOLEAN,
         task' = [task EXCEPT ![s] = [[task[s] EXCEPT !.mark = m] EXCEPT !.seen = url.gen]]
  PROVE  /\ task' \in [Segs -> TaskType]
         /\ task'[s].mark = m /\ task'[s].seen = url.gen
         /\ \A r \in Segs \ {s} : task'[r] = task[r]
<1> DEFINE a == task[s]
           t == [a EXCEPT !.mark = m]
           u == [t EXCEPT !.seen = url.gen]
<1>1. a \in TaskType /\ url.gen \in Nat
  BY DEF UrlType
<1>2. t = [retries |-> a.retries, mark |-> m, seen |-> a.seen]
  BY <1>1, TaskFields
<1>3. t \in TaskType /\ t.mark = m
  BY <1>1, <1>2, TaskFields, TaskOf
<1>4. u \in TaskType /\ u.mark = m /\ u.seen = url.gen
  <2> HIDE DEF t
  <2>1. u = [retries |-> t.retries, mark |-> t.mark, seen |-> url.gen]
    BY <1>3, TaskFields
  <2> QED
    BY <1>1, <1>3, <2>1, TaskFields, TaskOf
<1>5. task' = [task EXCEPT ![s] = u]
  OBVIOUS
<1> HIDE DEF u
<1> QED
  BY <1>4, <1>5, TaskIs

\* A failure is counted, and may leave a mark.
LEMMA TaskFails ==
  ASSUME task \in [Segs -> TaskType], NEW s \in Segs, NEW m \in BOOLEAN,
         task' = [task EXCEPT ![s].retries = @ + 1, ![s].mark = m]
  PROVE  /\ task' \in [Segs -> TaskType]
         /\ task'[s].mark = m /\ task'[s].seen = task[s].seen
         /\ \A r \in Segs \ {s} : task'[r] = task[r]
<1> DEFINE a == task[s]
<1>1. a \in TaskType
  OBVIOUS
<1>2. PICK k \in Nat : k = a.retries + 1
  BY <1>1, TaskFields
<1> DEFINE t == [a EXCEPT !.retries = k]
           u == [t EXCEPT !.mark = m]
<1>3. t = [retries |-> k, mark |-> a.mark, seen |-> a.seen]
  BY <1>1, TaskFields
<1>4. t \in TaskType /\ t.seen = a.seen
  BY <1>1, <1>3, TaskFields, TaskOf
<1>5. u \in TaskType /\ u.mark = m /\ u.seen = a.seen
  <2> HIDE DEF t
  <2>1. u = [retries |-> t.retries, mark |-> m, seen |-> t.seen]
    BY <1>4, TaskFields
  <2> QED
    BY <1>1, <1>4, <2>1, TaskFields, TaskOf
<1>6. task' = [task EXCEPT ![s] = [[a EXCEPT !.retries = a.retries + 1] EXCEPT !.mark = m]]
  OBVIOUS
<1>7. task' = [task EXCEPT ![s] = u]
  BY <1>2, <1>6
<1> HIDE DEF u
<1> QED
  BY <1>5, <1>7, TaskIs

\* Before the request: pop, waiting, and the choice of the URI.
LEMMA GotoEffect ==
  ASSUME BookBase, NEW w \in Workers, HoldsLease(w), mode' = mode,
         UNCHANGED <<win, queue, eng, prog>>, task' \in [Segs -> TaskType], url' \in UrlType,
         NEW p \in Holding \ {"gate", "commit"}, Goto(w, p),
         wk[w].pc \notin {"gate", "commit", "bad"}
  PROVE  Effect(w)
<1>1. wk[w].pc # "off"
  BY PcsAre DEF HoldsLease
<1>2. /\ wk \in Teams /\ wk[w].seg \in Segs /\ wk[w].cred # 1 /\ prog \in Int /\ wk[w].cred \in 0..1
  BY <1>1, WorksInRun, AttemptIs
<1>3. /\ wk' \in Teams /\ \A v \in Workers \ {w} : wk'[v] = wk[v]
      /\ wk'[w].pc = p /\ wk'[w].seg = wk[w].seg /\ wk'[w].cred = wk[w].cred
  <2>1. p \in Pcs /\ p \in Holding /\ p \notin {"gate", "commit"} /\ p # "pop"
    BY PcsAre
  <2> QED
    BY <1>2, <2>1, GotoIs DEF Lease
<1>4. HoldsLease(w)'
  BY <1>3 DEF HoldsLease
<1>5. prog' = prog + wk'[w].cred - wk[w].cred
  BY <1>2, <1>3
<1>6. Others(w)
  BY <1>3 DEF Others
<1> QED
  BY <1>1, <1>3, <1>4, <1>5, <1>6, SameWindow, KeepsEffect

\* An attempt goes bad.
LEMMA BadEffect ==
  ASSUME BookBase, NEW w \in Workers, HoldsLease(w), mode' = mode,
         win' \in WinType, Sound(win'), Held(win') = Held(win),
         UNCHANGED <<queue, task, eng, url, prog>>,
         NEW e \in Errs, Bad(w, e)
  PROVE  Effect(w)
<1>1. wk[w].pc # "off"
  BY PcsAre DEF HoldsLease
<1>2. /\ wk \in Teams /\ wk[w].seg \in Segs /\ prog \in Int /\ wk[w].cred \in 0..1
  BY <1>1, WorksInRun
<1>3. /\ wk' \in Teams /\ \A v \in Workers \ {w} : wk'[v] = wk[v]
      /\ wk'[w].pc = "bad" /\ wk'[w].seg = wk[w].seg /\ wk'[w].cred = wk[w].cred
  BY <1>2, BadIs DEF Lease
<1>4. HoldsLease(w)'
  BY <1>3, PcsAre DEF HoldsLease
<1>5. prog' = prog + wk'[w].cred - wk[w].cred
  BY <1>2, <1>3
<1>6. Others(w)
  BY <1>3 DEF Others
<1>7. task' \in [Segs -> TaskType] /\ url' \in UrlType
  BY DEF BookBase, Typed
<1> QED
  BY <1>1, <1>3, <1>4, <1>5, <1>6, <1>7, KeepsEffect

\* A worker without a lease, or one of a stopped run, ends its step without one.
LEMMA IdleEffect ==
  ASSUME BookBase, NEW w \in Workers, wk[w].pc # "off", mode' = mode,
         UNCHANGED <<win, queue, eng, task, url>>, Exit(w) \/ Loop(w),
         HoldsLease(w) => Stopped, prog' = prog - wk[w].cred
  PROVE  Effect(w)
<1>1. /\ wk \in Teams /\ prog \in Int /\ wk[w].cred \in 0..1
  BY WorksInRun
<1>2. /\ wk' \in Teams /\ \A v \in Workers \ {w} : wk'[v] = wk[v]
      /\ wk'[w].pc \in {"off", "pop"} /\ wk'[w].cred = 0
  BY <1>1, IdleAgain
<1>3. ~HoldsLease(w)'
  BY <1>2, PcsAre DEF HoldsLease
<1>4. prog' = prog + wk'[w].cred - wk[w].cred
  BY <1>1, <1>2
<1>5. Others(w)
  BY <1>2 DEF Others
<1>6. task' \in [Segs -> TaskType] /\ url' \in UrlType
  BY DEF BookBase, Typed
<1> QED
  BY <1>2, <1>3, <1>4, <1>5, <1>6, SameWindow, KeepsEffect

\* A worker gives its segment back and goes on.
LEMMA ReturnEffect ==
  ASSUME BookBase, NEW w \in Workers, HoldsLease(w), mode' = mode,
         UNCHANGED <<win, eng, task, url>>, Loop(w), queue' = Requeue(queue, wk[w].seg),
         prog' = prog - wk[w].cred
  PROVE  Effect(w)
<1>1. wk[w].pc # "off"
  BY PcsAre DEF HoldsLease
<1>2. /\ wk \in Teams /\ prog \in Int /\ wk[w].cred \in 0..1 /\ mode = "run"
      /\ wk[w].seg \in Segs /\ queue.state[wk[w].seg] = "leased"
  BY <1>1, WorksInRun
<1>3. /\ wk' \in Teams /\ \A v \in Workers \ {w} : wk'[v] = wk[v]
      /\ wk'[w].pc \in {"off", "pop"} /\ wk'[w].cred = 0
  BY <1>2, IdleAgain
<1>4. ~HoldsLease(w)'
  BY <1>3, PcsAre DEF HoldsLease
<1>5. prog' = prog + wk'[w].cred - wk[w].cred /\ prog' \in Int
  BY <1>2, <1>3
<1>6. Others(w)
  BY <1>3 DEF Others
<1>7. queue \in QueueType
  BY DEF BookBase, Typed
<1>8. queue' \in QueueType
  BY <1>2, <1>7, RequeueIs
<1>9. win' \in WinType /\ Sound(win') /\ Held(win') = Held(win)
  BY <1>1, SameWindow
<1>10. Typed'
  BY <1>3, <1>5, <1>8, <1>9 DEF BookBase, Typed
<1>11. Returns(w)
  BY <1>4, <1>5, <1>9 DEF Returns, Booked, Stopped
<1> QED
  BY <1>2, <1>6, <1>9, <1>10, <1>11 DEF Effect

\* The next segment, or none.
LEMMA PopEffect ==
  ASSUME BookBase, NEW w \in Workers, Pop(w)
  PROVE  Effect(w)
<1>1. /\ wk[w].pc = "pop" /\ wk[w].pc # "off" /\ ~HoldsLease(w) /\ mode' = mode
      /\ UNCHANGED <<win, task, eng, url, prog>>
  BY PcsAre DEF Pop, RunFrame, HoldsLease
<1>2. /\ wk \in Teams /\ wk[w] \in Attempt /\ prog \in Int /\ mode = "run"
      /\ win' \in WinType /\ Sound(win') /\ Held(win') = Held(win)
  BY <1>1, WorksInRun, SameWindow
<1>3. wk[w].cred = 0 /\ wk[w].cred \in 0..1
  BY <1>1, <1>2, AttemptIs
<1>4. CASE Exit(w) /\ UNCHANGED queue
  <2>1. prog' = prog - wk[w].cred
    BY <1>1, <1>2, <1>3
  <2> QED
    BY <1>1, <1>4, <2>1, IdleEffect
<1>5. CASE /\ ~Stopped /\ queue.ready # << >>
           /\ queue' = [queue EXCEPT !.ready = Tail(@), !.state[Head(queue.ready)] = "leased"]
           /\ wk' = [wk EXCEPT ![w].pc = "try", ![w].seg = Head(queue.ready)]
  <2> DEFINE h == Head(queue.ready)
             a == wk[w]
             b == [pc |-> "try", seg |-> h, stop |-> a.stop, drain |-> a.drain,
                   cred |-> a.cred, err |-> a.err]
             c == [pc |-> "try", seg |-> a.seg, stop |-> a.stop, drain |-> a.drain,
                   cred |-> a.cred, err |-> a.err]
             st == [queue.state EXCEPT ![h] = "leased"]
  <2>1. /\ queue.ready \in Seq(Segs) /\ queue.state \in [Segs -> States] /\ queue.left \in Int
        /\ queue.closed \in BOOLEAN
    BY DEF BookBase, Typed, QueueType
  <2>2. h \in Segs /\ Tail(queue.ready) \in Seq(Segs)
    BY <1>5, <2>1
  <2>3. b \in Attempt /\ b.pc = "try" /\ b.seg = h /\ b.cred = a.cred
    <3>1. "try" \in Pcs /\ "try" \notin {"gate", "commit"} /\ a.cred # 1
      BY <1>3 DEF Pcs
    <3>2. /\ h \in 0..NSeg /\ a.stop \in Stops /\ a.drain \in BOOLEAN /\ a.cred \in 0..1
          /\ a.err \in Errs
      BY <1>2, <2>2, AttemptIs, SegsFinite DEF Segs
    <3> QED
      BY <2>2, <3>1, <3>2, AttemptOf
  <2>4. Becomes(w, b)
    <3>1. [a EXCEPT !.pc = "try"] = c
      BY <1>2, AttemptIs
    <3>2. [c EXCEPT !.seg = h] = b
      OBVIOUS
    <3>3. wk' = [wk EXCEPT ![w] = [[a EXCEPT !.pc = "try"] EXCEPT !.seg = h]]
      BY <1>2, <1>5 DEF Teams
    <3> QED
      BY <3>1, <3>2, <3>3 DEF Becomes
  <2> HIDE DEF b
  <2>5. /\ wk' \in Teams /\ wk'[w] = b /\ \A v \in Workers \ {w} : wk'[v] = wk[v]
    BY <1>2, <2>3, <2>4, BecomesIs
  <2>6. st \in [Segs -> States]
    BY <2>1, <2>2 DEF States
  <2>7. queue' = [ready |-> Tail(queue.ready), state |-> st, left |-> queue.left,
                  closed |-> queue.closed]
    <3>1. queue' = [[queue EXCEPT !.ready = Tail(queue.ready)] EXCEPT !.state = st]
      BY <1>5 DEF BookBase, Typed, QueueType
    <3> HIDE DEF st
    <3> QED
      BY <3>1 DEF BookBase, Typed, QueueType
  <2>8. queue' \in QueueType
    BY <2>1, <2>2, <2>6, <2>7 DEF QueueType
  <2>9. prog' = prog + wk'[w].cred - wk[w].cred /\ prog' \in Int
    BY <1>1, <1>2, <1>3, <2>3, <2>5
  <2>10. HoldsLease(w)' /\ Others(w)
    BY <2>3, <2>5, PcsAre DEF HoldsLease, Others
  <2>11. Takes(w)
    <3>1. /\ queue'.ready = Tail(queue.ready) /\ queue'.state = st /\ queue'.left = queue.left
          /\ queue'.closed = queue.closed
      BY <2>7
    <3>2. wk'[w].seg = h
      BY <2>3, <2>5
    <3> QED
      BY <1>1, <1>2, <1>5, <2>9, <2>10, <3>1, <3>2 DEF Takes, Booked
  <2>12. Typed'
    BY <1>1, <1>2, <2>5, <2>8, <2>9 DEF BookBase, Typed
  <2> QED
    BY <1>1, <1>2, <2>10, <2>11, <2>12 DEF Effect
<1> QED
  BY <1>4, <1>5 DEF Pop

\* A worker at the top of an attempt that it may not start.
LEMMA GiveBackEffect ==
  ASSUME BookBase, NEW w \in Workers, GiveBack(w)
  PROVE  Effect(w)
<1>1. /\ wk[w].pc \in {"try", "wait"} /\ mode' = mode /\ UNCHANGED <<win, task, eng, url, prog>>
  BY DEF GiveBack, RunFrame
<1>2. HoldsLease(w) /\ wk[w].pc # "off"
  BY <1>1, PcsAre DEF HoldsLease
<1>3. prog \in Int /\ wk[w].cred = 0
  BY <1>1, <1>2, WorksInRun, AttemptIs
<1>4. prog' = prog - wk[w].cred
  BY <1>1, <1>3
<1>5. CASE wk[w].drain
  <2>1. queue' = Requeue(queue, wk[w].seg) /\ Loop(w)
    BY <1>5 DEF GiveBack, Lease
  <2> QED
    BY <1>1, <1>2, <1>4, <2>1, ReturnEffect
<1>6. CASE ~wk[w].drain
  <2>1. UNCHANGED queue /\ Exit(w) /\ Stopped
    BY <1>6 DEF GiveBack
  <2> QED
    BY <1>1, <1>2, <1>4, <2>1, IdleEffect
<1> QED
  BY <1>5, <1>6

\* The way to the request.
LEMMA RequestEffect ==
  ASSUME BookBase, NEW w \in Workers, Backoff(w) \/ Try(w) \/ RefreshWaited(w)
  PROVE  Effect(w)
<1>1. /\ wk[w].pc \in {"wait", "try", "ref"} /\ mode' = mode /\ UNCHANGED <<win, queue, eng, prog>>
  BY DEF Backoff, Try, RefreshWaited, RunFrame
<1>2. /\ HoldsLease(w) /\ wk[w].pc # "off" /\ wk[w].pc \notin {"gate", "commit", "bad"}
  BY <1>1, PcsAre DEF HoldsLease
<1>3. /\ wk[w].seg \in Segs /\ task \in [Segs -> TaskType] /\ url \in UrlType
  BY <1>2, WorksInRun DEF BookBase, Typed
<1>4. {"try", "net", "ref"} \in SUBSET (Holding \ {"gate", "commit"})
  BY PcsAre
<1>5. CASE Backoff(w)
  <2>1. Goto(w, "try") /\ task' = task /\ url' = url
    BY <1>5 DEF Backoff
  <2> QED
    BY <1>1, <1>2, <1>3, <1>4, <2>1, GotoEffect
<1>6. ASSUME NEW t, NEW m \in BOOLEAN, t = [task[wk[w].seg] EXCEPT !.mark = m],
             Request(w, t)
      PROVE  task' \in [Segs -> TaskType] /\ Goto(w, "net")
  BY <1>3, <1>6, TaskMarks DEF Request, Lease
<1>7. CASE Try(w)
  <2> DEFINE t == task[wk[w].seg]
             owed == t.mark /\ url.gen <= t.seen
  <2>1. CASE Request(w, [t EXCEPT !.mark = owed]) /\ UNCHANGED url
    <3>1. PICK m \in BOOLEAN : m = owed
      BY <1>3 DEF TaskType, UrlType
    <3>2. Request(w, [t EXCEPT !.mark = m])
      BY <2>1, <3>1
    <3>3. task' \in [Segs -> TaskType] /\ Goto(w, "net")
      BY <1>6, <3>2
    <3> QED
      BY <1>1, <1>2, <1>3, <1>4, <2>1, <3>3, GotoEffect
  <2>2. CASE url' = [url EXCEPT !.flight = TRUE] /\ Goto(w, "ref") /\ UNCHANGED task
    <3>1. PICK f \in BOOLEAN : f = TRUE
      OBVIOUS
    <3>2. url' = [url EXCEPT !.flight = f]
      BY <2>2, <3>1
    <3>3. url' \in UrlType
      BY <1>3, <3>2 DEF UrlType
    <3> QED
      BY <1>1, <1>2, <1>3, <1>4, <2>2, <3>3, GotoEffect
  <2> QED
    BY <1>7, <2>1, <2>2 DEF Try, Lease
<1>8. CASE RefreshWaited(w)
  <2>1. /\ Goto(w, "net") /\ url' = url
        /\ task' = [task EXCEPT ![wk[w].seg] = [task[wk[w].seg] EXCEPT !.seen = url.gen]]
    BY <1>8 DEF RefreshWaited, Request, Lease
  <2>2. task' \in [Segs -> TaskType]
    BY <1>3, <2>1, TaskAsks
  <2> QED
    BY <1>1, <1>2, <1>3, <1>4, <2>1, <2>2, GotoEffect
<1> QED
  BY <1>5, <1>7, <1>8

\* The body counts from the moment it is complete.
LEMMA FetchedEffect ==
  ASSUME BookBase, NEW w \in Workers, Fetched(w)
  PROVE  Effect(w)
<1>1. /\ wk[w].pc = "net" /\ mode' = mode /\ UNCHANGED <<win, queue, eng, task, url>>
      /\ prog' = prog + 1 /\ wk' = [wk EXCEPT ![w].pc = "gate", ![w].cred = 1]
  BY DEF Fetched, RunFrame
<1>2. HoldsLease(w) /\ wk[w].pc # "off"
  BY <1>1, PcsAre DEF HoldsLease
<1>3. /\ wk \in Teams /\ wk[w] \in Attempt /\ wk[w].seg \in Segs /\ prog \in Int
  BY <1>2, WorksInRun
<1> DEFINE a == wk[w]
           b == [pc |-> "gate", seg |-> a.seg, stop |-> a.stop, drain |-> a.drain,
                 cred |-> 1, err |-> a.err]
           c == [pc |-> "gate", seg |-> a.seg, stop |-> a.stop, drain |-> a.drain,
                 cred |-> a.cred, err |-> a.err]
<1>4. a.cred = 0
  BY <1>1, <1>3, AttemptIs
<1>5. b \in Attempt /\ b.pc = "gate" /\ b.seg = a.seg /\ b.cred = 1
  <2>1. "gate" \in Pcs /\ "gate" \in {"gate", "commit", "bad"} /\ 1 \in 0..1
    BY DEF Pcs
  <2>2. a.seg \in 0..NSeg /\ a.stop \in Stops /\ a.drain \in BOOLEAN /\ a.err \in Errs
    BY <1>3, AttemptIs
  <2> QED
    BY <1>3, <2>1, <2>2, AttemptOf
<1>6. Becomes(w, b)
  <2>1. [a EXCEPT !.pc = "gate"] = c
    BY <1>3, AttemptIs
  <2>2. [c EXCEPT !.cred = 1] = b
    OBVIOUS
  <2>3. wk' = [wk EXCEPT ![w] = [[a EXCEPT !.pc = "gate"] EXCEPT !.cred = 1]]
    BY <1>1, <1>3 DEF Teams
  <2> QED
    BY <2>1, <2>2, <2>3 DEF Becomes
<1> HIDE DEF b
<1>7. wk' \in Teams /\ wk'[w] = b /\ \A v \in Workers \ {w} : wk'[v] = wk[v]
  BY <1>3, <1>5, <1>6, BecomesIs
<1>8. HoldsLease(w)' /\ wk'[w].seg = wk[w].seg /\ prog' = prog + wk'[w].cred - wk[w].cred
  BY <1>1, <1>3, <1>4, <1>5, <1>7, PcsAre DEF HoldsLease
<1>9. Others(w) /\ task' \in [Segs -> TaskType] /\ url' \in UrlType
  BY <1>1, <1>7 DEF Others, BookBase, Typed
<1> QED
  BY <1>1, <1>2, <1>7, <1>8, <1>9, SameWindow, KeepsEffect

\* The body is not complete, or its commit is refused.
LEMMA NotFetchedEffect ==
  ASSUME BookBase, NEW w \in Workers, NotFetched(w)
  PROVE  Effect(w)
<1>1. wk[w].pc = "net" /\ mode' = mode /\ UNCHANGED <<win, queue, eng, task, url, prog>>
  BY DEF NotFetched, RunFrame
<1>2. HoldsLease(w) /\ wk[w].pc # "off"
  BY <1>1, PcsAre DEF HoldsLease
<1>3. PICK e \in Errs : Bad(w, e)
  BY DEF NotFetched, Errs
<1> QED
  BY <1>1, <1>2, <1>3, SameWindow, BadEffect

\* The gate of the commit.
LEMMA GateEffect ==
  ASSUME BookBase, NEW w \in Workers, Gate(w)
  PROVE  Effect(w)
<1>1. wk[w].pc = "gate" /\ mode' = mode /\ UNCHANGED <<win, queue, eng, task, url, prog>>
  BY DEF Gate, RunFrame
<1>2. HoldsLease(w) /\ wk[w].pc # "off"
  BY <1>1, PcsAre DEF HoldsLease
<1>3. CASE Bad(w, "cancel")
  BY <1>1, <1>2, <1>3, SameWindow, BadEffect DEF Errs
<1>4. CASE Goto(w, "commit")
  <2>1. /\ wk \in Teams /\ wk[w] \in Attempt /\ wk[w].seg \in Segs /\ prog \in Int
        /\ wk[w].cred \in 0..1 /\ wk[w].cred = 1
    BY <1>1, <1>2, WorksInRun, AttemptIs
  <2>2. /\ wk' \in Teams /\ \A v \in Workers \ {w} : wk'[v] = wk[v]
        /\ wk'[w].pc = "commit" /\ wk'[w].seg = wk[w].seg /\ wk'[w].cred = wk[w].cred
    <3>1. "commit" \in Pcs /\ "commit" \in {"gate", "commit", "bad"}
      BY DEF Pcs
    <3> QED
      BY <1>4, <2>1, <3>1, GotoIs DEF Lease
  <2>3. HoldsLease(w)' /\ prog' = prog + wk'[w].cred - wk[w].cred /\ Others(w)
    BY <1>1, <2>1, <2>2, PcsAre DEF HoldsLease, Others
  <2>4. task' \in [Segs -> TaskType] /\ url' \in UrlType
    BY <1>1 DEF BookBase, Typed
  <2> QED
    BY <1>1, <1>2, <2>2, <2>3, <2>4, SameWindow, KeepsEffect
<1> QED
  BY <1>3, <1>4 DEF Gate

\* An accepted segment: the lease ends, whatever comes next for the worker.
LEMMA AcceptEffect ==
  ASSUME BookBase, NEW w \in Workers, wk[w].pc = "commit", mode' = mode,
         UNCHANGED <<task, url, prog>>,
         win' \in WinType, Sound(win'), Held(win') = Held(win) \cup {wk[w].seg},
         \/ queue' = Finish(queue, wk[w].seg) /\ Settled(w) /\ UNCHANGED eng
         \/ queue' = Closed(Finish(queue, wk[w].seg)) /\ Exit(w) /\ Fatal
  PROVE  Effect(w)
<1>1. HoldsLease(w) /\ wk[w].pc # "off"
  BY PcsAre DEF HoldsLease
<1>2. /\ wk \in Teams /\ wk[w] \in Attempt /\ wk[w].cred = 1 /\ prog \in Int /\ mode = "run"
      /\ wk[w].seg \in Segs /\ queue.state[wk[w].seg] = "leased"
  BY <1>1, WorksInRun, AttemptIs
<1>3. queue \in QueueType /\ eng \in EngType
  BY DEF BookBase, Typed
<1> DEFINE a == wk[w]
           fin == Finish(queue, wk[w].seg)
<1>4. fin \in QueueType
  BY <1>2, <1>3, FinishIs
<1> HIDE DEF fin
<1>5. ASSUME Settled(w)
      PROVE  /\ wk' \in Teams /\ \A v \in Workers \ {w} : wk'[v] = wk[v]
             /\ ~HoldsLease(w)' /\ wk'[w].cred = 0
  <2>1. CASE Loop(w)
    <3>1. /\ wk' \in Teams /\ \A v \in Workers \ {w} : wk'[v] = wk[v]
          /\ wk'[w].pc \in {"off", "pop"} /\ wk'[w].cred = 0
      BY <1>2, <2>1, IdleAgain
    <3> QED
      BY <3>1, PcsAre DEF HoldsLease
  <2>2. CASE wk' = [wk EXCEPT ![w].pc = "first", ![w].cred = 0, ![w].stop = "none"]
    <3> DEFINE b == [pc |-> "first", seg |-> a.seg, stop |-> "none", drain |-> a.drain,
                     cred |-> 0, err |-> a.err]
               c == [pc |-> "first", seg |-> a.seg, stop |-> a.stop, drain |-> a.drain,
                     cred |-> a.cred, err |-> a.err]
               d == [pc |-> "first", seg |-> a.seg, stop |-> a.stop, drain |-> a.drain,
                     cred |-> 0, err |-> a.err]
    <3>1. b \in Attempt /\ b.pc = "first" /\ b.cred = 0
      <4>1. "first" \in Pcs /\ "first" \notin Holding /\ "first" \notin {"gate", "commit"}
        BY DEF Pcs, Holding
      <4>2. /\ a.seg \in 0..NSeg /\ "none" \in Stops /\ a.drain \in BOOLEAN /\ a.err \in Errs
            /\ 0 \in 0..1
        BY <1>2, AttemptIs DEF Stops
      <4> QED
        BY <4>1, <4>2, AttemptOf
    <3>2. Becomes(w, b)
      <4>1. [a EXCEPT !.pc = "first"] = c
        BY <1>2, AttemptIs
      <4>2. [c EXCEPT !.cred = 0] = d
        OBVIOUS
      <4>3. [d EXCEPT !.stop = "none"] = b
        OBVIOUS
      <4>4. wk' = [wk EXCEPT ![w] = [[[a EXCEPT !.pc = "first"] EXCEPT !.cred = 0]
                                       EXCEPT !.stop = "none"]]
        BY <1>2, <2>2 DEF Teams
      <4> QED
        BY <4>1, <4>2, <4>3, <4>4 DEF Becomes
    <3> HIDE DEF b
    <3>3. wk' \in Teams /\ wk'[w] = b /\ \A v \in Workers \ {w} : wk'[v] = wk[v]
      BY <1>2, <3>1, <3>2, BecomesIs
    <3> QED
      BY <3>1, <3>3, PcsAre DEF HoldsLease
  <2> QED
    BY <1>5, <2>1, <2>2 DEF Settled
<1>6. CASE queue' = fin /\ Settled(w) /\ UNCHANGED eng
  <2>1. Typed'
    BY <1>3, <1>4, <1>5, <1>6 DEF BookBase, Typed
  <2>2. Accepts(w)
    BY <1>1, <1>2, <1>5, <1>6 DEF Accepts, Stopped, fin
  <2>3. Others(w)
    BY <1>5, <1>6 DEF Others
  <2> QED
    BY <1>2, <2>1, <2>2, <2>3 DEF Effect
<1>7. CASE queue' = Closed(fin) /\ Exit(w) /\ Fatal
  <2>1. /\ wk' \in Teams /\ \A v \in Workers \ {w} : wk'[v] = wk[v]
        /\ wk'[w].pc \in {"off", "pop"} /\ wk'[w].cred = 0
    BY <1>2, <1>7, IdleAgain
  <2>2. ~HoldsLease(w)'
    BY <2>1, PcsAre DEF HoldsLease
  <2>3. eng' \in EngType /\ eng'.fatal
    BY <1>3, <1>7, EngineSteps
  <2>4. queue' \in QueueType
    BY <1>4, <1>7, ClosedIs
  <2>5. Typed'
    BY <2>1, <2>3, <2>4 DEF BookBase, Typed
  <2>6. Accepts(w)
    BY <1>1, <1>2, <1>7, <2>1, <2>2, <2>3 DEF Accepts, Stopped, fin
  <2>7. Others(w)
    BY <2>1 DEF Others
  <2> QED
    BY <1>2, <2>5, <2>6, <2>7 DEF Effect
<1> QED
  BY <1>6, <1>7 DEF fin

\* A fault latched in the window, and a file that was created for nothing.
LEMMA FaultKeeps ==
  ASSUME win \in WinType, Sound(win), NEW o \in BOOLEAN, NEW f \in BOOLEAN,
         win' = [win EXCEPT !.fault = f] \/ win' = [[win EXCEPT !.fault = f] EXCEPT !.open = o]
  PROVE  /\ win' \in WinType /\ Sound(win') /\ Held(win') = Held(win)
         /\ win'.merged = win.merged /\ win'.entries = win.entries /\ win'.tail = win.tail
         /\ win'.pending = win.pending /\ win'.fault = f /\ win'.bits = win.bits
         /\ win'.open = win.open \/ win'.open = o
<1>1. /\ win.merged \in 0..NSeg /\ win.bits \in SUBSET Segs /\ win.entries \in Ledgers
      /\ win.tail \in Nat /\ win.pending \in SUBSET Segs /\ win.open \in BOOLEAN
  BY DEF WinType
<1>2. PICK p \in BOOLEAN : /\ p = win.open \/ p = o
                           /\ win' = [merged |-> win.merged, bits |-> win.bits,
                                      entries |-> win.entries, tail |-> win.tail,
                                      pending |-> win.pending, open |-> p, fault |-> f]
  <2> DEFINE g == [merged |-> win.merged, bits |-> win.bits, entries |-> win.entries,
                   tail |-> win.tail, pending |-> win.pending, open |-> win.open, fault |-> f]
  <2>1. [win EXCEPT !.fault = f] = g
    BY DEF WinType
  <2>2. [g EXCEPT !.open = o] =
          [merged |-> win.merged, bits |-> win.bits, entries |-> win.entries,
           tail |-> win.tail, pending |-> win.pending, open |-> o, fault |-> f]
    OBVIOUS
  <2>3. CASE win' = [win EXCEPT !.fault = f]
    BY <1>1, <2>1, <2>3
  <2>4. CASE win' = [[win EXCEPT !.fault = f] EXCEPT !.open = o]
    <3>1. win' = [g EXCEPT !.open = o]
      BY <2>1, <2>4
    <3> QED
      BY <2>2, <3>1
  <2> QED
    BY <2>3, <2>4
<1>3. win' \in WinType
  BY <1>1, <1>2 DEF WinType
<1>4. /\ win'.merged = win.merged /\ win'.entries = win.entries /\ win'.tail = win.tail
      /\ win'.pending = win.pending /\ win'.fault = f /\ win'.bits = win.bits
      /\ win'.open = p
  BY <1>2
<1>5. Sound(win') /\ Held(win') = Held(win)
  BY <1>4 DEF Sound, Held
<1> QED
  BY <1>2, <1>3, <1>4, <1>5

\* The range of a sequence of one segment.
LEMMA RangeOfOne == ASSUME NEW s \in Segs PROVE <<s>> \in Seq(Segs) /\ Range(<<s>>) = {s}
BY DEF Range

\* What a commit does to the window.
LEMMA CommitWindow ==
  ASSUME BookBase, NEW w \in Workers, Commit(w)
  PROVE  /\ mode = "run" /\ mode' = "run" /\ win' \in WinType /\ Sound(win')
         /\ UNCHANGED <<stored, durable, owe, mode, task, url, prog>>
         /\ wk[w].pc = "commit"
         /\ \/ /\ Refused(w) \/ DirectFails(w) \/ SpillFails(w)
               /\ Held(win') = Held(win) /\ UNCHANGED <<queue, eng>> /\ Bad(w, "io")
            \/ /\ Direct(w) \/ Buffered(w) \/ SpillIt(w)
               /\ Held(win') = Held(win) \cup {wk[w].seg} /\ UNCHANGED eng
               /\ queue' = Finish(queue, wk[w].seg) /\ Settled(w)
            \/ /\ DrainFails(w) /\ Held(win') = Held(win) \cup {wk[w].seg}
               /\ queue' = Closed(Finish(queue, wk[w].seg)) /\ Exit(w) /\ Fatal
<1>1. wk[w].pc = "commit" /\ UNCHANGED <<stored, durable, owe, mode, task, url, prog>>
  BY DEF Commit, Refused, Direct, DirectFails, DrainFails, Buffered, SpillIt, SpillFails,
         Overflow, CommitFrame
<1>2. HoldsLease(w) /\ wk[w].pc # "off"
  BY <1>1, PcsAre DEF HoldsLease
<1>3. /\ mode = "run" /\ Sound(win) /\ win \in WinType /\ wk[w].seg \in Segs
      /\ wk[w].seg \notin Held(win) /\ mode' = "run"
  BY <1>1, <1>2, WorksInRun DEF BookBase, Typed
<1> DEFINE s == wk[w].seg
           d == [win EXCEPT !.pending = @ \cup {s}]
<1>4. d \in WinType /\ Sound(d) /\ Held(d) = Held(win) \cup {s}
  BY <1>3, BufferSound
<1> HIDE DEF d
<1>5. CASE Refused(w)
  <2>1. UNCHANGED win /\ Bad(w, "io") /\ UNCHANGED <<queue, eng>>
    BY <1>5 DEF Refused
  <2> QED
    BY <1>1, <1>3, <1>5, <2>1
<1>6. CASE DirectFails(w) \/ SpillFails(w)
  <2>1. Bad(w, "io") /\ UNCHANGED <<queue, eng>>
    BY <1>6 DEF DirectFails, SpillFails
  <2>2. PICK f \in BOOLEAN, o \in BOOLEAN : /\ f = TRUE
                                           /\ o = (win.open \/ CanSpill)
    OBVIOUS
  <2>3. win' = [win EXCEPT !.fault = f] \/ win' = [[win EXCEPT !.fault = f] EXCEPT !.open = o]
    BY <1>3, <1>6, <2>2 DEF DirectFails, SpillFails, WinType
  <2> QED
    BY <1>1, <1>3, <1>6, <2>1, <2>3, FaultKeeps
<1>7. CASE Direct(w)
  <2>1. /\ Drain(d, Contiguous(d)) /\ UNCHANGED eng /\ queue' = Finish(queue, s) /\ Settled(w)
    BY <1>7 DEF Direct, Lease, d
  <2>2. win' \in WinType /\ Sound(win') /\ Held(win') = Held(d)
    BY <1>4, <2>1, DrainSound
  <2> QED
    BY <1>1, <1>3, <1>4, <1>7, <2>1, <2>2
<1>8. CASE DrainFails(w)
  <2>1. /\ DrainFault(d, Contiguous(d)) /\ queue' = Closed(Finish(queue, s)) /\ Exit(w) /\ Fatal
    BY <1>8 DEF DrainFails, Lease, d
  <2>2. win' \in WinType /\ Sound(win') /\ Held(win') = Held(d)
    BY <1>4, <2>1, DrainSound
  <2> QED
    BY <1>1, <1>3, <1>4, <1>8, <2>1, <2>2
<1>9. CASE Buffered(w)
  <2>1. win' = d /\ UNCHANGED eng /\ queue' = Finish(queue, s) /\ Settled(w)
    BY <1>9 DEF Buffered, Lease, d
  <2> QED
    BY <1>1, <1>3, <1>4, <1>9, <2>1
<1>10. CASE SpillIt(w)
  <2>1. Spill(<<s>>) /\ UNCHANGED eng /\ queue' = Finish(queue, s) /\ Settled(w)
    BY <1>10 DEF SpillIt, Lease
  <2>2. <<s>> \in Seq(Segs) /\ Range(<<s>>) = {s} /\ Range(<<s>>) \cap win.bits = {}
    BY <1>3, RangeOfOne DEF Held
  <2>3. win' \in WinType /\ Sound(win') /\ Held(win') = Held(win) \cup Range(<<s>>)
    BY <1>3, <2>1, <2>2, SpillSound
  <2> QED
    BY <1>1, <1>3, <1>10, <2>1, <2>2, <2>3
<1> QED
  BY <1>5, <1>6, <1>7, <1>8, <1>9, <1>10 DEF Commit

\* A commit is accepted, or fails.
LEMMA CommitEffect ==
  ASSUME BookBase, NEW w \in Workers, Commit(w)
  PROVE  Effect(w)
<1>1. /\ mode' = mode /\ win' \in WinType /\ Sound(win') /\ UNCHANGED <<task, url, prog>>
      /\ wk[w].pc = "commit"
  BY CommitWindow
<1>2. HoldsLease(w)
  BY <1>1, PcsAre DEF HoldsLease
<1>3. CASE Held(win') = Held(win) /\ UNCHANGED <<queue, eng>> /\ Bad(w, "io")
  BY <1>1, <1>2, <1>3, BadEffect DEF Errs
<1>4. CASE /\ Held(win') = Held(win) \cup {wk[w].seg}
           /\ \/ queue' = Finish(queue, wk[w].seg) /\ Settled(w) /\ UNCHANGED eng
              \/ queue' = Closed(Finish(queue, wk[w].seg)) /\ Exit(w) /\ Fatal
  BY <1>1, <1>4, AcceptEffect
<1> QED
  BY <1>3, <1>4, CommitWindow

\* A step of the run that touches no lease: at most some workers begin.
LEMMA BesidesEffect ==
  ASSUME BookBase, mode = "run", mode' = mode, UNCHANGED <<win, prog>>,
         task' \in [Segs -> TaskType], url' \in UrlType, eng' \in EngType, wk' \in Teams,
         \A v \in Workers : wk'[v] = wk[v] \/ (wk[v].pc = "off" /\ wk'[v] = Parked),
         queue' \in QueueType, queue'.state = queue.state, queue'.left = queue.left,
         Stopped' \/ (UNCHANGED <<queue, eng>>)
  PROVE  \E w \in Workers : Effect(w)
<1>1. PICK w \in Workers : TRUE
  BY HlsAssumption
<1>2. prog \in Int /\ win \in WinType /\ Sound(win) /\ wk \in Teams
  BY DEF BookBase, Typed, WinOK
<1>3. wk[w] \in Attempt
  BY <1>2 DEF Teams
<1>4. wk'[w].cred = wk[w].cred /\ wk[w].cred \in 0..1
  <2>1. CASE wk'[w] = wk[w]
    BY <1>3, <2>1, AttemptIs
  <2>2. CASE wk[w].pc = "off" /\ wk'[w] = Parked
    <3>1. wk[w].cred = 0 /\ Parked.cred = 0
      BY <1>3, <2>2, AttemptIs, IdleIs
    <3> QED
      BY <2>2, <3>1
  <2> QED
    BY <2>1, <2>2
<1>5. prog' = prog + wk'[w].cred - wk[w].cred /\ prog' \in Int
  BY <1>2, <1>4
<1>6. /\ HoldsLease(w)' => HoldsLease(w) /\ wk'[w].seg = wk[w].seg
      /\ HoldsLease(w) => HoldsLease(w)'
  BY IdleIs, PcsAre DEF HoldsLease
<1>7. Stopped' \/ (queue' = queue /\ ~Stopped)
  BY DEF Stopped
<1>8. Keeps(w)
  BY <1>5, <1>6, <1>7 DEF Keeps, Booked
<1>9. Typed'
  BY <1>5 DEF BookBase, Typed
<1> QED
  BY <1>2, <1>8, <1>9 DEF Effect, Others

\* Some workers begin.
LEMMA SpawnedIs ==
  ASSUME wk \in Teams, NEW ws \in SUBSET (Workers \ Live)
  PROVE  /\ Spawned(ws) \in Teams
         /\ \A v \in Workers : Spawned(ws)[v] = wk[v] \/ (wk[v].pc = "off" /\ Spawned(ws)[v] = Parked)
<1>1. \A v \in ws : wk[v].pc = "off"
  BY DEF Live
<1> QED
  BY <1>1, IdleIs DEF Teams, Spawned

\* The control of the run and its refresh.
LEMMA ControlEffect ==
  ASSUME BookBase, Spawn \/ Pause \/ Expire \/ Refresh
  PROVE  \E w \in Workers : Effect(w)
<1>1. /\ task \in [Segs -> TaskType] /\ url \in UrlType /\ eng \in EngType /\ wk \in Teams
      /\ queue \in QueueType
  BY DEF BookBase, Typed
<1>2. CASE Spawn
  <2>1. /\ mode = "run" /\ mode' = mode /\ UNCHANGED <<win, prog, queue, task, eng, url>>
    BY <1>2 DEF Spawn, RunFrame
  <2>2. PICK w \in Workers \ Live : wk' = Spawned({w})
    BY <1>2 DEF Spawn
  <2>3. /\ wk' \in Teams
        /\ \A v \in Workers : wk'[v] = wk[v] \/ (wk[v].pc = "off" /\ wk'[v] = Parked)
    BY <1>1, <2>2, SpawnedIs
  <2> QED
    BY <1>1, <2>1, <2>3, BesidesEffect
<1>3. CASE Pause
  <2>1. /\ mode = "run" /\ mode' = mode /\ UNCHANGED <<win, prog, queue, task, wk, url>>
        /\ eng' = [eng EXCEPT !.paused = TRUE]
    BY <1>3 DEF Pause, RunFrame
  <2>2. eng' \in EngType /\ eng'.paused
    BY <1>1, <2>1, EngineSteps
  <2> QED
    BY <1>1, <2>1, <2>2, BesidesEffect DEF Stopped
<1>4. CASE Expire
  <2>1. /\ mode = "run" /\ mode' = mode /\ UNCHANGED <<win, prog, queue, task, wk, eng>>
        /\ url' = [url EXCEPT !.alive = @ + 1]
    BY <1>4 DEF Expire, RunFrame
  <2>2. url' \in UrlType
    BY <1>1, <2>1 DEF UrlType
  <2> QED
    BY <1>1, <2>1, <2>2, BesidesEffect
<1>5. CASE Refresh
  <2>1. /\ mode = "run" /\ mode' = mode /\ UNCHANGED <<win, prog, wk>>
    BY <1>5 DEF Refresh, RunFrame, BookBase, PhaseOK
  <2>2. Landed \in UrlType /\ [Landed EXCEPT !.gen = @ + 1] \in UrlType
    <3>1. PICK f \in BOOLEAN, c \in BOOLEAN : f = FALSE /\ c = TRUE
      OBVIOUS
    <3> DEFINE u == [gen |-> url.gen, alive |-> url.alive, flight |-> f, cool |-> url.cool]
               l == [gen |-> url.gen, alive |-> url.alive, flight |-> f, cool |-> c]
    <3>2. /\ url.gen \in Nat /\ url.alive \in Nat /\ url.cool \in BOOLEAN
      BY <1>1 DEF UrlType
    <3>3. [url EXCEPT !.flight = f] = u
      BY <1>1 DEF UrlType
    <3>4. [u EXCEPT !.cool = c] = l
      OBVIOUS
    <3>5. Landed = l
      <4>1. Landed = [[url EXCEPT !.flight = f] EXCEPT !.cool = c]
        BY <3>1 DEF Landed
      <4> QED
        BY <3>3, <3>4, <4>1
    <3>6. l \in UrlType
      BY <3>2 DEF UrlType
    <3> HIDE DEF l
    <3>7. [l EXCEPT !.gen = @ + 1] \in UrlType
      BY <3>6 DEF UrlType
    <3> QED
      BY <3>5, <3>6, <3>7
  <2>3. CASE Adopt /\ url' = [Landed EXCEPT !.gen = @ + 1] /\ UNCHANGED <<queue, eng>>
    <3>1. task' \in [Segs -> TaskType]
      <4>1. PICK m \in BOOLEAN : m = FALSE
        OBVIOUS
      <4>2. \A s \in Segs : [task[s] EXCEPT !.mark = m] \in TaskType
        BY <1>1 DEF TaskType
      <4>3. task' = [s \in Segs |-> [task[s] EXCEPT !.mark = m]]
        BY <2>3, <4>1 DEF Adopt
      <4> QED
        BY <4>2, <4>3
    <3>2. url' \in UrlType
      BY <2>2, <2>3
    <3> QED
      BY <1>1, <2>1, <2>3, <3>1, <3>2, BesidesEffect
  <2>4. CASE url' = Landed /\ UNCHANGED <<queue, task, eng>>
    <3>1. url' \in UrlType
      BY <2>2, <2>4
    <3> QED
      BY <1>1, <2>1, <2>4, <3>1, BesidesEffect
  <2>5. CASE Fatal /\ queue' = Closed(queue) /\ url' = Landed /\ UNCHANGED task
    <3>1. url' \in UrlType
      BY <2>2, <2>5
    <3>2. eng' \in EngType /\ eng'.fatal
      BY <1>1, <2>5, EngineSteps
    <3>3. queue' \in QueueType /\ queue'.state = queue.state /\ queue'.left = queue.left
      BY <1>1, <2>5, ClosedIs
    <3> QED
      BY <1>1, <2>1, <2>5, <3>1, <3>2, <3>3, BesidesEffect DEF Stopped
  <2> QED
    BY <1>5, <2>3, <2>4, <2>5 DEF Refresh
<1> QED
  BY <1>2, <1>3, <1>4, <1>5

\* A worker of a run that stops goes without its segment.
LEMMA FatalEffect ==
  ASSUME BookBase, NEW w \in Workers, wk[w].pc # "off", mode' = mode,
         UNCHANGED <<win, task, url>>, Exit(w) \/ Loop(w), Fatal, queue' = Closed(queue),
         prog' = prog - wk[w].cred
  PROVE  Effect(w)
<1>1. /\ wk \in Teams /\ prog \in Int /\ wk[w].cred \in 0..1 /\ mode = "run"
      /\ win' \in WinType /\ Sound(win') /\ Held(win') = Held(win)
  BY WorksInRun, SameWindow
<1>2. /\ wk' \in Teams /\ \A v \in Workers \ {w} : wk'[v] = wk[v]
      /\ wk'[w].pc \in {"off", "pop"} /\ wk'[w].cred = 0
  BY <1>1, IdleAgain
<1>3. ~HoldsLease(w)'
  BY <1>2, PcsAre DEF HoldsLease
<1>4. prog' = prog + wk'[w].cred - wk[w].cred /\ prog' \in Int
  BY <1>1, <1>2
<1>5. eng' \in EngType /\ eng'.fatal
  BY EngineSteps DEF BookBase, Typed
<1>6. queue' \in QueueType /\ queue'.state = queue.state /\ queue'.left = queue.left
  BY ClosedIs DEF BookBase, Typed
<1>7. Typed'
  BY <1>1, <1>2, <1>4, <1>5, <1>6 DEF BookBase, Typed
<1>8. Keeps(w)
  BY <1>1, <1>3, <1>4, <1>5, <1>6 DEF Keeps, Booked, Stopped
<1>9. Others(w)
  BY <1>2 DEF Others
<1> QED
  BY <1>1, <1>7, <1>8, <1>9 DEF Effect

\* The first checkpoint, and the workers it lets begin.
LEMMA FirstEffect ==
  ASSUME BookBase, NEW w \in Workers, FirstCheckpoint(w) \/ FirstFails(w)
  PROVE  Effect(w)
<1>1. wk[w].pc = "first" /\ wk[w].pc # "off" /\ ~HoldsLease(w)
  BY PcsAre DEF FirstCheckpoint, FirstFails, HoldsLease
<1>2. /\ wk \in Teams /\ prog \in Int /\ wk[w].cred = 0 /\ mode = "run"
      /\ wk[w].drain \in BOOLEAN
  BY <1>1, WorksInRun, AttemptIs
<1>3. CASE FirstFails(w)
  <2>1. /\ Fatal /\ queue' = Closed(queue) /\ Loop(w) /\ mode' = mode
        /\ UNCHANGED <<win, task, url>> /\ prog' = prog - wk[w].cred
    BY <1>2, <1>3 DEF FirstFails, RunFrame
  <2> QED
    BY <1>1, <2>1, FatalEffect
<1>4. CASE FirstCheckpoint(w)
  <2>1. /\ mode' = mode /\ UNCHANGED <<win, queue, task, url, prog>>
        /\ eng' = [eng EXCEPT !.open = TRUE]
    BY <1>4 DEF FirstCheckpoint
  <2> DEFINE p == [Parked EXCEPT !.drain = wk[w].drain]
  <2>2. PICK ws \in SUBSET (Workers \ Live) : wk' = [Spawned(ws) EXCEPT ![w] = p]
    BY <1>4 DEF FirstCheckpoint
  <2>3. /\ Spawned(ws) \in Teams
        /\ \A v \in Workers : Spawned(ws)[v] = wk[v] \/ (wk[v].pc = "off" /\ Spawned(ws)[v] = Parked)
    BY <1>2, SpawnedIs
  <2>4. p \in Attempt /\ p.pc = "pop" /\ p.cred = 0
    BY <1>2, IdleIs
  <2> HIDE DEF p
  <2>5. /\ wk' \in Teams /\ wk'[w] = p
        /\ \A v \in Workers \ {w} : wk'[v] = Spawned(ws)[v]
    BY <2>2, <2>3, <2>4 DEF Teams
  <2>6. Others(w) /\ ~HoldsLease(w)' /\ prog' = prog + wk'[w].cred - wk[w].cred
    BY <1>2, <2>1, <2>3, <2>4, <2>5, PcsAre DEF Others, HoldsLease
  <2>7. eng' \in EngType /\ eng'.fatal = eng.fatal /\ eng'.paused = eng.paused
    BY <2>1, EngineSteps DEF BookBase, Typed
  <2>8. win' \in WinType /\ Sound(win') /\ Held(win') = Held(win)
    BY <1>1, <2>1, SameWindow
  <2>9. Typed'
    BY <2>1, <2>5, <2>7 DEF BookBase, Typed
  <2>10. Stopped' <=> Stopped
    BY <2>7 DEF Stopped
  <2>11. Keeps(w)
    BY <1>1, <2>1, <2>6, <2>8, <2>10 DEF Keeps, Booked
  <2> QED
    BY <1>2, <2>1, <2>6, <2>8, <2>9, <2>11 DEF Effect
<1> QED
  BY <1>3, <1>4

\* An attempt that was not accepted ends, or is tried again.
LEMMA SettleEffect ==
  ASSUME BookBase, NEW w \in Workers, Settle(w)
  PROVE  Effect(w)
<1>1. /\ wk[w].pc = "bad" /\ mode' = mode /\ UNCHANGED <<win, url>>
      /\ prog' = prog - wk[w].cred
  BY DEF Settle, RunFrame, Uncredited
<1>2. HoldsLease(w) /\ wk[w].pc # "off"
  BY <1>1, PcsAre DEF HoldsLease
<1>3. /\ wk \in Teams /\ wk[w] \in Attempt /\ wk[w].seg \in Segs /\ prog \in Int
      /\ wk[w].cred \in 0..1
  BY <1>2, WorksInRun
<1> DEFINE s == wk[w].seg
           marked == wk[w].err = "refused" /\ wk[w].stop = "none"
<1>4. CASE Exit(w) /\ Fatal /\ queue' = Closed(queue) /\ UNCHANGED task
  BY <1>1, <1>2, <1>4, FatalEffect
<1>5. CASE Stopped /\ Exit(w) /\ UNCHANGED <<queue, task, eng>>
  BY <1>1, <1>2, <1>5, IdleEffect
<1>6. CASE Loop(w) /\ queue' = Requeue(queue, s) /\ UNCHANGED <<task, eng>>
  BY <1>1, <1>2, <1>6, ReturnEffect
<1>7. CASE /\ wk' = [wk EXCEPT ![w] = [Off EXCEPT !.pc = "wait", !.seg = s, !.drain = wk[w].drain]]
           /\ task' = [task EXCEPT ![s].retries = @ + 1, ![s].mark = @ \/ marked]
           /\ UNCHANGED <<queue, eng>>
  <2> DEFINE b == [pc |-> "wait", seg |-> s, stop |-> "none", drain |-> wk[w].drain,
                   cred |-> 0, err |-> "none"]
  <2>1. [Off EXCEPT !.pc = "wait", !.seg = s, !.drain = wk[w].drain] = b
    <3> DEFINE o == Off
               c == [pc |-> "wait", seg |-> o.seg, stop |-> o.stop, drain |-> o.drain,
                     cred |-> o.cred, err |-> o.err]
               d == [pc |-> "wait", seg |-> s, stop |-> o.stop, drain |-> o.drain,
                     cred |-> o.cred, err |-> o.err]
               e == [pc |-> "wait", seg |-> s, stop |-> o.stop, drain |-> wk[w].drain,
                     cred |-> o.cred, err |-> o.err]
    <3>1. o \in Attempt /\ o.cred = 0 /\ o.err = "none" /\ o.stop = "none"
      BY IdleIs
    <3> HIDE DEF o
    <3>2. [o EXCEPT !.pc = "wait"] = c
      BY <3>1, AttemptIs
    <3>3. [c EXCEPT !.seg = s] = d
      OBVIOUS
    <3>4. [d EXCEPT !.drain = wk[w].drain] = e
      OBVIOUS
    <3>5. e = b
      BY <3>1
    <3> QED
      BY <3>2, <3>3, <3>4, <3>5 DEF o
  <2>2. b \in Attempt /\ b.pc = "wait" /\ b.seg = s /\ b.cred = 0
    <3>1. "wait" \in Pcs /\ "wait" \notin {"gate", "commit"} /\ 0 \in 0..1
          /\ "none" \in Stops /\ "none" \in Errs
      BY DEF Pcs, Stops, Errs
    <3>2. s \in 0..NSeg /\ wk[w].drain \in BOOLEAN
      BY <1>3, AttemptIs
    <3> QED
      BY <1>3, <3>1, <3>2, AttemptOf
  <2>3. Becomes(w, b)
    BY <1>7, <2>1 DEF Becomes
  <2> HIDE DEF b
  <2>4. wk' \in Teams /\ wk'[w] = b /\ \A v \in Workers \ {w} : wk'[v] = wk[v]
    BY <1>3, <2>2, <2>3, BecomesIs
  <2>5. task' \in [Segs -> TaskType]
    <3>0. task \in [Segs -> TaskType] /\ url \in UrlType
      BY DEF BookBase, Typed
    <3>1. PICK m \in BOOLEAN : m = (task[s].mark \/ marked)
      OBVIOUS
    <3>2. task' = [task EXCEPT ![s].retries = @ + 1, ![s].mark = m]
      BY <1>3, <1>7, <3>0, <3>1 DEF TaskType
    <3> QED
      BY <1>3, <3>0, <3>2, TaskFails
  <2>6. HoldsLease(w)' /\ wk'[w].seg = wk[w].seg /\ Others(w)
    BY <2>2, <2>4, PcsAre DEF HoldsLease, Others
  <2>7. prog' = prog + wk'[w].cred - wk[w].cred
    BY <1>1, <1>3, <2>2, <2>4
  <2>8. url' \in UrlType
    BY <1>1 DEF BookBase, Typed
  <2> QED
    BY <1>1, <1>2, <1>7, <2>4, <2>5, <2>6, <2>7, <2>8, SameWindow, KeepsEffect
<1> QED
  BY <1>4, <1>5, <1>6, <1>7 DEF Settle, Lease

\* A worker that is told to stop is where it was.
LEMMA ToldEffect ==
  ASSUME BookBase, NEW w \in Workers, wk[w].pc # "off", mode' = mode,
         UNCHANGED <<win, queue, eng, task, url, prog>>,
         NEW t \in Stops, NEW d \in BOOLEAN,
         \/ wk' = [wk EXCEPT ![w] = [wk[w] EXCEPT !.stop = t]]
         \/ wk' = [wk EXCEPT ![w] = [[wk[w] EXCEPT !.drain = d] EXCEPT !.stop = t]]
  PROVE  Effect(w)
<1>1. wk \in Teams /\ wk[w] \in Attempt /\ prog \in Int /\ wk[w].cred \in 0..1
  BY WorksInRun
<1> DEFINE a == wk[w]
<1>2. PICK e \in BOOLEAN : Becomes(w, [pc |-> a.pc, seg |-> a.seg, stop |-> t, drain |-> e,
                                       cred |-> a.cred, err |-> a.err])
  <2> DEFINE c == [pc |-> a.pc, seg |-> a.seg, stop |-> a.stop, drain |-> d,
                   cred |-> a.cred, err |-> a.err]
             b(f) == [pc |-> a.pc, seg |-> a.seg, stop |-> t, drain |-> f,
                      cred |-> a.cred, err |-> a.err]
  <2>1. [a EXCEPT !.stop = t] = b(a.drain) /\ a.drain \in BOOLEAN
    BY <1>1, AttemptIs
  <2>2. [a EXCEPT !.drain = d] = c
    BY <1>1, AttemptIs
  <2>3. [c EXCEPT !.stop = t] = b(d)
    OBVIOUS
  <2>4. CASE wk' = [wk EXCEPT ![w] = [a EXCEPT !.stop = t]]
    BY <2>1, <2>4 DEF Becomes
  <2>5. CASE wk' = [wk EXCEPT ![w] = [[a EXCEPT !.drain = d] EXCEPT !.stop = t]]
    BY <2>2, <2>3, <2>5 DEF Becomes
  <2> QED
    BY <2>4, <2>5
<1> DEFINE b == [pc |-> a.pc, seg |-> a.seg, stop |-> t, drain |-> e,
                 cred |-> a.cred, err |-> a.err]
<1>3. b \in Attempt /\ b.pc = a.pc /\ b.seg = a.seg /\ b.cred = a.cred
  BY <1>1, AttemptIs, AttemptOf
<1> HIDE DEF b
<1>4. wk' \in Teams /\ wk'[w] = b /\ \A v \in Workers \ {w} : wk'[v] = wk[v]
  BY <1>1, <1>2, <1>3, BecomesIs DEF b
<1>5. /\ HoldsLease(w)' <=> HoldsLease(w)
      /\ wk'[w].seg = wk[w].seg /\ prog' = prog + wk'[w].cred - wk[w].cred /\ Others(w)
  BY <1>1, <1>3, <1>4 DEF HoldsLease, Others
<1>6. task' \in [Segs -> TaskType] /\ url' \in UrlType
  BY DEF BookBase, Typed
<1> QED
  BY <1>4, <1>5, <1>6, SameWindow, KeepsEffect

\* Kill, stall and drain.
LEMMA ToldEffects ==
  ASSUME BookBase, NEW w \in Workers, Control(w)
  PROVE  Effect(w)
<1>1. wk[w].pc # "off" /\ mode' = mode /\ UNCHANGED <<win, queue, eng, task, url, prog>>
  BY DEF Control, Kill, Stall, DrainWorker, RunFrame, Interruptible, Live
<1>2. wk \in Teams /\ wk[w] \in Attempt
  BY <1>1, WorksInRun
<1>3. CASE Kill(w)
  <2>1. wk' = [wk EXCEPT ![w] = [wk[w] EXCEPT !.stop = "kill"]] /\ "kill" \in Stops
    BY <1>3 DEF Kill, Stops
  <2> QED
    BY <1>1, <2>1, ToldEffect
<1>4. CASE Stall(w)
  <2>1. wk' = [wk EXCEPT ![w] = [wk[w] EXCEPT !.stop = "stall"]] /\ "stall" \in Stops
    BY <1>4 DEF Stall, Stops
  <2> QED
    BY <1>1, <2>1, ToldEffect
<1>5. CASE DrainWorker(w)
  <2>1. PICK t \in Stops : t = IF Interruptible(w) /\ wk[w].stop = "none" THEN "drain" ELSE wk[w].stop
    BY <1>2, AttemptIs DEF Stops
  <2>2. PICK d \in BOOLEAN : d = TRUE
    OBVIOUS
  <2>3. wk' = [wk EXCEPT ![w] = [[wk[w] EXCEPT !.drain = d] EXCEPT !.stop = t]]
    <3>1. wk' = [wk EXCEPT ![w].drain = TRUE,
                      ![w].stop = IF Interruptible(w) /\ @ = "none" THEN "drain" ELSE @]
      BY <1>5 DEF DrainWorker
    <3>2. [wk[w] EXCEPT !.drain = d].stop = wk[w].stop
      BY <1>2 DEF Attempt, Record
    <3>3. wk' = [wk EXCEPT ![w] = [[wk[w] EXCEPT !.drain = d] EXCEPT !.stop =
                    IF Interruptible(w) /\ [wk[w] EXCEPT !.drain = d].stop = "none" THEN "drain"
                    ELSE [wk[w] EXCEPT !.drain = d].stop]]
      BY <1>2, <2>2, <3>1 DEF Teams
    <3> QED
      BY <2>1, <3>2, <3>3
  <2> QED
    BY <1>1, <2>3, ToldEffect
<1> QED
  BY <1>3, <1>4, <1>5 DEF Control

\* Every step of a worker.
LEMMA WorkerEffect ==
  ASSUME BookBase, NEW w \in Workers, Worker(w) \/ Control(w)
  PROVE  Effect(w)
BY PopEffect, GiveBackEffect, RequestEffect, FetchedEffect, NotFetchedEffect, GateEffect,
   CommitEffect, FirstEffect, SettleEffect, ToldEffects, Zenon DEF Worker

-----------------------------------------------------------------------------
(* What a step does to the parts of the invariant. *)

\* The other workers keep their leases and their credit.
LEMMA OthersKeep ==
  ASSUME BookBase, NEW w \in Workers, Others(w)
  PROVE  \A v \in Workers \ {w} :
           /\ HoldsLease(v)' <=> HoldsLease(v)
           /\ HoldsLease(v) => wk'[v].seg = wk[v].seg
           /\ wk'[v].cred = wk[v].cred
<1> TAKE v \in Workers \ {w}
<1>1. wk[v] \in Attempt
  BY DEF BookBase, Typed, Teams
<1>2. CASE wk'[v] = wk[v]
  BY <1>2 DEF HoldsLease
<1>3. CASE wk[v].pc = "off" /\ wk'[v] = Parked
  <2>1. wk[v].cred = 0
    BY <1>1, <1>3, AttemptIs
  <2>2. ~HoldsLease(v) /\ ~HoldsLease(v)'
    BY <1>3, IdleIs, PcsAre DEF HoldsLease
  <2> QED
    BY <1>3, <2>1, <2>2, IdleIs
<1> QED
  BY <1>2, <1>3 DEF Others

\* The segments by state, after a step that changes the state of one or none.
LEMMA StateIs ==
  ASSUME BookBase, NEW s \in Segs, NEW x \in States,
         queue'.state = [queue.state EXCEPT ![s] = x]
  PROVE  /\ In(x)' = In(x) \cup {s}
         /\ \A y \in States \ {x} : In(y)' = In(y) \ {s}
<1>1. queue.state \in [Segs -> States]
  BY DEF BookBase, Typed, QueueType
<1>2. \A r \in Segs : queue'.state[r] = IF r = s THEN x ELSE queue.state[r]
  BY <1>1
<1> QED
  BY <1>2 DEF In

\* The queue and the leases agree after each kind of step.
LEMMA QueueStep ==
  ASSUME BookBase, ListOK, NEW w \in Workers, Effect(w)
  PROVE  QueueOK'
<1>1. /\ mode = "run" /\ mode' = "run" /\ Others(w) /\ wk \in Teams
      /\ queue \in QueueType /\ queue.state \in [Segs -> States]
  BY DEF Effect, BookBase, Typed, QueueType
<1>2. \A v \in Workers \ {w} :
        /\ HoldsLease(v)' <=> HoldsLease(v)
        /\ HoldsLease(v) => wk'[v].seg = wk[v].seg
  BY <1>1, OthersKeep
<1>3. /\ In("done") = Held(win) /\ queue.left = Cardinality(Segs \ In("done"))
      /\ \A v \in Workers : HoldsLease(v) => queue.state[wk[v].seg] = "leased"
      /\ \A u, v \in Workers : HoldsLease(u) /\ HoldsLease(v) /\ wk[u].seg = wk[v].seg => u = v
  BY <1>1 DEF BookBase, QueueOK
<1>4. \A v \in Workers : HoldsLease(v) => wk[v].seg \in Segs
  BY <1>1, AttemptIs DEF Teams, HoldsLease
<1>5. CASE Keeps(w)
  <2>1. /\ queue'.state = queue.state /\ queue'.left = queue.left /\ Held(win') = Held(win)
        /\ HoldsLease(w)' => HoldsLease(w) /\ wk'[w].seg = wk[w].seg
    BY <1>5 DEF Keeps, Booked
  <2>2. In("done")' = In("done")
    BY <2>1 DEF In
  <2>3. \A v \in Workers : HoldsLease(v)' => HoldsLease(v) /\ wk'[v].seg = wk[v].seg
    BY <1>2, <2>1
  <2> QED
    BY <1>3, <2>1, <2>2, <2>3 DEF QueueOK
<1>6. CASE Takes(w)
  <2> DEFINE h == Head(queue.ready)
  <2>1. /\ queue'.state = [queue.state EXCEPT ![h] = "leased"] /\ queue'.left = queue.left
        /\ Held(win') = Held(win) /\ ~Stopped /\ queue.ready # << >> /\ wk'[w].seg = h
    BY <1>6 DEF Takes, Booked
  <2>2. h \in In("ready") /\ h \in Segs
    <3>1. Lists(queue.ready, In("ready")) /\ queue.ready \in Seq(Segs)
      BY <1>1, <2>1 DEF ListOK, QueueType
    <3> QED
      BY <2>1, <3>1, PopLists
  <2> HIDE DEF h
  <2>3. In("done")' = In("done") \ {h} /\ In("leased")' = In("leased") \cup {h}
    BY <2>1, <2>2, StateIs DEF States
  <2>4. h \notin In("done") /\ queue.state[h] # "leased"
    BY <2>2 DEF In
  <2>5. In("done")' = In("done")
    BY <2>3, <2>4
  <2>6. \A v \in Workers \ {w} : HoldsLease(v)' => wk'[v].seg # h /\ queue'.state[wk'[v].seg] = "leased"
    BY <1>1, <1>2, <1>3, <1>4, <2>1, <2>4
  <2>7. queue'.state[h] = "leased"
    BY <1>1, <2>1, <2>2
  <2> QED
    BY <1>2, <1>3, <2>1, <2>5, <2>6, <2>7 DEF QueueOK
<1>7. CASE Returns(w)
  <2> DEFINE s == wk[w].seg
  <2>1. /\ HoldsLease(w) /\ ~HoldsLease(w)' /\ queue' = Requeue(queue, s) /\ Held(win') = Held(win)
    BY <1>7 DEF Returns, Booked
  <2>2. s \in Segs /\ queue.state[s] = "leased"
    BY <1>3, <1>4, <2>1
  <2> HIDE DEF s
  <2>3. queue'.state = [queue.state EXCEPT ![s] = "ready"] /\ queue'.left = queue.left
    BY <1>1, <2>1, <2>2, RequeueIs
  <2>4. In("done")' = In("done")
    <3>1. In("done")' = In("done") \ {s}
      BY <2>2, <2>3, StateIs DEF States
    <3> QED
      BY <2>2, <3>1 DEF In
  <2>5. \A v \in Workers \ {w} : HoldsLease(v) => wk[v].seg # s
    BY <1>3, <2>1 DEF s
  <2>6. \A v \in Workers \ {w} : HoldsLease(v)' => queue'.state[wk'[v].seg] = "leased"
    BY <1>1, <1>2, <1>3, <1>4, <2>3, <2>5
  <2> QED
    BY <1>2, <1>3, <2>1, <2>3, <2>4, <2>6 DEF QueueOK
<1>8. CASE Accepts(w)
  <2> DEFINE s == wk[w].seg
  <2>1. /\ HoldsLease(w) /\ ~HoldsLease(w)' /\ Held(win') = Held(win) \cup {s}
        /\ queue' = Finish(queue, s) \/ queue' = Closed(Finish(queue, s))
    BY <1>8 DEF Accepts
  <2>2. s \in Segs /\ queue.state[s] = "leased"
    BY <1>3, <1>4, <2>1
  <2> HIDE DEF s
  <2>3. queue'.state = [queue.state EXCEPT ![s] = "done"] /\ queue'.left = queue.left - 1
    <3>1. /\ Finish(queue, s) \in QueueType
          /\ Finish(queue, s).state = [queue.state EXCEPT ![s] = "done"]
          /\ Finish(queue, s).left = queue.left - 1
      BY <1>1, <2>2, FinishIs
    <3> QED
      BY <2>1, <3>1, ClosedIs
  <2>4. In("done")' = In("done") \cup {s}
    BY <2>2, <2>3, StateIs DEF States
  <2>5. s \in Segs \ In("done") /\ IsFiniteSet(Segs \ In("done"))
    BY <2>2, SegsFinite, FS_Difference DEF In
  <2>6. Segs \ In("done")' = (Segs \ In("done")) \ {s}
    BY <2>4
  <2>7. queue'.left = Cardinality(Segs \ In("done")')
    <3>1. Cardinality((Segs \ In("done")) \ {s}) = Cardinality(Segs \ In("done")) - 1
      BY <2>5, FS_RemoveElement
    <3> QED
      BY <1>3, <2>3, <2>6, <3>1
  <2>8. \A v \in Workers \ {w} : HoldsLease(v) => wk[v].seg # s
    BY <1>3, <2>1 DEF s
  <2>9. \A v \in Workers \ {w} : HoldsLease(v)' => queue'.state[wk'[v].seg] = "leased"
    BY <1>1, <1>2, <1>3, <1>4, <2>3, <2>8
  <2> QED
    BY <1>2, <1>3, <2>1, <2>4, <2>7, <2>9 DEF QueueOK
<1> QED
  BY <1>5, <1>6, <1>7, <1>8 DEF Effect

\* The list of the queue and the leases, while the engine runs.
LEMMA ListStep ==
  ASSUME BookBase, ListOK, NEW w \in Workers, Effect(w)
  PROVE  ListOK'
<1> SUFFICES ASSUME ~Stopped'
             PROVE  ListOK'
  BY DEF ListOK
<1>1. /\ mode = "run" /\ mode' = "run" /\ Others(w) /\ wk \in Teams
      /\ queue \in QueueType /\ queue.state \in [Segs -> States] /\ queue.ready \in Seq(Segs)
      /\ queue.closed \in BOOLEAN
  BY DEF Effect, BookBase, Typed, QueueType
<1>2. \A v \in Workers \ {w} :
        /\ HoldsLease(v)' <=> HoldsLease(v)
        /\ HoldsLease(v) => wk'[v].seg = wk[v].seg
  BY <1>1, OthersKeep
<1>3. ~Stopped
  BY DEF Effect, Keeps, Takes, Returns, Accepts
<1>4. /\ Lists(queue.ready, In("ready"))
      /\ \A s \in In("leased") : \E v \in Workers : HoldsLease(v) /\ wk[v].seg = s
      /\ queue.closed => queue.left = 0
  BY <1>1, <1>3 DEF ListOK
<1>5. /\ \A v \in Workers : HoldsLease(v) => wk[v].seg \in Segs /\ queue.state[wk[v].seg] = "leased"
      /\ queue.left = Cardinality(Segs \ In("done"))
  BY <1>1, AttemptIs DEF Teams, HoldsLease, BookBase, QueueOK
<1>6. CASE Keeps(w)
  <2>1. /\ queue' = queue /\ (HoldsLease(w) => HoldsLease(w)')
        /\ HoldsLease(w)' => HoldsLease(w) /\ wk'[w].seg = wk[w].seg
    BY <1>6 DEF Keeps
  <2>2. \A x : In(x)' = In(x)
    BY <2>1 DEF In
  <2>3. \A v \in Workers : HoldsLease(v) => HoldsLease(v)' /\ wk'[v].seg = wk[v].seg
    BY <1>2, <2>1
  <2> QED
    BY <1>4, <2>1, <2>2, <2>3 DEF ListOK
<1>7. CASE Takes(w)
  <2> DEFINE h == Head(queue.ready)
  <2>1. /\ queue'.state = [queue.state EXCEPT ![h] = "leased"] /\ queue'.left = queue.left
        /\ queue'.closed = queue.closed /\ queue'.ready = Tail(queue.ready)
        /\ queue.ready # << >> /\ wk'[w].seg = h /\ HoldsLease(w)' /\ ~HoldsLease(w)
    BY <1>7 DEF Takes
  <2>2. h \in In("ready") /\ h \in Segs /\ Lists(Tail(queue.ready), In("ready") \ {h})
    BY <1>1, <1>4, <2>1, PopLists
  <2> HIDE DEF h
  <2>3. In("ready")' = In("ready") \ {h} /\ In("leased")' = In("leased") \cup {h}
    BY <2>1, <2>2, StateIs DEF States
  <2>4. \A s \in In("leased")' : \E v \in Workers : HoldsLease(v)' /\ wk'[v].seg = s
    <3> TAKE s \in In("leased")'
    <3>1. CASE s = h
      BY <2>1, <3>1
    <3>2. CASE s # h
      <4>1. PICK v \in Workers : HoldsLease(v) /\ wk[v].seg = s
        BY <1>4, <2>3, <3>2
      <4> QED
        BY <1>2, <2>1, <4>1
    <3> QED
      BY <3>1, <3>2
  <2> QED
    BY <1>4, <2>1, <2>2, <2>3, <2>4 DEF ListOK
<1>8. CASE Returns(w)
  <2> DEFINE s == wk[w].seg
  <2>1. /\ HoldsLease(w) /\ ~HoldsLease(w)' /\ queue' = Requeue(queue, s)
    BY <1>8 DEF Returns
  <2>2. s \in Segs /\ queue.state[s] = "leased"
    BY <1>5, <2>1
  <2>3. ~queue.closed
    <3>1. s \in Segs \ In("done") /\ IsFiniteSet(Segs \ In("done"))
      BY <2>2, SegsFinite, FS_Difference DEF In
    <3>2. Cardinality(Segs \ In("done")) # 0
      BY <3>1, FS_EmptySet
    <3> QED
      BY <1>4, <1>5, <3>2
  <2> HIDE DEF s
  <2>4. /\ queue'.state = [queue.state EXCEPT ![s] = "ready"] /\ queue'.left = queue.left
        /\ queue'.closed = queue.closed /\ queue'.ready = <<s>> \o queue.ready
    BY <1>1, <2>1, <2>2, <2>3, RequeueIs
  <2>5. In("ready")' = In("ready") \cup {s} /\ In("leased")' = In("leased") \ {s}
    BY <2>2, <2>4, StateIs DEF States
  <2>6. Lists(queue'.ready, In("ready")')
    <3>1. s \notin In("ready")
      BY <2>2 DEF In
    <3> QED
      BY <1>1, <1>4, <2>2, <2>4, <2>5, <3>1, PushLists
  <2>7. \A r \in In("leased")' : \E v \in Workers : HoldsLease(v)' /\ wk'[v].seg = r
    <3> TAKE r \in In("leased")'
    <3>1. PICK v \in Workers : HoldsLease(v) /\ wk[v].seg = r
      BY <1>4, <2>5
    <3>2. v # w
      BY <2>5, <3>1 DEF s
    <3> QED
      BY <1>2, <3>1, <3>2
  <2> QED
    BY <2>3, <2>4, <2>6, <2>7 DEF ListOK
<1>9. CASE Accepts(w)
  <2> DEFINE s == wk[w].seg
  <2>1. HoldsLease(w) /\ ~HoldsLease(w)' /\ queue' = Finish(queue, s)
    BY <1>9 DEF Accepts
  <2>2. s \in Segs /\ queue.state[s] = "leased"
    BY <1>5, <2>1
  <2> HIDE DEF s
  <2>3. /\ queue'.state = [queue.state EXCEPT ![s] = "done"] /\ queue'.left = queue.left - 1
        /\ queue'.ready = queue.ready /\ (queue'.closed => queue.closed \/ queue.left = 1)
    BY <1>1, <2>1, <2>2, FinishIs
  <2>4. In("ready")' = In("ready") /\ In("leased")' = In("leased") \ {s}
    <3>1. In("ready")' = In("ready") \ {s} /\ In("leased")' = In("leased") \ {s}
      BY <2>2, <2>3, StateIs DEF States
    <3> QED
      BY <2>2, <3>1 DEF In
  <2>5. \A r \in In("leased")' : \E v \in Workers : HoldsLease(v)' /\ wk'[v].seg = r
    <3> TAKE r \in In("leased")'
    <3>1. PICK v \in Workers : HoldsLease(v) /\ wk[v].seg = r
      BY <1>4, <2>4
    <3>2. v # w
      BY <2>4, <3>1 DEF s
    <3> QED
      BY <1>2, <3>1, <3>2
  <2>6. queue'.closed => queue'.left = 0
    <3>1. s \in Segs \ In("done") /\ IsFiniteSet(Segs \ In("done"))
      BY <2>2, SegsFinite, FS_Difference DEF In
    <3>2. queue.left # 0
      BY <1>5, <3>1, FS_EmptySet
    <3> QED
      BY <1>4, <2>3, <3>2
  <2> QED
    BY <1>4, <2>3, <2>4, <2>5, <2>6 DEF ListOK
<1> QED
  BY <1>6, <1>7, <1>8, <1>9 DEF Effect

\* The progress after each kind of step.
LEMMA CreditStep ==
  ASSUME BookBase, CreditOK, NEW w \in Workers, Effect(w)
  PROVE  CreditOK'
<1>1. /\ mode = "run" /\ mode' = "run" /\ Others(w) /\ wk \in Teams /\ wk' \in Teams
      /\ win \in WinType /\ Sound(win) /\ win' \in WinType /\ Sound(win')
  BY DEF Effect, BookBase, Typed, WinOK
<1>2. \A v \in Workers \ {w} : wk'[v].cred = wk[v].cred
  BY <1>1, OthersKeep
<1>3. prog = Cardinality(Held(win)) + Cardinality(Credited)
  BY <1>1 DEF CreditOK
<1>4. /\ IsFiniteSet(Credited) /\ Cardinality(Credited) \in Nat
      /\ IsFiniteSet(Held(win)) /\ Cardinality(Held(win)) \in Nat
  <2>1. IsFiniteSet(Credited)
    <3>1. Credited \in SUBSET Workers
      BY DEF Credited
    <3> QED
      BY <3>1, SegsFinite, FS_Subset
  <2> QED
    BY <1>1, <2>1, HeldCount, FS_CardinalityType
<1>5. wk[w].cred \in 0..1 /\ wk'[w].cred \in 0..1
  BY <1>1, AttemptIs DEF Teams
<1>6. Credited' = IF wk'[w].cred = 1 THEN Credited \cup {w} ELSE Credited \ {w}
  BY <1>2 DEF Credited
<1>7. w \in Credited <=> wk[w].cred = 1
  BY DEF Credited
<1>8. Cardinality(Credited') = Cardinality(Credited) + wk'[w].cred - wk[w].cred
  <2>1. CASE wk'[w].cred = 1 /\ wk[w].cred = 1
    <3>1. Credited' = Credited
      BY <1>6, <1>7, <2>1
    <3> QED
      BY <1>4, <2>1, <3>1
  <2>2. CASE wk'[w].cred = 1 /\ wk[w].cred = 0
    <3>1. Credited' = Credited \cup {w} /\ w \notin Credited
      BY <1>6, <1>7, <2>2
    <3>2. Cardinality(Credited') = Cardinality(Credited) + 1
      BY <1>4, <3>1, FS_AddElement
    <3> QED
      BY <1>4, <2>2, <3>2
  <2>3. CASE wk'[w].cred = 0 /\ wk[w].cred = 1
    <3>1. Credited' = Credited \ {w} /\ w \in Credited
      BY <1>6, <1>7, <2>3
    <3>2. Cardinality(Credited') = Cardinality(Credited) - 1
      BY <1>4, <3>1, FS_RemoveElement
    <3> QED
      BY <1>4, <2>3, <3>2
  <2>4. CASE wk'[w].cred = 0 /\ wk[w].cred = 0
    <3>1. Credited' = Credited
      BY <1>6, <1>7, <2>4
    <3> QED
      BY <1>4, <2>4, <3>1
  <2> QED
    BY <1>5, <2>1, <2>2, <2>3, <2>4
<1>9. CASE Booked(w)
  <2>1. Held(win') = Held(win) /\ prog' = prog + wk'[w].cred - wk[w].cred
    BY <1>9 DEF Booked
  <2>2. prog' = Cardinality(Held(win')) + Cardinality(Credited')
    BY <1>3, <1>4, <1>5, <1>8, <2>1
  <2> QED
    BY <2>2 DEF CreditOK
<1>10. CASE Accepts(w)
  <2>1. /\ Held(win') = Held(win) \cup {wk[w].seg} /\ wk[w].cred = 1 /\ wk'[w].cred = 0
        /\ prog' = prog /\ HoldsLease(w)
    BY <1>10 DEF Accepts
  <2>2. wk[w].seg \notin Held(win)
    <3>1. wk[w].pc # "off"
      BY <2>1, PcsAre DEF HoldsLease
    <3> QED
      BY <2>1, <3>1, WorksInRun
  <2>3. Cardinality(Held(win')) = Cardinality(Held(win)) + 1
    <3>1. IsFiniteSet(Held(win)) BY <1>4
    <3>2. Cardinality(Held(win) \cup {wk[w].seg}) = Cardinality(Held(win)) + 1
      BY <2>2, <3>1, FS_AddElement
    <3> QED
      BY <2>1, <3>2
  <2>4. prog' = Cardinality(Held(win')) + Cardinality(Credited')
    BY <1>3, <1>4, <1>8, <2>1, <2>3
  <2> QED
    BY <2>4 DEF CreditOK
<1> QED
  BY <1>9, <1>10 DEF Effect, Keeps, Takes, Returns

-----------------------------------------------------------------------------
(* The start of a run, its end, and the induction. *)

\* What a checkpoint verifies is a number.
LEMMA VerifiedIs == ASSUME NEW c \in Checkpoints PROVE Verified(c) \in Nat
<1>1. c.merged \in 0..NSeg /\ c.ledger \in Ledgers
  BY DEF Checkpoints, CkptType
<1>2. IsFiniteSet(DOMAIN c.ledger)
  BY <1>1, LedgerIs, SegsFinite, FS_Subset
<1>3. Cardinality(DOMAIN c.ledger) \in Nat
  BY <1>2, FS_CardinalityType
<1> QED
  BY <1>1, <1>3, SegsFinite DEF Verified

\* A run that starts with a sound window begins its books with it.
LEMMA StartBooks ==
  ASSUME win' \in WinType, Sound(win'), win'.pending = {}, StartEngine(win', win'.bits),
         mode' = "run", stored' \in Checkpoints, owe' \in Checkpoints \cup {NoCkpt}
  PROVE  BookInv'
<1> DEFINE bits == win'.bits
<1>1. bits \in SUBSET Segs
  BY DEF WinType
<1>2. /\ queue' \in QueueType /\ Lists(queue'.ready, Segs \ bits) /\ ~queue'.closed
      /\ \A s \in Segs : queue'.state[s] = IF s \in bits THEN "done" ELSE "ready"
      /\ queue'.left = Cardinality(Segs \ bits)
      /\ task' \in [Segs -> TaskType] /\ url' \in UrlType /\ wk' \in Teams
      /\ \A v \in Workers : wk'[v].pc \in {"off", "pop"} /\ wk'[v].cred = 0
      /\ eng' \in EngType /\ eng'.rec = NoCkpt
      /\ prog' = win'.merged + Cardinality(DOMAIN win'.entries)
      /\ durable' = Ckpt(win'.merged, win'.entries, win'.tail)
  <2>1. PICK w \in WinType : w = win'
    OBVIOUS
  <2> HIDE DEF bits
  <2>2. StartEngine(w, bits)
    BY <2>1 DEF bits
  <2>3. /\ queue' \in QueueType /\ Lists(queue'.ready, Segs \ bits) /\ ~queue'.closed
        /\ \A s \in Segs : queue'.state[s] = IF s \in bits THEN "done" ELSE "ready"
        /\ queue'.left = Cardinality(Segs \ bits)
        /\ task' \in [Segs -> TaskType] /\ url' \in UrlType /\ wk' \in Teams
        /\ \A v \in Workers : wk'[v].pc \in {"off", "pop"} /\ wk'[v].cred = 0
        /\ eng' \in EngType /\ eng'.rec = NoCkpt
        /\ prog' = w.merged + Cardinality(DOMAIN w.entries)
        /\ durable' = Ckpt(w.merged, w.entries, w.tail)
    BY <1>1, <2>2, EngineIs
  <2> QED
    BY <2>1, <2>3
<1>3. Held(win') = bits
  BY DEF Held
<1>4. /\ In("done")' = bits /\ In("ready")' = Segs \ bits /\ In("leased")' = {}
  <2>1. In("done")' = {s \in Segs : s \in bits}
    BY <1>2 DEF In
  <2>2. In("ready")' = {s \in Segs : s \notin bits}
    BY <1>2 DEF In
  <2>3. In("leased")' = {}
    BY <1>2 DEF In
  <2> QED
    BY <1>1, <2>1, <2>2, <2>3
<1>5. \A v \in Workers : ~HoldsLease(v)'
  BY <1>2, PcsAre DEF HoldsLease
<1>6. Cardinality(bits) = win'.merged + Cardinality(DOMAIN win'.entries) /\ Cardinality(bits) \in Nat
  <2>1. IsFiniteSet(bits)
    BY <1>1, SegsFinite, FS_Subset
  <2> QED
    BY <2>1, HeldCount, FS_CardinalityType
<1>7. Typed' /\ WinOK'
  <2>1. prog' \in Int
    BY <1>2, <1>6
  <2> QED
    BY <1>2, <2>1 DEF Typed, WinOK
<1>8. CkptsOK'
  BY <1>2, MadeCheckpoints DEF CkptsOK
<1>9. PhaseOK'
  BY DEF PhaseOK
<1>10. QueueOK'
  BY <1>2, <1>3, <1>4, <1>5 DEF QueueOK
<1>11. ListOK'
  BY <1>2, <1>4 DEF ListOK
<1>12. CreditOK'
  <2>1. Credited' = {}
    BY <1>2 DEF Credited
  <2>2. Cardinality(Credited') = 0
    BY <2>1, FS_EmptySet
  <2>3. prog' = Cardinality(Held(win')) + Cardinality(Credited')
    BY <1>2, <1>3, <1>6, <2>2
  <2> QED
    BY <2>3 DEF CreditOK
<1> QED
  BY <1>7, <1>8, <1>9, <1>10, <1>11, <1>12 DEF BookInv

\* What mounting does to the window.
LEMMA MountWindow ==
  ASSUME CkptsOK, MountPrefix \/ MountSpill
  PROVE  /\ win' \in WinType /\ Sound(win') /\ win'.pending = {} /\ win'.bits \in SUBSET Segs
         /\ StartEngine(win', win'.bits) /\ mode' = "run" /\ UNCHANGED <<stored, owe>>
         /\ MountSpill => win'.open /\ UNCHANGED there
         /\ MountPrefix => ~there' /\ ~win'.fault
<1>1. durable \in Checkpoints /\ durable \in CkptType /\ Ahead(durable)
  BY DEF CkptsOK, Checkpoints
<1>2. CASE MountPrefix
  <2> DEFINE c == Demote(durable)
  <2>1. /\ c \in CkptType /\ Ahead(c) /\ c.merged = durable.merged /\ c.ledger = Empty
        /\ DOMAIN c.ledger = {}
    BY <1>1, DemotedIs, EmptyLedger
  <2> HIDE DEF c
  <2>2. /\ win' = Opened(c) /\ StartEngine(Opened(c), 1..durable.merged) /\ mode' = "run"
        /\ UNCHANGED <<stored, owe>> /\ ~there'
    BY <1>2 DEF MountPrefix, c
  <2>3. /\ win' \in WinType /\ Sound(win') /\ win'.pending = {} /\ ~win'.fault
        /\ win'.bits = 1..c.merged \cup DOMAIN c.ledger
    BY <2>1, <2>2, OpenedIs
  <2>4. win'.bits = 1..durable.merged /\ win'.bits \in SUBSET Segs
    BY <2>1, <2>3 DEF WinType
  <2>5. ~MountSpill \/ win'.open
    <3>1. MountPrefix => ~(durable.size > 0 /\ there /\ Len(arena) >= durable.size)
      <4>1. durable.size \in Nat
        BY <1>1 DEF CkptType
      <4>2. ASSUME there, Len(arena) >= durable.size, durable.size > 0
            PROVE  ~MountPrefix
        <5>1. ~there' /\ UNCHANGED there => FALSE
          BY <4>2
        <5> QED
          BY <1>2, <2>2, <4>2, <5>1, <4>1 DEF MountPrefix
      <4> QED
        BY <4>2
    <3> QED
      BY <1>2, <3>1 DEF MountSpill
  <2> QED
    BY <1>2, <2>2, <2>3, <2>4, <2>5 DEF MountSpill
<1>3. CASE MountSpill /\ ~MountPrefix
  <2> DEFINE w == Opened(durable)
  <2>1. /\ w \in WinType /\ Sound(w) /\ w.pending = {} /\ (w.open <=> durable.size > 0)
    BY <1>1, OpenedIs
  <2>2. /\ \/ Drain(w, Contiguous(w)) \/ win' = w
        /\ StartEngine(win', win'.bits) /\ mode' = "run" /\ UNCHANGED <<stored, owe, there>>
        /\ durable.size > 0
    BY <1>3 DEF MountSpill
  <2> HIDE DEF w
  <2>3. win' \in WinType /\ Sound(win') /\ win'.open
    BY <2>1, <2>2, DrainSound
  <2>4. win'.pending = {}
    <3>1. CASE win' = w
      BY <2>1, <3>1
    <3>2. CASE Drain(w, Contiguous(w))
      <4>1. Contiguous(w) \in Nat /\ w.merged + Contiguous(w) <= NSeg
        BY <2>1, ContiguousRun
      <4>2. Merges(w, Contiguous(w))
        BY <2>1, <3>2, <4>1, DrainIs
      <4> QED
        BY <2>1, <4>2 DEF Merges
    <3> QED
      BY <2>2, <3>1, <3>2
  <2>5. win'.bits \in SUBSET Segs
    BY <2>3 DEF WinType
  <2> QED
    BY <1>3, <2>2, <2>3, <2>4, <2>5
<1> QED
  BY <1>2, <1>3

\* The list of a finite set of segments, and a part of it.
LEMMA PartLists ==
  ASSUME NEW ss \in SUBSET Segs, NEW k \in 0..Cardinality(ss)
  PROVE  /\ Inorder(ss) \in Seq(Segs) /\ Range(Inorder(ss)) = ss
         /\ SubSeq(Inorder(ss), 1, k) \in Seq(Segs)
         /\ Range(SubSeq(Inorder(ss), 1, k)) \in SUBSET ss
<1>1. IsFiniteSet(ss) /\ ss \in SUBSET Nat /\ Cardinality(ss) \in Nat
  BY SegsFinite, FS_Subset, FS_CardinalityType
<1> DEFINE r == Inorder(ss)
           q == SubSeq(r, 1, k)
<1>2. /\ r \in Seq(ss) /\ Len(r) = Cardinality(ss)
      /\ \A s \in ss : \E i \in 1..Len(r) : r[i] = s
  BY <1>1, InorderLists
<1> HIDE DEF r
<1>3. r \in Seq(Segs)
  BY <1>2
<1>4. DOMAIN r = 1..Len(r) /\ \A i \in 1..Len(r) : r[i] \in ss
  BY <1>2
<1>5. Range(r) = ss
  BY <1>2, <1>4 DEF Range
<1>6. q \in Seq(ss)
  BY <1>1, <1>2
<1> HIDE DEF q
<1>7. q \in Seq(Segs) /\ DOMAIN q = 1..Len(q) /\ \A i \in 1..Len(q) : q[i] \in ss
  BY <1>6
<1>8. Range(q) \in SUBSET ss
  BY <1>7 DEF Range
<1> QED
  BY <1>3, <1>5, <1>7, <1>8 DEF r, q

\* What the capture of a checkpoint does to the window and the books.
LEMMA CaptureIs ==
  ASSUME BookInv, Capture
  PROVE  /\ mode = "run" /\ mode' = "save" /\ win' \in WinType /\ Sound(win')
         /\ \E c \in Checkpoints : Keep(c)
         /\ UNCHANGED <<stored, durable, owe, queue, task, wk, url>>
         /\ \A w \in Workers : wk[w].pc = "off"
         /\ ~url.flight /\ Stopped
         /\ UNCHANGED there \/ win'.open
         /\ win'.open = win.open \/ win'.open
<1>1. /\ mode = "run" /\ mode' = "save" /\ ~url.flight /\ Live = {} /\ Stopped
      /\ UNCHANGED <<stored, durable, owe, queue, task, wk, url>>
  BY DEF Capture, Joined
<1>2. \A w \in Workers : wk[w].pc = "off"
  BY <1>1 DEF Live
<1>3. win \in WinType /\ Sound(win) /\ win.pending \in SUBSET Segs /\ durable \in CkptType
  BY <1>1 DEF BookInv, Typed, WinOK, WinType, CkptsOK, Checkpoints
<1>4. win.pending \cap win.bits = {}
  BY <1>3 DEF Sound
<1>5. CASE CaptureAll
  <2>1. CASE win.pending = {}
    <3>1. UNCHANGED <<win, there>> /\ Keep(Ckpt(win'.merged, win'.entries, win'.tail))
      BY <1>5, <2>1 DEF CaptureAll
    <3>2. win' \in WinType /\ Sound(win')
      BY <1>3, <3>1
    <3> QED
      BY <1>1, <1>2, <3>1, <3>2, MadeCheckpoints
  <2>2. CASE win.pending # {}
    <3>1. Spill(Inorder(win.pending)) /\ Keep(Ckpt(win'.merged, win'.entries, win'.tail))
      BY <1>5, <2>2 DEF CaptureAll
    <3>2. Inorder(win.pending) \in Seq(Segs) /\ Range(Inorder(win.pending)) = win.pending
      <4>1. 0 \in 0..Cardinality(win.pending)
        BY <1>3, SegsFinite, FS_Subset, FS_CardinalityType
      <4> QED
        BY <1>3, <4>1, PartLists
    <3>3. win' \in WinType /\ Sound(win') /\ win'.open
      BY <1>3, <1>4, <3>1, <3>2, SpillSound, SpillIs
    <3> QED
      BY <1>1, <1>2, <3>1, <3>3, MadeCheckpoints
  <2> QED
    BY <2>1, <2>2
<1>6. CASE CapturePrefix
  <2>1. Keep(MergedPrefix) /\ MergedPrefix \in Checkpoints
    BY <1>3, <1>6, MadeCheckpoints DEF CapturePrefix
  <2>2. CASE UNCHANGED <<win, arena, there, budget>>
    BY <1>1, <1>2, <1>3, <2>1, <2>2
  <2>3. CASE \E k \in 0..Cardinality(win.pending) : Spill(SubSeq(Inorder(win.pending), 1, k))
    <3>1. PICK k \in 0..Cardinality(win.pending) : Spill(SubSeq(Inorder(win.pending), 1, k))
      BY <2>3
    <3> DEFINE ss == SubSeq(Inorder(win.pending), 1, k)
    <3>2. ss \in Seq(Segs) /\ Range(ss) \in SUBSET win.pending
      BY <1>3, PartLists
    <3> HIDE DEF ss
    <3>3. win' \in WinType /\ Sound(win') /\ win'.open
      <4>1. Spill(ss)
        BY <3>1 DEF ss
      <4>2. Range(ss) \cap win.bits = {}
        BY <1>4, <3>2
      <4> QED
        BY <1>3, <3>2, <4>1, <4>2, SpillSound, SpillIs
    <3> QED
      BY <1>1, <1>2, <2>1, <3>3
  <2> QED
    BY <1>6, <2>2, <2>3 DEF CapturePrefix
<1>7. CASE CaptureOld
  <2>1. Keep(Demote(durable)) /\ Demote(durable) \in Checkpoints /\ UNCHANGED <<win, there>>
    BY <1>3, <1>7, MadeCheckpoints DEF CaptureOld
  <2> QED
    BY <1>1, <1>2, <1>3, <2>1
<1> QED
  BY <1>5, <1>6, <1>7 DEF Capture

\* The books are kept by each part of the next-state relation.
LEMMA WorkBooks ==
  ASSUME BookInv, NEW w \in Workers, Effect(w), stored' \in Checkpoints,
         durable' \in Checkpoints, owe' = owe
  PROVE  BookInv'
<1>1. BookBase /\ ListOK /\ CreditOK
  BY DEF BookInv, BookBase
<1>2. mode' = "run" /\ Typed' /\ Sound(win')
  BY DEF Effect
<1>3. WinOK' /\ PhaseOK' /\ CkptsOK'
  BY <1>2 DEF WinOK, PhaseOK, CkptsOK, BookInv
<1> QED
  BY <1>1, <1>2, <1>3, QueueStep, ListStep, CreditStep DEF BookInv

\* The end of a run, and a crash.
LEMMA EndBooks ==
  ASSUME BookInv, Complete \/ StopUnproven \/ Save \/ SaveFails \/ Crash
  PROVE  BookInv'
<1>1. /\ stored \in Checkpoints /\ durable \in Checkpoints /\ owe \in Checkpoints \cup {NoCkpt}
      /\ (mode = "save" => eng.rec \in Checkpoints) /\ win \in WinType /\ durable \in CkptType
      /\ prog \in Int
  BY DEF BookInv, CkptsOK, Typed, EngType, Checkpoints
<1>2. Quiet /\ mode' \in {"idle", "done", "broken"}
  BY DEF Complete, StopUnproven, Save, SaveFails, Crash
<1>3. QuietNow'
  BY <1>2, QuietIs
<1>4. \A w \in Workers : wk'[w].pc = "off"
  BY <1>3, IdleIs DEF QuietNow
<1>5. /\ stored' \in Checkpoints /\ durable' \in Checkpoints
      /\ owe' \in Checkpoints \cup {NoCkpt} /\ prog' \in Int
  <2>1. CASE Complete
    <3>1. /\ UNCHANGED <<stored, owe>>
          /\ durable' = durable \/ durable' = MergedPrefix
          /\ prog' = prog \/ prog' = NSeg
      BY <2>1 DEF Complete
    <3> QED
      BY <1>1, <3>1, MadeCheckpoints, SegsFinite
  <2>2. CASE StopUnproven
    BY <1>1, <2>2, MadeCheckpoints DEF StopUnproven, disk
  <2>3. CASE Save
    BY <1>1, <2>3 DEF Save
  <2>4. CASE SaveFails
    <3>0. stored' = stored /\ mode = "save" /\ prog' = Verified(durable')
      BY <2>4 DEF SaveFails, disk
    <3>1. CASE eng.paused
      <4>1. durable' = eng.rec /\ owe' = eng.rec
        BY <2>4, <3>1 DEF SaveFails
      <4> QED
        BY <1>1, <3>0, <4>1, VerifiedIs
    <3>2. CASE ~eng.paused
      <4>1. durable' = Demote(durable) /\ owe' = owe
        BY <2>4, <3>2 DEF SaveFails
      <4>2. durable' \in Checkpoints
        BY <1>1, <4>1, MadeCheckpoints
      <4> QED
        BY <1>1, <3>0, <4>1, <4>2, VerifiedIs
    <3> QED
      BY <3>1, <3>2
  <2>5. CASE Crash
    BY <1>1, <2>5, VerifiedIs DEF Crash, disk
  <2> QED
    BY <2>1, <2>2, <2>3, <2>4, <2>5
<1>6. Typed' /\ WinOK' /\ PhaseOK' /\ CkptsOK'
  BY <1>2, <1>3, <1>4, <1>5 DEF Typed, QuietNow, WinOK, PhaseOK, CkptsOK
<1>7. QueueOK' /\ ListOK' /\ CreditOK'
  BY <1>2 DEF QueueOK, ListOK, CreditOK
<1> QED
  BY <1>6, <1>7 DEF BookInv

\* A run is started, and its files are looked at.
LEMMA StartKeepsBooks ==
  ASSUME BookInv, Start \/ MountFile
  PROVE  BookInv'
<1>1. /\ mode \in {"idle", "file"} /\ mode' \in {"file", "arena"}
      /\ UNCHANGED <<win, queue, task, wk, eng, prog, url, stored, owe>>
      /\ durable' \in {durable, stored, ZeroSeed}
  BY DEF Start, MountFile, run, disk
<1>2. Typed' /\ WinOK' /\ PhaseOK'
  BY <1>1 DEF BookInv, Typed, WinOK, PhaseOK
<1>3. CkptsOK'
  BY <1>1, MadeCheckpoints DEF BookInv, CkptsOK
<1>4. QueueOK' /\ ListOK' /\ CreditOK'
  BY <1>1 DEF QueueOK, ListOK, CreditOK
<1> QED
  BY <1>2, <1>3, <1>4 DEF BookInv

\* Steps beside the run: the event's persistence and the cooldown.
LEMMA BesideBooks ==
  ASSUME BookInv, PersistEvent \/ CoolDown \/ UNCHANGED vars
  PROVE  BookInv'
<1>1. /\ UNCHANGED <<win, queue, task, wk, eng, prog, mode, durable>>
      /\ url' = url \/ url' = [url EXCEPT !.cool = FALSE]
      /\ \/ UNCHANGED <<stored, owe>>
         \/ owe # NoCkpt /\ stored' = owe /\ owe' = NoCkpt
  BY DEF PersistEvent, CoolDown, RunFrame, DiskFrame, run, vars, disk
<1>2. url' \in UrlType /\ url'.flight = url.flight
  <2>1. url \in UrlType
    BY DEF BookInv, Typed
  <2>2. PICK f \in BOOLEAN : f = FALSE
    OBVIOUS
  <2>3. url' = url \/ url' = [url EXCEPT !.cool = f]
    BY <1>1, <2>2
  <2> QED
    BY <2>1, <2>3 DEF UrlType
<1>3. Typed' /\ WinOK' /\ PhaseOK' /\ CkptsOK'
  BY <1>1, <1>2 DEF BookInv, Typed, WinOK, PhaseOK, CkptsOK
<1>4. QueueOK'
  BY <1>1 DEF BookInv, QueueOK, In, Held, HoldsLease
<1>5. ListOK'
  BY <1>1 DEF BookInv, ListOK, In, HoldsLease, Stopped
<1>6. CreditOK'
  BY <1>1 DEF BookInv, CreditOK, Credited, Held
<1> QED
  BY <1>3, <1>4, <1>5, <1>6 DEF BookInv

\* Every step keeps the books.
LEMMA BookNext == BookInv /\ [Next]_vars => BookInv'
<1> SUFFICES ASSUME BookInv, [Next]_vars
             PROVE  BookInv'
  OBVIOUS
<1>0. BookBase /\ stored \in Checkpoints /\ durable \in Checkpoints /\ win \in WinType
  BY DEF BookInv, BookBase, CkptsOK, Typed
<1>1. CASE UNCHANGED vars
  BY <1>1, BesideBooks
<1>2. CASE MountPrefix \/ MountSpill
  BY <1>2, MountWindow, StartBooks DEF BookInv, CkptsOK
<1>3. CASE Start \/ MountFile
  BY <1>3, StartKeepsBooks
<1>4. CASE Complete \/ StopUnproven \/ Save \/ SaveFails \/ Crash
  BY <1>4, EndBooks
<1>5. CASE Capture
  <2>1. /\ mode' = "save" /\ win' \in WinType /\ Sound(win')
        /\ UNCHANGED <<stored, durable, owe, queue, task, wk, url>>
        /\ \A w \in Workers : wk[w].pc = "off"
        /\ ~url.flight
    BY <1>5, CaptureIs
  <2>2. PICK c \in Checkpoints : Keep(c)
    BY <1>5, CaptureIs
  <2>3. eng' \in EngType /\ eng'.rec = c /\ prog' \in Int
    BY <2>2, EngineSteps, VerifiedIs DEF Keep, BookInv, Typed
  <2>4. c # NoCkpt
    BY MadeCheckpoints
  <2>5. Typed' /\ WinOK' /\ PhaseOK' /\ CkptsOK'
    BY <2>1, <2>3, <2>4 DEF BookInv, Typed, WinOK, PhaseOK, CkptsOK
  <2>6. QueueOK' /\ ListOK' /\ CreditOK'
    BY <2>1 DEF QueueOK, ListOK, CreditOK
  <2> QED
    BY <2>5, <2>6 DEF BookInv
<1>6. CASE Spawn \/ Pause \/ Expire \/ Refresh
  <2>1. UNCHANGED <<stored, durable, owe>>
    BY <1>6 DEF Spawn, Pause, Expire, Refresh, RunFrame, DiskFrame
  <2>2. PICK w \in Workers : Effect(w)
    BY <1>0, <1>6, ControlEffect
  <2> QED
    BY <1>0, <2>1, <2>2, WorkBooks
<1>7. CASE PersistEvent \/ CoolDown
  BY <1>7, BesideBooks
<1>8. ASSUME NEW w \in Workers, Worker(w) \/ Control(w)
      PROVE  BookInv'
  <2>1. Effect(w)
    BY <1>0, <1>8, WorkerEffect
  <2>2. owe' = owe /\ (UNCHANGED <<stored, durable>> \/ FirstCheckpoint(w))
    <3>1. CASE Control(w)
      BY <3>1 DEF Control, Kill, Stall, DrainWorker, RunFrame, DiskFrame
    <3>2. CASE Commit(w)
      BY <1>0, <3>2, CommitWindow
    <3>3. CASE Pop(w) \/ GiveBack(w) \/ Backoff(w) \/ Try(w) \/ RefreshWaited(w)
      BY <3>3 DEF Pop, GiveBack, Backoff, Try, RefreshWaited, RunFrame, DiskFrame
    <3>4. CASE Fetched(w) \/ NotFetched(w) \/ Gate(w) \/ FirstFails(w) \/ Settle(w)
      BY <3>4 DEF Fetched, NotFetched, Gate, FirstFails, Settle, RunFrame, DiskFrame
    <3>5. CASE FirstCheckpoint(w)
      BY <3>5 DEF FirstCheckpoint
    <3> QED
      BY <1>8, <3>1, <3>2, <3>3, <3>4, <3>5 DEF Worker
  <2>3. FirstCheckpoint(w) => stored' = MergedPrefix /\ durable' = MergedPrefix
    BY DEF FirstCheckpoint
  <2>4. stored' \in Checkpoints /\ durable' \in Checkpoints
    BY <1>0, <2>2, <2>3, MadeCheckpoints
  <2> QED
    BY <2>1, <2>2, <2>4, WorkBooks
<1> QED
  BY <1>1, <1>2, <1>3, <1>4, <1>5, <1>6, <1>7, <1>8 DEF Next, Mount, End

\* The process starts without a run.
LEMMA BookInit == Init => BookInv
<1> SUFFICES ASSUME Init
             PROVE  BookInv
  OBVIOUS
<1>1. QuietNow /\ mode = "idle" /\ prog = 0
  BY QuietIs DEF Init
<1>2. stored = ZeroSeed /\ durable = ZeroSeed /\ owe = NoCkpt
  BY DEF Init
<1>3. \A w \in Workers : wk[w].pc = "off"
  BY <1>1, IdleIs DEF QuietNow
<1>4. Typed /\ WinOK /\ PhaseOK /\ CkptsOK
  BY <1>1, <1>2, <1>3, MadeCheckpoints DEF Typed, QuietNow, WinOK, PhaseOK, CkptsOK
<1>5. QueueOK /\ ListOK /\ CreditOK
  BY <1>1 DEF QueueOK, ListOK, CreditOK
<1> QED
  BY <1>4, <1>5 DEF BookInv

\* The books are right in every reachable state.
LEMMA Books == Spec => []BookInv
BY BookInit, BookNext, PTL DEF Spec

-----------------------------------------------------------------------------
(* What follows from the books. *)

\* A list has as many entries as the set has members.
LEMMA ListCounts ==
  ASSUME NEW X \in SUBSET Segs, NEW r \in Seq(Segs), Lists(r, X)
  PROVE  Range(r) = X /\ Len(r) = Cardinality(X)
<1>1. Len(r) \in Nat /\ DOMAIN r = 1..Len(r)
  OBVIOUS
<1>2. \A i \in 1..Len(r) : r[i] \in X
  BY DEF Lists
<1>3. Range(r) = X
  BY <1>1, <1>2 DEF Range, Lists
<1> DEFINE f == [i \in 1..Len(r) |-> r[i]]
<1>4. f \in Bijection(1..Len(r), X)
  <2>1. f \in [1..Len(r) -> X] /\ \A i, j \in 1..Len(r) : f[i] = f[j] => i = j
    BY <1>2 DEF Lists
  <2>2. \A s \in X : \E i \in 1..Len(r) : f[i] = s
    BY DEF Lists
  <2> QED
    BY <2>1, <2>2 DEF Bijection, Injection, IsInjective, Surjection
<1> HIDE DEF f
<1>5. ExistsBijection(1..Len(r), X)
  BY <1>4 DEF ExistsBijection
<1>6. Cardinality(X) = Len(r)
  BY <1>1, <1>5, FS_CountingElements
<1> QED
  BY <1>3, <1>6

\* While the engine runs, each segment is queued once, leased to one worker, or
\* settled and in the window (segment_queue.go, segmentEngine.runTask).
THEOREM EverySegmentAccounted == Spec => []SegmentsAccounted
<1>1. BookInv => SegmentsAccounted
  <2> SUFFICES ASSUME BookInv, mode = "run", ~Stopped
               PROVE  LET is(x) == {s \in Segs : queue.state[s] = x} IN
                      /\ Range(queue.ready) = is("ready")
                      /\ Len(queue.ready) = Cardinality(is("ready"))
                      /\ \A s \in is("leased") :
                           Cardinality({w \in Live : Lease(w) = s /\ wk[w].pc # "first"}) = 1
                      /\ is("done") = win.bits \cup win.pending
                      /\ queue.left = Cardinality(Segs \ is("done"))
                      /\ queue.left = 0 <=> (queue.closed \/ is("done") = Segs)
    BY DEF SegmentsAccounted
  <2>1. /\ In("done") = Held(win) /\ queue.left = Cardinality(Segs \ In("done"))
        /\ \A w \in Workers : HoldsLease(w) => queue.state[wk[w].seg] = "leased"
        /\ \A w, v \in Workers : HoldsLease(w) /\ HoldsLease(v) /\ wk[w].seg = wk[v].seg => w = v
    BY DEF BookInv, QueueOK
  <2>2. /\ Lists(queue.ready, In("ready"))
        /\ \A s \in In("leased") : \E w \in Workers : HoldsLease(w) /\ wk[w].seg = s
        /\ queue.closed => queue.left = 0
    BY DEF BookInv, ListOK
  <2>3. queue.ready \in Seq(Segs) /\ wk \in Teams
    BY DEF BookInv, Typed, QueueType
  <2>4. Range(queue.ready) = In("ready") /\ Len(queue.ready) = Cardinality(In("ready"))
    <3>1. In("ready") \in SUBSET Segs
      BY DEF In
    <3> QED
      BY <2>2, <2>3, <3>1, ListCounts
  <2>5. ASSUME NEW s \in In("leased")
        PROVE  Cardinality({w \in Live : Lease(w) = s /\ wk[w].pc # "first"}) = 1
    <3>1. PICK w \in Workers : HoldsLease(w) /\ wk[w].seg = s
      BY <2>2, <2>5
    <3>2. \A v \in Workers : wk[v].pc # "off" /\ wk[v].pc # "first" /\ wk[v].seg = s => v = w
      <4> SUFFICES ASSUME NEW v \in Workers, wk[v].pc # "off", wk[v].pc # "first", wk[v].seg = s
                   PROVE  v = w
        OBVIOUS
      <4>1. wk[v] \in Attempt /\ wk[v].pc \in Pcs
        BY <2>3, AttemptIs DEF Teams
      <4>2. wk[v].pc # "pop"
        <5>1. s \in Segs /\ 0 \notin Segs
          BY <2>5 DEF In, Segs
        <5> QED
          BY <4>1, <5>1, AttemptIs
      <4>3. HoldsLease(v)
        BY <4>1, <4>2, PcsAre DEF HoldsLease
      <4> QED
        BY <2>1, <3>1, <4>3
    <3>3. wk[w].pc # "off" /\ wk[w].pc # "first"
      BY <3>1, PcsAre DEF HoldsLease
    <3>4. {v \in Live : Lease(v) = s /\ wk[v].pc # "first"} = {w}
      BY <3>1, <3>2, <3>3 DEF Live, Lease
    <3> QED
      BY <3>4, FS_Singleton
  <2>6. queue.left = 0 <=> (queue.closed \/ In("done") = Segs)
    <3>1. IsFiniteSet(Segs \ In("done"))
      BY SegsFinite, FS_Difference
    <3>2. queue.left = 0 <=> Segs \ In("done") = {}
      BY <2>1, <3>1, FS_EmptySet
    <3>3. Segs \ In("done") = {} <=> In("done") = Segs
      BY DEF In
    <3> QED
      BY <2>2, <3>2, <3>3
  <2> QED
    BY <2>1, <2>4, <2>5, <2>6 DEF In, Held
<1> QED
  BY <1>1, Books, PTL

\* The progress is what the window holds and the bodies not settled yet
\* (segment_worker.go's credit and its way back).
THEOREM ProgressIsExact == Spec => []CreditIsExact
<1>1. BookInv => CreditIsExact
  <2> SUFFICES ASSUME BookInv, mode = "run"
               PROVE  prog = win.merged + Cardinality(DOMAIN win.entries)
                              + Cardinality(win.pending)
                              + Cardinality({w \in Workers : wk[w].cred = 1})
    BY DEF CreditIsExact
  <2>1. win \in WinType /\ Sound(win) /\ prog = Cardinality(Held(win)) + Cardinality(Credited)
    BY DEF BookInv, Typed, WinOK, CreditOK
  <2>2. Cardinality(Held(win)) =
          win.merged + Cardinality(DOMAIN win.entries) + Cardinality(win.pending)
    BY <2>1, HeldCount
  <2> QED
    BY <2>1, <2>2 DEF Credited
<1> QED
  BY <1>1, Books, PTL

\* A run's window has opened the spill file, or there is none
\* (mount's removal before append's exclusive create).
LEMMA SpillNext == BookInv /\ SpillStaysUsable /\ [Next]_vars => SpillStaysUsable'
<1> SUFFICES ASSUME BookInv, SpillStaysUsable, [Next]_vars
             PROVE  SpillStaysUsable'
  OBVIOUS
<1>0. BookBase /\ win \in WinType
  BY DEF BookInv, BookBase, Typed
<1>1. CASE MountPrefix \/ MountSpill
  <2>1. win'.open \/ ~there'
    BY <1>1, MountWindow DEF BookInv
  <2> QED
    BY <2>1 DEF SpillStaysUsable, CanSpill
<1>2. CASE Capture
  <2>1. mode = "run" /\ (UNCHANGED <<there, win>> \/ win'.open)
    <3>1. mode = "run" /\ Live = {}
      BY <1>2 DEF Capture, Joined
    <3>2. win.pending \in SUBSET Segs
      BY <1>0 DEF WinType
    <3>3. ASSUME NEW k \in 0..Cardinality(win.pending),
                 Spill(SubSeq(Inorder(win.pending), 1, k))
          PROVE  win'.open
      <4>1. SubSeq(Inorder(win.pending), 1, k) \in Seq(Segs)
        BY <3>2, PartLists
      <4> QED
        BY <1>0, <3>3, <4>1, SpillIs
    <3>4. ASSUME Spill(Inorder(win.pending))
          PROVE  win'.open
      <4>1. 0 \in 0..Cardinality(win.pending)
        BY <3>2, SegsFinite, FS_Subset, FS_CardinalityType
      <4>2. Inorder(win.pending) \in Seq(Segs)
        BY <3>2, <4>1, PartLists
      <4> QED
        BY <1>0, <3>4, <4>2, SpillIs
    <3> QED
      BY <1>2, <3>1, <3>3, <3>4 DEF Capture, CaptureAll, CapturePrefix, CaptureOld
  <2> QED
    BY <2>1 DEF SpillStaysUsable, CanSpill
<1>3. ASSUME NEW w \in Workers, Commit(w)
      PROVE  SpillStaysUsable'
  <2>1. /\ mode = "run" /\ Sound(win) /\ wk[w].seg \in Segs /\ wk[w].seg \notin Held(win)
        /\ wk[w].pc = "commit"
    <3>1. wk[w].pc = "commit"
      BY <1>0, <1>3, CommitWindow
    <3>2. HoldsLease(w) /\ wk[w].pc # "off"
      BY <3>1, PcsAre DEF HoldsLease
    <3> QED
      BY <1>0, <3>1, <3>2, WorksInRun
  <2>2. CanSpill
    BY <2>1 DEF SpillStaysUsable
  <2> DEFINE d == [win EXCEPT !.pending = @ \cup {wk[w].seg}]
  <2>3. d \in WinType /\ Sound(d) /\ d.open = win.open
    BY <1>0, <2>1, BufferSound
  <2> HIDE DEF d
  <2>4. CASE Refused(w)
    BY <2>2, <2>4 DEF Refused, NoFileChange, CanSpill, SpillStaysUsable
  <2>5. CASE DirectFails(w)
    <3>1. win' = [win EXCEPT !.fault = TRUE] /\ there' = there
      BY <2>5 DEF DirectFails
    <3>2. win'.open = win.open
      BY <1>0, <3>1 DEF WinType
    <3> QED
      BY <2>2, <3>1, <3>2 DEF CanSpill, SpillStaysUsable
  <2>6. CASE SpillFails(w)
    <3>1. win' = [win EXCEPT !.fault = TRUE, !.open = @ \/ CanSpill]
      BY <2>6 DEF SpillFails
    <3>2. win'.open
      <4>1. PICK f \in BOOLEAN, o \in BOOLEAN : f = TRUE /\ o = (win.open \/ CanSpill)
        OBVIOUS
      <4>2. win' = [[win EXCEPT !.fault = f] EXCEPT !.open = o]
        BY <1>0, <3>1, <4>1 DEF WinType
      <4>3. win'.open = o
        BY <1>0, <4>2 DEF WinType
      <4> QED
        BY <2>2, <4>1, <4>3
    <3> QED
      BY <3>2 DEF CanSpill, SpillStaysUsable
  <2>7. CASE Direct(w) \/ DrainFails(w)
    <3>1. there' = there /\ (Drain(d, Contiguous(d)) \/ DrainFault(d, Contiguous(d)))
      BY <2>7 DEF Direct, DrainFails, Lease, d
    <3>2. win'.open = d.open
      BY <2>3, <3>1, DrainSound
    <3> QED
      BY <2>2, <2>3, <3>1, <3>2 DEF CanSpill, SpillStaysUsable
  <2>8. CASE Buffered(w)
    <3>1. win' = d /\ there' = there
      BY <2>8 DEF Buffered, NoFileChange, Lease, d
    <3> QED
      BY <2>2, <2>3, <3>1 DEF CanSpill, SpillStaysUsable
  <2>9. CASE SpillIt(w)
    <3>1. Spill(<<wk[w].seg>>) /\ <<wk[w].seg>> \in Seq(Segs)
      BY <2>1, <2>9 DEF SpillIt, Lease
    <3>2. win'.open
      BY <1>0, <3>1, SpillIs
    <3> QED
      BY <3>2 DEF CanSpill, SpillStaysUsable
  <2> QED
    BY <1>3, <2>4, <2>5, <2>6, <2>7, <2>8, <2>9 DEF Commit
<1>4. CASE mode' \notin {"run", "save"}
  BY <1>4 DEF SpillStaysUsable
<1>5. CASE UNCHANGED <<mode, win, there>>
  BY <1>5 DEF SpillStaysUsable, CanSpill
<1>6. CASE Start \/ MountFile \/ Complete \/ StopUnproven \/ Save \/ SaveFails \/ Crash
  <2>1. mode' \notin {"run", "save"}
    BY <1>6 DEF Start, MountFile, Complete, StopUnproven, Save, SaveFails, Crash
  <2> QED
    BY <1>4, <2>1
<1>7. CASE Spawn \/ Pause \/ Expire \/ Refresh \/ CoolDown \/ PersistEvent \/ UNCHANGED vars
  <2>1. UNCHANGED <<mode, win, there>>
    BY <1>7 DEF Spawn, Pause, Expire, Refresh, CoolDown, PersistEvent, vars, RunFrame,
                DiskFrame, run, disk
  <2> QED
    BY <1>5, <2>1
<1>8. ASSUME NEW w \in Workers, Worker(w) \/ Control(w)
      PROVE  SpillStaysUsable'
  <2>1. UNCHANGED <<mode, win, there>> \/ Commit(w)
    <3>1. CASE Control(w)
      BY <3>1 DEF Control, Kill, Stall, DrainWorker, RunFrame, DiskFrame
    <3>2. CASE Pop(w) \/ GiveBack(w) \/ Backoff(w) \/ Try(w) \/ RefreshWaited(w)
      BY <3>2 DEF Pop, GiveBack, Backoff, Try, RefreshWaited, RunFrame, DiskFrame
    <3>3. CASE Fetched(w) \/ NotFetched(w) \/ Gate(w) \/ FirstFails(w) \/ Settle(w)
      BY <3>3 DEF Fetched, NotFetched, Gate, FirstFails, Settle, RunFrame, DiskFrame
    <3>4. CASE FirstCheckpoint(w)
      BY <3>4 DEF FirstCheckpoint
    <3> QED
      BY <1>8, <3>1, <3>2, <3>3, <3>4 DEF Worker
  <2> QED
    BY <1>3, <1>5, <2>1
<1> QED
  BY <1>1, <1>2, <1>6, <1>7, <1>8 DEF Next, Mount, End

\* A run never finds a spill file that it can neither adopt nor create.
THEOREM SpillAlwaysUsable == Spec => []SpillStaysUsable
<1>1. Init => SpillStaysUsable
  BY DEF Init, SpillStaysUsable
<1> QED
  BY <1>1, Books, SpillNext, PTL DEF Spec

-----------------------------------------------------------------------------
(* The addresses: when the manifest is fetched again. *)

\* The addresses in use have expired.
Expired == url.gen < url.alive

\* An attempt that the server refused as expired, and one that waits for new
\* addresses.
Denied(w) == wk[w].pc = "bad" /\ wk[w].err = "refused"
Joins(w) == wk[w].pc = "ref"

\* No request is newer than the addresses, and a mark left by one of the
\* current addresses is right.
MarksOK ==
  /\ \A s \in Segs : task[s].seen <= url.gen
  /\ \A s \in Segs : task[s].mark /\ task[s].seen = url.gen => Expired

\* A refusal is one of addresses that have expired, and who waits for a refresh
\* with its mark asked for the current addresses.
AsksOK ==
  /\ \A w \in Workers : Denied(w) => task[wk[w].seg].seen < url.alive
  /\ \A w \in Workers : Joins(w) /\ task[wk[w].seg].mark => task[wk[w].seg].seen = url.gen

AddressOK == (url.flight => Expired) /\ MarksOK /\ AsksOK

\* A worker that is not told anything about addresses.
Deaf(w) ==
  /\ Joins(w)' => Joins(w) /\ wk'[w].seg = wk[w].seg
  /\ Denied(w)' => Denied(w) /\ wk'[w].seg = wk[w].seg

\* Nothing changes for addresses that nobody is told about.
LEMMA DeafSteps ==
  ASSUME AddressOK, UNCHANGED <<task, url>>, \A w \in Workers : Deaf(w)
  PROVE  AddressOK'
<1>1. (url.flight => Expired)' /\ MarksOK'
  BY DEF AddressOK, MarksOK, Expired
<1>2. ASSUME NEW w \in Workers, Denied(w)'
      PROVE  (task[wk[w].seg].seen < url.alive)'
  BY <1>2 DEF AddressOK, AsksOK, Deaf
<1>3. ASSUME NEW w \in Workers, Joins(w)', task[wk[w].seg].mark'
      PROVE  (task[wk[w].seg].seen = url.gen)'
  BY <1>3 DEF AddressOK, AsksOK, Deaf
<1> QED
  BY <1>1, <1>2, <1>3 DEF AddressOK, AsksOK

\* Workers that stay, leave, or begin.
LEMMA OthersDeaf ==
  ASSUME NEW w \in Workers, Others(w)
  PROVE  \A v \in Workers \ {w} : Deaf(v)
<1> TAKE v \in Workers \ {w}
<1>1. CASE wk'[v] = wk[v]
  BY <1>1 DEF Deaf, Joins, Denied
<1>2. CASE wk'[v] = Parked
  BY <1>2, IdleIs DEF Deaf, Joins, Denied
<1> QED
  BY <1>1, <1>2 DEF Others

\* A worker elsewhere than in a refusal and its refresh.
LEMMA DeafElsewhere ==
  ASSUME NEW w \in Workers, wk'[w].pc \notin {"ref", "bad"}
  PROVE  Deaf(w)
BY DEF Deaf, Joins, Denied

\* Most steps of a worker, which leave tasks and addresses alone.
LEMMA DeafWork ==
  ASSUME BookBase, NEW w \in Workers,
         Pop(w) \/ GiveBack(w) \/ Backoff(w) \/ Fetched(w) \/ Gate(w) \/ Commit(w)
           \/ FirstCheckpoint(w) \/ FirstFails(w) \/ Control(w)
  PROVE  /\ UNCHANGED <<task, url>>
         /\ \A v \in Workers : Deaf(v)
<1>0. Effect(w)
  BY WorkerEffect DEF Worker
<1>1. Others(w) /\ wk \in Teams /\ wk' \in Teams
  BY <1>0 DEF Effect, BookBase, Typed
<1>2. wk[w] \in Attempt /\ wk'[w] \in Attempt
  BY <1>1 DEF Teams
<1>3. ASSUME NEW e \in Errs \ {"refused"}, Bad(w, e)
      PROVE  Deaf(w)
  <2>1. wk'[w].pc = "bad" /\ wk'[w].err = e
    <3>1. [wk[w] EXCEPT !.pc = "bad"].pc = "bad"
      BY <1>2, AttemptIs
    <3>2. wk' = [wk EXCEPT ![w] = [[wk[w] EXCEPT !.pc = "bad"] EXCEPT !.err = e]]
      BY <1>1, <1>3 DEF Bad, Teams
    <3> DEFINE a == wk[w]
               b == [pc |-> "bad", seg |-> a.seg, stop |-> a.stop, drain |-> a.drain,
                     cred |-> a.cred, err |-> a.err]
    <3>3. [a EXCEPT !.pc = "bad"] = b
      BY <1>2, AttemptIs
    <3>4. [b EXCEPT !.err = e].pc = "bad" /\ [b EXCEPT !.err = e].err = e
      OBVIOUS
    <3>5. wk'[w] = [b EXCEPT !.err = e]
      BY <1>1, <3>2, <3>3 DEF Teams
    <3> QED
      BY <3>4, <3>5
  <2> QED
    BY <2>1 DEF Deaf, Joins, Denied
<1>4. ASSUME Exit(w) \/ Loop(w)
      PROVE  Deaf(w)
  BY <1>1, <1>4, IdleAgain, DeafElsewhere
<1>5. ASSUME NEW p \in {"try", "gate", "commit", "first"}, NEW a, wk' = [wk EXCEPT ![w] = a],
             a.pc = p
      PROVE  Deaf(w)
  BY <1>1, <1>5, DeafElsewhere DEF Teams
<1>6. UNCHANGED <<task, url>> /\ Deaf(w)
  <2>1. CASE Pop(w)
    <3>1. UNCHANGED <<task, url>>
      BY <2>1 DEF Pop
    <3>2. CASE Exit(w)
      BY <1>4, <3>1, <3>2
    <3>3. CASE wk' = [wk EXCEPT ![w].pc = "try", ![w].seg = Head(queue.ready)]
      <4> DEFINE a == [[wk[w] EXCEPT !.pc = "try"] EXCEPT !.seg = Head(queue.ready)]
      <4>1. wk' = [wk EXCEPT ![w] = a]
        BY <1>1, <3>3 DEF Teams
      <4>2. a.pc = "try"
        BY <1>2 DEF Attempt, Record
      <4> QED
        BY <1>5, <3>1, <4>1, <4>2
    <3> QED
      BY <2>1, <3>2, <3>3 DEF Pop
  <2>2. CASE GiveBack(w)
    BY <1>4, <2>2 DEF GiveBack
  <2>3. CASE Backoff(w)
    <3>1. wk' = [wk EXCEPT ![w] = [wk[w] EXCEPT !.pc = "try"]] /\ UNCHANGED <<task, url>>
      BY <1>1, <2>3 DEF Backoff, Goto, Teams
    <3>2. [wk[w] EXCEPT !.pc = "try"].pc = "try"
      BY <1>2 DEF Attempt, Record
    <3> QED
      BY <1>5, <3>1, <3>2
  <2>4. CASE Fetched(w)
    <3> DEFINE a == [[wk[w] EXCEPT !.pc = "gate"] EXCEPT !.cred = 1]
    <3>1. wk' = [wk EXCEPT ![w] = a] /\ UNCHANGED <<task, url>>
      BY <1>1, <2>4 DEF Fetched, Teams
    <3>2. a.pc = "gate"
      BY <1>2 DEF Attempt, Record
    <3> QED
      BY <1>5, <3>1, <3>2
  <2>5. CASE Gate(w)
    <3>1. UNCHANGED <<task, url>>
      BY <2>5 DEF Gate
    <3>2. CASE Bad(w, "cancel")
      <4>1. "cancel" \in Errs \ {"refused"}
        BY DEF Errs
      <4> QED
        BY <1>3, <3>1, <3>2, <4>1
    <3>3. CASE Goto(w, "commit")
      <4>1. wk' = [wk EXCEPT ![w] = [wk[w] EXCEPT !.pc = "commit"]]
        BY <1>1, <3>3 DEF Goto, Teams
      <4>2. [wk[w] EXCEPT !.pc = "commit"].pc = "commit"
        BY <1>2 DEF Attempt, Record
      <4> QED
        BY <1>5, <3>1, <4>1, <4>2
    <3> QED
      BY <2>5, <3>2, <3>3 DEF Gate
  <2>6. CASE Commit(w)
    <3>1. UNCHANGED <<task, url>> /\ (Bad(w, "io") \/ Settled(w) \/ Exit(w))
      BY <2>6, CommitWindow
    <3>2. CASE Bad(w, "io")
      <4>1. "io" \in Errs \ {"refused"}
        BY DEF Errs
      <4> QED
        BY <1>3, <3>1, <3>2, <4>1
    <3>3. CASE wk' = [wk EXCEPT ![w].pc = "first", ![w].cred = 0, ![w].stop = "none"]
      <4> DEFINE a == [[[wk[w] EXCEPT !.pc = "first"] EXCEPT !.cred = 0] EXCEPT !.stop = "none"]
      <4>1. wk' = [wk EXCEPT ![w] = a]
        BY <1>1, <3>3 DEF Teams
      <4>2. a.pc = "first"
        BY <1>2 DEF Attempt, Record
      <4> QED
        BY <1>5, <3>1, <4>1, <4>2
    <3> QED
      BY <1>4, <3>1, <3>2, <3>3 DEF Settled
  <2>7. CASE FirstCheckpoint(w)
    <3>1. UNCHANGED <<task, url>>
      BY <2>7 DEF FirstCheckpoint
    <3>2. PICK ws \in SUBSET (Workers \ Live) :
            wk' = [Spawned(ws) EXCEPT ![w] = [Parked EXCEPT !.drain = wk[w].drain]]
      BY <2>7 DEF FirstCheckpoint
    <3>3. [Parked EXCEPT !.drain = wk[w].drain].pc = "pop"
      BY <1>2, AttemptIs, IdleIs
    <3>4. wk'[w] = [Parked EXCEPT !.drain = wk[w].drain]
      BY <3>2 DEF Spawned
    <3> QED
      BY <3>1, <3>3, <3>4, DeafElsewhere
  <2>8. CASE FirstFails(w)
    BY <1>4, <2>8 DEF FirstFails
  <2>9. CASE Control(w)
    <3>1. UNCHANGED <<task, url>>
      BY <2>9 DEF Control, Kill, Stall, DrainWorker
    <3>2. wk'[w].pc = wk[w].pc /\ wk'[w].seg = wk[w].seg /\ wk'[w].err = wk[w].err
      BY <1>1, <1>2, <2>9 DEF Control, Kill, Stall, DrainWorker, Teams, Attempt, Record
    <3> QED
      BY <3>1, <3>2 DEF Deaf, Joins, Denied
  <2> QED
    BY <2>1, <2>2, <2>3, <2>4, <2>5, <2>6, <2>7, <2>8, <2>9
<1> QED
  BY <1>1, <1>6, OthersDeaf

\* The record of the task a worker holds is its own.
LEMMA OwnTask ==
  ASSUME BookBase, AddressOK, NEW w \in Workers, HoldsLease(w), UNCHANGED url,
         wk'[w].pc \notin {"ref", "bad"}, \A v \in Workers \ {w} : wk'[v] = wk[v],
         \A r \in Segs \ {wk[w].seg} : task'[r] = task[r],
         task'[wk[w].seg].seen <= url.gen,
         task'[wk[w].seg].mark /\ task'[wk[w].seg].seen = url.gen => Expired
  PROVE  AddressOK'
<1> DEFINE s == wk[w].seg
<1>0. /\ mode = "run" /\ wk[w].seg \in Segs /\ wk \in Teams
      /\ \A u, v \in Workers : HoldsLease(u) /\ HoldsLease(v) /\ wk[u].seg = wk[v].seg => u = v
  <2>1. wk[w].pc # "off"
    BY PcsAre DEF HoldsLease
  <2>2. mode = "run" /\ wk[w].seg \in Segs /\ wk \in Teams
    BY <2>1, WorksInRun
  <2> QED
    BY <2>2 DEF BookBase, QueueOK
<1>1. (url.flight => Expired)'
  BY DEF AddressOK, Expired
<1>2. MarksOK'
  <2>1. ASSUME NEW r \in Segs
        PROVE  task'[r].seen <= url.gen /\ (task'[r].mark /\ task'[r].seen = url.gen => Expired)
    <3>1. CASE r = s
      BY <3>1
    <3>2. CASE r # s
      BY <3>2 DEF AddressOK, MarksOK
    <3> QED
      BY <3>1, <3>2
  <2> QED
    BY <2>1 DEF MarksOK, Expired
<1>3. ASSUME NEW v \in Workers, wk'[v].pc \in {"ref", "bad"}
      PROVE  wk'[v] = wk[v] /\ task'[wk[v].seg] = task[wk[v].seg]
  <2>1. v # w /\ wk'[v] = wk[v]
    BY <1>3
  <2>2. HoldsLease(v) /\ wk[v].seg \in Segs
    BY <1>0, <1>3, <2>1, PcsAre, AttemptIs DEF HoldsLease, Teams
  <2>3. wk[v].seg # s
    BY <1>0, <2>1, <2>2
  <2> QED
    BY <2>1, <2>2, <2>3
<1>4. ASSUME NEW v \in Workers, Denied(v)'
      PROVE  (task[wk[v].seg].seen < url.alive)'
  BY <1>3, <1>4 DEF AddressOK, AsksOK, Denied
<1>5. ASSUME NEW v \in Workers, Joins(v)', task[wk[v].seg].mark'
      PROVE  (task[wk[v].seg].seen = url.gen)'
  BY <1>3, <1>5 DEF AddressOK, AsksOK, Joins
<1> QED
  BY <1>1, <1>2, <1>4, <1>5 DEF AddressOK, AsksOK

\* An attempt asks with the current addresses, or its mark sends it to a refresh.
LEMMA TryAsks ==
  ASSUME BookBase, AddressOK, NEW w \in Workers, Try(w)
  PROVE  AddressOK' /\ (~url.flight /\ url'.flight => Expired)
<1> DEFINE s == wk[w].seg
           t == task[s]
           owed == t.mark /\ url.gen <= t.seen
<1>0. HoldsLease(w) /\ wk[w].pc # "off" /\ wk[w].pc = "try"
  BY PcsAre DEF Try, HoldsLease
<1>1. /\ wk \in Teams /\ wk[w] \in Attempt /\ s \in Segs
      /\ task \in [Segs -> TaskType] /\ url \in UrlType
  BY <1>0, WorksInRun DEF BookBase, Typed
<1>2. url.gen \in Nat /\ url.alive \in Nat /\ task[s].seen \in Nat /\ task[s].seen <= url.gen
  BY <1>1 DEF UrlType, TaskType, AddressOK, MarksOK
<1>3. owed => task[s].seen = url.gen
  BY <1>2
<1>4. owed => Expired
  BY <1>1, <1>3 DEF AddressOK, MarksOK
<1>5. CASE Request(w, [t EXCEPT !.mark = owed]) /\ UNCHANGED url
  <2>1. PICK m \in BOOLEAN : m = owed
    BY <1>1 DEF TaskType, UrlType
  <2> HIDE DEF owed
  <2>2. task' = [task EXCEPT ![s] = [[task[s] EXCEPT !.mark = m] EXCEPT !.seen = url.gen]]
    BY <1>5, <2>1 DEF Request, Lease
  <2>3. /\ task'[s].mark = m /\ task'[s].seen = url.gen
        /\ \A r \in Segs \ {s} : task'[r] = task[r]
    BY <1>1, <2>2, TaskMarks
  <2>4. wk' = [wk EXCEPT ![w] = [wk[w] EXCEPT !.pc = "net"]]
    BY <1>1, <1>5 DEF Request, Goto, Teams
  <2>5. wk'[w].pc = "net" /\ \A v \in Workers \ {w} : wk'[v] = wk[v]
    BY <1>1, <2>4 DEF Teams, Attempt, Record
  <2>6. task'[s].seen <= url.gen
    BY <1>2, <2>3
  <2>7. task'[s].mark => Expired
    BY <1>4, <2>1, <2>3
  <2> HIDE DEF s
  <2>8. AddressOK'
    BY <1>0, <1>5, <2>3, <2>5, <2>6, <2>7, OwnTask DEF s
  <2> QED
    BY <1>5, <2>8
<1>6. CASE owed /\ url' = [url EXCEPT !.flight = TRUE] /\ Goto(w, "ref") /\ UNCHANGED task
  <2>1. url'.gen = url.gen /\ url'.alive = url.alive
    BY <1>1, <1>6 DEF UrlType
  <2>2. Expired'
    BY <1>4, <1>6, <2>1 DEF Expired
  <2>3. MarksOK'
    BY <1>6, <2>1, <2>2 DEF AddressOK, MarksOK
  <2>4. wk' = [wk EXCEPT ![w] = [wk[w] EXCEPT !.pc = "ref"]]
    BY <1>1, <1>6 DEF Goto, Teams
  <2>5. wk'[w].pc = "ref" /\ wk'[w].seg = s /\ \A v \in Workers \ {w} : wk'[v] = wk[v]
    BY <1>1, <2>4 DEF Teams, Attempt, Record
  <2>6. ASSUME NEW v \in Workers, Denied(v)'
        PROVE  (task[wk[v].seg].seen < url.alive)'
    <3>1. v # w
      BY <2>5, <2>6 DEF Denied
    <3> QED
      BY <1>6, <2>1, <2>5, <2>6, <3>1 DEF AddressOK, AsksOK, Denied
  <2>7. ASSUME NEW v \in Workers, Joins(v)', task[wk[v].seg].mark'
        PROVE  (task[wk[v].seg].seen = url.gen)'
    <3>1. CASE v = w
      BY <1>3, <1>6, <2>1, <2>5, <3>1
    <3>2. CASE v # w
      BY <1>6, <2>1, <2>5, <2>7, <3>2 DEF AddressOK, AsksOK, Joins
    <3> QED
      BY <3>1, <3>2
  <2> QED
    BY <1>4, <1>6, <2>2, <2>3, <2>6, <2>7 DEF AddressOK, AsksOK
<1> QED
  BY <1>5, <1>6 DEF Try, Lease

\* After the refresh the attempt asks with what is there now.
LEMMA WaitedAsks ==
  ASSUME BookBase, AddressOK, NEW w \in Workers, RefreshWaited(w)
  PROVE  AddressOK' /\ UNCHANGED url
<1> DEFINE s == wk[w].seg
<1>0. HoldsLease(w) /\ wk[w].pc # "off" /\ wk[w].pc = "ref" /\ UNCHANGED url
  BY PcsAre DEF RefreshWaited, HoldsLease
<1>1. /\ wk \in Teams /\ wk[w] \in Attempt /\ s \in Segs
      /\ task \in [Segs -> TaskType] /\ url \in UrlType
  BY <1>0, WorksInRun DEF BookBase, Typed
<1>2. /\ task' = [task EXCEPT ![s] = [task[s] EXCEPT !.seen = url.gen]]
      /\ Goto(w, "net")
  BY DEF RefreshWaited, Request, Lease
<1>3. /\ task'[s].mark = task[s].mark /\ task'[s].seen = url.gen
      /\ \A r \in Segs \ {s} : task'[r] = task[r]
  BY <1>1, <1>2, TaskAsks
<1>4. wk' = [wk EXCEPT ![w] = [wk[w] EXCEPT !.pc = "net"]]
  BY <1>1, <1>2 DEF Goto, Teams
<1>5. wk'[w].pc = "net" /\ \A v \in Workers \ {w} : wk'[v] = wk[v]
  BY <1>1, <1>4 DEF Teams, Attempt, Record
<1>6. url.gen \in Nat /\ task'[s].seen <= url.gen
  BY <1>1, <1>3 DEF UrlType
<1>7. task'[s].mark => Expired
  <2>1. task[s].mark => task[s].seen = url.gen
    BY <1>0 DEF AddressOK, AsksOK, Joins
  <2> QED
    BY <1>1, <1>3, <2>1 DEF AddressOK, MarksOK
<1> HIDE DEF s
<1> QED
  BY <1>0, <1>3, <1>5, <1>6, <1>7, OwnTask DEF s

\* A refusal is heard.
LEMMA RefusalHeard ==
  ASSUME BookBase, AddressOK, NEW w \in Workers, NotFetched(w)
  PROVE  AddressOK' /\ UNCHANGED url
<1>0. HoldsLease(w) /\ wk[w].pc # "off" /\ wk[w].pc = "net" /\ UNCHANGED <<url, task>>
  BY PcsAre DEF NotFetched, HoldsLease
<1>1. wk \in Teams /\ wk[w] \in Attempt /\ wk[w].seg \in Segs
  BY <1>0, WorksInRun
<1>2. PICK e \in Errs : Bad(w, e) /\ (e = "refused" => task[wk[w].seg].seen < url.alive)
  BY DEF NotFetched, Errs, Lease
<1>3. /\ \A v \in Workers \ {w} : wk'[v] = wk[v]
      /\ wk'[w].pc = "bad" /\ wk'[w].seg = wk[w].seg /\ wk'[w].err = e
  BY <1>1, <1>2, BadIs DEF Lease
<1>4. (url.flight => Expired)' /\ MarksOK'
  BY <1>0 DEF AddressOK, MarksOK, Expired
<1>5. ASSUME NEW v \in Workers, Denied(v)'
      PROVE  (task[wk[v].seg].seen < url.alive)'
  <2>1. CASE v = w
    BY <1>0, <1>2, <1>3, <1>5, <2>1 DEF Denied
  <2>2. CASE v # w
    BY <1>0, <1>3, <1>5, <2>2 DEF Denied, AddressOK, AsksOK
  <2> QED
    BY <2>1, <2>2
<1>6. ASSUME NEW v \in Workers, Joins(v)', task[wk[v].seg].mark'
      PROVE  (task[wk[v].seg].seen = url.gen)'
  <2>1. v # w
    BY <1>3, <1>6 DEF Joins
  <2> QED
    BY <1>0, <1>3, <1>6, <2>1 DEF Joins, AddressOK, AsksOK
<1> QED
  BY <1>0, <1>4, <1>5, <1>6 DEF AddressOK, AsksOK

\* A refusal leaves its mark.
LEMMA SettleMarks ==
  ASSUME BookBase, AddressOK, NEW w \in Workers, Settle(w)
  PROVE  AddressOK' /\ UNCHANGED url
<1> DEFINE s == wk[w].seg
           marked == wk[w].err = "refused" /\ wk[w].stop = "none"
<1>0. HoldsLease(w) /\ wk[w].pc # "off" /\ wk[w].pc = "bad" /\ UNCHANGED url
  BY PcsAre DEF Settle, HoldsLease
<1>1. /\ wk \in Teams /\ wk[w] \in Attempt /\ s \in Segs
      /\ task \in [Segs -> TaskType] /\ url \in UrlType
  BY <1>0, WorksInRun DEF BookBase, Typed
<1>2. CASE UNCHANGED task /\ (Exit(w) \/ Loop(w))
  <2>1. /\ \A v \in Workers \ {w} : wk'[v] = wk[v]
        /\ wk'[w].pc \in {"off", "pop"}
    BY <1>1, <1>2, IdleAgain
  <2>2. Deaf(w)
    BY <2>1, DeafElsewhere
  <2>3. \A v \in Workers : Deaf(v)
    BY <2>1, <2>2, OthersDeaf DEF Others
  <2> QED
    BY <1>0, <1>2, <2>3, DeafSteps
<1>3. CASE /\ wk' = [wk EXCEPT ![w] = [Off EXCEPT !.pc = "wait", !.seg = s, !.drain = wk[w].drain]]
           /\ task' = [task EXCEPT ![s].retries = @ + 1, ![s].mark = @ \/ marked]
  <2>1. PICK m \in BOOLEAN : m = (task[s].mark \/ marked)
    OBVIOUS
  <2>2. task' = [task EXCEPT ![s].retries = @ + 1, ![s].mark = m]
    BY <1>1, <1>3, <2>1 DEF TaskType
  <2>3. /\ task'[s].mark = m /\ task'[s].seen = task[s].seen
        /\ \A r \in Segs \ {s} : task'[r] = task[r]
    BY <1>1, <2>2, TaskFails
  <2>4. wk'[w].pc = "wait" /\ \A v \in Workers \ {w} : wk'[v] = wk[v]
    <3>1. [Off EXCEPT !.pc = "wait", !.seg = s, !.drain = wk[w].drain].pc = "wait"
      BY DEF Off
    <3> DEFINE a == [Off EXCEPT !.pc = "wait", !.seg = s, !.drain = wk[w].drain]
    <3>2. wk' = [wk EXCEPT ![w] = a]
      BY <1>3
    <3> HIDE DEF a
    <3>3. wk'[w] = a /\ \A v \in Workers \ {w} : wk'[v] = wk[v]
      BY <1>1, <3>2 DEF Teams
    <3> QED
      BY <3>1, <3>3 DEF a
  <2>5. task'[s].seen <= url.gen
    BY <1>1, <2>3 DEF AddressOK, MarksOK
  <2>6. ASSUME task'[s].mark, task'[s].seen = url.gen
        PROVE  Expired
    <3>1. CASE task[s].mark
      BY <1>1, <2>3, <2>6, <3>1 DEF AddressOK, MarksOK
    <3>2. CASE marked
      <4>1. task[s].seen < url.alive
        BY <1>0, <3>2 DEF AddressOK, AsksOK, Denied
      <4> QED
        BY <2>3, <2>6, <4>1 DEF Expired
    <3> QED
      BY <2>1, <2>3, <2>6, <3>1, <3>2
  <2> HIDE DEF s
  <2> QED
    BY <1>0, <2>3, <2>4, <2>5, <2>6, OwnTask DEF s
<1> QED
  BY <1>0, <1>2, <1>3 DEF Settle, Lease

\* The manifest is fetched, and the addresses expire.
LEMMA FlightKeeps ==
  ASSUME BookBase, AddressOK, Expire \/ Refresh \/ CoolDown
  PROVE  AddressOK' /\ (url'.flight => url.flight)
<1>0. /\ task \in [Segs -> TaskType] /\ url \in UrlType /\ UNCHANGED wk
      /\ url.gen \in Nat /\ url.alive \in Nat /\ url.flight \in BOOLEAN /\ wk \in Teams
  BY DEF BookBase, Typed, UrlType, Expire, Refresh, CoolDown
<1>1. \A s \in Segs : task[s].seen \in Nat /\ task[s].seen <= url.gen
  BY <1>0 DEF TaskType, AddressOK, MarksOK
<1>a. \A w \in Workers : Denied(w) \/ Joins(w) => wk[w].seg \in Segs
  BY <1>0, AttemptIs, PcsAre DEF Denied, Joins, Teams
<1>2. CASE Expire
  <2>1. url' = [url EXCEPT !.alive = @ + 1] /\ UNCHANGED task
    BY <1>2 DEF Expire
  <2>2. url'.alive = url.alive + 1 /\ url'.gen = url.gen /\ url'.flight = url.flight
    BY <1>0, <2>1 DEF UrlType
  <2>3. Expired => Expired'
    BY <1>0, <2>2 DEF Expired
  <2>4. \A w \in Workers : Denied(w) => task[wk[w].seg].seen < url'.alive
    BY <1>0, <1>1, <1>a, <2>2 DEF AddressOK, AsksOK
  <2>5. AsksOK'
    BY <1>0, <2>1, <2>2, <2>4 DEF AddressOK, AsksOK, Denied, Joins
  <2>6. MarksOK'
    BY <1>0, <2>1, <2>2, <2>3 DEF AddressOK, MarksOK
  <2> QED
    BY <2>2, <2>3, <2>5, <2>6 DEF AddressOK
<1>3. CASE CoolDown \/ (url' = Landed /\ UNCHANGED task)
  <2>1. UNCHANGED task /\ url'.alive = url.alive /\ url'.gen = url.gen /\ (url'.flight => url.flight)
    BY <1>0, <1>3 DEF CoolDown, Landed, UrlType
  <2> QED
    BY <1>0, <2>1 DEF AddressOK, MarksOK, AsksOK, Expired, Denied, Joins
<1>4. CASE url.flight /\ Adopt /\ url' = [Landed EXCEPT !.gen = @ + 1]
  <2>1. url'.alive = url.alive /\ url'.gen = url.gen + 1 /\ ~url'.flight
    BY <1>0, <1>4 DEF Landed, UrlType
  <2>2. \A s \in Segs : task'[s].seen = task[s].seen /\ ~task'[s].mark
    BY <1>0, <1>4 DEF Adopt, TaskType
  <2>3. \A s \in Segs : task'[s].seen <= url'.gen
    BY <1>0, <1>1, <2>1, <2>2
  <2>4. MarksOK'
    BY <2>2, <2>3 DEF MarksOK
  <2>5. AsksOK'
    BY <1>0, <1>a, <2>1, <2>2 DEF AddressOK, AsksOK, Denied, Joins
  <2> QED
    BY <2>1, <2>4, <2>5 DEF AddressOK
<1> QED
  BY <1>2, <1>3, <1>4 DEF Refresh

\* Between runs, and at the start of one, nothing was asked.
LEMMA NothingAsked ==
  ASSUME task' \in [Segs -> TaskType], \A s \in Segs : ~task'[s].mark /\ task'[s].seen = 0,
         ~url'.flight, url'.gen = 0, \A w \in Workers : wk'[w].pc \notin {"bad", "ref"}
  PROVE  AddressOK'
<1>1. \A s \in Segs : task'[s].seen <= url'.gen
  OBVIOUS
<1> QED
  BY <1>1 DEF AddressOK, MarksOK, AsksOK, Denied, Joins

\* Every step keeps what the addresses say, and starts a refresh only of
\* expired ones.
LEMMA AddressNext ==
  ASSUME BookInv, AddressOK, [Next]_vars
  PROVE  AddressOK' /\ (~url.flight /\ url'.flight => Expired)
<1>0. BookBase /\ url \in UrlType
  BY DEF BookInv, BookBase, Typed
<1>1. CASE UNCHANGED <<task, wk, url>>
  <2>1. \A w \in Workers : Deaf(w)
    BY <1>1 DEF Deaf, Joins, Denied
  <2> QED
    BY <1>1, <2>1, DeafSteps
<1>2. CASE UNCHANGED vars \/ Start \/ MountFile \/ Capture \/ Pause \/ PersistEvent
  <2>1. UNCHANGED <<task, wk, url>>
    BY <1>2 DEF vars, run, Start, MountFile, Capture, Pause, PersistEvent
  <2> QED
    BY <1>1, <2>1
<1>3. CASE Complete \/ StopUnproven \/ Save \/ SaveFails \/ Crash
  <2>1. QuietNow'
    BY <1>3, QuietIs DEF Complete, StopUnproven, Save, SaveFails, Crash
  <2>2. /\ task' \in [Segs -> TaskType] /\ \A s \in Segs : ~task'[s].mark /\ task'[s].seen = 0
    BY <2>1 DEF QuietNow
  <2>3. ~url'.flight /\ url'.gen = 0 /\ \A w \in Workers : wk'[w].pc \notin {"bad", "ref"}
    BY <2>1, IdleIs DEF QuietNow
  <2> QED
    BY <2>2, <2>3, NothingAsked
<1>4. CASE MountPrefix \/ MountSpill
  <2>1. win' \in WinType /\ win'.bits \in SUBSET Segs /\ StartEngine(win', win'.bits)
    BY <1>4, MountWindow DEF BookInv
  <2>2. PICK x \in WinType : x = win'
    BY <2>1
  <2>3. /\ task' \in [Segs -> TaskType] /\ (\A s \in Segs : ~task'[s].mark /\ task'[s].seen = 0)
        /\ ~url'.flight /\ url'.gen = 0 /\ \A v \in Workers : wk'[v].pc \in {"off", "pop"}
    BY <2>1, <2>2, EngineIs
  <2> QED
    BY <2>3, NothingAsked
<1>5. CASE Expire \/ Refresh \/ CoolDown
  BY <1>0, <1>5, FlightKeeps
<1>6. CASE Spawn
  <2>1. UNCHANGED <<task, url>>
    BY <1>6 DEF Spawn
  <2>2. PICK w \in Workers \ Live : wk' = Spawned({w})
    BY <1>6 DEF Spawn
  <2>3. \A v \in Workers : wk'[v] = wk[v] \/ wk'[v] = Parked
    BY <2>2, SpawnedIs DEF BookInv, Typed
  <2>4. \A v \in Workers : Deaf(v)
    BY <2>3, IdleIs DEF Deaf, Joins, Denied
  <2> QED
    BY <2>1, <2>4, DeafSteps
<1>7. ASSUME NEW w \in Workers, Worker(w) \/ Control(w)
      PROVE  AddressOK' /\ (~url.flight /\ url'.flight => Expired)
  <2>1. CASE Try(w)
    BY <1>0, <2>1, TryAsks
  <2>2. CASE RefreshWaited(w) \/ NotFetched(w) \/ Settle(w)
    BY <1>0, <2>2, WaitedAsks, RefusalHeard, SettleMarks
  <2>3. CASE Pop(w) \/ GiveBack(w) \/ Backoff(w) \/ Fetched(w) \/ Gate(w) \/ Commit(w)
               \/ FirstCheckpoint(w) \/ FirstFails(w) \/ Control(w)
    BY <1>0, <2>3, DeafWork, DeafSteps
  <2> QED
    BY <1>7, <2>1, <2>2, <2>3 DEF Worker
<1> QED
  BY <1>2, <1>3, <1>4, <1>5, <1>6, <1>7 DEF Next, Mount, End

\* The manifest is fetched again only if the addresses in use have expired
\* (refreshManifestOnAuthExpired's comparison with the task's last generation).
THEOREM RefreshesOnlyExpired == Spec => RefreshOnRefusal
<1>1. Init => AddressOK
  <2> SUFFICES ASSUME Init
               PROVE  AddressOK
    OBVIOUS
  <2>1. QuietNow
    BY QuietIs
  <2>2. \A s \in Segs : task[s].seen <= url.gen
    BY <2>1 DEF QuietNow
  <2>3. \A w \in Workers : wk[w].pc = "off"
    BY <2>1, IdleIs DEF QuietNow
  <2> QED
    BY <2>1, <2>2, <2>3 DEF QuietNow, AddressOK, MarksOK, AsksOK, Denied, Joins
<1>2. ASSUME BookInv, AddressOK, [Next]_vars
      PROVE  AddressOK' /\ [~url.flight /\ url'.flight => url.alive > url.gen]_vars
  <2>1. AddressOK' /\ (~url.flight /\ url'.flight => Expired)
    BY <1>2, AddressNext
  <2> QED
    BY <2>1 DEF Expired
<1> QED
  BY <1>1, <1>2, Books, PTL DEF Spec, RefreshOnRefusal

-----------------------------------------------------------------------------
(* The cells of the two files. *)

FilesTyped == out \in Seq(Nat) /\ arena \in Seq(Nat)

\* The first m cells of the .surge file are the first m segments.
InOrder(m) == m <= Len(out) /\ \A i \in 1..m : out[i] = i

\* The spill file has the size the ledger was written for only if it has its cells.
Backs(c) == Len(arena) >= c.size => \A s \in DOMAIN c.ledger : arena[c.ledger[s] + 1] = s

\* The spill file has the cells that the window's index names.
Backing(w) ==
  /\ w.tail <= Len(arena)
  /\ \A s \in DOMAIN w.entries : arena[w.entries[s] + 1] = s

\* The spill file may have lost its end, and has nothing new.
Shorter == Len(arena') <= Len(arena) /\ \A i \in 1..Len(arena') : arena'[i] = arena[i]

\* A file cut off behind n cells.
LEMMA CutIs ==
  ASSUME NEW f \in Seq(Nat), NEW n \in Nat
  PROVE  /\ Cut(f, n) \in Seq(Nat)
         /\ Len(Cut(f, n)) = IF n < Len(f) THEN n ELSE Len(f)
         /\ \A i \in 1..Len(Cut(f, n)) : Cut(f, n)[i] = f[i]
<1> DEFINE k == IF n < Len(f) THEN n ELSE Len(f)
<1>1. k \in Nat /\ k <= Len(f)
  BY LenProperties
<1>2. Cut(f, n) = SubSeq(f, 1, k)
  BY DEF Cut
<1> HIDE DEF k
<1>3. \A i \in 1..k : f[i] \in Nat
  BY <1>1, ElementOfSeq, LenProperties
<1>4. /\ SubSeq(f, 1, k) \in Seq(Nat)
      /\ Len(SubSeq(f, 1, k)) = IF 1 <= k THEN k - 1 + 1 ELSE 0
      /\ \A i \in 1..k - 1 + 1 : SubSeq(f, 1, k)[i] = f[1 + i - 1]
  BY <1>1, <1>3, SubSeqProperties
<1>5. Len(SubSeq(f, 1, k)) = k /\ \A i \in 1..k : SubSeq(f, 1, k)[i] = f[i]
  BY <1>1, <1>4
<1> QED
  BY <1>2, <1>4, <1>5 DEF k

\* A prefix in order ends a file that was cut off behind it.
LEMMA InOrderCut ==
  ASSUME FilesTyped, NEW m \in Nat, InOrder(m)
  PROVE  /\ Len(Cut(out, m)) = m /\ Cut(out, m) = Prefix(m)
         /\ \A i \in 1..m : Cut(out, m)[i] = i
<1>1. /\ Cut(out, m) \in Seq(Nat) /\ Len(Cut(out, m)) = m
      /\ \A i \in 1..m : Cut(out, m)[i] = i
  <2>1. out \in Seq(Nat) /\ Len(out) \in Nat /\ m <= Len(out)
    BY LenProperties DEF FilesTyped, InOrder
  <2>2. /\ Cut(out, m) \in Seq(Nat) /\ Len(Cut(out, m)) = IF m < Len(out) THEN m ELSE Len(out)
        /\ \A i \in 1..Len(Cut(out, m)) : Cut(out, m)[i] = out[i]
    BY <2>1, CutIs
  <2>3. Len(Cut(out, m)) = m
    BY <2>1, <2>2
  <2> QED
    BY <2>2, <2>3 DEF InOrder
<1>2. Prefix(m) \in Seq(Nat) /\ Len(Prefix(m)) = m /\ \A i \in 1..m : Prefix(m)[i] = i
  BY DEF Prefix
<1>3. Cut(out, m) = Prefix(m)
  BY <1>1, <1>2, SeqEqual
<1> QED
  BY <1>1, <1>3

\* What a checkpoint was written for is still there, or its size is not.
LEMMA ShorterBacks ==
  ASSUME NEW c \in Checkpoints, FilesTyped, FilesTyped', Shorter, Backs(c)
  PROVE  Backs(c)'
<1> SUFFICES ASSUME Len(arena') >= c.size, NEW s \in DOMAIN c.ledger
             PROVE  arena'[c.ledger[s] + 1] = s
  BY DEF Backs
<1>1. c.ledger[s] \in Nat /\ c.size \in Nat /\ c.ledger[s] < c.size
  BY LedgerIs DEF Checkpoints, CkptType, Ahead
<1>2. Len(arena) \in Nat /\ Len(arena') \in Nat
  BY LenProperties DEF FilesTyped
<1>3. c.ledger[s] + 1 \in 1..Len(arena') /\ Len(arena) >= c.size
  BY <1>1, <1>2 DEF Shorter
<1>4. arena[c.ledger[s] + 1] = s
  BY <1>3 DEF Backs
<1> QED
  BY <1>3, <1>4 DEF Shorter

\* A file that no step has written.
LEMMA SameArena == ASSUME FilesTyped, UNCHANGED arena PROVE Shorter
BY LenProperties DEF FilesTyped, Shorter

\* The file ends with the next k segments behind the merged prefix, in order.
LEMMA AppendedIs ==
  ASSUME FilesTyped, NEW w \in WinType, Sound(w), InOrder(w.merged), Backing(w),
         NEW k \in Nat, w.merged + k <= NSeg,
         \A i \in w.merged + 1 .. w.merged + k : i \in w.pending \cup DOMAIN w.entries
  PROVE  /\ Appended(w, k) \in Seq(Nat) /\ Len(Appended(w, k)) = w.merged + k
         /\ \A i \in 1..w.merged + k : Appended(w, k)[i] = i
<1> DEFINE cell(i) == LET s == w.merged + i IN
                        IF s \in DOMAIN w.entries THEN arena[w.entries[s] + 1] ELSE s
           more == [i \in 1..k |-> cell(i)]
<1>1. w.merged \in Nat
  BY SegsFinite DEF WinType
<1>2. \A i \in 1..k : cell(i) = w.merged + i
  BY <1>1 DEF Backing
<1>3. \A i \in 1..k : more[i] = w.merged + i
  BY <1>2
<1>4. more \in Seq(Nat) /\ Len(more) = k
  <2>1. more \in [1..k -> Nat]
    BY <1>1, <1>2
  <2> HIDE DEF more
  <2> QED
    BY <2>1
<1> HIDE DEF more
<1> DEFINE pre == Cut(out, w.merged)
<1>5. Appended(w, k) = pre \o more
  BY DEF Appended, more
<1>6. pre \in Seq(Nat) /\ Len(pre) = w.merged /\ \A i \in 1..w.merged : pre[i] = i
  BY <1>1, CutIs, InOrderCut DEF FilesTyped
<1> HIDE DEF pre
<1> DEFINE cat == pre \o more
<1>7. /\ cat \in Seq(Nat) /\ Len(cat) = Len(pre) + Len(more)
      /\ \A i \in 1..Len(pre) + Len(more) :
           cat[i] = IF i <= Len(pre) THEN pre[i] ELSE more[i - Len(pre)]
  BY <1>4, <1>6, ConcatProperties, Zenon
<1> HIDE DEF cat
<1>8. ASSUME NEW i \in 1..w.merged + k
      PROVE  cat[i] = i
  <2>1. CASE i <= w.merged
    <3>1. i \in 1..Len(pre) + Len(more) /\ i <= Len(pre) /\ i \in 1..w.merged
      BY <1>1, <1>4, <1>6, <2>1
    <3>2. cat[i] = pre[i]
      BY <1>7, <3>1
    <3> QED
      BY <1>6, <3>1, <3>2
  <2>2. CASE ~(i <= w.merged)
    <3>1. i - w.merged \in 1..k
      BY <1>1, <2>2
    <3>2. cat[i] = w.merged + (i - w.merged)
      BY <1>3, <1>4, <1>6, <1>7, <2>2, <3>1
    <3> QED
      BY <1>1, <3>1, <3>2
  <2> QED
    BY <2>1, <2>2
<1> QED
  BY <1>4, <1>5, <1>6, <1>7, <1>8 DEF cat

\* A dirty cell behind the prefix.
LEMMA DirtyCell ==
  ASSUME NEW f \in Seq(Nat), NEW m \in Nat, m <= Len(f), \A i \in 1..m : f[i] = i
  PROVE  /\ Append(f, 0) \in Seq(Nat) /\ m <= Len(Append(f, 0))
         /\ \A i \in 1..m : Append(f, 0)[i] = i
<1>1. Len(f) \in Nat
  BY LenProperties
<1> QED
  BY <1>1

\* The merged prefix and the index are backed by the files.
WindowBacked == InOrder(win.merged) /\ Backing(win)

\* Nothing is in the window just behind the merged prefix.
Gap(w) == w.merged + 1 \notin w.pending \cup DOMAIN w.entries

\* Merged segments leave the rest of the index backed.
LEMMA MergeBacks ==
  ASSUME FilesTyped, NEW w \in WinType, Backing(w), DOMAIN win'.entries \in SUBSET DOMAIN w.entries,
         \A s \in DOMAIN win'.entries : win'.entries[s] = w.entries[s],
         \/ arena' = arena /\ win'.tail = w.tail
         \/ arena' = << >> /\ win'.tail = 0 /\ DOMAIN win'.entries = {}
  PROVE  arena' \in Seq(Nat) /\ Backing(win)' /\ Shorter
<1>2. CASE arena' = arena /\ win'.tail = w.tail
  BY <1>2, SameArena DEF FilesTyped, Backing
<1>3. CASE arena' = << >> /\ win'.tail = 0 /\ DOMAIN win'.entries = {}
  <2>1. arena' \in Seq(Nat) /\ Len(arena') = 0 /\ Len(arena) \in Nat
    BY <1>3, LenProperties DEF FilesTyped
  <2>2. Shorter
    BY <2>1 DEF Shorter
  <2>3. Backing(win)'
    BY <1>3, <2>1 DEF Backing
  <2> QED
    BY <2>1, <2>2, <2>3
<1> QED
  BY <1>2, <1>3

\* Draining up to the gap writes what the window holds, in order.
LEMMA DrainFiles ==
  ASSUME FilesTyped, NEW w \in WinType, Sound(w), InOrder(w.merged), Backing(w),
         Drain(w, Contiguous(w))
  PROVE  /\ FilesTyped' /\ WindowBacked' /\ Shorter /\ w.merged <= win'.merged
         /\ Len(out') = win'.merged /\ Gap(win') /\ win'.fault = w.fault
<1> DEFINE n == Contiguous(w)
           d == Advanced(w, n)
<1>1. /\ n \in Nat /\ w.merged + n <= NSeg /\ w.merged \in Nat
      /\ \A i \in w.merged + 1 .. w.merged + n : i \in w.pending \cup DOMAIN w.entries
      /\ w.merged + n + 1 \notin w.pending \cup DOMAIN w.entries
  BY ContiguousRun, SegsFinite DEF WinType
<1> HIDE DEF n
<1>2. Drain(w, n)
  BY DEF n
<1>3. Merges(w, n) /\ win'.fault = w.fault
  BY <1>1, <1>2, DrainIs
<1>4. out' \in Seq(Nat) /\ Len(out') = w.merged + n /\ \A i \in 1..w.merged + n : out'[i] = i
  BY <1>1, <1>2, AppendedIs DEF Drain
<1>5. \/ arena' = arena /\ win'.tail = w.tail
      \/ arena' = << >> /\ win'.tail = 0 /\ DOMAIN win'.entries = {}
  <2>1. d \in WinType /\ d.tail = w.tail
    BY <1>1, AdvancedIs
  <2> HIDE DEF d
  <2>2. win' = IF Emptied(w, d) THEN [d EXCEPT !.tail = 0] ELSE d
    BY <1>2 DEF Drain, d
  <2>3. arena' = IF Emptied(w, d) THEN << >> ELSE arena
    BY <1>2 DEF Drain, d
  <2>4. CASE Emptied(w, d)
    <3>1. win' = [d EXCEPT !.tail = 0] /\ arena' = << >>
      BY <2>2, <2>3, <2>4
    <3>2. win'.tail = 0 /\ win'.entries = d.entries
      BY <2>1, <3>1 DEF WinType
    <3> QED
      BY <2>4, <3>1, <3>2, EmptyLedger DEF Emptied
  <2>5. CASE ~Emptied(w, d)
    BY <2>1, <2>2, <2>3, <2>5
  <2> QED
    BY <2>4, <2>5
<1>6. arena' \in Seq(Nat) /\ Backing(win)' /\ Shorter
  BY <1>3, <1>5, MergeBacks DEF Merges
<1>7. win'.merged = w.merged + n /\ Gap(win')
  BY <1>1, <1>3 DEF Merges, Gap
<1>8. InOrder(win.merged)'
  BY <1>1, <1>4, <1>7 DEF InOrder
<1> QED
  BY <1>1, <1>3, <1>4, <1>6, <1>7, <1>8 DEF FilesTyped, WindowBacked

\* A fault on the way leaves at most a dirty cell behind what was merged.
LEMMA DrainFaultFiles ==
  ASSUME FilesTyped, NEW w \in WinType, Sound(w), InOrder(w.merged), Backing(w),
         DrainFault(w, Contiguous(w))
  PROVE  /\ FilesTyped' /\ WindowBacked' /\ Shorter /\ w.merged <= win'.merged /\ win'.fault
         /\ win'.merged \in Nat
<1> DEFINE n == Contiguous(w)
<1>1. /\ n \in Nat /\ w.merged + n <= NSeg /\ w.merged \in Nat
      /\ \A i \in w.merged + 1 .. w.merged + n : i \in w.pending \cup DOMAIN w.entries
  BY ContiguousRun, SegsFinite DEF WinType
<1> HIDE DEF n
<1>2. PICK k \in 1..n :
        LET d == Advanced(w, k)
            cleared == k < n /\ Emptied(w, d)
        IN  /\ out' = IF k = n THEN Appended(w, k) ELSE Append(Appended(w, k), 0)
            /\ win' = [d EXCEPT !.fault = TRUE, !.tail = IF cleared THEN 0 ELSE @]
            /\ arena' = IF cleared THEN << >> ELSE arena
  BY DEF DrainFault, n
<1> DEFINE d == Advanced(w, k)
           cleared == k < n /\ Emptied(w, d)
<1>3. /\ k \in Nat /\ w.merged + k <= NSeg
      /\ \A i \in w.merged + 1 .. w.merged + k : i \in w.pending \cup DOMAIN w.entries
  BY <1>1, SegsFinite DEF WinType
<1>4. /\ d \in WinType /\ d.merged = w.merged + k /\ d.tail = w.tail
      /\ d.pending = w.pending \ (w.merged + 1 .. w.merged + k)
      /\ d.bits = w.bits \cup (w.merged + 1 .. w.merged + k)
      /\ DOMAIN d.entries = DOMAIN w.entries \ (w.merged + 1 .. w.merged + k)
      /\ \A s \in DOMAIN d.entries : d.entries[s] = w.entries[s]
      /\ d.open = w.open
  BY <1>3, AdvancedIs
<1> HIDE DEF d
<1>5. /\ win' = [d EXCEPT !.fault = TRUE, !.tail = IF cleared THEN 0 ELSE @]
      /\ arena' = IF cleared THEN << >> ELSE arena
      /\ out' = IF k = n THEN Appended(w, k) ELSE Append(Appended(w, k), 0)
  BY <1>2 DEF d
<1>6. cleared => DOMAIN d.entries = {}
  BY EmptyLedger DEF Emptied
<1>7. PICK t : t = IF cleared THEN 0 ELSE d.tail
  OBVIOUS
<1>8. win' = [d EXCEPT !.fault = TRUE, !.tail = t]
  BY <1>5, <1>7
<1> HIDE DEF cleared
<1>9. /\ win'.merged = d.merged /\ win'.bits = d.bits /\ win'.entries = d.entries
      /\ win'.pending = d.pending /\ win'.open = d.open /\ win'.fault /\ win'.tail = t
  BY <1>4, <1>8 DEF WinType
<1>10. \/ arena' = arena /\ win'.tail = w.tail
       \/ arena' = << >> /\ win'.tail = 0 /\ DOMAIN win'.entries = {}
  <2>1. CASE cleared
    BY <1>5, <1>6, <1>7, <1>9, <2>1
  <2>2. CASE ~cleared
    BY <1>4, <1>5, <1>7, <1>9, <2>2
  <2> QED
    BY <2>1, <2>2
<1>11. arena' \in Seq(Nat) /\ Backing(win)' /\ Shorter
  <2>1. DOMAIN win'.entries \in SUBSET DOMAIN w.entries
        /\ \A s \in DOMAIN win'.entries : win'.entries[s] = w.entries[s]
    BY <1>4, <1>9
  <2> QED
    BY <1>10, <2>1, MergeBacks
<1>12. /\ Appended(w, k) \in Seq(Nat) /\ Len(Appended(w, k)) = w.merged + k
       /\ \A i \in 1..w.merged + k : Appended(w, k)[i] = i
  BY <1>3, AppendedIs
<1>13. out' \in Seq(Nat) /\ w.merged + k <= Len(out') /\ \A i \in 1..w.merged + k : out'[i] = i
  <2>1. w.merged + k \in Nat
    BY <1>1, <1>3
  <2>2. CASE k = n
    BY <1>5, <1>12, <2>1, <2>2
  <2>3. CASE k # n
    BY <1>5, <1>12, <2>1, <2>3, DirtyCell
  <2> QED
    BY <2>2, <2>3
<1>14. win'.merged = w.merged + k
  BY <1>4, <1>9
<1>15. InOrder(win.merged)'
  BY <1>13, <1>14 DEF InOrder
<1> QED
  BY <1>1, <1>3, <1>9, <1>11, <1>13, <1>14, <1>15 DEF FilesTyped, WindowBacked

\* A spill cuts what lies behind the confirmed tail and appends the segments.
LEMMA SpillFiles ==
  ASSUME FilesTyped, win \in WinType, Sound(win), WindowBacked, NEW ss \in Seq(Segs), Spill(ss)
  PROVE  arena' \in Seq(Nat) /\ Backing(win)' /\ (Len(ss) = 0 => Shorter)
<1> DEFINE pre == Cut(arena, win.tail)
           cat == pre \o ss
<1>1. /\ win.tail \in Nat /\ Len(arena) \in Nat /\ win.tail <= Len(arena) /\ Len(ss) \in Nat
      /\ arena \in Seq(Nat) /\ ss \in Seq(Nat)
  BY LenProperties, SeqMonotonic, SegsFinite DEF WinType, FilesTyped, WindowBacked, Backing
<1>2. pre \in Seq(Nat) /\ Len(pre) = win.tail /\ \A i \in 1..win.tail : pre[i] = arena[i]
  BY <1>1, CutIs
<1>3. arena' = cat
  BY DEF Spill
<1> HIDE DEF pre
<1>4. /\ cat \in Seq(Nat) /\ Len(cat) = Len(pre) + Len(ss)
      /\ \A i \in 1..Len(pre) + Len(ss) :
           cat[i] = IF i <= Len(pre) THEN pre[i] ELSE ss[i - Len(pre)]
  BY <1>1, <1>2, ConcatProperties, Zenon
<1> HIDE DEF cat
<1>5. /\ DOMAIN win'.entries = DOMAIN win.entries \cup Range(ss)
      /\ win'.tail = win.tail + Len(ss)
      /\ \A s \in Range(ss) :
           \E i \in 1..Len(ss) : ss[i] = s /\ win'.entries[s] = win.tail + i - 1
      /\ \A s \in DOMAIN win.entries \ Range(ss) : win'.entries[s] = win.entries[s]
  BY SpillIs
<1>6. \A i \in 1..win.tail : cat[i] = arena[i]
  <2> TAKE i \in 1..win.tail
  <2>1. i \in 1..Len(pre) + Len(ss) /\ i <= Len(pre)
    BY <1>1, <1>2
  <2> QED
    BY <1>2, <1>4, <2>1
<1>7. \A i \in 1..Len(ss) : cat[win.tail + i] = ss[i]
  <2> TAKE i \in 1..Len(ss)
  <2>2. PICK j \in Int : j = win.tail + i
    BY <1>1
  <2>3. j \in 1..Len(pre) + Len(ss) /\ ~(j <= Len(pre)) /\ j - Len(pre) = i
    BY <1>1, <1>2, <2>2
  <2>4. cat[j] = ss[j - Len(pre)]
    BY <1>4, <2>3
  <2> QED
    BY <2>2, <2>3, <2>4
<1>8. ASSUME NEW s \in DOMAIN win'.entries
      PROVE  arena'[win'.entries[s] + 1] = s
  <2>1. CASE s \in Range(ss)
    <3>1. PICK i \in 1..Len(ss) : ss[i] = s /\ win'.entries[s] = win.tail + i - 1
      BY <1>5, <2>1
    <3>2. win'.entries[s] + 1 = win.tail + i
      BY <1>1, <3>1
    <3> QED
      BY <1>3, <1>7, <3>1, <3>2
  <2>2. CASE s \in DOMAIN win.entries \ Range(ss)
    <3>1. win'.entries[s] = win.entries[s] /\ arena[win.entries[s] + 1] = s
      BY <1>5, <2>2 DEF WindowBacked, Backing
    <3>2. win.entries[s] \in Nat /\ win.entries[s] < win.tail
      BY <2>2, LedgerIs DEF WinType, Sound
    <3>3. win.entries[s] + 1 \in 1..win.tail
      BY <1>1, <3>2
    <3> QED
      BY <1>3, <1>6, <3>1, <3>3
  <2> QED
    BY <1>5, <2>1, <2>2
<1>9. Backing(win)'
  BY <1>1, <1>2, <1>3, <1>4, <1>5, <1>8 DEF Backing
<1>10. Len(ss) = 0 => Shorter
  BY <1>1, <1>2, <1>3, <1>4, <1>6 DEF Shorter
<1> QED
  BY <1>3, <1>4, <1>9, <1>10

\* The files after a step that leaves them and the window, but for a fault.
LEMMA QuietFiles ==
  ASSUME FilesTyped, WindowBacked, UNCHANGED <<out, arena>>,
         win'.merged = win.merged, win'.entries = win.entries, win'.tail = win.tail
  PROVE  FilesTyped' /\ WindowBacked' /\ Shorter
BY SameArena DEF FilesTyped, WindowBacked, InOrder, Backing

\* What a commit does to the files. Before the first checkpoint it spills nothing.
LEMMA CommitFiles ==
  ASSUME BookBase, FilesTyped, WindowBacked, NEW w \in Workers, Commit(w)
  PROVE  /\ FilesTyped' /\ WindowBacked' /\ win.merged <= win'.merged
         /\ Shorter \/ ~Frontier(w)
<1>1. /\ wk[w].pc = "commit" /\ mode = "run" /\ win \in WinType /\ Sound(win)
      /\ wk[w].seg \in Segs /\ wk[w].seg \notin Held(win)
  <2>1. wk[w].pc = "commit"
    BY CommitWindow
  <2>2. HoldsLease(w) /\ wk[w].pc # "off"
    BY <2>1, PcsAre DEF HoldsLease
  <2> QED
    BY <2>1, <2>2, WorksInRun DEF BookBase, Typed
<1> DEFINE s == wk[w].seg
           d == [win EXCEPT !.pending = @ \cup {s}]
<1>2. /\ d \in WinType /\ Sound(d) /\ d.merged = win.merged
      /\ d.entries = win.entries /\ d.tail = win.tail
  BY <1>1, BufferSound
<1>3. InOrder(d.merged) /\ Backing(d) /\ win.merged \in Nat
  BY <1>1, <1>2, SegsFinite DEF WindowBacked, InOrder, Backing, WinType
<1> HIDE DEF d
<1>4. CASE Refused(w)
  <2>1. UNCHANGED <<out, arena, win>>
    BY <1>4 DEF Refused, NoFileChange
  <2> QED
    BY <1>3, <2>1, QuietFiles
<1>5. CASE Direct(w)
  <2>1. Drain(d, Contiguous(d))
    BY <1>5 DEF Direct, Lease, d
  <2> QED
    BY <1>2, <1>3, <2>1, DrainFiles
<1>6. CASE DirectFails(w)
  <2>1. out' = Append(out, 0) /\ win' = [win EXCEPT !.fault = TRUE] /\ UNCHANGED arena
    BY <1>6 DEF DirectFails
  <2>2. win'.merged = win.merged /\ win'.entries = win.entries /\ win'.tail = win.tail
    BY <1>1, <2>1 DEF WinType
  <2>3. out' \in Seq(Nat) /\ win.merged <= Len(out') /\ \A i \in 1..win.merged : out'[i] = i
    BY <1>3, <2>1, DirtyCell DEF FilesTyped, WindowBacked, InOrder
  <2> QED
    BY <1>3, <2>1, <2>2, <2>3, SameArena DEF FilesTyped, WindowBacked, InOrder, Backing
<1>7. CASE DrainFails(w)
  <2>1. DrainFault(d, Contiguous(d))
    BY <1>7 DEF DrainFails, Lease, d
  <2> QED
    BY <1>2, <1>3, <2>1, DrainFaultFiles
<1>8. CASE Buffered(w)
  <2>1. win' = d /\ UNCHANGED <<out, arena>>
    BY <1>8 DEF Buffered, NoFileChange, Lease, d
  <2> QED
    BY <1>2, <1>3, <2>1, QuietFiles
<1>9. CASE SpillIt(w)
  <2>1. Spill(<<s>>) /\ UNCHANGED out /\ ~Frontier(w)
    BY <1>9 DEF SpillIt, Overflow, Lease
  <2>2. <<s>> \in Seq(Segs)
    BY <1>1, RangeOfOne
  <2>3. arena' \in Seq(Nat) /\ Backing(win)'
    BY <1>1, <2>1, <2>2, SpillFiles
  <2>4. win'.merged = win.merged
    BY <1>1, <2>1, <2>2, SpillIs
  <2> QED
    BY <1>3, <2>1, <2>3, <2>4 DEF FilesTyped, WindowBacked, InOrder
<1>10. CASE SpillFails(w)
  <2>1. UNCHANGED out /\ ~Frontier(w)
    BY <1>10 DEF SpillFails, Overflow
  <2>2. arena' = arena \/ arena' = Cut(arena, win.tail) \o <<0>>
    BY <1>10 DEF SpillFails
  <2>3. win'.merged = win.merged /\ win'.entries = win.entries /\ win'.tail = win.tail
    BY <1>1, <1>10 DEF SpillFails, WinType
  <2>4. CASE arena' = arena
    BY <1>3, <2>1, <2>3, <2>4, QuietFiles
  <2>5. CASE arena' = Cut(arena, win.tail) \o <<0>>
    <3> DEFINE pre == Cut(arena, win.tail)
               cat == pre \o <<0>>
    <3>1. /\ win.tail \in Nat /\ Len(arena) \in Nat /\ win.tail <= Len(arena) /\ arena \in Seq(Nat)
      BY <1>1, LenProperties DEF WinType, FilesTyped, WindowBacked, Backing
    <3>2. pre \in Seq(Nat) /\ Len(pre) = win.tail /\ \A i \in 1..win.tail : pre[i] = arena[i]
      BY <3>1, CutIs
    <3>3. <<0>> \in Seq(Nat) /\ Len(<<0>>) = 1
      OBVIOUS
    <3> HIDE DEF pre
    <3>4. /\ cat \in Seq(Nat) /\ Len(cat) = Len(pre) + Len(<<0>>)
          /\ \A i \in 1..Len(pre) + Len(<<0>>) :
               cat[i] = IF i <= Len(pre) THEN pre[i] ELSE <<0>>[i - Len(pre)]
      BY <3>2, <3>3, ConcatProperties, Zenon
    <3>5. arena' = cat
      BY <2>5 DEF pre
    <3> HIDE DEF cat
    <3>6. \A i \in 1..win.tail : cat[i] = arena[i]
      <4> TAKE i \in 1..win.tail
      <4>1. i \in 1..Len(pre) + Len(<<0>>) /\ i <= Len(pre)
        BY <3>1, <3>2, <3>3
      <4> QED
        BY <3>2, <3>4, <4>1
    <3>7. \A x \in DOMAIN win.entries : win.entries[x] + 1 \in 1..win.tail
      <4> TAKE x \in DOMAIN win.entries
      <4>1. win.entries[x] \in Nat /\ win.entries[x] < win.tail
        BY <1>1, LedgerIs DEF WinType, Sound
      <4> QED
        BY <3>1, <4>1
    <3>8. Backing(win)'
      <4>1. win.tail <= Len(arena')
        BY <3>1, <3>2, <3>3, <3>4, <3>5
      <4> QED
        BY <2>3, <3>5, <3>6, <3>7, <4>1 DEF WindowBacked, Backing
    <3> QED
      BY <1>3, <2>1, <2>3, <3>4, <3>5, <3>8 DEF FilesTyped, WindowBacked, InOrder
  <2> QED
    BY <2>2, <2>4, <2>5
<1> QED
  BY <1>4, <1>5, <1>6, <1>7, <1>8, <1>9, <1>10 DEF Commit

-----------------------------------------------------------------------------
(* The inductive invariant of the files, when no event of an earlier run can *)
(* reach the store after the next one began.                                 *)

\* The prefixes are in the .surge file, the stored one being the shortest, and
\* the ledgers of the checkpoints that a run may start from are in the spill file.
StoreOK ==
  /\ InOrder(durable.merged) /\ stored.merged <= durable.merged /\ Backs(stored)
  /\ mode \in {"idle", "file", "arena"} => Backs(durable)
  /\ mode = "arena" => Len(out) = durable.merged

WindowOK == mode \in {"run", "save"} => durable.merged <= win.merged /\ WindowBacked

SaveOK ==
  mode = "save" =>
    durable.merged <= eng.rec.merged /\ eng.rec.merged <= win.merged /\ Backs(eng.rec)

EndOK == mode # "broken" /\ (mode = "done" => Len(out) = NSeg /\ durable.merged = NSeg)

\* An event holds what the next run will start from.
EventOK == owe # NoCkpt => mode = "idle" /\ owe = durable

FilesOK == FilesTyped /\ StoreOK /\ WindowOK /\ SaveOK /\ EndOK /\ EventOK

\* The attempt of a worker met a fault of the window.
Fails(w) == wk[w].pc = "bad" /\ wk[w].err = "io"

\* Without a fault the file ends with the prefix, and what comes next is missing.
\* A fault ends the run as soon as the worker that met it settles.
FrontOK ==
  mode = "run" =>
    /\ ~win.fault => Len(out) = win.merged /\ Gap(win)
    /\ win.fault /\ ~Stopped => \E w \in Workers : Fails(w)

\* Until the first segment is stored one worker does the next segment and
\* nothing else; from then on the stored checkpoint is a prefix.
AtFirst ==
  /\ win.pending = {} /\ durable.merged <= eng.base
  /\ eng.first \notin In("done") => win.merged + 1 = eng.first
  /\ eng.first \in Segs \/ In("done") = Segs

OneWorker ==
  /\ \A w, v \in Workers : wk[w].pc # "off" /\ wk[v].pc # "off" => w = v
  /\ \A w \in Workers : HoldsLease(w) => wk[w].seg = eng.first
  /\ eng.first \in In("done") /\ ~Stopped => \E w \in Workers : wk[w].pc = "first"
  /\ eng.first \in In("ready") /\ ~Stopped => queue.ready[1] = eng.first

OpenOK ==
  mode = "run" =>
    /\ eng.open => DOMAIN stored.ledger = {}
    /\ ~eng.open => AtFirst /\ OneWorker

CellInv == FilesOK /\ FrontOK /\ OpenOK

-----------------------------------------------------------------------------
(* What the workers do to it. *)

\* A worker's step beside the files: its own place changes, and it neither
\* forgets the first segment nor a fault.
Moves(w) ==
  /\ UNCHANGED <<out, arena, stored, durable, owe, mode, win>>
  /\ wk[w].pc # "off" /\ \A v \in Workers \ {w} : wk'[v] = wk[v]
  /\ eng'.open = eng.open /\ eng'.first = eng.first /\ eng'.base = eng.base
  /\ Stopped => Stopped'
  /\ wk[w].pc = "first" => wk'[w].pc = "first" \/ (Stopped' /\ wk'[w].pc = "pop")
  /\ Fails(w) => Stopped' \/ Fails(w)'

\* Every step of a worker but the commit and the first checkpoint is of this kind.
LEMMA WorkerMoves ==
  ASSUME BookBase, NEW w \in Workers, Worker(w) \/ Control(w), ~Commit(w), ~FirstCheckpoint(w)
  PROVE  Moves(w)
<1>1. wk \in Teams /\ eng \in EngType /\ wk[w] \in Attempt
  BY DEF BookBase, Typed, Teams
<1>2. ASSUME NEW a, wk' = [wk EXCEPT ![w] = a], wk[w].pc \notin {"off", "first", "bad"},
             eng' = eng, UNCHANGED <<out, arena, stored, durable, owe, mode, win>>
      PROVE  Moves(w)
  BY <1>1, <1>2 DEF Moves, Stopped, Fails, Teams
<1>3. ASSUME Exit(w) \/ Loop(w)
      PROVE  \E a : wk' = [wk EXCEPT ![w] = a]
  BY <1>3 DEF Exit, Loop
<1>4. ASSUME NEW p, Goto(w, p)
      PROVE  \E a : wk' = [wk EXCEPT ![w] = a]
  <2>1. wk' = [wk EXCEPT ![w] = [wk[w] EXCEPT !.pc = p]]
    BY <1>1, <1>4 DEF Goto, Teams
  <2> QED
    BY <2>1
<1>5. ASSUME NEW e, Bad(w, e)
      PROVE  \E a : wk' = [wk EXCEPT ![w] = a]
  <2>1. wk' = [wk EXCEPT ![w] = [wk[w] EXCEPT !.pc = "bad", !.err = e]]
    BY <1>1, <1>5 DEF Bad, Teams
  <2> QED
    BY <2>1
<1>6. CASE Pop(w)
  <2>1. UNCHANGED <<out, arena, stored, durable, owe, mode, win, eng>> /\ wk[w].pc = "pop"
    BY <1>6 DEF Pop, RunFrame, DiskFrame
  <2>2. CASE Exit(w)
    BY <1>2, <1>3, <2>1, <2>2
  <2>3. CASE wk' = [wk EXCEPT ![w].pc = "try", ![w].seg = Head(queue.ready)]
    <3>1. wk' = [wk EXCEPT ![w] = [wk[w] EXCEPT !.pc = "try", !.seg = Head(queue.ready)]]
      BY <1>1, <2>3 DEF Teams
    <3> QED
      BY <1>2, <2>1, <3>1
  <2> QED
    BY <1>6, <2>2, <2>3 DEF Pop
<1>7. CASE GiveBack(w)
  <2>1. /\ UNCHANGED <<out, arena, stored, durable, owe, mode, win, eng>> /\ wk[w].pc \in {"try", "wait"}
        /\ Exit(w) \/ Loop(w)
    BY <1>7 DEF GiveBack, RunFrame, DiskFrame
  <2> QED
    BY <1>2, <1>3, <2>1
<1>8. CASE Backoff(w)
  <2>1. /\ UNCHANGED <<out, arena, stored, durable, owe, mode, win, eng>> /\ wk[w].pc = "wait"
        /\ Goto(w, "try")
    BY <1>8 DEF Backoff, RunFrame, DiskFrame
  <2> QED
    BY <1>2, <1>4, <2>1
<1>9. CASE Try(w) \/ RefreshWaited(w)
  <2>1. /\ UNCHANGED <<out, arena, stored, durable, owe, mode, win, eng>> /\ wk[w].pc \in {"try", "ref"}
        /\ Goto(w, "net") \/ Goto(w, "ref")
    BY <1>9 DEF Try, RefreshWaited, Request, RunFrame, DiskFrame
  <2> QED
    BY <1>2, <1>4, <2>1
<1>10. CASE Fetched(w)
  <2>1. /\ UNCHANGED <<out, arena, stored, durable, owe, mode, win, eng>> /\ wk[w].pc = "net"
        /\ wk' = [wk EXCEPT ![w].pc = "gate", ![w].cred = 1]
    BY <1>10 DEF Fetched, RunFrame, DiskFrame
  <2>2. wk' = [wk EXCEPT ![w] = [wk[w] EXCEPT !.pc = "gate", !.cred = 1]]
    BY <1>1, <2>1 DEF Teams
  <2> QED
    BY <1>2, <2>1, <2>2
<1>11. CASE NotFetched(w)
  <2>1. /\ UNCHANGED <<out, arena, stored, durable, owe, mode, win, eng>> /\ wk[w].pc = "net"
        /\ \E e \in Errs : Bad(w, e)
    BY <1>11 DEF NotFetched, RunFrame, DiskFrame, Errs
  <2> QED
    BY <1>2, <1>5, <2>1
<1>12. CASE Gate(w)
  <2>1. /\ UNCHANGED <<out, arena, stored, durable, owe, mode, win, eng>> /\ wk[w].pc = "gate"
        /\ Bad(w, "cancel") \/ Goto(w, "commit")
    BY <1>12 DEF Gate, RunFrame, DiskFrame
  <2> QED
    BY <1>2, <1>4, <1>5, <2>1
<1>13. CASE FirstFails(w)
  <2>1. /\ UNCHANGED <<out, arena, stored, durable, owe, mode, win>> /\ wk[w].pc = "first"
        /\ Loop(w) /\ Fatal
    BY <1>13 DEF FirstFails, RunFrame, DiskFrame
  <2>2. /\ eng'.fatal /\ eng'.open = eng.open /\ eng'.first = eng.first /\ eng'.base = eng.base
    BY <1>1, <2>1, EngineSteps
  <2>3. wk'[w].pc = "pop" /\ \A v \in Workers \ {w} : wk'[v] = wk[v]
    <3>1. wk[w].drain \in BOOLEAN
      BY <1>1, AttemptIs
    <3>2. [Parked EXCEPT !.drain = wk[w].drain].pc = "pop"
      BY <3>1, IdleIs
    <3> QED
      BY <1>1, <2>1, <3>2 DEF Loop, Teams
  <2> QED
    BY <2>1, <2>2, <2>3 DEF Moves, Stopped, Fails
<1>14. CASE Settle(w)
  <2>1. /\ UNCHANGED <<out, arena, stored, durable, owe, mode, win>> /\ wk[w].pc = "bad"
    BY <1>14 DEF Settle, RunFrame, DiskFrame
  <2>2. \A v \in Workers \ {w} : wk'[v] = wk[v]
    <3>1. Exit(w) \/ Loop(w)
          \/ wk' = [wk EXCEPT ![w] = [Off EXCEPT !.pc = "wait", !.seg = wk[w].seg, !.drain = wk[w].drain]]
      BY <1>14 DEF Settle, Lease
    <3> QED
      BY <1>1, <3>1 DEF Exit, Loop, Teams
  <2>3. CASE Fatal
    <3>1. /\ eng'.fatal /\ eng'.open = eng.open /\ eng'.first = eng.first /\ eng'.base = eng.base
      BY <1>1, <2>3, EngineSteps
    <3> QED
      BY <2>1, <2>2, <3>1 DEF Moves, Stopped
  <2>4. CASE eng' = eng
    <3>1. Fails(w) => Fatal \/ Stopped
      BY <1>14 DEF Settle, Fails
    <3> QED
      BY <2>1, <2>2, <2>3, <2>4, <3>1 DEF Moves, Stopped
  <2> QED
    BY <1>14, <2>3, <2>4 DEF Settle
<1>15. CASE Control(w)
  <2>1. /\ UNCHANGED <<out, arena, stored, durable, owe, mode, win, eng>> /\ wk[w].pc # "off"
    BY <1>15 DEF Control, Kill, Stall, DrainWorker, RunFrame, DiskFrame, Interruptible, Live
  <2>2. wk'[w].pc = wk[w].pc /\ wk'[w].err = wk[w].err /\ \A v \in Workers \ {w} : wk'[v] = wk[v]
    BY <1>1, <1>15 DEF Control, Kill, Stall, DrainWorker, Teams, Attempt, Record
  <2> QED
    BY <2>1, <2>2 DEF Moves, Stopped, Fails
<1> QED
  BY <1>6, <1>7, <1>8, <1>9, <1>10, <1>11, <1>12, <1>13, <1>14, <1>15 DEF Worker

\* Any other step inside a run, whose files stay backed, leaves the checkpoints true.
LEMMA RunFiles ==
  ASSUME BookInv, BookInv', FilesOK, mode = "run", mode' = "run", owe' = owe,
         FilesTyped', WindowBacked', win.merged <= win'.merged,
         Shorter \/ DOMAIN stored'.ledger = {},
         \/ stored' = stored /\ durable' = durable
         \/ stored' = MergedPrefix /\ durable' = MergedPrefix /\ win' = win
  PROVE  FilesOK'
<1>1. /\ stored \in Checkpoints /\ durable \in Checkpoints /\ win \in WinType
      /\ stored' \in Checkpoints /\ durable' \in Checkpoints /\ win' \in WinType
  BY DEF BookInv, CkptsOK, Typed
<1>2. /\ durable.merged <= win.merged /\ stored.merged <= durable.merged
      /\ stored.merged \in Nat /\ durable.merged \in Nat /\ win.merged \in Nat /\ win'.merged \in Nat
  BY <1>1 DEF FilesOK, WindowOK, StoreOK, Checkpoints, CkptType, WinType
<1>3. stored'.merged <= durable'.merged /\ durable'.merged <= win'.merged /\ durable'.merged \in Nat
  BY <1>1, <1>2, MadeCheckpoints
<1>4. InOrder(durable.merged)'
  BY <1>2, <1>3 DEF WindowBacked, InOrder, FilesTyped
<1>5. Backs(stored)'
  <2>1. CASE DOMAIN stored'.ledger = {}
    BY <2>1 DEF Backs
  <2>2. CASE Shorter /\ stored' = stored
    BY <1>1, <2>2, ShorterBacks DEF FilesOK, StoreOK, Backs
  <2>3. CASE stored' = MergedPrefix
    BY <1>1, <2>1, <2>3, MadeCheckpoints
  <2> QED
    BY <2>1, <2>2, <2>3
<1>6. StoreOK'
  BY <1>3, <1>4, <1>5 DEF StoreOK
<1>7. WindowOK' /\ SaveOK' /\ EndOK'
  BY <1>3 DEF WindowOK, SaveOK, EndOK
<1>8. EventOK'
  BY DEF FilesOK, EventOK
<1> QED
  BY <1>6, <1>7, <1>8 DEF FilesOK

\* A step beside the files keeps the frontier, if the worker that met a fault remains.
LEMMA FrontKeeps ==
  ASSUME FrontOK, mode = "run", UNCHANGED <<out, win>>, Stopped => Stopped',
         \A w \in Workers : Fails(w) => Stopped' \/ Fails(w)'
  PROVE  FrontOK'
<1>1. (win.fault <=> win'.fault) /\ (Gap(win') <=> Gap(win)) /\ win'.merged = win.merged /\ Len(out') = Len(out)
  BY DEF Gap
<1>2. win.fault /\ ~Stopped' => \E w \in Workers : Fails(w)'
  BY DEF FrontOK
<1> QED
  BY <1>1, <1>2 DEF FrontOK

\* A commit keeps it: a fault either stays with its worker or ends the run.
LEMMA CommitFront ==
  ASSUME BookBase, FilesOK, FrontOK, NEW w \in Workers, Commit(w)
  PROVE  FrontOK'
<1>1. /\ mode = "run" /\ wk[w].pc = "commit" /\ wk \in Teams /\ wk[w].seg \in Segs
      /\ wk[w].seg \notin Held(win) /\ win \in WinType /\ Sound(win) /\ eng \in EngType
  <2>1. wk[w].pc = "commit"
    BY DEF Commit, Refused, Direct, DirectFails, DrainFails, Buffered, SpillIt, SpillFails, Overflow
  <2> QED
    BY <2>1, WorksInRun, PcsAre DEF BookBase, Typed, HoldsLease
<1>2. FilesTyped /\ InOrder(win.merged) /\ Backing(win) /\ win.merged \in Nat
  BY <1>1 DEF FilesOK, WindowOK, WindowBacked, WinType
<1> DEFINE s == wk[w].seg
           d == [win EXCEPT !.pending = @ \cup {s}]
<1>3. /\ d \in WinType /\ Sound(d) /\ d.merged = win.merged /\ d.fault = win.fault
      /\ d.entries = win.entries /\ d.tail = win.tail
  BY <1>1, BufferSound
<1>4. InOrder(d.merged) /\ Backing(d)
  BY <1>2, <1>3 DEF Backing
<1> HIDE DEF d
<1>5. ASSUME win'.fault, Bad(w, "io")
      PROVE  FrontOK'
  <2>1. Fails(w)'
    <3>1. "io" \in Errs
      BY DEF Errs
    <3> QED
      BY <1>1, <1>5, <3>1, BadIs DEF Fails, Lease
  <2> QED
    BY <1>5, <2>1 DEF FrontOK
<1>6. CASE Refused(w)
  BY <1>5, <1>6 DEF Refused
<1>7. CASE DirectFails(w)
  <2>1. win' = [win EXCEPT !.fault = TRUE] /\ Bad(w, "io")
    BY <1>7 DEF DirectFails
  <2>2. win'.fault
    BY <1>1, <2>1 DEF WinType
  <2> QED
    BY <1>5, <2>1, <2>2
<1>8. CASE SpillFails(w)
  <2>1. win' = [win EXCEPT !.fault = TRUE, !.open = @ \/ CanSpill] /\ Bad(w, "io")
    BY <1>8 DEF SpillFails
  <2>2. win'.fault
    BY <1>1, <2>1 DEF WinType
  <2> QED
    BY <1>5, <2>1, <2>2
<1>9. CASE Direct(w)
  <2>1. Drain(d, Contiguous(d)) /\ ~win.fault
    BY <1>9 DEF Direct, Lease, d
  <2>2. Len(out') = win'.merged /\ Gap(win') /\ win'.fault = d.fault
    BY <1>2, <1>3, <1>4, <2>1, DrainFiles
  <2> QED
    BY <1>3, <2>1, <2>2 DEF FrontOK, Gap
<1>10. CASE DrainFails(w)
  <2>1. DrainFault(d, Contiguous(d)) /\ Fatal
    BY <1>10 DEF DrainFails, Lease, d
  <2>2. win'.fault
    BY <1>2, <1>3, <1>4, <2>1, DrainFaultFiles
  <2>3. Stopped'
    BY <1>1, <2>1, EngineSteps DEF Stopped
  <2> QED
    BY <2>2, <2>3 DEF FrontOK
<1>11. CASE Buffered(w)
  <2>1. win' = d /\ ~win.fault /\ out' = out /\ s # win.merged + 1
    BY <1>11 DEF Buffered, Lease, d, NoFileChange, Frontier
  <2>2. d.pending = win.pending \cup {s}
    BY <1>1, BufferSound DEF d
  <2>3. Len(out') = win'.merged /\ ~win'.fault
    BY <1>1, <1>3, <2>1 DEF FrontOK
  <2>4. Gap(win')
    BY <1>1, <1>3, <2>1, <2>2 DEF FrontOK, Gap
  <2> QED
    BY <2>3, <2>4 DEF FrontOK, Gap
<1>12. CASE SpillIt(w)
  <2>1. Spill(<<s>>) /\ ~win.fault /\ out' = out /\ s # win.merged + 1
    BY <1>12 DEF SpillIt, Overflow, Lease, Frontier
  <2>2. /\ win'.merged = win.merged /\ win'.fault = win.fault
        /\ win'.pending = win.pending \ {s} /\ DOMAIN win'.entries = DOMAIN win.entries \cup {s}
    BY <1>1, <2>1, RangeOfOne, SpillIs
  <2>3. Len(out') = win'.merged /\ ~win'.fault
    BY <1>1, <2>1, <2>2 DEF FrontOK
  <2>4. Gap(win')
    BY <1>1, <2>1, <2>2 DEF FrontOK, Gap
  <2> QED
    BY <2>3, <2>4 DEF FrontOK, Gap
<1> QED
  BY <1>6, <1>7, <1>8, <1>9, <1>10, <1>11, <1>12 DEF Commit

\* What holds of the segments before the first checkpoint.
LEMMA FirstIs ==
  ASSUME BookInv, OpenOK, mode = "run", ~eng.open
  PROVE  /\ queue.state \in [Segs -> States] /\ wk \in Teams /\ queue \in QueueType
         /\ In("done") = Held(win) /\ In("done") \in SUBSET Segs
         /\ \A s \in Segs : s \in In("ready") \/ s \in In("leased") \/ s \in In("done")
         /\ \A s \in In("leased") : ~Stopped => \E v \in Workers : HoldsLease(v) /\ wk[v].seg = s
         /\ ~Stopped => Lists(queue.ready, In("ready"))
         /\ queue.left = 0 => In("done") = Segs
         /\ ~Stopped /\ queue.closed => queue.left = 0
<1>1. queue.state \in [Segs -> States] /\ wk \in Teams /\ queue \in QueueType
  BY DEF BookInv, Typed, QueueType
<1>2. In("done") = Held(win) /\ queue.left = Cardinality(Segs \ In("done"))
  BY DEF BookInv, QueueOK
<1>3. \A s \in Segs : s \in In("ready") \/ s \in In("leased") \/ s \in In("done")
  BY <1>1 DEF In, States
<1>4. In("done") \in SUBSET Segs
  BY DEF In
<1>5. queue.left = 0 => In("done") = Segs
  <2>1. IsFiniteSet(Segs \ In("done"))
    BY SegsFinite, FS_Difference
  <2> QED
    BY <1>2, <1>4, <2>1, FS_EmptySet
<1> QED
  BY <1>1, <1>2, <1>3, <1>4, <1>5 DEF BookInv, ListOK

\* Until the first checkpoint, the worker that takes a segment takes the first one.
LEMMA TakesFirst ==
  ASSUME BookInv, OpenOK, mode = "run", ~eng.open, NEW w \in Workers, wk[w].pc # "off",
         wk[w].pc # "first", ~HoldsLease(w), ~Stopped, queue.ready # << >>
  PROVE  Head(queue.ready) = eng.first /\ eng.first \in In("ready")
<1>1. AtFirst /\ OneWorker
  BY DEF OpenOK
<1>2. queue.ready \in Seq(Segs) /\ Lists(queue.ready, In("ready"))
  BY FirstIs DEF QueueType
<1>3. Head(queue.ready) \in In("ready") /\ Head(queue.ready) = queue.ready[1]
  BY <1>2, PopLists
<1>4. eng.first \in Segs
  BY <1>1, <1>3 DEF AtFirst, In
<1>5. eng.first \notin In("done")
  BY <1>1 DEF OneWorker
<1>6. eng.first \notin In("leased")
  <2> SUFFICES ASSUME eng.first \in In("leased") PROVE FALSE
    OBVIOUS
  <2>1. PICK v \in Workers : HoldsLease(v) /\ wk[v].seg = eng.first
    BY FirstIs
  <2>2. wk[v].pc # "off"
    BY <2>1, PcsAre DEF HoldsLease
  <2> QED
    BY <1>1, <2>1, <2>2 DEF OneWorker
<1>7. eng.first \in In("ready")
  BY <1>4, <1>5, <1>6, FirstIs
<1> QED
  BY <1>1, <1>3, <1>7 DEF OneWorker

\* A step of the one worker, with no segment accepted, leaves it that way.
LEMMA OneKeeps ==
  ASSUME BookInv, BookInv', OpenOK, mode = "run", mode' = "run", ~eng.open,
         NEW w \in Workers, Effect(w), wk[w].pc # "off",
         \A v \in Workers \ {w} : wk'[v] = wk[v],
         eng'.first = eng.first, eng'.base = eng.base, Stopped => Stopped',
         wk[w].pc = "first" => wk'[w].pc = "first" \/ (Stopped' /\ wk'[w].pc = "pop"),
         durable' = durable, win'.merged = win.merged, win'.pending = win.pending,
         Held(win') = Held(win)
  PROVE  AtFirst' /\ OneWorker'
<1>1. AtFirst /\ OneWorker
  BY DEF OpenOK
<1>2. BookBase
  BY DEF BookInv, BookBase
<1>3. In("done")' = In("done")
  <2>1. In("done")' = Held(win')
    BY DEF BookInv, QueueOK
  <2> QED
    BY <2>1, FirstIs
<1>4. AtFirst'
  BY <1>1, <1>3 DEF AtFirst
<1>5. Keeps(w) \/ Takes(w) \/ Returns(w)
  <2>1. HoldsLease(w) => wk[w].seg \notin Held(win)
    BY <1>2, WorksInRun
  <2>2. ~Accepts(w)
    BY <2>1 DEF Accepts
  <2> QED
    BY <2>2 DEF Effect
<1>6. ASSUME Takes(w)
      PROVE  wk[w].pc # "first" /\ ~Stopped /\ Head(queue.ready) = eng.first /\ eng.first \in In("ready")
  <2>1. ~HoldsLease(w) /\ HoldsLease(w)' /\ ~Stopped /\ queue.ready # << >>
    BY <1>6 DEF Takes
  <2>2. wk[w].pc # "first"
    BY <2>1, PcsAre DEF HoldsLease
  <2> QED
    BY <2>1, <2>2, TakesFirst
<1>7. \A v \in Workers : wk'[v].pc # "off" => v = w
  BY <1>1 DEF OneWorker
<1>8. \A v \in Workers : HoldsLease(v)' => wk'[v].seg = eng'.first
  <2> SUFFICES ASSUME HoldsLease(w)' PROVE wk'[w].seg = eng.first
    BY <1>7, PcsAre DEF HoldsLease
  <2>1. CASE Keeps(w)
    BY <1>1, <2>1 DEF Keeps, OneWorker
  <2>2. CASE Takes(w)
    BY <1>6, <2>2 DEF Takes
  <2>3. CASE Returns(w)
    BY <2>3 DEF Returns
  <2> QED
    BY <1>5, <2>1, <2>2, <2>3
<1>9. eng'.first \in In("done")' /\ ~Stopped' => \E v \in Workers : wk'[v].pc = "first"
  <2> SUFFICES ASSUME eng.first \in In("done"), ~Stopped' PROVE wk'[w].pc = "first"
    BY <1>3
  <2>1. PICK v \in Workers : wk[v].pc = "first"
    BY <1>1 DEF OneWorker
  <2>2. v = w
    BY <1>1, <2>1 DEF OneWorker
  <2> QED
    BY <2>1, <2>2
<1>10. eng'.first \in In("ready")' /\ ~Stopped' => queue'.ready[1] = eng'.first
  <2> SUFFICES ASSUME eng.first \in In("ready")', ~Stopped' PROVE queue'.ready[1] = eng.first
    OBVIOUS
  <2>1. CASE Keeps(w)
    <3>1. queue' = queue
      BY <2>1 DEF Keeps
    <3>2. eng.first \in In("ready")
      BY <3>1 DEF In
    <3> QED
      BY <1>1, <3>1, <3>2 DEF OneWorker
  <2>2. CASE Takes(w)
    <3>1. /\ Head(queue.ready) = eng.first /\ eng.first \in Segs
          /\ queue'.state = [queue.state EXCEPT ![eng.first] = "leased"]
      BY <1>6, <2>2 DEF Takes, In
    <3>2. queue'.state[eng.first] = "leased"
      BY <3>1, FirstIs
    <3> QED
      BY <3>2 DEF In
  <2>3. CASE Returns(w)
    <3>1. /\ queue' = Requeue(queue, eng.first) /\ HoldsLease(w) /\ wk[w].seg = eng.first /\ ~Stopped
      BY <1>1, <2>3 DEF Returns, OneWorker
    <3>2. eng.first \in Segs /\ queue.state[eng.first] = "leased" /\ eng.first \notin Held(win)
      BY <1>2, <3>1, WorksInRun
    <3>3. ~queue.closed
      BY <3>1, <3>2, FirstIs
    <3>4. queue'.ready = <<eng.first>> \o queue.ready
      BY <3>1, <3>2, <3>3, FirstIs, RequeueIs
    <3>5. queue.ready \in Seq(Segs) /\ Lists(queue.ready, In("ready")) /\ eng.first \notin In("ready")
      BY <3>1, <3>2, FirstIs DEF QueueType, In
    <3> QED
      BY <3>2, <3>4, <3>5, PushLists
  <2> QED
    BY <1>5, <2>1, <2>2, <2>3
<1>11. OneWorker'
  BY <1>7, <1>8, <1>9, <1>10 DEF OneWorker
<1> QED
  BY <1>4, <1>11

\* Every step of a worker but the commit and the first checkpoint keeps it.
LEMMA MovesOpen ==
  ASSUME BookInv, BookInv', OpenOK, NEW w \in Workers, Effect(w), Moves(w)
  PROVE  OpenOK'
<1>1. mode = "run" /\ mode' = "run"
  BY DEF Effect
<1>2. CASE eng.open
  BY <1>1, <1>2 DEF Moves, OpenOK
<1>3. CASE ~eng.open
  <2>1. AtFirst' /\ OneWorker'
    <3>1. /\ wk[w].pc # "off" /\ \A v \in Workers \ {w} : wk'[v] = wk[v]
          /\ eng'.first = eng.first /\ eng'.base = eng.base
          /\ Stopped => Stopped'
          /\ win' = win /\ durable' = durable
      BY DEF Moves
    <3>2. wk[w].pc = "first" => wk'[w].pc = "first" \/ (Stopped' /\ wk'[w].pc = "pop")
      BY DEF Moves
    <3> QED
      BY <1>1, <1>3, <3>1, <3>2, OneKeeps DEF Moves
  <2> QED
    BY <1>3, <2>1 DEF OpenOK, Moves
<1> QED
  BY <1>2, <1>3

\* The first segment merged at the frontier leaves nothing pending.
LEMMA FirstMerges ==
  ASSUME win \in WinType, NEW d \in WinType, NEW s \in Segs, s = d.merged + 1, d.pending = {s},
         Drain(d, Contiguous(d)) \/ DrainFault(d, Contiguous(d))
  PROVE  win'.pending = {}
<1>1. /\ Contiguous(d) \in Nat /\ d.merged + Contiguous(d) <= NSeg
      /\ d.merged + Contiguous(d) + 1 \notin d.pending
  BY ContiguousRun
<1>2. d.merged \in Nat
  BY DEF WinType
<1>3. ASSUME NEW k \in Nat, k >= 1, Merges(d, k)
      PROVE  win'.pending = {}
  <2>1. win'.pending = d.pending \ (d.merged + 1 .. d.merged + k)
    BY <1>3 DEF Merges
  <2>2. s \in d.merged + 1 .. d.merged + k
    BY <1>2, <1>3
  <2> QED
    BY <2>1, <2>2
<1>4. Contiguous(d) >= 1
  BY <1>1, <1>2
<1>5. CASE Drain(d, Contiguous(d))
  <2>1. Merges(d, Contiguous(d))
    BY <1>1, <1>5, DrainIs
  <2> QED
    BY <1>1, <1>3, <1>4, <2>1
<1>6. CASE DrainFault(d, Contiguous(d))
  <2>1. PICK k \in 1..Contiguous(d) : Merges(d, k)
    BY <1>1, <1>6, DrainFaultIs
  <2> QED
    BY <1>1, <1>3, <2>1
<1> QED
  BY <1>5, <1>6

\* Before the first checkpoint the committing worker is at the frontier.
LEMMA CommitsFirst ==
  ASSUME BookInv, OpenOK, NEW w \in Workers, wk[w].pc = "commit", ~eng.open
  PROVE  /\ mode = "run" /\ wk[w].seg = eng.first /\ eng.first \in Segs
         /\ win.merged + 1 = eng.first /\ win.pending = {} /\ Frontier(w)
<1>1. HoldsLease(w) /\ wk[w].pc # "off"
  BY PcsAre DEF HoldsLease
<1>2. /\ mode = "run" /\ wk[w].seg \in Segs /\ wk[w].seg \notin Held(win)
  <2>1. BookBase
    BY DEF BookInv, BookBase
  <2> QED
    BY <1>1, <2>1, WorksInRun
<1>3. AtFirst /\ wk[w].seg = eng.first
  BY <1>1, <1>2 DEF OpenOK, OneWorker
<1>4. eng.first \notin In("done")
  BY <1>2, <1>3, FirstIs
<1> QED
  BY <1>2, <1>3, <1>4 DEF AtFirst, Frontier, Lease

\* A commit keeps the order of the first checkpoint.
LEMMA CommitOpen ==
  ASSUME BookInv, BookInv', OpenOK, NEW w \in Workers, Commit(w), Effect(w)
  PROVE  OpenOK'
<1>1. /\ mode = "run" /\ mode' = "run" /\ win' \in WinType /\ Sound(win')
      /\ UNCHANGED <<stored, durable>> /\ wk[w].pc = "commit"
      /\ wk \in Teams /\ eng \in EngType /\ win \in WinType /\ Sound(win) /\ queue \in QueueType
  <2>1. BookBase
    BY DEF BookInv, BookBase
  <2> QED
    BY <2>1, CommitWindow DEF BookBase, Typed, WinOK
<1>2. eng'.open = eng.open /\ eng'.first = eng.first /\ eng'.base = eng.base /\ (Stopped => Stopped')
  <2>1. UNCHANGED eng \/ Fatal
    BY CommitWindow DEF BookInv, BookBase
  <2>2. CASE Fatal
    <3>1. eng'.open = eng.open /\ eng'.first = eng.first /\ eng'.base = eng.base /\ eng'.fatal
      BY <1>1, <2>2, EngineSteps
    <3> QED
      BY <3>1 DEF Stopped
  <2> QED
    BY <2>1, <2>2 DEF Stopped
<1>3. CASE eng.open
  BY <1>1, <1>2, <1>3 DEF OpenOK
<1>4. CASE ~eng.open
  <2>1. /\ wk[w].seg = eng.first /\ eng.first \in Segs
        /\ win.merged + 1 = eng.first /\ win.pending = {} /\ Frontier(w)
    BY <1>1, <1>4, CommitsFirst
  <2>2. AtFirst /\ OneWorker
    BY <1>1, <1>4 DEF OpenOK
  <2> DEFINE d == [win EXCEPT !.pending = @ \cup {eng.first}]
  <2>3. /\ d \in WinType /\ d.merged = win.merged /\ d.pending = {eng.first}
    <3>1. eng.first \notin Held(win)
      <4>1. HoldsLease(w)
        BY <1>1, PcsAre DEF HoldsLease
      <4> QED
        BY <1>1, <2>1, <4>1, WorksInRun DEF BookInv, BookBase
    <3> QED
      BY <1>1, <2>1, <3>1, BufferSound
  <2> HIDE DEF d
  <2>4. CASE Bad(w, "io")
    <3>1. \A v \in Workers \ {w} : wk'[v] = wk[v]
      <4>1. "io" \in Errs
        BY DEF Errs
      <4> QED
        BY <1>1, <2>1, <2>4, <4>1, BadIs DEF Lease
    <3>2. Refused(w) \/ DirectFails(w) \/ SpillFails(w)
      <4>1. wk'[w].pc = "bad"
        BY <1>1, <2>4 DEF Bad, Teams, Attempt, Record
      <4>2. Off.pc # "bad" /\ Parked.pc # "bad"
        BY IdleIs
      <4>3. ~(queue' = Finish(queue, wk[w].seg)) \/ ~Settled(w)
        <5>1. Settled(w) => wk'[w].pc = "first"
          BY <1>1, <1>4, <2>1 DEF Settled, Lease, Teams, Attempt, Record
        <5> QED
          BY <4>1, <5>1
      <4>4. ~Exit(w)
        BY <1>1, <4>1, <4>2 DEF Exit, Teams
      <4> QED
        BY <4>3, <4>4, CommitWindow DEF BookInv, BookBase
    <3>3. win'.merged = win.merged /\ win'.pending = win.pending /\ Held(win') = Held(win)
      <4>1. CASE Refused(w)
        BY <4>1 DEF Refused
      <4>2. CASE DirectFails(w)
        <5>1. win' = [win EXCEPT !.fault = TRUE]
          BY <4>2 DEF DirectFails
        <5> QED
          BY <1>1, <5>1 DEF WinType, Held
      <4>3. CASE SpillFails(w)
        BY <2>1, <4>3 DEF SpillFails, Overflow
      <4> QED
        BY <3>2, <4>1, <4>2, <4>3
    <3>4. AtFirst' /\ OneWorker'
      BY <1>1, <1>2, <1>4, <3>1, <3>3, OneKeeps
    <3> QED
      BY <1>1, <1>2, <1>4, <3>4 DEF OpenOK
  <2>5. CASE Direct(w) \/ Buffered(w) \/ SpillIt(w)
    <3>1. Direct(w)
      BY <2>1, <2>5 DEF Buffered, SpillIt, Overflow
    <3>2. Drain(d, Contiguous(d)) /\ Settled(w) /\ queue' = Finish(queue, eng.first)
      BY <2>1, <3>1 DEF Direct, Lease, d
    <3>3. win'.pending = {}
      BY <1>1, <2>1, <2>3, <3>2, FirstMerges
    <3>4. eng.first \in In("done")'
      <4>1. queue.state[eng.first] = "leased"
        <5>1. HoldsLease(w)
          BY <1>1, PcsAre DEF HoldsLease
        <5> QED
          BY <1>1, <2>1, <5>1, WorksInRun DEF BookInv, BookBase
      <4>2. queue'.state = [queue.state EXCEPT ![eng.first] = "done"]
        BY <1>1, <2>1, <3>2, <4>1, FinishIs
      <4>3. queue'.state[eng.first] = "done"
        BY <1>1, <2>1, <4>2 DEF QueueType
      <4> QED
        BY <2>1, <4>3 DEF In
    <3>5. wk' = [wk EXCEPT ![w] = [wk[w] EXCEPT !.pc = "first", !.cred = 0, !.stop = "none"]]
      BY <1>1, <1>4, <2>1, <3>2 DEF Settled, Lease, Teams
    <3>6. wk'[w].pc = "first" /\ \A v \in Workers \ {w} : wk'[v] = wk[v]
      BY <1>1, <3>5 DEF Teams, Attempt, Record
    <3>7. \A v \in Workers : wk'[v].pc # "off" => v = w
      BY <1>1, <2>2, <3>6 DEF OneWorker
    <3>8. AtFirst'
      BY <1>1, <1>2, <2>1, <2>2, <3>3, <3>4 DEF AtFirst
    <3>9. eng.first \notin In("ready")'
      BY <3>4 DEF In
    <3>10. OneWorker'
      <4>1. \A v \in Workers : ~HoldsLease(v)'
        BY <3>6, <3>7, PcsAre DEF HoldsLease
      <4> QED
        BY <1>2, <3>6, <3>7, <3>9, <4>1 DEF OneWorker
    <3> QED
      BY <1>1, <1>2, <1>4, <3>8, <3>10 DEF OpenOK
  <2>6. CASE DrainFails(w)
    <3>1. DrainFault(d, Contiguous(d)) /\ Exit(w) /\ Fatal /\ queue' = Closed(Finish(queue, eng.first))
      BY <2>1, <2>6 DEF DrainFails, Lease, d
    <3>2. win'.pending = {}
      BY <1>1, <2>1, <2>3, <3>1, FirstMerges
    <3>3. Stopped'
      BY <1>1, <3>1, EngineSteps DEF Stopped
    <3>4. eng.first \in In("done")'
      <4>1. queue.state[eng.first] = "leased"
        <5>1. HoldsLease(w)
          BY <1>1, PcsAre DEF HoldsLease
        <5> QED
          BY <1>1, <2>1, <5>1, WorksInRun DEF BookInv, BookBase
      <4>2. queue'.state = [queue.state EXCEPT ![eng.first] = "done"]
        BY <1>1, <2>1, <3>1, <4>1, FinishIs, ClosedIs
      <4>3. queue'.state[eng.first] = "done"
        BY <1>1, <2>1, <4>2 DEF QueueType
      <4> QED
        BY <2>1, <4>3 DEF In
    <3>5. wk'[w].pc = "off" /\ \A v \in Workers \ {w} : wk'[v] = wk[v]
      BY <1>1, <3>1, IdleIs DEF Exit, Teams
    <3>6. \A v \in Workers : wk'[v].pc = "off"
      BY <1>1, <2>2, <3>5 DEF OneWorker
    <3>7. AtFirst'
      BY <1>1, <1>2, <2>1, <2>2, <3>2, <3>4 DEF AtFirst
    <3>8. OneWorker'
      BY <3>3, <3>6, PcsAre DEF OneWorker, HoldsLease
    <3> QED
      BY <1>1, <1>2, <1>4, <3>7, <3>8 DEF OpenOK
  <2> QED
    BY <2>4, <2>5, <2>6, CommitWindow DEF BookInv, BookBase
<1> QED
  BY <1>3, <1>4

\* A step beside the files and the window keeps the checkpoints of a run.
LEMMA QuietCells ==
  ASSUME BookInv, BookInv', FilesOK, mode = "run", mode' = "run",
         UNCHANGED <<out, arena, win, owe>>,
         \/ stored' = stored /\ durable' = durable
         \/ stored' = MergedPrefix /\ durable' = MergedPrefix
  PROVE  FilesOK'
<1>1. FilesTyped /\ WindowBacked
  BY DEF FilesOK, WindowOK
<1>2. FilesTyped' /\ WindowBacked' /\ Shorter
  BY <1>1, QuietFiles
<1>3. win.merged <= win'.merged
  BY DEF BookInv, Typed, WinType
<1> QED
  BY <1>2, <1>3, RunFiles

\* The first checkpoint stores a prefix and opens the gate.
LEMMA FirstCells ==
  ASSUME BookInv, BookInv', CellInv, NEW w \in Workers, FirstCheckpoint(w)
  PROVE  CellInv'
<1>1. /\ wk[w].pc = "first" /\ stored' = MergedPrefix /\ durable' = MergedPrefix
      /\ eng' = [eng EXCEPT !.open = TRUE]
      /\ UNCHANGED <<out, arena, there, owe, mode, win, queue, task, url, prog, budget>>
  BY DEF FirstCheckpoint
<1>2. PICK ws \in SUBSET (Workers \ Live) :
        wk' = [Spawned(ws) EXCEPT ![w] = [Parked EXCEPT !.drain = wk[w].drain]]
  BY DEF FirstCheckpoint
<1>3. mode = "run" /\ wk \in Teams /\ eng \in EngType /\ win \in WinType
  BY <1>1, WorksInRun DEF BookInv, BookBase, Typed
<1>4. eng'.open /\ eng'.fatal = eng.fatal /\ eng'.paused = eng.paused
  BY <1>1, <1>3, EngineSteps
<1>5. FilesOK'
  BY <1>1, <1>3, QuietCells DEF CellInv
<1>6. \A v \in Workers : Fails(v) => Fails(v)'
  <2> SUFFICES ASSUME NEW v \in Workers, Fails(v) PROVE Fails(v)'
    OBVIOUS
  <2>1. v # w /\ wk[v].pc # "off"
    BY <1>1 DEF Fails
  <2>2. Spawned(ws)[v] = wk[v]
    BY <1>3, <2>1, SpawnedIs
  <2>3. wk'[v] = wk[v]
    BY <1>2, <1>3, <2>1, <2>2, SpawnedIs DEF Teams
  <2> QED
    BY <2>3 DEF Fails
<1>7. FrontOK'
  BY <1>1, <1>3, <1>4, <1>6, FrontKeeps DEF CellInv, Stopped
<1>8. OpenOK'
  BY <1>1, <1>3, <1>4, MadeCheckpoints DEF OpenOK
<1> QED
  BY <1>5, <1>7, <1>8 DEF CellInv

\* The commit of a segment.
LEMMA CommitCells ==
  ASSUME BookInv, BookInv', CellInv, NEW w \in Workers, Commit(w)
  PROVE  CellInv'
<1>1. BookBase
  BY DEF BookInv, BookBase
<1>2. /\ mode = "run" /\ mode' = "run" /\ wk[w].pc = "commit"
      /\ UNCHANGED <<stored, durable, owe>>
  BY <1>1, CommitWindow
<1>3. FilesTyped /\ WindowBacked
  BY <1>2 DEF CellInv, FilesOK, WindowOK
<1>4. /\ FilesTyped' /\ WindowBacked' /\ win.merged <= win'.merged
      /\ Shorter \/ ~Frontier(w)
  BY <1>1, <1>3, CommitFiles
<1>5. Shorter \/ DOMAIN stored'.ledger = {}
  <2>1. ~eng.open => Frontier(w)
    BY <1>2, CommitsFirst DEF CellInv
  <2>2. eng.open => DOMAIN stored.ledger = {}
    BY <1>2 DEF CellInv, OpenOK
  <2> QED
    BY <1>2, <1>4, <2>1, <2>2
<1>6. FilesOK'
  BY <1>2, <1>4, <1>5, RunFiles DEF CellInv
<1>7. FrontOK'
  BY <1>1, CommitFront DEF CellInv
<1>8. OpenOK'
  BY <1>1, CommitEffect, CommitOpen DEF CellInv
<1> QED
  BY <1>6, <1>7, <1>8 DEF CellInv

\* Every step of a worker, and what is done to it from outside.
LEMMA WorkCells ==
  ASSUME BookInv, BookInv', CellInv, NEW w \in Workers, Worker(w) \/ Control(w)
  PROVE  CellInv'
<1>1. BookBase
  BY DEF BookInv, BookBase
<1>2. Effect(w)
  BY <1>1, WorkerEffect
<1>3. CASE Moves(w)
  <2>1. mode = "run" /\ mode' = "run"
    BY <1>2 DEF Effect
  <2>2. FilesOK'
    BY <1>3, <2>1, QuietCells DEF CellInv, Moves
  <2>3. \A v \in Workers : Fails(v) => Stopped' \/ Fails(v)'
    BY <1>3 DEF Moves, Fails
  <2>4. FrontOK'
    BY <1>3, <2>1, <2>3, FrontKeeps DEF CellInv, Moves
  <2>5. OpenOK'
    BY <1>2, <1>3, MovesOpen DEF CellInv
  <2> QED
    BY <2>2, <2>4, <2>5 DEF CellInv
<1> QED
  BY <1>1, <1>3, WorkerMoves, FirstCells, CommitCells

\* New workers, a pause, and the refresh of the manifest.
LEMMA BesideCells ==
  ASSUME BookInv, BookInv', CellInv, Spawn \/ Pause \/ Expire \/ Refresh \/ (CoolDown /\ mode = "run")
  PROVE  CellInv'
<1>1. UNCHANGED <<out, arena, stored, durable, owe, mode, win>>
  BY DEF Spawn, Pause, Expire, Refresh, CoolDown, RunFrame, DiskFrame
<1>2. mode = "run" /\ mode' = "run"
  BY <1>1 DEF Spawn, Pause, Expire, Refresh, BookInv, PhaseOK
<1>3. wk \in Teams /\ eng \in EngType /\ queue \in QueueType
  BY DEF BookInv, Typed
<1>4. /\ eng'.open = eng.open /\ eng'.first = eng.first /\ eng'.base = eng.base
      /\ Stopped => Stopped'
      /\ UNCHANGED <<queue, eng>> \/ (Stopped' /\ queue'.state = queue.state)
  <2>1. CASE UNCHANGED <<queue, eng>>
    BY <2>1 DEF Stopped
  <2>2. CASE Pause
    <3>1. eng' = [eng EXCEPT !.paused = TRUE] /\ queue' = queue
      BY <2>2 DEF Pause
    <3>2. /\ eng'.open = eng.open /\ eng'.first = eng.first /\ eng'.base = eng.base /\ eng'.paused
      BY <1>3, <3>1, EngineSteps
    <3> QED
      BY <3>1, <3>2 DEF Stopped
  <2>3. CASE Fatal /\ queue' = Closed(queue)
    <3>1. /\ eng'.open = eng.open /\ eng'.first = eng.first /\ eng'.base = eng.base /\ eng'.fatal
      BY <1>3, <2>3, EngineSteps
    <3>2. queue'.state = queue.state
      BY <1>3, <2>3, ClosedIs
    <3> QED
      BY <3>1, <3>2 DEF Stopped
  <2> QED
    BY <2>1, <2>2, <2>3 DEF Spawn, Expire, Refresh, CoolDown
<1>5. CASE UNCHANGED wk
  <2>1. FrontOK'
    BY <1>1, <1>2, <1>4, <1>5, FrontKeeps DEF CellInv, Fails
  <2>2. ASSUME ~eng.open
        PROVE  AtFirst' /\ OneWorker'
    <3>1. AtFirst /\ OneWorker
      BY <1>2, <2>2 DEF CellInv, OpenOK
    <3>2. AtFirst'
      BY <1>1, <1>4, <3>1 DEF AtFirst, In
    <3>3. OneWorker'
      BY <1>4, <1>5, <3>1 DEF OneWorker, In, HoldsLease, Stopped
    <3> QED
      BY <3>2, <3>3
  <2>3. OpenOK'
    BY <1>1, <1>2, <1>4, <2>2 DEF CellInv, OpenOK
  <2>4. FilesOK'
    BY <1>1, <1>2, QuietCells DEF CellInv
  <2> QED
    BY <2>1, <2>3, <2>4 DEF CellInv
<1>6. CASE Spawn
  <2>1. PICK w \in Workers \ Live : wk' = Spawned({w})
    BY <1>6 DEF Spawn
  <2>2. /\ ~Stopped /\ UNCHANGED <<queue, eng>>
        /\ eng.open \/ Live = {}
    BY <1>6 DEF Spawn
  <2>3. \A v \in Workers : wk'[v] = IF v = w THEN Parked ELSE wk[v]
    BY <2>1 DEF Spawned
  <2>4. wk[w].pc = "off" /\ Parked.pc = "pop"
    BY <2>1, IdleIs DEF Live
  <2>5. \A v \in Workers : Fails(v) => Fails(v)'
    BY <2>3, <2>4 DEF Fails
  <2>6. FrontOK'
    BY <1>1, <1>2, <1>4, <2>5, FrontKeeps DEF CellInv
  <2>7. ASSUME ~eng.open
        PROVE  AtFirst' /\ OneWorker'
    <3>1. AtFirst /\ OneWorker /\ \A v \in Workers : wk[v].pc = "off"
      BY <1>2, <2>2, <2>7 DEF CellInv, OpenOK, Live
    <3>2. AtFirst'
      BY <1>1, <1>4, <2>2, <3>1 DEF AtFirst, In
    <3>3. /\ \A v \in Workers : wk'[v].pc # "off" => v = w
          /\ \A v \in Workers : ~HoldsLease(v)'
      BY <2>3, <2>4, <3>1, PcsAre DEF HoldsLease
    <3>4. /\ eng.first \notin In("done")
          /\ eng.first \in In("ready") => queue.ready[1] = eng.first
      BY <2>2, <3>1 DEF OneWorker
    <3>5. In("done")' = In("done") /\ In("ready")' = In("ready")
      BY <2>2 DEF In
    <3>6. OneWorker'
      BY <2>2, <3>3, <3>4, <3>5 DEF OneWorker
    <3> QED
      BY <3>2, <3>6
  <2>8. OpenOK'
    BY <1>1, <1>2, <1>4, <2>7 DEF CellInv, OpenOK
  <2>9. FilesOK'
    BY <1>1, <1>2, QuietCells DEF CellInv
  <2> QED
    BY <2>6, <2>8, <2>9 DEF CellInv
<1> QED
  BY <1>5, <1>6 DEF Pause, Expire, Refresh, CoolDown

-----------------------------------------------------------------------------
(* The start of a run and its end, for the cells. *)

\* Types of the checkpoints and of the window, in one place.
LEMMA CellTypes ==
  ASSUME BookInv, FilesOK
  PROVE  /\ stored \in Checkpoints /\ durable \in Checkpoints /\ win \in WinType /\ eng \in EngType
         /\ stored.merged \in Nat /\ durable.merged \in Nat /\ win.merged \in Nat
         /\ stored.merged <= durable.merged /\ FilesTyped /\ InOrder(durable.merged)
         /\ InOrder(stored.merged) /\ Backs(stored)
<1>1. /\ stored \in Checkpoints /\ durable \in Checkpoints /\ win \in WinType /\ eng \in EngType
  BY DEF BookInv, CkptsOK, Typed
<1>2. /\ stored.merged \in Nat /\ durable.merged \in Nat /\ win.merged \in Nat
  BY <1>1 DEF Checkpoints, CkptType, WinType
<1>3. /\ stored.merged <= durable.merged /\ FilesTyped /\ InOrder(durable.merged) /\ Backs(stored)
  BY DEF FilesOK, StoreOK
<1>4. InOrder(stored.merged)
  BY <1>2, <1>3 DEF InOrder, FilesTyped
<1> QED
  BY <1>1, <1>2, <1>3, <1>4

\* The start of a run takes the one or the other checkpoint; no event is on its way.
LEMMA StartCells ==
  ASSUME BookInv, CellInv, ~LateEvents, Start \/ MountFile
  PROVE  CellInv'
<1>1. /\ FilesOK /\ UNCHANGED <<arena, stored, owe>> /\ mode' \in {"file", "arena"}
  BY DEF CellInv, Start, MountFile, disk
<1>2. owe = NoCkpt
  BY DEF Start, MountFile, CellInv, FilesOK, EventOK
<1>3. mode \in {"idle", "file"} /\ Backs(durable)
  BY <1>1 DEF Start, MountFile, FilesOK, StoreOK
<1>4. CASE Start
  <2>1. out' = out /\ durable' \in {durable, stored} /\ mode' = "file"
    BY <1>4 DEF Start, disk
  <2>2. StoreOK' /\ FilesTyped'
    BY <1>1, <1>3, <2>1, CellTypes DEF StoreOK, FilesTyped, InOrder, Backs
  <2> QED
    BY <1>1, <1>2, <2>1, <2>2 DEF CellInv, FilesOK, WindowOK, SaveOK, EndOK, EventOK, FrontOK, OpenOK
<1>5. CASE MountFile
  <2>1. Len(out) >= durable.merged /\ durable.merged \in Nat /\ Len(out) \in Nat
    BY <1>1, CellTypes DEF InOrder, FilesTyped
  <2>2. out' = Cut(out, durable.merged) /\ durable' = durable /\ mode' = "arena"
    BY <1>5, <2>1 DEF MountFile
  <2>3. /\ Cut(out, durable.merged) \in Seq(Nat) /\ Len(Cut(out, durable.merged)) = durable.merged
        /\ \A i \in 1..durable.merged : Cut(out, durable.merged)[i] = i
    BY <1>1, <2>1, CutIs, CellTypes, InOrderCut DEF FilesTyped
  <2>4. FilesTyped' /\ InOrder(durable.merged)' /\ Len(out') = durable'.merged
    BY <1>1, <2>1, <2>2, <2>3, CellTypes DEF FilesTyped, InOrder
  <2>5. Backs(stored)' /\ Backs(durable)'
    BY <1>1, <1>3, <2>2, CellTypes DEF Backs
  <2>6. StoreOK'
    BY <1>1, <2>2, <2>4, <2>5, CellTypes DEF StoreOK
  <2> QED
    BY <1>1, <1>2, <2>2, <2>4, <2>6 DEF CellInv, FilesOK, WindowOK, SaveOK, EndOK, EventOK, FrontOK, OpenOK
<1> QED
  BY <1>4, <1>5

\* The files and the window that a run begins with.
LEMMA MountFiles ==
  ASSUME BookInv, FilesOK, MountPrefix \/ MountSpill
  PROVE  /\ FilesTyped' /\ WindowBacked' /\ Shorter /\ durable.merged <= win'.merged
         /\ Len(out') = win'.merged /\ Gap(win') /\ ~win'.fault
<1>1. mode = "arena" /\ Len(out) = durable.merged /\ Backs(durable)
  BY DEF MountPrefix, MountSpill, FilesOK, StoreOK
<1>2. CASE MountPrefix
  <2>1. out' = out /\ arena' = << >> /\ win' = Opened(Demote(durable))
    BY <1>2 DEF MountPrefix
  <2>2. /\ Demote(durable) \in CkptType /\ Ahead(Demote(durable))
        /\ Demote(durable).merged = durable.merged
        /\ Demote(durable).ledger = Empty /\ Demote(durable).size = 0
    BY CellTypes, DemotedIs DEF Checkpoints
  <2>3. /\ win'.pending = {} /\ win'.merged = durable.merged /\ win'.entries = Empty
        /\ win'.tail = 0 /\ ~win'.fault
    BY <2>1, <2>2, OpenedIs
  <2>4. FilesTyped' /\ Shorter
    BY <2>1, CellTypes DEF FilesTyped, Shorter
  <2>5. InOrder(win.merged)' /\ Backing(win)' /\ Gap(win')
    BY <2>1, <2>3, CellTypes, EmptyLedger DEF InOrder, Backing, Gap
  <2> QED
    BY <1>1, <2>1, <2>3, <2>4, <2>5, CellTypes DEF WindowBacked
<1>3. CASE MountSpill
  <2> DEFINE w == Opened(durable)
  <2>1. /\ durable.size > 0 /\ Len(arena) >= durable.size
        /\ IF Contiguous(w) > 0 THEN Drain(w, Contiguous(w))
           ELSE win' = w /\ arena' = Cut(arena, durable.size) /\ UNCHANGED out
    BY <1>3 DEF MountSpill
  <2>2. /\ w \in WinType /\ Sound(w) /\ w.pending = {} /\ w.merged = durable.merged
        /\ w.entries = durable.ledger /\ w.tail = durable.size /\ ~w.fault
    BY CellTypes, OpenedIs DEF Checkpoints
  <2> HIDE DEF w
  <2>3. InOrder(w.merged) /\ Backing(w)
    BY <1>1, <2>1, <2>2, CellTypes DEF Backing, Backs
  <2>4. CASE Contiguous(w) > 0
    <3>1. Drain(w, Contiguous(w))
      BY <2>1, <2>4
    <3> QED
      BY <2>2, <2>3, <3>1, CellTypes, DrainFiles
  <2>5. CASE ~(Contiguous(w) > 0)
    <3>1. win' = w /\ arena' = Cut(arena, durable.size) /\ out' = out
      BY <2>1, <2>5
    <3>2. Gap(w)
      <4>1. /\ Contiguous(w) \in Nat
            /\ w.merged + Contiguous(w) + 1 \notin w.pending \cup DOMAIN w.entries
        BY <2>2, ContiguousRun
      <4>2. w.merged \in Nat
        BY <2>2, CellTypes
      <4> QED
        BY <2>5, <4>1, <4>2 DEF Gap
    <3>3. durable.size \in Nat /\ arena \in Seq(Nat) /\ Len(arena) \in Nat
      BY CellTypes DEF Checkpoints, CkptType, FilesTyped
    <3>4. /\ arena' \in Seq(Nat) /\ Len(arena') = durable.size
          /\ \A i \in 1..Len(arena') : arena'[i] = arena[i]
      BY <2>1, <3>1, <3>3, CutIs
    <3>5. Shorter
      BY <2>1, <3>3, <3>4 DEF Shorter
    <3>6. Backing(win)'
      <4>1. ASSUME NEW s \in DOMAIN durable.ledger
            PROVE  arena'[durable.ledger[s] + 1] = s
        <5>1. durable.ledger[s] \in Nat /\ durable.ledger[s] < durable.size
          BY CellTypes, LedgerIs DEF Checkpoints, CkptType, Ahead
        <5>2. durable.ledger[s] + 1 \in 1..Len(arena')
          BY <3>3, <3>4, <5>1
        <5> QED
          BY <1>1, <2>1, <3>4, <5>2 DEF Backs
      <4>2. w.tail <= Len(arena') /\ \A s \in DOMAIN w.entries : arena'[w.entries[s] + 1] = s
        BY <2>2, <3>3, <3>4, <4>1
      <4> QED
        BY <3>1, <4>2 DEF Backing
    <3>7. FilesTyped' /\ InOrder(win.merged)'
      BY <2>2, <2>3, <3>1, <3>4, CellTypes DEF FilesTyped, InOrder
    <3> QED
      BY <1>1, <2>2, <3>1, <3>2, <3>5, <3>6, <3>7, CellTypes DEF WindowBacked
  <2> QED
    BY <2>4, <2>5
<1> QED
  BY <1>2, <1>3

\* The first segment that a new run lacks is at the head of its queue.
LEMMA FirstInLine ==
  ASSUME NEW bits \in SUBSET Segs, NEW m \in Nat, \A i \in 1..m : i \in bits,
         m + 1 \in Segs \ bits, NEW r, r = Inorder(Segs \ bits)
  PROVE  r[1] = m + 1
<1>1. IsFiniteSet(Segs \ bits) /\ Segs \ bits \in SUBSET Nat
  BY SegsFinite, FS_Difference
<1>2. /\ r \in Seq(Segs \ bits)
      /\ \A s \in Segs \ bits : \E i \in 1..Len(r) : r[i] = s
      /\ \A i, j \in 1..Len(r) : i < j => r[i] < r[j]
  BY <1>1, InorderLists
<1>3. PICK i \in 1..Len(r) : r[i] = m + 1
  BY <1>2
<1>4. Len(r) \in Nat /\ 1 \in 1..Len(r)
  BY <1>2, <1>3
<1>5. r[1] \in Segs \ bits /\ r[1] \in Nat
  BY <1>1, <1>2, <1>4
<1>6. ~(r[1] < m + 1)
  <2> SUFFICES ASSUME r[1] < m + 1 PROVE FALSE
    OBVIOUS
  <2>1. r[1] \in 1..m
    BY <1>5 DEF Segs
  <2> QED
    BY <1>5, <2>1
<1>7. ~(1 < i)
  <2>1. \A j \in 1..Len(r) : 1 < j => r[1] < r[j]
    BY <1>2, <1>4, Zenon
  <2>2. 1 < i => r[1] < r[i]
    BY <2>1, Zenon
  <2> QED
    BY <1>3, <1>6, <2>2, Zenon
<1>8. i = 1
  BY <1>4, <1>7
<1> QED
  BY <1>3, <1>8

\* A run begins with the checkpoint it was opened from, one worker, and its first
\* segment ahead.
LEMMA MountCells ==
  ASSUME BookInv, CellInv, MountPrefix \/ MountSpill
  PROVE  CellInv'
<1>1. FilesOK /\ mode = "arena"
  BY DEF CellInv, MountPrefix, MountSpill
<1>2. /\ FilesTyped' /\ WindowBacked' /\ Shorter /\ durable.merged <= win'.merged
      /\ Len(out') = win'.merged /\ Gap(win') /\ ~win'.fault
  BY <1>1, MountFiles
<1>3. /\ win' \in WinType /\ Sound(win') /\ win'.pending = {} /\ win'.bits \in SUBSET Segs
      /\ StartEngine(win', win'.bits) /\ mode' = "run" /\ UNCHANGED <<stored, owe>>
  BY MountWindow DEF BookInv
<1>4. PICK w \in WinType : w = win'
  BY <1>3
<1>5. w.bits \in SUBSET Segs /\ StartEngine(w, w.bits)
  BY <1>3, <1>4
<1>6. /\ \A s \in Segs : queue'.state[s] = IF s \in w.bits THEN "done" ELSE "ready"
      /\ \A v \in Workers : wk'[v].pc \in {"off", "pop"}
      /\ \A u, v \in Workers : wk'[u].pc # "off" /\ wk'[v].pc # "off" => u = v
      /\ ~eng'.open /\ eng'.first = w.merged + 1
      /\ eng'.base = w.merged + Cardinality(DOMAIN w.entries)
      /\ durable' = Ckpt(w.merged, w.entries, w.tail)
  BY <1>5, EngineIs
<1>7. queue'.ready = Inorder(Segs \ w.bits)
  BY <1>5 DEF StartEngine
<1>8. /\ w.merged \in Nat /\ w.merged <= NSeg /\ NSeg \in Nat /\ durable'.merged = w.merged
      /\ Cardinality(DOMAIN w.entries) \in Nat /\ w.bits = 1..w.merged \cup DOMAIN w.entries
  <2>1. Sound(w)
    BY <1>3, <1>4
  <2> QED
    BY <1>6, <2>1, HeldCount, SegsFinite DEF WinType, Ckpt, Sound
<1>9. w.merged + 1 \notin w.bits
  BY <1>2, <1>4, <1>8 DEF Gap
<1>10. FilesOK'
  <2>1. InOrder(durable.merged)'
    BY <1>2, <1>4, <1>8 DEF WindowBacked, InOrder
  <2>2. stored'.merged <= durable'.merged
    BY <1>1, <1>2, <1>3, <1>4, <1>8, CellTypes
  <2>3. Backs(stored)'
    BY <1>1, <1>2, <1>3, CellTypes, ShorterBacks DEF Backs
  <2>4. StoreOK'
    BY <1>3, <2>1, <2>2, <2>3 DEF StoreOK
  <2>5. durable'.merged <= win'.merged
    BY <1>4, <1>8
  <2>6. WindowOK' /\ SaveOK' /\ EndOK'
    BY <1>2, <1>3, <2>5 DEF WindowOK, SaveOK, EndOK
  <2>7. EventOK'
    BY <1>1, <1>3 DEF FilesOK, EventOK
  <2> QED
    BY <1>2, <2>4, <2>6, <2>7 DEF FilesOK
<1>11. FrontOK'
  BY <1>2 DEF FrontOK, Gap
<1>12. In("done")' = w.bits /\ \A s \in In("ready")' : s \in Segs \ w.bits
  BY <1>5, <1>6 DEF In
<1>13. AtFirst'
  <2>1. durable'.merged <= eng'.base
    BY <1>6, <1>8
  <2>2. eng'.first \in Segs \/ In("done")' = Segs
    <3>1. CASE w.merged < NSeg
      BY <1>6, <1>8, <3>1 DEF Segs
    <3>2. CASE w.merged = NSeg
      BY <1>5, <1>8, <1>12, <3>2 DEF Segs
    <3> QED
      BY <1>8, <3>1, <3>2
  <2> QED
    BY <1>3, <1>4, <1>6, <2>1, <2>2 DEF AtFirst
<1>14. OneWorker'
  <2>1. \A v \in Workers : ~HoldsLease(v)'
    BY <1>6, PcsAre DEF HoldsLease
  <2>2. eng'.first \notin In("done")'
    BY <1>6, <1>9, <1>12
  <2>3. eng'.first \in In("ready")' => queue'.ready[1] = eng'.first
    <3> SUFFICES ASSUME w.merged + 1 \in Segs \ w.bits PROVE queue'.ready[1] = w.merged + 1
      BY <1>6, <1>12
    <3>1. \A i \in 1..w.merged : i \in w.bits
      BY <1>8
    <3> QED
      BY <1>5, <1>7, <1>8, <3>1, FirstInLine
  <2> QED
    BY <1>6, <2>1, <2>2, <2>3 DEF OneWorker
<1>15. OpenOK'
  BY <1>6, <1>13, <1>14 DEF OpenOK
<1> QED
  BY <1>10, <1>11, <1>15 DEF CellInv

\* A run that settled the last segment has the whole video in its file.
LEMMA WholeAtEnd ==
  ASSUME BookInv, CellInv, Joined, ~Stopped, queue.left = 0
  PROVE  win.merged = NSeg /\ Len(out) = NSeg
<1>1. mode = "run" /\ \A w \in Workers : wk[w].pc = "off"
  BY DEF Joined, Live
<1>2. ~win.fault
  BY <1>1 DEF CellInv, FrontOK, Fails
<1>3. Len(out) = win.merged /\ Gap(win)
  BY <1>1, <1>2 DEF CellInv, FrontOK
<1>4. In("done") = Segs /\ In("done") = Held(win)
  <2>1. queue.left = Cardinality(Segs \ In("done")) /\ In("done") = Held(win)
    BY <1>1 DEF BookInv, QueueOK
  <2>2. IsFiniteSet(Segs \ In("done")) /\ In("done") \in SUBSET Segs
    BY SegsFinite, FS_Difference DEF In
  <2> QED
    BY <2>1, <2>2, FS_EmptySet
<1>5. Sound(win) /\ win.merged \in Nat /\ win.merged <= NSeg /\ NSeg \in Nat
  BY <1>1, SegsFinite DEF BookInv, WinOK, Typed, WinType
<1>6. ~(win.merged < NSeg)
  <2> SUFFICES ASSUME win.merged < NSeg PROVE FALSE
    OBVIOUS
  <2>1. win.merged + 1 \in Held(win)
    BY <1>4, <1>5 DEF Segs
  <2>2. win.merged + 1 \in 1..win.merged \/ win.merged + 1 \in win.pending \cup DOMAIN win.entries
    BY <1>5, <2>1 DEF Held, Sound
  <2> QED
    BY <1>3, <1>5, <2>2 DEF Gap
<1> QED
  BY <1>3, <1>5, <1>6

\* Outside a run only the checkpoints and the files count.
LEMMA OutsideRun ==
  ASSUME mode' \notin {"run", "save", "broken"}, FilesTyped', StoreOK', EventOK',
         mode' = "done" => Len(out') = NSeg /\ durable'.merged = NSeg
  PROVE  CellInv'
BY DEF CellInv, FilesOK, WindowOK, SaveOK, EndOK, FrontOK, OpenOK

\* The end of a run that completed, or had nothing to keep.
LEMMA CompleteCells ==
  ASSUME BookInv, CellInv, Complete \/ StopUnproven
  PROVE  CellInv'
<1>1. FilesOK /\ mode = "run" /\ UNCHANGED <<out, stored, owe>>
  BY DEF CellInv, Complete, StopUnproven, Joined, disk
<1>2. /\ durable.merged <= win.merged /\ WindowBacked /\ owe = NoCkpt
  BY <1>1 DEF FilesOK, WindowOK, EventOK
<1>3. CASE Complete
  <2>1. win.merged = NSeg /\ Len(out) = NSeg
    BY <1>3, WholeAtEnd DEF Complete
  <2>2. mode' = "done" /\ durable' = MergedPrefix /\ arena' = << >>
    BY <1>3, <2>1 DEF Complete
  <2>3. durable'.merged = NSeg
    BY <1>1, <2>1, <2>2, CellTypes, MadeCheckpoints
  <2>4. FilesTyped' /\ Shorter
    BY <1>1, <2>2, CellTypes DEF FilesTyped, Shorter
  <2>5. Backs(stored)'
    BY <1>1, <2>4, CellTypes, ShorterBacks DEF Backs
  <2>6. StoreOK'
    BY <1>1, <1>2, <2>1, <2>2, <2>3, <2>5, CellTypes DEF StoreOK, WindowBacked, InOrder
  <2> QED
    BY <1>1, <1>2, <2>1, <2>2, <2>3, <2>4, <2>6, OutsideRun DEF EventOK
<1>4. CASE StopUnproven
  <2>1. mode' = "idle" /\ durable' = ZeroSeed /\ UNCHANGED arena /\ ~eng.open /\ eng.base = 0
    BY <1>4 DEF StopUnproven, Unproven, disk
  <2>2. stored.merged = 0
    BY <1>1, <2>1, CellTypes DEF CellInv, OpenOK, AtFirst
  <2>3. durable'.merged = 0 /\ DOMAIN durable'.ledger = {}
    BY <2>1, MadeCheckpoints
  <2>4. InOrder(durable.merged)' /\ FilesTyped'
    BY <1>1, <2>1, <2>3, CellTypes DEF InOrder, FilesTyped
  <2>5. Backs(stored)' /\ Backs(durable)'
    BY <1>1, <2>1, <2>3, CellTypes DEF Backs
  <2>6. StoreOK'
    BY <1>1, <2>1, <2>2, <2>3, <2>4, <2>5 DEF StoreOK
  <2> QED
    BY <1>1, <1>2, <2>1, <2>4, <2>6, OutsideRun DEF EventOK
<1> QED
  BY <1>3, <1>4

\* The window's state as a checkpoint, when the spill file has its cells.
LEMMA WindowAsCheckpoint ==
  ASSUME NEW w \in WinType, NEW c, c = Ckpt(w.merged, w.entries, w.tail)
  PROVE  /\ c.merged = w.merged /\ c.ledger = w.entries /\ c.size = w.tail
BY DEF Ckpt

\* What a stopped run records is in the files.
LEMMA CaptureCells ==
  ASSUME BookInv, CellInv, Capture
  PROVE  CellInv'
<1>1. FilesOK /\ mode = "run" /\ mode' = "save" /\ UNCHANGED <<stored, durable, owe>>
  BY CaptureIs DEF CellInv, Capture
<1>2. /\ durable.merged <= win.merged /\ WindowBacked /\ owe = NoCkpt
      /\ win \in WinType /\ Sound(win) /\ eng \in EngType
  BY <1>1, CellTypes DEF FilesOK, WindowOK, EventOK, BookInv, WinOK
<1>3. eng.open => DOMAIN stored.ledger = {}
  BY <1>1 DEF CellInv, OpenOK
<1>4. ~eng.open => win.pending = {}
  BY <1>1 DEF CellInv, OpenOK, AtFirst
<1>5. out' = out
  BY DEF Capture, CaptureAll, CapturePrefix, CaptureOld
<1>6. \/ UNCHANGED <<win, arena>>
      \/ \E k \in 0..Cardinality(win.pending) : Spill(SubSeq(Inorder(win.pending), 1, k))
      \/ Spill(Inorder(win.pending))
  BY DEF Capture, CaptureAll, CapturePrefix, CaptureOld
<1>7. win.pending \in SUBSET Segs /\ IsFiniteSet(win.pending) /\ Cardinality(win.pending) \in Nat
  BY <1>2, HeldCount DEF WinType
<1>8. win.pending = {} => Cardinality(win.pending) = 0
  BY FS_EmptySet
<1>9. /\ FilesTyped' /\ WindowBacked' /\ win'.merged = win.merged
      /\ Shorter \/ eng.open
  <2>1. CASE UNCHANGED <<win, arena>>
    BY <1>1, <1>2, <1>5, <2>1, CellTypes, QuietFiles
  <2>2. ASSUME NEW ss \in Seq(Segs), Spill(ss), win.pending = {} => Len(ss) = 0
        PROVE  /\ FilesTyped' /\ WindowBacked' /\ win'.merged = win.merged
               /\ Shorter \/ eng.open
    <3>1. /\ arena' \in Seq(Nat) /\ Backing(win)'
          /\ Len(ss) = 0 => Shorter
      BY <1>1, <1>2, <2>2, CellTypes, SpillFiles
    <3>2. win'.merged = win.merged
      BY <1>2, <2>2, SpillIs
    <3>3. FilesTyped' /\ InOrder(win.merged)'
      BY <1>1, <1>2, <1>5, <3>1, <3>2, CellTypes DEF FilesTyped, WindowBacked, InOrder
    <3> QED
      BY <1>4, <2>2, <3>1, <3>2, <3>3 DEF WindowBacked
  <2>3. CASE \E k \in 0..Cardinality(win.pending) : Spill(SubSeq(Inorder(win.pending), 1, k))
    <3>1. PICK k \in 0..Cardinality(win.pending) : Spill(SubSeq(Inorder(win.pending), 1, k))
      BY <2>3
    <3>2. SubSeq(Inorder(win.pending), 1, k) \in Seq(Segs)
      BY <1>7, PartLists
    <3>3. win.pending = {} => Len(SubSeq(Inorder(win.pending), 1, k)) = 0
      <4> SUFFICES ASSUME win.pending = {} PROVE Len(SubSeq(Inorder(win.pending), 1, k)) = 0
        OBVIOUS
      <4>1. k = 0
        BY <1>8, <3>1
      <4>2. SubSeq(Inorder(win.pending), 1, 0) = << >>
        <5>1. Inorder(win.pending) \in Seq(Segs)
          BY <1>7, PartLists
        <5> QED
          BY <5>1
      <4> QED
        BY <4>1, <4>2
    <3> QED
      BY <2>2, <3>1, <3>2, <3>3
  <2>4. CASE Spill(Inorder(win.pending))
    <3>1. Inorder(win.pending) \in Seq(Segs)
      BY <1>7, PartLists
    <3>2. Len(Inorder(win.pending)) = Cardinality(win.pending)
      BY <1>7, SegsFinite, InorderLists
    <3> QED
      BY <1>8, <2>2, <2>4, <3>1, <3>2
  <2> QED
    BY <1>6, <2>1, <2>3, <2>4
<1>10. win' \in WinType /\ win.merged \in Nat /\ durable.merged \in Nat
  BY <1>1, CaptureIs, CellTypes
<1>11. SaveOK'
  <2>1. ASSUME NEW c \in Checkpoints, Keep(c), durable.merged <= c.merged, c.merged <= win.merged,
               Backs(c)'
        PROVE  SaveOK'
    <3>1. eng'.rec = c
      BY <1>2, <2>1, EngineSteps
    <3> QED
      BY <1>1, <1>9, <2>1, <3>1 DEF SaveOK, Backs
  <2>2. CASE CaptureAll
    <3>1. PICK w \in WinType : w = win'
      BY <1>10
    <3>2. Sound(w)
      BY <3>1, CaptureIs
    <3> DEFINE c == Ckpt(w.merged, w.entries, w.tail)
    <3>3. Keep(c)
      BY <2>2, <3>1 DEF CaptureAll
    <3>4. c \in Checkpoints
      BY <3>2, MadeCheckpoints
    <3>5. c.merged = w.merged /\ c.ledger = w.entries /\ c.size = w.tail
      BY WindowAsCheckpoint
    <3> HIDE DEF c
    <3>6. Backs(c)'
      BY <1>9, <3>1, <3>5 DEF Backs, WindowBacked, Backing
    <3>7. durable.merged <= c.merged /\ c.merged <= win.merged
      BY <1>2, <1>9, <1>10, <3>1, <3>5
    <3> QED
      BY <2>1, <3>3, <3>4, <3>6, <3>7
  <2>3. CASE CapturePrefix
    <3>1. PICK c \in Checkpoints : c = MergedPrefix /\ c.merged = win.merged /\ DOMAIN c.ledger = {}
      BY <1>2, MadeCheckpoints
    <3>2. Keep(c)
      BY <2>3, <3>1 DEF CapturePrefix
    <3> QED
      BY <1>2, <1>10, <2>1, <3>1, <3>2 DEF Backs
  <2>4. CASE CaptureOld
    <3>1. PICK c \in Checkpoints :
            c = Demote(durable) /\ c.merged = durable.merged /\ DOMAIN c.ledger = {}
      BY <1>1, CellTypes, MadeCheckpoints, DemotedIs, EmptyLedger DEF Checkpoints
    <3>2. Keep(c)
      BY <2>4, <3>1 DEF CaptureOld
    <3> QED
      BY <1>2, <1>10, <2>1, <3>1, <3>2 DEF Backs
  <2> QED
    BY <2>2, <2>3, <2>4 DEF Capture
<1>12. Backs(stored)'
  <2>1. CASE Shorter
    BY <1>1, <1>9, <2>1, CellTypes, ShorterBacks DEF Backs
  <2>2. CASE DOMAIN stored.ledger = {}
    BY <1>1, <2>2 DEF Backs
  <2> QED
    BY <1>3, <1>9, <2>1, <2>2
<1>13. StoreOK'
  BY <1>1, <1>5, <1>12, CellTypes DEF StoreOK, InOrder
<1>14. WindowOK' /\ EndOK' /\ EventOK' /\ FrontOK' /\ OpenOK'
  BY <1>1, <1>2, <1>9 DEF WindowOK, EndOK, EventOK, FrontOK, OpenOK
<1> QED
  BY <1>9, <1>11, <1>13, <1>14 DEF CellInv, FilesOK

\* What was recorded is kept, or what was durable before.
LEMMA SaveCells ==
  ASSUME BookInv, CellInv, Save \/ SaveFails
  PROVE  CellInv'
<1>1. FilesOK /\ mode = "save" /\ mode' = "idle" /\ UNCHANGED <<out, arena>>
  BY DEF CellInv, Save, SaveFails, disk
<1>2. /\ durable.merged <= eng.rec.merged /\ eng.rec.merged <= win.merged /\ Backs(eng.rec)
      /\ WindowBacked /\ owe = NoCkpt
  BY <1>1 DEF FilesOK, SaveOK, WindowOK, EventOK
<1>3. PICK c \in Checkpoints : c = eng.rec
  BY <1>1, CellTypes DEF BookInv, CkptsOK, EngType
<1>4. /\ c.merged \in Nat /\ durable.merged <= c.merged /\ c.merged <= win.merged /\ Backs(c)
      /\ win.merged \in Nat /\ durable.merged \in Nat /\ stored.merged \in Nat
      /\ stored.merged <= durable.merged /\ Backs(stored) /\ FilesTyped /\ InOrder(durable.merged)
  BY <1>1, <1>2, <1>3, CellTypes DEF Checkpoints, CkptType, Backs
<1>5. InOrder(c.merged)
  BY <1>2, <1>4 DEF WindowBacked, InOrder, FilesTyped
<1>6. /\ Demote(durable).merged = durable.merged /\ DOMAIN Demote(durable).ledger = {}
  BY <1>1, CellTypes, DemotedIs, EmptyLedger DEF Checkpoints
<1>7. FilesTyped'
  BY <1>1, <1>4 DEF FilesTyped
<1>8. CASE Save
  <2>1. stored' = c /\ durable' = c /\ owe' = c
    BY <1>3, <1>8 DEF Save
  <2>2. StoreOK'
    BY <1>1, <1>4, <1>5, <2>1 DEF StoreOK, InOrder, Backs
  <2> QED
    BY <1>1, <1>7, <2>1, <2>2, OutsideRun DEF EventOK
<1>9. CASE SaveFails /\ eng.paused
  <2>1. stored' = stored /\ durable' = c /\ owe' = c
    BY <1>3, <1>9 DEF SaveFails, disk
  <2>2. StoreOK'
    BY <1>1, <1>4, <1>5, <2>1 DEF StoreOK, InOrder, Backs
  <2> QED
    BY <1>1, <1>7, <2>1, <2>2, OutsideRun DEF EventOK
<1>10. CASE SaveFails /\ ~eng.paused
  <2>1. stored' = stored /\ durable' = Demote(durable) /\ owe' = NoCkpt
    BY <1>2, <1>10 DEF SaveFails, disk
  <2>2. StoreOK'
    BY <1>1, <1>4, <1>6, <2>1 DEF StoreOK, InOrder, Backs
  <2> QED
    BY <1>1, <1>7, <2>1, <2>2, OutsideRun DEF EventOK
<1> QED
  BY <1>8, <1>9, <1>10

\* An event that is stored, and a process that dies.
LEMMA StoreCells ==
  ASSUME BookInv, CellInv, PersistEvent \/ Crash
  PROVE  CellInv'
<1>1. FilesOK /\ UNCHANGED <<out, arena>> /\ owe' = NoCkpt
  BY DEF CellInv, PersistEvent, Crash, disk
<1>2. FilesTyped'
  BY <1>1, CellTypes DEF FilesTyped
<1>3. CASE PersistEvent
  <2>1. owe # NoCkpt /\ stored' = owe /\ durable' = durable /\ mode' = mode
    BY <1>3 DEF PersistEvent
  <2>2. mode = "idle" /\ owe = durable
    BY <1>1, <2>1 DEF FilesOK, EventOK
  <2>3. Backs(durable)
    BY <1>1, <2>2 DEF FilesOK, StoreOK
  <2>4. StoreOK'
    BY <1>1, <2>1, <2>2, <2>3, CellTypes DEF StoreOK, InOrder, Backs
  <2> QED
    BY <1>1, <1>2, <2>1, <2>2, <2>4, OutsideRun DEF EventOK
<1>4. CASE Crash
  <2>1. stored' = stored /\ durable' = stored /\ mode' = "idle"
    BY <1>4 DEF Crash, disk
  <2>2. StoreOK'
    BY <1>1, <2>1, CellTypes DEF StoreOK, InOrder, Backs
  <2> QED
    BY <1>1, <1>2, <2>1, <2>2, OutsideRun DEF EventOK
<1> QED
  BY <1>3, <1>4

\* A step that touches neither files nor engine.
LEMMA SameCells ==
  ASSUME CellInv, UNCHANGED <<out, arena, stored, durable, owe, mode, win, eng, wk, queue>>
  PROVE  CellInv'
<1>1. FilesOK'
  BY DEF CellInv, FilesOK, FilesTyped, StoreOK, WindowOK, WindowBacked, Backing, SaveOK, EndOK,
         EventOK, InOrder, Backs
<1>2. FrontOK'
  BY DEF CellInv, FrontOK, Gap, Fails, Stopped
<1>3. AtFirst /\ OneWorker => AtFirst' /\ OneWorker'
  BY DEF AtFirst, OneWorker, In, HoldsLease, Stopped
<1> QED
  BY <1>1, <1>2, <1>3 DEF CellInv, OpenOK

\* The invariant of the cells is inductive with that of the books, when no event
\* of a run can be late.
LEMMA CellNext ==
  ~LateEvents => (BookInv /\ CellInv /\ [Next]_vars => CellInv')
<1> SUFFICES ASSUME ~LateEvents, BookInv, CellInv, [Next]_vars
             PROVE  CellInv'
  OBVIOUS
<1>1. BookInv'
  BY BookNext
<1>2. CASE Mount
  BY <1>2, StartCells, MountCells DEF Mount
<1>3. CASE End
  BY <1>3, CompleteCells, CaptureCells, SaveCells DEF End
<1>4. CASE Spawn \/ Pause \/ Expire \/ Refresh
  BY <1>1, <1>4, BesideCells
<1>5. CASE CoolDown
  BY <1>5, SameCells DEF CoolDown, RunFrame, DiskFrame
<1>6. CASE PersistEvent \/ Crash
  BY <1>6, StoreCells
<1>7. CASE \E w \in Workers : Worker(w) \/ Control(w)
  BY <1>1, <1>7, WorkCells
<1>8. CASE UNCHANGED vars
  BY <1>8, SameCells DEF vars, run, disk
<1> QED
  BY <1>2, <1>3, <1>4, <1>5, <1>6, <1>7, <1>8 DEF Next

\* It holds of a program with nothing on disk.
LEMMA CellInit == Init => CellInv
<1> SUFFICES ASSUME Init PROVE CellInv
  OBVIOUS
<1>1. /\ out = << >> /\ arena = << >> /\ stored = ZeroSeed /\ durable = ZeroSeed
      /\ owe = NoCkpt /\ mode = "idle"
  BY DEF Init
<1>2. ZeroSeed.merged = 0 /\ DOMAIN ZeroSeed.ledger = {}
  BY MadeCheckpoints
<1>3. FilesTyped /\ StoreOK
  BY <1>1, <1>2 DEF FilesTyped, StoreOK, InOrder, Backs
<1> QED
  BY <1>1, <1>3 DEF CellInv, FilesOK, WindowOK, SaveOK, EndOK, EventOK, FrontOK, OpenOK

\* The merged prefixes and the ledgers are in the files.
LEMMA CellsTrue ==
  ASSUME BookInv, CellInv
  PROVE  CheckpointIsTrue /\ VideoInOrder
<1>1. FilesOK
  BY DEF CellInv
<1>2. True(stored)
  BY <1>1, CellTypes, InOrderCut DEF True, Backs
<1>3. mode \in {"idle", "file", "arena"} => True(durable)
  BY <1>1, CellTypes, InOrderCut DEF True, Backs, FilesOK, StoreOK
<1>4. mode = "run" => Cut(out, win.merged) = Prefix(win.merged)
  BY <1>1, CellTypes, InOrderCut DEF FilesOK, WindowOK, WindowBacked
<1>5. ASSUME mode = "done"
      PROVE  out = Prefix(NSeg)
  <2>1. Len(out) = NSeg /\ InOrder(NSeg) /\ out \in Seq(Nat)
    BY <1>1, <1>5, CellTypes DEF FilesOK, EndOK, FilesTyped
  <2>2. NSeg \in Nat
    BY SegsFinite
  <2>3. /\ Prefix(NSeg) \in Seq(Nat) /\ Len(Prefix(NSeg)) = NSeg
        /\ \A i \in 1..NSeg : Prefix(NSeg)[i] = i
    BY <2>2 DEF Prefix
  <2>4. \A i \in 1..NSeg : out[i] = Prefix(NSeg)[i]
    BY <2>1, <2>3 DEF InOrder
  <2> HIDE DEF Prefix
  <2> QED
    BY <2>1, <2>3, <2>4, SeqEqual
<1>6. mode # "broken"
  BY <1>1 DEF FilesOK, EndOK
<1> QED
  BY <1>2, <1>3, <1>4, <1>5, <1>6 DEF CheckpointIsTrue, VideoInOrder

\* The checkpoint in the store, and the one that the next run of the process would
\* start from, are true of the two files after any pause, fault or crash, for any
\* playlist, workers and budgets, if a stop's event reaches the store before the
\* next run begins (captureStoppedCheckpoint, persistFirstCheckpoint, mount). With
\* a late event it is false: see the finding.
THEOREM CheckpointAlwaysTrue == ~LateEvents => (Spec => []CheckpointIsTrue)
<1> SUFFICES ASSUME ~LateEvents PROVE Spec => []CheckpointIsTrue
  OBVIOUS
<1>1. BookInv /\ CellInv /\ [Next]_vars => CellInv'
  BY CellNext
<1>2. BookInv /\ CellInv => CheckpointIsTrue
  BY CellsTrue
<1> QED
  BY <1>1, <1>2, CellInit, Books, PTL DEF Spec

\* Under the same condition the .surge file of a run begins with the merged prefix
\* in order, and the run that settles the last segment leaves the whole video
\* behind and never ends with the contract error (drain, finishPhysical).
THEOREM VideoAlwaysInOrder == ~LateEvents => (Spec => []VideoInOrder)
<1> SUFFICES ASSUME ~LateEvents PROVE Spec => []VideoInOrder
  OBVIOUS
<1>1. BookInv /\ CellInv /\ [Next]_vars => CellInv'
  BY CellNext
<1>2. BookInv /\ CellInv => VideoInOrder
  BY CellsTrue
<1> QED
  BY <1>1, <1>2, CellInit, Books, PTL DEF Spec

=============================================================================
