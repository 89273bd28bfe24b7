------------------------- MODULE SourceCoverage_proofs -------------------------
(***************************************************************************)
(* For any number of episodes, size and number of pages, filters,          *)
(* retentions and audit intervals.                                         *)
(*                                                                         *)
(* A read is trusted although the show changes between its pages.  What is *)
(* followed is the number of episodes behind one that has been listed all  *)
(* the time and has not been seen: new ones come in front of it, so that   *)
(* number never grows, and while every page reports the same total it      *)
(* stays below what is still to be read (Behind).  A read that reaches the *)
(* end has therefore seen all of them, and one that stops at the limit of  *)
(* pages has seen all that are not older than its last one (Paged,         *)
(* UnseenIsOld); with the boundary behind every retention, those are the   *)
(* episodes a playlist is built from (Truth).  After a null item only what *)
(* was seen counts, and it was listed since the read began (Additional).   *)
(*                                                                         *)
(* The two cycle counts are bounded by the age of the last look at the     *)
(* catalogue: while a count runs that age grows with it (Counted), an      *)
(* audit falls due, and a read without a fault ends the count (Served).    *)
(* Greatest is the pigeonhole principle; induction over the numbers is not *)
(* available.                                                              *)
(***************************************************************************)
EXTENDS SourceCoverage, FiniteSetTheorems, SequenceTheorems, TLAPS

-----------------------------------------------------------------------------
(* The invariant *)

Member(e, s) == \E i \in 1..Len(s) : s[i] = e

\* Newer episodes come first, and they are not older.
Sorted ==
  /\ \A i \in 1..Len(show) : show[i] <= listed
  /\ \A i, j \in 1..Len(show) : i < j => show[i] > show[j]
  /\ \A e \in Episodes : e > listed => age[e] = 0
  /\ \A d, e \in Episodes : d < e => age[d] >= age[e]

\* A detector row that knows nothing was made by a failure.
Detected ==
  /\ ~det.exists => det.anchor = Never /\ det.looked = Degraded /\ ~det.known /\ ~det.failing
  /\ det.known => det.anchor # Never
  /\ det.exists /\ det.anchor = Never => det.failing

Reading == {"fetch", "apply", "mark"}

\* The places of a cycle.
Placed ==
  /\ cyc.pc # "idle" => enabled # {}
  /\ cyc.escalation => cyc.faulty /\ cyc.pc \in Reading
  /\ cyc.nulls /\ cyc.pc \in Reading => cyc.faulty
  /\ cyc.cut < Horizon /\ src.cut < Horizon
  /\ cyc.pc \in Reading /\ ~cyc.faulty => \A p \in enabled : Retention[p] <= cyc.cut
  /\ cyc.pc = "playlists" => cyc.episodes = journal

\* Since a read began, the episodes nobody has seen yet stay behind the pages read.
Behind ==
  cyc.pc \in {"fetch", "apply"} =>
    /\ \A i \in 1..Len(cyc.seen) : cyc.seen[i] \in ghost.since \union {Null}
    /\ ~cyc.nulls => ~Member(Null, cyc.seen)
    /\ \A i \in 1..Len(show) : show[i] \in ghost.since
    /\ \A e \in ghost.throughout : Member(e, show)
    /\ cyc.pages > 0 /\ ~cyc.nulls =>
         \A i \in 1..Len(show) :
           show[i] \in ghost.throughout /\ ~Member(show[i], cyc.seen)
             => Len(show) - i < cyc.total - cyc.pages * PageSize

\* How the pages ended.
Paged ==
  /\ cyc.pc = "fetch" => ~cyc.complete /\ cyc.pages < MaxPages
  /\ cyc.pc = "fetch" /\ cyc.pages = 0 => cyc.seen = <<>> /\ ~cyc.nulls
  /\ cyc.pc = "fetch" /\ cyc.pages > 0 => cyc.pages * PageSize < cyc.total
  /\ cyc.pc = "apply" =>
       /\ cyc.pages > 0 /\ cyc.total = Len(show)
       /\ cyc.complete <=> Len(show) <= cyc.pages * PageSize
       /\ ~cyc.complete =>
            /\ cyc.pages = MaxPages
            /\ ~cyc.nulls => Last(cyc.seen) = show[cyc.pages * PageSize] /\ cyc.seen # <<>>

\* What a proven read left in the journal, and what it may be missing.
Truth ==
  /\ src.proven => \A e \in journal : age[e] < Horizon => e \in ghost.possible
  /\ \A e \in ghost.owed \ (rejected \union journal) :
       age[e] < Horizon => age[e] > src.cut + src.refresh
  /\ \A e \in ghost.owed : e <= listed

\* What an incomplete read has just seen.
Additional ==
  /\ cyc.pc = "mark" /\ cyc.nulls => ~src.proven /\ Accepted(cyc.seen) \subseteq ghost.since
  /\ cyc.partial # {} =>
       cyc.pc = "playlists" /\ ~src.proven /\ cyc.partial \subseteq ghost.since

\* m cycles before its end a cycle without a read leaves a count of n within bounds.
Bounded(n, m, row, source) ==
  /\ n <= Inactivity
  /\ n + m <= 1 + source.refresh
  /\ row.anchor # Never => n + m <= 1 + row.anchor
  /\ row.anchor = Never /\ row.looked < Degraded => n + m <= row.looked

Quiet(n) == n < Inactivity /\ Bounded(n, 1, det, src)

\* A cycle without a fault has read the show.
Refreshed ==
  /\ src.known /\ src.refresh = 0
  /\ det.exists => det.anchor = 0

Fits == Reachable = ToSet(show)

\* Both counts, from the beginning of a cycle to its end.
Counted ==
  /\ ghost.waited # 0 => Watched <= listed
  /\ ghost.waited <= Inactivity /\ ghost.blocked <= Inactivity
  /\ cyc.pc = "idle" =>
       Bounded(ghost.waited, 0, det, src) /\ Bounded(ghost.blocked, 0, det, src)
  /\ cyc.pc = "observe" \/ (cyc.pc = "plan" /\ ~cyc.changed) =>
       Bounded(ghost.waited, 1, det, src) /\ Bounded(ghost.blocked, 1, det, src)
  /\ cyc.pc \in {"fetch", "apply"} /\ ~cyc.faulty /\ ghost.waited # 0 /\ Member(Watched, show)
       => Watched \in ghost.throughout

\* What a read without a fault established.
Established ==
  /\ Fits => src.proven
  /\ \A p \in enabled : Retention[p] <= src.cut
  /\ ghost.waited # 0 => Watched \notin Reachable \ journal

Served ==
  /\ cyc.pc = "mark" /\ ~cyc.faulty => src.known /\ src.refresh = 0 /\ Established
  /\ cyc.pc = "playlists" /\ ~cyc.faulty =>
       \/ Quiet(ghost.waited) /\ Quiet(ghost.blocked)
       \/ Refreshed /\ Established

IInv ==
  /\ TypeOK /\ Sorted /\ Detected /\ Placed /\ Behind /\ Paged
  /\ Truth /\ Additional /\ Counted /\ Served

-----------------------------------------------------------------------------
(* Lemmas about the operators *)

LEMMA PairMin ==
    ASSUME NEW a \in Nat, NEW b \in Nat
    PROVE  Min({a, b}) = IF a <= b THEN a ELSE b
<1>1. PICK m \in {a, b} : \A y \in {a, b} : m <= y  OBVIOUS
<1>2. Min({a, b}) \in {a, b} /\ \A y \in {a, b} : Min({a, b}) <= y
    BY <1>1 DEF Min
<1> QED BY <1>2

LEMMA TripleMin ==
    ASSUME NEW a \in Nat, NEW b \in Nat, NEW c \in Nat
    PROVE  /\ Min({a, b, c}) \in {a, b, c}
           /\ \A y \in {a, b, c} : Min({a, b, c}) <= y
<1>1. PICK m \in {a, b, c} : \A y \in {a, b, c} : m <= y  OBVIOUS
<1> QED BY <1>1 DEF Min

\* A bounded set of numbers has a greatest one: without it every number below a member
\* had its successor there, which maps a finite set into a smaller one.
LEMMA Greatest ==
    ASSUME NEW S, NEW n \in Nat, S \subseteq 0..n, S # {}
    PROVE  \E x \in S : \A y \in S : x >= y
<1> DEFINE Under == {i \in 0..n : \E x \in S : i <= x}
           Up == [i \in Under |-> i + 1]
           Rest == Under \ {0}
<1>1. SUFFICES ASSUME \A x \in S : \E y \in S : x < y  PROVE FALSE
    OBVIOUS
<1>2. IsFiniteSet(Under)
    <2>1. Under \in SUBSET (0..n)  OBVIOUS
    <2>2. IsFiniteSet(0..n)  BY FS_Interval
    <2>3. \A T \in SUBSET (0..n) : IsFiniteSet(T)  BY <2>2, FS_Subset
    <2> QED BY <2>1, <2>3
<1>3. 0 \in Under
    <2>1. PICK x \in S : TRUE  OBVIOUS
    <2>2. 0 <= x  OBVIOUS
    <2> QED BY <2>2
<1>4. Up \in [Under -> Rest]
    <2>1. ASSUME NEW i \in Under  PROVE i + 1 \in Rest
        <3>1. PICK x \in S : i <= x  OBVIOUS
        <3>2. PICK y \in S : x < y  BY <1>1
        <3> QED BY <3>1, <3>2
    <2> QED BY <2>1
<1>5. IsFiniteSet(Rest) /\ Cardinality(Rest) = Cardinality(Under) - 1
    <2> HIDE DEF Under
    <2> QED BY <1>2, <1>3, FS_RemoveElement
<1>6. Cardinality(Under) \in Nat
    <2> HIDE DEF Under
    <2> QED BY <1>2, FS_CardinalityType
<1>7. \E i, j \in Under : i # j /\ Up[i] = Up[j]
    <2> HIDE DEF Under, Rest, Up
    <2>1. Cardinality(Rest) < Cardinality(Under)  BY <1>5, <1>6
    <2> QED BY <1>2, <1>4, <1>5, <2>1, FS_PigeonHole
<1> QED BY <1>7

LEMMA LongestRetention ==
    ASSUME TypeOK, enabled # {}
    PROVE  /\ MaxRetention \in 0..Horizon - 1
           /\ \A p \in enabled : Retention[p] <= MaxRetention
<1> DEFINE S == {Retention[p] : p \in enabled}
<1>1. S \subseteq 0..Horizon - 1 /\ S # {}  BY HorizonCovers DEF TypeOK
<1>2. Horizon - 1 \in Nat  BY HorizonCovers DEF TypeOK
<1>3. \E x \in S : \A y \in S : x >= y
    <2> HIDE DEF S
    <2> QED BY <1>1, <1>2, Greatest
<1>4. Max(S) \in S /\ \A y \in S : Max(S) >= y
    <2> HIDE DEF S
    <2> QED BY <1>3 DEF Max
<1> QED BY <1>1, <1>4, HorizonCovers DEF MaxRetention, TypeOK

LEMMA Pages ==
    ASSUME NEW k \in Nat
    PROVE  k * PageSize \in Nat /\ (k + 1) * PageSize = k * PageSize + PageSize
BY HorizonCovers

LEMMA RemovedAt ==
    ASSUME NEW S, NEW s \in Seq(S), NEW i \in 1..Len(s)
    PROVE  /\ RemoveAt(s, i) \in Seq(S) /\ Len(RemoveAt(s, i)) = Len(s) - 1
           /\ \A j \in 1..Len(s) - 1 : RemoveAt(s, i)[j] = IF j < i THEN s[j] ELSE s[j + 1]
<1> DEFINE u == SubSeq(s, 1, i - 1)
           v == SubSeq(s, i + 1, Len(s))
<1>1. \A j \in 1..Len(s) : s[j] \in S  BY ElementOfSeq
<1>2. u \in Seq(S) /\ Len(u) = i - 1 /\ \A j \in 1..i - 1 : u[j] = s[j]
    <2>1. i - 1 \in Int /\ 1 \in Int /\ \A j \in 1..i - 1 : s[j] \in S  BY <1>1
    <2> QED BY <2>1, SubSeqProperties
<1>3. v \in Seq(S) /\ Len(v) = Len(s) - i /\ \A j \in 1..Len(s) - i : v[j] = s[i + j]
    <2>1. i + 1 \in Int /\ Len(s) \in Int /\ \A j \in i + 1..Len(s) : s[j] \in S  BY <1>1
    <2>2. /\ v \in Seq(S)
          /\ Len(v) = IF i + 1 <= Len(s) THEN Len(s) - (i + 1) + 1 ELSE 0
          /\ \A j \in 1..Len(s) - (i + 1) + 1 : v[j] = s[i + 1 + j - 1]
        BY <2>1, SubSeqProperties
    <2> QED BY <2>2
<1> HIDE DEF u, v
<1>4. u \o v \in Seq(S) /\ Len(u \o v) = Len(u) + Len(v)
      /\ \A j \in 1..Len(u) + Len(v) : (u \o v)[j] = IF j <= Len(u) THEN u[j] ELSE v[j - Len(u)]
    BY <1>2, <1>3, ConcatProperties
<1>5. RemoveAt(s, i) = u \o v  BY DEF RemoveAt, u, v
<1> QED BY <1>2, <1>3, <1>4, <1>5

\* An episode that goes from position k leaves the others in their order.
LEMMA ShowWithout ==
    ASSUME TypeOK, NEW k \in 1..Len(show), show' = RemoveAt(show, k)
    PROVE  /\ show' \in Seq(Episodes) /\ Len(show') = Len(show) - 1
           /\ \A j \in 1..Len(show) - 1 : show'[j] = IF j < k THEN show[j] ELSE show[j + 1]
<1>1. show \in Seq(Episodes)  BY DEF TypeOK
<1>2. /\ RemoveAt(show, k) \in Seq(Episodes) /\ Len(RemoveAt(show, k)) = Len(show) - 1
      /\ \A j \in 1..Len(show) - 1 :
            RemoveAt(show, k)[j] = IF j < k THEN show[j] ELSE show[j + 1]
    BY <1>1, RemovedAt
<1> QED BY <1>2

LEMMA Members ==
    ASSUME NEW S, NEW s \in Seq(S), NEW e
    PROVE  e \in ToSet(s) <=> Member(e, s)
BY DEF ToSet, Member

\* The items of the next page.
LEMMA ItemsRead ==
    ASSUME TypeOK
    PROVE  /\ Items \in Seq(Episodes)
           /\ \A i \in 1..Len(Items) : /\ cyc.pages * PageSize + i \in 1..Len(show)
                                       /\ Items[i] = show[cyc.pages * PageSize + i]
           /\ \A j \in 1..Len(show) : j > cyc.pages * PageSize /\ j <= (cyc.pages + 1) * PageSize
                => j - cyc.pages * PageSize \in 1..Len(Items)
           /\ (cyc.pages + 1) * PageSize <= Len(show) => Len(Items) = PageSize
<1> DEFINE b == cyc.pages * PageSize
           t == Min({(cyc.pages + 1) * PageSize, Len(show)})
<1>1. b \in Nat /\ (cyc.pages + 1) * PageSize = b + PageSize
    <2>1. cyc.pages \in Nat  BY HorizonCovers DEF TypeOK, Cycles
    <2> QED BY <2>1, Pages
<1>2. t = IF b + PageSize <= Len(show) THEN b + PageSize ELSE Len(show)
    <2>1. b + PageSize \in Nat /\ Len(show) \in Nat  BY <1>1, HorizonCovers DEF TypeOK
    <2> QED BY <1>1, <2>1, PairMin
<1>3. \A i \in b + 1 .. t : show[i] \in Episodes  BY <1>1, <1>2, HorizonCovers DEF TypeOK
<1>4. t \in Int /\ b + 1 \in Int  BY <1>1, <1>2, HorizonCovers DEF TypeOK
<1> HIDE DEF b, t
<1>5. Items = SubSeq(show, b + 1, t)  BY DEF Items, b, t
<1>6. /\ Items \in Seq(Episodes)
      /\ Len(Items) = IF b + 1 <= t THEN t - (b + 1) + 1 ELSE 0
      /\ \A i \in 1..t - (b + 1) + 1 : Items[i] = show[b + 1 + i - 1]
    BY <1>3, <1>4, <1>5, SubSeqProperties
<1>7. PageSize \in Nat \ {0} /\ Len(show) \in Nat  BY HorizonCovers DEF TypeOK
<1>8. Len(Items) \in Nat  BY <1>6
<1>9. \A i \in 1..Len(Items) : b + i \in 1..Len(show) /\ Items[i] = show[b + i]
    BY <1>1, <1>2, <1>4, <1>6, <1>7, <1>8
<1>10. \A j \in 1..Len(show) : j > b /\ j <= b + PageSize => j - b \in 1..Len(Items)
    BY <1>1, <1>2, <1>4, <1>6, <1>7
<1>11. b + PageSize <= Len(show) => Len(Items) = PageSize
    BY <1>1, <1>2, <1>4, <1>6, <1>7
<1> QED BY <1>1, <1>6, <1>9, <1>10, <1>11 DEF b

LEMMA WithinReach ==
    ASSUME TypeOK, NEW e
    PROVE  e \in Reachable <=> \E i \in 1..Len(show) : i <= MaxPages * PageSize /\ show[i] = e
<1> DEFINE m == MaxPages * PageSize
           t == Min({PageSize * MaxPages, Len(show)})
<1>1. m \in Nat /\ PageSize * MaxPages = m /\ Len(show) \in Nat  BY HorizonCovers DEF TypeOK
<1>2. t = IF m <= Len(show) THEN m ELSE Len(show)
    <2> HIDE DEF m
    <2> QED BY <1>1, PairMin
<1>3. \A i \in 1..t : show[i] \in Episodes  BY <1>1, <1>2 DEF TypeOK
<1> HIDE DEF m, t
<1>4. /\ SubSeq(show, 1, t) \in Seq(Episodes)
      /\ Len(SubSeq(show, 1, t)) = IF 1 <= t THEN t - 1 + 1 ELSE 0
      /\ \A i \in 1..t - 1 + 1 : SubSeq(show, 1, t)[i] = show[1 + i - 1]
    BY <1>1, <1>2, <1>3, SubSeqProperties
<1>5. Len(SubSeq(show, 1, t)) = t /\ t \in Nat /\ \A i \in 1..t : SubSeq(show, 1, t)[i] = show[i]
    BY <1>1, <1>2, <1>4
<1>6. Reachable = ToSet(SubSeq(show, 1, t))  BY DEF Reachable, t
<1>7. e \in Reachable <=> Member(e, SubSeq(show, 1, t))  BY <1>4, <1>6, Members
<1>8. e \in Reachable <=> \E i \in 1..t : show[i] = e  BY <1>5, <1>7 DEF Member
<1> QED BY <1>1, <1>2, <1>8 DEF m

LEMMA Sizes ==
    /\ N \in Nat /\ PageSize \in Nat \ {0} /\ MaxPages \in Nat \ {0}
    /\ Inactivity \in Nat /\ Degraded \in Nat /\ Horizon \in Nat \ {0} /\ MaxOwner \in Nat
    /\ Degraded > 0 /\ Degraded < Inactivity /\ Never = Inactivity + 1
<1>1. Horizon \in Nat /\ Horizon > Retention[Patient] /\ Retention[Patient] \in Nat
    BY HorizonCovers
<1> QED BY <1>1, HorizonCovers DEF Never

\* A show without repetitions has at most N episodes.
LEMMA SortedLength ==
    ASSUME TypeOK, Sorted
    PROVE  Len(show) \in 0..N
<1>1. Len(show) \in Nat /\ \A i \in 1..Len(show) : show[i] \in 1..N
    BY Sizes DEF TypeOK, Episodes
<1>2. SUFFICES ASSUME Len(show) > N  PROVE FALSE  BY <1>1, Sizes
<1>3. IsFiniteSet(1..N) /\ Cardinality(1..N) = N
    <2>1. 1 \in Int /\ N \in Int  BY Sizes
    <2>2. IsFiniteSet(1..N) /\ Cardinality(1..N) = IF 1 > N THEN 0 ELSE N - 1 + 1
        BY <2>1, FS_Interval
    <2> QED BY <2>2, Sizes
<1>4. IsFiniteSet(1..Len(show)) /\ Cardinality(1..Len(show)) = Len(show)
    <2> DEFINE l == Len(show)
    <2>1. 1 \in Int /\ l \in Int /\ l \in Nat  BY <1>1
    <2> HIDE DEF l
    <2>2. IsFiniteSet(1..l) /\ Cardinality(1..l) = IF 1 > l THEN 0 ELSE l - 1 + 1
        BY <2>1, FS_Interval
    <2>3. IsFiniteSet(1..l) /\ Cardinality(1..l) = l  BY <2>1, <2>2
    <2> QED BY <2>3 DEF l
<1>5. show \in [1..Len(show) -> 1..N]  BY <1>1, LenProperties DEF TypeOK, Episodes
<1>6. \E i, j \in 1..Len(show) : i # j /\ show[i] = show[j]
    <2>1. N < Len(show)  BY <1>2
    <2> HIDE DEF Episodes
    <2> QED BY <2>1, <1>3, <1>4, <1>5, FS_PigeonHole
<1>7. PICK i \in 1..Len(show), j \in 1..Len(show) : i # j /\ show[i] = show[j]  BY <1>6
<1>8. i < j \/ j < i  BY <1>7
<1>9. show[i] \in Int /\ show[j] \in Int  BY <1>1
<1> QED BY <1>7, <1>8, <1>9 DEF Sorted

LEMMA TimesAndPages ==
    ASSUME TypeOK, TimePasses
    PROVE  /\ age' \in [Episodes -> 0..Horizon] /\ det' \in DetectorRows /\ src' \in SourceRows
           /\ \A e \in Episodes : age'[e] = IF e > listed THEN 0
                                             ELSE IF age[e] < Horizon THEN age[e] + 1 ELSE Horizon
           /\ det'.looked = IF det.looked < Degraded THEN det.looked + 1 ELSE Degraded
<1>1. \A e \in Episodes : Min({age[e] + 1, Horizon}) = IF age[e] < Horizon THEN age[e] + 1 ELSE Horizon
    <2>1. TAKE e \in Episodes
    <2>2. age[e] \in Nat /\ age[e] <= Horizon  BY Sizes DEF TypeOK
    <2>3. Min({age[e] + 1, Horizon}) = IF age[e] + 1 <= Horizon THEN age[e] + 1 ELSE Horizon
        BY <2>2, PairMin, Sizes
    <2> QED BY <2>2, <2>3, Sizes
<1>2. Min({det.looked + 1, Degraded}) = IF det.looked < Degraded THEN det.looked + 1 ELSE Degraded
    <2>1. det.looked \in Nat /\ det.looked <= Degraded
        BY Sizes DEF TypeOK, DetectorRows
    <2>2. Min({det.looked + 1, Degraded}) = IF det.looked + 1 <= Degraded THEN det.looked + 1 ELSE Degraded
        BY <2>1, PairMin, Sizes
    <2> QED BY <2>1, <2>2, Sizes
<1>3. age' \in [Episodes -> 0..Horizon]
    <2>1. ASSUME NEW e \in Episodes
          PROVE  (IF e <= listed THEN Min({age[e] + 1, Horizon}) ELSE 0) \in 0..Horizon
        <3>1. age[e] \in Nat /\ age[e] <= Horizon  BY Sizes DEF TypeOK
        <3> QED BY <1>1, <3>1, Sizes
    <2> QED BY <2>1 DEF TimePasses
<1>4. det' \in DetectorRows /\ det'.looked = Min({det.looked + 1, Degraded})
    <2>1. Min({det.looked + 1, Degraded}) \in 0..Degraded
        <3>1. det.looked \in Nat  BY Sizes DEF TypeOK, DetectorRows
        <3> QED BY <1>2, <3>1, Sizes
    <2>2. Older(det.anchor) \in 0..Never
        <3>1. det.anchor \in 0..Never  BY DEF TypeOK, DetectorRows
        <3> QED BY <3>1, Sizes DEF Older
    <2> QED BY <2>1, <2>2 DEF TimePasses, TypeOK, DetectorRows
<1>5. src' \in SourceRows
    <2>1. Older(src.refresh) \in 0..Never
        <3>1. src.refresh \in 0..Never  BY DEF TypeOK, SourceRows
        <3> QED BY <3>1, Sizes DEF Older
    <2> QED BY <2>1 DEF TimePasses, TypeOK, SourceRows
<1>6. \A e \in Episodes : age'[e] = IF e <= listed THEN Min({age[e] + 1, Horizon}) ELSE 0
    BY DEF TimePasses
<1>7. \A e \in Episodes : e <= listed <=> ~(e > listed)  BY Sizes DEF TypeOK, Episodes
<1> QED BY <1>1, <1>2, <1>3, <1>4, <1>5, <1>6, <1>7

LEMMA Prepended ==
    ASSUME NEW S, NEW s \in Seq(S), NEW e \in S
    PROVE  /\ <<e>> \o s \in Seq(S) /\ Len(<<e>> \o s) = Len(s) + 1
           /\ (<<e>> \o s)[1] = e
           /\ \A i \in 2..Len(s) + 1 : (<<e>> \o s)[i] = s[i - 1]
<1>1. <<e>> \in Seq(S) /\ Len(<<e>>) = 1 /\ <<e>>[1] = e  OBVIOUS
<1>2. Len(s) \in Nat  BY LenProperties
<1>3. /\ <<e>> \o s \in Seq(S) /\ Len(<<e>> \o s) = Len(<<e>>) + Len(s)
      /\ \A i \in 1 .. Len(<<e>>) + Len(s) :
           (<<e>> \o s)[i] = IF i <= Len(<<e>>) THEN <<e>>[i] ELSE s[i - Len(<<e>>)]
    BY <1>1, ConcatProperties
<1> DEFINE u == <<e>> \o s
           one == <<e>>
<1> HIDE DEF u, one
<1>4. /\ u \in Seq(S) /\ Len(u) = 1 + Len(s)
      /\ \A i \in 1 .. 1 + Len(s) : u[i] = IF i <= 1 THEN e ELSE s[i - 1]
    <2>1. /\ u \in Seq(S) /\ Len(u) = Len(one) + Len(s)
          /\ \A i \in 1 .. Len(one) + Len(s) : u[i] = IF i <= Len(one) THEN one[i] ELSE s[i - Len(one)]
        BY <1>3 DEF u, one
    <2>2. Len(one) = 1 /\ one[1] = e  BY <1>1 DEF one
    <2> QED BY <1>2, <2>1, <2>2
<1>5. Len(u) = Len(s) + 1 /\ u[1] = e /\ \A i \in 2..Len(s) + 1 : u[i] = s[i - 1]
    BY <1>2, <1>4
<1> QED BY <1>4, <1>5 DEF u

LEMMA Beginnings ==
    /\ 0 \in 0..MaxPages /\ 0 \in 0..N /\ 0 \in 0..Horizon
    /\ 0 \in 0..Degraded /\ 0 \in 0..Never
    /\ <<>> \in Seq(Episodes \cup {Null})
    /\ NoDetector \in DetectorRows /\ NoSource \in SourceRows
<1>1. Degraded \in 0..Degraded /\ Never \in 0..Never  BY Sizes
<1> QED BY <1>1, Sizes DEF NoDetector, DetectorRows, NoSource, SourceRows

LEMMA CyclesTyped ==
    ASSUME TypeOK
    PROVE  /\ NoCycle \in Cycles /\ [NoCycle EXCEPT !.pc = "observe"] \in Cycles
           /\ PlaylistsWith(cyc) \in Cycles /\ Unrefreshed(cyc) \in Cycles
           /\ \A r \in 0..Horizon : FetchWith(cyc, r) \in Cycles
<1>1. NoCycle \in Cycles /\ [NoCycle EXCEPT !.pc = "observe"] \in Cycles
    BY Beginnings DEF NoCycle, Cycles, Stages
<1>2. PlaylistsWith(cyc) \in Cycles
    BY Beginnings DEF PlaylistsWith, TypeOK, Cycles, Stages
<1>3. Unrefreshed(cyc) \in Cycles
    <2>1. CASE cyc.escalation
        <3>1. Unrefreshed(cyc) =
                [cyc EXCEPT !.pc = "playlists", !.escalation = FALSE, !.episodes = journal,
                       !.todo = @ \ {First(cyc.todo)}, !.pages = 0, !.seen = <<>>,
                       !.cut = 0, !.complete = FALSE]
            BY <2>1 DEF Unrefreshed
        <3>2. cyc.todo \ {First(cyc.todo)} \in SUBSET Playlists  BY DEF TypeOK, Cycles
        <3> QED BY <3>1, <3>2, Beginnings DEF TypeOK, Cycles, Stages
    <2> QED BY <1>2, <2>1 DEF Unrefreshed
<1>4. ASSUME NEW r \in 0..Horizon  PROVE FetchWith(cyc, r) \in Cycles
    BY Beginnings DEF FetchWith, TypeOK, Cycles, Stages
<1> QED BY <1>1, <1>2, <1>3, <1>4


LEMMA Typed ==
    ASSUME IInv, [Next]_vars
    PROVE  TypeOK'
<1> USE DEF IInv
<1>1. CASE Listed
    <2>1. listed < N /\ listed' = listed + 1 /\ show' = <<listed + 1>> \o show
        BY <1>1 DEF Listed
    <2>2. listed' \in 0..N /\ listed + 1 \in Episodes  BY <2>1, Sizes DEF TypeOK, Episodes
    <2>3. show' \in Seq(Episodes)  BY <2>1, <2>2, Prepended DEF TypeOK
    <2>4. ghost' = ghost \/ ghost' = [ghost EXCEPT !.since = @ \cup {listed + 1}]
        BY <1>1 DEF Listed
    <2> QED BY <1>1, <2>2, <2>3, <2>4 DEF Listed, TypeOK
<1>2. CASE \E e \in Episodes : Removed(e)
    <2>1. PICK i \in 1..Len(show) : show' = RemoveAt(show, i)
        BY <1>2, LenProperties DEF Removed, TypeOK
    <2>2. show' \in Seq(Episodes)  BY <2>1, ShowWithout
    <2> QED BY <1>2, <2>2 DEF Removed, TypeOK
<1>3. CASE SourceCleared
    <2>1. det' \in DetectorRows /\ src' \in SourceRows  BY <1>3, Beginnings DEF SourceCleared, TypeOK
    <2>2. changes' \in 0..MaxOwner  BY <1>3, Sizes DEF SourceCleared, OwnerActs, TypeOK
    <2> QED BY <1>3, <2>1, <2>2 DEF SourceCleared, Restarted, world, TypeOK
<1>4. CASE \E p \in Playlists : Toggled(p)
    <2>1. PICK p \in Playlists : Toggled(p)  BY <1>4
    <2>2. changes' \in 0..MaxOwner  BY <2>1, Sizes DEF Toggled, OwnerActs, TypeOK
    <2>3. enabled' \subseteq Playlists  BY <2>1 DEF Toggled, TypeOK
    <2> QED BY <2>1, <2>2, <2>3 DEF Toggled, Restarted, world, TypeOK
<1>5. CASE CycleStarts
    <2>1. age' \in [Episodes -> 0..Horizon] /\ det' \in DetectorRows /\ src' \in SourceRows
        BY <1>5, TimesAndPages DEF CycleStarts
    <2>2. cyc' \in Cycles  BY <1>5, CyclesTyped DEF CycleStarts, TypeOK
    <2> QED BY <1>5, <2>1, <2>2 DEF CycleStarts, world, TypeOK
<1>6. CASE NothingEnabled
    <2>1. age' \in [Episodes -> 0..Horizon] /\ det' \in DetectorRows /\ src' \in SourceRows
        BY <1>6, TimesAndPages DEF NothingEnabled
    <2>2. cyc' \in Cycles  BY <1>6, CyclesTyped DEF NothingEnabled, TypeOK
    <2> QED BY <1>6, <2>1, <2>2 DEF NothingEnabled, world, TypeOK
<1>7. CASE EpisodeObserved
    <2>1. PICK c \in BOOLEAN :
            /\ cyc' = [cyc EXCEPT !.pc = "plan", !.changed = c]
            /\ det' = [det EXCEPT !.exists = TRUE, !.known = TRUE, !.failing = FALSE,
                     !.looked = 0, !.anchor = IF c THEN 0 ELSE @, !.newer = @ \/ c]
        BY <1>7 DEF EpisodeObserved, Shown, ObservedAs
    <2>2. cyc' \in Cycles  BY <2>1 DEF TypeOK, Cycles, Stages
    <2>3. det' \in DetectorRows  BY <2>1, Beginnings DEF TypeOK, DetectorRows
    <2> QED BY <1>7, <2>2, <2>3 DEF EpisodeObserved, Shown, ObservedAs, world, TypeOK
<1>8. CASE PageFailed
    <2>1. PICK c \in BOOLEAN :
            /\ cyc' = [cyc EXCEPT !.pc = "plan", !.changed = c]
            /\ det' = [det EXCEPT !.exists = TRUE, !.failing = TRUE]
        BY <1>8 DEF PageFailed, TitleChanged, DetectorFailing, ObservedAs
    <2>2. cyc' \in Cycles  BY <2>1 DEF TypeOK, Cycles, Stages
    <2>3. det' \in DetectorRows  BY <2>1, Beginnings DEF TypeOK, DetectorRows
    <2> QED BY <1>8, <2>2, <2>3 DEF PageFailed, TitleChanged, DetectorFailing, ObservedAs, world, TypeOK
<1>9. CASE DetectorNotPersisted
    <2>1. PICK c \in BOOLEAN :
            /\ cyc' = [cyc EXCEPT !.pc = "plan", !.changed = c]
            /\ det' = det
        BY <1>9 DEF DetectorNotPersisted, ObservedAs
    <2>2. cyc' \in Cycles  BY <2>1 DEF TypeOK, Cycles, Stages
    <2>3. det' \in DetectorRows  BY <2>1, Beginnings DEF TypeOK, DetectorRows
    <2> QED BY <1>9, <2>2, <2>3 DEF DetectorNotPersisted, ObservedAs, world, TypeOK
<1>10. CASE PlanUrgent
    <2>1. cyc' \in Cycles
        <3>1. MaxRetention \in 0..Horizon
            BY <1>10, LongestRetention, Sizes DEF PlanUrgent, Placed
        <3> QED BY <1>10, <3>1, CyclesTyped DEF PlanUrgent, FetchBegins
    <2>2. ToSet(show) \subseteq Episodes  BY DEF ToSet, TypeOK
    <2>3. det' \in DetectorRows  BY <1>10, Beginnings DEF PlanUrgent, TypeOK, DetectorRows
    <2> QED BY <1>10, <2>1, <2>2, <2>3 DEF PlanUrgent, FetchBegins, world, TypeOK
<1>11. CASE PlanDegradedAudit
    <2>1. cyc' \in Cycles
        <3>1. MaxRetention \in 0..Horizon
            BY <1>11, LongestRetention, Sizes DEF PlanDegradedAudit, Placed
        <3> QED BY <1>11, <3>1, CyclesTyped DEF PlanDegradedAudit, FetchBegins
    <2>2. ToSet(show) \subseteq Episodes  BY DEF ToSet, TypeOK
    <2>3. det' \in DetectorRows  BY <1>11, Beginnings DEF PlanDegradedAudit, TypeOK, DetectorRows
    <2> QED BY <1>11, <2>1, <2>2, <2>3 DEF PlanDegradedAudit, FetchBegins, world, TypeOK
<1>12. CASE PlanAudit
    <2>1. cyc' \in Cycles
        <3>1. MaxRetention \in 0..Horizon
            BY <1>12, LongestRetention, Sizes DEF PlanAudit, Placed
        <3> QED BY <1>12, <3>1, CyclesTyped DEF PlanAudit, FetchBegins
    <2>2. ToSet(show) \subseteq Episodes  BY DEF ToSet, TypeOK
    <2>3. det' \in DetectorRows  BY <1>12, Beginnings DEF PlanAudit, TypeOK, DetectorRows
    <2> QED BY <1>12, <2>1, <2>2, <2>3 DEF PlanAudit, FetchBegins, world, TypeOK
<1>13. CASE PlanNothing
    <2>1. DegradedAuditDue \in BOOLEAN  BY DEF DegradedAuditDue, TypeOK, DetectorRows
    <2>2. cyc' \in Cycles
        <3>1. PlaylistsWith(cyc) \in Cycles  BY CyclesTyped
        <3>2. cyc' = [PlaylistsWith(cyc) EXCEPT !.faulty = DegradedAuditDue]  BY <1>13 DEF PlanNothing
        <3> QED BY <2>1, <3>1, <3>2 DEF Cycles
    <2> QED BY <1>13, <2>2 DEF PlanNothing, world, TypeOK
<1>14. CASE \E nulls \in SUBSET Episodes : PageFetched(nulls)
    <2>1. PICK nulls \in SUBSET Episodes : PageFetched(nulls)  BY <1>14
    <2>2. Candidates(nulls) \in Seq(Episodes \cup {Null})
        <3>1. Items \in Seq(Episodes)  BY ItemsRead
        <3> QED BY <3>1 DEF Candidates
    <2>3. cyc.seen \o Candidates(nulls) \in Seq(Episodes \cup {Null})
        BY <2>2, ConcatProperties DEF TypeOK, Cycles
    <2>4. Len(show) \in 0..N  BY SortedLength
    <2>5. cyc.pages + 1 \in 0..MaxPages  BY <2>1, Sizes DEF PageFetched, Paged, TypeOK, Cycles
    <2> DEFINE complete == (cyc.pages + 1) * PageSize >= Len(show)
               pc == IF complete \/ cyc.pages + 1 = MaxPages THEN "apply" ELSE "fetch"
    <2>6. cyc' = [cyc EXCEPT !.pages = @ + 1, !.total = Len(show), !.seen = @ \o Candidates(nulls),
                  !.nulls = @ \/ nulls # {}, !.complete = complete,
                  !.faulty = @ \/ nulls # {}, !.pc = pc]
        BY <2>1 DEF PageFetched
    <2>7. complete \in BOOLEAN /\ pc \in Stages  BY DEF Stages
    <2> HIDE DEF complete, pc
    <2>8. cyc' \in Cycles  BY <2>3, <2>4, <2>5, <2>6, <2>7 DEF TypeOK, Cycles
    <2> QED BY <2>1, <2>8 DEF PageFetched, world, TypeOK
<1>15. CASE FetchFails
    <2>1. cyc' \in Cycles
        <3>1. Unrefreshed(cyc) \in Cycles  BY CyclesTyped
        <3>2. cyc' = [Unrefreshed(cyc) EXCEPT !.faulty = TRUE]  BY <1>15 DEF FetchFails
        <3> QED BY <3>1, <3>2 DEF Cycles
    <2> QED BY <1>15, <2>1 DEF FetchFails, ReadOver, world, TypeOK
<1>16. CASE RefreshApplied
    <2>1. cyc' \in Cycles  BY <1>16 DEF RefreshApplied, TypeOK, Cycles, Stages
    <2>2. journal' \subseteq Episodes
        <3>1. ToSet(cyc.seen) \subseteq Episodes \cup {Null}  BY DEF ToSet, TypeOK, Cycles
        <3> QED BY <1>16, <3>1 DEF RefreshApplied, Replaced, Accepted, TypeOK
    <2>3. src' \in SourceRows
        <3>1. CoverageProven \in BOOLEAN  BY DEF CoverageProven, BoundaryCovers
        <3>2. cyc.cut \in 0..Horizon /\ 0 \in 0..Never
            BY Sizes DEF Never, TypeOK, Cycles
        <3> QED BY <1>16, <3>1, <3>2 DEF RefreshApplied, Authority, SourceRows
    <2>5. det' \in DetectorRows  BY <1>16 DEF RefreshApplied, TypeOK, DetectorRows
    <2>4. ghost' \in [owed : SUBSET Episodes, possible : SUBSET Episodes, since : SUBSET Episodes,
                     throughout : SUBSET Episodes, waited : Nat, blocked : Nat]
        BY <1>16 DEF RefreshApplied, ReadOver, TypeOK
    <2> QED BY <1>16, <2>1, <2>2, <2>3, <2>4, <2>5 DEF RefreshApplied, world, TypeOK
<1>17. CASE RefreshNotApplied
    <2>1. cyc' \in Cycles
        <3>1. Unrefreshed(cyc) \in Cycles  BY CyclesTyped
        <3>2. cyc' = [Unrefreshed(cyc) EXCEPT !.faulty = TRUE]  BY <1>17 DEF RefreshNotApplied
        <3> QED BY <3>1, <3>2 DEF Cycles
    <2> QED BY <1>17, <2>1 DEF RefreshNotApplied, ReadOver, world, TypeOK
<1>18. CASE RefreshMarked
    <2>1. Accepted(cyc.seen) \subseteq Episodes
        <3>1. ToSet(cyc.seen) \subseteq Episodes \cup {Null}  BY DEF ToSet, TypeOK, Cycles
        <3> QED BY <3>1 DEF Accepted
    <2>2. cyc' \in Cycles
        <3>1. CASE cyc.escalation
            BY <1>18, <3>1, CyclesTyped DEF RefreshMarked
        <3>2. CASE ~cyc.escalation
            <4>1. PlaylistsWith(cyc) \in Cycles  BY CyclesTyped
            <4>2. (IF cyc.nulls THEN Accepted(cyc.seen) ELSE {}) \in SUBSET Episodes  BY <2>1
            <4>3. cyc' = [PlaylistsWith(cyc) EXCEPT
                            !.partial = IF cyc.nulls THEN Accepted(cyc.seen) ELSE {}]
                BY <1>18, <3>2 DEF RefreshMarked
            <4> QED BY <4>1, <4>2, <4>3 DEF Cycles
        <3> QED BY <3>1, <3>2
    <2>3. det' \in DetectorRows
        <3>1. 0 \in 0..Never  BY Sizes DEF Never
        <3> QED BY <1>18, <3>1 DEF RefreshMarked, TypeOK, DetectorRows
    <2> QED BY <1>18, <2>2, <2>3 DEF RefreshMarked, world, TypeOK
<1>19. CASE RefreshNotMarked
    <2>1. cyc' \in Cycles
        <3>1. Unrefreshed(cyc) \in Cycles  BY CyclesTyped
        <3>2. cyc' = [Unrefreshed(cyc) EXCEPT !.faulty = TRUE]  BY <1>19 DEF RefreshNotMarked
        <3> QED BY <3>1, <3>2 DEF Cycles
    <2> QED BY <1>19, <2>1 DEF RefreshNotMarked, ReadOver, world, TypeOK
<1>20. CASE \E p \in Playlists : Reconciled(p)
    <2>1. PICK p \in Playlists : Reconciled(p)  BY <1>20
    <2>2. cyc' = [cyc EXCEPT !.todo = @ \ {p}]  BY <2>1 DEF Reconciled
    <2>3. cyc' \in Cycles  BY <2>2 DEF TypeOK, Cycles
    <2> QED BY <2>1, <2>3 DEF Reconciled, world, TypeOK
<1>21. CASE \E p \in Playlists : StaleRejected(p)
    <2>1. PICK p \in Playlists : StaleRejected(p)  BY <1>21
    <2>2. Retention[p] \in 0..Horizon  BY HorizonCovers
    <2>3. cyc' \in Cycles
        <3>1. FetchWith(cyc, Retention[p]) \in Cycles  BY <2>2, CyclesTyped
        <3>2. cyc' = [FetchWith(cyc, Retention[p]) EXCEPT !.escalation = TRUE, !.faulty = TRUE]
            BY <2>1 DEF StaleRejected
        <3> QED BY <3>1, <3>2 DEF Cycles
    <2>4. ToSet(show) \subseteq Episodes  BY DEF ToSet, TypeOK
    <2> QED BY <2>1, <2>3, <2>4 DEF StaleRejected, world, TypeOK
<1>22. CASE \E p \in Playlists : Preserved(p)
    <2>1. PICK p \in Playlists : Preserved(p)  BY <1>22
    <2>2. cyc' = [cyc EXCEPT !.todo = @ \ {p}]  BY <2>1 DEF Preserved
    <2>3. cyc' \in Cycles  BY <2>2 DEF TypeOK, Cycles
    <2> QED BY <2>1, <2>3 DEF Preserved, world, TypeOK
<1>23. CASE CycleEnds
    <2>1. cyc' \in Cycles  BY <1>23, CyclesTyped DEF CycleEnds
    <2>2. CASE cyc.faulty
        BY <1>23, <2>1, <2>2 DEF CycleEnds, Restarted, ReadOver, world, TypeOK
    <2>3. CASE ~cyc.faulty
        <3> DEFINE w == IF Watched \in Reachable \ journal' THEN ghost.waited + 1 ELSE 0
                   b == IF Patient \in enabled /\ ~Ready(Patient) /\ Reachable = ToSet(show)
                        THEN ghost.blocked + 1 ELSE 0
        <3>1. w \in Nat /\ b \in Nat  BY DEF TypeOK
        <3>2. ghost' = [ReadOver EXCEPT !.waited = w, !.blocked = b]
            BY <1>23, <2>3 DEF CycleEnds, ReadOver, TypeOK
        <3> HIDE DEF w, b
        <3> QED BY <1>23, <2>1, <3>1, <3>2 DEF CycleEnds, ReadOver, world, TypeOK
    <2> QED BY <2>2, <2>3
<1>24. CASE Aborted
    <2>1. cyc' \in Cycles  BY <1>24, CyclesTyped DEF Aborted
    <2> QED BY <1>24, <2>1 DEF Aborted, Restarted, ReadOver, world, TypeOK
<1>25. CASE UNCHANGED vars
    BY <1>25 DEF vars, TypeOK
<1> QED BY <1>1, <1>2, <1>3, <1>4, <1>5, <1>6, <1>7, <1>8, <1>9, <1>10, <1>11, <1>12, <1>13, <1>14, <1>15, <1>16, <1>17, <1>18, <1>19, <1>20, <1>21, <1>22, <1>23, <1>24, <1>25 DEF Next, Observes, Plans, Serves

\* What a step may do to the show and to the ages of its episodes.
LEMMA WorldMoves ==
    ASSUME [Next]_vars
    PROVE  \/ Listed
           \/ \E e \in Episodes : Removed(e)
           \/ TimePasses /\ UNCHANGED world
           \/ UNCHANGED <<world, age>>
BY DEF Next, SourceCleared, Toggled, CycleStarts, NothingEnabled, Observes, EpisodeObserved,
       PageFailed, DetectorNotPersisted, ObservedAs, Plans, PlanUrgent, PlanDegradedAudit,
       PlanAudit, PlanNothing, PageFetched, FetchFails, RefreshApplied, RefreshNotApplied,
       RefreshMarked, RefreshNotMarked, Serves, Reconciled, StaleRejected, Preserved, CycleEnds,
       Aborted, vars, world

LEMMA ShowTyped ==
    ASSUME TypeOK
    PROVE  /\ Len(show) \in Nat /\ listed \in Nat
           /\ \A i \in 1..Len(show) : show[i] \in 1..N
           /\ \A e \in Episodes : age[e] \in Nat /\ age[e] <= Horizon /\ e \in Nat
BY Sizes, LenProperties, ElementOfSeq DEF TypeOK, Episodes

LEMMA StaysSorted ==
    ASSUME IInv, [Next]_vars
    PROVE  Sorted'
<1> USE DEF IInv
<1>1. CASE Listed
    <2>1. /\ listed < N /\ listed' = listed + 1 /\ show' = <<listed + 1>> \o show
          /\ UNCHANGED age
        BY <1>1 DEF Listed
    <2>2. listed + 1 \in Episodes  BY <2>1, Sizes, ShowTyped DEF Episodes
    <2>3. /\ Len(show') = Len(show) + 1 /\ show'[1] = listed + 1
          /\ \A i \in 2..Len(show) + 1 : show'[i] = show[i - 1]
        BY <2>1, <2>2, Prepended DEF TypeOK
    <2>4. \A i \in 1..Len(show') : show'[i] <= listed'
        BY <2>1, <2>3, ShowTyped DEF Sorted
    <2>5. ASSUME NEW i \in 1..Len(show'), NEW j \in 1..Len(show'), i < j
          PROVE  show'[i] > show'[j]
        <3>1. j - 1 \in 1..Len(show) /\ show'[j] = show[j - 1] /\ show[j - 1] \in Nat
            BY <2>3, <2>5, ShowTyped
        <3>2. CASE i = 1  BY <2>3, <3>1, <3>2, ShowTyped DEF Sorted
        <3>3. CASE i # 1
            <4>1. i - 1 \in 1..Len(show) /\ show'[i] = show[i - 1] /\ i - 1 < j - 1
                BY <2>3, <2>5, <3>3, ShowTyped
            <4> QED BY <3>1, <4>1 DEF Sorted
        <3> QED BY <3>2, <3>3
    <2>6. \A e \in Episodes : e > listed' => age'[e] = 0
        BY <2>1, ShowTyped DEF Sorted, Episodes
    <2> QED BY <2>1, <2>4, <2>5, <2>6 DEF Sorted
<1>2. CASE \E e \in Episodes : Removed(e)
    <2>1. PICK k \in 1..Len(show) : show' = RemoveAt(show, k)
        BY <1>2, LenProperties DEF Removed, TypeOK
    <2>2. UNCHANGED <<listed, age>>  BY <1>2 DEF Removed
    <2>3. /\ Len(show') = Len(show) - 1
          /\ \A j \in 1..Len(show) - 1 : show'[j] = IF j < k THEN show[j] ELSE show[j + 1]
        BY <2>1, ShowWithout
    <2>4. \A i \in 1..Len(show') : show'[i] <= listed'
        BY <2>2, <2>3, ShowTyped DEF Sorted
    <2>5. ASSUME NEW i \in 1..Len(show'), NEW j \in 1..Len(show'), i < j
          PROVE  show'[i] > show'[j]
        <3>1. PICK d \in {i, i + 1} : d \in 1..Len(show) /\ show'[i] = show[d] /\ (d = i <=> i < k)
            BY <2>3, ShowTyped
        <3>2. PICK e \in {j, j + 1} : e \in 1..Len(show) /\ show'[j] = show[e] /\ (e = j <=> j < k)
            BY <2>3, ShowTyped
        <3>3. d < e  BY <2>5, <3>1, <3>2
        <3> QED BY <3>1, <3>2, <3>3 DEF Sorted
    <2> QED BY <2>2, <2>4, <2>5 DEF Sorted
<1>3. CASE TimePasses /\ UNCHANGED world
    <2>1. \A e \in Episodes : age'[e] = IF e > listed THEN 0
                                        ELSE IF age[e] < Horizon THEN age[e] + 1 ELSE Horizon
        BY <1>3, TimesAndPages
    <2>2. UNCHANGED <<show, listed>>  BY <1>3 DEF world
    <2>3. \A d, e \in Episodes : d < e => age'[d] >= age'[e]
        <3>1. TAKE d, e \in Episodes
        <3>2. HAVE d < e
        <3>3. age[d] >= age[e] /\ (d > listed => age[d] = 0)  BY <3>2 DEF Sorted
        <3>4. d > listed => e > listed  BY <3>2, ShowTyped
        <3> QED BY <2>1, <3>3, <3>4, ShowTyped, Sizes
    <2> QED BY <2>1, <2>2, <2>3 DEF Sorted
<1>4. CASE UNCHANGED <<world, age>>
    BY <1>4 DEF Sorted, world
<1> QED BY <1>1, <1>2, <1>3, <1>4, WorldMoves

\* What a step may do to the detector's row.
LEMMA DetectorMoves ==
    ASSUME [Next]_vars
    PROVE  \/ SourceCleared \/ TimePasses \/ EpisodeObserved \/ PageFailed
           \/ PlanDegradedAudit \/ RefreshApplied \/ RefreshMarked
           \/ UNCHANGED det
BY DEF Next, Listed, Removed, Toggled, CycleStarts, NothingEnabled, Observes,
       DetectorNotPersisted, ObservedAs, Plans, PlanUrgent,
       PlanAudit, PlanNothing, PageFetched, FetchFails, RefreshNotApplied,
       RefreshNotMarked, Serves, Reconciled, StaleRejected, Preserved, CycleEnds,
       Aborted, vars

LEMMA StaysDetected ==
    ASSUME IInv, [Next]_vars
    PROVE  Detected'
<1> USE DEF IInv
<1>0. det \in DetectorRows /\ Never \in Nat /\ 0 # Never  BY Sizes DEF TypeOK
<1>1. CASE SourceCleared
    BY <1>1 DEF SourceCleared, NoDetector, Detected
<1>2. CASE TimePasses
    <2>1. det'.looked = IF det.looked < Degraded THEN det.looked + 1 ELSE Degraded
        BY <1>2, TimesAndPages
    <2>2. det.looked = Degraded => det'.looked = Degraded  BY <2>1, Sizes
    <2>3. /\ det'.exists = det.exists /\ det'.known = det.known /\ det'.failing = det.failing
          /\ det'.anchor = Older(det.anchor)
        BY <1>0, <1>2 DEF TimePasses, DetectorRows
    <2>4. det.anchor = Never <=> det'.anchor = Never
        <3>1. det.anchor \in 0..Never  BY <1>0 DEF DetectorRows
        <3> QED BY <2>3, <3>1, Sizes DEF Older
    <2> QED BY <2>2, <2>3, <2>4 DEF Detected
<1>3. CASE EpisodeObserved
    <2>1. PICK c \in BOOLEAN :
            /\ det' = [det EXCEPT !.exists = TRUE, !.known = TRUE, !.failing = FALSE,
                          !.looked = 0, !.anchor = IF c THEN 0 ELSE @, !.newer = @ \/ c]
            /\ ~det.known => c
        BY <1>3 DEF EpisodeObserved, Shown, ObservedAs
    <2>2. det'.anchor = (IF c THEN 0 ELSE det.anchor) /\ det'.exists /\ det'.known
        BY <1>0, <2>1 DEF DetectorRows
    <2> QED BY <1>0, <2>1, <2>2 DEF Detected
<1>4. CASE PageFailed
    BY <1>0, <1>4 DEF PageFailed, DetectorFailing, ObservedAs, Detected, DetectorRows
<1>5. CASE PlanDegradedAudit
    BY <1>0, <1>5 DEF PlanDegradedAudit, DegradedAuditDue, Detected, DetectorRows
<1>6. CASE RefreshApplied
    BY <1>0, <1>6 DEF RefreshApplied, Detected, DetectorRows
<1>7. CASE RefreshMarked
    BY <1>0, <1>7 DEF RefreshMarked, Detected, DetectorRows
<1>8. CASE UNCHANGED det
    BY <1>8 DEF Detected
<1> QED BY <1>1, <1>2, <1>3, <1>4, <1>5, <1>6, <1>7, <1>8, DetectorMoves

LEMMA StaysPlaced ==
    ASSUME IInv, [Next]_vars
    PROVE  Placed'
<1> USE DEF IInv
<1>0. cyc \in Cycles /\ src \in SourceRows /\ Horizon \in Nat \ {0}  BY Sizes DEF TypeOK
<1>1. CASE Listed
    BY <1>0, <1>1 DEF Listed, Visible, Placed, Cycles, SourceRows, Reading
<1>2. CASE \E e \in Episodes : Removed(e)
    BY <1>0, <1>2 DEF Removed, Visible, Placed, Cycles, SourceRows, Reading
<1>3. CASE SourceCleared
    BY <1>0, <1>3 DEF SourceCleared, OwnerActs, NoSource, Placed, Cycles, SourceRows, Reading
<1>4. CASE \E p \in Playlists : Toggled(p)
    BY <1>0, <1>4 DEF Toggled, OwnerActs, Placed, Cycles, SourceRows, Reading
<1>5. CASE CycleStarts
    BY <1>0, <1>5 DEF CycleStarts, TimePasses, NoCycle, Placed, Cycles, SourceRows, Reading
<1>6. CASE NothingEnabled
    BY <1>0, <1>6 DEF NothingEnabled, TimePasses, Placed, Cycles, SourceRows, Reading
<1>7. CASE EpisodeObserved
    BY <1>0, <1>7 DEF EpisodeObserved, ObservedAs, Placed, Cycles, SourceRows, Reading
<1>8. CASE PageFailed
    BY <1>0, <1>8 DEF PageFailed, ObservedAs, Placed, Cycles, SourceRows, Reading
<1>9. CASE DetectorNotPersisted
    BY <1>0, <1>9 DEF DetectorNotPersisted, ObservedAs, Placed, Cycles, SourceRows, Reading
<1>10. CASE PlanUrgent
    <2>1. MaxRetention \in 0..Horizon - 1 /\ \A p \in enabled : Retention[p] <= MaxRetention
        BY <1>10, LongestRetention DEF PlanUrgent, Placed
    <2>2. cyc' = FetchWith(cyc, MaxRetention) /\ UNCHANGED <<src, enabled>>
        BY <1>10 DEF PlanUrgent, FetchBegins
    <2> QED BY <1>0, <1>10, <2>1, <2>2 DEF PlanUrgent, FetchWith, Placed, Cycles, Reading
<1>11. CASE PlanDegradedAudit
    <2>1. MaxRetention \in 0..Horizon - 1 /\ \A p \in enabled : Retention[p] <= MaxRetention
        BY <1>11, LongestRetention DEF PlanDegradedAudit, Placed
    <2>2. cyc' = FetchWith(cyc, MaxRetention) /\ UNCHANGED <<src, enabled>>
        BY <1>11 DEF PlanDegradedAudit, FetchBegins
    <2> QED BY <1>0, <1>11, <2>1, <2>2 DEF PlanDegradedAudit, FetchWith, Placed, Cycles, Reading
<1>12. CASE PlanAudit
    <2>1. MaxRetention \in 0..Horizon - 1 /\ \A p \in enabled : Retention[p] <= MaxRetention
        BY <1>12, LongestRetention DEF PlanAudit, Placed
    <2>2. cyc' = FetchWith(cyc, MaxRetention) /\ UNCHANGED <<src, enabled>>
        BY <1>12 DEF PlanAudit, FetchBegins
    <2> QED BY <1>0, <1>12, <2>1, <2>2 DEF PlanAudit, FetchWith, Placed, Cycles, Reading
<1>13. CASE PlanNothing
    BY <1>0, <1>13 DEF PlanNothing, PlaylistsWith, Placed, Cycles, SourceRows, Reading
<1>14. CASE \E nulls \in SUBSET Episodes : PageFetched(nulls)
    BY <1>0, <1>14 DEF PageFetched, Placed, Cycles, SourceRows, Reading
<1>15. CASE FetchFails
    BY <1>0, <1>15 DEF FetchFails, Unrefreshed, PlaylistsWith, Placed, Cycles, SourceRows, Reading
<1>16. CASE RefreshApplied
    BY <1>0, <1>16 DEF RefreshApplied, Authority, Placed, Cycles, SourceRows, Reading
<1>17. CASE RefreshNotApplied
    BY <1>0, <1>17 DEF RefreshNotApplied, Unrefreshed, PlaylistsWith, Placed, Cycles, SourceRows, Reading
<1>18. CASE RefreshMarked
    BY <1>0, <1>18 DEF RefreshMarked, Unrefreshed, PlaylistsWith, Placed, Cycles, SourceRows, Reading
<1>19. CASE RefreshNotMarked
    BY <1>0, <1>19 DEF RefreshNotMarked, Unrefreshed, PlaylistsWith, Placed, Cycles, SourceRows, Reading
<1>20. CASE \E p \in Playlists : Reconciled(p)
    BY <1>0, <1>20 DEF Reconciled, Turn, Placed, Cycles, Reading
<1>21. CASE \E p \in Playlists : StaleRejected(p)
    <2>1. PICK p \in Playlists : StaleRejected(p)  BY <1>21
    <2>2. Retention[p] < Horizon  BY HorizonCovers
    <2> QED BY <1>0, <2>1, <2>2 DEF StaleRejected, FetchWith, Turn, Placed, Cycles, Reading
<1>22. CASE \E p \in Playlists : Preserved(p)
    BY <1>0, <1>22 DEF Preserved, Turn, Placed, Cycles, Reading
<1>23. CASE CycleEnds
    BY <1>0, <1>23 DEF CycleEnds, NoCycle, Placed, Cycles, SourceRows, Reading
<1>24. CASE Aborted
    BY <1>0, <1>24 DEF Aborted, NoCycle, Placed, Cycles, SourceRows, Reading
<1>25. CASE UNCHANGED vars
    BY <1>25 DEF vars, Placed
<1> QED BY <1>1, <1>2, <1>3, <1>4, <1>5, <1>6, <1>7, <1>8, <1>9, <1>10, <1>11, <1>12, <1>13, <1>14, <1>15, <1>16, <1>17, <1>18, <1>19, <1>20, <1>21, <1>22, <1>23, <1>24, <1>25 DEF Next, Observes, Plans, Serves

\* What a page adds to what was seen.
LEMMA PageSeen ==
    ASSUME IInv, NEW nulls \in SUBSET Episodes, PageFetched(nulls)
    PROVE  /\ Len(cyc.seen) \in Nat /\ Len(Items) \in Nat
           /\ Len(cyc'.seen) = Len(cyc.seen) + Len(Items)
           /\ \A i \in 1..Len(cyc.seen) : cyc'.seen[i] = cyc.seen[i]
           /\ \A i \in 1..Len(Items) :
                /\ cyc.pages * PageSize + i \in 1..Len(show)
                /\ cyc'.seen[Len(cyc.seen) + i] =
                     IF show[cyc.pages * PageSize + i] \in nulls THEN Null
                     ELSE show[cyc.pages * PageSize + i]
<1> USE DEF IInv
<1>1. /\ Items \in Seq(Episodes)
      /\ \A i \in 1..Len(Items) : /\ cyc.pages * PageSize + i \in 1..Len(show)
                                  /\ Items[i] = show[cyc.pages * PageSize + i]
    BY ItemsRead
<1> DEFINE f == Candidates(nulls)
           b == cyc.pages * PageSize
<1>2. /\ f \in Seq(Episodes \cup {Null}) /\ Len(f) = Len(Items)
      /\ \A i \in 1..Len(Items) : f[i] = IF Items[i] \in nulls THEN Null ELSE Items[i]
    <2>1. DOMAIN Items = 1..Len(Items) /\ Len(Items) \in Nat  BY <1>1, LenProperties
    <2> QED BY <1>1, <2>1 DEF Candidates
<1>3. cyc.seen \in Seq(Episodes \cup {Null})  BY DEF TypeOK, Cycles
<1>4. cyc'.seen = cyc.seen \o f
    <2>1. cyc' = [cyc EXCEPT !.pages = @ + 1, !.total = Len(show),
                     !.seen = @ \o f, !.nulls = @ \/ nulls # {},
                     !.complete = (cyc.pages + 1) * PageSize >= Len(show), !.faulty = @ \/ nulls # {},
                     !.pc = IF (cyc.pages + 1) * PageSize >= Len(show) \/ cyc.pages + 1 = MaxPages
                            THEN "apply" ELSE "fetch"]
        BY DEF PageFetched
    <2> HIDE DEF f
    <2> QED BY <2>1 DEF TypeOK, Cycles
<1> HIDE DEF f, b
<1>5. Len(cyc.seen) \in Nat /\ Len(Items) \in Nat  BY <1>1, <1>3, LenProperties
<1>6. /\ Len(cyc'.seen) = Len(cyc.seen) + Len(Items)
      /\ \A i \in 1..Len(cyc.seen) + Len(Items) :
            cyc'.seen[i] = IF i <= Len(cyc.seen) THEN cyc.seen[i] ELSE f[i - Len(cyc.seen)]
    <2>1. /\ Len(cyc.seen \o f) = Len(cyc.seen) + Len(f)
          /\ \A i \in 1..Len(cyc.seen) + Len(f) :
                (cyc.seen \o f)[i] = IF i <= Len(cyc.seen) THEN cyc.seen[i] ELSE f[i - Len(cyc.seen)]
        <3> DEFINE T == Episodes \cup {Null}
                   s == cyc.seen
        <3>1. s \in Seq(T) /\ f \in Seq(T)  BY <1>2, <1>3
        <3> HIDE DEF T, s
        <3>2. /\ Len(s \o f) = Len(s) + Len(f)
              /\ \A i \in 1..Len(s) + Len(f) :
                    (s \o f)[i] = IF i <= Len(s) THEN s[i] ELSE f[i - Len(s)]
            BY <3>1, ConcatProperties
        <3> QED BY <3>2 DEF s
    <2> QED BY <1>2, <1>4, <2>1
<1>7. \A i \in 1..Len(cyc.seen) : cyc'.seen[i] = cyc.seen[i]  BY <1>5, <1>6
<1>8. \A i \in 1..Len(Items) : cyc'.seen[Len(cyc.seen) + i] = f[i]
    <2>1. TAKE i \in 1..Len(Items)
    <2>2. Len(cyc.seen) + i \in 1..Len(cyc.seen) + Len(Items) /\ ~(Len(cyc.seen) + i <= Len(cyc.seen))
          /\ Len(cyc.seen) + i - Len(cyc.seen) = i
        BY <1>5
    <2> QED BY <1>6, <2>2
<1> QED BY <1>1, <1>2, <1>5, <1>6, <1>7, <1>8

\* How a page changes the read.
LEMMA PageCounted ==
    ASSUME IInv, NEW nulls \in SUBSET Episodes, PageFetched(nulls)
    PROVE  /\ cyc.pages \in Nat /\ cyc'.pages = cyc.pages + 1 /\ cyc'.total = Len(show)
           /\ cyc'.pages * PageSize = cyc.pages * PageSize + PageSize
           /\ cyc.pages * PageSize \in Nat
           /\ cyc'.nulls = (cyc.nulls \/ nulls # {})
           /\ cyc'.faulty = (cyc.faulty \/ nulls # {})
           /\ cyc'.complete = (cyc'.pages * PageSize >= Len(show))
           /\ cyc'.pc = IF cyc'.complete \/ cyc'.pages = MaxPages THEN "apply" ELSE "fetch"
           /\ cyc'.cut = cyc.cut /\ cyc'.escalation = cyc.escalation
           /\ cyc.pages > 0 => cyc.total = Len(show)
           /\ cyc.pc = "fetch" /\ UNCHANGED <<world, age, det, src, journal, enabled, ghost>>
<1> USE DEF IInv
<1>1. cyc.pages \in Nat  BY Sizes DEF TypeOK, Cycles
<1>2. /\ cyc.pages * PageSize \in Nat
      /\ (cyc.pages + 1) * PageSize = cyc.pages * PageSize + PageSize
    BY <1>1, Pages
<1> DEFINE complete == (cyc.pages + 1) * PageSize >= Len(show)
<1>3. /\ cyc' = [cyc EXCEPT !.pages = @ + 1, !.total = Len(show),
                     !.seen = @ \o Candidates(nulls), !.nulls = @ \/ nulls # {},
                     !.complete = complete, !.faulty = @ \/ nulls # {},
                     !.pc = IF complete \/ cyc.pages + 1 = MaxPages THEN "apply" ELSE "fetch"]
      /\ cyc.pages > 0 => cyc.total = Len(show)
      /\ cyc.pc = "fetch" /\ UNCHANGED <<world, age, det, src, journal, enabled, ghost>>
    BY DEF PageFetched, PageAccepted
<1> HIDE DEF complete
<1>4. /\ cyc'.pages = cyc.pages + 1 /\ cyc'.total = Len(show) /\ cyc'.complete = complete
      /\ cyc'.nulls = (cyc.nulls \/ nulls # {}) /\ cyc'.faulty = (cyc.faulty \/ nulls # {})
      /\ cyc'.pc = IF complete \/ cyc.pages + 1 = MaxPages THEN "apply" ELSE "fetch"
      /\ cyc'.cut = cyc.cut /\ cyc'.escalation = cyc.escalation
    BY <1>3 DEF TypeOK, Cycles
<1> QED BY <1>1, <1>2, <1>3, <1>4 DEF complete

\* A read of the show begins.
ReadStarts ==
  /\ cyc'.pc = "fetch" /\ cyc'.pages = 0 /\ cyc'.seen = <<>> /\ ~cyc'.nulls /\ ~cyc'.complete
  /\ ghost'.since = ToSet(show) /\ ghost'.throughout = ToSet(show)
  /\ ghost'.waited = ghost.waited /\ UNCHANGED world

\* What a step may do to a read that goes on.
LEMMA ReadMoves ==
    ASSUME TypeOK, [Next]_vars
    PROVE  \/ Listed
           \/ \E e \in Episodes : Removed(e)
           \/ \E nulls \in SUBSET Episodes : PageFetched(nulls)
           \/ ReadStarts
           \/ cyc'.pc \notin {"fetch", "apply"}
           \/ UNCHANGED <<world, cyc, ghost>>
<1>0. cyc \in Cycles  BY DEF TypeOK
<1>1. CASE PlanUrgent \/ PlanDegradedAudit \/ PlanAudit
    <2>1. /\ cyc' = FetchWith(cyc, MaxRetention) /\ UNCHANGED world
          /\ ghost' = [ghost EXCEPT !.since = ToSet(show), !.throughout = ToSet(show)]
        BY <1>1 DEF PlanUrgent, PlanDegradedAudit, PlanAudit, FetchBegins
    <2> QED BY <1>0, <2>1 DEF FetchWith, ReadStarts, TypeOK, Cycles
<1>2. CASE \E p \in Playlists : StaleRejected(p)
    <2>1. PICK p \in Playlists :
            /\ cyc' = [FetchWith(cyc, Retention[p]) EXCEPT !.escalation = TRUE, !.faulty = TRUE]
            /\ ghost' = [ghost EXCEPT !.since = ToSet(show), !.throughout = ToSet(show)]
            /\ UNCHANGED world
        BY <1>2 DEF StaleRejected
    <2> QED BY <1>0, <2>1 DEF FetchWith, ReadStarts, TypeOK, Cycles
<1>3. CASE SourceCleared \/ (\E p \in Playlists : Toggled(p)) \/ NothingEnabled
    BY <1>3 DEF SourceCleared, Toggled, NothingEnabled, OwnerActs
<1>4. CASE CycleStarts \/ Observes \/ PlanNothing
    BY <1>0, <1>4 DEF CycleStarts, NoCycle, Observes, EpisodeObserved, PageFailed,
        DetectorNotPersisted, ObservedAs, PlanNothing, PlaylistsWith, Cycles
<1>5. CASE FetchFails \/ RefreshApplied \/ RefreshNotApplied \/ RefreshMarked \/ RefreshNotMarked
    BY <1>0, <1>5 DEF FetchFails, RefreshApplied, RefreshNotApplied, RefreshMarked, RefreshNotMarked,
        Unrefreshed, PlaylistsWith, Cycles
<1>6. CASE \E p \in Playlists : Reconciled(p) \/ Preserved(p)
    BY <1>0, <1>6 DEF Reconciled, Preserved, Turn, Cycles
<1>7. CASE CycleEnds \/ Aborted
    BY <1>7 DEF CycleEnds, Aborted, NoCycle
<1>8. CASE UNCHANGED vars
    BY <1>8 DEF vars, world
<1> QED BY <1>1, <1>2, <1>3, <1>4, <1>5, <1>6, <1>7, <1>8 DEF Next, Plans, Serves

LEMMA SeenTyped ==
    ASSUME TypeOK
    PROVE  /\ Len(cyc.seen) \in Nat
           /\ \A i \in 1..Len(cyc.seen) : cyc.seen[i] \in Episodes \cup {Null}
           /\ cyc.pages \in Nat /\ cyc.total \in Nat /\ cyc.pages * PageSize \in Nat
<1>1. cyc.seen \in Seq(Episodes \cup {Null}) /\ cyc.pages \in Nat /\ cyc.total \in Nat
    BY Sizes DEF TypeOK, Cycles
<1> QED BY <1>1, LenProperties, ElementOfSeq, Pages

LEMMA StaysBehind ==
    ASSUME IInv, [Next]_vars
    PROVE  Behind'
<1> USE DEF IInv
<1>1. CASE Listed
    <2>1. SUFFICES ASSUME cyc.pc = "fetch", cyc.pages > 0  PROVE Behind'
        BY <1>1 DEF Listed, Visible, Behind
    <2>2. /\ listed < N /\ show' = <<listed + 1>> \o show /\ UNCHANGED cyc
          /\ ghost'.since = ghost.since \cup {listed + 1} /\ ghost'.throughout = ghost.throughout
        BY <1>1, <2>1 DEF Listed, TypeOK
    <2>3. listed + 1 \in Episodes  BY <2>2, Sizes, ShowTyped DEF Episodes
    <2>4. /\ Len(show') = Len(show) + 1 /\ show'[1] = listed + 1
          /\ \A i \in 2..Len(show) + 1 : show'[i] = show[i - 1]
        BY <2>2, <2>3, Prepended DEF TypeOK
    <2>5. ASSUME NEW e, Member(e, show)  PROVE Member(e, show') /\ e # listed + 1
        <3>1. PICK i \in 1..Len(show) : show[i] = e  BY <2>5 DEF Member
        <3>2. i + 1 \in 2..Len(show) + 1 /\ show'[i + 1] = e /\ i + 1 \in 1..Len(show')
            BY <2>4, <3>1, ShowTyped
        <3> QED BY <3>1, <3>2, ShowTyped DEF Member, Sorted
    <2>6. /\ \A i \in 1..Len(cyc.seen) : cyc.seen[i] \in ghost.since \union {Null}
          /\ ~cyc.nulls => ~Member(Null, cyc.seen)
          /\ \A i \in 1..Len(show) : show[i] \in ghost.since
          /\ \A e \in ghost.throughout : Member(e, show)
          /\ ~cyc.nulls =>
               \A i \in 1..Len(show) :
                 show[i] \in ghost.throughout /\ ~Member(show[i], cyc.seen)
                   => Len(show) - i < cyc.total - cyc.pages * PageSize
        BY <2>1 DEF Behind
    <2>7. ASSUME NEW i \in 1..Len(show')
          PROVE  /\ show'[i] \in ghost'.since
                 /\ ~cyc.nulls /\ show'[i] \in ghost'.throughout /\ ~Member(show'[i], cyc.seen)
                      => Len(show') - i < cyc.total - cyc.pages * PageSize
        <3>1. CASE i = 1  BY <2>2, <2>4, <2>5, <2>6, <3>1
        <3>2. CASE i # 1
            <4>1. i - 1 \in 1..Len(show) /\ show'[i] = show[i - 1] /\ Len(show') - i = Len(show) - (i - 1)
                BY <2>4, <3>2, ShowTyped
            <4> QED BY <2>2, <2>6, <4>1
        <3> QED BY <3>1, <3>2
    <2>8. \A e \in ghost'.throughout : Member(e, show')  BY <2>2, <2>5, <2>6
    <2>9. \A i \in 1..Len(cyc.seen) : cyc.seen[i] \in ghost'.since \union {Null}  BY <2>2, <2>6
    <2> QED BY <2>2, <2>6, <2>7, <2>8, <2>9 DEF Behind, Member
<1>2. CASE \E e \in Episodes : Removed(e)
    <2>1. SUFFICES ASSUME cyc.pc = "fetch", cyc.pages > 0  PROVE Behind'
        BY <1>2 DEF Removed, Visible, Behind
    <2>2. PICK k \in 1..Len(show) :
            /\ show' = RemoveAt(show, k) /\ UNCHANGED cyc
            /\ ghost'.since = ghost.since /\ ghost'.throughout = ghost.throughout \ {show[k]}
        BY <1>2, LenProperties DEF Removed, TypeOK
    <2>3. /\ Len(show') = Len(show) - 1
          /\ \A j \in 1..Len(show) - 1 : show'[j] = IF j < k THEN show[j] ELSE show[j + 1]
        BY <2>2, ShowWithout
    <2>4. /\ \A i \in 1..Len(cyc.seen) : cyc.seen[i] \in ghost.since \union {Null}
          /\ ~cyc.nulls => ~Member(Null, cyc.seen)
          /\ \A i \in 1..Len(show) : show[i] \in ghost.since
          /\ \A e \in ghost.throughout : Member(e, show)
          /\ ~cyc.nulls =>
               \A i \in 1..Len(show) :
                 show[i] \in ghost.throughout /\ ~Member(show[i], cyc.seen)
                   => Len(show) - i < cyc.total - cyc.pages * PageSize
        BY <2>1 DEF Behind
    <2>5. ASSUME NEW e \in ghost'.throughout  PROVE Member(e, show')
        <3>1. PICK i \in 1..Len(show) : show[i] = e /\ i # k  BY <2>2, <2>4 DEF Member
        <3>2. CASE i < k
            <4>1. i \in 1..Len(show') /\ show'[i] = e  BY <2>3, <3>1, <3>2, ShowTyped
            <4> QED BY <4>1 DEF Member
        <3>3. CASE i > k
            <4>1. i - 1 \in 1..Len(show) - 1 /\ ~(i - 1 < k) /\ i - 1 + 1 = i  BY <3>1, <3>3, ShowTyped
            <4>2. i - 1 \in 1..Len(show') /\ show'[i - 1] = e  BY <2>3, <3>1, <4>1
            <4> QED BY <4>2 DEF Member
        <3> QED BY <3>1, <3>2, <3>3
    <2>6. ASSUME NEW i \in 1..Len(show')
          PROVE  /\ show'[i] \in ghost'.since
                 /\ ~cyc.nulls /\ show'[i] \in ghost'.throughout /\ ~Member(show'[i], cyc.seen)
                      => Len(show') - i < cyc.total - cyc.pages * PageSize
        <3>1. PICK d \in {i, i + 1} : d \in 1..Len(show) /\ show'[i] = show[d]
            BY <2>3, ShowTyped
        <3>2. /\ show[d] \in ghost.since
              /\ ~cyc.nulls /\ show[d] \in ghost.throughout /\ ~Member(show[d], cyc.seen)
                   => Len(show) - d < cyc.total - cyc.pages * PageSize
            BY <2>4, <3>1
        <3>3. Len(show') - i <= Len(show) - d  BY <2>3, <3>1, ShowTyped
        <3>4. Len(show') - i \in Int /\ Len(show) - d \in Int  BY <2>3, <3>1, ShowTyped
        <3>5. cyc.total - cyc.pages * PageSize \in Int  BY SeenTyped
        <3> QED BY <2>2, <3>1, <3>2, <3>3, <3>4, <3>5
    <2> QED BY <2>2, <2>4, <2>5, <2>6 DEF Behind, Member
<1>3. CASE \E nulls \in SUBSET Episodes : PageFetched(nulls)
    <2>1. PICK nulls \in SUBSET Episodes : PageFetched(nulls)  BY <1>3
    <2> DEFINE b == cyc.pages * PageSize
    <2>2. /\ cyc.pages \in Nat /\ b \in Nat /\ cyc'.pages * PageSize = b + PageSize
          /\ cyc'.total = Len(show) /\ cyc'.nulls = (cyc.nulls \/ nulls # {})
          /\ cyc.pages > 0 => cyc.total = Len(show)
          /\ cyc.pc = "fetch" /\ UNCHANGED <<show, ghost>>
        BY <2>1, PageCounted DEF world
    <2>3. /\ Len(cyc.seen) \in Nat /\ Len(Items) \in Nat
          /\ Len(cyc'.seen) = Len(cyc.seen) + Len(Items)
          /\ \A i \in 1..Len(cyc.seen) : cyc'.seen[i] = cyc.seen[i]
          /\ \A i \in 1..Len(Items) :
               /\ b + i \in 1..Len(show)
               /\ cyc'.seen[Len(cyc.seen) + i] = IF show[b + i] \in nulls THEN Null ELSE show[b + i]
        BY <2>1, PageSeen
    <2>4. \A j \in 1..Len(show) : j > b /\ j <= b + PageSize => j - b \in 1..Len(Items)
        <3>1. (cyc.pages + 1) * PageSize = b + PageSize  BY <2>2, Pages
        <3> QED BY <3>1, ItemsRead
    <2> HIDE DEF b
    <2>5. ASSUME NEW i \in 1..Len(cyc'.seen)
          PROVE  /\ cyc'.seen[i] \in ghost.since \union {Null}
                 /\ ~cyc'.nulls => cyc'.seen[i] # Null
        <3>1. CASE i <= Len(cyc.seen)
            <4>1. i \in 1..Len(cyc.seen)  BY <2>3, <3>1
            <4>2. cyc'.seen[i] = cyc.seen[i]  BY <2>3, <4>1
            <4> QED BY <2>2, <4>1, <4>2 DEF Behind, Member
        <3>2. CASE i > Len(cyc.seen)
            <4>1. PICK l \in 1..Len(Items) : i = Len(cyc.seen) + l
                <5>1. i - Len(cyc.seen) \in 1..Len(Items) /\ i = Len(cyc.seen) + (i - Len(cyc.seen))
                    BY <2>3, <3>2
                <5> QED BY <5>1
            <4>2. /\ b + l \in 1..Len(show)
                  /\ cyc'.seen[i] = IF show[b + l] \in nulls THEN Null ELSE show[b + l]
                BY <2>3, <4>1
            <4>3. show[b + l] \in ghost.since /\ show[b + l] # Null
                BY <2>2, <4>2, ShowTyped DEF Behind, Null
            <4> QED BY <2>2, <4>2, <4>3
        <3> QED BY <2>3, <3>1, <3>2
    <2>6. ASSUME ~cyc'.nulls, NEW j \in 1..Len(show), show[j] \in ghost.throughout,
                 ~Member(show[j], cyc'.seen)
          PROVE  Len(show) - j < Len(show) - (b + PageSize)
        <3>1. ~Member(show[j], cyc.seen)
            <4>1. ASSUME NEW i \in 1..Len(cyc.seen), cyc.seen[i] = show[j]  PROVE FALSE
                <5>1. i \in 1..Len(cyc'.seen) /\ cyc'.seen[i] = show[j]  BY <2>3, <4>1
                <5> QED BY <2>6, <5>1 DEF Member
            <4> QED BY <4>1 DEF Member
        <3>2. j > b
            <4>1. CASE cyc.pages = 0
                <5>1. b = 0  BY <4>1, Sizes DEF b
                <5> QED BY <5>1
            <4>2. CASE cyc.pages > 0
                <5>1. Len(show) - j < cyc.total - b  BY <2>2, <2>6, <3>1, <4>2 DEF Behind, b
                <5> QED BY <2>2, <4>2, <5>1, ShowTyped
            <4> QED BY <2>2, <4>1, <4>2
        <3>3. ~(j <= b + PageSize)
            <4>1. SUFFICES ASSUME j - b \in 1..Len(Items)  PROVE FALSE  BY <2>4, <3>2
            <4>2. PICK l \in 1..Len(Items) : l = j - b  BY <4>1
            <4>3. b + l = j  BY <2>2, <4>2
            <4>4. nulls = {}  BY <2>2, <2>6
            <4>5. cyc'.seen[Len(cyc.seen) + l] = show[j]  BY <2>3, <4>3, <4>4
            <4>6. Len(cyc.seen) + l \in 1..Len(cyc'.seen)  BY <2>3
            <4> QED BY <2>6, <4>5, <4>6 DEF Member
        <3> QED BY <2>2, <3>3, Sizes, ShowTyped
    <2> QED BY <2>2, <2>5, <2>6 DEF Behind, Member
<1>4. CASE ReadStarts
    <2>1. show' = show /\ \A e : e \in ToSet(show) <=> Member(e, show)
        BY <1>4, Members DEF ReadStarts, world, TypeOK
    <2>2. Len(cyc'.seen) = 0  BY <1>4 DEF ReadStarts
    <2>3. \A i \in 1..Len(show) : show[i] \in ToSet(show)  BY <2>1 DEF Member
    <2> QED BY <1>4, <2>1, <2>2, <2>3 DEF ReadStarts, Behind, Member
<1>5. CASE cyc'.pc \notin {"fetch", "apply"}
    BY <1>5 DEF Behind
<1>6. CASE UNCHANGED <<world, cyc, ghost>>
    BY <1>6 DEF Behind, world, Member
<1> QED BY <1>1, <1>2, <1>3, <1>4, <1>5, <1>6, ReadMoves

LEMMA StaysPaged ==
    ASSUME IInv, [Next]_vars
    PROVE  Paged'
<1> USE DEF IInv
<1>1. CASE Listed \/ \E e \in Episodes : Removed(e)
    BY <1>1 DEF Listed, Removed, Visible, Paged
<1>2. CASE \E nulls \in SUBSET Episodes : PageFetched(nulls)
    <2>1. PICK nulls \in SUBSET Episodes : PageFetched(nulls)  BY <1>2
    <2> DEFINE b == cyc.pages * PageSize
    <2>2. /\ cyc.pages \in Nat /\ b \in Nat /\ cyc'.pages = cyc.pages + 1
          /\ cyc'.pages * PageSize = b + PageSize
          /\ cyc'.total = Len(show) /\ cyc'.nulls = (cyc.nulls \/ nulls # {})
          /\ cyc'.complete = (cyc'.pages * PageSize >= Len(show))
          /\ cyc'.pc = IF cyc'.complete \/ cyc'.pages = MaxPages THEN "apply" ELSE "fetch"
          /\ cyc.pc = "fetch" /\ UNCHANGED show
        BY <2>1, PageCounted DEF world
    <2>9. cyc'.complete <=> Len(show) <= b + PageSize
        <3>1. cyc'.complete = (b + PageSize >= Len(show))  BY <2>2
        <3>2. b + PageSize >= Len(show) <=> Len(show) <= b + PageSize  BY <2>2, Sizes, ShowTyped
        <3> QED BY <3>1, <3>2
    <2>3. /\ Len(cyc.seen) \in Nat /\ Len(Items) \in Nat
          /\ Len(cyc'.seen) = Len(cyc.seen) + Len(Items)
          /\ \A i \in 1..Len(Items) :
               cyc'.seen[Len(cyc.seen) + i] = IF show[b + i] \in nulls THEN Null ELSE show[b + i]
        BY <2>1, PageSeen
    <2>4. b + PageSize <= Len(show) => Len(Items) = PageSize
        <3>1. (cyc.pages + 1) * PageSize = b + PageSize  BY <2>2, Pages
        <3> QED BY <3>1, ItemsRead
    <2>5. cyc.pages < MaxPages  BY <2>2 DEF Paged
    <2> HIDE DEF b
    <2>6. ASSUME ~cyc'.complete
          PROVE  /\ cyc'.pages * PageSize < cyc'.total
                 /\ ~cyc'.nulls => Last(cyc'.seen) = show[cyc'.pages * PageSize] /\ cyc'.seen # <<>>
        <3>1. b + PageSize < Len(show)
            <4>1. ~(Len(show) <= b + PageSize)  BY <2>6, <2>9
            <4> QED BY <2>2, <4>1, Sizes, ShowTyped
        <3>2. Len(Items) = PageSize  BY <2>2, <2>4, <3>1, Sizes, ShowTyped
        <3>3. Len(cyc'.seen) = Len(cyc.seen) + PageSize /\ Len(cyc'.seen) # 0
            BY <2>3, <3>2, Sizes
        <3>4. PageSize \in 1..Len(Items)  BY <3>2, Sizes
        <3>5. ~cyc'.nulls => cyc'.seen[Len(cyc.seen) + PageSize] = show[b + PageSize]
            BY <2>2, <2>3, <3>4
        <3> QED BY <2>2, <3>1, <3>3, <3>5 DEF Last
    <2>7. cyc.pages + 1 <= MaxPages /\ cyc'.pages > 0  BY <2>2, <2>5, Sizes
    <2>8. cyc'.pc = "fetch" => ~cyc'.complete /\ cyc'.pages < MaxPages  BY <2>2, <2>7, Sizes
    <2>10. cyc'.pc = "apply" => cyc'.complete \/ cyc'.pages = MaxPages  BY <2>2
    <2>11. cyc'.complete <=> Len(show) <= cyc'.pages * PageSize  BY <2>2, <2>9
    <2> QED BY <2>2, <2>6, <2>7, <2>8, <2>10, <2>11 DEF Paged
<1>3. CASE ReadStarts
    BY <1>3, Sizes DEF ReadStarts, Paged
<1>4. CASE cyc'.pc \notin {"fetch", "apply"}
    BY <1>4 DEF Paged
<1>5. CASE UNCHANGED <<world, cyc, ghost>>
    BY <1>5 DEF Paged, world
<1> QED BY <1>1, <1>2, <1>3, <1>4, <1>5, ReadMoves

\* What a proven read did not see is older than its cutoff.
LEMMA UnseenIsOld ==
    ASSUME IInv, cyc.pc = "apply", CoverageProven,
           NEW e \in ghost.throughout, ~Member(e, cyc.seen)
    PROVE  age[e] > cyc.cut
<1> USE DEF IInv
<1> DEFINE b == cyc.pages * PageSize
<1>1. ~cyc.nulls /\ (cyc.complete \/ BoundaryCovers)  BY DEF CoverageProven
<1>2. cyc.pages > 0 /\ cyc.total = Len(show) /\ b \in Nat /\ b >= 1
    <2>1. cyc.pages > 0 /\ cyc.total = Len(show)  BY DEF Paged
    <2>2. cyc.pages - 1 \in Nat  BY <2>1, SeenTyped
    <2>3. (cyc.pages - 1) * PageSize \in Nat
          /\ (cyc.pages - 1 + 1) * PageSize = (cyc.pages - 1) * PageSize + PageSize
        BY <2>2, Pages
    <2>4. cyc.pages - 1 + 1 = cyc.pages  BY SeenTyped
    <2>5. b = (cyc.pages - 1) * PageSize + PageSize  BY <2>3, <2>4
    <2> HIDE DEF b
    <2> QED BY <2>1, <2>3, <2>5, Sizes
<1>3. PICK i \in 1..Len(show) : show[i] = e  BY DEF Behind, Member
<1>4. Len(show) - i < Len(show) - b
    BY <1>1, <1>2, <1>3 DEF Behind
<1> HIDE DEF b
<1>5. b < i /\ b < Len(show) /\ b \in 1..Len(show)  BY <1>2, <1>3, <1>4, ShowTyped
<1>6. ~cyc.complete /\ Last(cyc.seen) = show[b]
    <2>1. cyc.complete <=> Len(show) <= b  BY DEF Paged, b
    <2>2. ~cyc.complete  BY <1>2, <1>5, <2>1, ShowTyped
    <2> QED BY <1>1, <2>2 DEF Paged, b
<1>7. age[show[b]] > cyc.cut  BY <1>1, <1>6 DEF BoundaryCovers
<1>8. show[b] \in Episodes /\ show[i] \in Episodes /\ show[i] < show[b]
    BY <1>5, ShowTyped, ElementOfSeq DEF Sorted, TypeOK
<1>9. age[show[i]] >= age[show[b]]  BY <1>8 DEF Sorted
<1>10. cyc.cut \in Nat  BY Sizes DEF TypeOK, Cycles
<1> QED BY <1>3, <1>7, <1>8, <1>9, <1>10, ShowTyped

LEMMA StaysTrue ==
    ASSUME IInv, [Next]_vars
    PROVE  Truth'
<1> USE DEF IInv
<1>0. /\ src \in SourceRows /\ src.cut \in Nat /\ src.refresh \in Nat /\ cyc \in Cycles
      /\ ghost.owed \subseteq Episodes /\ ghost.throughout \subseteq Episodes /\ journal \subseteq Episodes
    BY Sizes DEF TypeOK, SourceRows
<1>1. CASE SourceCleared
    BY <1>1 DEF SourceCleared, NoSource, Restarted, Truth, TypeOK
<1>2. CASE CycleStarts
    <2>1. /\ ghost'.owed = {e \in ghost.owed : age'[e] < Horizon}
          /\ ghost'.possible = {e \in ghost.possible : age'[e] < Horizon}
          /\ TimePasses /\ UNCHANGED <<world, journal>>
        BY <1>2 DEF CycleStarts, TypeOK
    <2>2. \A e \in Episodes : age'[e] = IF e > listed THEN 0
                                        ELSE IF age[e] < Horizon THEN age[e] + 1 ELSE Horizon
        BY <2>1, TimesAndPages
    <2>3. src'.cut = src.cut /\ src'.proven = src.proven /\ src'.refresh <= src.refresh + 1 /\ src'.refresh \in Nat
        BY <1>0, <2>1 DEF TimePasses, Older, SourceRows
    <2>4. \A e \in Episodes : age'[e] < Horizon => age[e] < Horizon
        BY <2>2, ShowTyped, Sizes DEF Sorted
    <2>5. ASSUME src'.proven, NEW e \in journal', age'[e] < Horizon  PROVE e \in ghost'.possible
        BY <1>0, <2>1, <2>3, <2>4, <2>5 DEF Truth
    <2>6. ASSUME NEW e \in ghost'.owed, e \notin rejected' \union journal'
          PROVE  age'[e] > src'.cut + src'.refresh
        <3>1. e \in ghost.owed \ (rejected \union journal) /\ e \in Episodes /\ age'[e] < Horizon
            BY <1>0, <2>1, <2>6 DEF world
        <3>2. age[e] < Horizon /\ e <= listed  BY <2>4, <3>1 DEF Truth
        <3>3. age'[e] = age[e] + 1  BY <2>2, <3>1, <3>2, ShowTyped
        <3>4. age[e] > src.cut + src.refresh  BY <3>1, <3>2 DEF Truth
        <3> QED BY <1>0, <2>3, <3>1, <3>3, <3>4, ShowTyped
    <2>7. \A e \in ghost'.owed : e <= listed'  BY <2>1 DEF Truth, world
    <2> QED BY <2>5, <2>6, <2>7 DEF Truth
<1>3. CASE NothingEnabled
    <2>1. TimePasses /\ UNCHANGED <<world, journal, ghost>>  BY <1>3 DEF NothingEnabled
    <2>2. \A e \in Episodes : age'[e] = IF e > listed THEN 0
                                        ELSE IF age[e] < Horizon THEN age[e] + 1 ELSE Horizon
        BY <2>1, TimesAndPages
    <2>3. src'.cut = src.cut /\ src'.proven = src.proven /\ src'.refresh <= src.refresh + 1 /\ src'.refresh \in Nat
        BY <1>0, <2>1 DEF TimePasses, Older, SourceRows
    <2>4. \A e \in Episodes : age'[e] < Horizon => age[e] < Horizon
        BY <2>2, ShowTyped, Sizes DEF Sorted
    <2>5. ASSUME NEW e \in ghost.owed \ (rejected \union journal), age'[e] < Horizon
          PROVE  age'[e] > src'.cut + src'.refresh
        <3>1. age[e] < Horizon /\ e <= listed /\ e \in Episodes  BY <1>0, <2>4, <2>5 DEF Truth
        <3>2. age'[e] = age[e] + 1  BY <2>2, <3>1, ShowTyped
        <3>3. age[e] > src.cut + src.refresh  BY <2>5, <3>1 DEF Truth
        <3> QED BY <1>0, <2>3, <3>1, <3>2, <3>3, ShowTyped
    <2>6. src'.proven => \A e \in journal' : age'[e] < Horizon => e \in ghost'.possible
        BY <1>0, <2>1, <2>3, <2>4 DEF Truth
    <2> QED BY <2>1, <2>5, <2>6 DEF Truth, world
<1>4. CASE RefreshApplied
    <2>1. /\ cyc.pc = "apply" /\ journal' = Replaced /\ src' = Authority /\ UNCHANGED <<world, age>>
          /\ CoverageProven => ghost'.owed = ghost.throughout /\ ghost'.possible = ghost.since
          /\ ~CoverageProven => ghost'.owed = {}
        BY <1>4 DEF RefreshApplied, ReadOver, TypeOK
    <2>2. CASE ~CoverageProven
        BY <2>1, <2>2 DEF Authority, Truth
    <2>3. CASE CoverageProven
        <3>1. /\ journal' = Accepted(cyc.seen) /\ src'.cut = cyc.cut /\ src'.refresh = 0
              /\ \A e : e \in ToSet(cyc.seen) <=> Member(e, cyc.seen)
            BY <2>1, <2>3, Members DEF Replaced, Authority, TypeOK, Cycles
        <3>2. \A e \in journal' : e \in ghost'.possible
            BY <2>1, <2>3, <3>1 DEF Accepted, Behind, Member
        <3>3. ASSUME NEW e \in ghost'.owed, e \notin rejected' \union journal'
              PROVE  age'[e] > src'.cut + src'.refresh
            <4>1. e \in ghost.throughout /\ e \in Episodes /\ e \notin rejected  BY <1>0, <2>1, <2>3, <3>3 DEF world
            <4>2. e # Null  BY <4>1 DEF Episodes, Null
            <4>3. ~Member(e, cyc.seen)  BY <3>1, <3>3, <4>1, <4>2 DEF Accepted
            <4>4. age[e] > cyc.cut  BY <2>1, <2>3, <4>1, <4>3, UnseenIsOld
            <4>5. cyc.cut + 0 = cyc.cut  BY Sizes DEF TypeOK, Cycles
            <4> QED BY <2>1, <3>1, <4>4, <4>5
        <3>4. \A e \in ghost'.owed : e <= listed'
            BY <2>1, <2>3 DEF Behind, Member, Sorted, world
        <3> QED BY <3>2, <3>3, <3>4 DEF Truth
    <2> QED BY <2>2, <2>3
<1>5. CASE CycleEnds
    <2>1. /\ journal' = {e \in journal : age[e] < Horizon \/ Contains(show, e)}
          /\ UNCHANGED <<world, age, src>>
        BY <1>5 DEF CycleEnds
    <2>2. ghost'.owed = ghost.owed /\ ghost'.possible = ghost.possible
        BY <1>5 DEF CycleEnds, ReadOver, Restarted, TypeOK
    <2> QED BY <2>1, <2>2 DEF Truth, world
<1>6. CASE Listed
    <2>1. /\ ghost'.owed = ghost.owed /\ ghost'.possible = ghost.possible /\ listed' = listed + 1
          /\ UNCHANGED <<rejected, age, src, journal>>
        BY <1>6 DEF Listed, TypeOK
    <2>2. \A e \in ghost.owed : e <= listed => e <= listed + 1  BY <1>0, ShowTyped
    <2> QED BY <2>1, <2>2 DEF Truth
<1>7. CASE /\ ghost'.owed = ghost.owed /\ ghost'.possible = ghost.possible
           /\ UNCHANGED <<rejected, listed, age, src, journal>>
    BY <1>7 DEF Truth
<1>8. ASSUME Observes \/ Plans \/ (\E nulls \in SUBSET Episodes : PageFetched(nulls)) \/ FetchFails
            \/ RefreshNotApplied \/ RefreshMarked \/ RefreshNotMarked \/ Serves \/ Aborted
            \/ (\E p \in Playlists : Toggled(p)) \/ (\E e \in Episodes : Removed(e))
            \/ UNCHANGED vars
      PROVE  /\ ghost'.owed = ghost.owed /\ ghost'.possible = ghost.possible
             /\ UNCHANGED <<rejected, listed, age, src, journal>>
    BY <1>8 DEF Observes, EpisodeObserved, PageFailed, DetectorNotPersisted, ObservedAs, Plans,
        PlanUrgent, PlanDegradedAudit, PlanAudit, PlanNothing, FetchBegins, PageFetched, FetchFails,
        RefreshNotApplied, RefreshMarked, RefreshNotMarked, Serves, Reconciled, StaleRejected,
        Preserved, Aborted, Toggled, Removed, ReadOver, Restarted, TypeOK, vars, world
<1> QED BY <1>1, <1>2, <1>3, <1>4, <1>5, <1>6, <1>7, <1>8 DEF Next

LEMMA StaysAdditional ==
    ASSUME IInv, [Next]_vars
    PROVE  Additional'
<1> USE DEF IInv
<1>0. cyc \in Cycles  BY DEF TypeOK
<1>1. CASE RefreshApplied
    <2>1. /\ cyc.pc = "apply" /\ cyc' = [cyc EXCEPT !.pc = "mark"] /\ src' = Authority
          /\ UNCHANGED world
          /\ ~CoverageProven => ghost'.since = ghost.since
        BY <1>1 DEF RefreshApplied, ReadOver, TypeOK
    <2>2. cyc'.partial = {} /\ cyc'.seen = cyc.seen /\ cyc'.nulls = cyc.nulls /\ cyc'.pc = "mark"
        BY <1>0, <2>1 DEF Additional, Cycles
    <2>3. ASSUME cyc.nulls  PROVE ~src'.proven /\ Accepted(cyc.seen)' \subseteq ghost'.since
        <3>1. ~CoverageProven  BY <2>3 DEF CoverageProven
        <3>2. \A e : e \in ToSet(cyc.seen) <=> Member(e, cyc.seen)  BY Members DEF TypeOK, Cycles
        <3>3. Accepted(cyc.seen) \subseteq ghost.since  BY <2>1, <3>2 DEF Accepted, Behind, Member
        <3>4. Accepted(cyc.seen)' = Accepted(cyc.seen)  BY <2>1, <2>2 DEF Accepted, world
        <3> QED BY <2>1, <3>1, <3>3, <3>4 DEF Authority
    <2> QED BY <2>2, <2>3 DEF Additional
<1>2. CASE RefreshMarked
    <2>1. cyc.pc = "mark" /\ UNCHANGED <<src, ghost>>  BY <1>2 DEF RefreshMarked
    <2>2. CASE cyc.escalation
        BY <1>0, <1>2, <2>1, <2>2 DEF RefreshMarked, Unrefreshed, Additional, Cycles
    <2>3. CASE ~cyc.escalation
        <3>1. cyc'.pc = "playlists" /\ cyc'.partial = IF cyc.nulls THEN Accepted(cyc.seen) ELSE {}
            BY <1>0, <1>2, <2>3 DEF RefreshMarked, PlaylistsWith, Cycles
        <3> QED BY <2>1, <3>1 DEF Additional
    <2> QED BY <2>2, <2>3
<1>3. CASE \E p \in Playlists : StaleRejected(p)
    BY <1>0, <1>3 DEF StaleRejected, Ready, FetchWith, Turn, Additional, Cycles
<1>4. CASE \E p \in Playlists : Reconciled(p) \/ Preserved(p)
    BY <1>0, <1>4 DEF Reconciled, Preserved, Turn, Additional, Cycles
<1>5. CASE SourceCleared \/ (\E p \in Playlists : Toggled(p)) \/ NothingEnabled
    BY <1>5 DEF SourceCleared, Toggled, NothingEnabled, OwnerActs, Additional
<1>6. CASE CycleStarts \/ CycleEnds \/ Aborted
    BY <1>6 DEF CycleStarts, CycleEnds, Aborted, NoCycle, Additional
<1>7. CASE Observes \/ Plans
    BY <1>0, <1>7 DEF Observes, EpisodeObserved, PageFailed, DetectorNotPersisted, ObservedAs, Plans,
        PlanUrgent, PlanDegradedAudit, PlanAudit, PlanNothing, FetchBegins, FetchWith, PlaylistsWith,
        Additional, Cycles
<1>8. CASE (\E nulls \in SUBSET Episodes : PageFetched(nulls)) \/ FetchFails \/ RefreshNotApplied \/ RefreshNotMarked
    BY <1>0, <1>8 DEF PageFetched, FetchFails, RefreshNotApplied, RefreshNotMarked, Unrefreshed,
        PlaylistsWith, Additional, Cycles
<1>9. CASE Listed \/ (\E e \in Episodes : Removed(e)) \/ UNCHANGED vars
    BY <1>9 DEF Listed, Removed, Visible, vars, world, Additional, Accepted
<1> QED BY <1>1, <1>2, <1>3, <1>4, <1>5, <1>6, <1>7, <1>8, <1>9 DEF Next, Serves

-----------------------------------------------------------------------------
(* The counts of cycles *)

LEMMA Ticks ==
    ASSUME NEW n \in Nat, NEW d \in DetectorRows, NEW s \in SourceRows,
           NEW d2 \in DetectorRows, NEW s2 \in SourceRows,
           d2.anchor = Older(d.anchor), s2.refresh = Older(s.refresh),
           d2.looked = IF d.looked < Degraded THEN d.looked + 1 ELSE Degraded,
           Bounded(n, 0, d, s)
    PROVE  Bounded(n, 0, d2, s2) /\ Bounded(n, 1, d2, s2)
<1>1. /\ d.anchor \in 0..Never /\ d.looked \in 0..Degraded /\ s.refresh \in 0..Never
    BY DEF DetectorRows, SourceRows
<1>2. n + 1 <= 1 + s2.refresh /\ n <= 1 + s2.refresh
    BY <1>1, Sizes DEF Bounded, Older
<1>3. d2.anchor # Never => n + 1 <= 1 + d2.anchor
    BY <1>1, Sizes DEF Bounded, Older
<1>4. d2.anchor = Never /\ d2.looked < Degraded => n + 1 <= d2.looked
    BY <1>1, Sizes DEF Bounded, Older
<1>5. d2.anchor \in Nat /\ d2.looked \in Nat  BY Sizes DEF DetectorRows
<1>6. n <= Inactivity  BY DEF Bounded
<1>7. n + 0 = n  OBVIOUS
<1>8. Bounded(n, 1, d2, s2)  BY <1>2, <1>3, <1>4, <1>6 DEF Bounded
<1>9. Bounded(n, 0, d2, s2)  BY <1>2, <1>3, <1>4, <1>5, <1>6, <1>7 DEF Bounded
<1> QED BY <1>8, <1>9

LEMMA CountsFromZero ==
    ASSUME NEW d \in DetectorRows, NEW s \in SourceRows
    PROVE  Bounded(0, 0, d, s)
<1>1. d.anchor \in Nat /\ d.looked \in Nat /\ s.refresh \in Nat  BY Sizes DEF DetectorRows, SourceRows
<1> QED BY <1>1, Sizes DEF Bounded

\* One more cycle without a read.
LEMMA CountsOn ==
    ASSUME TypeOK, NEW n \in Nat, Quiet(n)
    PROVE  Bounded(n + 1, 0, det, src)
<1>1. det.anchor \in Nat /\ det.looked \in Nat /\ src.refresh \in Nat
    BY Sizes DEF TypeOK, DetectorRows, SourceRows
<1> QED BY <1>1, Sizes DEF Quiet, Bounded

\* The first cycle after a read.
LEMMA CountsAgain ==
    ASSUME Detected, Refreshed
    PROVE  Bounded(1, 0, det, src)
<1>1. det.anchor # Never => det.anchor = 0  BY DEF Detected, Refreshed
<1>2. det.anchor = Never => det.looked = Degraded
    <2>1. 0 # Never  BY Sizes
    <2> QED BY <2>1 DEF Detected, Refreshed
<1> QED BY <1>1, <1>2, Sizes DEF Bounded, Refreshed

\* When no read is due, no count has reached the inactivity audit.
LEMMA NotDueIsQuiet ==
    ASSUME IInv, ~AuditDue, ~DegradedAuditDue, NEW n \in Nat, Bounded(n, 1, det, src)
    PROVE  Quiet(n)
<1> USE DEF IInv
<1>1. /\ det.anchor \in Nat /\ det.anchor <= Never /\ det.looked \in Nat /\ det.looked <= Degraded
      /\ src.refresh \in Nat
    BY Sizes DEF TypeOK, DetectorRows, SourceRows
<1>2. CASE ~det.exists
    <2>1. src.refresh < Inactivity  BY <1>1, <1>2, Sizes DEF AuditDue
    <2> QED BY <1>1, <2>1, Sizes DEF Quiet, Bounded
<1>3. CASE det.exists /\ det.anchor # Never
    <2>1. det.anchor < Inactivity  BY <1>1, <1>3, Sizes DEF AuditDue
    <2> QED BY <1>1, <1>3, <2>1, Sizes DEF Quiet, Bounded
<1>4. CASE det.exists /\ det.anchor = Never
    <2>1. det.failing  BY <1>4 DEF Detected
    <2> DEFINE l == Min({det.anchor, det.looked, src.refresh})
    <2>2. ~(l >= Degraded)  BY <2>1 DEF DegradedAuditDue, Latest
    <2>3. l \in {det.anchor, det.looked, src.refresh}  BY <1>1, TripleMin
    <2> HIDE DEF l
    <2>4. det.looked < Degraded \/ src.refresh < Degraded  BY <1>1, <1>4, <2>2, <2>3, Sizes
    <2> QED BY <1>1, <1>4, <2>4, Sizes DEF Quiet, Bounded
<1> QED BY <1>2, <1>3, <1>4

LEMMA StaysCounted ==
    ASSUME IInv, [Next]_vars
    PROVE  Counted'
<1> USE DEF IInv
<1>0. /\ cyc \in Cycles /\ det \in DetectorRows /\ src \in SourceRows
      /\ ghost.waited \in Nat /\ ghost.blocked \in Nat
    BY DEF TypeOK
<1>T. det' \in DetectorRows /\ src' \in SourceRows  BY Typed DEF TypeOK
<1>1. CASE Listed
    <2>1. /\ ghost'.waited = ghost.waited /\ ghost'.blocked = ghost.blocked
          /\ ghost'.throughout = ghost.throughout /\ listed' = listed + 1 /\ listed < N
          /\ show' = <<listed + 1>> \o show /\ UNCHANGED <<det, src, cyc>>
          /\ cyc.pc \in {"idle", "fetch"}
        BY <1>1 DEF Listed, Visible, TypeOK
    <2>2. listed + 1 \in Episodes  BY <2>1, Sizes, ShowTyped DEF Episodes
    <2>3. /\ Len(show') = Len(show) + 1 /\ show'[1] = listed + 1
          /\ \A i \in 2..Len(show) + 1 : show'[i] = show[i - 1]
        BY <2>1, <2>2, Prepended DEF TypeOK
    <2>4. ghost.waited # 0 => Watched <= listed' /\ Watched # listed + 1
        BY HorizonCovers, ShowTyped, <2>1 DEF Counted, Episodes
    <2>5. ASSUME ghost.waited # 0, Member(Watched, show')  PROVE Member(Watched, show)
        <3>1. PICK i \in 1..Len(show') : show'[i] = Watched  BY <2>5 DEF Member
        <3>2. i \in 2..Len(show) + 1  BY <2>3, <2>4, <2>5, <3>1, ShowTyped
        <3>3. i - 1 \in 1..Len(show) /\ show[i - 1] = Watched  BY <2>3, <3>1, <3>2, ShowTyped
        <3> QED BY <3>3 DEF Member
    <2> QED BY <2>1, <2>4, <2>5 DEF Counted
<1>2. CASE \E e \in Episodes : Removed(e)
    <2>1. PICK k \in 1..Len(show) :
            /\ show' = RemoveAt(show, k) /\ ghost'.throughout = ghost.throughout \ {show[k]}
            /\ ghost'.waited = ghost.waited /\ ghost'.blocked = ghost.blocked
            /\ UNCHANGED <<listed, det, src, cyc>>
        BY <1>2, LenProperties DEF Removed, TypeOK
    <2>2. /\ Len(show') = Len(show) - 1
          /\ \A j \in 1..Len(show) - 1 : show'[j] = IF j < k THEN show[j] ELSE show[j + 1]
        BY <2>1, ShowWithout
    <2>3. ASSUME Member(Watched, show')  PROVE Member(Watched, show) /\ Watched # show[k]
        <3>1. PICK i \in 1..Len(show') : show'[i] = Watched  BY <2>3 DEF Member
        <3>2. PICK d \in {i, i + 1} : d \in 1..Len(show) /\ show'[i] = show[d] /\ d # k
            BY <2>2, <3>1, ShowTyped
        <3>3. d < k \/ k < d  BY <3>2
        <3>4. show[d] \in Nat /\ show[k] \in Nat  BY <3>2, ShowTyped
        <3> QED BY <3>1, <3>2, <3>3, <3>4 DEF Member, Sorted
    <2> QED BY <2>1, <2>3 DEF Counted
<1>3. CASE SourceCleared \/ \E p \in Playlists : Toggled(p)
    <2>1. ghost'.waited = 0 /\ ghost'.blocked = 0 /\ cyc'.pc = "idle"
        BY <1>3 DEF SourceCleared, Toggled, OwnerActs, Restarted, TypeOK
    <2> QED BY <1>T, <2>1, CountsFromZero, Sizes DEF Counted
<1>4. CASE CycleStarts \/ NothingEnabled
    <2>1. /\ ghost'.waited = ghost.waited /\ ghost'.blocked = ghost.blocked /\ TimePasses
          /\ UNCHANGED world /\ cyc.pc = "idle" /\ cyc'.pc \in {"idle", "observe"}
        BY <1>4 DEF CycleStarts, NothingEnabled, NoCycle, TypeOK
    <2>2. /\ det'.anchor = Older(det.anchor) /\ src'.refresh = Older(src.refresh)
          /\ det'.looked = IF det.looked < Degraded THEN det.looked + 1 ELSE Degraded
        <3>1. det'.anchor = Older(det.anchor) /\ src'.refresh = Older(src.refresh)
            BY <1>0, <2>1 DEF TimePasses, DetectorRows, SourceRows
        <3> QED BY <2>1, <3>1, TimesAndPages
    <2>3. Bounded(ghost.waited, 0, det, src) /\ Bounded(ghost.blocked, 0, det, src)
        BY <2>1 DEF Counted
    <2>4. /\ Bounded(ghost.waited, 0, det', src') /\ Bounded(ghost.waited, 1, det', src')
          /\ Bounded(ghost.blocked, 0, det', src') /\ Bounded(ghost.blocked, 1, det', src')
        BY <1>0, <1>T, <2>2, <2>3, Ticks
    <2> QED BY <2>1, <2>4 DEF Counted, world
<1>5. CASE EpisodeObserved
    <2>1. PICK c \in BOOLEAN :
            /\ det' = [det EXCEPT !.exists = TRUE, !.known = TRUE, !.failing = FALSE,
                          !.looked = 0, !.anchor = IF c THEN 0 ELSE @, !.newer = @ \/ c]
            /\ ~det.known => c
            /\ cyc' = [cyc EXCEPT !.pc = "plan", !.changed = c]
            /\ cyc.pc = "observe" /\ UNCHANGED <<listed, src, ghost>>
        BY <1>5 DEF EpisodeObserved, Shown, ObservedAs, world
    <2>2. cyc'.pc = "plan" /\ cyc'.changed = c  BY <1>0, <2>1 DEF Cycles
    <2>3. ~c => det'.anchor = det.anchor /\ det.anchor # Never
        BY <1>0, <2>1 DEF Detected, DetectorRows
    <2>4. ~c => Bounded(ghost.waited, 1, det', src) /\ Bounded(ghost.blocked, 1, det', src)
        BY <2>1, <2>3 DEF Counted, Bounded
    <2> QED BY <2>1, <2>2, <2>4 DEF Counted
<1>6. CASE PageFailed \/ DetectorNotPersisted
    <2>1. /\ det'.anchor = det.anchor /\ det'.looked = det.looked /\ cyc'.pc = "plan"
          /\ cyc.pc = "observe" /\ UNCHANGED <<listed, src, ghost>>
        BY <1>0, <1>6 DEF PageFailed, DetectorNotPersisted, DetectorFailing, ObservedAs, world,
            DetectorRows, Cycles
    <2>2. Bounded(ghost.waited, 1, det', src') /\ Bounded(ghost.blocked, 1, det', src')
        BY <2>1 DEF Counted, Bounded
    <2> QED BY <2>1, <2>2 DEF Counted
<1>7. CASE PlanUrgent \/ PlanDegradedAudit \/ PlanAudit \/ \E p \in Playlists : StaleRejected(p)
    <2>1. /\ cyc'.pc = "fetch" /\ ghost'.throughout = ToSet(show)
          /\ ghost'.waited = ghost.waited /\ ghost'.blocked = ghost.blocked /\ UNCHANGED world
        <3>1. CASE PlanUrgent \/ PlanDegradedAudit \/ PlanAudit
            BY <1>0, <3>1 DEF PlanUrgent, PlanDegradedAudit, PlanAudit, FetchBegins, FetchWith, TypeOK, Cycles
        <3>2. CASE \E p \in Playlists : StaleRejected(p)
            BY <1>0, <3>2 DEF StaleRejected, FetchWith, TypeOK, Cycles
        <3> QED BY <1>7, <3>1, <3>2
    <2>2. Member(Watched, show') => Watched \in ghost'.throughout
        BY <2>1, Members DEF world, TypeOK
    <2> QED BY <2>1, <2>2 DEF Counted, world
<1>8. CASE \E nulls \in SUBSET Episodes : PageFetched(nulls)
    <2>1. PICK nulls \in SUBSET Episodes : PageFetched(nulls)  BY <1>8
    <2>2. /\ cyc'.faulty = (cyc.faulty \/ nulls # {}) /\ cyc'.pc \in {"fetch", "apply"}
          /\ cyc.pc = "fetch" /\ UNCHANGED <<show, listed, ghost>>
        BY <2>1, PageCounted DEF world
    <2> QED BY <2>2 DEF Counted, Member
<1>9. CASE PlanNothing \/ FetchFails \/ RefreshApplied \/ RefreshNotApplied \/ RefreshMarked \/ RefreshNotMarked
           \/ \E p \in Playlists : Reconciled(p) \/ Preserved(p)
    <2>1. /\ ghost'.waited = ghost.waited /\ ghost'.blocked = ghost.blocked /\ UNCHANGED world
          /\ cyc'.pc \in {"playlists", "mark"}
        <3>1. CASE PlanNothing
            BY <1>0, <3>1 DEF PlanNothing, PlaylistsWith, Cycles
        <3>2. CASE FetchFails \/ RefreshNotApplied \/ RefreshNotMarked
            BY <1>0, <3>2 DEF FetchFails, RefreshNotApplied, RefreshNotMarked, Unrefreshed,
                PlaylistsWith, ReadOver, TypeOK, Cycles
        <3>3. CASE RefreshApplied
            BY <1>0, <3>3 DEF RefreshApplied, ReadOver, TypeOK, Cycles
        <3>4. CASE RefreshMarked
            BY <1>0, <3>4 DEF RefreshMarked, Unrefreshed, PlaylistsWith, Cycles
        <3>5. CASE \E p \in Playlists : Reconciled(p) \/ Preserved(p)
            BY <1>0, <3>5 DEF Reconciled, Preserved, Turn, Cycles
        <3> QED BY <1>9, <3>1, <3>2, <3>3, <3>4, <3>5
    <2> QED BY <2>1 DEF Counted, world
<1>10. CASE CycleEnds
    <2>1. cyc.pc = "playlists" /\ cyc'.pc = "idle" /\ UNCHANGED <<world, det, src>>
        BY <1>10 DEF CycleEnds, NoCycle
    <2>2. CASE cyc.faulty
        <3>1. ghost'.waited = 0 /\ ghost'.blocked = 0
            BY <1>10, <2>2 DEF CycleEnds, Restarted, ReadOver, TypeOK
        <3> QED BY <1>0, <2>1, <3>1, CountsFromZero, Sizes DEF Counted
    <2>3. CASE ~cyc.faulty
        <3> DEFINE w == IF Watched \in Reachable \ journal' THEN ghost.waited + 1 ELSE 0
                   b == IF Patient \in enabled /\ ~Ready(Patient) /\ Fits THEN ghost.blocked + 1 ELSE 0
        <3>1. ghost'.waited = w /\ ghost'.blocked = b
            <4> DEFINE v == IF Watched \in Reachable \ journal' THEN ghost.waited + 1 ELSE 0
                       c == IF Patient \in enabled /\ ~Ready(Patient) /\ Reachable = ToSet(show)
                            THEN ghost.blocked + 1 ELSE 0
            <4>1. ghost' = [ReadOver EXCEPT !.waited = v, !.blocked = c]
                BY <1>10, <2>3 DEF CycleEnds, ReadOver, TypeOK
            <4>2. w = v /\ b = c  BY DEF Fits
            <4> HIDE DEF v, c, w, b
            <4> QED BY <4>1, <4>2 DEF ReadOver, TypeOK
        <3>2. w # 0 => Watched <= listed
            <4>1. w # 0 => \E i \in 1..Len(show) : show[i] = Watched  BY WithinReach
            <4> QED BY <4>1 DEF Sorted
        <3>3. journal' = {e \in journal : age[e] < Horizon \/ Contains(show, e)}
            BY <1>10 DEF CycleEnds
        <3>4. CASE Quiet(ghost.waited) /\ Quiet(ghost.blocked)
            <4>1. /\ Bounded(ghost.waited + 1, 0, det, src) /\ Bounded(ghost.blocked + 1, 0, det, src)
                  /\ Bounded(0, 0, det, src)
                BY <1>0, <3>4, CountsOn, CountsFromZero
            <4>2. Bounded(w, 0, det, src) /\ Bounded(b, 0, det, src)  BY <4>1
            <4> HIDE DEF w, b
            <4> QED BY <2>1, <3>1, <3>2, <4>2 DEF Counted, Bounded, world
        <3>5. CASE Refreshed /\ Established
            <4>1. Bounded(1, 0, det, src) /\ Bounded(0, 0, det, src)
                BY <1>0, <3>5, CountsAgain, CountsFromZero
            <4>2. b = 0
                <5>1. Patient \in enabled /\ Fits => Ready(Patient)
                    <6>1. src.refresh + src.cut = src.cut  BY <3>5, Sizes DEF Refreshed, TypeOK, SourceRows
                    <6>2. Patient \in enabled => src.cut >= Retention[Patient]
                        BY <3>5, HorizonCovers, <1>0, Sizes DEF Established, SourceRows
                    <6> QED BY <3>5, <6>1, <6>2 DEF Refreshed, Established, Ready, Covers
                <5> QED BY <5>1
            <4>3. w = 0 \/ w = 1
                <5>1. ASSUME ghost.waited # 0, Watched \in Reachable  PROVE Watched \in journal'
                    <6>1. Watched \in journal  BY <3>5, <5>1 DEF Established
                    <6>2. Contains(show, Watched)  BY <5>1, WithinReach DEF Contains
                    <6> QED BY <3>3, <6>1, <6>2
                <5>2. ghost.waited # 0 => w = 0  BY <5>1
                <5>3. ghost.waited = 0 => w = 0 \/ w = 1  OBVIOUS
                <5> HIDE DEF w
                <5> QED BY <5>2, <5>3
            <4>4. Bounded(w, 0, det, src) /\ Bounded(b, 0, det, src)  BY <4>1, <4>2, <4>3
            <4> HIDE DEF w, b
            <4> QED BY <2>1, <3>1, <3>2, <4>4 DEF Counted, Bounded, world
        <3> QED BY <2>1, <2>3, <3>4, <3>5 DEF Served
    <2> QED BY <2>2, <2>3
<1>11. CASE Aborted
    <2>1. ghost'.waited = 0 /\ ghost'.blocked = 0 /\ cyc'.pc = "idle"
        BY <1>11 DEF Aborted, Restarted, ReadOver, NoCycle, TypeOK
    <2> QED BY <1>T, <2>1, CountsFromZero, Sizes DEF Counted
<1>12. CASE UNCHANGED vars
    BY <1>12 DEF vars, Counted, Member
<1> QED BY <1>1, <1>2, <1>3, <1>4, <1>5, <1>6, <1>7, <1>8, <1>9, <1>10, <1>11, <1>12
    DEF Next, Observes, Plans, Serves

\* A read without a fault has seen every episode within reach.
LEMMA ReadEstablishes ==
    ASSUME IInv, RefreshApplied, ~cyc.faulty
    PROVE  Established'
<1> USE DEF IInv
<1>1. /\ cyc.pc = "apply" /\ journal' = Replaced /\ src' = Authority /\ UNCHANGED <<world, enabled>>
      /\ ghost'.waited = ghost.waited
    BY DEF RefreshApplied, ReadOver, TypeOK
<1>2. ~cyc.nulls  BY <1>1 DEF Placed, Reading
<1>3. Reachable' = Reachable /\ Fits' = Fits  BY <1>1 DEF Reachable, Fits, world
<1> DEFINE b == cyc.pages * PageSize
<1>4. /\ cyc.pages > 0 /\ cyc.total = Len(show)
      /\ cyc.complete <=> Len(show) <= b
      /\ ~cyc.complete => b = MaxPages * PageSize
      /\ b \in Nat
    BY <1>1, SeenTyped DEF Paged
<1>7. cyc.pc = "apply" /\ cyc.pages > 0  BY <1>1, <1>4
<1>8. \A i \in 1..Len(show) :
        show[i] \in ghost.throughout /\ ~Member(show[i], cyc.seen) => Len(show) - i < cyc.total - b
    BY <1>2, <1>7 DEF Behind
<1> HIDE DEF b
<1>5. ASSUME Fits  PROVE CoverageProven
    <2>1. SUFFICES ASSUME ~cyc.complete  PROVE FALSE  BY <1>2 DEF CoverageProven
    <2>2. ~(Len(show) <= b) /\ b = MaxPages * PageSize
        BY <1>1, <1>4, <2>1 DEF Paged, b
    <2>3. Len(show) \in 1..Len(show)  BY <1>4, <2>2, ShowTyped
    <2>4. show[Len(show)] \in Reachable  BY <1>5, <2>3, Members DEF Fits, Member, TypeOK
    <2>5. PICK i \in 1..Len(show) : i <= MaxPages * PageSize /\ show[i] = show[Len(show)]
        BY <2>4, WithinReach
    <2>6. i < Len(show)  BY <1>4, <2>2, <2>5, ShowTyped
    <2>7. show[i] > show[Len(show)] /\ show[i] \in Nat  BY <2>3, <2>6, ShowTyped DEF Sorted
    <2> QED BY <2>5, <2>7
<1>6. ASSUME ghost.waited # 0, Watched \in Reachable  PROVE Watched \in journal'
    <2>1. PICK i \in 1..Len(show) : i <= MaxPages * PageSize /\ show[i] = Watched
        BY <1>6, WithinReach
    <2>2. Watched \in ghost.throughout  BY <1>1, <1>6, <2>1 DEF Counted, Member
    <2>3. Member(Watched, cyc.seen)
        <3>1. SUFFICES ASSUME ~Member(Watched, cyc.seen)  PROVE FALSE  OBVIOUS
        <3>2. Len(show) - i < Len(show) - b
            <4>1. Len(show) - i < cyc.total - b  BY <1>8, <2>1, <2>2, <3>1
            <4>2. cyc.total = Len(show)  BY <1>4
            <4> QED BY <4>1, <4>2
        <3>3. b < i  BY <1>4, <3>2, ShowTyped
        <3>4. ~cyc.complete => b = MaxPages * PageSize  BY <1>1 DEF Paged, b
        <3>5. cyc.complete => Len(show) <= b  BY <1>1 DEF Paged, b
        <3> QED BY <1>4, <2>1, <3>3, <3>4, <3>5, ShowTyped
    <2>4. Watched \notin rejected /\ Watched # Null  BY HorizonCovers DEF TypeOK, Episodes, Null
    <2>5. Watched \in Accepted(cyc.seen)  BY <2>3, <2>4, Members DEF Accepted, TypeOK, Cycles
    <2> QED BY <1>1, <2>5 DEF Replaced
<1>9. \A p \in enabled : Retention[p] <= cyc.cut  BY <1>1 DEF Placed, Reading
<1> QED BY <1>1, <1>3, <1>5, <1>6, <1>9 DEF Established, Authority

LEMMA StaysServed ==
    ASSUME IInv, [Next]_vars
    PROVE  Served'
<1> USE DEF IInv
<1>0. cyc \in Cycles /\ det \in DetectorRows /\ src \in SourceRows  BY DEF TypeOK
<1>1. CASE RefreshApplied
    <2>1. cyc'.pc = "mark" /\ cyc'.faulty = cyc.faulty /\ src'.known /\ src'.refresh = 0
        BY <1>0, <1>1 DEF RefreshApplied, Authority, Cycles
    <2> QED BY <1>1, <2>1, ReadEstablishes DEF Served
<1>2. CASE RefreshMarked
    <2>1. /\ cyc.pc = "mark" /\ cyc'.faulty = cyc.faulty /\ cyc'.pc = "playlists"
          /\ UNCHANGED <<world, journal, enabled, src, ghost>>
          /\ det'.exists => det'.anchor = 0
        BY <1>0, <1>2 DEF RefreshMarked, Unrefreshed, PlaylistsWith, Cycles, DetectorRows
    <2>2. ~cyc.faulty => src.known /\ src.refresh = 0 /\ Established  BY <2>1 DEF Served
    <2>3. Established => Established'  BY <2>1 DEF Established, Fits, Reachable, world
    <2> QED BY <2>1, <2>2, <2>3 DEF Served, Refreshed
<1>3. CASE PlanNothing
    <2>1. /\ cyc.pc = "plan" /\ ~RefreshNeeded /\ ~AuditDue /\ cyc'.pc = "playlists"
          /\ cyc'.faulty = DegradedAuditDue /\ UNCHANGED <<det, src, ghost>>
        BY <1>0, <1>3 DEF PlanNothing, PlaylistsWith, Cycles
    <2>2. Bounded(ghost.waited, 1, det, src) /\ Bounded(ghost.blocked, 1, det, src)
        BY <2>1 DEF RefreshNeeded, Counted
    <2>3. ~cyc'.faulty => Quiet(ghost.waited) /\ Quiet(ghost.blocked)
        BY <2>1, <2>2, NotDueIsQuiet DEF TypeOK
    <2> QED BY <2>1, <2>3 DEF Served, Quiet
<1>4. CASE \E p \in Playlists : Reconciled(p) \/ Preserved(p)
    <2>1. /\ cyc.pc = "playlists" /\ cyc'.pc = "playlists" /\ cyc'.faulty = cyc.faulty
          /\ UNCHANGED <<world, det, src, journal, enabled, ghost>>
        BY <1>0, <1>4 DEF Reconciled, Preserved, Turn, Cycles
    <2>2. Established => Established'  BY <2>1 DEF Established, Fits, Reachable, world
    <2>3. Refreshed => Refreshed'  BY <2>1 DEF Refreshed
    <2>4. Quiet(ghost.waited) /\ Quiet(ghost.blocked) => (Quiet(ghost.waited) /\ Quiet(ghost.blocked))'
        BY <2>1 DEF Quiet
    <2> QED BY <2>1, <2>2, <2>3, <2>4 DEF Served
<1>5. CASE FetchFails \/ RefreshNotApplied \/ RefreshNotMarked
    BY <1>0, <1>5 DEF FetchFails, RefreshNotApplied, RefreshNotMarked, Unrefreshed, PlaylistsWith,
        Served, Cycles
<1>6. CASE Listed \/ \E e \in Episodes : Removed(e)
    BY <1>6 DEF Listed, Removed, Visible, Served
<1>7. CASE SourceCleared \/ (\E p \in Playlists : Toggled(p)) \/ NothingEnabled
    BY <1>7 DEF SourceCleared, Toggled, NothingEnabled, OwnerActs, Served
<1>8. CASE CycleStarts \/ Observes
    BY <1>0, <1>8 DEF CycleStarts, NoCycle, Observes, EpisodeObserved, PageFailed, DetectorNotPersisted,
        ObservedAs, Served, Cycles
<1>9. CASE PlanUrgent \/ PlanDegradedAudit \/ PlanAudit \/ \E p \in Playlists : StaleRejected(p)
    BY <1>0, <1>9 DEF PlanUrgent, PlanDegradedAudit, PlanAudit, StaleRejected, FetchBegins, FetchWith,
        Served, Cycles
<1>10. CASE \E nulls \in SUBSET Episodes : PageFetched(nulls)
    BY <1>0, <1>10, PageCounted DEF Served
<1>11. CASE CycleEnds \/ Aborted
    BY <1>11 DEF CycleEnds, Aborted, NoCycle, Served
<1>12. CASE UNCHANGED vars
    BY <1>12 DEF vars, world, Served, Refreshed, Established, Quiet, Fits, Reachable
<1> QED BY <1>1, <1>2, <1>3, <1>4, <1>5, <1>6, <1>7, <1>8, <1>9, <1>10, <1>11, <1>12
    DEF Next, Observes, Plans, Serves

-----------------------------------------------------------------------------
(* The invariant holds *)

LEMMA Starts == Init => IInv
<1> SUFFICES ASSUME Init  PROVE IInv  OBVIOUS
<1> USE DEF Init
<1>1. /\ ghost = [owed |-> {}, possible |-> {}, since |-> {}, throughout |-> {},
                  waited |-> 0, blocked |-> 0]
      /\ det = NoDetector /\ src = NoSource /\ cyc = NoCycle
    OBVIOUS
<1>2. det \in DetectorRows /\ src \in SourceRows /\ cyc \in Cycles
    BY <1>1, Beginnings DEF NoCycle, Cycles, Stages
<1>3. TypeOK  BY <1>1, <1>2, Sizes DEF TypeOK
<1>4. Sorted  BY Sizes DEF Sorted, Episodes
<1>5. Detected  BY <1>1 DEF Detected, NoDetector
<1>6. Placed  BY <1>1, Sizes DEF Placed, NoCycle, NoSource, Reading
<1>7. Behind /\ Paged  BY <1>1 DEF Behind, Paged, NoCycle
<1>8. Truth  BY <1>1 DEF Truth, NoSource
<1>9. Additional  BY <1>1 DEF Additional, NoCycle
<1>10. Counted
    <2>1. Bounded(0, 0, det, src)  BY <1>2, CountsFromZero
    <2> QED BY <1>1, <2>1, Sizes DEF Counted, NoCycle
<1>11. Served  BY <1>1 DEF Served, NoCycle
<1> QED BY <1>3, <1>4, <1>5, <1>6, <1>7, <1>8, <1>9, <1>10, <1>11 DEF IInv

LEMMA Invariant == Spec => []IInv
<1>1. IInv /\ [Next]_vars => IInv'
    BY Typed, StaysSorted, StaysDetected, StaysPlaced, StaysBehind, StaysPaged, StaysTrue,
        StaysAdditional, StaysCounted, StaysServed DEF IInv
<1> QED BY Starts, <1>1, PTL DEF Spec

-----------------------------------------------------------------------------
(* The theorems *)

\* Every variable stays in its type, whatever the show, the owner and the failures do.
THEOREM TypeCorrect == Spec => []TypeOK
<1>1. IInv => TypeOK  BY DEF IInv
<1> QED BY Invariant, <1>1, PTL

\* A ready playlist is rebuilt from the truth of the last proven read: no episode of its
\* window that was listed throughout that read is missing from the journal
\* (_boundary_covers, _replace_source_episodes), and none in it was gone before.
THEOREM ReadyPlaylistsAreTrue == Spec => []ReadyTruthful
<1>1. ASSUME IInv  PROVE ReadyTruthful
    <2> USE <1>1 DEF IInv
    <2>1. SUFFICES ASSUME NEW p \in Playlists, Turn(p), Ready(p)
                   PROVE  /\ InWindow(ghost.owed \ rejected, p) \subseteq cyc.episodes
                          /\ InWindow(cyc.episodes, p) \subseteq ghost.possible
        BY DEF ReadyTruthful
    <2>2. /\ cyc.episodes = journal /\ src.proven /\ src.refresh + src.cut >= Retention[p]
        BY <2>1 DEF Placed, Turn, Ready, Covers
    <2>3. Retention[p] < Horizon /\ Retention[p] \in Nat  BY HorizonCovers
    <2>4. /\ \A e \in Episodes : age[e] \in Nat
          /\ src.refresh \in Nat /\ src.cut \in Nat
          /\ ghost.owed \subseteq Episodes /\ journal \subseteq Episodes
        BY ShowTyped, Sizes DEF TypeOK, SourceRows
    <2>5. ASSUME NEW e \in ghost.owed \ rejected, age[e] <= Retention[p]  PROVE e \in journal
        <3>1. age[e] < Horizon  BY <2>3, <2>4, <2>5, Sizes
        <3>2. ~(age[e] > src.cut + src.refresh)  BY <2>2, <2>3, <2>4, <2>5
        <3> QED BY <3>1, <3>2 DEF Truth
    <2>6. ASSUME NEW e \in journal, age[e] <= Retention[p]  PROVE e \in ghost.possible
        <3>1. age[e] < Horizon  BY <2>3, <2>4, <2>6, Sizes
        <3> QED BY <2>2, <3>1 DEF Truth
    <2> QED BY <2>2, <2>5, <2>6 DEF InWindow
<1> QED BY Invariant, <1>1, PTL

\* After a read that met a null item, only episodes this very read has seen are added to a
\* playlist without coverage (_partial_catalogue_evidence).
THEOREM OnlyCurrentAdditions == Spec => []AdditionsAreCurrent
<1>1. ASSUME IInv  PROVE AdditionsAreCurrent
    <2>1. cyc.partial # {} => cyc.partial \subseteq ghost.since  BY <1>1 DEF IInv, Additional
    <2> QED BY <2>1 DEF AdditionsAreCurrent, Additions, InWindow
<1> QED BY Invariant, <1>1, PTL

\* In cycles without a fault an episode within reach is in the journal no later than
\* source_inactivity after it appeared: what the detector misses the audits find.
THEOREM AuditsFindEpisodes == Spec => []NoEpisodeOverlooked
<1>1. IInv => NoEpisodeOverlooked  BY DEF IInv, Counted, NoEpisodeOverlooked
<1> QED BY Invariant, <1>1, PTL

\* In cycles without a fault a playlist waits no longer than source_inactivity for the
\* coverage of a show that fits into the pages of a read.
THEOREM AuditsRestoreCoverage == Spec => []CoverageReturns
<1>1. IInv => CoverageReturns  BY DEF IInv, Counted, CoverageReturns
<1> QED BY Invariant, <1>1, PTL
=============================================================================
