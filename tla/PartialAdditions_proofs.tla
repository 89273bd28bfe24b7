----------------------- MODULE PartialAdditions_proofs -----------------------
(***************************************************************************)
(* For any contents, limits and number of changes, edits and faults.       *)
(*                                                                         *)
(* The fence holds because a POST that may still be carried out keeps the  *)
(* destination from looking like its intent (Unconfirmed): nothing can     *)
(* confirm the intent before the POST is settled, so nothing withdraws it. *)
(* Only somebody else could make the destination look so, by putting one   *)
(* of the very episodes in front of it (FrontIsOurs).  No episode comes    *)
(* twice because additions are what the destination lacks, and nothing     *)
(* moves between the read and the POST when nobody edits (Fresh).          *)
(***************************************************************************)
EXTENDS PartialAdditions, SequenceTheorems, FunctionTheorems, FiniteSetTheorems, TLAPS

\* Nobody else puts an episode at the top that the add-only mode may insert.
FrontIsOurs == \A s \in Foreign, c \in Candidates : s # <<>> => Head(s) \notin ToSet(c)

Undisturbed == ~withdrawn /\ (edits = 0 \/ FrontIsOurs)

\* A turn of the add-only mode has its candidates, and its intent from "ready" on.
Turn ==
  /\ run.at \notin {"idle", "added"} => ~covered
  /\ run.at \in {"read", "begin"} => intent = None
  /\ run.at \in {"confirm", "resolved"} => intent # None
  /\ run.at \in {"ready", "post", "ambiguous", "verify", "verified", "withdraw"} =>
       intent = run.expected
  /\ run.at \in {"begin", "ready", "post", "ambiguous", "verify", "verified", "withdraw"} =>
       /\ run.additions # <<>> /\ ToSet(run.additions) \subseteq ToSet(desired)
       /\ Head(run.expected) = Head(run.additions) /\ Len(run.expected) \in 1..MaxItems

\* What is intended begins with a candidate.
Headed == intent # None => \E c \in Candidates : Head(intent) \in ToSet(c)

\* There is one POST still to be carried out at most; it has its intent, and neither then nor
\* before it is sent does the destination look like what is intended.
Unconfirmed ==
  Undisturbed =>
    /\ \A request, other \in inflight : request = other
    /\ inflight # {} => intent # None /\ dest # intent
    /\ run.at \in {"begin", "ready", "post"} => dest # run.expected

\* Nothing is in flight once an outcome is settled, or before there is a POST.
Quiet ==
  Undisturbed /\ run.at \in {"resolved", "read", "begin", "ready", "post", "verify",
                             "withdraw", "verified"} => inflight = {}

\* Nobody else's content has an episode twice.
ForeignInjective == \A s \in Foreign : IsInjective(s)

\* Without edits, what is or may come into the destination has no episode twice, and the
\* additions fit the destination as it is.
Fresh ==
  edits = 0 /\ ~withdrawn /\ ForeignInjective =>
    /\ IsInjective(dest)
    /\ \A request \in inflight : IsInjective(request.additions \o dest)
    /\ run.at \in {"begin", "ready", "post"} =>
         run.expected = run.additions \o dest /\ IsInjective(run.expected)

IInv == TypeOK /\ Turn /\ Headed /\ Unconfirmed /\ Quiet /\ Fresh

-----------------------------------------------------------------------------
(* Sequences of episodes *)

\* A position of a set of positions is told by how many there are up to it.
LEMMA Ranks ==
    ASSUME NEW n \in Nat, NEW P \in SUBSET (1..n)
    PROVE  /\ IsFiniteSet(P) /\ Cardinality(P) \in Nat
           /\ \A k \in 1..Cardinality(P) :
                \E i \in P : Cardinality({j \in P : j <= i}) = k
<1> DEFINE N == Cardinality(P)
           UpTo(i) == {j \in P : j <= i}
           rank == [i \in P |-> Cardinality(UpTo(i))]
<1>1. IsFiniteSet(P) /\ N \in Nat
  <2>1. IsFiniteSet(1..n)
    BY FS_Interval
  <2>2. IsFiniteSet(P)
    BY <2>1, FS_Subset
  <2>3. QED
    BY <2>2, FS_CardinalityType
<1>2. \A i \in P : /\ IsFiniteSet(UpTo(i)) /\ Cardinality(UpTo(i)) <= N
                   /\ Cardinality(UpTo(i)) \in Nat
  BY <1>1, FS_Subset, FS_CardinalityType
<1>3. \A i \in P : Cardinality(UpTo(i)) # 0
  <2>1. \A i \in P : i \in UpTo(i)
    OBVIOUS
  <2>2. QED
    BY <1>2, <2>1, FS_EmptySet
<1>4. rank \in [P -> 1..N]
  BY <1>1, <1>2, <1>3
<1>5. \A i, k \in P : i < k => Cardinality(UpTo(i)) # Cardinality(UpTo(k))
  <2> SUFFICES ASSUME NEW i \in P, NEW k \in P, i < k
               PROVE  Cardinality(UpTo(i)) # Cardinality(UpTo(k))
    OBVIOUS
  <2>1. i \in Int /\ k \in Int /\ \A j \in P : j \in Int
    OBVIOUS
  <2>2. \A j \in P : j <= i => j <= k
    BY <2>1
  <2>3. k \in UpTo(k) /\ k \notin UpTo(i)
    BY <2>1
  <2>4. IsFiniteSet(UpTo(k))
    BY <1>2
  <2>5. UpTo(i) # UpTo(k) /\ UpTo(i) \in SUBSET UpTo(k)
    BY <2>2, <2>3, Zenon
  <2> HIDE DEF UpTo
  <2>6. QED
    BY <2>4, <2>5, FS_Subset
<1>6. rank \in Injection(P, 1..N)
  <2>1. \A i, k \in P : rank[i] = rank[k] => i = k
    BY <1>5
  <2>2. QED
    BY <1>4, <2>1, Fun_IsInj
<1>7. Cardinality(1..N) = N /\ IsFiniteSet(1..N)
  BY <1>1, FS_Interval
<1>8. rank \in Surjection(P, 1..N)
  BY <1>1, <1>6, <1>7, FS_Injection
<1>9. \A k \in 1..N : \E i \in P : Cardinality(UpTo(i)) = k
  <2>1. \A k \in 1..N : \E i \in P : rank[i] = k
    <3> HIDE DEF rank, N
    <3>1. QED
      BY <1>8, Fun_SurjectionProperties
  <2>2. \A i \in P : rank[i] = Cardinality(UpTo(i))
    OBVIOUS
  <2> HIDE DEF rank, UpTo, N
  <2>3. QED
    BY <2>1, <2>2
<1>10. QED
  BY <1>1, <1>9

\* What is missing is candidates the destination lacks, each once.
LEMMA MissingProperties ==
    ASSUME NEW s \in Seq(Episodes), NEW t \in Seq(Episodes), IsInjective(s)
    PROVE  /\ Missing(s, t) \in Seq(Episodes) /\ IsInjective(Missing(s, t))
           /\ ToSet(Missing(s, t)) \subseteq ToSet(s) \ ToSet(t)
<1> DEFINE P == {i \in DOMAIN s : s[i] \notin ToSet(t)}
           Nth(n) == CHOOSE i \in P : Cardinality({j \in P : j <= i}) = n
<1>1. Missing(s, t) = [n \in 1..Cardinality(P) |-> s[Nth(n)]]
  BY DEF Missing
<1>2. P \in SUBSET (1..Len(s)) /\ Len(s) \in Nat
  OBVIOUS
<1>3. Cardinality(P) \in Nat
  BY <1>2, Ranks
<1>4. \A n \in 1..Cardinality(P) :
         Nth(n) \in P /\ Cardinality({j \in P : j <= Nth(n)}) = n
  <2>1. \A n \in 1..Cardinality(P) : \E i \in P : Cardinality({j \in P : j <= i}) = n
    BY <1>2, Ranks
  <2> HIDE DEF P
  <2>2. QED
    BY <2>1
<1> HIDE DEF Nth
<1>5. \A n \in 1..Cardinality(P) : s[Nth(n)] \in ToSet(s) \ ToSet(t) /\ s[Nth(n)] \in Episodes
  <2>1. \A i \in P : s[i] \in ToSet(s) \ ToSet(t) /\ s[i] \in Episodes
    BY DEF ToSet
  <2>2. QED
    BY <1>4, <2>1
<1>6. \A n, m \in 1..Cardinality(P) : s[Nth(n)] = s[Nth(m)] => n = m
  BY <1>4 DEF IsInjective
<1> HIDE DEF P
<1> DEFINE M == [n \in 1..Cardinality(P) |-> s[Nth(n)]]
<1>7. M \in Seq(Episodes) /\ IsInjective(M) /\ ToSet(M) \subseteq ToSet(s) \ ToSet(t)
  BY <1>3, <1>5, <1>6 DEF IsInjective, ToSet
<1>8. QED
  BY <1>1, <1>7

LEMMA InjectiveConcat ==
    ASSUME NEW E, NEW s \in Seq(E), NEW t \in Seq(E),
           IsInjective(s), IsInjective(t), ToSet(s) \cap ToSet(t) = {}
    PROVE  IsInjective(s \o t)
BY DEF IsInjective, ToSet

\* One sequence in front of another.
LEMMA InFront ==
    ASSUME NEW s \in Seq(Episodes), NEW t \in Seq(Episodes)
    PROVE  /\ s \o t \in Seq(Episodes) /\ Len(s \o t) = Len(s) + Len(t)
           /\ s # <<>> => Head(s \o t) = Head(s) /\ s \o t # t /\ s \o t # <<>>
           /\ <<>> \o t = t
           /\ IsPrefix(s, s \o t)
           /\ IsInjective(s) /\ IsInjective(t) /\ ToSet(s) \cap ToSet(t) = {}
                => IsInjective(s \o t)
<1>1. s \o t \in Seq(Episodes) /\ Len(s \o t) = Len(s) + Len(t)
  OBVIOUS
<1>2. s # <<>> => Head(s \o t) = Head(s) /\ s \o t # t /\ s \o t # <<>>
  <2>1. s # <<>> => Len(s) > 0
    OBVIOUS
  <2>2. QED
    BY <1>1, <2>1, ConcatProperties
<1>3. <<>> \o t = t
  BY ConcatEmptySeq
<1>4. IsPrefix(s, s \o t)
  BY SubSeqProperties DEF IsPrefix
<1>5. IsInjective(s) /\ IsInjective(t) /\ ToSet(s) \cap ToSet(t) = {} => IsInjective(s \o t)
  BY InjectiveConcat
<1>6. QED
  BY <1>1, <1>2, <1>3, <1>4, <1>5

LEMMA SeqBasics ==
    /\ <<>> \in Seq(Episodes) /\ None \notin Seq(Episodes)
    /\ \A s \in Contents : s \in Seq(Episodes)
    /\ \A s \in Seq(Episodes) : s # <<>> => Len(s) \in Nat \ {0} /\ Head(s) \in ToSet(s)
BY ConstantsAssumption DEF ToSet

-----------------------------------------------------------------------------
(* Typing *)

RunTypes == [at : Places, additions : Seq(Episodes), expected : Seq(Episodes)]

LEMMA Arrives ==
    ASSUME run \in RunTypes, NEW place \in Places, Goto(place)
    PROVE  /\ run' \in RunTypes /\ run'.at = place
           /\ run'.additions = run.additions /\ run'.expected = run.expected
BY DEF RunTypes, Goto

LEMMA Stops ==
    ASSUME Stop
    PROVE  /\ run' \in RunTypes /\ run'.at = "idle"
           /\ run'.additions = <<>> /\ run'.expected = <<>>
           /\ IsPrefix(run'.additions, run'.expected)
BY SeqBasics DEF Stop, IdleRun, RunTypes, Places, IsPrefix

RunOK ==
  /\ run \in RunTypes /\ IsPrefix(run.additions, run.expected)
  /\ run.expected # <<>> => run.at # "idle" /\ run.additions # <<>>

ContentOK ==
  /\ dest \in Seq(Episodes) /\ inflight \subseteq Requests
  /\ intent # None => intent \in Seq(Episodes) /\ Len(intent) \in 1..MaxItems

SourceOK ==
  /\ covered \in BOOLEAN
  /\ covered => desired \in Fulls
  /\ ~covered => desired \in Candidates

RestOK ==
  /\ lease \in Fulls \union {None} /\ settling \in BOOLEAN
  /\ doubt \in BOOLEAN /\ withdrawn \in BOOLEAN
  /\ changes \in 0..MaxChanges /\ edits \in 0..MaxEdits /\ faults \in 0..MaxFaults

LEMMA TypeParts ==
    /\ TypeOK <=> RunOK /\ ContentOK /\ SourceOK /\ RestOK
    /\ TypeOK' <=> RunOK' /\ ContentOK' /\ SourceOK' /\ RestOK'
BY DEF TypeOK, RunOK, ContentOK, SourceOK, RestOK, RunTypes

\* At most one more fault, and nothing else counted.
LEMMA Counted ==
    ASSUME RestOK, UNCHANGED <<changes, edits>>,
           faults' = faults \/ (faults < MaxFaults /\ faults' = faults + 1)
    PROVE  changes' \in 0..MaxChanges /\ edits' \in 0..MaxEdits /\ faults' \in 0..MaxFaults
BY ConstantsAssumption DEF RestOK

\* A place is reached with the same additions.
LEMMA RunGoes ==
    ASSUME RunOK, NEW place \in Places \ {"idle"}, Goto(place)
    PROVE  /\ RunOK' /\ run'.at = place
           /\ run'.additions = run.additions /\ run'.expected = run.expected
BY Arrives DEF RunOK

LEMMA RunStops ==
    ASSUME Stop
    PROVE  RunOK' /\ run'.at = "idle" /\ run'.additions = <<>> /\ run'.expected = <<>>
BY Stops DEF RunOK

-----------------------------------------------------------------------------
(* Steps of a turn that leave the contents and the intent alone *)

LEMMA TurnStops ==
    ASSUME IInv, Stop, UNCHANGED <<dest, inflight, intent, covered, desired, edits, withdrawn>>, RestOK'
    PROVE  IInv'
<1>1. RunOK' /\ run'.at = "idle"
  BY RunStops
<1>2. TypeOK'
  BY <1>1, TypeParts DEF IInv, ContentOK, SourceOK
<1>3. Turn' /\ Headed' /\ Unconfirmed' /\ Quiet' /\ Fresh'
  BY <1>1 DEF IInv, Turn, Headed, Unconfirmed, Quiet, Fresh, Undisturbed
<1>4. QED
  BY <1>2, <1>3 DEF IInv

\* What the invariant says at a place.
Fits(place) ==
  /\ place # "added" => ~covered
  /\ place \in {"read", "begin"} => intent = None
  /\ place \in {"confirm", "resolved"} => intent # None
  /\ place \in {"ready", "post", "ambiguous", "verify", "verified", "withdraw"} =>
       intent = run.expected
  /\ place \in {"begin", "ready", "post", "ambiguous", "verify", "verified", "withdraw"} =>
       /\ run.additions # <<>> /\ ToSet(run.additions) \subseteq ToSet(desired)
       /\ Head(run.expected) = Head(run.additions) /\ Len(run.expected) \in 1..MaxItems
  /\ Undisturbed /\ place \in {"resolved", "read", "begin", "ready", "post", "verify",
                               "withdraw", "verified"} => inflight = {}
  /\ Undisturbed /\ place \in {"begin", "ready", "post"} => dest # run.expected
  /\ edits = 0 /\ ~withdrawn /\ ForeignInjective /\ place \in {"begin", "ready", "post"} =>
       run.expected = run.additions \o dest /\ IsInjective(run.expected)

LEMMA TurnGoes ==
    ASSUME IInv, NEW place \in Places \ {"idle"}, Goto(place), Fits(place),
           UNCHANGED <<dest, inflight, intent, covered, desired, edits, withdrawn>>, RestOK'
    PROVE  IInv'
<1>1. /\ RunOK' /\ run'.at = place
      /\ run'.additions = run.additions /\ run'.expected = run.expected
  BY TypeParts, RunGoes DEF IInv
<1>2. TypeOK'
  BY <1>1, TypeParts DEF IInv, ContentOK, SourceOK
<1>3. Turn'
  BY <1>1 DEF Fits, Turn
<1>4. Headed' /\ Unconfirmed'
  BY <1>1 DEF IInv, Fits, Headed, Unconfirmed, Undisturbed
<1>5. Quiet'
  BY <1>1 DEF Fits, Quiet, Undisturbed
<1>6. Fresh'
  BY <1>1 DEF IInv, Fits, Fresh
<1>7. QED
  BY <1>2, <1>3, <1>4, <1>5, <1>6 DEF IInv

-----------------------------------------------------------------------------
(* The actions *)

USE DEF history

\* At rest the turn says nothing: only the contents and the intent matter.
LEMMA AtRest ==
    ASSUME IInv, run.at = "idle", UNCHANGED run, ContentOK', SourceOK', RestOK',
           Headed', Unconfirmed', Fresh'
    PROVE  IInv'
<1>1. RunOK'
  BY TypeParts DEF IInv, RunOK
<1>2. Turn' /\ Quiet'
  BY DEF Turn, Quiet
<1>3. QED
  BY <1>1, <1>2, TypeParts DEF IInv

LEMMA WorldKeeps == ASSUME IInv, World PROVE IInv'
<1> USE ConstantsAssumption
<1>1. RunOK /\ ContentOK /\ SourceOK /\ RestOK
  BY TypeParts DEF IInv
<1>2. CASE ChangeSources
  <2>1. ContentOK' /\ SourceOK' /\ RestOK'
    <3>1. ContentOK'
      BY <1>1, <1>2 DEF ChangeSources, ContentOK, durable
    <3>2. SourceOK'
      BY <1>2 DEF ChangeSources, SourceOK
    <3>3. RestOK'
      BY <1>1, <1>2 DEF ChangeSources, RestOK, durable
    <3>4. QED
      BY <3>1, <3>2, <3>3
  <2>2. Headed' /\ Unconfirmed' /\ Fresh'
    BY <1>2 DEF ChangeSources, IInv, Headed, Unconfirmed, Fresh, Undisturbed, durable
  <2>3. QED
    BY <1>2, <2>1, <2>2, AtRest DEF ChangeSources
<1>3. CASE Edit
  <2>1. RunOK' /\ ContentOK' /\ SourceOK' /\ RestOK'
    BY <1>1, <1>3, SeqBasics DEF Edit, RunOK, ContentOK, SourceOK, RestOK, durable, sources, Contents
  <2>2. Turn' /\ Headed' /\ Quiet'
    BY <1>1, <1>3 DEF Edit, IInv, Turn, Headed, Quiet, Undisturbed, RestOK, durable, sources
  <2>3. edits' # 0 /\ (Undisturbed' => FrontIsOurs)
    BY <1>1, <1>3 DEF Edit, Undisturbed, RestOK
  <2>4. Fresh'
    BY <2>3 DEF Fresh
  <2>5. Unconfirmed'
    <3>0. Undisturbed' => Undisturbed
      BY <1>3, <2>3 DEF Edit, Undisturbed, history
    <3>1. ASSUME Undisturbed, FrontIsOurs, inflight # {} PROVE intent # None /\ dest' # intent
      <4>1. intent # None /\ intent # <<>>
        BY <1>1, <3>1, SeqBasics DEF IInv, Unconfirmed, ContentOK
      <4>2. PICK c \in Candidates : Head(intent) \in ToSet(c)
        BY <4>1 DEF IInv, Headed
      <4>3. QED
        BY <1>3, <3>1, <4>1, <4>2 DEF Edit, FrontIsOurs
    <3>2. ASSUME FrontIsOurs, run.at \in {"begin", "ready", "post"} PROVE dest' # run.expected
      <4>1. run.expected # <<>> /\ Head(run.expected) \in ToSet(desired) /\ desired \in Candidates
        BY <1>1, <3>2, SeqBasics DEF IInv, Turn, RunOK, RunTypes, SourceOK
      <4>2. QED
        BY <1>3, <3>2, <4>1 DEF Edit, FrontIsOurs
    <3>3. UNCHANGED <<inflight, intent, run>>
      BY <1>3 DEF Edit, durable
    <3>4. QED
      BY <2>3, <3>0, <3>1, <3>2, <3>3 DEF IInv, Unconfirmed
  <2>6. QED
    BY <2>1, <2>2, <2>4, <2>5, TypeParts DEF IInv
<1>4. CASE Land
  <2> USE DEF durable, sources, bounds, history
  <2>1. PICK request \in inflight : /\ dest' \in {request.additions \o dest, dest}
                                   /\ inflight' = inflight \ {request}
    BY <1>4 DEF Land
  <2>2. UNCHANGED <<intent, lease, settling, covered, desired, run, doubt, withdrawn,
                    changes, edits, faults>>
    BY <1>4 DEF Land
  <2>3. RunOK' /\ ContentOK' /\ SourceOK' /\ RestOK'
    <3>1. request.additions \in Seq(Episodes) /\ dest \in Seq(Episodes)
      BY <1>1, <2>1 DEF ContentOK, Requests
    <3>2. dest' \in Seq(Episodes)
      BY <2>1, <3>1, InFront
    <3>3. QED
      BY <1>1, <2>1, <2>2, <3>2 DEF RunOK, ContentOK, SourceOK, RestOK
  <2>4. Undisturbed => inflight' = {}
    BY <2>1 DEF IInv, Unconfirmed
  <2>5. Undisturbed => run.at \notin {"begin", "ready", "post"}
    BY <2>1 DEF IInv, Quiet
  <2>6. Turn' /\ Headed' /\ Quiet' /\ Unconfirmed'
    BY <2>2, <2>4, <2>5 DEF IInv, Turn, Headed, Quiet, Unconfirmed, Undisturbed
  <2>7. Fresh'
    BY <2>1, <2>2, <2>4, <2>5 DEF IInv, Fresh, Undisturbed
  <2>8. QED
    BY <2>3, <2>6, <2>7, TypeParts DEF IInv
<1>5. CASE ExpireLease
  <2>1. RunOK' /\ ContentOK' /\ SourceOK' /\ RestOK'
    BY <1>1, <1>5 DEF ExpireLease, RunOK, ContentOK, SourceOK, RestOK, sources, bounds
  <2>2. Turn' /\ Headed' /\ Quiet' /\ Unconfirmed' /\ Fresh'
    BY <1>5 DEF ExpireLease, IInv, Turn, Headed, Quiet, Unconfirmed, Fresh, Undisturbed, sources, bounds
  <2>3. QED
    BY <2>1, <2>2, TypeParts DEF IInv
<1>6. QED
  BY <1>2, <1>3, <1>4, <1>5 DEF World

LEMMA NormalKeeps == ASSUME IInv, Normal \/ NormalFails PROVE IInv'
<1> USE DEF Normal, bounds, sources, Fault, DropIntent
<1>1. RunOK /\ ContentOK /\ SourceOK /\ RestOK
  BY TypeParts DEF IInv
<1>2. desired \in Seq(Episodes) /\ IsInjective(desired) /\ desired \in Fulls
  BY <1>1, SeqBasics, ConstantsAssumption DEF NormalVerifies, NormalReplaces, NormalFails, SourceOK, Contents
<1>3. run.at = "idle" /\ UNCHANGED <<run, covered, desired, edits>>
  BY DEF NormalVerifies, NormalReplaces, NormalFails
<1>4. /\ intent' \in {intent, None}
      /\ \/ UNCHANGED <<dest, inflight, intent, withdrawn>>
         \/ dest' = dest /\ inflight' = inflight /\ withdrawn'
         \/ dest' = desired /\ inflight' = {} /\ withdrawn' = FALSE
  <2>1. CASE NormalVerifies
    <3>1. CASE inflight = {}
      BY <2>1, <3>1 DEF NormalVerifies
    <3>2. CASE inflight # {} /\ UNCHANGED intent
      BY <1>1, <2>1, <3>2 DEF NormalVerifies, RestOK
    <3>3. CASE inflight # {} /\ intent' = None
      BY <2>1, <3>3 DEF NormalVerifies
    <3>4. QED
      BY <2>1, <3>1, <3>2, <3>3 DEF NormalVerifies
  <2>2. CASE NormalReplaces
    BY <2>2 DEF NormalReplaces
  <2>3. CASE NormalFails
    BY <2>3 DEF NormalFails
  <2>4. QED
    BY <2>1, <2>2, <2>3
<1>5. ContentOK' /\ SourceOK' /\ RestOK'
  <2>1. ContentOK'
    BY <1>1, <1>2, <1>4 DEF ContentOK
  <2>2. SourceOK'
    BY <1>1, <1>3 DEF SourceOK
  <2>3. RestOK'
    <3>1. /\ lease' \in {desired, None} /\ settling' \in {settling, TRUE, FALSE}
          /\ doubt' \in {doubt, FALSE} /\ UNCHANGED <<changes, edits>>
          /\ \/ faults' = faults
             \/ faults < MaxFaults /\ faults' = faults + 1
      BY DEF NormalVerifies, NormalReplaces, NormalFails
    <3>2. settling' \in BOOLEAN /\ doubt' \in BOOLEAN
      BY <1>1, <3>1 DEF RestOK
    <3>3. withdrawn' \in BOOLEAN
      <4>1. withdrawn' \in {withdrawn, FALSE, inflight # {} /\ (withdrawn \/ intent' = None)}
        BY DEF NormalVerifies, NormalReplaces, NormalFails
      <4>2. withdrawn \in BOOLEAN
        BY <1>1 DEF RestOK
      <4>3. QED
        BY <4>1, <4>2
    <3>4. lease' \in Fulls \union {None}
      BY <1>2, <3>1
    <3>5. changes' \in 0..MaxChanges /\ edits' \in 0..MaxEdits /\ faults' \in 0..MaxFaults
      BY <1>1, <3>1, Counted
    <3>6. QED
      BY <3>2, <3>3, <3>4, <3>5 DEF RestOK
  <2>4. QED
    BY <2>1, <2>2, <2>3
<1>6. Headed' /\ Unconfirmed' /\ Fresh'
  <2>1. Headed'
    BY <1>4 DEF IInv, Headed
  <2>2. Unconfirmed'
    BY <1>3, <1>4 DEF IInv, Unconfirmed, Undisturbed
  <2>3. Fresh'
    BY <1>2, <1>3, <1>4 DEF IInv, Fresh
  <2>4. QED
    BY <2>1, <2>2, <2>3
<1>7. QED
  BY <1>3, <1>5, <1>6, AtRest

LEMMA StoppedKeeps ==
    ASSUME IInv, Crash \/ CallFails \/ DropLease \/ Skip \/ Preserve \/ UNCHANGED vars PROVE IInv'
<1>1. RestOK
  BY TypeParts DEF IInv
<1>2. CASE Crash \/ CallFails
  <2>1. RestOK'
    BY <1>1, <1>2, ConstantsAssumption DEF Crash, CallFails, Fault, RestOK, durable
  <2>2. QED
    BY <1>2, <2>1, TurnStops DEF Crash, CallFails, Fault, durable, sources
<1>3. CASE DropLease
  <2>1. RestOK'
    BY <1>1, <1>3, ConstantsAssumption DEF DropLease, Fault, RestOK, bounds
  <2>2. QED
    BY <1>3, <2>1, TurnStops DEF DropLease, Fault, bounds, sources
<1>4. CASE Skip \/ Preserve \/ UNCHANGED vars
  <2>1. UNCHANGED <<dest, inflight, intent, lease, settling, covered, desired, run, doubt, withdrawn, changes, edits, faults>>
    BY <1>4 DEF Skip, Preserve, vars, durable, sources, bounds
  <2>2. QED
    BY <2>1, TypeParts DEF IInv, RunOK, ContentOK, SourceOK, RestOK, Turn, Headed, Unconfirmed,
       Undisturbed, Quiet, Fresh
<1>5. QED
  BY <1>2, <1>3, <1>4

LEMMA FenceKeeps ==
    ASSUME IInv, BeginPartial \/ Fence \/ Confirm \/ BeforeWrite \/ Verify \/ PostRejected
    PROVE  IInv'
<1>1. RestOK /\ ContentOK /\ RunOK
  BY TypeParts DEF IInv
<1> USE DEF durable, sources, bounds, Fault
<1>2. UNCHANGED <<dest, inflight, intent, covered, desired, edits, withdrawn>>
  BY DEF BeginPartial, Fence, Confirm, BeforeWrite, Verify, PostRejected
<1>3. RestOK'
  <2>1. doubt' \in BOOLEAN
    <3>1. \/ UNCHANGED doubt
          \/ doubt' = (doubt /\ dest # intent)
          \/ doubt' = (doubt /\ dest # run.expected)
      BY DEF BeginPartial, Fence, Confirm, BeforeWrite, Verify, PostRejected
    <3>2. doubt \in BOOLEAN
      BY <1>1 DEF RestOK
    <3>3. QED
      BY <3>1, <3>2
  <2>2. /\ UNCHANGED <<lease, settling, changes, edits, withdrawn>>
        /\ \/ faults' = faults
           \/ faults < MaxFaults /\ faults' = faults + 1
    BY DEF BeginPartial, Fence, Confirm, BeforeWrite, Verify, PostRejected
  <2>3. QED
    BY <1>1, <2>1, <2>2, ConstantsAssumption DEF RestOK
<1>4. CASE BeginPartial
  BY <1>2, <1>3, <1>4, TurnGoes DEF BeginPartial, Fits, Places
<1>5. CASE Fence
  <2>1. CASE intent = None
    <3>1. Fits("read")
      BY <1>5, <2>1 DEF Fence, Fits, IInv, Turn, Unconfirmed
    <3>2. QED
      BY <1>2, <1>3, <1>5, <2>1, <3>1, TurnGoes DEF Fence, Places
  <2>2. CASE intent # None
    BY <1>2, <1>3, <1>5, <2>2, TurnGoes DEF Fence, Fits, Places, IInv, Turn
  <2>3. QED
    BY <2>1, <2>2
<1>6. CASE Confirm
  <2>1. CASE dest = intent
    <3>1. Fits("resolved")
      BY <1>6, <2>1 DEF Confirm, Fits, IInv, Turn, Unconfirmed
    <3>2. QED
      BY <1>2, <1>3, <1>6, <2>1, <3>1, TurnGoes DEF Confirm, Places
  <2>2. CASE dest # intent
    BY <1>2, <1>3, <1>6, <2>2, TurnStops DEF Confirm
  <2>3. QED
    BY <2>1, <2>2
<1>7. CASE BeforeWrite
  <2>1. Fits("post") /\ Fits("withdraw")
    BY <1>7 DEF BeforeWrite, Fits, IInv, Turn, Quiet, Unconfirmed, Fresh
  <2>2. QED
    BY <1>2, <1>3, <1>7, <2>1, TurnGoes DEF BeforeWrite, Places
<1>8. CASE Verify
  <2>1. CASE dest = run.expected
    <3>1. Fits("verified")
      BY <1>8, <2>1 DEF Verify, Fits, IInv, Turn, Unconfirmed
    <3>2. QED
      BY <1>2, <1>3, <1>8, <2>1, <3>1, TurnGoes DEF Verify, Places
  <2>2. CASE dest # run.expected
    BY <1>2, <1>3, <1>8, <2>2, TurnStops DEF Verify
  <2>3. QED
    BY <2>1, <2>2
<1>9. CASE PostRejected
  <2>1. Fits("withdraw")
    BY <1>9 DEF PostRejected, Fits, IInv, Turn, Quiet
  <2>2. QED
    BY <1>2, <1>3, <1>9, <2>1, TurnGoes DEF PostRejected, Places
<1>10. QED
  BY <1>4, <1>5, <1>6, <1>7, <1>8, <1>9

LEMMA ReadKeeps == ASSUME IInv, Read PROVE IInv'
<1>1. RunOK /\ ContentOK /\ SourceOK /\ RestOK
  BY TypeParts DEF IInv
<1>2. UNCHANGED <<dest, inflight, intent, lease, settling, covered, desired, doubt, withdrawn,
                  changes, edits, faults>>
  BY DEF Read, durable, sources, bounds
<1>3. RestOK'
  BY <1>1, <1>2 DEF RestOK
<1> DEFINE additions == Missing(desired, dest)
<1>4. CASE Stop
  BY <1>2, <1>3, <1>4, TurnStops
<1>5. CASE ~Stop
  <2>1. /\ additions # <<>> /\ ~(Len(additions) + Len(dest) > MaxItems)
        /\ run' = [at |-> "begin", additions |-> additions, expected |-> additions \o dest]
    BY <1>5 DEF Read
  <2>2. /\ run'.at = "begin" /\ run'.additions = additions
        /\ run'.expected = additions \o dest
    BY <2>1
  <2>3. run.at = "read" /\ ~covered /\ intent = None
    BY DEF Read, IInv, Turn
  <2>4. desired \in Seq(Episodes) /\ IsInjective(desired) /\ dest \in Seq(Episodes)
    BY <1>1, <2>3, SeqBasics, ConstantsAssumption DEF SourceOK, ContentOK, Contents
  <2>5. /\ additions \in Seq(Episodes) /\ IsInjective(additions)
        /\ ToSet(additions) \subseteq ToSet(desired) \ ToSet(dest)
    BY <2>4, MissingProperties
  <2> HIDE DEF additions
  <2>6. /\ additions \o dest \in Seq(Episodes)
        /\ Len(additions \o dest) = Len(additions) + Len(dest)
        /\ Head(additions \o dest) = Head(additions) /\ additions \o dest # dest
        /\ IsPrefix(additions, additions \o dest)
        /\ IsInjective(dest) => IsInjective(additions \o dest)
    <3>1. ToSet(additions) \cap ToSet(dest) = {}
      BY <2>5
    <3>2. QED
      BY <2>1, <2>4, <2>5, <3>1, InFront
  <2>7. Len(additions \o dest) \in 1..MaxItems
    BY <2>1, <2>4, <2>5, <2>6, ConstantsAssumption
  <2>8. RunOK'
    BY <2>1, <2>2, <2>5, <2>6 DEF RunOK, RunTypes, Places
  <2>9. TypeOK'
    BY <1>1, <1>2, <1>3, <2>8, TypeParts DEF ContentOK, SourceOK
  <2>10. Turn'
    BY <1>2, <2>1, <2>2, <2>3, <2>5, <2>6, <2>7 DEF Turn
  <2>11. Headed' /\ Unconfirmed'
    BY <1>2, <2>2, <2>6 DEF IInv, Headed, Unconfirmed, Undisturbed
  <2>12. Quiet'
    BY <1>2, <2>3 DEF IInv, Quiet, Unconfirmed, Undisturbed
  <2>13. Fresh'
    BY <1>2, <2>2, <2>6 DEF IInv, Fresh
  <2>14. QED
    BY <2>9, <2>10, <2>11, <2>12, <2>13 DEF IInv
<1>6. QED
  BY <1>4, <1>5

\* The intent gets durable: "begin" becomes "ready".
LEMMA BeginIntentKeeps == ASSUME IInv, BeginIntent PROVE IInv'
<1>1. RunOK /\ ContentOK /\ SourceOK /\ RestOK
  BY TypeParts DEF IInv
<1>2. UNCHANGED <<dest, inflight, lease, settling, covered, desired, doubt, withdrawn, changes, edits, faults>>
  BY DEF BeginIntent, sources, bounds
<1>3. run.at = "begin" /\ intent = None /\ intent' = run.expected /\ Goto("ready")
  BY DEF BeginIntent
<1>4. /\ RunOK' /\ run'.at = "ready"
      /\ run'.additions = run.additions /\ run'.expected = run.expected
  BY <1>1, <1>3, RunGoes DEF Places
<1>5. /\ ~covered /\ run.additions # <<>> /\ ToSet(run.additions) \subseteq ToSet(desired)
      /\ Head(run.expected) = Head(run.additions) /\ Len(run.expected) \in 1..MaxItems
  BY <1>3 DEF IInv, Turn
<1>6. run.expected \in Seq(Episodes) /\ run.additions \in Seq(Episodes) /\ run.expected # None
  BY <1>1, SeqBasics DEF RunOK, RunTypes
<1>7. TypeOK'
  BY <1>1, <1>2, <1>3, <1>4, <1>5, <1>6, TypeParts DEF ContentOK, SourceOK, RestOK
<1>8. Turn'
  BY <1>2, <1>3, <1>4, <1>5 DEF Turn
<1>9. Headed'
  <2>1. desired \in Candidates /\ Head(run.expected) \in ToSet(desired)
    BY <1>1, <1>5, <1>6, SeqBasics DEF SourceOK
  <2>2. QED
    BY <1>3, <2>1 DEF Headed
<1>10. Unconfirmed' /\ Quiet'
  BY <1>2, <1>3, <1>4 DEF IInv, Quiet, Unconfirmed, Undisturbed
<1>11. Fresh'
  BY <1>2, <1>3, <1>4 DEF IInv, Fresh
<1>12. QED
  BY <1>7, <1>8, <1>9, <1>10, <1>11 DEF IInv

\* The POST is sent, and carried out now, or later, or not at all.
LEMMA PostKeeps == ASSUME IInv, Post \/ PostAmbiguous PROVE IInv'
<1>1. RunOK /\ ContentOK /\ SourceOK /\ RestOK
  BY TypeParts DEF IInv
<1>2. UNCHANGED <<intent, lease, settling, covered, desired, changes, edits, withdrawn>>
  BY DEF Post, PostAmbiguous, durable, sources, bounds, history, Fault
<1>3. PICK place \in {"verify", "ambiguous"} :
         Goto(place) /\ (place = "verify" => UNCHANGED inflight)
  BY DEF Post, PostAmbiguous
<1>4. /\ RunOK' /\ run'.at = place
      /\ run'.additions = run.additions /\ run'.expected = run.expected
  BY <1>1, <1>3, RunGoes DEF Places
<1>5. /\ run.at = "post" /\ ~covered /\ intent = run.expected /\ run.additions # <<>>
      /\ ToSet(run.additions) \subseteq ToSet(desired)
      /\ Head(run.expected) = Head(run.additions) /\ Len(run.expected) \in 1..MaxItems
  BY DEF Post, PostAmbiguous, IInv, Turn
<1>6. \/ dest' = run.additions \o dest /\ UNCHANGED inflight
      \/ /\ dest' = dest /\ faults < MaxFaults
         /\ inflight' = inflight \union {[post |-> faults + 1, additions |-> run.additions]}
      \/ UNCHANGED <<dest, inflight>>
  BY DEF Post, PostAmbiguous, Fault
<1>7. /\ run.expected \in Seq(Episodes) /\ run.additions \in Seq(Episodes)
      /\ dest \in Seq(Episodes) /\ inflight \subseteq Requests
  BY <1>1 DEF RunOK, RunTypes, ContentOK
<1>8. run.additions \o dest \in Seq(Episodes)
  BY <1>7, InFront
<1>9. RestOK'
  <2>1. doubt' \in {doubt, TRUE}
    BY DEF Post, PostAmbiguous, history
  <2>2. \/ faults' = faults
        \/ faults < MaxFaults /\ faults' = faults + 1
    BY DEF Post, PostAmbiguous, bounds, Fault
  <2>3. changes' \in 0..MaxChanges /\ edits' \in 0..MaxEdits /\ faults' \in 0..MaxFaults
    BY <1>1, <1>2, <2>2, Counted
  <2>4. QED
    BY <1>1, <1>2, <2>1, <2>3 DEF RestOK
<1>10. TypeOK'
  <2>1. dest' \in Seq(Episodes)
    BY <1>6, <1>7, <1>8
  <2>2. inflight' \subseteq Requests
    <3>1. faults < MaxFaults => faults + 1 \in 1..MaxFaults
      BY <1>1, ConstantsAssumption DEF RestOK
    <3>2. QED
      BY <1>6, <1>7, <3>1 DEF Requests
  <2>3. QED
    BY <1>1, <1>2, <1>4, <1>9, <2>1, <2>2, TypeParts DEF ContentOK, SourceOK
<1>11. Turn' /\ Headed'
  BY <1>2, <1>3, <1>4, <1>5 DEF IInv, Turn, Headed
<1>12. Undisturbed => inflight = {} /\ dest # intent
  BY <1>5 DEF IInv, Quiet, Unconfirmed
<1>13. intent # None
  BY <1>5, <1>7, SeqBasics
<1>14. Unconfirmed' /\ Quiet'
  <2>1. Undisturbed => \/ inflight' = {}
                       \/ /\ dest' = dest
                          /\ inflight' = {[post |-> faults + 1, additions |-> run.additions]}
    BY <1>6, <1>12
  <2>2. QED
    BY <1>2, <1>3, <1>4, <1>12, <1>13, <2>1 DEF Unconfirmed, Quiet, Undisturbed
<1>15. Fresh'
  <2>1. ASSUME edits = 0, ~withdrawn, ForeignInjective
        PROVE  /\ IsInjective(dest')
               /\ \A request \in inflight' : IsInjective(request.additions \o dest')
    <3>1. run.expected = run.additions \o dest /\ IsInjective(run.expected) /\ IsInjective(dest)
      BY <1>5, <2>1 DEF IInv, Fresh
    <3>2. inflight = {}
      BY <1>12, <2>1 DEF Undisturbed
    <3>3. CASE dest' = run.additions \o dest /\ UNCHANGED inflight
      BY <3>1, <3>2, <3>3
    <3>4. CASE UNCHANGED <<dest, inflight>>
      BY <3>1, <3>2, <3>4
    <3>5. CASE /\ dest' = dest
               /\ inflight' = inflight \union {[post |-> faults + 1, additions |-> run.additions]}
      BY <3>1, <3>2, <3>5
    <3>6. QED
      BY <1>6, <3>3, <3>4, <3>5
  <2>2. QED
    BY <1>2, <1>3, <1>4, <2>1 DEF Fresh
<1>16. QED
  BY <1>10, <1>11, <1>14, <1>15 DEF IInv

\* The intent is dropped once its POST is settled.
LEMMA ClearIntentKeeps == ASSUME IInv, ClearIntent PROVE IInv'
<1>1. RunOK /\ ContentOK /\ SourceOK /\ RestOK
  BY TypeParts DEF IInv
<1>2. /\ UNCHANGED <<dest, inflight, lease, settling, covered, desired, doubt, withdrawn, changes, edits, faults>>
      /\ intent' = None
  BY DEF ClearIntent, sources, bounds
<1>3. RunOK' /\ run'.at \in {"idle", "added"}
  <2>1. CASE Stop
    BY <2>1, RunStops
  <2>2. CASE Goto("added")
    BY <1>1, <2>2, RunGoes DEF Places
  <2>3. QED
    BY <2>1, <2>2 DEF ClearIntent
<1>4. TypeOK'
  BY <1>1, <1>2, <1>3, TypeParts DEF ContentOK, SourceOK, RestOK
<1>5. Undisturbed => inflight = {}
  BY DEF ClearIntent, IInv, Quiet
<1>6. Turn' /\ Headed' /\ Unconfirmed' /\ Quiet' /\ Fresh'
  BY <1>2, <1>3, <1>5 DEF IInv, Turn, Headed, Unconfirmed, Quiet, Fresh, Undisturbed
<1>7. QED
  BY <1>4, <1>6 DEF IInv

-----------------------------------------------------------------------------
(* The theorems *)

LEMMA Invariance == Spec => []IInv
<1>1. Init => IInv
  <2> SUFFICES ASSUME Init PROVE IInv
    OBVIOUS
  <2>1. run.at = "idle" /\ run = IdleRun /\ intent = None /\ inflight = {} /\ edits = 0
    BY DEF Init, IdleRun
  <2>2. dest \in Seq(Episodes)
    BY SeqBasics DEF Init, Contents
  <2>3. RunOK
    BY <2>1, SeqBasics DEF RunOK, RunTypes, IdleRun, Places, IsPrefix
  <2>4. ContentOK /\ SourceOK /\ RestOK
    <3>1. ContentOK
      BY <2>1, <2>2, SeqBasics DEF ContentOK
    <3>2. SourceOK
      BY DEF Init, SourceOK
    <3>3. RestOK
      <4>1. /\ lease \in Fulls \union {None} /\ settling \in BOOLEAN
            /\ doubt \in BOOLEAN /\ withdrawn \in BOOLEAN
        BY DEF Init
      <4>2. {MaxItems, MaxChanges, MaxEdits, MaxFaults} \subseteq Nat
        BY ConstantsAssumption
      <4>3. QED
        BY <4>1, <4>2 DEF Init, RestOK
    <3>4. QED
      BY <3>1, <3>2, <3>3
  <2>5. Turn /\ Headed /\ Unconfirmed /\ Quiet
    BY <2>1 DEF Init, Turn, Headed, Unconfirmed, Quiet
  <2>6. Fresh
    <3>1. ASSUME ForeignInjective PROVE IsInjective(dest)
      BY <3>1, ConstantsAssumption DEF Init, ForeignInjective
    <3>2. QED
      BY <2>1, <3>1 DEF Fresh
  <2>7. QED
    BY <2>3, <2>4, <2>5, <2>6, TypeParts DEF IInv
<1>2. IInv /\ [Next]_vars => IInv'
  <2> SUFFICES ASSUME IInv, [Next]_vars PROVE IInv'
    OBVIOUS
  <2>1. CASE World
    BY <2>1, WorldKeeps
  <2>2. CASE Normal \/ NormalFails
    BY <2>2, NormalKeeps
  <2>3. CASE Crash \/ CallFails \/ DropLease \/ Skip \/ Preserve \/ UNCHANGED vars
    BY <2>3, StoppedKeeps
  <2>4. CASE BeginPartial \/ Fence \/ Confirm \/ BeforeWrite \/ Verify \/ PostRejected
    BY <2>4, FenceKeeps
  <2>5. CASE Read
    BY <2>5, ReadKeeps
  <2>6. CASE BeginIntent
    BY <2>6, BeginIntentKeeps
  <2>7. CASE Post \/ PostAmbiguous
    BY <2>7, PostKeeps
  <2>8. CASE ClearIntent
    BY <2>8, ClearIntentKeeps
  <2>9. QED
    BY <2>1, <2>2, <2>3, <2>4, <2>5, <2>6, <2>7, <2>8 DEF Next, Partial, Trouble
<1>3. QED
  BY <1>1, <1>2, PTL DEF Spec

\* The types of the add-only mode; what is intended fits into the playlist.
THEOREM TypeCorrect == Spec => []TypeOK
<1>1. IInv => TypeOK
  BY DEF IInv
<1>2. QED
  BY <1>1, Invariance, PTL

\* What the invariant says of a POST whose outcome is open.
LEMMA OpenPost == ASSUME IInv, edits = 0 \/ FrontIsOurs PROVE OpenPostIsFenced
<1>1. inflight # {} => intent # None \/ withdrawn
  BY DEF IInv, Unconfirmed, Undisturbed
<1>2. ASSUME run.at \in {"post", "ambiguous", "verify"} PROVE intent # None
  <2>1. intent = run.expected /\ run.expected \in Seq(Episodes)
    BY <1>2 DEF IInv, Turn, TypeOK
  <2>2. QED
    BY <2>1, SeqBasics
<1>3. QED
  BY <1>1, <1>2 DEF OpenPostIsFenced

\* Unless somebody else puts one of the very episodes at the top, a POST whose outcome is
\* open has its durable intent, through crashes, failed readbacks and late requests; only a
\* normal pass that had nothing to write may have dropped it.
THEOREM OpenPostsFenced == ASSUME FrontIsOurs PROVE Spec => []OpenPostIsFenced
<1>1. IInv => OpenPostIsFenced
  BY FrontIsOurs, OpenPost
<1>2. QED
  BY <1>1, Invariance, PTL

\* Whatever may be put at the top: without edits the fence holds in the same way.
THEOREM FencedWhenAlone == Spec => [](edits = 0 => OpenPostIsFenced)
<1>1. IInv => (edits = 0 => OpenPostIsFenced)
  BY OpenPost
<1>2. QED
  BY <1>1, Invariance, PTL

\* Where nobody else edits a destination without duplicates, no episode gets into it twice,
\* whatever becomes of the POSTs, unless a normal pass that had nothing to write has dropped
\* the intent of one that is carried out later.
THEOREM NoEpisodeTwice == ASSUME ForeignInjective PROVE Spec => []NoDuplicates
<1>1. IInv => NoDuplicates
  BY ForeignInjective DEF IInv, Fresh, NoDuplicates
<1>2. QED
  BY <1>1, Invariance, PTL
=============================================================================
