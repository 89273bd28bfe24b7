------------------------- MODULE Reconciliation_proofs -------------------------
(***************************************************************************)
(* For any contents, environments, numbers of versions, changes, edits and *)
(* faults.                                                                 *)
(*                                                                         *)
(* What a lease or a pending confirmation says of the destination is said  *)
(* of its history: the engine wrote this version last (LastIn), or it held *)
(* this content since (HeldIn); both outlive what others do.  The          *)
(* invariant follows the evidence from the read or the snapshot that gives *)
(* it (Observed), through the outcome of the pass (Vouched) and the list   *)
(* of durable writes it settles (Planned), into the journals (Awaited,     *)
(* Attested, DegradedDropped, ExactKept, DoubtKept).  Known is about a     *)
(* destination nobody disturbs.  A snapshot seen twice proves that nothing *)
(* was edited in between: every edit and every propagation moves the view  *)
(* beyond what the run has seen.                                           *)
(*                                                                         *)
(* Steps are those of the world, those of the run alone (Quietly), those   *)
(* that write, and stuttering; each part of the invariant has a lemma for  *)
(* the second and one (...Step) for all.                                   *)
(***************************************************************************)
EXTENDS Reconciliation, FiniteSetTheorems, TLAPS

-----------------------------------------------------------------------------
(* What is evidence of what *)

\* In the history h, version v is the engine's last write, of the content fp.
LastIn(h, v, fp) ==
  /\ v \in 1..Len(h) /\ h[v] = Version(fp, TRUE)
  /\ \A w \in v + 1 .. Len(h) : ~h[w].own

\* The history h held fp after the engine's last write to it (or with it).
HeldIn(h, fp) ==
  \E v \in 1..Len(h) : h[v].items = fp /\ \A w \in v + 1 .. Len(h) : ~h[w].own

Names(ops) == {op.name : op \in ToSet(ops)}

Todo(name) == name \in Names(run.todo)

Settling(results) == run.at = "settle" /\ run.result \in results

\* The places of a pass where no confirmation is pending any more.
Unpending == {"shortcut", "compare", "stableBefore", "stableRead", "stableAfter", "checkAttestation",
            "baseline", "write", "readback", "confirmSnapshot", "confirmRead", "confirmAgain",
            "opaqueSnapshot", "ambiguous", "attestBefore", "attestRead", "attestAfter"}

\* The places where a pass resolves a pending confirmation.
Resolving == {"pendingSnapshot", "resolve", "restableRead", "restableSnapshot"}

\* The places after an accepted write.
Accepted == {"readback", "confirmSnapshot", "confirmRead", "confirmAgain", "opaqueSnapshot"}

\* A list of durable writes that fits its outcome, in a history of n versions.
Fits(ops, result, n) ==
  \A op \in ToSet(ops) :
    /\ op.name \in {"recordExact", "clearExact", "recordDegraded", "clearDegraded"}
         <=> result = "done"
    /\ op.name = "setPending" => result = "unqualified" /\ op.base # 0 /\ ops = <<op>>
    /\ op.name = "setAttestation" => result \in {"exact", "proved", "degraded"}
    /\ op.name \in {"setAttestation", "setPending"} => op.snapshot \in 1..n

\* What is still to be written fits the outcome it belongs to.
Planned ==
  /\ run.at # "settle" => run.todo = <<>> /\ run.result = "done"
  /\ run.page # Unread => run.at \in ReadPoints
  /\ Fits(run.todo, run.result, Latest)

\* Where a pass stands with a pending confirmation.
Pends ==
  /\ run.at \in Unpending => pending = None
  /\ run.at \in Resolving => pending # None
  /\ run.at \in Resolving \union {"read"} /\ pending # None => pending.fp = run.want
  /\ Settling({"compare", "exact", "proved"}) => pending = None \/ Todo("clearPending")
  /\ Todo("recordExact") => pending = None
  /\ Todo("setPending") => pending = None

\* A pending confirmation is the engine's last write, and so is what was just sent.
Awaited ==
  /\ pending # None => LastIn(hist, pending.expected, pending.fp)
  /\ run.at \in Accepted => LastIn(hist, run.sent, run.want)
  /\ \A op \in ToSet(run.todo) :
       op.name = "setPending" => LastIn(hist, op.snapshot, run.want)

\* An unchanged snapshot: what was read since it was seen is what there is.
Observed ==
  /\ run.seen <= view
  /\ run.at \in {"restableRead", "stableRead", "attestRead"} /\ view = run.seen /\ run.page # Unread
       => run.page = Items[1]
  /\ run.at \in {"restableSnapshot", "attestAfter"} /\ view = run.seen => Items = run.want
  /\ run.at = "stableAfter" /\ view = run.seen /\ run.slots = run.want => Items = run.want

\* What an outcome vouches for was held since the engine's last write.
Vouched ==
  /\ (run.at = "compare" \/ Settling({"compare"})) /\ ~env.paged /\ run.slots = run.want
       => HeldIn(hist, run.want)
  /\ Settling({"exact", "proved"}) \/ Todo("recordExact") => HeldIn(hist, run.want)
  /\ ~env.lag /\ (Settling({"degraded"}) \/ Todo("recordDegraded")) => HeldIn(hist, run.want)

\* Without lag a snapshot names the content of its version.
Attested ==
  ~env.lag =>
    /\ view = Latest
    /\ att # None => hist[att.snapshot].items = att.fp
    /\ \A op \in ToSet(run.todo) :
         op.name = "setAttestation" => hist[op.snapshot].items = run.want
    /\ run.at = "checkAttestation" => att # None /\ att.fp = run.want

\* A degraded lease is dropped when a pass begins.
DegradedDropped ==
  /\ run.at # "idle" /\ ~Settling({"done"}) => degraded = None
  /\ ~env.lag /\ degraded # None => HeldIn(hist, degraded)

\* No write of this pass can have touched what the exact lease says.
Clean ==
  \/ run.at \in {"idle", "dispatch", "shortcut", "read", "compare", "write"} \union Resolving
                \union {"stableBefore", "stableRead", "stableAfter", "checkAttestation", "baseline"}
  \/ Settling({"dispatch", "compare"})
  \/ Settling({"done"}) /\ ~Todo("recordExact") /\ ~Todo("clearExact")

ExactKept ==
  ~env.crashes /\ ~env.unsafe /\ Clean =>
    /\ exact # None => pending = None /\ HeldIn(hist, exact)
    /\ doubt => exact = None

DoubtKept ==
  ~env.crashes /\ ~env.unsafe /\ doubt =>
    degraded = None /\ ~Todo("recordExact") /\ ~Todo("recordDegraded")

\* Nobody else edits, reads are whole and snapshots current.
Alone == env.edits = 0 /\ ~env.lag /\ ~env.opaque

\* What the engine knows of an undisturbed destination.
Known ==
  Alone =>
    /\ run.page # Unread => run.page = Items[1]
    /\ run.at = "compare" \/ Settling({"compare"}) => run.slots = Items
    /\ run.at \in {"stableBefore", "stableRead"} => Items = run.want
    /\ run.at = "stableRead" => view = run.seen
    /\ run.at = "stableAfter" => run.slots = run.want /\ Items = run.want /\ view = run.seen
    /\ run.at \in {"baseline", "write"} => Items # run.want
    /\ run.at = "shortcut" => att # None /\ att.fp # run.want
    /\ run.at # "checkAttestation"
    /\ ~hist[1].own

IInv ==
  /\ TypeOK /\ Planned /\ Pends /\ Awaited /\ Observed /\ Vouched
  /\ Attested /\ DegradedDropped /\ ExactKept /\ DoubtKept /\ Known

-----------------------------------------------------------------------------
(* Histories and lists of durable writes *)

Versions == [items : Contents, own : BOOLEAN]

\* What somebody else's version leaves true.
LEMMA ForeignVersion ==
    ASSUME NEW h \in Seq(Versions), NEW e \in Versions, ~e.own
    PROVE  /\ \A v, fp : LastIn(h, v, fp) => LastIn(Append(h, e), v, fp)
           /\ \A fp : HeldIn(h, fp) => HeldIn(Append(h, e), fp)
<1> DEFINE g == Append(h, e)
<1>1. Len(g) = Len(h) + 1 /\ Len(h) \in Nat /\ g[Len(h) + 1] = e
      /\ \A v \in 1..Len(h) : g[v] = h[v]
  OBVIOUS
<1> HIDE DEF g
<1>2. ASSUME NEW v \in 1..Len(h), \A w \in v + 1 .. Len(h) : ~h[w].own
      PROVE  \A w \in v + 1 .. Len(g) : ~g[w].own
  BY <1>1, <1>2
<1>3. \A v, fp : LastIn(h, v, fp) => LastIn(g, v, fp)
  <2> SUFFICES ASSUME NEW v, NEW fp, LastIn(h, v, fp) PROVE LastIn(g, v, fp)
    OBVIOUS
  <2>1. v \in 1..Len(h) /\ h[v] = Version(fp, TRUE) /\ \A w \in v + 1 .. Len(h) : ~h[w].own
    BY DEF LastIn
  <2>2. g[v] = Version(fp, TRUE)
    BY <1>1, <2>1
  <2>3. v \in 1..Len(g)
    BY <1>1, <2>1
  <2>4. \A w \in v + 1 .. Len(g) : ~g[w].own
    BY <1>2, <2>1
  <2>5. QED
    BY <2>2, <2>3, <2>4 DEF LastIn
<1>4. \A fp : HeldIn(h, fp) => HeldIn(g, fp)
  <2> SUFFICES ASSUME NEW fp, NEW v \in 1..Len(h), h[v].items = fp,
                      \A w \in v + 1 .. Len(h) : ~h[w].own
               PROVE  HeldIn(g, fp)
    BY DEF HeldIn
  <2>1. v \in 1..Len(g) /\ g[v].items = fp
    BY <1>1
  <2>2. QED
    BY <2>1, <1>2 DEF HeldIn
<1>5. QED
  BY <1>3, <1>4 DEF g

\* What the engine's own version makes true.
LEMMA OwnVersion ==
    ASSUME NEW h \in Seq(Versions), NEW c \in Contents
    PROVE  LastIn(Append(h, Version(c, TRUE)), Len(h) + 1, c)
  BY DEF LastIn, Version, Versions

LEMMA LastIsHeld ==
    ASSUME NEW h, NEW v, NEW fp, LastIn(h, v, fp)
    PROVE  HeldIn(h, fp)
  BY DEF LastIn, HeldIn, Version

LEMMA LatestIsHeld ==
    ASSUME NEW h \in Seq(Versions), Len(h) # 0
    PROVE  HeldIn(h, h[Len(h)].items)
  BY DEF HeldIn

\* The lists that occur.
LEMMA Lists ==
    /\ ToSet(<<>>) = {} /\ <<>> \in Seq(OpType)
    /\ \A x \in OpType : ToSet(<<x>>) = {x} /\ <<x>> \in Seq(OpType) /\ <<x>> # <<>>
    /\ \A x, y \in OpType :
         ToSet(<<x, y>>) = {x, y} /\ <<x, y>> \in Seq(OpType) /\ <<x, y>> # <<>>
  BY DEF ToSet

LEMMA HeadAndTail ==
    ASSUME NEW s \in Seq(OpType), s # <<>>
    PROVE  /\ Head(s) \in OpType /\ Tail(s) \in Seq(OpType)
           /\ ToSet(s) = {Head(s)} \union ToSet(Tail(s))
<1>1. Len(s) \in Nat \ {0} /\ Len(Tail(s)) = Len(s) - 1 /\ Head(s) = s[1]
      /\ \A i \in 1..Len(Tail(s)) : Tail(s)[i] = s[i + 1]
  OBVIOUS
<1>2. Head(s) \in OpType /\ Tail(s) \in Seq(OpType)
  OBVIOUS
<1>3. ToSet(s) \subseteq {Head(s)} \union ToSet(Tail(s))
  <2> SUFFICES ASSUME NEW i \in 1..Len(s), i # 1 PROVE s[i] \in ToSet(Tail(s))
    BY <1>1 DEF ToSet
  <2>1. i - 1 \in 1..Len(Tail(s)) /\ Tail(s)[i - 1] = s[i]
    BY <1>1
  <2>2. i - 1 \in DOMAIN Tail(s)
    BY <2>1, <1>2
  <2>3. QED
    BY <2>1, <2>2 DEF ToSet
<1>4. ToSet(Tail(s)) \subseteq ToSet(s)
  <2> SUFFICES ASSUME NEW i \in 1..Len(Tail(s)) PROVE Tail(s)[i] \in ToSet(s)
    BY <1>2 DEF ToSet
  <2>1. i + 1 \in 1..Len(s) /\ Tail(s)[i] = s[i + 1]
    BY <1>1
  <2>2. QED
    BY <2>1 DEF ToSet
<1>5. Head(s) \in ToSet(s)
  BY <1>1 DEF ToSet
<1>6. QED
  BY <1>2, <1>3, <1>4, <1>5

LEMMA ListMembers ==
    ASSUME NEW s \in Seq(OpType)
    PROVE  \A op \in ToSet(s) : op \in OpType
  BY DEF ToSet

LEMMA Ops ==
    ASSUME NEW b \in 0..MaxVersions, NEW n \in 0..MaxVersions, NEW w \in BOOLEAN
    PROVE  /\ SetAttestation(n) \in OpType /\ SetPending(b, n, w) \in OpType
           /\ SetAttestation(n) = [name |-> "setAttestation", base |-> 0, snapshot |-> n, whole |-> TRUE]
           /\ SetPending(b, n, w) = [name |-> "setPending", base |-> b, snapshot |-> n, whole |-> w]
  BY ContentsAssumption DEF SetAttestation, SetPending, Op, OpType

LEMMA SimpleOps ==
    \A name \in {"clearPending", "recordExact", "clearExact", "recordDegraded", "clearDegraded"} :
      Simple(name) \in OpType /\ Simple(name).name = name
  BY ContentsAssumption DEF Simple, Op, OpType

-----------------------------------------------------------------------------
(* Types *)

\* The run is of its type, and what it holds are versions there are.
RunOK ==
  /\ run \in RunType
  /\ {run.base, run.seen, run.sent} \subseteq 0..Latest
  /\ run.at # "idle" => run.want \in Desireds

\* What the run may read.
LEMMA Readable ==
    ASSUME TypeOK
    PROVE  /\ Items \in Contents /\ Items = <<Items[1], Items[2]>>
           /\ {Hidden, Unread, Items[1], Items[2]} \subseteq Slots
           /\ {FullRead, HiddenRead} \subseteq Slots \X Slots
<1>1. Items \in Contents
  <2>1. hist \in Seq(Versions) /\ Latest \in 1..Len(hist)
    BY DEF TypeOK, Versions, Latest
  <2>2. hist[Latest] \in Versions
    BY <2>1
  <2>3. QED
    BY <2>2 DEF Items, Versions
<1>2. Items = <<Items[1], Items[2]>>
  BY <1>1, ContentsAssumption
<1> HIDE DEF Items
<1>3. {Hidden, Unread, Items[1], Items[2]} \subseteq Slots
  BY <1>1 DEF Slots
<1>4. run.page \in Slots
  BY DEF TypeOK, RunType
<1>5. QED
  BY <1>1, <1>2, <1>3, <1>4 DEF FullRead, HiddenRead

LEMMA Numbers ==
    ASSUME TypeOK
    PROVE  /\ MaxVersions \in Nat /\ Latest \in 1..MaxVersions /\ view \in 1..Latest
           /\ view \in 0..MaxVersions /\ view # 0
           /\ run.base \in 0..Latest /\ run.seen \in 0..Latest /\ run.sent \in 0..Latest
           /\ run.base \in 0..MaxVersions /\ run.seen \in 0..MaxVersions /\ run.sent \in 0..MaxVersions
           /\ env \in EnvironmentType /\ faults \in 0..env.faults
           /\ Fault => faults' \in 0..env.faults
  BY ContentsAssumption DEF TypeOK, Fault, EnvironmentType

LEMMA TypeSplit ==
    TypeOK <=>
      /\ RunOK
      /\ env \in Environments
      /\ hist \in Seq(Versions) /\ Latest \in 1..MaxVersions /\ view \in 1..Latest
      /\ desired \in Desireds
      /\ att # None => att \in AttestationType /\ att.snapshot <= Latest
      /\ pending # None => pending \in PendingType /\ pending.expected <= Latest
      /\ {exact, degraded} \subseteq Desireds \union {None}
      /\ faults \in 0..env.faults /\ changes \in 0..MaxChanges /\ doubt \in BOOLEAN
  BY DEF TypeOK, RunOK, Versions

\* A step of the run alone.
QuietFrame == UNCHANGED <<env, hist, view, desired, att, pending, exact, degraded, changes>>

LEMMA QuietTyped ==
    ASSUME TypeOK, QuietFrame, RunOK', faults' \in 0..env.faults, doubt' \in BOOLEAN
    PROVE  TypeOK'
<1>1. (TypeOK <=>
      /\ RunOK
      /\ env \in Environments
      /\ hist \in Seq(Versions) /\ Latest \in 1..MaxVersions /\ view \in 1..Latest
      /\ desired \in Desireds
      /\ att # None => att \in AttestationType /\ att.snapshot <= Latest
      /\ pending # None => pending \in PendingType /\ pending.expected <= Latest
      /\ {exact, degraded} \subseteq Desireds \union {None}
      /\ faults \in 0..env.faults /\ changes \in 0..MaxChanges /\ doubt \in BOOLEAN)'
  BY TypeSplit, PTL
<1> HIDE DEF RunOK
<1>2. QED
  BY <1>1, TypeSplit DEF QuietFrame, Latest

LEMMA SettleTyped ==
    ASSUME TypeOK, hist' = hist, run.at # "idle", NEW ops \in Seq(OpType),
           NEW result \in Outcomes \union {"done", "dispatch", "compare"}, Settle(ops, result)
    PROVE  RunOK'
<1>1. run' \in RunType
  BY Readable DEF TypeOK, RunType, Settle, Places
<1>2. QED
  BY <1>1 DEF TypeOK, RunOK, RunType, Settle, Latest

LEMMA GotoTyped ==
    ASSUME TypeOK, hist' = hist, run.at # "idle", NEW place \in Places, Goto(place)
    PROVE  RunOK'
<1>1. run' \in RunType
  BY Readable DEF TypeOK, RunType, Goto
<1>2. QED
  BY <1>1 DEF TypeOK, RunOK, RunType, Goto, Latest

\* The steps that move the run and nothing else but the faults and the doubt.
Quietly ==
  \/ Dispatch \/ PendingSnapshot \/ Shortcut \/ FirstPage \/ Read
  \/ Resolve \/ RestableRead \/ RestableSnapshot \/ Compare \/ StableBefore
  \/ StableRead \/ StableAfter \/ CheckAttestation \/ Baseline \/ Ambiguous
  \/ AttestBefore \/ AttestRead \/ AttestAfter \/ Readback \/ ConfirmSnapshot
  \/ ConfirmRead \/ ConfirmAgain \/ OpaqueSnapshot \/ Settled \/ PageFails
  \/ CallFails \/ OptionalFails \/ PersistFails \/ Crash

LEMMA QuietFrames ==
    ASSUME TypeOK, Quietly, env' = env
    PROVE  /\ QuietFrame /\ faults' \in 0..env.faults /\ doubt' \in BOOLEAN /\ hist' = hist
           /\ doubt' => doubt
<1>1. CASE Dispatch
  BY <1>1, Numbers DEF Dispatch, QuietFrame, remote, durable, TypeOK
<1>2. CASE PendingSnapshot
  BY <1>2, Numbers DEF PendingSnapshot, QuietFrame, remote, durable, TypeOK
<1>3. CASE Shortcut
  BY <1>3, Numbers DEF Shortcut, QuietFrame, remote, durable, TypeOK
<1>4. CASE FirstPage
  BY <1>4, Numbers DEF FirstPage, QuietFrame, remote, durable, TypeOK
<1>5. CASE Read
  BY <1>5, Numbers DEF Read, QuietFrame, remote, durable, Reading, TypeOK
<1>6. CASE Resolve
  BY <1>6, Numbers DEF Resolve, QuietFrame, remote, durable, TypeOK
<1>7. CASE RestableRead
  BY <1>7, Numbers DEF RestableRead, QuietFrame, remote, durable, StrictRead, TypeOK
<1>8. CASE RestableSnapshot
  BY <1>8, Numbers DEF RestableSnapshot, QuietFrame, remote, durable, TypeOK
<1>9. CASE Compare
  BY <1>9, Numbers DEF Compare, QuietFrame, remote, durable, TypeOK
<1>10. CASE StableBefore
  BY <1>10, Numbers DEF StableBefore, QuietFrame, remote, durable, TypeOK
<1>11. CASE StableRead
  BY <1>11, Numbers DEF StableRead, QuietFrame, remote, durable, Reading, TypeOK
<1>12. CASE StableAfter
  BY <1>12, Numbers DEF StableAfter, QuietFrame, remote, durable, TypeOK
<1>13. CASE CheckAttestation
  BY <1>13, Numbers DEF CheckAttestation, QuietFrame, remote, durable, TypeOK
<1>14. CASE Baseline
  BY <1>14, Numbers DEF Baseline, QuietFrame, remote, durable, TypeOK
<1>15. CASE Ambiguous
  BY <1>15, Numbers DEF Ambiguous, QuietFrame, remote, durable, StrictRead, TypeOK
<1>16. CASE AttestBefore
  BY <1>16, Numbers DEF AttestBefore, QuietFrame, remote, durable, TypeOK
<1>17. CASE AttestRead
  BY <1>17, Numbers DEF AttestRead, QuietFrame, remote, durable, StrictRead, TypeOK
<1>18. CASE AttestAfter
  BY <1>18, Numbers DEF AttestAfter, QuietFrame, remote, durable, TypeOK
<1>19. CASE Readback
  BY <1>19, Numbers DEF Readback, QuietFrame, remote, durable, Reading, TypeOK
<1>20. CASE ConfirmSnapshot
  BY <1>20, Numbers DEF ConfirmSnapshot, QuietFrame, remote, durable, TypeOK
<1>21. CASE ConfirmRead
  BY <1>21, Numbers DEF ConfirmRead, QuietFrame, remote, durable, StrictRead, TypeOK
<1>22. CASE ConfirmAgain
  BY <1>22, Numbers DEF ConfirmAgain, QuietFrame, remote, durable, TypeOK
<1>23. CASE OpaqueSnapshot
  BY <1>23, Numbers DEF OpaqueSnapshot, QuietFrame, remote, durable, TypeOK
<1>24. CASE Settled
  BY <1>24, Numbers DEF Settled, QuietFrame, remote, durable, TypeOK
<1>25. CASE PageFails
  BY <1>25, Numbers DEF PageFails, QuietFrame, remote, durable, RequestFails, TypeOK
<1>26. CASE CallFails
  BY <1>26, Numbers DEF CallFails, QuietFrame, remote, durable, RequestFails, TypeOK
<1>27. CASE OptionalFails
  BY <1>27, Numbers DEF OptionalFails, QuietFrame, remote, durable, RequestFails, TypeOK
<1>28. CASE PersistFails
  BY <1>28, Numbers DEF PersistFails, QuietFrame, remote, durable, TypeOK
<1>29. CASE Crash
  BY <1>29, Numbers DEF Crash, QuietFrame, remote, durable, TypeOK
<1>30. QED
  BY <1>1, <1>2, <1>3, <1>4, <1>5, <1>6, <1>7, <1>8, <1>9, <1>10, <1>11, <1>12, <1>13, <1>14, <1>15, <1>16, <1>17, <1>18, <1>19, <1>20, <1>21, <1>22, <1>23, <1>24, <1>25, <1>26, <1>27, <1>28, <1>29 DEF Quietly

\* Moves of the run, typed.
SawAt(place, s)   == run' = [run EXCEPT !.at = place, !.seen = s]
BasedAt(place, s) == run' = [run EXCEPT !.at = place, !.base = s]
ReadAt(place, s)  == run' = [run EXCEPT !.at = place, !.page = Unread, !.slots = s]

LEMMA OneMove ==
    ASSUME TypeOK, hist' = hist, run.at # "idle", NEW place \in Places, NEW s \in 0..Latest,
           SawAt(place, s) \/ BasedAt(place, s)
    PROVE  RunOK'
<1>1. s \in 0..MaxVersions
  BY Numbers
<1>2. CASE SawAt(place, s)
  <2>1. run' \in RunType
    BY <1>1, <1>2 DEF TypeOK, RunType, SawAt
  <2>2. QED
    BY <1>2, <2>1 DEF TypeOK, RunOK, RunType, Latest, SawAt
<1>3. CASE BasedAt(place, s)
  <2>1. run' \in RunType
    BY <1>1, <1>3 DEF TypeOK, RunType, BasedAt
  <2>2. QED
    BY <1>3, <2>1 DEF TypeOK, RunOK, RunType, Latest, BasedAt
<1>4. QED
  BY <1>2, <1>3

LEMMA ReadMove ==
    ASSUME TypeOK, hist' = hist, run.at # "idle", NEW place \in Places,
           NEW slots \in Slots \X Slots,
           ReadAt(place, slots)
    PROVE  RunOK'
<1>1. run' \in RunType
  BY Readable DEF TypeOK, RunType, ReadAt
<1>2. QED
  BY <1>1 DEF TypeOK, RunOK, RunType, Latest, ReadAt

LEMMA IdleInType == IdleRun \in RunType
  BY ContentsAssumption, Lists DEF RunType, IdleRun, Places, Slots

LEMMA IdleTyped ==
    ASSUME TypeOK, hist' = hist, run' = IdleRun
    PROVE  RunOK'
  BY IdleInType, Numbers DEF RunOK, IdleRun, Latest

LEMMA QuietRunTyped ==
    ASSUME TypeOK, Quietly, hist' = hist
    PROVE  RunOK'
<1> USE DEF Places, SnapPoints, ReadPoints, Outcomes
<1>1. CASE Dispatch
  <2>1. <<ClearPending>> \in Seq(OpType)
    BY SimpleOps, Lists DEF ClearPending
  <2>2. QED
    BY <1>1, <2>1, SettleTyped, GotoTyped DEF Dispatch, ShortcutOrRead
<1>2. CASE PendingSnapshot
  <2>1. view \in 0..Latest /\ view \in 0..MaxVersions /\ run.at # "idle"
    BY <1>2, Numbers DEF PendingSnapshot
  <2>2. <<SetAttestation(view), ClearPending>> \in Seq(OpType)
    BY <2>1, Ops, Lists, SimpleOps DEF ClearPending
  <2>3. SawAt("read", view) \/ Settle(<<SetAttestation(view), ClearPending>>, "exact")
    BY <1>2 DEF PendingSnapshot, SawAt
  <2>4. QED
    BY <2>1, <2>2, <2>3, OneMove, SettleTyped
<1>3. CASE Shortcut
  <2>1. view \in 0..Latest /\ run.at # "idle"
    BY <1>3, Numbers DEF Shortcut
  <2>2. BasedAt("write", view) \/ Goto("read")
    BY <1>3 DEF Shortcut, SawAt, BasedAt
  <2>3. QED
    BY <2>1, <2>2, OneMove, GotoTyped
<1>4. CASE FirstPage
  <2>1. run' \in RunType
    BY <1>4, Readable DEF FirstPage, TypeOK, RunType
  <2>2. QED
    BY <1>4, <2>1 DEF FirstPage, TypeOK, RunOK, RunType, Latest
<1>5. CASE Read
  <2>1. PICK slots \in {FullRead, HiddenRead} :
          LET seen == [run EXCEPT !.slots = slots, !.page = Unread]
          IN  run' = IF pending = None THEN [seen EXCEPT !.at = "compare"]
                     ELSE IF Match(slots, run.want) THEN [seen EXCEPT !.at = "resolve"]
                     ELSE [seen EXCEPT !.at = "settle", !.todo = <<ClearPending>>,
                                       !.result = "compare"]
    BY <1>5 DEF Read
  <2>2. slots \in Slots \X Slots
    BY <2>1, Readable
  <2>3. <<ClearPending>> \in Seq(OpType)
    BY SimpleOps, Lists DEF ClearPending
  <2>4. run' \in RunType
    BY <2>1, <2>2, <2>3, Readable DEF TypeOK, RunType
  <2>5. run'.want = run.want /\ run'.base = run.base /\ run'.seen = run.seen /\ run'.sent = run.sent
    BY <2>1 DEF TypeOK, RunType
  <2>6. run.at # "idle"
    BY <1>5 DEF Read
  <2>7. QED
    BY <2>4, <2>5, <2>6 DEF TypeOK, RunOK, Latest
<1>6. CASE Resolve
  <2>1. ClearPending \in OpType
    BY SimpleOps DEF ClearPending
  <2> DEFINE s == IF run.seen # 0 THEN run.seen ELSE view
  <2>2. s \in 0..Latest /\ SetAttestation(s) \in OpType
    <3>1. s \in 0..Latest /\ s \in 0..MaxVersions
      BY Numbers
    <3> HIDE DEF s
    <3>2. QED
      BY <3>1, Ops
  <2>3. <<SetAttestation(s), ClearPending>> \in Seq(OpType) /\ <<>> \in Seq(OpType)
    BY <2>1, <2>2, Lists
  <2>4. \/ \E result \in {"exact", "degraded"} : Settle(<<SetAttestation(s), ClearPending>>, result)
        \/ \E result \in {"unqualified", "failed"} : Settle(<<>>, result)
        \/ SawAt("restableRead", s)
    BY <1>6, Zenon DEF Resolve, SawAt
  <2> HIDE DEF s
  <2>5. run.at # "idle"
    BY <1>6 DEF Resolve
  <2>6. QED
    BY <2>2, <2>3, <2>4, <2>5, SettleTyped, OneMove
<1>7. CASE RestableRead
  BY <1>7, Lists, SettleTyped, GotoTyped DEF RestableRead, StrictRead
<1>8. CASE RestableSnapshot
  <2>1. ClearPending \in OpType
    BY SimpleOps DEF ClearPending
  <2>2. SetAttestation(view) \in OpType
    BY Numbers, Ops
  <2>3. QED
    BY <1>8, <2>1, <2>2, Lists, Numbers, SettleTyped DEF RestableSnapshot
<1>9. CASE Compare
  BY <1>9, Lists, SettleTyped, GotoTyped DEF Compare
<1>10. CASE StableBefore
  <2>1. view \in 0..Latest /\ run.at # "idle"
    BY <1>10, Numbers DEF StableBefore
  <2>2. SawAt("stableRead", view)
    BY <1>10 DEF StableBefore, SawAt, BasedAt
  <2>3. QED
    BY <2>1, <2>2, OneMove
<1>11. CASE StableRead
  <2>1. PICK slots \in {FullRead, HiddenRead} : ReadAt("stableAfter", IF slots = run.want THEN slots ELSE <<Unread, Unread>>)
    BY <1>11 DEF StableRead, ReadAt
  <2>2. (IF slots = run.want THEN slots ELSE <<Unread, Unread>>) \in Slots \X Slots
    BY <2>1, Readable
  <2>3. run.at # "idle"
    BY <1>11 DEF StableRead
  <2>4. QED
    BY <2>1, <2>2, <2>3, ReadMove
<1>12. CASE StableAfter
  BY <1>12, Lists, SettleTyped, GotoTyped DEF StableAfter
<1>13. CASE CheckAttestation
  <2>1. view \in 0..Latest /\ run.at # "idle"
    BY <1>13, Numbers DEF CheckAttestation
  <2>2. BasedAt("write", view) \/ Settle(<<>>, "degraded")
    BY <1>13 DEF CheckAttestation, SawAt, BasedAt
  <2>3. QED
    BY <2>1, <2>2, OneMove, Lists, SettleTyped
<1>14. CASE Baseline
  <2>1. view \in 0..Latest /\ run.at # "idle"
    BY <1>14, Numbers DEF Baseline
  <2>2. BasedAt("write", view)
    BY <1>14 DEF Baseline, SawAt, BasedAt
  <2>3. QED
    BY <2>1, <2>2, OneMove
<1>15. CASE Ambiguous
  BY <1>15, Lists, SettleTyped, GotoTyped DEF Ambiguous, StrictRead
<1>16. CASE AttestBefore
  <2>1. view \in 0..Latest /\ run.at # "idle"
    BY <1>16, Numbers DEF AttestBefore
  <2>2. SawAt("attestRead", view)
    BY <1>16 DEF AttestBefore, SawAt, BasedAt
  <2>3. QED
    BY <2>1, <2>2, OneMove
<1>17. CASE AttestRead
  BY <1>17, Lists, SettleTyped, GotoTyped DEF AttestRead, StrictRead
<1>18. CASE AttestAfter
  <2>1. ClearPending \in OpType
    BY SimpleOps DEF ClearPending
  <2>2. SetAttestation(view) \in OpType
    BY Numbers, Ops
  <2>3. QED
    BY <1>18, <2>1, <2>2, Lists, Numbers, SettleTyped DEF AttestAfter
<1>19. CASE Readback
  <2>1. SetPending(run.base, run.sent, TRUE) \in OpType
    BY Numbers, Ops
  <2>2. QED
    BY <1>19, <2>1, Lists, SettleTyped, GotoTyped DEF Readback
<1>20. CASE ConfirmSnapshot
  <2>1. ClearPending \in OpType
    BY SimpleOps DEF ClearPending
  <2>2. SetAttestation(run.sent) \in OpType
    BY Numbers, Ops
  <2>3. QED
    BY <1>20, <2>1, <2>2, Lists, Numbers, SettleTyped, GotoTyped DEF ConfirmSnapshot
<1>21. CASE ConfirmRead
  BY <1>21, Lists, SettleTyped, GotoTyped DEF ConfirmRead, StrictRead
<1>22. CASE ConfirmAgain
  <2>1. ClearPending \in OpType
    BY SimpleOps DEF ClearPending
  <2>2. SetAttestation(run.sent) \in OpType
    BY Numbers, Ops
  <2>3. QED
    BY <1>22, <2>1, <2>2, Lists, Numbers, SettleTyped DEF ConfirmAgain
<1>23. CASE OpaqueSnapshot
  <2>1. ClearPending \in OpType
    BY SimpleOps DEF ClearPending
  <2>2. SetAttestation(run.sent) \in OpType /\ SetPending(run.base, run.sent, FALSE) \in OpType
    BY Numbers, Ops
  <2>3. QED
    BY <1>23, <2>1, <2>2, Lists, SettleTyped DEF OpaqueSnapshot
<1>24. CASE Settled
  <2>1. Recording(run.result) \in Seq(OpType)
    BY Lists, SimpleOps DEF Recording
  <2>2. CASE run.result = "done"
    BY <1>24, <2>2, IdleTyped DEF Settled
  <2>3. CASE run.result \in Outcomes
    <3>1. run' = [IdleRun EXCEPT !.at = "settle", !.want = run.want, !.todo = Recording(run.result)]
      BY <1>24, <2>3 DEF Settled
    <3>2. run.want \in Desireds
      BY <1>24 DEF Settled, TypeOK
    <3>3. run' \in RunType
      BY <2>1, <3>1, <3>2, IdleInType DEF RunType
    <3>4. run'.want = run.want /\ run'.base = 0 /\ run'.seen = 0 /\ run'.sent = 0
      BY <3>1 DEF IdleRun
    <3>5. QED
      BY <3>2, <3>3, <3>4, Numbers DEF RunOK, Latest
  <2>4. CASE run.result \in {"dispatch", "compare"}
    <3>1. run' = [run EXCEPT !.at = run.result, !.result = "done"]
      BY <1>24, <2>4 DEF Settled
    <3>2. run' \in RunType
      BY <2>4, <3>1 DEF TypeOK, RunType
    <3>3. run'.want = run.want /\ run'.base = run.base /\ run'.seen = run.seen /\ run'.sent = run.sent
      BY <3>1 DEF TypeOK, RunType
    <3>4. run.at # "idle"
      BY <1>24 DEF Settled
    <3>5. QED
      BY <3>2, <3>3, <3>4 DEF TypeOK, RunOK, Latest
  <2>5. QED
    BY <2>2, <2>3, <2>4 DEF TypeOK, RunType
<1>25. CASE PageFails
  BY <1>25, Lists, SettleTyped, GotoTyped DEF PageFails
<1>26. CASE CallFails
  BY <1>26, Lists, SettleTyped, GotoTyped DEF CallFails
<1>27. CASE OptionalFails
  BY <1>27, Lists, SettleTyped, GotoTyped DEF OptionalFails
<1>28. CASE PersistFails
  <2>1. CASE run.result = "done"
    BY <1>28, <2>1, IdleTyped DEF PersistFails
  <2>2. CASE run.result # "done"
    BY <1>28, <2>2, Lists, SettleTyped DEF PersistFails
  <2>3. QED
    BY <2>1, <2>2
<1>29. CASE Crash
  BY <1>29, IdleTyped DEF Crash
<1>30. QED
  BY <1>1, <1>2, <1>3, <1>4, <1>5, <1>6, <1>7, <1>8, <1>9, <1>10, <1>11, <1>12, <1>13, <1>14, <1>15, <1>16, <1>17, <1>18, <1>19, <1>20, <1>21, <1>22, <1>23, <1>24, <1>25, <1>26, <1>27, <1>28, <1>29 DEF Quietly

-----------------------------------------------------------------------------
(* Type correctness *)

\* TypeSplit, after a step.
LEMMA TypeSplitNext ==
    TypeOK' <=>
      /\ RunOK'
      /\ env' \in Environments
      /\ hist' \in Seq(Versions) /\ Len(hist') \in 1..MaxVersions /\ view' \in 1..Len(hist')
      /\ desired' \in Desireds
      /\ att' # None => att' \in AttestationType /\ att'.snapshot <= Len(hist')
      /\ pending' # None => pending' \in PendingType /\ pending'.expected <= Len(hist')
      /\ {exact', degraded'} \subseteq Desireds \union {None}
      /\ faults' \in 0..env'.faults /\ changes' \in 0..MaxChanges /\ doubt' \in BOOLEAN
<1> HIDE DEF RunOK
<1>1. (TypeOK <=>
      /\ RunOK
      /\ env \in Environments
      /\ hist \in Seq(Versions) /\ Latest \in 1..MaxVersions /\ view \in 1..Latest
      /\ desired \in Desireds
      /\ att # None => att \in AttestationType /\ att.snapshot <= Latest
      /\ pending # None => pending \in PendingType /\ pending.expected <= Latest
      /\ {exact, degraded} \subseteq Desireds \union {None}
      /\ faults \in 0..env.faults /\ changes \in 0..MaxChanges /\ doubt \in BOOLEAN)'
  BY TypeSplit, PTL
<1>2. QED
  BY <1>1 DEF Latest

LEMMA RunKept ==
    ASSUME TypeOK, hist' = hist, run' = run
    PROVE  RunOK'
  BY DEF TypeOK, RunOK, Latest

\* A longer history keeps the run of its type.
LEMMA RunGrows ==
    ASSUME TypeOK, NEW e \in Versions, hist' = Append(hist, e), run' = run, Latest < MaxVersions
    PROVE  RunOK' /\ hist' \in Seq(Versions) /\ Len(hist') = Latest + 1 /\ Len(hist') \in 1..MaxVersions
<1>1. hist \in Seq(Versions)
  BY TypeSplit
<1>2. hist' \in Seq(Versions) /\ Len(hist') = Latest + 1
  BY <1>1 DEF Latest
<1>3. QED
  BY <1>2, Numbers DEF TypeOK, RunOK, Latest

LEMMA HistoryGrows ==
    ASSUME TypeOK, RunOK', hist' \in Seq(Versions), Len(hist') \in 1..MaxVersions, Latest <= Len(hist'),
           view' \in 1..Len(hist'), faults' \in 0..env.faults, doubt' \in BOOLEAN,
           UNCHANGED <<env, desired, att, pending, exact, degraded, changes>>
    PROVE  TypeOK'
<1> HIDE DEF RunOK
<1>1. att # None => att.snapshot <= Len(hist')
  BY TypeSplit, Numbers DEF AttestationType
<1>2. pending # None => pending.expected <= Len(hist')
  BY TypeSplit, Numbers DEF PendingType
<1>3. QED
  BY <1>1, <1>2, TypeSplit, TypeSplitNext

LEMMA WorldTyped ==
    ASSUME TypeOK, World, env' = env
    PROVE  TypeOK'
<1> HIDE DEF RunOK
<1>1. CASE Edit
  <2>1. PICK c \in Foreign \union {Items} : hist' = Append(hist, Version(c, FALSE))
    BY <1>1 DEF Edit
  <2>2. Version(c, FALSE) \in Versions
    BY <2>1, Readable DEF Version, Versions, Contents
  <2>3. RunOK' /\ hist' \in Seq(Versions) /\ Len(hist') = Latest + 1 /\ Len(hist') \in 1..MaxVersions
    BY <1>1, <2>1, <2>2, RunGrows DEF Edit
  <2>4. QED
    BY <1>1, <2>3, HistoryGrows, Numbers, TypeSplit DEF Edit, durable
<1>2. CASE Propagate
  BY <1>2, TypeSplit, TypeSplitNext, Numbers, RunKept DEF Propagate, durable, Latest
<1>3. CASE ChangeDesired
  BY <1>3, TypeSplit, TypeSplitNext, Numbers, RunKept, ContentsAssumption DEF ChangeDesired, durable, remote, Latest
<1>4. CASE ExpireLease
  BY <1>4, TypeSplit, TypeSplitNext, Numbers, RunKept DEF ExpireLease, remote, Latest
<1>5. CASE ExpirePending
  <2>1. pending' \in PendingType /\ pending'.expected <= Latest
    BY <1>5, TypeSplit DEF ExpirePending, PendingType
  <2>2. faults' \in 0..env.faults
    BY <1>5, Numbers DEF ExpirePending
  <2>3. QED
    BY <1>5, <2>1, <2>2, TypeSplit, TypeSplitNext, RunKept DEF ExpirePending, remote, Latest
<1>6. QED
  BY <1>1, <1>2, <1>3, <1>4, <1>5 DEF World

\* A write, applied.
LEMMA Appended ==
    ASSUME NEW h \in Seq(Versions), NEW e \in Versions
    PROVE  Append(h, e) \in Seq(Versions) /\ Len(Append(h, e)) = Len(h) + 1 /\ Len(h) \in Nat
  OBVIOUS

LEMMA ReplaceTyped ==
    ASSUME TypeOK, Replace, run.at # "idle"
    PROVE  /\ hist' \in Seq(Versions) /\ Len(hist') = Latest + 1 /\ Len(hist') \in 1..MaxVersions
           /\ view' \in 1..Len(hist')
<1>1. Version(run.want, TRUE) \in Versions
  BY DEF TypeOK, Version, Versions, Contents
<1>2. hist \in Seq(Versions)
  BY TypeSplit
<1>3. hist' = Append(hist, Version(run.want, TRUE)) /\ Latest < MaxVersions
      /\ (view' = view \/ view' = Latest + 1)
  BY DEF Replace
<1>4. hist' \in Seq(Versions) /\ Len(hist') = Latest + 1
  BY <1>1, <1>2, <1>3, Appended DEF Latest
<1>5. Latest \in Nat /\ MaxVersions \in Nat /\ view \in 1..Latest
  BY Numbers
<1>6. Latest + 1 \in 1..MaxVersions
  BY <1>3, <1>5
<1>7. view' \in 1..Latest + 1
  BY <1>3, <1>5
<1>8. QED
  BY <1>4, <1>6, <1>7

\* The steps that write: to Spotify, to the journal, to SQLite.
Writing == Begin \/ Write \/ WriteAmbiguous \/ WriteStale \/ Persist

LEMMA WritingTyped ==
    ASSUME TypeOK, Writing, env' = env, Planned
    PROVE  TypeOK'
<1>1. CASE Begin
  <2>1. run' \in RunType /\ run'.want = desired /\ run'.base = 0 /\ run'.seen = 0 /\ run'.sent = 0
    <3>1. run' = [IdleRun EXCEPT !.at = "dispatch", !.want = desired, !.quick = TRUE] /\ desired \in Desireds
      BY <1>1, TypeSplit DEF Begin
    <3>2. run' \in RunType
      BY <3>1, IdleInType DEF RunType, Places
    <3>3. QED
      BY <3>1, <3>2 DEF IdleRun
  <2>2. RunOK'
    BY <2>1, <1>1, Numbers, TypeSplit DEF RunOK, Begin, remote, Latest
  <2> HIDE DEF RunOK
  <2>3. QED
    BY <1>1, <2>2, TypeSplit, TypeSplitNext DEF Begin, remote, Latest
<1>2. CASE Write
  <2>1. run' = [run EXCEPT !.at = "readback", !.sent = Latest + 1] /\ run.at = "write" /\ Replace
    BY <1>2 DEF Write
  <2>2. hist' \in Seq(Versions) /\ Len(hist') = Latest + 1 /\ Len(hist') \in 1..MaxVersions
        /\ view' \in 1..Len(hist')
    BY <2>1, ReplaceTyped
  <2>3. run' \in RunType
    <3>1. Latest + 1 \in 0..MaxVersions
      BY <2>2, Numbers
    <3>2. QED
      BY <2>1, <3>1 DEF TypeOK, RunType, Places, ReadPoints
  <2>4. run'.want = run.want /\ run'.base = run.base /\ run'.seen = run.seen /\ run'.sent = Latest + 1
    BY <2>1 DEF TypeOK, RunType
  <2>5. RunOK'
    BY <2>1, <2>2, <2>3, <2>4, Numbers DEF TypeOK, RunOK, Latest
  <2> HIDE DEF RunOK
  <2>6. QED
    BY <1>2, <2>2, <2>5, HistoryGrows, Numbers, TypeSplit DEF Write, durable
<1>3. CASE WriteAmbiguous
  <2>1. run' = [run EXCEPT !.at = "ambiguous", !.page = Unread] /\ run.at = "write"
    BY <1>3 DEF WriteAmbiguous, Goto
  <2>2. run' \in RunType /\ run'.want = run.want /\ run'.base = run.base /\ run'.seen = run.seen /\ run'.sent = run.sent
    BY <2>1, Readable DEF TypeOK, RunType, Places, ReadPoints
  <2>3. Replace \/ UNCHANGED <<hist, view>>
    BY <1>3 DEF WriteAmbiguous, remote
  <2>4. hist' \in Seq(Versions) /\ Len(hist') \in 1..MaxVersions /\ view' \in 1..Len(hist') /\ Latest <= Len(hist')
    BY <2>1, <2>3, ReplaceTyped, TypeSplit, Numbers DEF Latest
  <2>5. RunOK'
    BY <2>1, <2>2, <2>4, Numbers DEF TypeOK, RunOK, Latest
  <2> HIDE DEF RunOK
  <2>6. faults' \in 0..env.faults
    BY <1>3, Numbers DEF WriteAmbiguous, RequestFails
  <2>7. QED
    BY <1>3, <2>4, <2>5, <2>6, HistoryGrows DEF WriteAmbiguous, durable
<1>4. CASE WriteStale
  <2>1. PICK d \in Desireds :
          /\ desired' = d
          /\ run' = [IdleRun EXCEPT !.at = "dispatch", !.want = d, !.retried = TRUE]
    BY <1>4 DEF WriteStale
  <2>2. run' \in RunType /\ run'.want = d /\ run'.base = 0 /\ run'.seen = 0 /\ run'.sent = 0
    <3>1. run' \in RunType
      BY <2>1, IdleInType DEF RunType, Places
    <3>2. QED
      BY <2>1, <3>1 DEF IdleRun
  <2>3. RunOK'
    BY <1>4, <2>2, Numbers DEF RunOK, WriteStale, remote, Latest
  <2> HIDE DEF RunOK
  <2>4. faults' \in 0..env.faults
    BY <1>4, Numbers DEF WriteStale, RequestFails
  <2>5. QED
    BY <1>4, <2>1, <2>3, <2>4, TypeSplit, TypeSplitNext DEF WriteStale, remote, durable, Latest
<1>5. CASE Persist
  <2>1. run' = [run EXCEPT !.todo = Tail(@)] /\ run.todo # <<>> /\ run.at = "settle" /\ Apply(Head(run.todo))
    BY <1>5 DEF Persist
  <2>2. run.todo \in Seq(OpType)
    BY DEF TypeOK, RunType
  <2>3. Head(run.todo) \in OpType /\ Tail(run.todo) \in Seq(OpType) /\ Head(run.todo) \in ToSet(run.todo)
    BY <2>1, <2>2, HeadAndTail
  <2> DEFINE op == Head(run.todo)
  <2>4. run' \in RunType /\ run'.want = run.want /\ run'.base = run.base /\ run'.seen = run.seen /\ run'.sent = run.sent
    BY <2>1, <2>3 DEF TypeOK, RunType
  <2>5. RunOK'
    BY <1>5, <2>1, <2>4, Numbers DEF Persist, TypeOK, RunOK, remote, Latest
  <2>6. run.want \in Desireds
    BY <2>1 DEF TypeOK
  <2>7. op.name \in {"setAttestation", "setPending"} => op.snapshot \in 1..Latest
    BY <2>3 DEF Planned, Fits
  <2>8. op.name = "setPending" => op.base \in 1..MaxVersions
    BY <2>3, Numbers DEF Planned, Fits, OpType
  <2> HIDE DEF RunOK, op
  <2>9. att' # None => att' \in AttestationType /\ att'.snapshot <= Latest
    BY <2>1, <2>3, <2>6, <2>7, Numbers, TypeSplit DEF Apply, AttestationType, op
  <2>10. pending' # None => pending' \in PendingType /\ pending'.expected <= Latest
    BY <2>1, <2>3, <2>6, <2>7, <2>8, Numbers, TypeSplit DEF Apply, Pending, PendingType, op, OpType
  <2>11. {exact', degraded'} \subseteq Desireds \union {None}
    BY <2>1, <2>6, TypeSplit DEF Apply
  <2>12. QED
    BY <1>5, <2>5, <2>9, <2>10, <2>11, TypeSplit, TypeSplitNext DEF Persist, remote, Latest
<1>6. QED
  BY <1>1, <1>2, <1>3, <1>4, <1>5 DEF Writing

\* Every step is one of the world, of the run alone, of the writes, or changes nothing.
LEMMA Steps ==
    ASSUME [Next]_vars
    PROVE  /\ env' = env
           /\ World \/ Quietly \/ Writing \/ UNCHANGED vars
  BY DEF Next, Skip, Step, Trouble, Quietly, Writing, vars

LEMMA InitTyped == Init => TypeOK
<1> SUFFICES ASSUME Init PROVE TypeOK
  OBVIOUS
<1>1. PICK c \in Contents : hist = <<[items |-> c, own |-> FALSE]>>
  BY DEF Init
<1>2. hist \in Seq(Versions) /\ Len(hist) = 1
  BY <1>1 DEF Versions
<1>3. RunOK
  BY <1>2, IdleInType DEF Init, RunOK, IdleRun, Latest
<1> HIDE DEF RunOK
<1>4. env.faults \in Nat /\ MaxVersions \in Nat \ {0} /\ MaxChanges \in Nat
  BY ContentsAssumption DEF Init, EnvironmentType
<1>5. Latest \in 1..MaxVersions /\ view \in 1..Latest
  BY <1>2, <1>4 DEF Init, Latest
<1>6. faults \in 0..env.faults /\ changes \in 0..MaxChanges /\ doubt \in BOOLEAN
  <2>1. faults = 0 /\ changes = 0
    BY DEF Init
  <2>2. faults \in 0..env.faults /\ changes \in 0..MaxChanges
    BY <1>4, <2>1
  <2>3. doubt \in BOOLEAN
    BY Zenon DEF Init
  <2>4. QED
    BY <2>2, <2>3
<1>7. {exact, degraded} \subseteq Desireds \union {None}
  BY DEF Init
<1>8. QED
  BY <1>2, <1>3, <1>5, <1>6, <1>7, TypeSplit DEF Init

LEMMA TypeStep ==
    ASSUME TypeOK, Planned, [Next]_vars
    PROVE  TypeOK'
<1>1. CASE World
  BY <1>1, Steps, WorldTyped
<1>2. CASE Quietly
  BY <1>2, Steps, QuietFrames, QuietRunTyped, QuietTyped
<1>3. CASE Writing
  BY <1>3, Steps, WritingTyped
<1>4. CASE UNCHANGED vars
  BY <1>4, RunKept, TypeSplit, TypeSplitNext DEF vars, remote, durable, Latest
<1>5. QED
  BY <1>1, <1>2, <1>3, <1>4, Steps

-----------------------------------------------------------------------------
(* Outcomes and pending confirmations *)

\* What a move of the run changes.
LEMMA Moves ==
    ASSUME TypeOK
    PROVE  /\ \A p : Goto(p) =>
                /\ run'.at = p /\ run'.page = Unread
                /\ run'.want = run.want /\ run'.base = run.base /\ run'.seen = run.seen
                /\ run'.sent = run.sent /\ run'.slots = run.slots
                /\ run'.todo = run.todo /\ run'.result = run.result
           /\ \A ops, r : Settle(ops, r) =>
                /\ run'.at = "settle" /\ run'.page = Unread
                /\ run'.want = run.want /\ run'.base = run.base /\ run'.seen = run.seen
                /\ run'.sent = run.sent /\ run'.slots = run.slots
                /\ run'.todo = ops /\ run'.result = r
           /\ \A p, s : SawAt(p, s) =>
                /\ run'.at = p /\ run'.page = run.page
                /\ run'.want = run.want /\ run'.base = run.base /\ run'.seen = s
                /\ run'.sent = run.sent /\ run'.slots = run.slots
                /\ run'.todo = run.todo /\ run'.result = run.result
           /\ \A p, s : BasedAt(p, s) =>
                /\ run'.at = p /\ run'.page = run.page
                /\ run'.want = run.want /\ run'.base = s /\ run'.seen = run.seen
                /\ run'.sent = run.sent /\ run'.slots = run.slots
                /\ run'.todo = run.todo /\ run'.result = run.result
           /\ \A p, s : ReadAt(p, s) =>
                /\ run'.at = p /\ run'.page = Unread
                /\ run'.want = run.want /\ run'.base = run.base /\ run'.seen = run.seen
                /\ run'.sent = run.sent /\ run'.slots = s
                /\ run'.todo = run.todo /\ run'.result = run.result
<1>1. run \in RunType
  BY DEF TypeOK
<1>2. \A p : Goto(p) =>
                /\ run'.at = p /\ run'.page = Unread
                /\ run'.want = run.want /\ run'.base = run.base /\ run'.seen = run.seen
                /\ run'.sent = run.sent /\ run'.slots = run.slots
                /\ run'.todo = run.todo /\ run'.result = run.result
  BY <1>1 DEF Goto, RunType
<1>3. \A ops, r : Settle(ops, r) =>
                /\ run'.at = "settle" /\ run'.page = Unread
                /\ run'.want = run.want /\ run'.base = run.base /\ run'.seen = run.seen
                /\ run'.sent = run.sent /\ run'.slots = run.slots
                /\ run'.todo = ops /\ run'.result = r
  BY <1>1 DEF Settle, RunType
<1>4. \A p, s : SawAt(p, s) =>
                /\ run'.at = p /\ run'.page = run.page
                /\ run'.want = run.want /\ run'.base = run.base /\ run'.seen = s
                /\ run'.sent = run.sent /\ run'.slots = run.slots
                /\ run'.todo = run.todo /\ run'.result = run.result
  BY <1>1 DEF SawAt, RunType
<1>5. \A p, s : BasedAt(p, s) =>
                /\ run'.at = p /\ run'.page = run.page
                /\ run'.want = run.want /\ run'.base = s /\ run'.seen = run.seen
                /\ run'.sent = run.sent /\ run'.slots = run.slots
                /\ run'.todo = run.todo /\ run'.result = run.result
  BY <1>1 DEF BasedAt, RunType
<1>6. \A p, s : ReadAt(p, s) =>
                /\ run'.at = p /\ run'.page = Unread
                /\ run'.want = run.want /\ run'.base = run.base /\ run'.seen = run.seen
                /\ run'.sent = run.sent /\ run'.slots = s
                /\ run'.todo = run.todo /\ run'.result = run.result
  BY <1>1 DEF ReadAt, RunType
<1>7. QED
  BY <1>2, <1>3, <1>4, <1>5, <1>6

\* A run that ends, or goes back.
LEMMA IdleFields ==
    run' = IdleRun =>
      /\ run'.at = "idle" /\ run'.page = Unread /\ run'.todo = <<>> /\ run'.result = "done"
      /\ run'.base = 0 /\ run'.seen = 0 /\ run'.sent = 0 /\ run'.want = None
  BY DEF IdleRun

LEMMA SettledFields ==
    ASSUME TypeOK, Settled
    PROVE  /\ run.at = "settle" /\ run.todo = <<>>
           /\ run.result = "done" => run' = IdleRun
           /\ run.result \in Outcomes =>
                /\ run'.at = "settle" /\ run'.page = Unread /\ run'.result = "done"
                /\ run'.want = run.want /\ run'.todo = Recording(run.result)
                /\ run'.seen = 0 /\ run'.base = 0 /\ run'.sent = 0
           /\ run.result \in {"dispatch", "compare"} =>
                /\ run'.at = run.result /\ run'.page = run.page /\ run'.result = "done"
                /\ run'.want = run.want /\ run'.base = run.base /\ run'.seen = run.seen
                /\ run'.sent = run.sent /\ run'.slots = run.slots /\ run'.todo = <<>>
           /\ run.result \in Outcomes \union {"done", "dispatch", "compare"}
<1>1. run \in RunType /\ run.at = "settle" /\ run.todo = <<>>
  BY DEF TypeOK, Settled
<1>2. run.result \in Outcomes \union {"done", "dispatch", "compare"}
  BY <1>1 DEF RunType
<1>3. CASE run.result = "done"
  BY <1>1, <1>3 DEF Settled, Outcomes
<1>4. CASE run.result \in Outcomes
  <2>1. run' = [IdleRun EXCEPT !.at = "settle", !.want = run.want, !.todo = Recording(run.result)]
    BY <1>4 DEF Settled, Outcomes
  <2>2. run'.at = "settle" /\ run'.page = Unread /\ run'.result = "done"
        /\ run'.want = run.want /\ run'.todo = Recording(run.result)
        /\ run'.seen = 0 /\ run'.base = 0 /\ run'.sent = 0
    BY <2>1 DEF IdleRun
  <2>3. QED
    BY <1>1, <1>4, <2>2 DEF Outcomes
<1>5. CASE run.result \in {"dispatch", "compare"}
  <2>1. run' = [run EXCEPT !.at = run.result, !.result = "done"]
    BY <1>5 DEF Settled, Outcomes
  <2>2. QED
    BY <1>1, <1>5, <2>1 DEF RunType, Outcomes
<1>6. QED
  BY <1>2, <1>3, <1>4, <1>5

\* What the engine records after an outcome.
LEMMA Recordings ==
    ASSUME NEW r \in Outcomes
    PROVE  /\ Names(Recording(r)) =
                IF r \in {"exact", "proved"} THEN {"recordExact", "clearDegraded"}
                ELSE IF r = "degraded" /\ pending = None THEN {"clearExact", "recordDegraded"}
                ELSE IF r = "failed" THEN {"clearExact"} ELSE {"clearExact", "clearDegraded"}
           /\ \A op \in ToSet(Recording(r)) : op.name \in Names(Recording(r))
<1>1. \A x, y \in OpType : Names(<<x, y>>) = {x.name, y.name}
  BY Lists DEF Names
<1>2. \A x \in OpType : Names(<<x>>) = {x.name}
  BY Lists DEF Names
<1>3. QED
  BY <1>1, <1>2, SimpleOps DEF Recording, Outcomes, Names

LEMMA Fitting ==
    /\ \A r, n : Fits(<<>>, r, n)
    /\ \A r, n : r # "done" => Fits(<<ClearPending>>, r, n)
    /\ \A n : \A s \in 0..MaxVersions, r \in {"exact", "proved", "degraded"} : s \in 1..n =>
         /\ Fits(<<SetAttestation(s), ClearPending>>, r, n)
         /\ Fits(<<ClearPending, SetAttestation(s)>>, r, n)
    /\ \A n : \A b, s \in 0..MaxVersions, w \in BOOLEAN : b # 0 /\ s \in 1..n =>
         Fits(<<SetPending(b, s, w)>>, "unqualified", n)
    /\ \A n : \A r \in Outcomes : Fits(Recording(r), "done", n)
<1>1. ClearPending \in OpType /\ ClearPending.name = "clearPending"
  BY SimpleOps DEF ClearPending
<1>2. \A s \in 0..MaxVersions : SetAttestation(s) \in OpType /\ SetAttestation(s).name = "setAttestation"
        /\ SetAttestation(s).snapshot = s
  BY ContentsAssumption DEF SetAttestation, Op, OpType
<1>3. \A b, s \in 0..MaxVersions, w \in BOOLEAN :
        /\ SetPending(b, s, w) \in OpType /\ SetPending(b, s, w).name = "setPending"
        /\ SetPending(b, s, w).snapshot = s /\ SetPending(b, s, w).base = b
  BY Ops
<1>4. \A r, n : Fits(<<>>, r, n)
  BY Lists DEF Fits
<1>5. \A r, n : r # "done" => Fits(<<ClearPending>>, r, n)
  BY <1>1, Lists DEF Fits
<1>6. \A n : \A s \in 0..MaxVersions, r \in {"exact", "proved", "degraded"} : s \in 1..n =>
         /\ Fits(<<SetAttestation(s), ClearPending>>, r, n)
         /\ Fits(<<ClearPending, SetAttestation(s)>>, r, n)
  BY <1>1, <1>2, Lists DEF Fits
<1>7. \A n : \A b, s \in 0..MaxVersions, w \in BOOLEAN : b # 0 /\ s \in 1..n =>
         Fits(<<SetPending(b, s, w)>>, "unqualified", n)
  BY <1>3, Lists DEF Fits
<1>8. \A n : \A r \in Outcomes : Fits(Recording(r), "done", n)
  BY Recordings DEF Fits
<1>9. QED
  BY <1>4, <1>5, <1>6, <1>7, <1>8

LEMMA PlannedNext ==
    Planned' <=>
      /\ run'.at # "settle" => run'.todo = <<>> /\ run'.result = "done"
      /\ run'.page # Unread => run'.at \in ReadPoints
      /\ Fits(run'.todo, run'.result, Len(hist'))
  BY DEF Planned, Fits, Latest

LEMMA PlannedAttests ==
    ASSUME TypeOK, UNCHANGED hist, NEW s \in 1..Latest, NEW r \in {"exact", "proved", "degraded"},
           \/ Settle(<<SetAttestation(s), ClearPending>>, r)
           \/ Settle(<<ClearPending, SetAttestation(s)>>, r)
    PROVE  Planned'
<1>1. s \in 0..MaxVersions /\ s \in 1..Len(hist') /\ run'.at = "settle" /\ run'.page = Unread /\ run'.result = r
  BY Numbers, Moves DEF Latest
<1>2. \/ run'.todo = <<SetAttestation(s), ClearPending>>
      \/ run'.todo = <<ClearPending, SetAttestation(s)>>
  BY Moves
<1>3. Fits(run'.todo, run'.result, Len(hist'))
  BY <1>1, <1>2, Fitting
<1>4. QED
  BY <1>1, <1>3, PlannedNext

LEMMA PlannedPends ==
    ASSUME TypeOK, UNCHANGED hist, NEW b \in 1..Latest, NEW s \in 1..Latest, NEW w \in BOOLEAN,
           Settle(<<SetPending(b, s, w)>>, "unqualified")
    PROVE  Planned'
<1>1. /\ b \in 0..MaxVersions /\ s \in 0..MaxVersions /\ s \in 1..Len(hist') /\ b # 0
      /\ run'.at = "settle" /\ run'.page = Unread /\ run'.result = "unqualified"
      /\ run'.todo = <<SetPending(b, s, w)>>
  BY Numbers, Moves DEF Latest
<1>2. Fits(run'.todo, run'.result, Len(hist'))
  BY <1>1, Fitting
<1>3. QED
  BY <1>1, <1>2, PlannedNext

LEMMA PlannedFails ==
    ASSUME TypeOK, UNCHANGED hist, NEW r, Settle(<<>>, r)
    PROVE  Planned'
  BY Moves, Fitting, PlannedNext

LEMMA PlannedQuietly ==
    ASSUME TypeOK, Planned, Awaited, Quietly, hist' = hist, UNCHANGED pending
    PROVE  Planned'
<1> USE Numbers, Moves, Fitting, PlannedNext DEF Latest, ReadPoints, SnapPoints, Outcomes
<1>1. CASE Dispatch
  BY <1>1 DEF Planned, Dispatch, ShortcutOrRead
<1>2. CASE PendingSnapshot
  <2>1. view \in 1..Latest
    BY <1>2, Numbers DEF PendingSnapshot
  <2>2. Settle(<<SetAttestation(view), ClearPending>>, "exact") \/ SawAt("read", view)
    BY <1>2 DEF PendingSnapshot, SawAt, BasedAt
  <2>3. QED
    BY <1>2, <2>1, <2>2, PlannedAttests DEF Planned, PendingSnapshot
<1>3. CASE Shortcut
  BY <1>3 DEF Planned, Shortcut, SawAt, BasedAt
<1>4. CASE FirstPage
  <2>1. run'.at = run.at /\ run.at \in ReadPoints /\ run'.todo = run.todo /\ run'.result = run.result
    BY <1>4 DEF FirstPage, TypeOK, RunType
  <2>2. QED
    BY <2>1 DEF Planned, Fits
<1>5. CASE Read
  <2>1. /\ run'.page = Unread
        /\ \/ run'.at \in {"compare", "resolve"} /\ run'.todo = run.todo /\ run'.result = run.result
           \/ run'.at = "settle" /\ run'.todo = <<ClearPending>> /\ run'.result = "compare"
    BY <1>5 DEF Read, TypeOK, RunType
  <2>2. run.at = "read"
    BY <1>5 DEF Read
  <2>3. QED
    BY <2>1, <2>2 DEF Planned
<1>6. CASE Resolve
  <2> DEFINE s == IF run.seen # 0 THEN run.seen ELSE view
  <2>1. s \in 1..Latest
    BY Numbers
  <2>2. \/ \E r \in {"exact", "degraded"} : Settle(<<SetAttestation(s), ClearPending>>, r)
        \/ \E r : Settle(<<>>, r)
        \/ SawAt("restableRead", s)
    BY <1>6, Zenon DEF Resolve, SawAt
  <2> HIDE DEF s
  <2>3. CASE \E r \in {"exact", "degraded"} : Settle(<<SetAttestation(s), ClearPending>>, r)
    BY <2>1, <2>3, PlannedAttests
  <2>4. CASE SawAt("restableRead", s)
    BY <1>6, <2>4 DEF Planned, Resolve
  <2>5. QED
    BY <2>2, <2>3, <2>4, PlannedFails
<1>7. CASE RestableRead
  BY <1>7 DEF Planned, RestableRead, StrictRead
<1>8. CASE RestableSnapshot
  <2>1. view \in 1..Latest
    BY <1>8, Numbers DEF RestableSnapshot
  <2>2. Settle(<<SetAttestation(view), ClearPending>>, "exact") \/ Settle(<<>>, "failed")
    BY <1>8 DEF RestableSnapshot, SawAt, BasedAt
  <2>3. QED
    BY <1>8, <2>1, <2>2, PlannedAttests, PlannedFails DEF Planned, RestableSnapshot
<1>9. CASE Compare
  BY <1>9 DEF Planned, Compare
<1>10. CASE StableBefore
  BY <1>10 DEF Planned, StableBefore, SawAt, BasedAt
<1>11. CASE StableRead
  <2>1. PICK slots : ReadAt("stableAfter", slots) /\ run.at = "stableRead"
    BY <1>11 DEF StableRead, ReadAt
  <2>2. QED
    BY <2>1 DEF Planned
<1>12. CASE StableAfter
  BY <1>12 DEF Planned, StableAfter
<1>13. CASE CheckAttestation
  <2>1. run.at = "checkAttestation"
    BY <1>13, Numbers DEF CheckAttestation
  <2>2. Settle(<<>>, "degraded") \/ BasedAt("write", view)
    BY <1>13 DEF CheckAttestation, SawAt, BasedAt
  <2>3. QED
    BY <1>13, <2>1, <2>2, PlannedFails DEF Planned, CheckAttestation
<1>14. CASE Baseline
  BY <1>14 DEF Planned, Baseline, SawAt, BasedAt
<1>15. CASE Ambiguous
  BY <1>15 DEF Planned, Ambiguous, StrictRead
<1>16. CASE AttestBefore
  BY <1>16 DEF Planned, AttestBefore, SawAt, BasedAt
<1>17. CASE AttestRead
  BY <1>17 DEF Planned, AttestRead, StrictRead
<1>18. CASE AttestAfter
  <2>1. view \in 1..Latest
    BY <1>18, Numbers DEF AttestAfter
  <2>2. Settle(<<SetAttestation(view), ClearPending>>, "proved") \/ Settle(<<>>, "unqualified")
    BY <1>18 DEF AttestAfter, SawAt, BasedAt
  <2>3. QED
    BY <1>18, <2>1, <2>2, PlannedAttests, PlannedFails DEF Planned, AttestAfter
<1>19. CASE Readback
  <2>1. run.sent \in 1..Latest /\ run.at = "readback"
    BY <1>19 DEF Readback, Awaited, LastIn, Accepted
  <2>2. \/ Settle(<<>>, "failed") \/ Goto("opaqueSnapshot") \/ Goto("confirmSnapshot")
        \/ run.base # 0 /\ Settle(<<SetPending(run.base, run.sent, TRUE)>>, "unqualified")
    BY <1>19, Zenon DEF Readback
  <2>3. run.base # 0 => run.base \in 1..Latest
    OBVIOUS
  <2>4. QED
    BY <2>1, <2>2, <2>3, PlannedFails, PlannedPends DEF Planned
<1>20. CASE ConfirmSnapshot
  <2>1. run.sent \in 1..Latest
    BY <1>20, Numbers DEF ConfirmSnapshot, Awaited, LastIn, Accepted
  <2>2. Settle(<<ClearPending, SetAttestation(run.sent)>>, "exact") \/ Goto("confirmRead")
    BY <1>20 DEF ConfirmSnapshot, SawAt, BasedAt, Awaited, LastIn, Accepted
  <2>3. QED
    BY <1>20, <2>1, <2>2, PlannedAttests DEF Planned, ConfirmSnapshot
<1>21. CASE ConfirmRead
  BY <1>21 DEF Planned, ConfirmRead, StrictRead
<1>22. CASE ConfirmAgain
  <2>1. run.sent \in 1..Latest
    BY <1>22, Numbers DEF ConfirmAgain, Awaited, LastIn, Accepted
  <2>2. Settle(<<ClearPending, SetAttestation(run.sent)>>, "exact") \/ Settle(<<>>, "failed")
    BY <1>22 DEF ConfirmAgain, SawAt, BasedAt, Awaited, LastIn, Accepted
  <2>3. QED
    BY <1>22, <2>1, <2>2, PlannedAttests, PlannedFails DEF Planned, ConfirmAgain
<1>23. CASE OpaqueSnapshot
  <2>1. run.sent \in 1..Latest
    BY <1>23, Numbers DEF OpaqueSnapshot, Awaited, LastIn, Accepted
  <2>2. Settle(<<SetAttestation(run.sent), ClearPending>>, "degraded") \/ Settle(<<>>, "failed") \/ (run.base \in 1..Latest /\ Settle(<<SetPending(run.base, run.sent, FALSE)>>, "unqualified"))
    BY <1>23 DEF OpaqueSnapshot, SawAt, BasedAt, Awaited, LastIn, Accepted
  <2>3. QED
    BY <1>23, <2>1, <2>2, PlannedAttests, PlannedFails, PlannedPends DEF Planned, OpaqueSnapshot
<1>24. CASE Settled
  <2>1. CASE run.result = "done"
    BY <1>24, <2>1, SettledFields, IdleFields
  <2>2. CASE run.result \in Outcomes
    BY <1>24, <2>2, SettledFields
  <2>3. CASE run.result \in {"dispatch", "compare"}
    BY <1>24, <2>3, SettledFields DEF Planned
  <2>4. QED
    BY <1>24, <2>1, <2>2, <2>3, SettledFields
<1>25. CASE PageFails
  BY <1>25 DEF Planned, PageFails
<1>26. CASE CallFails
  BY <1>26 DEF Planned, CallFails
<1>27. CASE OptionalFails
  BY <1>27 DEF Planned, OptionalFails
<1>28. CASE PersistFails
  BY <1>28, IdleFields DEF PersistFails
<1>29. CASE Crash
  BY <1>29, IdleFields DEF Crash
<1>30. QED
  BY <1>1, <1>2, <1>3, <1>4, <1>5, <1>6, <1>7, <1>8, <1>9, <1>10, <1>11, <1>12, <1>13, <1>14, <1>15, <1>16, <1>17, <1>18, <1>19, <1>20, <1>21, <1>22, <1>23, <1>24, <1>25, <1>26, <1>27, <1>28, <1>29 DEF Quietly

\* What the world leaves alone.
LEMMA WorldFrame ==
    ASSUME TypeOK, World
    PROVE  /\ run' = run /\ att' = att /\ doubt' = doubt /\ Len(hist') \in Int /\ Latest <= Len(hist')
           /\ exact' = exact \/ exact' = None
           /\ degraded' = degraded \/ degraded' = None
           /\ pending' = pending \/ (pending # None /\ pending' = [pending EXCEPT !.live = FALSE])
           /\ \/ UNCHANGED <<hist, view>>
              \/ UNCHANGED hist /\ Propagate
              \/ Edit
<1>1. CASE Edit
  <2>1. PICK c \in Foreign \union {Items} : hist' = Append(hist, Version(c, FALSE))
    BY <1>1 DEF Edit
  <2>2. hist \in Seq(Versions) /\ Version(c, FALSE) \in Versions
    BY <2>1, Readable, TypeSplit DEF Version, Versions, Contents
  <2>3. Len(hist') = Latest + 1 /\ Latest \in Int
    BY <2>1, <2>2, Appended DEF Latest
  <2>4. Latest <= Len(hist') /\ Len(hist') \in Int
    BY <2>3
  <2>5. QED
    BY <1>1, <2>4 DEF Edit, durable
<1>2. CASE ~Edit
  <2>1. UNCHANGED hist => Latest <= Len(hist') /\ Len(hist') \in Int
    BY Numbers DEF Latest
  <2>2. UNCHANGED hist
    BY <1>2 DEF World, Propagate, ChangeDesired, ExpireLease, ExpirePending, remote
  <2>3. QED
    BY <1>2, <2>1, <2>2 DEF World, Propagate, ChangeDesired, ExpireLease, ExpirePending, remote, durable
<1>3. QED
  BY <1>1, <1>2

\* A pending confirmation that expires waits for the same.
LEMMA PendingWorld ==
    ASSUME TypeOK, World
    PROVE  /\ pending' = None <=> pending = None
           /\ pending # None => pending'.fp = pending.fp /\ pending'.expected = pending.expected
                                /\ pending'.base = pending.base
<1>1. pending # None => pending \in PendingType
  BY TypeSplit
<1>2. ASSUME pending # None, pending' = [pending EXCEPT !.live = FALSE]
      PROVE  pending' # None /\ pending'.fp = pending.fp /\ pending'.expected = pending.expected
             /\ pending'.base = pending.base
  <2>1. pending' \in PendingType /\ pending'.fp = pending.fp /\ pending'.expected = pending.expected
        /\ pending'.base = pending.base
    BY <1>1, <1>2 DEF PendingType
  <2>2. QED
    BY <2>1, ContentsAssumption
<1>3. QED
  BY <1>1, <1>2, WorldFrame

LEMMA FitsLonger ==
    ASSUME NEW ops \in Seq(OpType), NEW r, NEW m \in Int, NEW n \in Int, m <= n, Fits(ops, r, m)
    PROVE  Fits(ops, r, n)
  BY ListMembers DEF Fits, OpType

\* One durable write less.
LEMMA FitsTail ==
    ASSUME NEW ops \in Seq(OpType), ops # <<>>, NEW r, NEW n, Fits(ops, r, n)
    PROVE  /\ Fits(Tail(ops), r, n)
           /\ Head(ops).name = "setPending" => Tail(ops) = <<>>
           /\ "setPending" \notin Names(Tail(ops))
           /\ Names(ops) = {Head(ops).name} \union Names(Tail(ops))
<1>1. /\ Head(ops) \in ToSet(ops) /\ Head(ops) \in OpType
      /\ ToSet(ops) = {Head(ops)} \union ToSet(Tail(ops))
  BY HeadAndTail
<1>2. \A op \in OpType : Tail(<<op>>) = <<>>
  OBVIOUS
<1>3. \A op \in ToSet(ops) : op.name = "setPending" => Tail(ops) = <<>>
  BY <1>2, ListMembers DEF Fits
<1>4. \A op \in ToSet(Tail(ops)) : op.name # "setPending"
  BY <1>1, <1>3, Lists
<1>5. QED
  BY <1>1, <1>3, <1>4 DEF Fits, Names

\* What a durable write does to the journals.
LEMMA Applied ==
    ASSUME TypeOK, Persist
    PROVE  /\ run.at = "settle" /\ run.todo # <<>> /\ run.todo \in Seq(OpType) /\ run.want \in Desireds
           /\ run'.at = "settle" /\ run'.todo = Tail(run.todo) /\ run'.result = run.result
           /\ run'.page = run.page /\ run'.want = run.want /\ run'.slots = run.slots
           /\ run'.seen = run.seen /\ run'.base = run.base /\ run'.sent = run.sent
           /\ hist' = hist /\ view' = view /\ doubt' = doubt /\ faults' = faults
           /\ Apply(Head(run.todo))
  BY DEF Persist, TypeOK, RunType, remote

LEMMA BeginFields ==
    ASSUME TypeOK, Begin
    PROVE  /\ run.at = "idle" /\ ~CanSkip(desired)
           /\ run'.at = "dispatch" /\ run'.want = desired /\ run'.page = Unread /\ run'.todo = <<>>
           /\ run'.result = "done" /\ run'.seen = 0 /\ run'.base = 0 /\ run'.sent = 0
           /\ UNCHANGED <<hist, view, desired, att, pending, exact, doubt>> /\ degraded' = None
  BY DEF Begin, IdleRun, remote

LEMMA StaleFields ==
    ASSUME TypeOK, WriteStale
    PROVE  /\ run.at = "write"
           /\ run'.at = "dispatch" /\ run'.page = Unread /\ run'.todo = <<>>
           /\ run'.result = "done" /\ run'.seen = 0 /\ run'.base = 0 /\ run'.sent = 0
           /\ UNCHANGED <<hist, view, att, pending, exact, degraded, doubt>>
  BY DEF WriteStale, IdleRun, remote, durable

LEMMA WriteFields ==
    ASSUME TypeOK, Write
    PROVE  /\ run.at = "write" /\ Replace
           /\ run'.at = "readback" /\ run'.sent = Latest + 1 /\ run'.want = run.want
           /\ run'.seen = run.seen /\ run'.page = run.page
           /\ run'.todo = run.todo /\ run'.result = run.result
           /\ hist' = Append(hist, Version(run.want, TRUE))
           /\ Len(hist') = Latest + 1 /\ Latest \in Int /\ hist \in Seq(Versions)
           /\ UNCHANGED <<desired, att, pending, exact, degraded, doubt>>
<1>1. run.at = "write" /\ Replace
  BY DEF Write
<1>2. Len(hist') = Latest + 1 /\ Latest \in Int /\ hist \in Seq(Versions)
  BY <1>1, ReplaceTyped, Numbers, TypeSplit
<1>3. QED
  BY <1>1, <1>2 DEF Write, Replace, TypeOK, RunType, durable

LEMMA AmbiguousFields ==
    ASSUME TypeOK, WriteAmbiguous
    PROVE  /\ run.at = "write" /\ Goto("ambiguous")
           /\ \/ Replace /\ hist' = Append(hist, Version(run.want, TRUE)) /\ Len(hist') = Latest + 1
              \/ UNCHANGED <<hist, view>>
           /\ Latest \in Int /\ hist \in Seq(Versions)
           /\ UNCHANGED <<att, pending, exact, degraded>>
           /\ doubt' = TRUE
<1>1. run.at = "write" /\ Goto("ambiguous") /\ (Replace \/ UNCHANGED <<hist, view>>)
  BY DEF WriteAmbiguous, remote
<1>2. Latest \in Int /\ hist \in Seq(Versions) /\ (Replace => Len(hist') = Latest + 1)
  BY <1>1, ReplaceTyped, Numbers, TypeSplit
<1>3. QED
  BY <1>1, <1>2 DEF WriteAmbiguous, Replace, durable

LEMMA PlannedStep ==
    ASSUME TypeOK, Planned, Awaited, [Next]_vars
    PROVE  Planned'
<1> DEFINE L == Len(hist')
<1>1. CASE World
  <2>1. run' = run /\ Len(hist') \in Int /\ Latest \in Int /\ Latest <= Len(hist')
    BY <1>1, WorldFrame, Numbers
  <2>2. run.todo \in Seq(OpType)
    BY DEF TypeOK, RunType
  <2>3. Fits(run'.todo, run'.result, Len(hist'))
    BY <2>1, <2>2, FitsLonger DEF Planned
  <2>4. QED
    BY <2>1, <2>3, PlannedNext DEF Planned
<1>2. CASE Quietly
  BY <1>2, Steps, QuietFrames, PlannedQuietly DEF QuietFrame
<1>3. CASE Begin
  BY <1>3, BeginFields, Fitting, PlannedNext
<1>4. CASE Write
  BY <1>4, WriteFields, Fitting, PlannedNext DEF Planned, ReadPoints
<1>5. CASE WriteAmbiguous
  BY <1>5, AmbiguousFields, Moves, Fitting, PlannedNext DEF Planned, ReadPoints
<1>6. CASE WriteStale
  BY <1>6, StaleFields, Fitting, PlannedNext
<1>7. CASE Persist
  BY <1>7, Applied, FitsTail, PlannedNext DEF Planned, Latest
<1>8. CASE UNCHANGED vars
  BY <1>8, PlannedNext DEF Planned, vars, remote, Latest
<1>9. QED
  BY <1>1, <1>2, <1>3, <1>4, <1>5, <1>6, <1>7, <1>8, Steps DEF Writing

\* The names of the lists that occur.
LEMMA NamesOf ==
    /\ Names(<<>>) = {} /\ Names(<<ClearPending>>) = {"clearPending"}
    /\ \A s \in 0..MaxVersions : /\ Names(<<SetAttestation(s), ClearPending>>) = {"setAttestation", "clearPending"}
                                 /\ Names(<<ClearPending, SetAttestation(s)>>) = {"setAttestation", "clearPending"}
    /\ \A b, s \in 0..MaxVersions, w \in BOOLEAN : Names(<<SetPending(b, s, w)>>) = {"setPending"}
<1>1. ClearPending \in OpType /\ ClearPending.name = "clearPending"
  BY SimpleOps DEF ClearPending
<1>2. \A s \in 0..MaxVersions : SetAttestation(s) \in OpType /\ SetAttestation(s).name = "setAttestation"
  BY ContentsAssumption DEF SetAttestation, Op, OpType
<1>3. \A b, s \in 0..MaxVersions, w \in BOOLEAN :
        SetPending(b, s, w) \in OpType /\ SetPending(b, s, w).name = "setPending"
  BY Ops
<1>4. QED
  BY <1>1, <1>2, <1>3, Lists DEF Names

-----------------------------------------------------------------------------
(* The steps of a pass as moves of the run *)

DropAt(s) == run' = [run EXCEPT !.at = "settle", !.page = Unread, !.slots = s,
                                !.todo = <<ClearPending>>, !.result = "compare"]

LEMMA DropFields ==
    ASSUME TypeOK, NEW s, DropAt(s)
    PROVE  /\ run'.at = "settle" /\ run'.page = Unread /\ run'.slots = s
           /\ run'.want = run.want /\ run'.base = run.base /\ run'.seen = run.seen
           /\ run'.sent = run.sent /\ run'.todo = <<ClearPending>> /\ run'.result = "compare"
  BY DEF DropAt, TypeOK, RunType

LEMMA ReadMoves ==
    ASSUME TypeOK, Read
    PROVE  /\ run.at = "read"
           /\ \E slots \in {FullRead, HiddenRead} :
                /\ Reading(slots)
                /\ \/ pending = None /\ ReadAt("compare", slots)
                   \/ pending # None /\ Match(slots, run.want) /\ ReadAt("resolve", slots)
                   \/ pending # None /\ ~Match(slots, run.want) /\ DropAt(slots)
<1>1. PICK slots \in {FullRead, HiddenRead} :
         LET seen == [run EXCEPT !.slots = slots, !.page = Unread]
         IN  /\ Reading(slots)
             /\ run' = IF pending = None THEN [seen EXCEPT !.at = "compare"]
                       ELSE IF Match(slots, run.want) THEN [seen EXCEPT !.at = "resolve"]
                       ELSE [seen EXCEPT !.at = "settle", !.todo = <<ClearPending>>,
                                         !.result = "compare"]
  BY DEF Read
<1>2. run \in RunType
  BY DEF TypeOK
<1>3. \/ pending = None /\ ReadAt("compare", slots)
      \/ pending # None /\ Match(slots, run.want) /\ ReadAt("resolve", slots)
      \/ pending # None /\ ~Match(slots, run.want) /\ DropAt(slots)
  BY <1>1, <1>2 DEF ReadAt, DropAt, RunType
<1>4. QED
  BY <1>1, <1>3 DEF Read

LEMMA StableReadMoves ==
    ASSUME TypeOK, StableRead
    PROVE  /\ run.at = "stableRead"
           /\ \E slots \in {FullRead, HiddenRead} :
                /\ Reading(slots)
                /\ ReadAt("stableAfter", IF slots = run.want THEN slots ELSE <<Unread, Unread>>)
  BY DEF StableRead, ReadAt

LEMMA FirstPageFields ==
    ASSUME TypeOK, FirstPage
    PROVE  /\ run.at \in ReadPoints /\ run.page = Unread /\ env.paged
           /\ run'.at = run.at /\ run'.page = Items[1] /\ run'.want = run.want /\ run'.slots = run.slots
           /\ run'.base = run.base /\ run'.seen = run.seen /\ run'.sent = run.sent
           /\ run'.todo = run.todo /\ run'.result = run.result
  BY DEF FirstPage, TypeOK, RunType

LEMMA ResolveMoves ==
    ASSUME TypeOK, Resolve
    PROVE  /\ run.at = "resolve"
           /\ \E s \in 1..Latest :
                /\ s = IF run.seen # 0 THEN run.seen ELSE view
                /\ \/ s = pending.expected
                      /\ \/ Whole(run.slots) /\ Settle(<<SetAttestation(s), ClearPending>>, "exact")
                         \/ ~Whole(run.slots) /\ Settle(<<SetAttestation(s), ClearPending>>, "degraded")
                   \/ Settle(<<>>, "unqualified")
                   \/ Whole(run.slots) /\ SawAt("restableRead", s)
                   \/ Settle(<<>>, "failed")
<1> DEFINE s == IF run.seen # 0 THEN run.seen ELSE view
<1>1. s \in 1..Latest
  BY Numbers
<1>2. \/ s = pending.expected
         /\ \/ Whole(run.slots) /\ Settle(<<SetAttestation(s), ClearPending>>, "exact")
            \/ ~Whole(run.slots) /\ Settle(<<SetAttestation(s), ClearPending>>, "degraded")
      \/ Settle(<<>>, "unqualified")
      \/ Whole(run.slots) /\ SawAt("restableRead", s)
      \/ Settle(<<>>, "failed")
  BY Zenon DEF Resolve, SawAt
<1>3. s = IF run.seen # 0 THEN run.seen ELSE view
  OBVIOUS
<1>4. run.at = "resolve"
  BY DEF Resolve
<1> HIDE DEF s
<1>5. QED
  BY <1>1, <1>2, <1>3, <1>4

LEMMA ReadbackMoves ==
    ASSUME TypeOK, Awaited, Readback
    PROVE  /\ run.at = "readback" /\ run.sent \in 1..Latest
           /\ \/ Settle(<<>>, "failed") \/ Goto("opaqueSnapshot") \/ Goto("confirmSnapshot")
              \/ run.base \in 1..Latest /\ Settle(<<SetPending(run.base, run.sent, TRUE)>>, "unqualified")
<1>1. run.sent \in 1..Latest /\ run.at = "readback"
  BY DEF Readback, Awaited, LastIn, Accepted, Latest
<1>2. \/ Settle(<<>>, "failed") \/ Goto("opaqueSnapshot") \/ Goto("confirmSnapshot")
      \/ run.base # 0 /\ Settle(<<SetPending(run.base, run.sent, TRUE)>>, "unqualified")
  BY Zenon DEF Readback
<1>3. run.base # 0 => run.base \in 1..Latest
  BY Numbers
<1>4. QED
  BY <1>1, <1>2, <1>3

LEMMA OpaqueMoves ==
    ASSUME TypeOK, Awaited, OpaqueSnapshot
    PROVE  /\ run.at = "opaqueSnapshot" /\ run.sent \in 1..Latest
           /\ \/ view = run.sent /\ Settle(<<SetAttestation(run.sent), ClearPending>>, "degraded")
              \/ run.base \in 1..Latest /\ Settle(<<SetPending(run.base, run.sent, FALSE)>>, "unqualified")
                 /\ view # run.sent /\ view = run.base
              \/ Settle(<<>>, "failed")
  BY Numbers DEF OpaqueSnapshot, Awaited, LastIn, Accepted, Latest

LEMMA SnapshotMoves ==
    ASSUME TypeOK
    PROVE  /\ PendingSnapshot =>
                /\ run.at = "pendingSnapshot"
                /\ \/ view = pending.expected /\ Settle(<<SetAttestation(view), ClearPending>>, "exact")
                   \/ view # pending.expected /\ SawAt("read", view)
           /\ Shortcut => /\ run.at = "shortcut"
                          /\ \/ view = att.snapshot /\ BasedAt("write", view)
                             \/ view # att.snapshot /\ Goto("read")
           /\ StableBefore => run.at = "stableBefore" /\ SawAt("stableRead", view)
           /\ AttestBefore => run.at = "attestBefore" /\ SawAt("attestRead", view)
           /\ Baseline => run.at = "baseline" /\ BasedAt("write", view)
           /\ CheckAttestation => /\ run.at = "checkAttestation"
                                  /\ \/ view = att.snapshot /\ Settle(<<>>, "degraded")
                                     \/ view # att.snapshot /\ BasedAt("write", view)
  BY DEF PendingSnapshot, Shortcut, StableBefore, AttestBefore, Baseline, CheckAttestation, SawAt, BasedAt

-----------------------------------------------------------------------------
(* Pending confirmations, and what is the engine's last write *)

LEMMA PendsNext ==
    Pends' <=>
      /\ run'.at \in Unpending => pending' = None
      /\ run'.at \in Resolving => pending' # None
      /\ run'.at \in Resolving \union {"read"} /\ pending' # None => pending'.fp = run'.want
      /\ run'.at = "settle" /\ run'.result \in {"compare", "exact", "proved"} =>
           pending' = None \/ "clearPending" \in Names(run'.todo)
      /\ "recordExact" \in Names(run'.todo) => pending' = None
      /\ "setPending" \in Names(run'.todo) => pending' = None
  BY DEF Pends, Settling, Todo

LEMMA PendsAttests ==
    ASSUME TypeOK, NEW s \in 1..Latest, NEW r \in {"exact", "proved", "degraded"},
           \/ Settle(<<SetAttestation(s), ClearPending>>, r)
           \/ Settle(<<ClearPending, SetAttestation(s)>>, r)
    PROVE  Pends'
<1>1. s \in 0..MaxVersions
  BY Numbers
<1>2. Names(run'.todo) = {"setAttestation", "clearPending"} /\ run'.at = "settle"
  BY <1>1, Moves, NamesOf
<1>3. QED
  BY <1>2, PendsNext DEF Unpending, Resolving

LEMMA PendsQuietly ==
    ASSUME TypeOK, Planned, Pends, Awaited, Quietly, UNCHANGED <<pending, hist>>
    PROVE  Pends'
<1>a. run.at # "settle" => Names(run.todo) = {}
  BY NamesOf DEF Planned
<1>b. \A s \in 1..Latest : s \in 0..MaxVersions
  BY Numbers
<1> USE Numbers, Moves, NamesOf, PendsNext, <1>a, <1>b DEF ReadPoints, SnapPoints, Outcomes, Unpending, Resolving
<1>1. CASE Dispatch
  BY <1>1 DEF Dispatch, ShortcutOrRead, Pends, Stale
<1>2. CASE PendingSnapshot
  <2>1. CASE Settle(<<SetAttestation(view), ClearPending>>, "exact")
    BY <2>1, PendsAttests
  <2>2. CASE SawAt("read", view)
    <3>1. run.at = "pendingSnapshot" /\ pending # None /\ pending.fp = run.want
      BY <1>2, SnapshotMoves DEF Pends
    <3>2. run'.at = "read" /\ run'.want = run.want /\ Names(run'.todo) = {}
      BY <2>2, <3>1
    <3>3. QED
      BY <3>1, <3>2
  <2>3. QED
    BY <1>2, <2>1, <2>2, SnapshotMoves
<1>3. CASE Shortcut
  BY <1>3, SnapshotMoves DEF Pends, Stale
<1>4. CASE FirstPage
  BY <1>4, FirstPageFields DEF Pends, Stale
<1>5. CASE Read
  BY <1>5, ReadMoves, DropFields DEF Pends, Stale
<1>6. CASE Resolve
  <2>1. PICK s \in 1..Latest :
          \/ \E r \in {"exact", "degraded"} : Settle(<<SetAttestation(s), ClearPending>>, r)
          \/ \E r \in {"unqualified", "failed"} : Settle(<<>>, r)
          \/ SawAt("restableRead", s)
    BY <1>6, ResolveMoves, Zenon
  <2>2. CASE \E r \in {"exact", "degraded"} : Settle(<<SetAttestation(s), ClearPending>>, r)
    BY <2>2, PendsAttests
  <2>3. CASE \E r \in {"unqualified", "failed"} : Settle(<<>>, r)
    BY <2>3
  <2>4. CASE SawAt("restableRead", s)
    <3>1. run.at = "resolve" /\ pending # None /\ pending.fp = run.want
      BY <1>6, ResolveMoves DEF Pends
    <3>2. run'.at = "restableRead" /\ run'.want = run.want /\ Names(run'.todo) = {}
      BY <2>4, <3>1
    <3>3. QED
      BY <3>1, <3>2
  <2>5. QED
    BY <2>1, <2>2, <2>3, <2>4
<1>7. CASE RestableRead
  BY <1>7 DEF RestableRead, StrictRead, Pends, Stale
<1>8. CASE RestableSnapshot
  <2>1. CASE Settle(<<SetAttestation(view), ClearPending>>, "exact")
    BY <2>1, PendsAttests
  <2>2. CASE Settle(<<>>, "failed")
    BY <2>2
  <2>3. QED
    BY <1>8, <2>1, <2>2 DEF RestableSnapshot
<1>9. CASE Compare
  BY <1>9 DEF Compare, Pends, Stale
<1>10. CASE StableBefore
  BY <1>10, SnapshotMoves DEF Pends, Stale
<1>11. CASE StableRead
  BY <1>11, StableReadMoves DEF Pends, Stale
<1>12. CASE StableAfter
  BY <1>12 DEF StableAfter, Pends, Stale
<1>13. CASE CheckAttestation
  BY <1>13, SnapshotMoves DEF Pends, Stale
<1>14. CASE Baseline
  BY <1>14, SnapshotMoves DEF Pends, Stale
<1>15. CASE Ambiguous
  BY <1>15 DEF Ambiguous, StrictRead, Pends, Stale
<1>16. CASE AttestBefore
  BY <1>16, SnapshotMoves DEF Pends, Stale
<1>17. CASE AttestRead
  BY <1>17 DEF AttestRead, StrictRead, Pends, Stale
<1>18. CASE AttestAfter
  BY <1>18 DEF AttestAfter, Pends, Stale
<1>19. CASE Readback
  BY <1>19, ReadbackMoves DEF Pends, Stale
<1>20. CASE ConfirmSnapshot
  BY <1>20 DEF ConfirmSnapshot, Pends, Stale
<1>21. CASE ConfirmRead
  BY <1>21 DEF ConfirmRead, StrictRead, Pends, Stale
<1>22. CASE ConfirmAgain
  BY <1>22 DEF ConfirmAgain, Pends, Stale
<1>23. CASE OpaqueSnapshot
  BY <1>23, OpaqueMoves DEF Pends, Stale
<1>24. CASE Settled
  <2>1. Names(run.todo) = {}
    BY <1>24, SettledFields
  <2>2. CASE run.result = "done"
    BY <1>24, <2>2, SettledFields, IdleFields
  <2>3. CASE run.result \in Outcomes
    BY <1>24, <2>1, <2>3, SettledFields, Recordings DEF Pends, Settling, Todo
  <2>4. CASE run.result \in {"dispatch", "compare"}
    BY <1>24, <2>1, <2>4, SettledFields DEF Pends, Settling, Todo
  <2>5. QED
    BY <1>24, <2>2, <2>3, <2>4, SettledFields
<1>25. CASE PageFails
  BY <1>25 DEF PageFails, Pends, Stale
<1>26. CASE CallFails
  BY <1>26 DEF CallFails, Pends, Stale
<1>27. CASE OptionalFails
  BY <1>27 DEF OptionalFails, Pends, Stale
<1>28. CASE PersistFails
  BY <1>28, IdleFields DEF PersistFails, Pends, Stale
<1>29. CASE Crash
  BY <1>29, IdleFields DEF Crash, Pends, Stale
<1>30. QED
  BY <1>1, <1>2, <1>3, <1>4, <1>5, <1>6, <1>7, <1>8, <1>9, <1>10, <1>11, <1>12, <1>13, <1>14, <1>15, <1>16, <1>17, <1>18, <1>19, <1>20, <1>21, <1>22, <1>23, <1>24, <1>25, <1>26, <1>27, <1>28, <1>29 DEF Quietly

\* What an outcome's list can hold.
LEMMA FitNames ==
    ASSUME NEW ops \in Seq(OpType), NEW r, NEW n, Fits(ops, r, n)
    PROVE  /\ \E name \in {"recordExact", "clearExact", "recordDegraded", "clearDegraded"} : name \in Names(ops)
                => r = "done"
           /\ "recordExact" \in Names(ops) => r = "done"
           /\ "recordDegraded" \in Names(ops) => r = "done"
           /\ "clearExact" \in Names(ops) => r = "done"
           /\ "setPending" \in Names(ops) => r = "unqualified"
           /\ "setAttestation" \in Names(ops) => r \in {"exact", "proved", "degraded"}
  BY DEF Fits, Names

LEMMA PendsStep ==
    ASSUME TypeOK, Planned, Pends, Awaited, [Next]_vars
    PROVE  Pends'
<1>a. run.at # "settle" => Names(run.todo) = {}
  BY NamesOf DEF Planned
<1>1. CASE World
  BY <1>1, WorldFrame, PendingWorld, PendsNext DEF Pends, Settling, Todo
<1>2. CASE Quietly
  BY <1>2, Steps, QuietFrames, PendsQuietly DEF QuietFrame
<1>3. CASE Begin
  BY <1>3, BeginFields, NamesOf, PendsNext DEF Unpending, Resolving
<1>4. CASE Write
  BY <1>4, <1>a, WriteFields, PendsNext DEF Pends, Unpending, Resolving
<1>5. CASE WriteAmbiguous
  BY <1>5, <1>a, AmbiguousFields, Moves, PendsNext DEF Pends, Unpending, Resolving
<1>6. CASE WriteStale
  BY <1>6, StaleFields, NamesOf, PendsNext DEF Unpending, Resolving
<1>7. CASE Persist
  <2> DEFINE name == Head(run.todo).name
  <2>1. /\ run.at = "settle" /\ run'.at = "settle" /\ run'.result = run.result
        /\ run.todo \in Seq(OpType) /\ run.todo # <<>> /\ run'.todo = Tail(run.todo)
        /\ Fits(run.todo, run.result, Latest)
    BY <1>7, Applied DEF Planned
  <2>2. /\ pending' = pending \/ name \in {"setPending", "clearPending"}
        /\ name = "clearPending" => pending' = None
    BY <1>7, Applied DEF Apply
  <2>3. Names(run.todo) = {name} \union Names(run'.todo) /\ "setPending" \notin Names(run'.todo)
    BY <2>1, FitsTail
  <2>4. /\ "recordExact" \in Names(run.todo) => run.result = "done"
        /\ name = "setPending" => run.result = "unqualified"
    BY <2>1, <2>3, FitNames
  <2> HIDE DEF name
  <2>5. QED
    BY <2>1, <2>2, <2>3, <2>4, PendsNext DEF Pends, Settling, Todo, Unpending, Resolving
<1>8. CASE UNCHANGED vars
  BY <1>8, PendsNext DEF Pends, Settling, Todo, vars, durable
<1>9. QED
  BY <1>1, <1>2, <1>3, <1>4, <1>5, <1>6, <1>7, <1>8, Steps DEF Writing

LEMMA AwaitedNext ==
    Awaited' <=>
      /\ pending' # None => LastIn(hist', pending'.expected, pending'.fp)
      /\ run'.at \in Accepted => LastIn(hist', run'.sent, run'.want)
      /\ \A op \in ToSet(run'.todo) : op.name = "setPending" => LastIn(hist', op.snapshot, run'.want)
  BY DEF Awaited

LEMMA AwaitedPends ==
    ASSUME TypeOK, NEW b \in 1..Latest, NEW s \in 1..Latest, NEW w \in BOOLEAN,
           Settle(<<SetPending(b, s, w)>>, "unqualified"), LastIn(hist, s, run.want),
           Awaited, UNCHANGED <<hist, pending>>
    PROVE  Awaited'
<1>1. b \in 0..MaxVersions /\ s \in 0..MaxVersions
  BY Numbers
<1>2. ToSet(<<SetPending(b, s, w)>>) = {SetPending(b, s, w)} /\ SetPending(b, s, w).snapshot = s
  BY <1>1, Ops, Lists
<1>3. run'.at = "settle" /\ run'.todo = <<SetPending(b, s, w)>> /\ run'.want = run.want
  BY Moves
<1>4. \A op \in ToSet(run'.todo) : op.name = "setPending" => LastIn(hist', op.snapshot, run'.want)
  BY <1>2, <1>3
<1>5. QED
  BY <1>3, <1>4, AwaitedNext DEF Awaited, Accepted

\* A step of the run that has no confirmation to await.
LEMMA AwaitedOther ==
    ASSUME TypeOK, Awaited, UNCHANGED <<hist, pending>>, "setPending" \notin Names(run'.todo),
           run'.at \in Accepted => run.at \in Accepted /\ run'.want = run.want /\ run'.sent = run.sent
    PROVE  Awaited'
<1>1. \A op \in ToSet(run'.todo) : op.name # "setPending"
  BY DEF Names
<1>2. QED
  BY <1>1, AwaitedNext DEF Awaited

LEMMA AwaitedQuietly ==
    ASSUME TypeOK, Planned, Awaited, Quietly, UNCHANGED <<pending, hist>>
    PROVE  Awaited'
<1>a. run.at # "settle" => Names(run.todo) = {}
  BY NamesOf DEF Planned
<1>b. \A s \in 1..Latest : s \in 0..MaxVersions
  BY Numbers
<1>c. \A s \in 1..Latest : /\ "setPending" \notin Names(<<SetAttestation(s), ClearPending>>)
                           /\ "setPending" \notin Names(<<ClearPending, SetAttestation(s)>>)
  BY <1>b, NamesOf
<1>d. Names(<<>>) = {} /\ Names(<<ClearPending>>) = {"clearPending"}
  BY NamesOf
<1>e. run.at \in Accepted => run.sent \in 1..Latest /\ LastIn(hist, run.sent, run.want)
  BY DEF Awaited, LastIn, Latest
<1> USE Numbers, Moves, AwaitedOther, <1>a, <1>c, <1>d, <1>e DEF ReadPoints, SnapPoints, Outcomes, Accepted
<1>1. CASE Dispatch
  BY <1>1 DEF Dispatch, ShortcutOrRead, Outcomes
<1>2. CASE PendingSnapshot
  BY <1>2, SnapshotMoves DEF Outcomes
<1>3. CASE Shortcut
  BY <1>3, SnapshotMoves DEF Outcomes
<1>4. CASE FirstPage
  BY <1>4, FirstPageFields DEF Outcomes
<1>5. CASE Read
  BY <1>5, ReadMoves, DropFields DEF Outcomes
<1>6. CASE Resolve
  <2>1. PICK s \in 1..Latest :
          \/ \E r \in {"exact", "degraded"} : Settle(<<SetAttestation(s), ClearPending>>, r)
          \/ \E r \in {"unqualified", "failed"} : Settle(<<>>, r)
          \/ SawAt("restableRead", s)
    BY <1>6, ResolveMoves, Zenon
  <2>2. run.at = "resolve"
    BY <1>6, ResolveMoves
  <2>3. QED
    BY <2>1, <2>2
<1>7. CASE RestableRead
  BY <1>7 DEF RestableRead, StrictRead, Outcomes
<1>8. CASE RestableSnapshot
  BY <1>8 DEF RestableSnapshot, Outcomes
<1>9. CASE Compare
  BY <1>9 DEF Compare, Outcomes
<1>10. CASE StableBefore
  BY <1>10, SnapshotMoves DEF Outcomes
<1>11. CASE StableRead
  BY <1>11, StableReadMoves DEF Outcomes
<1>12. CASE StableAfter
  BY <1>12 DEF StableAfter, Outcomes
<1>13. CASE CheckAttestation
  BY <1>13, SnapshotMoves DEF Outcomes
<1>14. CASE Baseline
  BY <1>14, SnapshotMoves DEF Outcomes
<1>15. CASE Ambiguous
  BY <1>15 DEF Ambiguous, StrictRead, Outcomes
<1>16. CASE AttestBefore
  BY <1>16, SnapshotMoves DEF Outcomes
<1>17. CASE AttestRead
  BY <1>17 DEF AttestRead, StrictRead, Outcomes
<1>18. CASE AttestAfter
  BY <1>18 DEF AttestAfter, Outcomes
<1>19. CASE Readback
  BY <1>19, ReadbackMoves, AwaitedPends
<1>20. CASE ConfirmSnapshot
  BY <1>20 DEF ConfirmSnapshot, Outcomes
<1>21. CASE ConfirmRead
  BY <1>21 DEF ConfirmRead, StrictRead, Outcomes
<1>22. CASE ConfirmAgain
  BY <1>22 DEF ConfirmAgain, Outcomes
<1>23. CASE OpaqueSnapshot
  BY <1>23, OpaqueMoves, AwaitedPends
<1>24. CASE Settled
  <2>1. Names(run.todo) = {}
    BY <1>24, SettledFields
  <2>2. CASE run.result = "done"
    BY <1>24, <2>2, SettledFields, IdleFields
  <2>3. CASE run.result \in Outcomes
    BY <1>24, <2>1, <2>3, SettledFields, Recordings
  <2>4. CASE run.result \in {"dispatch", "compare"}
    BY <1>24, <2>1, <2>4, SettledFields
  <2>5. QED
    BY <1>24, <2>2, <2>3, <2>4, SettledFields
<1>25. CASE PageFails
  BY <1>25 DEF PageFails, Outcomes
<1>26. CASE CallFails
  BY <1>26 DEF CallFails, Outcomes
<1>27. CASE OptionalFails
  BY <1>27 DEF OptionalFails, Outcomes
<1>28. CASE PersistFails
  BY <1>28, IdleFields DEF PersistFails, Outcomes
<1>29. CASE Crash
  BY <1>29, IdleFields DEF Crash, Outcomes
<1>30. QED
  BY <1>1, <1>2, <1>3, <1>4, <1>5, <1>6, <1>7, <1>8, <1>9, <1>10, <1>11, <1>12, <1>13, <1>14, <1>15, <1>16, <1>17, <1>18, <1>19, <1>20, <1>21, <1>22, <1>23, <1>24, <1>25, <1>26, <1>27, <1>28, <1>29 DEF Quietly

LEMMA AwaitedStep ==
    ASSUME TypeOK, Planned, Pends, Awaited, [Next]_vars
    PROVE  Awaited'
<1>1. CASE World
  <2>1. \A v, fp : LastIn(hist, v, fp) => LastIn(hist', v, fp)
    <3>1. CASE Edit
      <4>1. PICK c \in Foreign \union {Items} : hist' = Append(hist, Version(c, FALSE))
        BY <3>1 DEF Edit
      <4>2. Version(c, FALSE) \in Versions /\ ~Version(c, FALSE).own /\ hist \in Seq(Versions)
        BY <4>1, Readable, TypeSplit DEF Version, Versions, Contents
      <4>3. QED
        BY <4>1, <4>2, ForeignVersion
    <3>2. QED
      BY <1>1, <3>1, WorldFrame
  <2>2. QED
    BY <1>1, <2>1, WorldFrame, PendingWorld, AwaitedNext DEF Awaited
<1>2. CASE Quietly
  BY <1>2, Steps, QuietFrames, AwaitedQuietly DEF QuietFrame
<1>3. CASE Begin
  BY <1>3, BeginFields, Lists, AwaitedNext DEF Awaited, Accepted
<1>4. CASE Write
  <2>1. pending' = None /\ run'.todo = <<>>
    BY <1>4, WriteFields DEF Pends, Unpending, Planned
  <2>2. run.want \in Contents
    BY <1>4, WriteFields DEF TypeOK, Contents
  <2>3. LastIn(hist', run'.sent, run'.want)
    BY <1>4, <2>2, WriteFields, OwnVersion DEF Latest
  <2>4. QED
    BY <2>1, <2>3, Lists, AwaitedNext
<1>5. CASE WriteAmbiguous
  <2>1. pending' = None /\ run'.todo = <<>> /\ run'.at = "ambiguous"
    BY <1>5, AmbiguousFields, Moves DEF Pends, Unpending, Planned
  <2>2. QED
    BY <2>1, Lists, AwaitedNext DEF Accepted
<1>6. CASE WriteStale
  BY <1>6, StaleFields, Lists, AwaitedNext DEF Awaited, Accepted
<1>7. CASE Persist
  <2>1. /\ run.todo \in Seq(OpType) /\ run.todo # <<>> /\ run'.todo = Tail(run.todo)
        /\ run'.at = "settle" /\ run'.want = run.want /\ hist' = hist /\ Apply(Head(run.todo))
        /\ Fits(run.todo, run.result, Latest)
    BY <1>7, Applied DEF Planned
  <2> DEFINE op == Head(run.todo)
  <2>2. op \in ToSet(run.todo) /\ op \in OpType
    BY <2>1, HeadAndTail
  <2>3. \A o \in ToSet(run'.todo) : o.name # "setPending"
    BY <2>1, FitsTail DEF Names
  <2>4. op.name = "setPending" => LastIn(hist, op.snapshot, run.want)
    BY <2>2 DEF Awaited
  <2>5. op.name = "setPending" => pending'.expected = op.snapshot /\ pending'.fp = run.want
    BY <2>1 DEF Apply, Pending
  <2>6. op.name # "setPending" => pending' \in {pending, None}
    BY <2>1 DEF Apply
  <2> HIDE DEF op
  <2>7. QED
    BY <2>1, <2>3, <2>4, <2>5, <2>6, AwaitedNext DEF Awaited, Accepted
<1>8. CASE UNCHANGED vars
  BY <1>8, AwaitedNext DEF Awaited, vars, remote, durable
<1>9. QED
  BY <1>1, <1>2, <1>3, <1>4, <1>5, <1>6, <1>7, <1>8, Steps DEF Writing

-----------------------------------------------------------------------------
(* What reads and snapshots show *)

LEMMA WholeRead ==
    ASSUME TypeOK
    PROVE  /\ (env.paged => run.page = Items[1]) => FullRead = Items
           /\ run.want \in Desireds => HiddenRead # run.want
<1>1. FullRead = <<IF env.paged THEN run.page ELSE Items[1], Items[2]>> /\ HiddenRead = <<Hidden, Items[2]>>
  BY DEF FullRead, HiddenRead
<1>2. Items = <<Items[1], Items[2]>>
  BY Readable
<1>3. run.want \in Desireds => run.want[1] # Hidden
  BY ContentsAssumption DEF Contents
<1> DEFINE i == Items
<1> HIDE DEF i
<1>4. <<Hidden, Items[2]>>[1] = Hidden
  OBVIOUS
<1>5. (env.paged => run.page = Items[1]) => FullRead = <<Items[1], Items[2]>>
  BY <1>1
<1>6. QED
  BY <1>1, <1>2, <1>3, <1>4, <1>5

LEMMA ObservedNext ==
    Observed' <=>
      /\ run'.seen <= view'
      /\ run'.at \in {"restableRead", "stableRead", "attestRead"} /\ view' = run'.seen /\ run'.page # Unread
           => run'.page = Items'[1]
      /\ run'.at \in {"restableSnapshot", "attestAfter"} /\ view' = run'.seen => Items' = run'.want
      /\ run'.at = "stableAfter" /\ view' = run'.seen /\ run'.slots = run'.want => Items' = run'.want
  BY DEF Observed

\* The places where a pass relies on a snapshot it saw.
Relying == {"restableRead", "stableRead", "attestRead", "restableSnapshot", "attestAfter", "stableAfter"}

LEMMA ObservedElsewhere ==
    ASSUME run'.at \notin Relying, run'.seen <= view'
    PROVE  Observed'
  BY ObservedNext DEF Relying

LEMMA ObservedQuietly ==
    ASSUME TypeOK, Planned, Awaited, Observed, Quietly, UNCHANGED <<hist, view>>
    PROVE  Observed'
<1>a. Items' = Items /\ view' = view /\ view \in Int /\ 0 <= view
  BY Numbers DEF Items, Latest
<1>b. run.seen <= view
  BY DEF Observed
<1> USE Moves, ObservedElsewhere, <1>a, <1>b DEF ReadPoints, SnapPoints, Outcomes, Relying
<1>1. CASE Dispatch
  BY <1>1 DEF Dispatch, ShortcutOrRead, Outcomes
<1>2. CASE PendingSnapshot
  BY <1>2, SnapshotMoves
<1>3. CASE Shortcut
  BY <1>3, SnapshotMoves DEF Outcomes
<1>4. CASE FirstPage
  BY <1>4, FirstPageFields, ObservedNext DEF Observed
<1>5. CASE Read
  BY <1>5, ReadMoves, DropFields DEF Outcomes
<1>6. CASE Resolve
  <2>1. PICK s \in 1..Latest :
          /\ s = IF run.seen # 0 THEN run.seen ELSE view
          /\ \/ \E r \in {"exact", "degraded"} : Settle(<<SetAttestation(s), ClearPending>>, r)
             \/ \E r \in {"unqualified", "failed"} : Settle(<<>>, r)
             \/ SawAt("restableRead", s)
    BY <1>6, ResolveMoves, Zenon
  <2>2. run.at = "resolve" /\ run.page = Unread
    BY <1>6, ResolveMoves DEF Planned
  <2>3. CASE SawAt("restableRead", s)
    BY <2>1, <2>2, <2>3, ObservedNext
  <2>4. QED
    BY <2>1, <2>3
<1>7. CASE RestableRead
  <2>1. CASE Goto("restableSnapshot") /\ FullRead = run.want
    <3>1. run.at = "restableRead" /\ (env.paged => run.page # Unread)
      BY <1>7 DEF RestableRead, StrictRead
    <3>2. view = run.seen => FullRead = Items
      BY <3>1, WholeRead DEF Observed
    <3>3. QED
      BY <2>1, <3>2, ObservedNext
  <2>2. CASE \E r : Settle(<<>>, r)
    BY <2>2
  <2>3. QED
    BY <1>7, <2>1, <2>2 DEF RestableRead, StrictRead
<1>8. CASE RestableSnapshot
  BY <1>8 DEF RestableSnapshot, Outcomes
<1>9. CASE Compare
  BY <1>9 DEF Compare, Outcomes
<1>10. CASE StableBefore
  BY <1>10, SnapshotMoves, ObservedNext DEF Planned
<1>11. CASE StableRead
  <2>1. PICK slots \in {FullRead, HiddenRead} :
          /\ Reading(slots)
          /\ ReadAt("stableAfter", IF slots = run.want THEN slots ELSE <<Unread, Unread>>)
    BY <1>11, StableReadMoves
  <2>2. run.at = "stableRead" /\ (env.paged => run.page # Unread)
    BY <1>11, <2>1, StableReadMoves DEF Reading
  <2>3. view = run.seen => FullRead = Items
    BY <2>2, WholeRead DEF Observed
  <2>4. run.want \in Desireds
    BY <2>2 DEF TypeOK
  <2>5. run.want \in Contents /\ run.want[1] # Unread /\ run.want = <<run.want[1], run.want[2]>>
    BY <2>4, ContentsAssumption DEF Contents
  <2>6. <<Unread, Unread>> # run.want
    BY <2>5
  <2>7. run'.at = "stableAfter" /\ run'.want = run.want /\ run'.seen = run.seen
        /\ run'.slots = IF slots = run.want THEN slots ELSE <<Unread, Unread>>
    BY <2>1
  <2>8. run'.slots = run.want => FullRead = run.want
    BY <2>1, <2>4, <2>6, <2>7, WholeRead
  <2>9. QED
    BY <2>3, <2>7, <2>8, ObservedNext
<1>12. CASE StableAfter
  BY <1>12 DEF StableAfter, Outcomes
<1>13. CASE CheckAttestation
  BY <1>13, SnapshotMoves DEF Outcomes
<1>14. CASE Baseline
  BY <1>14, SnapshotMoves DEF Outcomes
<1>15. CASE Ambiguous
  BY <1>15 DEF Ambiguous, StrictRead, Outcomes
<1>16. CASE AttestBefore
  BY <1>16, SnapshotMoves, ObservedNext DEF Planned
<1>17. CASE AttestRead
  <2>1. CASE Goto("attestAfter") /\ FullRead = run.want
    <3>1. run.at = "attestRead" /\ (env.paged => run.page # Unread)
      BY <1>17 DEF AttestRead, StrictRead
    <3>2. view = run.seen => FullRead = Items
      BY <3>1, WholeRead DEF Observed
    <3>3. QED
      BY <2>1, <3>2, ObservedNext
  <2>2. CASE \E r : Settle(<<>>, r)
    BY <2>2
  <2>3. QED
    BY <1>17, <2>1, <2>2 DEF AttestRead, StrictRead
<1>18. CASE AttestAfter
  BY <1>18 DEF AttestAfter, Outcomes
<1>19. CASE Readback
  BY <1>19, ReadbackMoves
<1>20. CASE ConfirmSnapshot
  BY <1>20 DEF ConfirmSnapshot, Outcomes
<1>21. CASE ConfirmRead
  BY <1>21 DEF ConfirmRead, StrictRead, Outcomes
<1>22. CASE ConfirmAgain
  BY <1>22 DEF ConfirmAgain, Outcomes
<1>23. CASE OpaqueSnapshot
  BY <1>23, OpaqueMoves
<1>24. CASE Settled
  <2>1. CASE run.result = "done"
    BY <1>24, <2>1, SettledFields, IdleFields
  <2>2. CASE run.result \in Outcomes
    BY <1>24, <2>2, SettledFields
  <2>3. CASE run.result \in {"dispatch", "compare"}
    BY <1>24, <2>3, SettledFields
  <2>4. QED
    BY <1>24, <2>1, <2>2, <2>3, SettledFields
<1>25. CASE PageFails
  BY <1>25 DEF PageFails
<1>26. CASE CallFails
  BY <1>26 DEF CallFails, Outcomes
<1>27. CASE OptionalFails
  BY <1>27 DEF OptionalFails, Outcomes
<1>28. CASE PersistFails
  BY <1>28, IdleFields DEF PersistFails, Outcomes
<1>29. CASE Crash
  BY <1>29, IdleFields DEF Crash, Outcomes
<1>30. QED
  BY <1>1, <1>2, <1>3, <1>4, <1>5, <1>6, <1>7, <1>8, <1>9, <1>10, <1>11, <1>12, <1>13, <1>14, <1>15, <1>16, <1>17, <1>18, <1>19, <1>20, <1>21, <1>22, <1>23, <1>24, <1>25, <1>26, <1>27, <1>28, <1>29 DEF Quietly

LEMMA ViewGrows ==
    ASSUME TypeOK, World
    PROVE  (hist' = hist /\ view' = view) \/ (view' > view /\ view' \in Int)
<1>1. CASE Edit
  <2>1. view' = Latest + 1
    BY <1>1 DEF Edit
  <2>2. QED
    BY <2>1, Numbers
<1>2. CASE Propagate
  BY <1>2, Numbers DEF Propagate
<1>3. QED
  BY <1>1, <1>2, WorldFrame

LEMMA ObservedStep ==
    ASSUME TypeOK, Planned, Pends, Awaited, Observed, [Next]_vars
    PROVE  Observed'
<1>1. CASE World
  <2>1. CASE hist' = hist /\ view' = view
    BY <1>1, <2>1, WorldFrame, ObservedNext DEF Observed, Items, Latest
  <2>2. CASE view' > view /\ view' \in Int
    <3>1. run' = run /\ run.seen < view'
      BY <1>1, <2>2, WorldFrame, Numbers DEF Observed
    <3>2. run'.seen <= view' /\ run'.seen # view'
      BY <2>2, <3>1, Numbers
    <3>3. QED
      BY <3>2, ObservedNext
  <2>3. QED
    BY <1>1, <2>1, <2>2, ViewGrows
<1>2. CASE Quietly
  BY <1>2, Steps, QuietFrames, ObservedQuietly DEF QuietFrame
<1>3. CASE Begin
  BY <1>3, BeginFields, Numbers, ObservedElsewhere DEF Relying
<1>4. CASE Write
  <2>1. view' \in {view, Latest + 1} /\ run'.seen = run.seen /\ run'.at = "readback"
    BY <1>4, WriteFields DEF Replace
  <2>2. run.seen <= view'
    BY <2>1, Numbers DEF Observed
  <2>3. QED
    BY <2>1, <2>2, ObservedElsewhere DEF Relying
<1>5. CASE WriteAmbiguous
  <2>1. view' \in {view, Latest + 1} /\ run'.seen = run.seen /\ run'.at = "ambiguous"
    BY <1>5, AmbiguousFields, Moves DEF Replace
  <2>2. run.seen <= view'
    BY <2>1, Numbers DEF Observed
  <2>3. QED
    BY <2>1, <2>2, ObservedElsewhere DEF Relying
<1>6. CASE WriteStale
  BY <1>6, StaleFields, Numbers, ObservedElsewhere DEF Relying
<1>7. CASE Persist
  BY <1>7, Applied, ObservedElsewhere DEF Relying, Observed
<1>8. CASE UNCHANGED vars
  BY <1>8, ObservedNext DEF Observed, vars, remote, Items, Latest
<1>9. QED
  BY <1>1, <1>2, <1>3, <1>4, <1>5, <1>6, <1>7, <1>8, Steps DEF Writing

-----------------------------------------------------------------------------
(* What attestations and outcomes vouch for *)

LEMMA AttestedNext ==
    Attested' <=>
      (~env'.lag =>
         /\ view' = Len(hist')
         /\ att' # None => hist'[att'.snapshot].items = att'.fp
         /\ \A op \in ToSet(run'.todo) :
              op.name = "setAttestation" => hist'[op.snapshot].items = run'.want
         /\ run'.at = "checkAttestation" => att' # None /\ att'.fp = run'.want)
  BY DEF Attested, Latest

LEMMA AttestedAttests ==
    ASSUME TypeOK, Attested, UNCHANGED <<env, hist, view, att>>,
           NEW s \in 1..Latest, ~env.lag => hist[s].items = run.want, NEW r,
           \/ Settle(<<SetAttestation(s), ClearPending>>, r)
           \/ Settle(<<ClearPending, SetAttestation(s)>>, r)
    PROVE  Attested'
<1>1. SetAttestation(s) \in OpType /\ ClearPending \in OpType /\ SetAttestation(s).snapshot = s
      /\ ClearPending.name = "clearPending"
  <2>1. s \in 0..MaxVersions
    BY Numbers
  <2>2. QED
    BY <2>1, ContentsAssumption, SimpleOps DEF SetAttestation, Op, OpType, ClearPending
<1>2. ToSet(run'.todo) = {SetAttestation(s), ClearPending} /\ run'.at = "settle" /\ run'.want = run.want
  BY <1>1, Moves, Lists
<1>3. QED
  BY <1>1, <1>2, AttestedNext DEF Attested, Latest

LEMMA AttestedOther ==
    ASSUME TypeOK, Attested, UNCHANGED <<env, hist, view, att>>,
           "setAttestation" \notin Names(run'.todo),
           run'.at = "checkAttestation" => att # None /\ att.fp = run'.want
    PROVE  Attested'
<1>1. \A op \in ToSet(run'.todo) : op.name # "setAttestation"
  BY DEF Names
<1>2. QED
  BY <1>1, AttestedNext DEF Attested, Latest

\* The content of a snapshot that was seen unchanged, or of a write known by its snapshot.
LEMMA SeenContent ==
    ASSUME TypeOK, Awaited, Observed, Attested, Pends
    PROVE  /\ ~env.lag => view = Latest /\ (Items = run.want => hist[view].items = run.want)
           /\ run.at \in {"pendingSnapshot", "resolve"} => hist[pending.expected].items = run.want
           /\ run.at \in Accepted => hist[run.sent].items = run.want /\ run.sent \in 1..Latest
<1>1. ~env.lag => view = Latest /\ (Items = run.want => hist[view].items = run.want)
  BY DEF Attested, Items
<1>2. run.at \in {"pendingSnapshot", "resolve"} => hist[pending.expected].items = run.want
  BY DEF Pends, Awaited, LastIn, Resolving, Version
<1>3. run.at \in Accepted => hist[run.sent].items = run.want /\ run.sent \in 1..Latest
  BY DEF Awaited, LastIn, Version, Latest
<1>4. QED
  BY <1>1, <1>2, <1>3

LEMMA AttestedQuietly ==
    ASSUME TypeOK, Planned, Pends, Awaited, Observed, Attested, Quietly,
           UNCHANGED <<env, hist, view, att>>
    PROVE  Attested'
<1>a. run.at # "settle" => Names(run.todo) = {}
  BY NamesOf DEF Planned
<1>b. \A b, s \in 1..Latest : /\ "setAttestation" \notin Names(<<SetPending(b, s, TRUE)>>)
                              /\ "setAttestation" \notin Names(<<SetPending(b, s, FALSE)>>)
  <2> SUFFICES ASSUME NEW b \in 1..Latest, NEW s \in 1..Latest
               PROVE  /\ "setAttestation" \notin Names(<<SetPending(b, s, TRUE)>>)
                      /\ "setAttestation" \notin Names(<<SetPending(b, s, FALSE)>>)
    BY Zenon
  <2>1. b \in 0..MaxVersions /\ s \in 0..MaxVersions
    BY Numbers
  <2>2. QED
    BY <2>1, NamesOf
<1>d. Names(<<>>) = {} /\ Names(<<ClearPending>>) = {"clearPending"}
  BY NamesOf
<1>e. view \in 1..Latest
  BY Numbers
<1> USE Moves, AttestedOther, <1>a, <1>b, <1>d, <1>e DEF ReadPoints, SnapPoints, Outcomes
<1>1. CASE Dispatch
  BY <1>1 DEF Dispatch, ShortcutOrRead, Attested
<1>2. CASE PendingSnapshot
  <2>1. view = pending.expected => hist[view].items = run.want
    BY <1>2, SeenContent, SnapshotMoves
  <2>2. QED
    BY <1>2, <2>1, AttestedAttests, SnapshotMoves
<1>3. CASE Shortcut
  BY <1>3, SnapshotMoves DEF Attested
<1>4. CASE FirstPage
  BY <1>4, FirstPageFields DEF Attested
<1>5. CASE Read
  BY <1>5, ReadMoves, DropFields DEF Attested
<1>6. CASE Resolve
  <2>1. PICK s \in 1..Latest :
          \/ /\ s = pending.expected
             /\ \E r \in {"exact", "degraded"} : Settle(<<SetAttestation(s), ClearPending>>, r)
          \/ \E r \in {"unqualified", "failed"} : Settle(<<>>, r)
          \/ SawAt("restableRead", s)
    BY <1>6, ResolveMoves, Zenon
  <2>2. run.at = "resolve"
    BY <1>6, ResolveMoves
  <2>3. ~env.lag /\ s = pending.expected => hist[s].items = run.want
    BY <2>2, SeenContent
  <2>4. QED
    BY <2>1, <2>2, <2>3, AttestedAttests
<1>7. CASE RestableRead
  BY <1>7 DEF RestableRead, StrictRead, Attested
<1>8. CASE RestableSnapshot
  <2>1. ~env.lag /\ view = run.seen => hist[view].items = run.want
    BY <1>8, SeenContent DEF RestableSnapshot, Observed
  <2>2. QED
    BY <1>8, <2>1, AttestedAttests DEF RestableSnapshot
<1>9. CASE Compare
  BY <1>9 DEF Compare, Attested
<1>10. CASE StableBefore
  BY <1>10, SnapshotMoves DEF Attested
<1>11. CASE StableRead
  BY <1>11, StableReadMoves DEF Attested
<1>12. CASE StableAfter
  BY <1>12 DEF StableAfter, Attested
<1>13. CASE CheckAttestation
  BY <1>13, SnapshotMoves DEF Attested
<1>14. CASE Baseline
  BY <1>14, SnapshotMoves DEF Attested
<1>15. CASE Ambiguous
  BY <1>15 DEF Ambiguous, StrictRead, Attested
<1>16. CASE AttestBefore
  BY <1>16, SnapshotMoves DEF Attested
<1>17. CASE AttestRead
  BY <1>17 DEF AttestRead, StrictRead, Attested
<1>18. CASE AttestAfter
  <2>1. ~env.lag /\ view = run.seen => hist[view].items = run.want
    BY <1>18, SeenContent DEF AttestAfter, Observed
  <2>2. QED
    BY <1>18, <2>1, AttestedAttests DEF AttestAfter
<1>19. CASE Readback
  <2>1. CASE Settle(<<>>, "failed") \/ Goto("opaqueSnapshot") \/ Goto("confirmSnapshot")
    BY <1>19, <2>1, ReadbackMoves
  <2>2. CASE run.base \in 1..Latest /\ Settle(<<SetPending(run.base, run.sent, TRUE)>>, "unqualified")
    BY <1>19, <2>2, ReadbackMoves
  <2>3. QED
    BY <1>19, <2>1, <2>2, ReadbackMoves
<1>20. CASE ConfirmSnapshot
  <2>1. run.sent \in 1..Latest /\ hist[run.sent].items = run.want /\ run.at = "confirmSnapshot"
    BY <1>20, SeenContent DEF ConfirmSnapshot, Accepted
  <2>2. CASE Settle(<<ClearPending, SetAttestation(run.sent)>>, "exact")
    BY <2>1, <2>2, AttestedAttests
  <2>3. CASE Goto("confirmRead")
    BY <2>1, <2>3
  <2>4. QED
    BY <1>20, <2>2, <2>3 DEF ConfirmSnapshot
<1>21. CASE ConfirmRead
  BY <1>21 DEF ConfirmRead, StrictRead, Attested
<1>22. CASE ConfirmAgain
  <2>1. run.sent \in 1..Latest /\ hist[run.sent].items = run.want
    BY <1>22, SeenContent DEF ConfirmAgain, Accepted
  <2>2. QED
    BY <1>22, <2>1, AttestedAttests DEF ConfirmAgain
<1>23. CASE OpaqueSnapshot
  <2>1. run.sent \in 1..Latest /\ hist[run.sent].items = run.want
    BY <1>23, SeenContent DEF OpaqueSnapshot, Accepted
  <2>2. QED
    BY <1>23, <2>1, AttestedAttests, OpaqueMoves
<1>24. CASE Settled
  <2>1. Names(run.todo) = {}
    BY <1>24, SettledFields
  <2>2. CASE run.result = "done"
    BY <1>24, <2>2, SettledFields, IdleFields
  <2>3. CASE run.result \in Outcomes
    BY <1>24, <2>1, <2>3, SettledFields, Recordings
  <2>4. CASE run.result \in {"dispatch", "compare"}
    BY <1>24, <2>1, <2>4, SettledFields
  <2>5. QED
    BY <1>24, <2>2, <2>3, <2>4, SettledFields
<1>25. CASE PageFails
  BY <1>25 DEF PageFails, Attested
<1>26. CASE CallFails
  BY <1>26 DEF CallFails, Attested
<1>27. CASE OptionalFails
  BY <1>27 DEF OptionalFails, Attested
<1>28. CASE PersistFails
  BY <1>28, IdleFields DEF PersistFails, Attested
<1>29. CASE Crash
  BY <1>29, IdleFields DEF Crash, Attested
<1>30. QED
  BY <1>1, <1>2, <1>3, <1>4, <1>5, <1>6, <1>7, <1>8, <1>9, <1>10, <1>11, <1>12, <1>13, <1>14, <1>15, <1>16, <1>17, <1>18, <1>19, <1>20, <1>21, <1>22, <1>23, <1>24, <1>25, <1>26, <1>27, <1>28, <1>29 DEF Quietly

\* The versions there were stay.
LEMMA VersionsStay ==
    ASSUME NEW h \in Seq(Versions), NEW e \in Versions
    PROVE  \A v \in 1..Len(h) : Append(h, e)[v] = h[v]
  OBVIOUS

LEMMA WorldHistory ==
    ASSUME TypeOK, World
    PROVE  /\ \A v \in 1..Latest : hist'[v] = hist[v]
           /\ \A v, fp : LastIn(hist, v, fp) => LastIn(hist', v, fp)
           /\ \A fp : HeldIn(hist, fp) => HeldIn(hist', fp)
           /\ view' = view \/ view' = Len(hist')
<1>1. CASE Edit
  <2>1. PICK c \in Foreign \union {Items} : hist' = Append(hist, Version(c, FALSE))
    BY <1>1 DEF Edit
  <2>2. Version(c, FALSE) \in Versions /\ ~Version(c, FALSE).own /\ hist \in Seq(Versions)
    BY <2>1, Readable, TypeSplit DEF Version, Versions, Contents
  <2>3. Len(hist') = Latest + 1
    BY <2>1, <2>2, Appended DEF Latest
  <2>4. view' = Len(hist')
    BY <1>1, <2>3 DEF Edit
  <2>5. QED
    BY <2>1, <2>2, <2>4, ForeignVersion, VersionsStay DEF Latest
<1>2. CASE Propagate
  BY <1>2 DEF Propagate, Latest
<1>3. CASE UNCHANGED <<hist, view>>
  BY <1>3
<1>4. QED
  BY <1>1, <1>2, <1>3, WorldFrame

LEMMA WorldView ==
    ASSUME TypeOK, World, view = Latest
    PROVE  view' = Len(hist')
<1>1. CASE UNCHANGED <<hist, view>>
  BY <1>1 DEF Latest
<1>2. CASE Edit
  <2>1. PICK c \in Foreign \union {Items} : hist' = Append(hist, Version(c, FALSE))
    BY <1>2 DEF Edit
  <2>2. Version(c, FALSE) \in Versions /\ hist \in Seq(Versions)
    BY <2>1, Readable, TypeSplit DEF Version, Versions, Contents
  <2>3. Len(hist') = Latest + 1
    BY <2>1, <2>2, Appended DEF Latest
  <2>4. QED
    BY <1>2, <2>3 DEF Edit
<1>3. QED
  BY <1>1, <1>2, WorldFrame DEF Propagate, Latest

LEMMA ReplaceHistory ==
    ASSUME TypeOK, Replace, run.at # "idle"
    PROVE  /\ \A v \in 1..Latest : hist'[v] = hist[v]
           /\ ~env.lag => view' = Len(hist')
           /\ Len(hist') = Latest + 1
<1>1. hist' = Append(hist, Version(run.want, TRUE))
  BY DEF Replace
<1>2. Version(run.want, TRUE) \in Versions /\ hist \in Seq(Versions)
  BY TypeSplit DEF RunOK, Version, Versions, Contents
<1>3. Len(hist') = Latest + 1
  BY <1>1, <1>2, Appended DEF Latest
<1>4. ~env.lag => view' = Len(hist')
  BY <1>3 DEF Replace
<1>5. QED
  BY <1>1, <1>2, <1>3, <1>4, VersionsStay DEF Latest

LEMMA AttestedStep ==
    ASSUME TypeOK, Planned, Pends, Awaited, Observed, Attested, [Next]_vars
    PROVE  Attested'
<1>e. env' = env
  BY Steps
<1>a. att # None => att.snapshot \in 1..Latest
  BY TypeSplit, Numbers DEF AttestationType
<1>b. \A op \in ToSet(run.todo) : op.name = "setAttestation" => op.snapshot \in 1..Latest
  BY DEF Planned, Fits
<1>c. ToSet(<<>>) = {}
  BY Lists
<1>1. CASE World
  <2>1. run' = run /\ att' = att /\ (~env.lag => view' = Len(hist'))
    BY <1>1, WorldFrame, WorldView DEF Attested
  <2>2. QED
    BY <1>1, <1>a, <1>b, <1>e, <2>1, WorldHistory, AttestedNext DEF Attested
<1>2. CASE Quietly
  BY <1>2, Steps, QuietFrames, AttestedQuietly DEF QuietFrame
<1>3. CASE Begin
  BY <1>3, <1>c, <1>e, BeginFields, AttestedNext DEF Attested, Latest
<1>4. CASE Write
  <2>1. run'.todo = <<>> /\ run'.at = "readback" /\ att' = att /\ Replace /\ run.at # "idle"
    BY <1>4, WriteFields DEF Planned
  <2>2. QED
    BY <1>a, <1>c, <1>e, <2>1, ReplaceHistory, AttestedNext DEF Attested
<1>5. CASE WriteAmbiguous
  <2>1. run'.todo = <<>> /\ run'.at = "ambiguous" /\ att' = att /\ run.at # "idle"
        /\ (Replace \/ UNCHANGED <<hist, view>>)
    BY <1>5, AmbiguousFields, Moves DEF Planned
  <2>2. CASE Replace
    BY <1>a, <1>c, <1>e, <2>1, <2>2, ReplaceHistory, AttestedNext DEF Attested
  <2>3. CASE UNCHANGED <<hist, view>>
    BY <1>c, <1>e, <2>1, <2>3, AttestedNext DEF Attested, Latest
  <2>4. QED
    BY <2>1, <2>2, <2>3
<1>6. CASE WriteStale
  BY <1>6, <1>c, <1>e, StaleFields, AttestedNext DEF Attested, Latest
<1>7. CASE Persist
  <2> DEFINE op == Head(run.todo)
  <2>1. /\ run.todo \in Seq(OpType) /\ run.todo # <<>> /\ run'.todo = Tail(run.todo)
        /\ run'.at = "settle" /\ run'.want = run.want /\ hist' = hist /\ view' = view /\ Apply(op)
    BY <1>7, Applied
  <2>2. op \in ToSet(run.todo) /\ ToSet(run'.todo) \subseteq ToSet(run.todo)
    BY <2>1, HeadAndTail
  <2>3. IF op.name = "setAttestation" THEN att'.snapshot = op.snapshot /\ att'.fp = run.want ELSE att' = att
    BY <2>1 DEF Apply
  <2> HIDE DEF op
  <2>4. QED
    BY <1>e, <2>1, <2>2, <2>3, AttestedNext DEF Attested, Latest
<1>8. CASE UNCHANGED vars
  BY <1>8, AttestedNext DEF Attested, vars, remote, durable, Latest
<1>9. QED
  BY <1>1, <1>2, <1>3, <1>4, <1>5, <1>6, <1>7, <1>8, Steps DEF Writing

LEMMA VouchedNext ==
    Vouched' <=>
      /\ (run'.at = "compare" \/ (run'.at = "settle" /\ run'.result = "compare"))
            /\ ~env'.paged /\ run'.slots = run'.want
           => HeldIn(hist', run'.want)
      /\ (run'.at = "settle" /\ run'.result \in {"exact", "proved"}) \/ "recordExact" \in Names(run'.todo)
           => HeldIn(hist', run'.want)
      /\ ~env'.lag /\ ((run'.at = "settle" /\ run'.result = "degraded") \/ "recordDegraded" \in Names(run'.todo))
           => HeldIn(hist', run'.want)
  BY DEF Vouched, Settling, Todo

\* A step that vouches for nothing.
LEMMA VouchedNothing ==
    ASSUME run'.at # "compare", run'.at = "settle" => run'.result \notin {"compare", "exact", "proved", "degraded"},
           "recordExact" \notin Names(run'.todo), "recordDegraded" \notin Names(run'.todo)
    PROVE  Vouched'
  BY VouchedNext

\* A step after which what is wanted is held.
LEMMA VouchedHeld ==
    ASSUME HeldIn(hist', run'.want)
    PROVE  Vouched'
  BY VouchedNext

LEMMA HeldNow ==
    ASSUME TypeOK, Pends, Awaited, Observed
    PROVE  /\ Items = run.want => HeldIn(hist, run.want)
           /\ run.at \in {"pendingSnapshot", "resolve"} => HeldIn(hist, run.want)
           /\ run.at \in Accepted => HeldIn(hist, run.want)
<1>1. Items = run.want => HeldIn(hist, run.want)
  <2>1. hist \in Seq(Versions) /\ Len(hist) # 0
    BY TypeSplit, Numbers DEF Latest
  <2>2. QED
    BY <2>1, LatestIsHeld DEF Items, Latest
<1>2. run.at \in {"pendingSnapshot", "resolve"} => HeldIn(hist, run.want)
  BY LastIsHeld DEF Pends, Awaited, Resolving
<1>3. run.at \in Accepted => HeldIn(hist, run.want)
  BY LastIsHeld DEF Awaited
<1>4. QED
  BY <1>1, <1>2, <1>3

LEMMA VouchedQuietly ==
    ASSUME TypeOK, Planned, Pends, Awaited, Observed, Vouched, Attested, Quietly,
           UNCHANGED <<env, hist, view>>
    PROVE  Vouched'
<1>a. run.at # "settle" => Names(run.todo) = {}
  BY NamesOf DEF Planned
<1>d. Names(<<>>) = {} /\ Names(<<ClearPending>>) = {"clearPending"}
  BY NamesOf
<1>e. view \in 1..Latest
  BY Numbers
<1> USE Moves, VouchedNothing, VouchedHeld, HeldNow, <1>a, <1>d, <1>e DEF ReadPoints, SnapPoints, Outcomes
<1>1. CASE Dispatch
  BY <1>1 DEF Dispatch, ShortcutOrRead, Outcomes
<1>2. CASE PendingSnapshot
  <2>1. run.at = "pendingSnapshot" /\ HeldIn(hist, run.want) /\ run'.want = run.want
    BY <1>2, SnapshotMoves
  <2>2. QED
    BY <2>1
<1>3. CASE Shortcut
  BY <1>3, SnapshotMoves DEF Outcomes
<1>4. CASE FirstPage
  BY <1>4, FirstPageFields, VouchedNothing
<1>5. CASE Read
  <2>1. PICK slots \in {FullRead, HiddenRead} :
            \/ ReadAt("compare", slots) \/ ReadAt("resolve", slots) \/ DropAt(slots)
    BY <1>5, ReadMoves
  <2>2. run'.slots = slots /\ run'.want = run.want /\ run.want \in Desireds /\ run.at = "read"
        /\ Names(run'.todo) \subseteq {"clearPending"} /\ (run'.at = "settle" => run'.result = "compare")
    BY <1>5, <2>1, ReadMoves, DropFields DEF TypeOK
  <2>3. ~env.paged /\ slots = run.want => Items = run.want
    BY <2>1, <2>2, WholeRead
  <2>4. QED
    BY <2>2, <2>3, VouchedNext
<1>6. CASE Resolve
  <2>1. run.at = "resolve" /\ HeldIn(hist, run.want) /\ run'.want = run.want
    BY <1>6, ResolveMoves
  <2>2. QED
    BY <2>1
<1>7. CASE RestableRead
  BY <1>7 DEF RestableRead, StrictRead, Outcomes
<1>8. CASE RestableSnapshot
  <2>1. view = run.seen => HeldIn(hist, run.want)
    BY <1>8 DEF RestableSnapshot, Observed
  <2>2. QED
    BY <1>8, <2>1 DEF RestableSnapshot
<1>9. CASE Compare
  BY <1>9 DEF Compare, Vouched
<1>10. CASE StableBefore
  BY <1>10, SnapshotMoves DEF Outcomes
<1>11. CASE StableRead
  BY <1>11, StableReadMoves DEF Outcomes
<1>12. CASE StableAfter
  <2>1. view = run.seen /\ run.slots = run.want => HeldIn(hist, run.want)
    BY <1>12 DEF StableAfter, Observed
  <2>2. QED
    BY <1>12, <2>1 DEF StableAfter
<1>13. CASE CheckAttestation
  <2>1. ~env.lag /\ view = att.snapshot => HeldIn(hist, run.want)
    BY <1>13, SnapshotMoves DEF Attested, Items
  <2>2. QED
    BY <1>13, <2>1, SnapshotMoves, VouchedNext
<1>14. CASE Baseline
  BY <1>14, SnapshotMoves DEF Outcomes
<1>15. CASE Ambiguous
  BY <1>15 DEF Ambiguous, StrictRead, Outcomes
<1>16. CASE AttestBefore
  BY <1>16, SnapshotMoves DEF Outcomes
<1>17. CASE AttestRead
  BY <1>17 DEF AttestRead, StrictRead, Outcomes
<1>18. CASE AttestAfter
  <2>1. view = run.seen => HeldIn(hist, run.want)
    BY <1>18 DEF AttestAfter, Observed
  <2>2. QED
    BY <1>18, <2>1 DEF AttestAfter
<1>19. CASE Readback
  <2>1. run.at \in Accepted /\ run'.want = run.want
    BY <1>19, ReadbackMoves DEF Accepted
  <2>2. QED
    BY <2>1
<1>20. CASE ConfirmSnapshot
  <2>1. run.at \in Accepted /\ run'.want = run.want
    BY <1>20 DEF ConfirmSnapshot, Accepted
  <2>2. QED
    BY <2>1
<1>21. CASE ConfirmRead
  <2>1. run.at \in Accepted /\ run'.want = run.want
    BY <1>21 DEF ConfirmRead, StrictRead, Accepted
  <2>2. QED
    BY <2>1
<1>22. CASE ConfirmAgain
  <2>1. run.at \in Accepted /\ run'.want = run.want
    BY <1>22 DEF ConfirmAgain, Accepted
  <2>2. QED
    BY <2>1
<1>23. CASE OpaqueSnapshot
  <2>1. run.at \in Accepted /\ run'.want = run.want
    BY <1>23, OpaqueMoves DEF Accepted
  <2>2. QED
    BY <2>1
<1>24. CASE Settled
  <2>1. Names(run.todo) = {}
    BY <1>24, SettledFields
  <2>2. CASE run.result = "done"
    BY <1>24, <2>1, <2>2, SettledFields, IdleFields
  <2>3. CASE run.result \in Outcomes
    BY <1>24, <2>1, <2>3, SettledFields, Recordings, VouchedNext DEF Vouched, Settling
  <2>4. CASE run.result \in {"dispatch", "compare"}
    BY <1>24, <2>1, <2>4, SettledFields, VouchedNext DEF Vouched, Settling
  <2>5. QED
    BY <1>24, <2>2, <2>3, <2>4, SettledFields
<1>25. CASE PageFails
  BY <1>25 DEF PageFails, Outcomes
<1>26. CASE CallFails
  BY <1>26 DEF CallFails, Outcomes
<1>27. CASE OptionalFails
  BY <1>27 DEF OptionalFails, Outcomes
<1>28. CASE PersistFails
  BY <1>28, IdleFields DEF PersistFails, Outcomes
<1>29. CASE Crash
  BY <1>29, IdleFields DEF Crash, Outcomes
<1>30. QED
  BY <1>1, <1>2, <1>3, <1>4, <1>5, <1>6, <1>7, <1>8, <1>9, <1>10, <1>11, <1>12, <1>13, <1>14, <1>15, <1>16, <1>17, <1>18, <1>19, <1>20, <1>21, <1>22, <1>23, <1>24, <1>25, <1>26, <1>27, <1>28, <1>29 DEF Quietly

LEMMA VouchedStep ==
    ASSUME TypeOK, Planned, Pends, Awaited, Observed, Vouched, Attested, [Next]_vars
    PROVE  Vouched'
<1>e. env' = env
  BY Steps
<1>a. Names(<<>>) = {}
  BY NamesOf
<1>1. CASE World
  BY <1>1, <1>e, WorldFrame, WorldHistory, VouchedNext DEF Vouched, Settling, Todo
<1>2. CASE Quietly
  BY <1>2, Steps, QuietFrames, VouchedQuietly DEF QuietFrame
<1>3. CASE Begin
  BY <1>3, <1>a, BeginFields, VouchedNothing
<1>4. CASE Write
  BY <1>4, <1>a, WriteFields, VouchedNothing DEF Planned
<1>5. CASE WriteAmbiguous
  BY <1>5, <1>a, AmbiguousFields, Moves, VouchedNothing DEF Planned
<1>6. CASE WriteStale
  BY <1>6, <1>a, StaleFields, VouchedNothing
<1>7. CASE Persist
  <2>1. Names(run.todo) = {Head(run.todo).name} \union Names(run'.todo)
    BY <1>7, Applied, FitsTail DEF Planned
  <2>2. QED
    BY <1>7, <1>e, <2>1, Applied, VouchedNext DEF Vouched, Settling, Todo
<1>8. CASE UNCHANGED vars
  BY <1>8, VouchedNext DEF Vouched, Settling, Todo, vars, remote
<1>9. QED
  BY <1>1, <1>2, <1>3, <1>4, <1>5, <1>6, <1>7, <1>8, Steps DEF Writing

-----------------------------------------------------------------------------
(* The leases *)

LEMMA DroppedNext ==
    DegradedDropped' <=>
      /\ run'.at # "idle" /\ ~(run'.at = "settle" /\ run'.result = "done") => degraded' = None
      /\ ~env'.lag /\ degraded' # None => HeldIn(hist', degraded')
  BY DEF DegradedDropped, Settling

\* A step that drops the lease, or keeps it in a place where it may be.
LEMMA DroppedKept ==
    ASSUME DegradedDropped, UNCHANGED <<env, hist, degraded>>,
           run.at = "idle" => run'.at = "idle",
           Settling({"done"}) => run'.at = "idle" \/ (run'.at = "settle" /\ run'.result = "done")
    PROVE  DegradedDropped'
  BY DroppedNext DEF DegradedDropped, Settling

LEMMA DroppedQuietly ==
    ASSUME TypeOK, Planned, Awaited, DegradedDropped, Quietly, UNCHANGED <<env, hist, degraded>>
    PROVE  DegradedDropped'
<1> USE Moves, DroppedKept DEF ReadPoints, SnapPoints, Outcomes, Settling
<1>1. CASE Dispatch
  BY <1>1 DEF Dispatch, ShortcutOrRead, Outcomes
<1>2. CASE PendingSnapshot
  BY <1>2, SnapshotMoves DEF Outcomes
<1>3. CASE Shortcut
  BY <1>3, SnapshotMoves DEF Outcomes
<1>4. CASE FirstPage
  BY <1>4, FirstPageFields DEF Outcomes
<1>5. CASE Read
  BY <1>5, ReadMoves, DropFields DEF Outcomes
<1>6. CASE Resolve
  BY <1>6, ResolveMoves DEF Outcomes
<1>7. CASE RestableRead
  BY <1>7 DEF RestableRead, StrictRead, Outcomes
<1>8. CASE RestableSnapshot
  BY <1>8 DEF RestableSnapshot, Outcomes
<1>9. CASE Compare
  BY <1>9 DEF Compare, Outcomes
<1>10. CASE StableBefore
  BY <1>10, SnapshotMoves DEF Outcomes
<1>11. CASE StableRead
  BY <1>11, StableReadMoves DEF Outcomes
<1>12. CASE StableAfter
  BY <1>12 DEF StableAfter, Outcomes
<1>13. CASE CheckAttestation
  BY <1>13, SnapshotMoves DEF Outcomes
<1>14. CASE Baseline
  BY <1>14, SnapshotMoves DEF Outcomes
<1>15. CASE Ambiguous
  BY <1>15 DEF Ambiguous, StrictRead, Outcomes
<1>16. CASE AttestBefore
  BY <1>16, SnapshotMoves DEF Outcomes
<1>17. CASE AttestRead
  BY <1>17 DEF AttestRead, StrictRead, Outcomes
<1>18. CASE AttestAfter
  BY <1>18 DEF AttestAfter, Outcomes
<1>19. CASE Readback
  BY <1>19, ReadbackMoves DEF Outcomes
<1>20. CASE ConfirmSnapshot
  BY <1>20 DEF ConfirmSnapshot, Outcomes
<1>21. CASE ConfirmRead
  BY <1>21 DEF ConfirmRead, StrictRead, Outcomes
<1>22. CASE ConfirmAgain
  BY <1>22 DEF ConfirmAgain, Outcomes
<1>23. CASE OpaqueSnapshot
  BY <1>23, OpaqueMoves DEF Outcomes
<1>24. CASE Settled
  <2>1. CASE run.result = "done"
    BY <1>24, <2>1, SettledFields, IdleFields
  <2>2. CASE run.result \in Outcomes
    BY <1>24, <2>2, SettledFields
  <2>3. CASE run.result \in {"dispatch", "compare"}
    BY <1>24, <2>3, SettledFields
  <2>4. QED
    BY <1>24, <2>1, <2>2, <2>3, SettledFields
<1>25. CASE PageFails
  BY <1>25 DEF PageFails, Outcomes
<1>26. CASE CallFails
  BY <1>26 DEF CallFails, Outcomes
<1>27. CASE OptionalFails
  BY <1>27 DEF OptionalFails, Outcomes
<1>28. CASE PersistFails
  BY <1>28, IdleFields DEF PersistFails, Outcomes
<1>29. CASE Crash
  BY <1>29, IdleFields DEF Crash, Outcomes
<1>30. QED
  BY <1>1, <1>2, <1>3, <1>4, <1>5, <1>6, <1>7, <1>8, <1>9, <1>10, <1>11, <1>12, <1>13, <1>14, <1>15, <1>16, <1>17, <1>18, <1>19, <1>20, <1>21, <1>22, <1>23, <1>24, <1>25, <1>26, <1>27, <1>28, <1>29 DEF Quietly

LEMMA DroppedStep ==
    ASSUME TypeOK, Planned, Pends, Awaited, Vouched, DegradedDropped, [Next]_vars
    PROVE  DegradedDropped'
<1>e. env' = env
  BY Steps
<1>1. CASE World
  <2>1. run' = run /\ (degraded' = degraded \/ degraded' = None)
    BY <1>1, WorldFrame
  <2>2. QED
    BY <1>1, <1>e, <2>1, WorldHistory, DroppedNext DEF DegradedDropped, Settling
<1>2. CASE Quietly
  BY <1>2, Steps, QuietFrames, DroppedQuietly DEF QuietFrame
<1>3. CASE Begin
  BY <1>3, BeginFields, DroppedNext
<1>4. CASE Write
  BY <1>4, WriteFields, DroppedNext DEF DegradedDropped, Settling
<1>5. CASE WriteAmbiguous
  BY <1>5, AmbiguousFields, DroppedNext DEF DegradedDropped, Settling
<1>6. CASE WriteStale
  BY <1>6, StaleFields, DroppedNext DEF DegradedDropped, Settling
<1>7. CASE Persist
  <2> DEFINE name == Head(run.todo).name
  <2>1. /\ run.at = "settle" /\ run'.at = "settle" /\ run'.result = run.result /\ run'.want = run.want
        /\ hist' = hist
    BY <1>7, Applied
  <2>2. \/ name = "recordDegraded" /\ degraded' = run.want
        \/ name = "clearDegraded" /\ degraded' = None
        \/ name \notin {"recordDegraded", "clearDegraded"} /\ degraded' = degraded
    BY <1>7, Applied DEF Apply
  <2>3. name \in Names(run.todo)
    BY <1>7, Applied, FitsTail DEF Planned
  <2>4. name = "recordDegraded" => run.result = "done" /\ (~env.lag => HeldIn(hist, run.want))
    BY <1>7, <2>3, Applied, FitNames DEF Planned, Vouched, Todo
  <2> HIDE DEF name
  <2>5. QED
    BY <1>e, <2>1, <2>2, <2>4, DroppedNext DEF DegradedDropped, Settling
<1>8. CASE UNCHANGED vars
  BY <1>8, DroppedNext DEF DegradedDropped, Settling, vars, remote, durable
<1>9. QED
  BY <1>1, <1>2, <1>3, <1>4, <1>5, <1>6, <1>7, <1>8, Steps DEF Writing

LEMMA DoubtNext ==
    DoubtKept' <=>
      (~env'.crashes /\ ~env'.unsafe /\ doubt' =>
         /\ degraded' = None
         /\ "recordExact" \notin Names(run'.todo) /\ "recordDegraded" \notin Names(run'.todo))
  BY DEF DoubtKept, Todo

\* A list that records no lease.
LEMMA DoubtOther ==
    ASSUME DoubtKept, UNCHANGED <<env, degraded>>, doubt' => doubt,
           "recordExact" \notin Names(run'.todo), "recordDegraded" \notin Names(run'.todo)
    PROVE  DoubtKept'
  BY DoubtNext DEF DoubtKept

LEMMA DoubtPends ==
    ASSUME TypeOK, DoubtKept, UNCHANGED <<env, degraded>>, doubt' => doubt,
           NEW b \in 1..Latest, NEW s \in 1..Latest, NEW w \in BOOLEAN,
           Settle(<<SetPending(b, s, w)>>, "unqualified")
    PROVE  DoubtKept'
<1>1. b \in 0..MaxVersions /\ s \in 0..MaxVersions
  BY Numbers
<1>2. Names(run'.todo) = {"setPending"}
  BY <1>1, Moves, NamesOf
<1>3. QED
  BY <1>2, DoubtOther

LEMMA DoubtQuietly ==
    ASSUME TypeOK, Planned, Awaited, DoubtKept, Quietly, UNCHANGED <<env, hist, degraded>>,
           doubt' => doubt, doubt' \in BOOLEAN
    PROVE  DoubtKept'
<1>a. run.at # "settle" => Names(run.todo) = {}
  BY NamesOf DEF Planned
<1>c. \A s \in 1..Latest : \A r \in {"recordExact", "recordDegraded"} :
         /\ r \notin Names(<<SetAttestation(s), ClearPending>>)
         /\ r \notin Names(<<ClearPending, SetAttestation(s)>>)
  BY Numbers, NamesOf
<1>d. Names(<<>>) = {} /\ Names(<<ClearPending>>) = {"clearPending"}
  BY NamesOf
<1> USE Numbers, Moves, DoubtOther, <1>a, <1>c, <1>d DEF ReadPoints, SnapPoints, Outcomes, Accepted

<1>1. CASE Dispatch
  BY <1>1 DEF Dispatch, ShortcutOrRead, Outcomes
<1>2. CASE PendingSnapshot
  BY <1>2, SnapshotMoves DEF Outcomes
<1>3. CASE Shortcut
  BY <1>3, SnapshotMoves DEF Outcomes
<1>4. CASE FirstPage
  BY <1>4, FirstPageFields DEF Outcomes
<1>5. CASE Read
  BY <1>5, ReadMoves, DropFields DEF Outcomes
<1>6. CASE Resolve
  <2>1. PICK s \in 1..Latest :
          \/ \E r \in {"exact", "degraded"} : Settle(<<SetAttestation(s), ClearPending>>, r)
          \/ \E r \in {"unqualified", "failed"} : Settle(<<>>, r)
          \/ SawAt("restableRead", s)
    BY <1>6, ResolveMoves, Zenon
  <2>2. run.at = "resolve"
    BY <1>6, ResolveMoves
  <2>3. QED
    BY <2>1, <2>2
<1>7. CASE RestableRead
  BY <1>7 DEF RestableRead, StrictRead, Outcomes
<1>8. CASE RestableSnapshot
  BY <1>8 DEF RestableSnapshot, Outcomes
<1>9. CASE Compare
  BY <1>9 DEF Compare, Outcomes
<1>10. CASE StableBefore
  BY <1>10, SnapshotMoves DEF Outcomes
<1>11. CASE StableRead
  BY <1>11, StableReadMoves DEF Outcomes
<1>12. CASE StableAfter
  BY <1>12 DEF StableAfter, Outcomes
<1>13. CASE CheckAttestation
  BY <1>13, SnapshotMoves DEF Outcomes
<1>14. CASE Baseline
  BY <1>14, SnapshotMoves DEF Outcomes
<1>15. CASE Ambiguous
  BY <1>15 DEF Ambiguous, StrictRead, Outcomes
<1>16. CASE AttestBefore
  BY <1>16, SnapshotMoves DEF Outcomes
<1>17. CASE AttestRead
  BY <1>17 DEF AttestRead, StrictRead, Outcomes
<1>18. CASE AttestAfter
  BY <1>18 DEF AttestAfter, Outcomes
<1>19. CASE Readback
  <2>1. CASE Settle(<<>>, "failed") \/ Goto("opaqueSnapshot") \/ Goto("confirmSnapshot")
    BY <1>19, <2>1, ReadbackMoves
  <2>2. CASE run.base \in 1..Latest /\ Settle(<<SetPending(run.base, run.sent, TRUE)>>, "unqualified")
    BY <1>19, <2>2, ReadbackMoves, DoubtPends
  <2>3. QED
    BY <1>19, <2>1, <2>2, ReadbackMoves
<1>20. CASE ConfirmSnapshot
  BY <1>20 DEF ConfirmSnapshot, Outcomes
<1>21. CASE ConfirmRead
  BY <1>21 DEF ConfirmRead, StrictRead, Outcomes
<1>22. CASE ConfirmAgain
  BY <1>22 DEF ConfirmAgain, Outcomes
<1>23. CASE OpaqueSnapshot
  BY <1>23, OpaqueMoves, DoubtPends
<1>24. CASE Settled
  <2>1. Names(run.todo) = {}
    BY <1>24, SettledFields
  <2>2. CASE run.result = "done"
    BY <1>24, <2>2, SettledFields, IdleFields
  <2>3. CASE run.result \in Outcomes
    <3>1. doubt' => run.result = "failed"
      BY <1>24, <2>3 DEF Settled
    <3>2. run.result = "failed" => Names(run'.todo) = {"clearExact"}
      BY <1>24, <2>3, SettledFields, Recordings
    <3>3. QED
      BY <3>1, <3>2, DoubtNext DEF DoubtKept
  <2>4. CASE run.result \in {"dispatch", "compare"}
    BY <1>24, <2>1, <2>4, SettledFields
  <2>5. QED
    BY <1>24, <2>2, <2>3, <2>4, SettledFields
<1>25. CASE PageFails
  BY <1>25 DEF PageFails, Outcomes
<1>26. CASE CallFails
  BY <1>26 DEF CallFails, Outcomes
<1>27. CASE OptionalFails
  BY <1>27 DEF OptionalFails, Outcomes
<1>28. CASE PersistFails
  BY <1>28, IdleFields DEF PersistFails, Outcomes
<1>29. CASE Crash
  BY <1>29, IdleFields DEF Crash, Outcomes
<1>30. QED
  BY <1>1, <1>2, <1>3, <1>4, <1>5, <1>6, <1>7, <1>8, <1>9, <1>10, <1>11, <1>12, <1>13, <1>14, <1>15, <1>16, <1>17, <1>18, <1>19, <1>20, <1>21, <1>22, <1>23, <1>24, <1>25, <1>26, <1>27, <1>28, <1>29 DEF Quietly

LEMMA DoubtStep ==
    ASSUME TypeOK, Planned, Pends, Awaited, DegradedDropped, DoubtKept, [Next]_vars
    PROVE  DoubtKept'
<1>e. env' = env
  BY Steps
<1>a. Names(<<>>) = {}
  BY NamesOf
<1>1. CASE World
  BY <1>1, <1>e, WorldFrame, DoubtNext DEF DoubtKept, Todo
<1>2. CASE Quietly
  BY <1>2, Steps, QuietFrames, DoubtQuietly DEF QuietFrame
<1>3. CASE Begin
  BY <1>3, <1>a, <1>e, BeginFields, DoubtNext
<1>4. CASE Write
  BY <1>4, <1>e, WriteFields, DoubtNext DEF DoubtKept, Todo
<1>5. CASE WriteAmbiguous
  <2>1. degraded' = None /\ Names(run'.todo) = {}
    BY <1>5, <1>a, AmbiguousFields, Moves DEF DegradedDropped, Settling, Planned
  <2>2. QED
    BY <2>1, DoubtNext
<1>6. CASE WriteStale
  BY <1>6, <1>a, <1>e, StaleFields, DoubtNext DEF DoubtKept
<1>7. CASE Persist
  <2> DEFINE name == Head(run.todo).name
  <2>1. Names(run.todo) = {name} \union Names(run'.todo)
    BY <1>7, Applied, FitsTail DEF Planned
  <2>2. (degraded' = degraded \/ degraded' = None \/ name = "recordDegraded") /\ doubt' = doubt
    BY <1>7, Applied DEF Apply
  <2> HIDE DEF name
  <2>3. QED
    BY <1>e, <2>1, <2>2, DoubtNext DEF DoubtKept, Todo
<1>8. CASE UNCHANGED vars
  BY <1>8, DoubtNext DEF DoubtKept, Todo, vars, durable
<1>9. QED
  BY <1>1, <1>2, <1>3, <1>4, <1>5, <1>6, <1>7, <1>8, Steps DEF Writing

LEMMA ExactNext ==
    ExactKept' <=>
      (~env'.crashes /\ ~env'.unsafe
         /\ \/ run'.at \in {"idle", "dispatch", "shortcut", "read", "compare", "write"} \union Resolving
                     \union {"stableBefore", "stableRead", "stableAfter", "checkAttestation", "baseline"}
            \/ run'.at = "settle" /\ run'.result \in {"dispatch", "compare"}
            \/ run'.at = "settle" /\ run'.result = "done"
               /\ "recordExact" \notin Names(run'.todo) /\ "clearExact" \notin Names(run'.todo)
       => /\ exact' # None => pending' = None /\ HeldIn(hist', exact')
          /\ doubt' => exact' = None)
  BY DEF ExactKept, Clean, Settling, Todo

\* A step from a place where no write of the pass can have touched the lease.
LEMMA ExactClean ==
    ASSUME ExactKept, Clean, UNCHANGED <<env, hist, pending, exact>>, doubt' => doubt
    PROVE  ExactKept'
  BY ExactNext DEF ExactKept

\* A step to a place where one can.
LEMMA ExactDirty ==
    ASSUME run'.at \in {"readback", "confirmSnapshot", "confirmRead", "confirmAgain", "opaqueSnapshot",
                        "ambiguous", "attestBefore", "attestRead", "attestAfter", "settle"},
           run'.at = "settle" => run'.result \in Outcomes
    PROVE  ExactKept'
  BY ExactNext DEF Outcomes, Resolving

LEMMA ExactQuietly ==
    ASSUME TypeOK, Planned, Awaited, ExactKept, Quietly,
           UNCHANGED <<env, hist, pending, exact>>, doubt' => doubt
    PROVE  ExactKept'
<1>b. run.at \in {"idle", "dispatch", "shortcut", "read", "compare", "write"} \union Resolving
                     \union {"stableBefore", "stableRead", "stableAfter", "checkAttestation", "baseline"}
        => ExactKept'
  BY ExactClean DEF Clean
<1>c. \A ops, r : r \in Outcomes /\ Settle(ops, r) => ExactKept'
  BY Moves, ExactDirty
<1>d. \A p \in {"readback", "confirmSnapshot", "confirmRead", "confirmAgain", "opaqueSnapshot",
                "ambiguous", "attestBefore", "attestRead", "attestAfter"} :
        /\ Goto(p) => ExactKept'
        /\ \A s : SawAt(p, s) => ExactKept'
  BY Moves, ExactDirty
<1> USE <1>b, <1>c, <1>d DEF ReadPoints, SnapPoints, Outcomes, Resolving
<1>1. CASE Dispatch
  BY <1>1 DEF Dispatch, ShortcutOrRead, Outcomes
<1>2. CASE PendingSnapshot
  BY <1>2, SnapshotMoves DEF Outcomes
<1>3. CASE Shortcut
  BY <1>3, SnapshotMoves DEF Outcomes
<1>4. CASE FirstPage
  <2>1. CASE Clean
    BY <1>4, <2>1, ExactClean
  <2>2. CASE ~Clean
    BY <1>4, <2>2, FirstPageFields, ExactDirty DEF Clean
  <2>3. QED
    BY <2>1, <2>2
<1>5. CASE Read
  BY <1>5, ReadMoves, DropFields DEF Outcomes
<1>6. CASE Resolve
  BY <1>6, ResolveMoves DEF Outcomes
<1>7. CASE RestableRead
  BY <1>7 DEF RestableRead, StrictRead, Outcomes
<1>8. CASE RestableSnapshot
  BY <1>8 DEF RestableSnapshot, Outcomes
<1>9. CASE Compare
  BY <1>9 DEF Compare, Outcomes
<1>10. CASE StableBefore
  BY <1>10, SnapshotMoves DEF Outcomes
<1>11. CASE StableRead
  BY <1>11, StableReadMoves DEF Outcomes
<1>12. CASE StableAfter
  BY <1>12 DEF StableAfter, Outcomes
<1>13. CASE CheckAttestation
  BY <1>13, SnapshotMoves DEF Outcomes
<1>14. CASE Baseline
  BY <1>14, SnapshotMoves DEF Outcomes
<1>15. CASE Ambiguous
  BY <1>15 DEF Ambiguous, StrictRead, Outcomes
<1>16. CASE AttestBefore
  BY <1>16, SnapshotMoves DEF Outcomes
<1>17. CASE AttestRead
  BY <1>17 DEF AttestRead, StrictRead, Outcomes
<1>18. CASE AttestAfter
  BY <1>18 DEF AttestAfter, Outcomes
<1>19. CASE Readback
  BY <1>19, ReadbackMoves DEF Outcomes
<1>20. CASE ConfirmSnapshot
  BY <1>20 DEF ConfirmSnapshot, Outcomes
<1>21. CASE ConfirmRead
  BY <1>21 DEF ConfirmRead, StrictRead, Outcomes
<1>22. CASE ConfirmAgain
  BY <1>22 DEF ConfirmAgain, Outcomes
<1>23. CASE OpaqueSnapshot
  BY <1>23, OpaqueMoves DEF Outcomes
<1>24. CASE Settled
  <2>1. Names(run.todo) = {}
    BY <1>24, SettledFields, NamesOf
  <2>2. CASE run.result = "done"
    BY <1>24, <2>1, <2>2, SettledFields, ExactClean DEF Clean, Settling, Todo
  <2>3. CASE run.result \in Outcomes
    <3>1. run'.at = "settle" /\ run'.result = "done"
          /\ ("recordExact" \in Names(run'.todo) \/ "clearExact" \in Names(run'.todo))
      BY <1>24, <2>3, SettledFields, Recordings
    <3>2. QED
      BY <2>3, <3>1, ExactNext
  <2>4. CASE run.result \in {"dispatch", "compare"}
    BY <1>24, <2>4, SettledFields, ExactClean DEF Clean, Settling
  <2>5. QED
    BY <1>24, <2>2, <2>3, <2>4, SettledFields
<1>25. CASE PageFails
  BY <1>25 DEF PageFails, Outcomes
<1>26. CASE CallFails
  BY <1>26 DEF CallFails, Outcomes
<1>27. CASE OptionalFails
  BY <1>27 DEF OptionalFails, Outcomes
<1>28. CASE PersistFails
  BY <1>28, ExactNext DEF PersistFails
<1>29. CASE Crash
  BY <1>29, ExactNext DEF Crash
<1>30. QED
  BY <1>1, <1>2, <1>3, <1>4, <1>5, <1>6, <1>7, <1>8, <1>9, <1>10, <1>11, <1>12, <1>13, <1>14, <1>15, <1>16, <1>17, <1>18, <1>19, <1>20, <1>21, <1>22, <1>23, <1>24, <1>25, <1>26, <1>27, <1>28, <1>29 DEF Quietly

LEMMA ExactStep ==
    ASSUME TypeOK, Planned, Pends, Awaited, Vouched, ExactKept, DoubtKept, [Next]_vars
    PROVE  ExactKept'
<1>e. env' = env
  BY Steps
<1>1. CASE World
  BY <1>1, <1>e, WorldFrame, WorldHistory, PendingWorld, ExactNext DEF ExactKept, Clean, Settling, Todo
<1>2. CASE Quietly
  BY <1>2, Steps, QuietFrames, ExactQuietly DEF QuietFrame
<1>3. CASE Begin
  BY <1>3, <1>e, BeginFields, ExactClean DEF Clean
<1>4. CASE Write
  BY <1>4, WriteFields, ExactDirty
<1>5. CASE WriteAmbiguous
  BY <1>5, AmbiguousFields, Moves, ExactDirty
<1>6. CASE WriteStale
  BY <1>6, <1>e, StaleFields, ExactClean DEF Clean
<1>7. CASE Persist
  <2> DEFINE name == Head(run.todo).name
  <2>1. /\ run.at = "settle" /\ run'.at = "settle" /\ run'.result = run.result /\ run'.want = run.want
        /\ hist' = hist /\ doubt' = doubt /\ run.todo \in Seq(OpType)
        /\ Fits(run.todo, run.result, Latest)
    BY <1>7, Applied DEF Planned
  <2>2. Names(run.todo) = {name} \union Names(run'.todo)
    BY <1>7, Applied, FitsTail DEF Planned
  <2>3. /\ pending' = pending \/ pending' = None \/ name = "setPending"
        /\ name = "recordExact" => exact' = run.want /\ pending' = pending
        /\ name = "clearExact" => exact' = None
        /\ name \notin {"recordExact", "clearExact"} => exact' = exact
    BY <1>7, Applied DEF Apply
  <2>4. /\ name = "setPending" => run.result = "unqualified"
        /\ name = "recordExact" => run.result = "done" /\ HeldIn(hist, run.want) /\ pending = None
    BY <2>1, <2>2, FitNames DEF Vouched, Pends, Todo
  <2>5. ~env.crashes /\ ~env.unsafe /\ doubt => name # "recordExact"
    BY <2>2 DEF DoubtKept, Todo
  <2> HIDE DEF name
  <2>6. CASE name = "recordExact"
    BY <1>e, <2>1, <2>3, <2>4, <2>5, <2>6, ExactNext
  <2>7. CASE name = "clearExact"
    BY <1>e, <2>3, <2>7, ExactNext
  <2>8. CASE name \notin {"recordExact", "clearExact"}
    BY <1>e, <2>1, <2>2, <2>3, <2>4, <2>8, ExactNext DEF ExactKept, Clean, Settling, Todo, Resolving
  <2>9. QED
    BY <2>6, <2>7, <2>8
<1>8. CASE UNCHANGED vars
  BY <1>8, ExactNext DEF ExactKept, Clean, Settling, Todo, vars, remote, durable
<1>9. QED
  BY <1>1, <1>2, <1>3, <1>4, <1>5, <1>6, <1>7, <1>8, Steps DEF Writing

-----------------------------------------------------------------------------
(* An undisturbed destination *)

LEMMA KnownNext ==
    Known' <=>
      (env'.edits = 0 /\ ~env'.lag /\ ~env'.opaque =>
        /\ run'.page # Unread => run'.page = Items'[1]
        /\ run'.at = "compare" \/ (run'.at = "settle" /\ run'.result = "compare") => run'.slots = Items'
        /\ run'.at \in {"stableBefore", "stableRead"} => Items' = run'.want
        /\ run'.at = "stableRead" => view' = run'.seen
        /\ run'.at = "stableAfter" => run'.slots = run'.want /\ Items' = run'.want /\ view' = run'.seen
        /\ run'.at \in {"baseline", "write"} => Items' # run'.want
        /\ run'.at = "shortcut" => att' # None /\ att'.fp # run'.want
        /\ run'.at # "checkAttestation"
        /\ ~hist'[1].own)
  BY DEF Known, Alone, Settling

\* The places of a pass of which something is known.
Knowing == {"compare", "stableBefore", "stableRead", "stableAfter", "baseline", "write", "shortcut",
            "checkAttestation"}

LEMMA KnownElsewhere ==
    ASSUME Known, env' = env, hist'[1] = hist[1], run'.page = Unread, run'.at \notin Knowing,
           run'.at = "settle" => run'.result # "compare"
    PROVE  Known'
  BY KnownNext DEF Known, Alone, Knowing

LEMMA WholeItems ==
    ASSUME TypeOK
    PROVE  Whole(Items)
  BY Readable, ContentsAssumption DEF Whole

LEMMA KnownQuietly ==
    ASSUME TypeOK, Planned, Awaited, Attested, Known, Quietly, UNCHANGED <<env, hist, view, att>>
    PROVE  Known'
<1>a. Items' = Items /\ hist'[1] = hist[1] /\ view' = view /\ env' = env /\ att' = att
  BY DEF Items, Latest
<1>b. run.at \notin ReadPoints => run.page = Unread
  BY DEF Planned
<1>c. \A ops, r : r # "compare" /\ Settle(ops, r) => Known'
  BY <1>a, Moves, KnownElsewhere DEF Knowing
<1>d. \A p : p \notin Knowing /\ p # "settle" /\ Goto(p) => Known'
  BY <1>a, Moves, KnownElsewhere
<1> USE Moves, <1>a, <1>b, <1>c, <1>d DEF ReadPoints, SnapPoints, Knowing
<1>1. CASE Dispatch
  <2>1. CASE \E p \in {"read", "pendingSnapshot"} : Goto(p)
    BY <2>1
  <2>2. CASE Settle(<<ClearPending>>, "dispatch")
    BY <2>2
  <2>3. CASE Goto("shortcut") /\ att # None /\ att.fp # run.want
    BY <2>3, KnownNext DEF Known, Alone
  <2>4. QED
    BY <1>1, <2>1, <2>2, <2>3 DEF Dispatch, ShortcutOrRead
<1>2. CASE PendingSnapshot
  BY <1>2, SnapshotMoves, KnownElsewhere
<1>3. CASE Shortcut
  <2>1. CASE view = att.snapshot /\ BasedAt("write", view)
    <3>1. Alone => Items # run.want
      BY <1>3, <2>1, SnapshotMoves DEF Known, Attested, Alone, Items
    <3>2. QED
      BY <1>3, <2>1, <3>1, SnapshotMoves, KnownNext DEF Known, Alone
  <2>2. CASE Goto("read")
    BY <2>2
  <2>3. QED
    BY <1>3, <2>1, <2>2, SnapshotMoves
<1>4. CASE FirstPage
  BY <1>4, FirstPageFields, KnownNext DEF Known, Alone, Settling
<1>5. CASE Read
  <2>1. PICK slots \in {FullRead, HiddenRead} :
            /\ Reading(slots)
            /\ ReadAt("compare", slots) \/ ReadAt("resolve", slots) \/ DropAt(slots)
    BY <1>5, ReadMoves
  <2>2. run'.slots = slots /\ run'.page = Unread /\ run'.want = run.want
        /\ run'.at \in {"compare", "resolve", "settle"}
    BY <2>1, DropFields
  <2>3. Alone => slots = Items
    <3>1. Alone => slots = FullRead /\ (env.paged => run.page # Unread)
      BY <2>1 DEF Reading, Alone
    <3>2. QED
      BY <3>1, WholeRead DEF Known
  <2>4. QED
    BY <2>2, <2>3, KnownNext DEF Known, Alone
<1>6. CASE Resolve
  <2>1. PICK s \in 1..Latest :
          \/ \E r \in {"exact", "degraded"} : Settle(<<SetAttestation(s), ClearPending>>, r)
          \/ \E r \in {"unqualified", "failed"} : Settle(<<>>, r)
          \/ SawAt("restableRead", s)
    BY <1>6, ResolveMoves, Zenon
  <2>2. run.at = "resolve"
    BY <1>6, ResolveMoves
  <2>3. QED
    BY <2>1, <2>2, KnownElsewhere
<1>7. CASE RestableRead
  BY <1>7 DEF RestableRead, StrictRead, Knowing
<1>8. CASE RestableSnapshot
  BY <1>8 DEF RestableSnapshot, Knowing
<1>9. CASE Compare
  <2>1. run.at = "compare" /\ run.page = Unread
    BY <1>9 DEF Compare
  <2>2. Alone => run.slots = Items /\ Whole(run.slots)
    BY <2>1, WholeItems DEF Known
  <2>3. CASE \E r \in {"exact"} : Settle(<<>>, r)
    BY <2>3
  <2>4. CASE run.slots = run.want /\ Goto("stableBefore")
    BY <2>2, <2>4, KnownNext DEF Known, Alone
  <2>5. CASE ~Whole(run.slots) /\ Goto("checkAttestation")
    BY <2>2, <2>5, KnownNext DEF Alone
  <2>6. CASE run.slots # run.want /\ Goto("baseline")
    BY <2>2, <2>6, KnownNext DEF Known, Alone
  <2>7. QED
    BY <1>9, <2>3, <2>4, <2>5, <2>6 DEF Compare
<1>10. CASE StableBefore
  BY <1>10, SnapshotMoves, KnownNext DEF Known, Alone
<1>11. CASE StableRead
  <2>1. PICK slots \in {FullRead, HiddenRead} :
          /\ Reading(slots)
          /\ ReadAt("stableAfter", IF slots = run.want THEN slots ELSE <<Unread, Unread>>)
    BY <1>11, StableReadMoves
  <2>2. run.at = "stableRead"
    BY <1>11, StableReadMoves
  <2>3. Alone => slots = Items /\ Items = run.want /\ view = run.seen
    <3>1. Alone => slots = FullRead /\ (env.paged => run.page # Unread)
      BY <2>1 DEF Reading, Alone
    <3>2. QED
      BY <2>2, <3>1, WholeRead DEF Known
  <2>4. run'.at = "stableAfter" /\ run'.page = Unread /\ run'.want = run.want /\ run'.seen = run.seen
        /\ (Alone => run'.slots = run.want)
    BY <2>1, <2>3
  <2>5. QED
    BY <2>3, <2>4, KnownNext DEF Known, Alone
<1>12. CASE StableAfter
  <2>1. CASE Settle(<<>>, "exact")
    BY <2>1
  <2>2. CASE Goto("baseline") /\ ~(view = run.seen /\ run.slots = run.want)
    BY <1>12, <2>2, KnownNext DEF StableAfter, Known, Alone
  <2>3. QED
    BY <1>12, <2>1, <2>2 DEF StableAfter
<1>13. CASE CheckAttestation
  BY <1>13, SnapshotMoves, KnownNext DEF Known, Alone
<1>14. CASE Baseline
  BY <1>14, SnapshotMoves, KnownNext DEF Known, Alone
<1>15. CASE Ambiguous
  BY <1>15 DEF Ambiguous, StrictRead, Knowing
<1>16. CASE AttestBefore
  BY <1>16, SnapshotMoves, KnownElsewhere
<1>17. CASE AttestRead
  BY <1>17 DEF AttestRead, StrictRead, Knowing
<1>18. CASE AttestAfter
  BY <1>18 DEF AttestAfter, Knowing
<1>19. CASE Readback
  BY <1>19, ReadbackMoves DEF Knowing
<1>20. CASE ConfirmSnapshot
  BY <1>20 DEF ConfirmSnapshot, Knowing
<1>21. CASE ConfirmRead
  BY <1>21 DEF ConfirmRead, StrictRead, Knowing
<1>22. CASE ConfirmAgain
  BY <1>22 DEF ConfirmAgain, Knowing
<1>23. CASE OpaqueSnapshot
  BY <1>23, OpaqueMoves DEF Knowing
<1>24. CASE Settled
  <2>1. CASE run.result = "done"
    BY <1>24, <2>1, SettledFields, IdleFields, KnownElsewhere
  <2>2. CASE run.result \in Outcomes
    BY <1>24, <2>2, SettledFields, KnownElsewhere
  <2>3. CASE run.result = "dispatch"
    BY <1>24, <2>3, SettledFields, KnownElsewhere
  <2>4. CASE run.result = "compare"
    BY <1>24, <2>4, SettledFields, KnownNext DEF Known, Alone, Settling
  <2>5. QED
    BY <1>24, <2>1, <2>2, <2>3, <2>4, SettledFields
<1>25. CASE PageFails
  BY <1>25 DEF PageFails, Knowing
<1>26. CASE CallFails
  BY <1>26 DEF CallFails, Knowing
<1>27. CASE OptionalFails
  <2>1. CASE run.at = "baseline" /\ Goto("write")
    BY <2>1, KnownNext DEF Known, Alone
  <2>2. CASE run.at # "baseline"
    BY <1>27, <2>2 DEF OptionalFails
  <2>3. QED
    BY <1>27, <2>1, <2>2 DEF OptionalFails
<1>28. CASE PersistFails
  BY <1>28, IdleFields, KnownElsewhere DEF PersistFails
<1>29. CASE Crash
  BY <1>29, IdleFields, KnownElsewhere DEF Crash
<1>30. QED
  BY <1>1, <1>2, <1>3, <1>4, <1>5, <1>6, <1>7, <1>8, <1>9, <1>10, <1>11, <1>12, <1>13, <1>14, <1>15, <1>16, <1>17, <1>18, <1>19, <1>20, <1>21, <1>22, <1>23, <1>24, <1>25, <1>26, <1>27, <1>28, <1>29 DEF Quietly

\* Where nobody may edit, the first version already is as many as there may be.
LEMMA NobodyEdits ==
    ASSUME TypeOK, env.edits = 0, ~hist[1].own
    PROVE  ~Edit
<1> DEFINE V == {v \in 1..Latest : ~hist[v].own}
<1>1. Latest \in Nat /\ 1 \in 1..Latest
  BY Numbers
<1>2. IsFiniteSet(1..Latest)
  BY <1>1, FS_Interval
<1>3. IsFiniteSet(V)
  BY <1>2, FS_Subset
<1>4. 1 \in V
  BY <1>1
<1>5. Cardinality(V) # 0
  BY <1>3, <1>4, FS_EmptySet
<1>6. Cardinality(V) \in Nat
  BY <1>3, FS_CardinalityType
<1>7. ~(Cardinality(V) <= env.edits)
  BY <1>5, <1>6
<1>8. QED
  BY <1>7, Zenon DEF Edit

LEMMA KnownStep ==
    ASSUME TypeOK, Planned, Pends, Awaited, Attested, Known, [Next]_vars
    PROVE  Known'
<1>e. env' = env
  BY Steps
<1>f. 1 \in 1..Latest
  BY Numbers
<1>1. CASE World
  <2>1. CASE ~Alone
    BY <1>e, <2>1, KnownNext DEF Alone
  <2>2. CASE Alone
    <3>1. ~Edit /\ view = Latest
      BY <2>2, NobodyEdits DEF Known, Attested, Alone
    <3>2. UNCHANGED <<hist, view>>
      BY <1>1, <3>1, WorldFrame DEF Propagate
    <3>3. QED
      BY <1>1, <1>e, <3>2, WorldFrame, KnownNext DEF Known, Alone, Settling, Items, Latest
  <2>3. QED
    BY <2>1, <2>2
<1>2. CASE Quietly
  BY <1>2, Steps, QuietFrames, KnownQuietly DEF QuietFrame
<1>3. CASE Begin
  BY <1>3, <1>e, BeginFields, KnownElsewhere DEF Knowing
<1>4. CASE Write
  <2>1. hist'[1] = hist[1] /\ run'.page = Unread /\ run'.at = "readback"
    BY <1>4, <1>f, WriteFields, ReplaceHistory DEF Planned, ReadPoints
  <2>2. QED
    BY <1>e, <2>1, KnownElsewhere DEF Knowing
<1>5. CASE WriteAmbiguous
  <2>1. run'.page = Unread /\ run'.at = "ambiguous" /\ run.at # "idle" /\ (Replace \/ UNCHANGED <<hist, view>>)
    BY <1>5, AmbiguousFields, Moves
  <2>2. hist'[1] = hist[1]
    BY <1>f, <2>1, ReplaceHistory
  <2>3. QED
    BY <1>e, <2>1, <2>2, KnownElsewhere DEF Knowing
<1>6. CASE WriteStale
  BY <1>6, <1>e, StaleFields, KnownElsewhere DEF Knowing
<1>7. CASE Persist
  <2>1. Items' = Items
    BY <1>7, Applied DEF Items, Latest
  <2>2. QED
    BY <1>7, <1>e, <2>1, Applied, KnownNext DEF Known, Alone, Settling
<1>8. CASE UNCHANGED vars
  BY <1>8, KnownNext DEF Known, Alone, Settling, vars, remote, durable, Items, Latest
<1>9. QED
  BY <1>1, <1>2, <1>3, <1>4, <1>5, <1>6, <1>7, <1>8, Steps DEF Writing

-----------------------------------------------------------------------------
(* The invariant and what follows from it *)

LEMMA InitIInv == Init => IInv
<1> SUFFICES ASSUME Init PROVE IInv
  OBVIOUS
<1>1. TypeOK
  BY InitTyped
<1>2. /\ run.at = "idle" /\ run.page = Unread /\ run.todo = <<>> /\ run.result = "done"
      /\ run.seen = 0 /\ pending = None /\ att = None /\ exact = None /\ degraded = None
      /\ view = 1 /\ doubt = FALSE
  BY DEF Init, IdleRun
<1>3. Latest = 1 /\ ~hist[1].own
  BY DEF Init, Latest
<1>4. Names(run.todo) = {} /\ ToSet(run.todo) = {}
  BY <1>2, NamesOf, Lists
<1>5. Planned /\ Pends /\ Awaited
  BY <1>2, <1>4 DEF Planned, Fits, Pends, Awaited, Unpending, Resolving, Accepted, Settling, Todo
<1>6. Observed /\ Vouched /\ Attested
  BY <1>2, <1>3, <1>4 DEF Observed, Vouched, Attested, Settling, Todo
<1>7. DegradedDropped /\ ExactKept /\ DoubtKept
  BY <1>2, <1>4 DEF DegradedDropped, ExactKept, DoubtKept, Settling, Todo
<1>8. Known
  BY <1>2, <1>3 DEF Known, Settling
<1>9. QED
  BY <1>1, <1>5, <1>6, <1>7, <1>8 DEF IInv

LEMMA StepIInv == IInv /\ [Next]_vars => IInv'
<1> SUFFICES ASSUME IInv, [Next]_vars PROVE IInv'
  OBVIOUS
<1>1. /\ TypeOK /\ Planned /\ Pends /\ Awaited /\ Observed /\ Vouched
      /\ Attested /\ DegradedDropped /\ ExactKept /\ DoubtKept /\ Known
  BY DEF IInv
<1>2. TypeOK' /\ Planned' /\ Pends' /\ Awaited'
  BY <1>1, TypeStep, PlannedStep, PendsStep, AwaitedStep
<1>3. Observed' /\ Attested' /\ Vouched'
  BY <1>1, ObservedStep, AttestedStep, VouchedStep
<1>4. DegradedDropped' /\ ExactKept' /\ DoubtKept'
  BY <1>1, DroppedStep, ExactStep, DoubtStep
<1>5. Known'
  BY <1>1, KnownStep
<1>6. QED
  BY <1>2, <1>3, <1>4, <1>5 DEF IInv

LEMMA Invariant == Spec => []IInv
  BY InitIInv, StepIInv, PTL DEF Spec

LEMMA HeldMeans == \A fp : HeldSinceOwnWrite(fp) <=> HeldIn(hist, fp)
  BY DEF HeldSinceOwnWrite, HeldIn, Latest

\* The variables keep their types, and every snapshot id that the attestation, the pending
\* confirmation, the run or a write still to be made holds names a version of the
\* destination: whatever the destination, its editors, Spotify and the machine do.
THEOREM TypeCorrect == Spec => []TypeOK
<1>1. IInv => TypeOK
  BY DEF IInv
<1>2. QED
  BY <1>1, Invariant, PTL

\* A pending confirmation (snapshot_pending.py) waits for the snapshot of a write the
\* engine made with the content it names, through crashes, lost answers and failed saves.
THEOREM PendingAwaitsOwnWrite == Spec => []PendingTruthful
<1>1. IInv => PendingTruthful
  BY DEF IInv, Awaited, LastIn, PendingTruthful
<1>2. QED
  BY <1>1, Invariant, PTL

\* What the exact lease (first_persistence.py) lets later cycles skip over is something the
\* destination held since the engine's last write, while the process lives and SQLite works.
THEOREM ExactLeaseHolds == Spec => []ExactLeaseTruthful
<1>1. IInv => ExactLeaseTruthful
  BY HeldMeans DEF IInv, ExactKept, Clean, ExactLeaseTruthful
<1>2. QED
  BY <1>1, Invariant, PTL

\* The same of the degraded lease, through crashes and failing SQLite, where the snapshot
\* endpoint is current (its evidence is an attestation, which names a snapshot).
THEOREM DegradedLeaseHolds == Spec => []DegradedLeaseTruthful
<1>1. IInv => DegradedLeaseTruthful
  BY HeldMeans DEF IInv, DegradedDropped, DegradedLeaseTruthful
<1>2. QED
  BY <1>1, Invariant, PTL

\* While the process lives and SQLite works, a cycle never skips a destination whose last
\* write ended in a 5xx or a transport error that nothing settled since.
THEOREM DoubtStopsSkips == Spec => []DoubtIsResolvedAlive
<1>1. IInv => DoubtIsResolvedAlive
  <2> SUFFICES ASSUME IInv, ~env.crashes, ~env.unsafe, run.at = "idle", CanSkip(desired), doubt
               PROVE  FALSE
    BY DEF DoubtIsResolvedAlive, DoubtIsResolved
  <2>1. exact = None /\ degraded = None
    BY DEF IInv, ExactKept, DoubtKept, Clean
  <2>2. desired # None
    BY ContentsAssumption DEF IInv, TypeOK, Contents
  <2>3. QED
    BY <2>1, <2>2 DEF CanSkip, SkipDegraded
<1>2. QED
  BY <1>1, Invariant, PTL

\* Where nobody else edits, reads are whole and snapshots current, no write is sent to a
\* destination that already holds what is wanted, whatever crashes, fails or is retried.
THEOREM WritesAreNeeded == Spec => []NoRepeatedWrite
<1>1. IInv => NoRepeatedWrite
  BY DEF IInv, Known, Alone, NoRepeatedWrite
<1>2. QED
  BY <1>1, Invariant, PTL
=============================================================================
