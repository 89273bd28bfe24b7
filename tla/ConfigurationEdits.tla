------------------------- MODULE ConfigurationEdits -------------------------
(***************************************************************************)
(* What the operations of the administration make of a configuration.      *)
(*                                                                         *)
(*   source_import.py, playlist_import.py, portable_playlists.py           *)
(*   source_admin.py, managed_admin.py                                     *)
(*                                                                         *)
(* A configuration is what the properties tell apart of it: how the one    *)
(* installable show is defined, the draft of the one portable playlist,    *)
(* and the playlist a migrated installation brought along.                 *)
(***************************************************************************)
NoDocument == [source |-> "missing", draft |-> "missing", owned |-> "missing"]

\* A document is there, and is not one that the strict parser accepts.
Illegible  == [source |-> "illegible", draft |-> "illegible", owned |-> "illegible"]

Legible(c) == c \notin {NoDocument, Illegible}

Readable == {"x", "y"}

\* A draft that cannot be understood is set apart with its raw text, and keeps
\* its portable id reserved; the owned playlist may be made from it.
Damaged == {"damaged", "published"}

Contents ==
    [source : {"none", "a", "b"}, draft : {"none"} \cup Readable \cup Damaged,
     owned : {"none", "plain", "identified"}]

\* A playlist made from a draft that is set apart is neither edited nor run.
Suspended(c) == c.draft = "published"

\* serialize_managed_state: a draft without its source cannot be written.
Representable(c) == c.draft \in Readable => c.source # "none"

-----------------------------------------------------------------------------
(* Documents of another installation.  A sources document defines the show *)
(* as "a" or "b", or with a capability that is not installed here; the     *)
(* playlist package brings the draft "x" on the source "a".                *)

Documents == {"a", "b", "unsupported", "invalid"}

\* A package is one of exactly four plain files, whatever they say.
Enveloped(file) == file # "torn"

\* A malformed document is refused as a whole, at its upload.
SourcesUnderstood(file) == file \in {"a", "b", "unsupported"}
PackageUnderstood(file) == Enveloped(file) /\ file = "a"

\* What this installation packs: an object that has a portable identity.
Packages(c) ==
    {d \in {c.draft} : d \in Readable} \cup {p \in {c.owned} : p = "identified" /\ ~Suspended(c)}

\* Applying is stricter than previewing.
Installable(file) == file \in {"a", "b"}

Conflict(c, file) == c.source # "none" /\ c.source # file

\* build_candidate: a conflict keeps what is local.
WithSource(c, file) == IF c.source = "none" THEN [c EXCEPT !.source = file] ELSE c

\* The same portable id with other fields blocks the whole package, and with
\* the same fields nothing is left to do.
Blocked(c)       == c.draft \in {"y"} \cup Damaged
WithPlaylist(c, file) == IF c.draft = "none" THEN [WithSource(c, file) EXCEPT !.draft = "x"] ELSE c

-----------------------------------------------------------------------------
(* Inspections of a show: one that fails, one that cannot prove its recent *)
(* episodes are complete, one without usable episodes, and a good one.     *)

Examined == {"failed", "unproven", "empty", "usable"}

Suitable(report) == report = "usable"

-----------------------------------------------------------------------------
(* Edits.  "pending": an activation that uses the source awaits its answer. *)

Flip(u, v, x) == IF x = u THEN v ELSE u

SourceUpdated(c)   == [c EXCEPT !.source = Flip("a", "b", @)]
SourceCreated(c)   == [c EXCEPT !.source = "a"]
SourceDeleted(c)   == [c EXCEPT !.source = "none"]
DraftDiscarded(c)  == [c EXCEPT !.draft = "none"]
CoverSelected(c)   == [c EXCEPT !.draft = Flip("x", "y", @)]
DraftEdited(c)     == [c EXCEPT !.draft = Flip("x", "y", @)]
IdentityPrepared(c) == [c EXCEPT !.owned = "identified"]

QuarantineDiscarded(c) == [c EXCEPT !.draft = "none"]

MayUpdate(c)          == c.source # "none"
MayCreate(c)          == c.source = "none"
MayDelete(c, pending) == c.source # "none" /\ c.draft = "none" /\ ~pending
MayDiscard(c)         == c.draft \in Readable
MayCover(c, pending)  == c.draft \in Readable /\ ~pending

MayDropPublished(c, pending) == c.draft \in Damaged /\ ~pending

\* Only what no playlist and no waiting activation may still need.
MayDropDamaged(c, pending) == c.draft \in Damaged /\ ~Suspended(c) /\ ~pending

Edited(c, op) ==
    CASE op = "update"   -> SourceUpdated(c)
      [] op = "create"   -> SourceCreated(c)
      [] op = "delete"   -> SourceDeleted(c)
      [] op = "discard"  -> DraftDiscarded(c)
      [] op = "cover"    -> CoverSelected(c)
      [] op = "draft"    -> DraftEdited(c)
      [] op = "repair"   -> QuarantineDiscarded(c)
      [] op = "identity" -> IdentityPrepared(c)

\* Whether an edit finds what it needs in the configuration it has loaded.
Possible(c, op, pending) ==
    CASE op = "update"  -> MayUpdate(c)
      [] op = "create"  -> MayCreate(c)
      [] op = "delete"  -> MayDelete(c, pending)
      [] op = "discard" -> MayDiscard(c)
      [] op = "cover"   -> MayCover(c, pending)
      [] op = "repair"  -> MayDropDamaged(c, pending)
=============================================================================
