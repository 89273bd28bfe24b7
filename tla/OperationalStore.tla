-------------------------- MODULE OperationalStore --------------------------
(***************************************************************************)
(* The configuration an installation owns: managed-state-v11.json, the     *)
(* marker that makes it the only authority, and the one store object the   *)
(* process shares between its administration services.                     *)
(*                                                                         *)
(*   v11_operational_storage.py  V11OperationalStore                       *)
(*   v11_managed_adapter.py      ForwardOnlyManagedStateStore              *)
(*   v11_operational_codec.py    the migrated document                     *)
(***************************************************************************)
EXTENDS Naturals, ConfigurationEdits

CONSTANTS
    MaxFaults,      \* file operations that fail or are cut off
    MaxLosses       \* times the document disappears from the disk

ASSUME StoreBounds == MaxFaults \in Nat /\ MaxLosses \in Nat

VARIABLES
    legacy,         \* managed-state.json of a release before v11
    authority,      \* .managed-state-v11.authority exists
    document,       \* managed-state-v11.json
    litter,         \* a temporary file was left in a root without a document
    expected,       \* _expected_bytes of the shared store object
    published,      \* history: a document has been published here
    faults, losses  \* bounds

disk  == <<legacy, authority, document, litter, published>>
store == <<disk, expected, faults, losses>>

Records == {"none", "clean", "invalid", "ancient"} \cup Damaged

StoreTypeOK ==
    /\ legacy \in Records /\ authority \in BOOLEAN /\ litter \in BOOLEAN
    /\ document \in Contents \cup {NoDocument, Illegible}
    /\ expected \in Contents \cup {NoDocument}
    /\ published \in BOOLEAN
    /\ faults \in 0..MaxFaults /\ losses \in 0..MaxLosses

StoreInit ==
    /\ legacy \in Records
    /\ authority = FALSE /\ litter = FALSE /\ published = FALSE
    /\ document = NoDocument /\ expected = NoDocument
    /\ faults = 0 /\ losses = 0

Fault == faults < MaxFaults /\ faults' = faults + 1

-----------------------------------------------------------------------------
(* Opening: an existing document is used, a missing one only created in a  *)
(* root that never had the marker.                                         *)

\* A record that cannot be read as a whole stops the migration before it writes,
Understood == legacy # "invalid"

\* and so does one of a schema that is upgraded in memory only.
Frozen == legacy # "ancient"

Migratable == Understood /\ Frozen

\* Of a readable one, a draft that cannot be understood does not stop it.
MigratedDraft == IF legacy \in Damaged THEN legacy ELSE "none"

FreshDocument == [source |-> "none", draft |-> "none", owned |-> "none"]

\* The playlists come along; one that an earlier release kept enabled with
\* disabled sources only is paused for good.
MigratedDocument == [source |-> "none", draft |-> MigratedDraft, owned |-> "plain"]

FirstDocument == IF legacy = "none" THEN FreshDocument ELSE MigratedDocument

MayInitializeAgain == document = NoDocument

MayInitialize ==
    /\ document = NoDocument
    /\ ~authority
    /\ IF legacy = "none" THEN ~litter ELSE Migratable

\* A document that is there is used, or, illegible, never replaced.
OpenExisting ==
    /\ Legible(document)
    /\ authority' = TRUE
    /\ expected' = document
    /\ UNCHANGED <<legacy, document, litter, published, faults, losses>>

OpenRefused ==
    /\ ~Legible(document)
    /\ ~MayInitialize
    /\ UNCHANGED store

Initialized ==
    /\ MayInitialize
    /\ authority' = TRUE
    /\ document' = FirstDocument
    /\ expected' = FirstDocument
    /\ published' = TRUE
    /\ UNCHANGED <<legacy, litter, faults, losses>>

(* The initialization is cut off with only a temporary file written, with  *)
(* the marker recorded, or after the document was linked.                  *)
InitializationCut ==
    /\ MayInitialize
    /\ Fault
    /\ \/ litter' = TRUE /\ UNCHANGED <<authority, document, published>>
       \/ authority' = TRUE /\ UNCHANGED <<litter, document, published>>
       \/ /\ authority' = TRUE
          /\ document' = FirstDocument
          /\ published' = TRUE
          /\ UNCHANGED litter
    /\ UNCHANGED <<legacy, expected, losses>>

-----------------------------------------------------------------------------
(* Loading refreshes what the next save expects; saving compares and swaps *)
(* under the lock of the directory.                                        *)

Loaded == Legible(document) /\ expected' = document

Unloadable == ~Legible(document) /\ UNCHANGED expected

\* Neither loaded nor saved.
DiskUnchanged == UNCHANGED <<disk, faults, losses>>

SwapAllowed == Legible(document) /\ document = expected

\* The edit replaces the configuration, and never what was migrated.
Accepted(content) == SwapAllowed /\ Representable(content)

Saved(content) ==
    /\ Accepted(content)
    /\ document' = content
    /\ expected' = content
    /\ UNCHANGED <<legacy, authority, litter, published, faults, losses>>

SaveRefused(content) ==
    /\ ~Accepted(content)
    /\ UNCHANGED store

\* The temporary file cannot be written, or the replacement itself fails.
SaveLost ==
    /\ SwapAllowed
    /\ Fault
    /\ UNCHANGED <<disk, expected, losses>>

\* os.replace is done and making the directory durable fails.
SaveLate(content) ==
    /\ Accepted(content)
    /\ content # document
    /\ Fault
    /\ document' = content
    /\ UNCHANGED <<legacy, authority, litter, published, expected, losses>>

-----------------------------------------------------------------------------
(* Outside the process.                                                    *)

\* The document disappears, or is overwritten by hand.
DocumentLost ==
    /\ Legible(document)
    /\ losses < MaxLosses
    /\ losses' = losses + 1
    /\ document' \in {NoDocument, Illegible}
    /\ UNCHANGED <<legacy, authority, litter, expected, published, faults>>

\* Another process swaps the document it has just read.
WrittenElsewhere(content) ==
    /\ Legible(document)
    /\ document' = content
    /\ UNCHANGED <<legacy, authority, litter, published, expected, faults, losses>>
=============================================================================
