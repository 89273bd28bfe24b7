--------------------------- MODULE AdminSessions ---------------------------
(***************************************************************************)
(* The sessions of the administration surface, and the pages its browsers  *)
(* still show.                                                             *)
(*                                                                         *)
(*   admin_session.py  AdminSessionManager                                 *)
(*   lan_admin.py      LanAdminHandler, _SessionBoundSecurity              *)
(*                                                                         *)
(* A token or a preview id only matters by being the current one of its    *)
(* session, so a page records just that: "live" for its token, "match" for *)
(* its preview.  It also records the configuration it was rendered from    *)
(* and the one its confirmation promises, and, as history, whether a       *)
(* request with its token has had its effect ("used").                     *)
(***************************************************************************)
EXTENDS Naturals, FiniteSets

CONSTANTS
    Browsers,       \* cookie jars
    Slots,          \* pages open at the same time
    MaxPreviews     \* MAX_SOURCE_IMPORT_PREVIEWS

ASSUME SessionBounds == IsFiniteSet(Browsers) /\ IsFiniteSet(Slots) /\ MaxPreviews \in Nat

VARIABLES
    session,        \* _sessions: of each browser
    page            \* what each slot shows

NoPage    == [kind |-> "none"]
NoPreview == [kind |-> "none"]
NoSession == [in |-> FALSE, staged |-> NoPreview, reviewed |-> FALSE]

Staged(b) == session[b].staged.kind # "none"

SessionsInit ==
    /\ session = [b \in Browsers |-> NoSession]
    /\ page = [s \in Slots |-> NoPage]

Shows(s) == page[s].kind # "none"

\* Every page of the browsers in bs whose token or preview has ended.
WithoutToken(bs)   == [s \in Slots |-> IF Shows(s) /\ page[s].by \in bs
                                       THEN [page[s] EXCEPT !.live = FALSE] ELSE page[s]]
WithoutPreview(pages, b) == [s \in Slots |-> IF pages[s].kind # "none" /\ pages[s].by = b
                                       THEN [pages[s] EXCEPT !.match = FALSE] ELSE pages[s]]

-----------------------------------------------------------------------------
(* Sessions.                                                               *)

LogsIn(b) ==
    /\ ~session[b].in
    /\ session' = [session EXCEPT ![b] = [NoSession EXCEPT !.in = TRUE]]
    /\ UNCHANGED page

\* The idle or absolute lifetime is over.
SessionEnds(b) ==
    /\ session[b].in
    /\ session' = [session EXCEPT ![b] = NoSession]
    /\ page' = WithoutPreview(WithoutToken({b}), b)

TokenExpires(b) ==
    /\ \E s \in Slots : Shows(s) /\ page[s].by = b /\ page[s].live
    /\ page' = WithoutToken({b})
    /\ UNCHANGED session

PreviewExpires(b) ==
    /\ Staged(b)
    /\ session' = [session EXCEPT ![b].staged = NoPreview]
    /\ page' = WithoutPreview(page, b)

\* The process starts anew: no session, token or preview survives.
SessionsForgotten ==
    /\ session' = [b \in Browsers |-> NoSession]
    /\ page' = [s \in Slots |-> IF Shows(s)
                                THEN [page[s] EXCEPT !.live = FALSE, !.match = FALSE] ELSE NoPage]

-----------------------------------------------------------------------------
(* Pages.  issue_csrf_token returns the token of the session while it is   *)
(* valid, so all its pages that still have a live one share it (Bearers);  *)
(* consume_csrf_token ends it.                                             *)

Bearers(b) == {s \in Slots : Shows(s) /\ page[s].by = b /\ page[s].live}

Form(b, kind, base, pend) ==
    [kind |-> kind, by |-> b, base |-> base, pend |-> pend, file |-> "none",
     live |-> TRUE, match |-> FALSE, used |-> \E s \in Bearers(b) : page[s].used]

Rendered(s, form) == page' = [page EXCEPT ![s] = form]

Closed(s) ==
    /\ Shows(s)
    /\ page' = [page EXCEPT ![s] = NoPage]
    /\ UNCHANGED session

MayPost(s) == Shows(s) /\ session[page[s].by].in /\ page[s].live

ConsumedNever(b) == page

Consumed(b) == WithoutToken({b})

\* Logging out needs the token too.
LogsOut(s) == MayPost(s) /\ SessionEnds(page[s].by)

\* take_source_import: the staged preview, given out once and only for its id.
Takes(s) == page[s].match

\* stage_source_import: one preview in each session, a bounded number of them.
MayStage(b) ==
    Staged(b) \/ Cardinality({c \in Browsers : Staged(c)}) < MaxPreviews

StagedPage(pages, b, s, form) ==
    [WithoutPreview(pages, b) EXCEPT ![s] = [form EXCEPT !.match = TRUE]]
=============================================================================
