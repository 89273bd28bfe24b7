------------------------ MODULE Administration_proofs ------------------------
(***************************************************************************)
(* For any browsers, pages, features and bounds: a confirmed page writes   *)
(* what it showed, once, over the configuration its request decided on,    *)
(* and is answered truthfully; a damaged draft is contained, a cancelled   *)
(* audit stays cancelled and no start replaces a published configuration.  *)
(*                                                                         *)
(* A write happens several steps after the page was rendered, so the       *)
(* invariant follows the page: what a preview in a session says of the     *)
(* page that matches it (PagesTrue), what the turn of a request took from  *)
(* its page (TurnTrue), and what it decided on (DecisionTrue).             *)
(***************************************************************************)
EXTENDS Administration, TLAPS

Word    == {"none", "missing", "illegible", "a", "b", "unsupported", "invalid", "torn",
            "x", "y", "damaged", "published", "plain", "identified"}
Config  == [source : Word, draft : Word, owned : Word]

\* Pages with a form of their own; the request of such a page is of its kind.
Special == {"sources", "playlist", "identity", "draft", "repair"}
Kinds   == Special \cup {"ordinary"}
Ops     == Special \cup Edits \cup {"create", "activation", "audit", "cancel"}

Preview == [kind : Ops, base : Config, pend : BOOLEAN, file : Word]
Page    == [kind : Kinds, by : Browsers, base : Config, pend : BOOLEAN, file : Word,
            live : BOOLEAN, match : BOOLEAN, used : BOOLEAN]
Session == [in : BOOLEAN, staged : Preview \cup {NoPreview}, reviewed : BOOLEAN]

-----------------------------------------------------------------------------
(* Sessions and pages.                                                     *)

PageTypes ==
    /\ page \in [Slots -> Page \cup {NoPage}]
    /\ session \in [Browsers -> Session]

\* What the preview of a session is to the page that matches it.
Shown(p) == [kind |-> p.kind, base |-> p.base, pend |-> p.pend, file |-> p.file]

PageTrue(s) ==
    /\ page[s].used => ~page[s].live
    /\ page[s].match => /\ page[s].kind \in Previewed
                        /\ session[page[s].by].in
                        /\ session[page[s].by].staged = Shown(page[s])
    /\ page[s].kind = "draft" => page[s].base.draft \in Readable

PagesTrue == PageTypes /\ \A s \in Slots : Shows(s) => PageTrue(s)

-----------------------------------------------------------------------------
(* Requests.                                                               *)

RequestTypes ==
    request \in {Idle} \cup [at : {"loading", "inspected"}, op : Ops, slot : Slots,
                             bearers : SUBSET Slots, staged : Preview]
                       \cup [at : {"saving", "reading"}, op : Ops, slot : Slots,
                             bearers : SUBSET Slots, base : Config, next : Config]
                       \cup [at : {"answer"}, reply : {"saved", "intact", "uncertain"}]

\* The page of a request that may still write, and the others with its token:
\* the token is consumed, and no request with it has had an effect.
TurnTrue ==
    request.at \in {"loading", "inspected", "saving"} =>
        LET p == page[request.slot]
        IN  /\ request.slot \in request.bearers
            /\ \A r \in request.bearers : Shows(r) /\ ~page[r].live /\ ~page[r].used
            /\ p.kind \in Special => request.op = p.kind
            /\ request.op \in Special => p.kind = request.op

\* What the turn holds of its page until it decides.
TurnShown ==
    request.at \in {"loading", "inspected"} =>
        LET p == page[request.slot]
        IN  /\ request.op \in Special => request.staged.base = p.base
            /\ request.op \in Previewed => /\ request.staged.pend = p.pend
                                           /\ request.staged.file = p.file

DecisionTrue ==
    request.at = "saving" =>
        LET p == page[request.slot]
        IN  /\ expected = request.base
            /\ p.kind \in Previewed \cup {"identity"} =>
                   request.base = p.base /\ request.next = Promised(p)
            /\ p.kind \in Previewed => pending = p.pend
            /\ p.kind = "draft" => /\ request.base.draft = p.base.draft
                                   /\ request.next.draft = Promised(p).draft
            /\ (request.base.draft \in Damaged /\ request.next.draft # request.base.draft) =>
                   /\ p.kind = "repair" /\ request.next.draft = "none"
                   /\ request.base.draft = "damaged" /\ ~pending

-----------------------------------------------------------------------------
StoreTypes == document \in Config /\ expected \in Config /\ pending \in BOOLEAN

Job == [status : {"none", "running", "succeeded", "failed", "cancelled"},
        at : {"none", "snapshot", "auditing", "publishing"}, done : Nat, cancel : BOOLEAN,
        result : {"none", "succeeded", "failed", "cancelled"}]

JobTrue ==
    /\ job \in Job
    /\ job.at # "none" <=> job.status = "running"
    /\ CancelHonoured

IInv ==
    /\ StoreTypes /\ PagesTrue /\ RequestTypes
    /\ TurnTrue /\ TurnShown /\ DecisionTrue
    /\ JobTrue
    /\ phase # "up" => request = Idle
    /\ published => authority
-----------------------------------------------------------------------------
(* What the edits of a configuration make of one.                          *)

LEMMA EditsTyped ==
    ASSUME NEW c \in Config,
           NEW op \in Edits \cup {"create", "draft", "identity"}
    PROVE  Edited(c, op) \in Config
<1> USE DEF Config, SourceUpdated, SourceCreated, SourceDeleted, DraftDiscarded,
        CoverSelected, DraftEdited, QuarantineDiscarded, IdentityPrepared, Flip, Word
<1>1. CASE op \in {"update", "create", "delete"}
  BY <1>1 DEF Edited
<1>2. CASE op \in {"discard", "cover", "draft"}
  BY <1>2 DEF Edited
<1>3. CASE op \in {"repair", "identity"}
  BY <1>3 DEF Edited
<1>4. QED
  BY <1>1, <1>2, <1>3 DEF Edits

LEMMA ImportsTyped ==
    ASSUME NEW c \in Config, NEW file \in Word
    PROVE  WithSource(c, file) \in Config /\ WithPlaylist(c, file) \in Config
BY DEF Config, Word, WithSource, WithPlaylist

-----------------------------------------------------------------------------
(* Sessions come and go, pages are opened and closed: what a page says of  *)
(* itself stays true.                                                      *)

LEMMA ShownPage ==
    ASSUME PageTypes
    PROVE  \A s \in Slots : Shows(s) <=> page[s] \in Page
BY DEF PageTypes, Shows, Page, NoPage, Kinds, Special

LEMMA EndedPage ==
    ASSUME NEW p \in Page
    PROVE  /\ [p EXCEPT !.live = FALSE] \in Page
           /\ [p EXCEPT !.match = FALSE] \in Page
           /\ [p EXCEPT !.live = FALSE, !.match = FALSE] \in Page
           /\ [p EXCEPT !.used = TRUE] \in Page
BY DEF Page

LEMMA LoginKeepsPages ==
    ASSUME PagesTrue, NEW b \in Browsers, LogsIn(b)
    PROVE  PagesTrue'
<1> USE DEF PagesTrue, PageTypes
<1>1. PageTypes'
  BY DEF LogsIn, NoSession, Session
<1>2. ASSUME NEW s \in Slots, Shows(s)' PROVE PageTrue(s)'
  <2>1. page[s].by # b => session'[page[s].by] = session[page[s].by]
    BY <1>2, ShownPage DEF LogsIn, Shows, Page
  <2>2. QED
    BY <1>2, <2>1 DEF LogsIn, Shows, PageTrue, Shown
<1>3. QED
  BY <1>1, <1>2

\* The end of a session, a logout or a restart: for the browsers in bs.
LEMMA EndingKeepsPages ==
    ASSUME PagesTrue, NEW bs \in SUBSET Browsers,
           session' = [b \in Browsers |-> IF b \in bs THEN NoSession ELSE session[b]],
           page' = [s \in Slots |-> IF Shows(s) /\ page[s].by \in bs
                                    THEN [page[s] EXCEPT !.live = FALSE, !.match = FALSE]
                                    ELSE page[s]]
    PROVE  PagesTrue'
<1> USE DEF PagesTrue, PageTypes
<1>1. session' \in [Browsers -> Session]
  BY DEF NoSession, Session
<1>2. page' \in [Slots -> Page \cup {NoPage}]
  BY ShownPage, EndedPage
<1>3. ASSUME NEW s \in Slots, Shows(s)' PROVE PageTrue(s)'
  <2>1. Shows(s) /\ page[s] \in Page
    <3>1. CASE Shows(s)
      BY <3>1, ShownPage
    <3>2. CASE ~Shows(s)
      BY <1>3, <3>2 DEF Shows
    <3>3. QED
      BY <3>1, <3>2
  <2>2. CASE page[s].by \in bs
    BY <2>1, <2>2 DEF PageTrue, Page
  <2>3. CASE page[s].by \notin bs
    <3>1. page'[s] = page[s] /\ session'[page[s].by] = session[page[s].by]
      BY <2>1, <2>3 DEF Page
    <3>2. PageTrue(s)
      BY <2>1
    <3>3. QED
      BY <3>1, <3>2 DEF PageTrue, Shown
  <2>4. QED
    BY <2>2, <2>3
<1>4. QED
  BY <1>1, <1>2, <1>3

LEMMA SessionEndKeepsPages ==
    ASSUME PagesTrue, NEW b \in Browsers, SessionEnds(b)
    PROVE  PagesTrue'
<1> USE DEF PagesTrue, PageTypes, SessionEnds
<1>1. page' = [s \in Slots |-> IF Shows(s) /\ page[s].by \in {b}
                                THEN [page[s] EXCEPT !.live = FALSE, !.match = FALSE]
                                ELSE page[s]]
  <2>1. ASSUME NEW s \in Slots
        PROVE  page'[s] = IF Shows(s) /\ page[s].by \in {b}
                          THEN [page[s] EXCEPT !.live = FALSE, !.match = FALSE]
                          ELSE page[s]
    <3>1. CASE Shows(s)
      BY <3>1, ShownPage DEF WithoutPreview, WithoutToken, Shows, Page
    <3>2. CASE ~Shows(s)
      BY <3>2 DEF WithoutPreview, WithoutToken, Shows
    <3>3. QED
      BY <3>1, <3>2
  <2>2. QED
    BY <2>1 DEF WithoutPreview
<1>2. session' = [c \in Browsers |-> IF c \in {b} THEN NoSession ELSE session[c]]
  OBVIOUS
<1>3. QED
  BY <1>1, <1>2, EndingKeepsPages, {b} \in SUBSET Browsers

LEMMA RestartKeepsPages ==
    ASSUME PagesTrue, SessionsForgotten
    PROVE  PagesTrue'
<1> USE DEF PagesTrue, PageTypes, SessionsForgotten
<1>1. page' = [s \in Slots |-> IF Shows(s) /\ page[s].by \in Browsers
                                THEN [page[s] EXCEPT !.live = FALSE, !.match = FALSE]
                                ELSE page[s]]
  <2>1. ASSUME NEW s \in Slots
        PROVE  page'[s] = IF Shows(s) /\ page[s].by \in Browsers
                          THEN [page[s] EXCEPT !.live = FALSE, !.match = FALSE]
                          ELSE page[s]
    <3>1. CASE Shows(s)
      BY <3>1, ShownPage DEF Page
    <3>2. CASE ~Shows(s)
      BY <3>2, ShownPage
    <3>3. QED
      BY <3>1, <3>2
  <2>2. QED
    BY <2>1
<1>2. QED
  BY <1>1, EndingKeepsPages, Browsers \in SUBSET Browsers

LEMMA TokenEndKeepsPages ==
    ASSUME PagesTrue, NEW b \in Browsers, page' = WithoutToken({b}),
           session' \in [Browsers -> Session],
           \A c \in Browsers : /\ session'[c].staged = session[c].staged
                              /\ session'[c].in = session[c].in
    PROVE  /\ PagesTrue'
           /\ \A s \in Slots : Shows(s) =>
                /\ page'[s] \in {page[s], [page[s] EXCEPT !.live = FALSE]}
                /\ page[s].by = b => ~page'[s].live
<1> USE DEF PagesTrue, PageTypes, WithoutToken
<1>1. page' \in [Slots -> Page \cup {NoPage}]
  BY ShownPage, EndedPage
<1>2. \A s \in Slots : Shows(s) =>
         /\ page'[s] \in {page[s], [page[s] EXCEPT !.live = FALSE]}
         /\ page[s].by = b => ~page'[s].live
  BY ShownPage DEF Page
<1>3. ASSUME NEW s \in Slots, Shows(s)' PROVE PageTrue(s)'
  <2>1. Shows(s) /\ PageTrue(s) /\ page[s] \in Page
    BY <1>3, ShownPage DEF Shows
  <2>2. QED
    BY <1>2, <2>1 DEF PageTrue, Page, Shown
<1>4. QED
  BY <1>1, <1>2, <1>3

LEMMA PreviewEndKeepsPages ==
    ASSUME PagesTrue, NEW b \in Browsers, PreviewExpires(b)
    PROVE  PagesTrue'
<1> USE DEF PagesTrue, PageTypes, PreviewExpires, WithoutPreview
<1>1. page' \in [Slots -> Page \cup {NoPage}]
  BY ShownPage, EndedPage DEF Shows
<1>2. session' \in [Browsers -> Session]
  BY DEF Session
<1>3. ASSUME NEW s \in Slots, Shows(s)' PROVE PageTrue(s)'
  <2>1. Shows(s) /\ PageTrue(s) /\ page[s] \in Page
    BY <1>3, ShownPage DEF Shows
  <2>2. CASE page[s].by = b
    BY <2>1, <2>2 DEF PageTrue, Page, Shows
  <2>3. CASE page[s].by # b
    BY <2>1, <2>3 DEF PageTrue, Page, Shown
  <2>4. QED
    BY <2>2, <2>3
<1>4. QED
  BY <1>1, <1>2, <1>3

LEMMA ClosingKeepsPages ==
    ASSUME PagesTrue, NEW s \in Slots, Closed(s)
    PROVE  PagesTrue'
BY DEF PagesTrue, PageTypes, Closed, Shows, PageTrue, Shown, NoPage

\* The pages that still have the token of a new form have not used it.
LEMMA FormIsFresh ==
    ASSUME PagesTrue, NEW b \in Browsers, NEW kind, NEW base, NEW pend
    PROVE  Form(b, kind, base, pend) =
             [kind |-> kind, by |-> b, base |-> base, pend |-> pend, file |-> "none",
              live |-> TRUE, match |-> FALSE, used |-> FALSE]
<1>1. ~ \E s \in Bearers(b) : page[s].used
  BY DEF Bearers, PagesTrue, PageTrue
<1>2. QED
  BY <1>1 DEF Form

\* A page with a new form is opened.
LEMMA FormKeepsPages ==
    ASSUME PagesTrue, NEW s \in Slots, NEW b \in Browsers, NEW kind \in Kinds,
           NEW base \in Config, NEW pend \in BOOLEAN,
           kind = "draft" => base.draft \in Readable,
           Rendered(s, Form(b, kind, base, pend)), UNCHANGED session
    PROVE  PagesTrue'
<1> USE DEF PagesTrue, PageTypes, Rendered
<1>1. Form(b, kind, base, pend) \in Page /\ ~Form(b, kind, base, pend).used
      /\ ~Form(b, kind, base, pend).match /\ Form(b, kind, base, pend).base = base
      /\ Form(b, kind, base, pend).kind = kind
  <2>1. Form(b, kind, base, pend) =
          [kind |-> kind, by |-> b, base |-> base, pend |-> pend, file |-> "none",
           live |-> TRUE, match |-> FALSE, used |-> FALSE]
    BY FormIsFresh
  <2>2. QED
    BY <2>1 DEF Page, Word
<1>2. page' \in [Slots -> Page \cup {NoPage}]
  BY <1>1
<1>3. ASSUME NEW t \in Slots, Shows(t)' PROVE PageTrue(t)'
  <2>1. CASE t = s
    BY <1>1, <2>1 DEF PageTrue
  <2>2. CASE t # s
    BY <1>3, <2>2 DEF PageTrue, Shown, Shows
  <2>3. QED
    BY <2>1, <2>2
<1>4. QED
  BY <1>2, <1>3

\* A preview is staged, and shown in the place of the form it was made with.
LEMMA StagingKeepsPages ==
    ASSUME PagesTrue, NEW s \in Slots, NEW b \in Browsers, session[b].in,
           NEW kind \in Previewed, NEW base \in Config, NEW pend \in BOOLEAN, NEW file \in Word,
           page' = StagedPage(Consumed(b), b, s, [Form(b, kind, base, pend) EXCEPT !.file = file]),
           session' = [session EXCEPT ![b].staged =
                         [kind |-> kind, base |-> base, pend |-> pend, file |-> file]]
    PROVE  PagesTrue'
<1> USE DEF PagesTrue, PageTypes
<1> DEFINE shown  == [kind |-> kind, base |-> base, pend |-> pend, file |-> file]
           fresh  == [kind |-> kind, by |-> b, base |-> base, pend |-> pend, file |-> "none",
                      live |-> TRUE, match |-> FALSE, used |-> FALSE]
           staged == [[fresh EXCEPT !.file = file] EXCEPT !.match = TRUE]
<1>1. /\ shown \in Preview /\ staged \in Page
      /\ staged.kind = kind /\ staged.by = b /\ Shown(staged) = shown /\ ~staged.used
  BY DEF Preview, Page, Ops, Kinds, Special, Previewed, Shown
<1>2. session' \in [Browsers -> Session]
  BY <1>1 DEF Session
<1>3. /\ page'[s] = staged
      /\ \A t \in Slots \ {s} : page'[t] =
           IF Shows(t) /\ page[t].by = b
           THEN [page[t] EXCEPT !.live = FALSE, !.match = FALSE] ELSE page[t]
  <2>1. page'[s] = staged
    <3>1. Form(b, kind, base, pend) = fresh
      BY FormIsFresh
    <3>2. page'[s] = [[Form(b, kind, base, pend) EXCEPT !.file = file] EXCEPT !.match = TRUE]
      BY DEF StagedPage, WithoutPreview
    <3>3. QED
      BY <3>1, <3>2
  <2>2. ASSUME NEW t \in Slots \ {s}
        PROVE  page'[t] = IF Shows(t) /\ page[t].by = b
                          THEN [page[t] EXCEPT !.live = FALSE, !.match = FALSE] ELSE page[t]
    <3>1. CASE Shows(t)
      BY <3>1, ShownPage DEF StagedPage, Consumed, WithoutPreview, WithoutToken, Shows, Page
    <3>2. CASE ~Shows(t)
      BY <3>2 DEF StagedPage, Consumed, WithoutPreview, WithoutToken, Shows
    <3>3. QED
      BY <3>1, <3>2
  <2>3. QED
    BY <2>1, <2>2
<1> HIDE DEF staged, fresh
<1>4. page' \in [Slots -> Page \cup {NoPage}]
  <2>1. page' = [t \in Slots |-> page'[t]]
    BY DEF StagedPage, WithoutPreview
  <2>2. ASSUME NEW t \in Slots PROVE page'[t] \in Page \cup {NoPage}
    <3>1. CASE t = s
      BY <1>1, <1>3, <3>1
    <3>2. CASE t # s /\ Shows(t)
      BY <1>3, <3>2, ShownPage, EndedPage
    <3>3. CASE t # s /\ ~Shows(t)
      BY <1>3, <3>3
    <3>4. QED
      BY <3>1, <3>2, <3>3
  <2>3. QED
    BY <2>1, <2>2
<1>5. ASSUME NEW t \in Slots, Shows(t)' PROVE PageTrue(t)'
  <2>1. CASE t = s
    <3>1. session'[b].staged = shown /\ session'[b].in
      BY DEF Session
    <3>2. /\ staged.kind = kind /\ staged.by = b /\ Shown(staged) = shown
          /\ ~staged.used /\ kind # "draft"
      BY <1>1 DEF Previewed
    <3>3. /\ page'[t].kind = kind /\ page'[t].by = b /\ Shown(page'[t]) = shown
          /\ ~page'[t].used
      BY <1>3, <2>1, <3>2
    <3>4. QED
      BY <3>1, <3>2, <3>3 DEF PageTrue
  <2>2. CASE t # s
    <3>1. Shows(t) /\ PageTrue(t) /\ page[t] \in Page
      BY <1>3, <1>5, <2>2, ShownPage DEF Shows
    <3>2. CASE page[t].by = b
      BY <1>3, <2>2, <3>1, <3>2 DEF PageTrue, Page
    <3>3. CASE page[t].by # b
      <4>1. page'[t] = page[t] /\ session'[page[t].by] = session[page[t].by]
        BY <1>3, <2>2, <3>1, <3>3 DEF Page
      <4>2. QED
        BY <3>1, <4>1 DEF PageTrue, Shown
    <3>4. QED
      BY <3>2, <3>3
  <2>3. QED
    BY <2>1, <2>2
<1>6. QED
  BY <1>2, <1>4, <1>5

\* A staged preview is taken: nothing of its browser matches any more.
LEMMA TakingKeepsPages ==
    ASSUME PagesTrue, NEW b \in Browsers,
           session' = [session EXCEPT ![b].staged = NoPreview],
           page' = WithoutPreview(Consumed(b), b)
    PROVE  /\ PagesTrue'
           /\ \A s \in Slots : Shows(s) /\ page[s].by = b =>
                page'[s] = [page[s] EXCEPT !.live = FALSE, !.match = FALSE]
<1> USE DEF PagesTrue, PageTypes
<1>1. session' \in [Browsers -> Session]
  BY DEF Session
<1>2. ASSUME NEW t \in Slots
      PROVE  page'[t] = IF Shows(t) /\ page[t].by = b
                        THEN [page[t] EXCEPT !.live = FALSE, !.match = FALSE] ELSE page[t]
  <2>1. CASE Shows(t)
    BY <2>1, ShownPage DEF Consumed, WithoutPreview, WithoutToken, Shows, Page
  <2>2. CASE ~Shows(t)
    BY <2>2 DEF Consumed, WithoutPreview, WithoutToken, Shows
  <2>3. QED
    BY <2>1, <2>2
<1>3. page' \in [Slots -> Page \cup {NoPage}]
  <2>1. page' = [t \in Slots |-> page'[t]]
    BY DEF WithoutPreview
  <2>2. \A t \in Slots : page'[t] \in Page \cup {NoPage}
    BY <1>2, ShownPage, EndedPage
  <2>3. QED
    BY <2>1, <2>2
<1>4. ASSUME NEW t \in Slots, Shows(t)' PROVE PageTrue(t)'
  <2>1. Shows(t) /\ PageTrue(t) /\ page[t] \in Page
    BY <1>2, <1>4, ShownPage DEF Shows
  <2>2. CASE page[t].by = b
    BY <1>2, <2>1, <2>2 DEF PageTrue, Page
  <2>3. CASE page[t].by # b
    <3>1. page'[t] = page[t] /\ session'[page[t].by] = session[page[t].by]
      BY <1>2, <2>1, <2>3 DEF Page
    <3>2. QED
      BY <2>1, <3>1 DEF PageTrue, Shown
  <2>4. QED
    BY <2>2, <2>3
<1>5. QED
  BY <1>1, <1>2, <1>3, <1>4

-----------------------------------------------------------------------------
(* Steps that leave no request under way.                                  *)

LEMMA ConfigTyped ==
    /\ NoDocument \in Config /\ Illegible \in Config
    /\ \A d \in Word : [NoDocument EXCEPT !.draft = d] \in Config
BY DEF NoDocument, Illegible, Config, Word

LEMMA IdleStep ==
    ASSUME PagesTrue', StoreTypes', JobTrue', request' = Idle, published' => authority'
    PROVE  IInv'
BY DEF IInv, RequestTypes, TurnTrue, TurnShown, DecisionTrue, Idle

\* Neither the disk nor the audit changes, and the store may be loaded.
LEMMA QuietIdleStep ==
    ASSUME IInv, PagesTrue', Loaded \/ UNCHANGED expected,
           UNCHANGED <<document, authority, published, pending, job>>, request' = Idle
    PROVE  IInv'
<1>1. StoreTypes'
  BY DEF IInv, StoreTypes, Loaded
<1>2. JobTrue' /\ (published' => authority')
  BY DEF IInv, JobTrue, CancelHonoured
<1>3. QED
  BY <1>1, <1>2, IdleStep

LEMMA InitKeeps == Init => IInv
<1> SUFFICES ASSUME Init PROVE IInv
  OBVIOUS
<1>1. PagesTrue
  BY DEF Init, SessionsInit, PagesTrue, PageTypes, Session, NoSession, NoPage, Shows
<1>2. StoreTypes
  BY ConfigTyped DEF Init, StoreInit, StoreTypes
<1>3. JobTrue
  BY DEF Init, JobTrue, Job, NoJob, CancelHonoured
<1>4. QED
  BY <1>1, <1>2, <1>3 DEF Init, StoreInit, IInv, RequestTypes, TurnTrue, TurnShown, DecisionTrue, Idle

LEMMA StartStep ==
    ASSUME IInv, Start
    PROVE  IInv'
<1>1. phase # "up" /\ request = Idle /\ request' = Idle /\ UNCHANGED <<session, page, pending, job>>
  BY DEF Start, Open, OpenCut, Refused, Configured, Starting, sessions, IInv
<1>2. PagesTrue'
  BY <1>1 DEF IInv, PagesTrue, PageTypes, PageTrue, Shows
<1>3. JobTrue'
  BY <1>1 DEF IInv, JobTrue, CancelHonoured
<1>4. FirstDocument \in Config
  BY DEF FirstDocument, FreshDocument, MigratedDocument, MigratedDraft, Config, Word, Damaged
<1>5. StoreTypes' /\ (published' => authority')
  <2>1. CASE Open
    BY <1>1, <1>4, <2>1 DEF Open, OpenExisting, Initialized, IInv, StoreTypes
  <2>2. CASE OpenCut
    BY <1>1, <1>4, <2>2 DEF OpenCut, InitializationCut, MayInitialize, IInv, StoreTypes
  <2>3. CASE Refused
    BY <1>1, <2>3 DEF Refused, OpenRefused, IInv, StoreTypes, store, disk
  <2>4. CASE Configured
    BY <1>1, <2>4 DEF Configured, Loaded, Unloadable, DiskUnchanged, disk, IInv, StoreTypes
  <2>5. QED
    BY <2>1, <2>2, <2>3, <2>4 DEF Start
<1>6. QED
  BY <1>1, <1>2, <1>3, <1>5, IdleStep

LEMMA CrashStep ==
    ASSUME IInv, Crash
    PROVE  IInv'
<1>1. PagesTrue'
  BY RestartKeepsPages DEF IInv, Crash, Ends
<1>2. JobTrue'
  BY DEF Crash, Ends, JobTrue, Job, NoJob, CancelHonoured
<1>3. StoreTypes' /\ (published' => authority')
  BY DEF IInv, StoreTypes, Crash, store, disk
<1>4. QED
  BY <1>1, <1>2, <1>3, IdleStep DEF Crash, Ends

-----------------------------------------------------------------------------
(* Steps of the browsers.                                                  *)

LEMMA OpenedStep ==
    ASSUME IInv, NEW b \in Browsers, NEW s \in Slots, NEW kind \in Kinds, NEW base \in Config,
           kind = "draft" => base.draft \in Readable, Opened(b, s, kind, base)
    PROVE  IInv'
<1>1. PagesTrue'
  BY FormKeepsPages, FALSE \in BOOLEAN DEF IInv, Opened
<1>2. QED
  BY <1>1, QuietIdleStep DEF Opened, Browsing, Serving, DiskUnchanged, disk, IInv, RequestTypes, Idle

LEMMA BrowseStep ==
    ASSUME IInv, NEW b \in Browsers, Browse(b)
    PROVE  IInv'
<1> USE DEF Browsing, Serving, store, disk
<1>1. request.at = "idle" => request = Idle
  BY DEF IInv, RequestTypes, Idle
<1>2. CASE Login(b)
  BY <1>1, <1>2, LoginKeepsPages, QuietIdleStep DEF Login, IInv
<1>3. CASE SessionOver(b)
  BY <1>1, <1>3, SessionEndKeepsPages, QuietIdleStep DEF SessionOver, IInv
<1>4. CASE TokenOver(b)
  <2>1. PagesTrue'
    BY <1>4, TokenEndKeepsPages DEF TokenOver, TokenExpires, IInv, PagesTrue, PageTypes
  <2>2. QED
    BY <1>1, <1>4, <2>1, QuietIdleStep DEF TokenOver
<1>5. CASE PreviewOver(b)
  BY <1>1, <1>5, PreviewEndKeepsPages, QuietIdleStep DEF PreviewOver, IInv
<1>6. ASSUME NEW s \in Slots,
             \/ OpenOrdinary(b, s) \/ OpenSources(b, s) \/ OpenSourceForm(b, s) \/ OpenDeletion(b, s)
             \/ OpenRepair(b, s) \/ OpenDraft(b, s) \/ OpenIdentity(b, s)
      PROVE  IInv'
  <2>1. CASE Opened(b, s, "ordinary", NoDocument)
    BY <2>1, OpenedStep, ConfigTyped DEF Kinds
  <2>2. CASE OpenRepair(b, s) \/ OpenDraft(b, s)
    <3>1. document.draft \in Word
      BY DEF IInv, StoreTypes, Config
    <3>2. [NoDocument EXCEPT !.draft = document.draft].draft = document.draft
      BY DEF NoDocument
    <3>3. QED
      BY <2>2, <3>1, <3>2, OpenedStep, ConfigTyped DEF OpenRepair, OpenDraft, Kinds, Special
  <2>3. CASE OpenIdentity(b, s)
    BY <2>3, OpenedStep DEF OpenIdentity, Kinds, Special, IInv, StoreTypes
  <2>4. QED
    BY <1>6, <2>1, <2>2, <2>3 DEF OpenOrdinary, OpenSources, OpenSourceForm, OpenDeletion
<1>7. CASE ExportSources(b) \/ ExportPlaylist(b)
  <2>1. PagesTrue'
    BY <1>7 DEF ExportSources, ExportPlaylist, Exported, sessions, IInv, PagesTrue, PageTypes, PageTrue, Shows
  <2>2. QED
    BY <1>1, <1>7, <2>1, QuietIdleStep DEF ExportSources, ExportPlaylist, Exported, DiskUnchanged
<1>8. QED
  BY <1>2, <1>3, <1>4, <1>5, <1>6, <1>7 DEF Browse

-----------------------------------------------------------------------------
(* Steps of a page that is sent.  Its request starts with a consumed token *)
(* and with what the page, or the preview it matches, says.                *)

LEMMA SentPage ==
    ASSUME IInv, NEW s \in Slots, Serving, MayPost(s)
    PROVE  /\ request = Idle /\ Shows(s) /\ page[s] \in Page /\ page[s].by \in Browsers
           /\ page[s].live /\ ~page[s].used /\ PageTrue(s) /\ session[page[s].by].in
<1>1. Shows(s) /\ page[s] \in Page /\ PageTrue(s)
  BY ShownPage DEF IInv, PagesTrue, MayPost
<1>2. request = Idle
  BY DEF IInv, RequestTypes, Idle, Serving
<1>3. QED
  BY <1>1, <1>2 DEF MayPost, PageTrue, Page

\* Once the token of a browser has ended, none of the pages that had it has it
\* any more, nor has used it.
LEMMA BearersSpent ==
    ASSUME IInv, NEW s \in Slots, Serving, MayPost(s), PagesTrue',
           \A r \in Slots : Shows(r) /\ page[r].by = page[s].by =>
               page'[r] \in {page[r], [page[r] EXCEPT !.live = FALSE],
                              [page[r] EXCEPT !.live = FALSE, !.match = FALSE]},
           \A r \in Slots : Shows(r) /\ page[r].by = page[s].by => ~page'[r].live
    PROVE  /\ s \in Bearers(page[s].by) /\ Bearers(page[s].by) \in SUBSET Slots
           /\ \A r \in Bearers(page[s].by) : Shows(r)' /\ ~page'[r].live /\ ~page'[r].used
<1>1. s \in Bearers(page[s].by) /\ Bearers(page[s].by) \in SUBSET Slots
  BY SentPage DEF Bearers
<1>2. ASSUME NEW r \in Bearers(page[s].by)
      PROVE  Shows(r)' /\ ~page'[r].live /\ ~page'[r].used
  <2>1. r \in Slots /\ Shows(r) /\ page[r] \in Page /\ page[r].by = page[s].by /\ ~page[r].used
    BY ShownPage DEF Bearers, IInv, PagesTrue, PageTrue
  <2>2. ~page'[r].live /\ page'[r].used = page[r].used /\ page'[r].kind = page[r].kind
    BY <2>1 DEF Page
  <2>3. QED
    BY <2>1, <2>2 DEF Shows
<1>3. QED
  BY <1>1, <1>2

LEMMA SubmittedStep ==
    ASSUME IInv, NEW s \in Slots, NEW kind \in Kinds, NEW op, NEW accepted \in BOOLEAN,
           accepted => /\ op \in Ops /\ op \notin Previewed
                       /\ kind \in Special => op = kind
                       /\ op \in Special => kind = op,
           Submitted(s, kind, op, accepted)
    PROVE  IInv'
<1> DEFINE b == page[s].by
<1>1. /\ request = Idle /\ Shows(s) /\ page[s] \in Page /\ b \in Browsers
      /\ page[s].live /\ ~page[s].used /\ page[s].kind = kind
  BY SentPage DEF Submitted
<1>2. page' = WithoutToken({b}) /\ session' = session
  BY DEF Submitted, Consumed
<1>3. /\ PagesTrue' /\ page'[s] \in {page[s], [page[s] EXCEPT !.live = FALSE]} /\ ~page'[s].live
  BY <1>1, <1>2, TokenEndKeepsPages DEF IInv, PagesTrue, PageTypes
<1>4. /\ ~page'[s].used /\ page'[s].kind = kind /\ Shows(s)'
      /\ page'[s].base = page[s].base /\ page'[s].pend = page[s].pend
  BY <1>1, <1>3 DEF Page, Shows
<1>5. /\ StoreTypes' /\ JobTrue' /\ (published' => authority') /\ phase' = "up"
  BY DEF Submitted, Serving, store, disk, IInv, StoreTypes, JobTrue, CancelHonoured
<1>6. /\ s \in Bearers(b) /\ Bearers(b) \in SUBSET Slots
      /\ \A r \in Bearers(b) : Shows(r)' /\ ~page'[r].live /\ ~page'[r].used
  <2>1. \A r \in Slots : Shows(r) => /\ page'[r] \in {page[r], [page[r] EXCEPT !.live = FALSE]}
                                     /\ page[r].by = b => ~page'[r].live
    BY <1>1, <1>2, TokenEndKeepsPages DEF IInv, PagesTrue, PageTypes
  <2>2. Serving /\ MayPost(s)
    BY DEF Submitted
  <2>3. QED
    BY <1>3, <2>1, <2>2, BearersSpent
<1>7. CASE accepted
  <2>1. request' = [at |-> "loading", op |-> op, slot |-> s, bearers |-> Bearers(b),
                    staged |-> [kind |-> op, base |-> page[s].base, pend |-> page[s].pend,
                                file |-> "none"]]
    BY <1>7 DEF Submitted, Turn
  <2>2. [kind |-> op, base |-> page[s].base, pend |-> page[s].pend, file |-> "none"] \in Preview
    BY <1>1, <1>7 DEF Page, Preview, Word
  <2>3. RequestTypes'
    BY <1>7, <1>6, <2>1, <2>2 DEF RequestTypes
  <2>4. TurnTrue'
    BY <1>4, <1>7, <1>6, <2>1 DEF TurnTrue, Shows
  <2>5. TurnShown' /\ DecisionTrue'
    BY <1>4, <1>7, <2>1 DEF TurnShown, DecisionTrue
  <2>6. QED
    BY <1>3, <1>5, <2>3, <2>4, <2>5 DEF IInv
<1>8. CASE ~accepted
  <2>1. request' = Idle
    BY <1>8 DEF Submitted
  <2>2. QED
    BY <1>3, <1>5, <2>1, IdleStep
<1>9. QED
  BY <1>7, <1>8

LEMMA InspectionStep ==
    ASSUME IInv, NEW s \in Slots, Inspect(s) \/ InspectInstalled(s)
    PROVE  IInv'
<1> DEFINE b == page[s].by
<1>1. request = Idle /\ b \in Browsers
  BY SentPage DEF Inspect, InspectInstalled
<1>2. page' = WithoutToken({b}) /\ \E r \in BOOLEAN : session' = [session EXCEPT ![b].reviewed = r]
  BY DEF Inspect, InspectInstalled, Consumed, MayCreate, Suitable
<1>3. /\ session' \in [Browsers -> Session]
      /\ \A c \in Browsers : /\ session'[c].staged = session[c].staged
                             /\ session'[c].in = session[c].in
  BY <1>1, <1>2 DEF IInv, PagesTrue, PageTypes, Session
<1>4. PagesTrue'
  BY <1>1, <1>2, <1>3, TokenEndKeepsPages DEF IInv
<1>5. (Loaded \/ UNCHANGED expected) /\ UNCHANGED <<document, authority, published, pending, job>>
      /\ request' = Idle
  BY <1>1 DEF Inspect, InspectInstalled, Unloadable, DiskUnchanged, disk
<1>6. QED
  BY <1>4, <1>5, QuietIdleStep

LEMMA UploadedStep ==
    ASSUME IInv, NEW s \in Slots, NEW kind \in Previewed, NEW file \in Word,
           NEW understood \in BOOLEAN, Uploaded(s, kind, file, understood)
    PROVE  IInv'
<1> DEFINE b == page[s].by
<1>1. request = Idle /\ b \in Browsers /\ session[b].in
  BY SentPage DEF Uploaded
<1>2. PagesTrue'
  <2>1. CASE understood /\ Legible(document) /\ MayStage(b)
    <3>1. document \in Config /\ pending \in BOOLEAN
      BY DEF IInv, StoreTypes
    <3>2. QED
      BY <1>1, <2>1, <3>1, StagingKeepsPages DEF Uploaded, IInv
  <2>2. CASE ~(understood /\ Legible(document) /\ MayStage(b))
    BY <1>1, <2>2, TokenEndKeepsPages DEF Uploaded, Consumed, IInv, PagesTrue, PageTypes
  <2>3. QED
    BY <2>1, <2>2
<1>3. (Loaded \/ UNCHANGED expected) /\ UNCHANGED <<document, authority, published, pending, job>>
      /\ request' = Idle
  BY <1>1 DEF Uploaded, Unloadable, DiskUnchanged, disk
<1>4. QED
  BY <1>2, <1>3, QuietIdleStep

LEMMA ConfirmedStep ==
    ASSUME IInv, NEW s \in Slots, NEW kind \in Previewed, Confirmed(s, kind)
    PROVE  IInv'
<1> DEFINE b == page[s].by
<1>1. /\ request = Idle /\ Shows(s) /\ page[s] \in Page /\ b \in Browsers
      /\ page[s].live /\ ~page[s].used /\ PageTrue(s) /\ page[s].kind = kind
  BY SentPage DEF Confirmed
<1>2. StoreTypes' /\ JobTrue' /\ (published' => authority') /\ phase' = "up"
  BY DEF Confirmed, Serving, store, disk, IInv, StoreTypes, JobTrue, CancelHonoured
<1>3. CASE /\ Takes(s)
           /\ session' = [session EXCEPT ![b].staged = NoPreview]
           /\ page' = WithoutPreview(Consumed(b), b)
           /\ request' \in {Turn(kind, s, session[b].staged), Idle}
  <2>1. PagesTrue' /\ page'[s] = [page[s] EXCEPT !.live = FALSE, !.match = FALSE]
    BY <1>1, <1>3, TakingKeepsPages DEF IInv
  <2>2. session[b].staged = Shown(page[s])
    BY <1>1, <1>3 DEF Takes, PageTrue
  <2>3. Shown(page[s]) \in Preview
    BY <1>1 DEF Shown, Preview, Page, Previewed, Ops, Special
  <2>4. CASE request' = Idle
    BY <1>2, <2>1, <2>4, IdleStep
  <2>5. CASE request' = Turn(kind, s, session[b].staged)
    <3>1. /\ s \in Bearers(b) /\ Bearers(b) \in SUBSET Slots
          /\ \A r \in Bearers(b) : Shows(r)' /\ ~page'[r].live /\ ~page'[r].used
      <4>1. \A r \in Slots : Shows(r) /\ page[r].by = b =>
               page'[r] = [page[r] EXCEPT !.live = FALSE, !.match = FALSE]
        BY <1>1, <1>3, TakingKeepsPages DEF IInv
      <4>2. \A r \in Slots : Shows(r) /\ page[r].by = b => ~page'[r].live
        BY <4>1, ShownPage DEF Page, IInv, PagesTrue
      <4>3. Serving /\ MayPost(s)
        BY DEF Confirmed
      <4>4. QED
        BY <2>1, <4>1, <4>2, <4>3, BearersSpent
    <3>2. request' = [at |-> "loading", op |-> kind, slot |-> s, bearers |-> Bearers(b),
                      staged |-> Shown(page[s])]
      BY <2>2, <2>5 DEF Turn
    <3>3. RequestTypes'
      BY <2>3, <3>2, <3>1 DEF RequestTypes, Ops, Special, Previewed
    <3>4. /\ ~page'[s].live /\ ~page'[s].used /\ page'[s].kind = kind /\ Shows(s)'
          /\ page'[s].base = page[s].base /\ page'[s].pend = page[s].pend
          /\ page'[s].file = page[s].file
      BY <1>1, <2>1 DEF Page, Shows, Previewed
    <3>5. TurnTrue'
      BY <3>2, <3>4, <3>1 DEF TurnTrue, Shows
    <3>6. TurnShown' /\ DecisionTrue'
      BY <3>2, <3>4 DEF TurnShown, DecisionTrue, Shown
    <3>7. QED
      BY <1>2, <2>1, <3>3, <3>5, <3>6 DEF IInv
  <2>6. QED
    BY <1>3, <2>4, <2>5
<1>4. CASE page' = Consumed(b) /\ UNCHANGED <<session, request>>
  <2>1. PagesTrue'
    BY <1>1, <1>4, TokenEndKeepsPages DEF Consumed, IInv, PagesTrue, PageTypes
  <2>2. QED
    BY <1>1, <1>2, <1>4, <2>1, IdleStep
<1>5. QED
  BY <1>3, <1>4 DEF Confirmed

LEMMA PostStep ==
    ASSUME IInv, NEW s \in Slots, Post(s)
    PROVE  IInv'
<1>1. CASE Logout(s)
  <2>1. request = Idle /\ page[s].by \in Browsers
    BY <1>1, SentPage DEF Logout, LogsOut, Browsing
  <2>2. PagesTrue'
    BY <1>1, <2>1, SessionEndKeepsPages DEF Logout, LogsOut, IInv
  <2>3. QED
    BY <1>1, <2>1, <2>2, QuietIdleStep DEF Logout, Browsing, store, disk
<1>2. CASE \/ SourceForm(s) \/ SourceDeletion(s) \/ PlaylistForm(s) \/ TemplateForm(s)
           \/ CoverForm(s) \/ AuditForm(s) \/ CancelForm(s) \/ SpotifyForm(s)
  <2>1. CASE SpotifyForm(s)
    BY <2>1, SubmittedStep, FALSE \in BOOLEAN DEF SpotifyForm, Kinds
  <2>2. CASE ~SpotifyForm(s)
    <3>1. \E op \in Ops \ Special : Submitted(s, "ordinary", op, TRUE)
      BY <1>2, <2>2 DEF SourceForm, SourceDeletion, PlaylistForm, TemplateForm, CoverForm,
                        AuditForm, CancelForm, Ops, Edits, Special
    <3>2. QED
      BY <3>1, SubmittedStep, TRUE \in BOOLEAN DEF Kinds, Special, Previewed
  <2>3. QED
    BY <2>1, <2>2
<1>3. CASE SourceCreation(s)
  <2>1. Serving /\ MayPost(s)
    BY <1>3 DEF SourceCreation, Submitted
  <2>2. session[page[s].by].reviewed \in BOOLEAN
    BY <2>1, SentPage DEF IInv, PagesTrue, PageTypes, Session
  <2>3. QED
    BY <1>3, <2>2, SubmittedStep DEF SourceCreation, Kinds, Special, Ops, Previewed
<1>4. CASE RepairForm(s) \/ DraftForm(s) \/ IdentityForm(s)
  BY <1>4, SubmittedStep DEF RepairForm, DraftForm, IdentityForm, Kinds, Special, Ops, Previewed
<1>5. CASE Inspect(s) \/ InspectInstalled(s)
  BY <1>5, InspectionStep
<1>6. CASE UploadSources(s) \/ UploadPlaylist(s)
  <2>1. \E kind \in Previewed, file \in Word, understood \in BOOLEAN :
           Uploaded(s, kind, file, understood)
    <3>1. CASE UploadSources(s)
      <4>1. PICK file \in Documents : Uploaded(s, "sources", file, SourcesUnderstood(file))
        BY <3>1 DEF UploadSources
      <4>2. file \in Word /\ SourcesUnderstood(file) \in BOOLEAN /\ "sources" \in Previewed
        BY DEF Documents, Word, SourcesUnderstood, Previewed
      <4>3. QED
        BY <4>1, <4>2
    <3>2. CASE UploadPlaylist(s)
      <4>1. PICK file \in {"a", "invalid", "torn"} :
                   Uploaded(s, "playlist", file, PackageUnderstood(file))
        BY <3>2 DEF UploadPlaylist
      <4>2. file \in Word /\ PackageUnderstood(file) \in BOOLEAN /\ "playlist" \in Previewed
        BY DEF Word, PackageUnderstood, Previewed
      <4>3. QED
        BY <4>1, <4>2
    <3>3. QED
      BY <1>6, <3>1, <3>2
  <2>2. QED
    BY <2>1, UploadedStep
<1>7. CASE ConfirmSources(s) \/ ConfirmPlaylist(s)
  BY <1>7, ConfirmedStep DEF ConfirmSources, ConfirmPlaylist, Previewed
<1>8. QED
  BY <1>1, <1>2, <1>3, <1>4, <1>5, <1>6, <1>7 DEF Post

-----------------------------------------------------------------------------
(* Steps that decide.                                                      *)

\* A request that ends without a write.
LEMMA EndingStep ==
    ASSUME IInv, Loaded \/ UNCHANGED expected, request' = Idle,
           UNCHANGED <<document, authority, published, pending, job, session, page>>
    PROVE  IInv'
<1>1. PagesTrue'
  BY DEF IInv, PagesTrue, PageTypes, PageTrue, Shows
<1>2. QED
  BY <1>1, QuietIdleStep

LEMMA DismissedStep ==
    ASSUME IInv, Loaded \/ Unloadable, DiskUnchanged, Unrelated, UNCHANGED sessions, Dismissed
    PROVE  IInv'
BY EndingStep DEF Unloadable, DiskUnchanged, disk, Unrelated, sessions, Dismissed

LEMMA ReinspectStep ==
    ASSUME IInv, Reinspect
    PROVE  IInv'
<1>1. CASE Dismissed
  BY <1>1, DismissedStep DEF Reinspect
<1>2. CASE request' = [request EXCEPT !.at = "inspected"]
  <2>1. /\ request \in [at : {"loading", "inspected"}, op : Ops, slot : Slots,
                       bearers : SUBSET Slots, staged : Preview]
        /\ request.at = "loading" /\ phase' = "up"
    BY DEF IInv, RequestTypes, Idle, Reinspect, Working, Unrelated
  <2>2. UNCHANGED <<session, page, document, authority, published, pending, job>> /\ Loaded
    BY DEF Reinspect, Unrelated, sessions, DiskUnchanged, disk
  <2>3. PagesTrue' /\ StoreTypes' /\ JobTrue' /\ (published' => authority')
    BY <2>2 DEF IInv, PagesTrue, PageTypes, PageTrue, Shows, StoreTypes, Loaded, JobTrue,
                CancelHonoured
  <2>4. RequestTypes'
    BY <1>2, <2>1 DEF RequestTypes
  <2>5. /\ request'.at = "inspected" /\ request'.op = request.op /\ request'.slot = request.slot
        /\ request'.staged = request.staged /\ request'.bearers = request.bearers
    BY <1>2, <2>1
  <2>6. TurnTrue' /\ TurnShown' /\ DecisionTrue'
    BY <2>1, <2>2, <2>5 DEF IInv, TurnTrue, TurnShown, DecisionTrue, Shows
  <2>7. QED
    BY <2>1, <2>3, <2>4, <2>6 DEF IInv
<1>3. QED
  BY <1>1, <1>2 DEF Reinspect, Dismissed

\* What a decision of kind op knows of its page.
LEMMA DecidingFacts ==
    ASSUME IInv, NEW op \in Ops, Deciding(op)
    PROVE  /\ request.slot \in Slots /\ page[request.slot] \in Page /\ request.op = op
           /\ Shows(request.slot) /\ ~page[request.slot].live /\ ~page[request.slot].used
           /\ request.slot \in request.bearers /\ request.bearers \in SUBSET Slots
           /\ \A r \in request.bearers : Shows(r) /\ ~page[r].live /\ ~page[r].used
           /\ IF op \in Special THEN page[request.slot].kind = op
                                ELSE page[request.slot].kind = "ordinary"
           /\ op \in Special => request.staged.base = page[request.slot].base
           /\ op \in Previewed => /\ request.staged.pend = page[request.slot].pend
                                  /\ request.staged.file = page[request.slot].file
           /\ document \in Config /\ pending \in BOOLEAN
<1>1. /\ request \in [at : {"loading", "inspected"}, op : Ops, slot : Slots,
                     bearers : SUBSET Slots, staged : Preview]
      /\ request.at \in {"loading", "inspected"} /\ request.op = op
  BY DEF IInv, RequestTypes, Idle, Deciding, Working
<1>2. page[request.slot] \in Page /\ Shows(request.slot)
  BY <1>1, ShownPage DEF IInv, PagesTrue, TurnTrue
<1>3. page[request.slot].kind \in Kinds
  BY <1>2 DEF Page
<1>4. QED
  BY <1>1, <1>2, <1>3 DEF IInv, TurnTrue, TurnShown, Kinds, StoreTypes

\* A decision that is about to be saved, and says of its page what it should.
LEMMA DecidedStep ==
    ASSUME IInv, NEW op \in Ops, NEW next \in Config, Deciding(op), Decided(op, next),
           LET p == page[request.slot]
           IN  /\ p.kind \in Previewed \cup {"identity"} => document = p.base /\ next = Promised(p)
               /\ p.kind \in Previewed => pending = p.pend
               /\ p.kind = "draft" => /\ document.draft = p.base.draft
                                      /\ next.draft = Promised(p).draft
               /\ (document.draft \in Damaged /\ next.draft # document.draft) =>
                      /\ p.kind = "repair" /\ next.draft = "none"
                      /\ document.draft = "damaged" /\ ~pending
    PROVE  IInv'
<1>1. CASE next = document
  BY <1>1, DismissedStep DEF Deciding, Decided, Dismissed
<1>2. CASE next # document
  <2>1. request' = [at |-> "saving", op |-> op, slot |-> request.slot,
                    bearers |-> request.bearers, base |-> document, next |-> next]
    BY <1>2 DEF Decided
  <2>2. UNCHANGED <<session, page, document, authority, published, pending, job, phase>> /\ Loaded
    BY DEF Deciding, Unrelated, sessions, DiskUnchanged, disk
  <2>3. PagesTrue' /\ StoreTypes' /\ JobTrue' /\ (published' => authority') /\ phase' = "up"
    BY <2>2 DEF IInv, PagesTrue, PageTypes, PageTrue, Shows, StoreTypes, Loaded, JobTrue,
                CancelHonoured, Deciding, Working
  <2>4. RequestTypes'
    BY <2>1, DecidingFacts DEF RequestTypes
  <2>5. TurnTrue'
    BY <2>1, <2>2, DecidingFacts DEF TurnTrue, Shows, Special
  <2>6. TurnShown'
    BY <2>1 DEF TurnShown
  <2>7. DecisionTrue'
    BY <2>1, <2>2 DEF DecisionTrue, Loaded, Promised
  <2>8. QED
    BY <2>3, <2>4, <2>5, <2>6, <2>7 DEF IInv
<1>3. QED
  BY <1>1, <1>2

LEMMA DecideSourcesStep ==
    ASSUME IInv, DecideSources
    PROVE  IInv'
<1> DEFINE p == page[request.slot]
<1>1. Deciding("sources") /\ "sources" \in Ops
  BY DEF DecideSources, Ops, Special
<1>2. CASE Dismissed
  BY <1>1, <1>2, DismissedStep DEF Deciding
<1>3. CASE /\ SameAsShown(request.staged)
           /\ Decided("sources", WithSource(document, request.staged.file))
  <2>1. /\ p \in Page /\ p.kind = "sources" /\ document = p.base /\ pending = p.pend
        /\ request.staged.file = p.file /\ document \in Config
    BY <1>1, <1>3, DecidingFacts DEF SameAsShown, Special, Previewed
  <2>2. WithSource(document, p.file) \in Config
    BY <2>1, ImportsTyped DEF Page
  <2>3. WithSource(document, p.file) = Promised(p)
    BY <2>1 DEF Promised
  <2>4. WithSource(document, p.file).draft = document.draft
    BY <2>1 DEF WithSource, Config
  <2>5. QED
    BY <1>1, <1>3, <2>1, <2>2, <2>3, <2>4, DecidedStep
<1>4. QED
  BY <1>2, <1>3 DEF DecideSources

LEMMA DecidePlaylistStep ==
    ASSUME IInv, DecidePlaylist
    PROVE  IInv'
<1> DEFINE p == page[request.slot]
<1>1. Deciding("playlist") /\ "playlist" \in Ops
  BY DEF DecidePlaylist, Ops, Special
<1>2. CASE Dismissed
  BY <1>1, <1>2, DismissedStep DEF Deciding
<1>3. CASE /\ SameAsShown(request.staged) /\ ~Blocked(document)
           /\ Decided("playlist", WithPlaylist(document, request.staged.file))
  <2>1. /\ p \in Page /\ p.kind = "playlist" /\ document = p.base /\ pending = p.pend
        /\ request.staged.file = p.file /\ document \in Config
    BY <1>1, <1>3, DecidingFacts DEF SameAsShown, Special, Previewed
  <2>2. WithPlaylist(document, p.file) \in Config
    BY <2>1, ImportsTyped DEF Page
  <2>3. WithPlaylist(document, p.file) = Promised(p)
    BY <2>1 DEF Promised
  <2>4. document.draft \notin Damaged
    BY <1>3 DEF Blocked
  <2>5. QED
    BY <1>1, <1>3, <2>1, <2>2, <2>3, <2>4, DecidedStep
<1>4. QED
  BY <1>2, <1>3 DEF DecidePlaylist

LEMMA DecideIdentityStep ==
    ASSUME IInv, DecideIdentity
    PROVE  IInv'
<1> DEFINE p == page[request.slot]
<1>1. Deciding("identity") /\ "identity" \in Ops
  BY DEF DecideIdentity, Ops, Special
<1>2. CASE Dismissed
  BY <1>1, <1>2, DismissedStep DEF Deciding
<1>3. CASE document = request.staged.base /\ Decided("identity", IdentityPrepared(document))
  <2>1. p.kind = "identity" /\ document = p.base /\ document \in Config
    BY <1>1, <1>3, DecidingFacts DEF Special
  <2>2. Edited(document, "identity") = IdentityPrepared(document)
    BY DEF Edited
  <2>3. IdentityPrepared(document) \in Config /\ IdentityPrepared(document) = Promised(p)
    BY <2>1, <2>2, EditsTyped DEF Promised
  <2>4. IdentityPrepared(document).draft = document.draft
    BY <2>1 DEF IdentityPrepared, Config
  <2>5. QED
    BY <1>1, <1>3, <2>1, <2>3, <2>4, DecidedStep DEF Previewed
<1>4. QED
  BY <1>2, <1>3 DEF DecideIdentity

LEMMA DecideDraftStep ==
    ASSUME IInv, DecideDraft
    PROVE  IInv'
<1> DEFINE p == page[request.slot]
<1>1. Deciding("draft") /\ "draft" \in Ops
  BY DEF DecideDraft, Ops, Special
<1>2. CASE Dismissed
  BY <1>1, <1>2, DismissedStep DEF Deciding
<1>3. CASE /\ document.draft = request.staged.base.draft
           /\ Decided("draft", DraftEdited(document))
  <2>1. /\ p \in Page /\ p.kind = "draft" /\ Shows(request.slot) /\ request.slot \in Slots
        /\ document.draft = p.base.draft /\ document \in Config
    BY <1>1, <1>3, DecidingFacts DEF Special
  <2>2. p.base.draft \in Readable
    BY <2>1 DEF IInv, PagesTrue, PageTrue
  <2>3. /\ Edited(document, "draft") = DraftEdited(document)
        /\ Promised(p) = DraftEdited(p.base)
    BY <2>1 DEF Edited, Promised
  <2>4. DraftEdited(document) \in Config
    BY <2>1, <2>3, EditsTyped
  <2>5. DraftEdited(document).draft = Promised(p).draft
    BY <2>1, <2>3 DEF DraftEdited, Config, Page
  <2>6. document.draft \notin Damaged
    BY <2>1, <2>2 DEF Readable, Damaged
  <2>7. QED
    BY <1>1, <1>3, <2>1, <2>4, <2>5, <2>6, DecidedStep DEF Previewed
<1>4. QED
  BY <1>2, <1>3 DEF DecideDraft

LEMMA DecideEditStep ==
    ASSUME IInv, NEW op \in Edits \cup {"create"}, DecideEdit(op)
    PROVE  IInv'
<1> DEFINE p == page[request.slot]
<1>1. Deciding(op) /\ op \in Ops
  BY DEF DecideEdit, Ops
<1>2. CASE Dismissed
  BY <1>1, <1>2, DismissedStep DEF Deciding
<1>3. CASE Possible(document, op, pending) /\ Decided(op, Edited(document, op))
  <2>1. /\ IF op = "repair" THEN p.kind = "repair" ELSE p.kind = "ordinary"
        /\ document \in Config
    BY <1>1, DecidingFacts DEF Special, Edits
  <2>2. Edited(document, op) \in Config
    BY <2>1, EditsTyped
  <2>3. ASSUME document.draft \in Damaged, Edited(document, op).draft # document.draft
        PROVE  /\ op = "repair" /\ Edited(document, op).draft = "none"
               /\ document.draft = "damaged" /\ ~pending
    <3>1. CASE op \in {"update", "delete", "create"}
      BY <2>1, <2>3, <3>1 DEF Edited, SourceUpdated, SourceDeleted, SourceCreated, Config
    <3>2. CASE op \in {"discard", "cover"}
      BY <1>3, <2>3, <3>2 DEF Possible, MayDiscard, MayCover, Readable, Damaged
    <3>3. CASE op = "repair"
      BY <1>3, <2>1, <2>3, <3>3
         DEF Edited, Possible, MayDropDamaged, Suspended, QuarantineDiscarded, Damaged, Config
    <3>4. QED
      BY <3>1, <3>2, <3>3 DEF Edits
  <2>4. QED
    BY <1>1, <1>3, <2>1, <2>2, <2>3, DecidedStep DEF Previewed
<1>4. QED
  BY <1>2, <1>3 DEF DecideEdit

LEMMA DecideStep ==
    ASSUME IInv, Decide \/ LoadFails
    PROVE  IInv'
<1>1. CASE LoadFails
  BY <1>1, DismissedStep DEF LoadFails
<1>2. CASE Decide
  BY <1>2, DecideSourcesStep, DecidePlaylistStep, DecideIdentityStep, DecideDraftStep,
     DecideEditStep DEF Decide
<1>3. QED
  BY <1>1, <1>2

-----------------------------------------------------------------------------
(* Steps that save, read back and answer.                                  *)

LEMMA UsingKeepsPages ==
    ASSUME PagesTrue, NEW bearers \in SUBSET Slots,
           \A s \in bearers : Shows(s) /\ ~page[s].live,
           page' = [s \in Slots |-> IF s \in bearers THEN [page[s] EXCEPT !.used = TRUE]
                                    ELSE page[s]],
           session' \in [Browsers -> Session],
           \A c \in Browsers : /\ session'[c].staged = session[c].staged
                               /\ session'[c].in = session[c].in
    PROVE  PagesTrue'
<1> USE DEF PagesTrue, PageTypes
<1>1. \A s \in bearers : page[s] \in Page
  BY ShownPage
<1>2. page' \in [Slots -> Page \cup {NoPage}]
  BY <1>1, EndedPage
<1>3. ASSUME NEW t \in Slots, Shows(t)' PROVE PageTrue(t)'
  <2>1. Shows(t) /\ PageTrue(t) /\ page[t] \in Page
    BY <1>3, ShownPage DEF Shows
  <2>2. /\ page'[t].live = page[t].live /\ page'[t].match = page[t].match
        /\ page'[t].kind = page[t].kind /\ page'[t].by = page[t].by
        /\ page'[t].base = page[t].base /\ Shown(page'[t]) = Shown(page[t])
        /\ t \notin bearers => page'[t].used = page[t].used
    BY <2>1 DEF Page, Shown
  <2>3. page[t].by \in Browsers
    BY <2>1 DEF Page
  <2>4. QED
    BY <2>1, <2>2, <2>3 DEF PageTrue
<1>4. QED
  BY <1>2, <1>3

LEMMA ClosingStep ==
    ASSUME PagesTrue', StoreTypes', JobTrue', published' => authority', phase' = "up",
           RequestTypes', request'.at \in {"idle", "reading", "answer"}
    PROVE  IInv'
BY DEF IInv, TurnTrue, TurnShown, DecisionTrue

\* What a request that saves has of its page and its decision.
LEMMA SavingFacts ==
    ASSUME IInv, Working("saving")
    PROVE  /\ request \in [at : {"saving", "reading"}, op : Ops, slot : Slots,
                           bearers : SUBSET Slots, base : Config, next : Config]
           /\ request.slot \in request.bearers /\ request.bearers \in SUBSET Slots
           /\ \A r \in request.bearers : Shows(r) /\ ~page[r].live /\ ~page[r].used
           /\ Shows(request.slot) /\ page[request.slot] \in Page
           /\ ~page[request.slot].live /\ ~page[request.slot].used
           /\ page[request.slot].by \in Browsers
<1>1. request \in [at : {"saving", "reading"}, op : Ops, slot : Slots,
                  bearers : SUBSET Slots, base : Config, next : Config]
  BY DEF IInv, RequestTypes, Idle, Working
<1>2. /\ request.slot \in request.bearers
      /\ \A r \in request.bearers : Shows(r) /\ ~page[r].live /\ ~page[r].used
  BY DEF IInv, TurnTrue, Working
<1>3. page[request.slot] \in Page
  BY <1>1, <1>2, ShownPage DEF IInv, PagesTrue
<1>4. QED
  BY <1>1, <1>2, <1>3 DEF Page

LEMMA AfterFailureTypes ==
    ASSUME IInv, Working("saving"), AfterFailure
    PROVE  RequestTypes' /\ request'.at \in {"idle", "reading"}
<1>1. CASE request' = Idle
  BY <1>1 DEF RequestTypes, Idle
<1>2. CASE request' = [request EXCEPT !.at = "reading"]
  BY <1>2, SavingFacts DEF RequestTypes
<1>3. QED
  BY <1>1, <1>2 DEF AfterFailure, Dismissed

LEMMA SaveStep ==
    ASSUME IInv, Save \/ SaveFails \/ SaveUncertain
    PROVE  IInv'
<1> DEFINE s == request.slot
<1>1. Working("saving") /\ phase' = "up" /\ UNCHANGED <<job, pending, authority, published>>
  BY DEF Save, SaveFails, SaveUncertain, Working, UnrelatedToSave, Saved, SaveRefused, SaveLost,
         SaveLate, store, disk
<1>2. JobTrue' /\ (published' => authority')
  BY <1>1 DEF IInv, JobTrue, CancelHonoured
<1>3. StoreTypes'
  BY <1>1, SavingFacts DEF IInv, StoreTypes, Save, SaveFails, SaveUncertain, Saved, SaveRefused,
                           SaveLost, SaveLate, store, disk
<1>4. CASE Save
  <2>1. /\ session' \in [Browsers -> Session]
        /\ \A c \in Browsers : /\ session'[c].staged = session[c].staged
                               /\ session'[c].in = session[c].in
    <3>1. \E r \in BOOLEAN : session' = [session EXCEPT ![page[s].by].reviewed = r]
      <4>1. session[page[s].by].reviewed \in BOOLEAN
        BY <1>1, SavingFacts DEF IInv, PagesTrue, PageTypes, Session
      <4>2. QED
        BY <1>4, <4>1 DEF Save, Reviewed
    <3>2. QED
      BY <1>1, <3>1, SavingFacts DEF IInv, PagesTrue, PageTypes, Session
  <2>2. PagesTrue'
    BY <1>1, <1>4, <2>1, SavingFacts, UsingKeepsPages DEF IInv, Save, Used
  <2>3. RequestTypes' /\ request'.at = "answer"
    BY <1>4 DEF Save, Answered, RequestTypes
  <2>4. QED
    BY <1>1, <1>2, <1>3, <2>2, <2>3, ClosingStep
<1>5. CASE SaveFails
  <2>1. PagesTrue'
    BY <1>5 DEF SaveFails, sessions, IInv, PagesTrue, PageTypes, PageTrue, Shows
  <2>2. QED
    BY <1>1, <1>2, <1>3, <1>5, <2>1, AfterFailureTypes, ClosingStep DEF SaveFails
<1>6. CASE SaveUncertain
  <2>1. PagesTrue'
    BY <1>1, <1>6, SavingFacts, UsingKeepsPages
       DEF IInv, PagesTrue, PageTypes, SaveUncertain, Used
  <2>2. QED
    BY <1>1, <1>2, <1>3, <1>6, <2>1, AfterFailureTypes, ClosingStep DEF SaveUncertain
<1>7. QED
  BY <1>4, <1>5, <1>6

LEMMA AnswerStep ==
    ASSUME IInv, ReadBack \/ Respond
    PROVE  IInv'
<1>1. CASE Respond
  BY <1>1, EndingStep DEF Respond, Unrelated, store, disk, sessions
<1>2. CASE ReadBack
  <2>1. /\ phase' = "up" /\ UNCHANGED <<session, page, job, pending, document, authority, published>>
        /\ Loaded \/ UNCHANGED expected
    BY <1>2 DEF ReadBack, Working, Unrelated, sessions, Unloadable, DiskUnchanged, disk
  <2>2. PagesTrue' /\ StoreTypes' /\ JobTrue' /\ (published' => authority')
    BY <2>1 DEF IInv, PagesTrue, PageTypes, PageTrue, Shows, StoreTypes, Loaded, JobTrue,
                CancelHonoured
  <2>3. RequestTypes' /\ request'.at = "answer"
    BY <1>2 DEF ReadBack, Answered, Verdict, RequestTypes
  <2>4. QED
    BY <2>1, <2>2, <2>3, ClosingStep
<1>3. QED
  BY <1>1, <1>2

LEMMA ActivationStep ==
    ASSUME IInv, Activation \/ ActivationRefused
    PROVE  IInv'
<1>1. CASE ActivationRefused
  BY <1>1, EndingStep DEF ActivationRefused, Unloadable, DiskUnchanged, disk, Unrelated, sessions
<1>2. CASE Activation
  <2>1. /\ UNCHANGED <<session, page, job, document, authority, published>> /\ Loaded
        /\ pending' = ~pending /\ request' = Idle
    BY <1>2 DEF Activation, sessions, DiskUnchanged, disk
  <2>2. PagesTrue' /\ JobTrue' /\ (published' => authority')
    BY <2>1 DEF IInv, PagesTrue, PageTypes, PageTrue, Shows, JobTrue, CancelHonoured
  <2>3. StoreTypes'
    BY <2>1 DEF IInv, StoreTypes, Loaded
  <2>4. QED
    BY <2>1, <2>2, <2>3, IdleStep
<1>3. QED
  BY <1>1, <1>2

-----------------------------------------------------------------------------
(* Steps beside the request: the audit's worker, and what happens outside. *)

LEMMA BesideStep ==
    ASSUME IInv, UNCHANGED <<session, page, request, phase, pending>>,
           request.at = "saving" => expected' = expected,
           StoreTypes', JobTrue', published' => authority'
    PROVE  IInv'
<1>1. PagesTrue' /\ RequestTypes' /\ TurnTrue' /\ TurnShown'
  BY DEF IInv, PagesTrue, PageTypes, PageTrue, RequestTypes, TurnTrue, TurnShown, Shows
<1>2. DecisionTrue'
  BY DEF IInv, DecisionTrue, Promised
<1>3. QED
  BY <1>1, <1>2 DEF IInv

LEMMA AuditRequestStep ==
    ASSUME IInv, AuditStart \/ AuditCancel
    PROVE  IInv'
<1>1. /\ UNCHANGED <<session, page, document, expected, authority, published, pending>>
      /\ request' = Idle
  BY DEF AuditStart, AuditCancel, AuditRequest, sessions, store, disk
<1>2. PagesTrue' /\ StoreTypes' /\ (published' => authority')
  BY <1>1 DEF IInv, PagesTrue, PageTypes, PageTrue, Shows, StoreTypes
<1>3. JobTrue'
  <2>1. JobTrue
    BY DEF IInv
  <2>2. CASE job' = job
    BY <2>1, <2>2 DEF JobTrue, CancelHonoured
  <2>3. CASE job' = [NoJob EXCEPT !.status = "running", !.at = "snapshot"]
    BY <2>3 DEF JobTrue, Job, CancelHonoured, NoJob
  <2>4. CASE job.status = "running" /\ job' = [job EXCEPT !.cancel = TRUE]
    <3>1. job' \in Job /\ job'.status = "running" /\ job'.at = job.at
      BY <2>1, <2>4 DEF JobTrue, Job
    <3>2. QED
      BY <2>1, <2>4, <3>1 DEF JobTrue, CancelHonoured
  <2>5. QED
    BY <2>2, <2>3, <2>4 DEF AuditStart, AuditCancel
<1>4. QED
  BY <1>1, <1>2, <1>3, IdleStep

LEMMA WorkerStepKeeps ==
    ASSUME IInv, AuditSnapshot \/ AuditProgress \/ AuditBundled \/ AuditPublished \/ AuditExpires
    PROVE  IInv'
<1>1. UNCHANGED <<session, page, request, phase, pending, document, authority, published>>
  BY DEF AuditSnapshot, AuditProgress, AuditBundled, AuditPublished, AuditExpires, WorkerStep,
         sessions, store, disk, DiskUnchanged
<1>2. /\ request.at = "saving" => expected' = expected
      /\ expected' \in {expected, document}
  BY DEF AuditSnapshot, AuditProgress, AuditBundled, AuditPublished, AuditExpires, SnapshotFree,
         LockFree, Holding, Loaded, Unloadable, store, disk
<1>3. StoreTypes' /\ (published' => authority')
  BY <1>1, <1>2 DEF IInv, StoreTypes
<1>4. JobTrue'
  <2>1. job \in Job /\ JobTrue
    BY DEF IInv, JobTrue
  <2>2. CASE /\ job.status = "running" /\ job'.status = "running" /\ job'.cancel = job.cancel
             /\ job'.at # "none" /\ job' \in Job
    BY <2>1, <2>2 DEF JobTrue, CancelHonoured
  <2>3. ASSUME NEW result \in {"succeeded", "failed", "cancelled"}, AuditEnding(result),
               job.status = "running"
        PROVE  JobTrue'
    BY <2>1, <2>2, <2>3 DEF AuditEnding, Job
  <2>4. CASE AuditSnapshot
    <3>1. job.status = "running"
      BY <2>1, <2>4 DEF AuditSnapshot, Worker, JobTrue
    <3>2. CASE job' = [job EXCEPT !.at = "auditing"]
      BY <2>1, <2>2, <3>1, <3>2 DEF Job
    <3>3. QED
      BY <2>3, <2>4, <3>1, <3>2 DEF AuditSnapshot
  <2>5. CASE AuditProgress
    <3>1. job.status = "running" /\ job.at = "auditing"
      BY <2>1, <2>5 DEF AuditProgress, Worker, JobTrue
    <3>2. CASE job' = [job EXCEPT !.done = @ + 1]
      BY <2>1, <2>2, <3>1, <3>2 DEF Job
    <3>3. QED
      BY <2>3, <2>5, <3>1, <3>2 DEF AuditProgress
  <2>6. CASE AuditBundled
    <3>1. job.status = "running"
      BY <2>1, <2>6 DEF AuditBundled, Worker, JobTrue
    <3>2. QED
      BY <2>3, <2>6, <3>1 DEF AuditBundled
  <2>7. CASE AuditPublished
    <3>1. Conclusion # "running" /\ (job.cancel => Conclusion = "cancelled")
          /\ Conclusion \in {"none", "succeeded", "failed", "cancelled"}
      BY <2>1 DEF Conclusion, Job
    <3>2. /\ job' \in Job /\ job'.at = "none" /\ job'.status = Conclusion
          /\ job'.cancel = job.cancel
      BY <2>1, <2>7, <3>1 DEF AuditPublished, Job
    <3>3. QED
      BY <3>1, <3>2 DEF JobTrue, CancelHonoured
  <2>8. CASE AuditExpires
    BY <2>8 DEF AuditExpires, NoJob, JobTrue, Job, CancelHonoured
  <2>9. QED
    BY <2>4, <2>5, <2>6, <2>7, <2>8
<1>5. QED
  BY <1>1, <1>2, <1>3, <1>4, BesideStep

LEMMA OutsideStep ==
    ASSUME IInv, Loss \/ Elsewhere
    PROVE  IInv'
<1>1. UNCHANGED <<session, page, request, phase, pending, job, expected, authority, published>>
  BY DEF Loss, Elsewhere, Outside, DocumentLost, WrittenElsewhere, sessions
<1>2. document' \in Config
  <2>1. CASE Loss
    BY <2>1, ConfigTyped DEF Loss, DocumentLost
  <2>2. CASE Elsewhere
    BY <2>2, EditsTyped DEF Elsewhere, WrittenElsewhere, IInv, StoreTypes, Edits
  <2>3. QED
    BY <2>1, <2>2
<1>3. StoreTypes' /\ JobTrue' /\ (published' => authority')
  BY <1>1, <1>2 DEF IInv, StoreTypes, JobTrue, CancelHonoured
<1>4. QED
  BY <1>1, <1>3, BesideStep

-----------------------------------------------------------------------------
(* The invariant, and the theorems.                                        *)

LEMMA StutterStep ==
    ASSUME IInv, UNCHANGED vars
    PROVE  IInv'
<1>1. UNCHANGED <<session, page, request, phase, pending, job, expected, document, authority,
                  published>>
  BY DEF vars, sessions, store, disk
<1>2. StoreTypes' /\ JobTrue' /\ (published' => authority')
  BY <1>1 DEF IInv, StoreTypes, JobTrue, CancelHonoured
<1>3. QED
  BY <1>1, <1>2, BesideStep

LEMMA NextKeeps ==
    ASSUME IInv, [Next]_vars
    PROVE  IInv'
<1>1. CASE Start \/ Crash
  BY <1>1, StartStep, CrashStep
<1>2. CASE \E b \in Browsers : Browse(b)
  BY <1>2, BrowseStep
<1>3. ASSUME NEW s \in Slots, ClosePage(s) PROVE IInv'
  <2>1. PagesTrue'
    BY <1>3, ClosingKeepsPages DEF ClosePage, IInv
  <2>2. QED
    BY <1>3, <2>1, QuietIdleStep
       DEF ClosePage, Browsing, Serving, store, disk, IInv, RequestTypes, Idle
<1>4. CASE \E s \in Slots : Post(s)
  BY <1>4, PostStep
<1>5. CASE Reinspect \/ Decide \/ LoadFails
  BY <1>5, ReinspectStep, DecideStep
<1>6. CASE Finish
  BY <1>6, SaveStep, AnswerStep DEF Finish
<1>7. CASE Activation \/ ActivationRefused
  BY <1>7, ActivationStep
<1>8. CASE Audit
  BY <1>8, AuditRequestStep, WorkerStepKeeps DEF Audit
<1>9. CASE Loss \/ Elsewhere
  BY <1>9, OutsideStep
<1>10. CASE UNCHANGED vars
  BY <1>10, StutterStep
<1>11. QED
  BY <1>1, <1>2, <1>3, <1>4, <1>5, <1>6, <1>7, <1>8, <1>9, <1>10 DEF Next

LEMMA Invariant == Spec => []IInv
BY InitKeeps, NextKeeps, PTL DEF Spec

\* An audit the owner has cancelled while it ran never ends otherwise.
THEOREM CancellationHonoured == Spec => []CancelHonoured
<1>1. IInv => CancelHonoured
  BY DEF IInv, JobTrue
<1>2. QED
  BY <1>1, Invariant, PTL

\* A write replaces the very configuration its request decided on.
THEOREM NoUpdateLost == Spec => NoLostUpdate
<1>1. ASSUME IInv, Writes PROVE document = request.base
  BY <1>1 DEF IInv, DecisionTrue, Writes, Save, SaveUncertain, Saved, SaveLate, Accepted,
              SwapAllowed, Working
<1>2. QED
  BY <1>1, Invariant, PTL DEF NoLostUpdate

\* A token has at most one effect, however often it is sent and from whatever
\* page it came with.
THEOREM OneEffect == Spec => EffectOnce
<1>1. ASSUME IInv, Writes
      PROVE  request.slot \in request.bearers /\ \A s \in request.bearers : ~page[s].used
  BY <1>1, SavingFacts DEF Writes, Save, SaveUncertain
<1>2. ASSUME IInv, Writes, NEW s \in Slots, Shows(s), page'[s].used PROVE ~page'[s].live
  <2>1. page[s] \in Page /\ PageTrue(s)
    BY <1>2, ShownPage DEF IInv, PagesTrue
  <2>2. page'[s] = IF s \in request.bearers THEN [page[s] EXCEPT !.used = TRUE] ELSE page[s]
    BY <1>2 DEF Writes, Save, SaveUncertain, Used
  <2>3. CASE s \in request.bearers
    <3>1. ~page[s].live
      BY <1>2, <2>3, SavingFacts DEF Writes, Save, SaveUncertain
    <3>2. QED
      BY <2>1, <2>2, <2>3, <3>1 DEF Page
  <2>4. CASE s \notin request.bearers
    BY <1>2, <2>1, <2>2, <2>4 DEF PageTrue
  <2>5. QED
    BY <2>3, <2>4
<1>3. ASSUME IInv, Writes
      PROVE  /\ request.slot \in request.bearers
             /\ \A s \in request.bearers : ~page[s].used
             /\ \A s \in Slots : Shows(s) /\ page'[s].used => ~page'[s].live
  BY <1>1, <1>2, <1>3
<1>4. QED
  BY <1>3, Invariant, PTL DEF EffectOnce

\* Once a configuration was published, no start makes another first one.
THEOREM FirstOnlyOnce == Spec => NoFallback
<1>1. ASSUME IInv, Open, document' # document PROVE ~published
  BY <1>1 DEF IInv, Open, OpenExisting, Initialized, MayInitialize
<1>2. QED
  BY <1>1, Invariant, PTL DEF NoFallback

LEMMA WriteFacts ==
    ASSUME IInv, Writes
    PROVE  /\ document = request.base /\ document' = request.next
           /\ request.at = "saving" /\ DecisionTrue
BY DEF IInv, DecisionTrue, Writes, Save, SaveUncertain, Saved, SaveLate, Accepted, SwapAllowed,
       Working

\* What a confirmed page writes is what it showed, on what it was shown for.
THEOREM ShownIsApplied == Spec => AppliedAsShown
<1> DEFINE p == page[request.slot]
<1>1. ASSUME IInv, Writes
      PROVE  /\ p.kind \in Previewed \cup {"identity"} => document = p.base /\ document' = Promised(p)
             /\ p.kind \in Previewed => pending = p.pend
             /\ p.kind = "draft" =>
                    document.draft = p.base.draft /\ document'.draft = Promised(p).draft
  BY <1>1, WriteFacts DEF DecisionTrue
<1>2. QED
  BY <1>1, Invariant, PTL DEF AppliedAsShown

\* A damaged draft goes with its own confirmed repair only.
THEOREM DamageStaysContained == Spec => DamageContained
<1>1. ASSUME IInv, Writes, document.draft \in Damaged, document'.draft # document.draft
      PROVE  /\ page[request.slot].kind = "repair" /\ document'.draft = "none"
             /\ document.draft = "damaged" /\ ~pending
  BY <1>1, WriteFacts DEF DecisionTrue
<1>2. QED
  BY <1>1, Invariant, PTL DEF DamageContained

\* What an import or an identity reports is what it leaves in the file.
THEOREM RepliesTruthful == Spec => ReplyTruthful
<1> DEFINE Truthful == /\ request'.reply = "saved" => document' = request.next
                       /\ request'.reply = "intact" => document' = request.base
<1>1. ASSUME IInv, Next, Holding, request'.at = "answer" PROVE Truthful
  <2>1. request.at \in {"saving", "reading"} /\ request' # request /\ request'.at = "answer"
    BY <1>1 DEF Holding
  <2>2. Save \/ ReadBack
    <3>1. ~Start
      BY <2>1 DEF Start, Open, OpenCut, Refused, Configured, Starting
    <3>2. ~Crash /\ ~Loss /\ ~Elsewhere
      BY <2>1 DEF Crash, Ends, Loss, Elsewhere, Outside, Idle
    <3>3. \A b \in Browsers : ~Browse(b)
      BY <2>1 DEF Browse, Login, SessionOver, TokenOver, PreviewOver, OpenOrdinary, OpenSources,
                  OpenSourceForm, OpenDeletion, OpenRepair, OpenDraft, OpenIdentity, Opened,
                  ExportSources, ExportPlaylist, Exported, Browsing
    <3>4. \A s \in Slots : ~ClosePage(s) /\ ~Post(s)
      <4>1. ~Serving
        BY <2>1 DEF Serving
      <4>2. QED
        BY <4>1 DEF ClosePage, Post, Logout, Browsing, SpotifyForm, SourceForm, SourceDeletion,
                    SourceCreation, PlaylistForm, TemplateForm, CoverForm, RepairForm, DraftForm,
                    IdentityForm, AuditForm, CancelForm, Submitted, Inspect, InspectInstalled,
                    UploadSources, UploadPlaylist, Uploaded, ConfirmSources, ConfirmPlaylist,
                    Confirmed
    <3>5. ~Reinspect /\ ~Decide /\ ~LoadFails
      BY <2>1 DEF Reinspect, Decide, DecideSources, DecidePlaylist, DecideIdentity, DecideDraft,
                  DecideEdit, Deciding, LoadFails, Working
    <3>6. ~Activation /\ ~ActivationRefused /\ ~Audit
      BY <2>1 DEF Activation, ActivationRefused, Working, Audit, AuditStart, AuditCancel,
                  AuditRequest, AuditSnapshot, AuditProgress, AuditBundled, AuditPublished,
                  AuditExpires, WorkerStep
    <3>7. ~SaveFails /\ ~SaveUncertain /\ ~Respond
      <4>1. AfterFailure /\ Working("saving") => request'.at # "answer"
        BY <1>1, AfterFailureTypes
      <4>2. QED
        BY <2>1, <4>1 DEF SaveFails, SaveUncertain, Respond, Working
    <3>8. QED
      BY <1>1, <3>1, <3>2, <3>3, <3>4, <3>5, <3>6, <3>7 DEF Next, Finish
  <2>3. CASE Save
    BY <2>3 DEF Save, Saved, Answered
  <2>4. CASE ReadBack
    <3>1. document' = document
      BY <2>4 DEF ReadBack, DiskUnchanged, disk
    <3>2. request'.reply \in {Verdict(document), "uncertain"}
      BY <2>4 DEF ReadBack, Answered
    <3>3. QED
      BY <3>1, <3>2 DEF Verdict
  <2>5. QED
    BY <2>2, <2>3, <2>4
<1>2. ASSUME IInv, [Next]_vars, Holding /\ request'.at = "answer" PROVE Truthful \/ UNCHANGED vars
  BY <1>1, <1>2
<1>3. QED
  BY <1>2, Invariant, PTL DEF Spec, ReplyTruthful
=============================================================================
