---------------------------- MODULE SidebarStore ----------------------------
(***************************************************************************)
(* lib/sidebar/store.ts with reconcile.ts and the backend of                *)
(* gaSidebarBackend.ts: a list of conversations kept from pages the server  *)
(* computed earlier, hints that each fetch one conversation, and changes    *)
(* made before the server has confirmed them.  A conversation is a number,  *)
(* its id; the time is the number of things that have happened.  The row of *)
(* a listed conversation is its row in byId.                               *)
(***************************************************************************)
EXTENDS Integers, Sequences, FiniteSets

CONSTANTS
  Conv,            \* conversations
  Scope,           \* workspaces
  ScopeOf,         \* [Conv -> Scope]: a conversation's cwd
  LastUsed,        \* [Conv -> Int]: updatedAt of the sessions that exist at first
  PageSize,
  Renamable, Pinnable, Draftable, Deletable, Runnable, \* what may happen to which conversation
  Stamps,          \* whether the bridge counts a rename or a pin as an update
  MaxTitle, MaxChanges, \* bounds: titles, and what users, sessions and the network do to them
  None, Failed

ASSUME SidebarAssumption ==
  /\ Conv \subseteq Nat /\ IsFiniteSet(Conv) /\ PageSize \in Nat \ {0}
  /\ ScopeOf \in [Conv -> Scope] /\ None \notin Scope
  /\ LastUsed \in [Conv -> Int] /\ \A c \in Conv : LastUsed[c] <= 0
  /\ Renamable \cup Pinnable \cup Draftable \cup Deletable \cup Runnable \subseteq Conv
  /\ {MaxTitle, MaxChanges} \subseteq Nat /\ Stamps \in BOOLEAN

Row == [title : 0 .. MaxTitle, pinned : BOOLEAN, draft : BOOLEAN, at : Int]
Rows(S) == UNION {[D -> Row] : D \in SUBSET S}
New(now) == [title |-> 0, pinned |-> FALSE, draft |-> FALSE, at |-> now]

VARIABLES
  server,    \* the sessions of the bridge: a function from those that exist to rows
  busy,      \* the sessions that run
  inbox,     \* events on the socket that are not delivered yet
  linked,    \* the socket is connected
  changes,   \* what happened so far, of what MaxChanges bounds
  fetches,   \* getSession() under way: [conv, answer (row and status, or None)]
  started,   \* startCount > 0
  dropped,   \* wasDisconnected
  scope,     \* scope, None for the kind "none"
  byId,      \* byId: a function from the conversations known to rows
  view,      \* what of the snapshot control depends on
  running,   \* running
  first,     \* the first-page request in flight, or None
  queued,    \* queuedListRequest: None, "refresh" or "reload" (authoritative)
  more,      \* the loadMore whose generation is current, or None
  loaded,    \* loadedPageCount
  mutation,  \* [Conv -> the mutation in flight, or None]
  held       \* positionLocks: the conversations whose updatedAt no answer moves

net == <<server, busy, inbox, linked>>
list == <<first, queued, more, loaded>>
vars == <<net, changes, fetches, started, dropped, scope, byId, view, running, list,
          mutation, held>>

Init ==
  /\ server = [c \in Conv \ Draftable |-> New(LastUsed[c])]
  /\ busy = {} /\ changes = 0 /\ inbox = <<>> /\ linked = TRUE
  /\ fetches = {} /\ started = FALSE /\ dropped = FALSE
  /\ scope = None
  /\ byId = [c \in {} |-> New(0)]
  /\ view = [listed |-> {}, total |-> 0, hasMore |-> FALSE, status |-> "initial",
             loadingMore |-> FALSE]
  /\ running = {}
  /\ first = None /\ queued = None /\ more = None /\ loaded = 0
  /\ mutation = [c \in Conv |-> None] /\ held = {}

Put(f, c, row) == [d \in DOMAIN f \cup {c} |-> IF d = c THEN row ELSE f[d]]
Drop(f, S) == [d \in DOMAIN f \ S |-> f[d]]
Merge(f, g) == [d \in DOMAIN f \cup DOMAIN g |-> IF d \in DOMAIN g THEN g[d] ELSE f[d]]

-----------------------------------------------------------------------------
(* The server.  listConversations() sorts by the time of the update, then by *)
(* the id.  `all` is history: the times of the scope's sessions by then.     *)

InScope(s) == {c \in DOMAIN server : ScopeOf[c] = s}
Before(c, d, rows) == rows[c].at > rows[d].at \/ (rows[c].at = rows[d].at /\ c < d)
Rank(c) == Cardinality({d \in InScope(ScopeOf[c]) : d = c \/ Before(d, c, server)})

Page(n, s) ==
  LET on == {c \in InScope(s) : (n - 1) * PageSize < Rank(c) /\ Rank(c) <= n * PageSize}
  IN  [rows |-> [c \in on |-> server[c]], total |-> Cardinality(InScope(s)),
       all |-> [c \in InScope(s) |-> server[c].at]]

Happens == changes < MaxChanges /\ changes' = changes + 1

Stamped(rows, c, now) ==
  IF Stamps /\ c \in DOMAIN rows THEN [rows EXCEPT ![c].at = now] ELSE rows

(* A change made by the session or in another window, and its event. *)
Elsewhere(c, kind) ==
  /\ inbox' = IF linked THEN Append(inbox, [conv |-> c, kind |-> kind]) ELSE inbox
  /\ UNCHANGED <<linked, fetches, started, dropped, scope, byId, view, list, running, mutation, held>>

CreatedElsewhere(c) ==
  /\ Happens
  /\ c \in Draftable \ DOMAIN server
  /\ server' = Put(server, c, New(changes'))
  /\ UNCHANGED busy
  /\ Elsewhere(c, "changed")

RenamedElsewhere(c) ==
  /\ Happens
  /\ c \in Renamable \cap DOMAIN server /\ server[c].title < MaxTitle
  /\ server' = Stamped([server EXCEPT ![c].title = @ + 1], c, changes')
  /\ UNCHANGED busy
  /\ Elsewhere(c, "changed")

DeletedElsewhere(c) ==
  /\ Happens
  /\ c \in Deletable \cap DOMAIN server
  /\ server' = Drop(server, {c})
  /\ busy' = busy \ {c}
  /\ Elsewhere(c, "deleted")

(* A session starts or ends a run, which makes it the newest. *)
RunsElsewhere(c) ==
  /\ Happens
  /\ c \in Runnable \cap DOMAIN server
  /\ busy' = IF c \in busy THEN busy \ {c} ELSE busy \cup {c}
  /\ server' = [server EXCEPT ![c].at = changes']
  /\ Elsewhere(c, "changed")

-----------------------------------------------------------------------------
(* The list and its count.                                                  *)

Persisted(ids, rows) == Cardinality({c \in ids : ~rows[c].draft})

(* commitScopedList(): the rest of the list, or with the conversations given. *)
Listing(ids, rows) ==
  LET now == Persisted(ids, rows)
      moved == view.total + now - Persisted(view.listed, byId)
      total == IF moved > now THEN moved ELSE now
  IN  [view EXCEPT !.listed = ids, !.total = total, !.hasMore = now < total]

Place(c, ids) == IF ScopeOf[c] = scope THEN ids \cup {c} ELSE ids \ {c}

(* runFirstPageRequest() up to its await; scope none is settled on the spot. *)
EmptyView == [listed |-> {}, total |-> 0, hasMore |-> FALSE, status |-> "ready",
              loadingMore |-> FALSE]
Begun(v, s) ==
  IF s = None THEN EmptyView
  ELSE [v EXCEPT !.status = IF v.listed = {} THEN "loading" ELSE "syncing",
                 !.loadingMore = FALSE]
Request(s, reload) ==
  IF s = None THEN None
  ELSE [scope |-> s, reload |-> reload, stale |-> FALSE, answer |-> None]

Begin(v, s, reload) ==
  /\ view' = Begun(v, s)
  /\ first' = Request(s, reload)
  /\ more' = None
  /\ queued' = None

(* fetchFirstPage(), with what is visible and the scope by then. *)
FetchFirst(v, s, reload, inFlight, moreNow) ==
  IF inFlight = None
  THEN Begin(v, s, reload)
  ELSE /\ queued' = IF reload THEN "reload" ELSE IF queued = None THEN "refresh" ELSE queued
       /\ view' = v /\ first' = inFlight /\ more' = moreNow

StillCurrent(r) == r
Outdated(r) == IF r = None THEN None ELSE [r EXCEPT !.stale = TRUE]

Start ==
  /\ ~started
  /\ started' = TRUE
  /\ FetchFirst(view, scope, TRUE, first, more)
  /\ loaded' = IF first = None /\ scope = None THEN 0 ELSE loaded
  /\ UNCHANGED <<net, changes, fetches, dropped, scope, byId, running, mutation, held>>

Stop ==
  /\ started
  /\ started' = FALSE
  /\ first' = Outdated(first)
  /\ more' = None /\ queued' = None /\ dropped' = FALSE
  /\ UNCHANGED <<net, changes, fetches, scope, byId, view, loaded, running, mutation, held>>

(* setScope(): the cached slice at once, then the page. *)
SetScope(s) ==
  /\ s # scope
  /\ scope' = s
  /\ loaded' = 0
  /\ LET cached == {c \in DOMAIN byId : ScopeOf[c] = s}
         painted == [listed |-> cached, total |-> Persisted(cached, byId), hasMore |-> FALSE,
                     status |-> IF s = None THEN "ready"
                                ELSE IF cached # {} THEN "syncing" ELSE "loading",
                     loadingMore |-> FALSE]
     IN  IF started
         THEN FetchFirst(painted, s, TRUE, Outdated(first), None)
         ELSE view' = painted /\ first' = Outdated(first) /\ more' = None /\ UNCHANGED queued
  /\ UNCHANGED <<net, changes, fetches, started, dropped, byId, running, mutation, held>>

Refresh ==
  /\ started
  /\ FetchFirst(view, scope, FALSE, first, more)
  /\ loaded' = IF first = None /\ scope = None THEN 0 ELSE loaded
  /\ UNCHANGED <<net, changes, fetches, started, dropped, scope, byId, running, mutation, held>>

(* The server computes a page; what happens to it later is another step. *)
AnswerFirst ==
  /\ first # None /\ first.answer = None
  /\ \/ first' = [first EXCEPT !.answer = Page(1, first.scope)]
     \/ first' = [first EXCEPT !.answer = Failed]
  /\ UNCHANGED <<net, changes, fetches, started, dropped, scope, byId, view, queued, more, loaded, running, mutation, held>>

(* mergeSidebarConversation(): the older of two titles gives way, the time   *)
(* does not unless it is held.                                              *)
MergedRow(row, next, keepsTime) ==
  [next EXCEPT !.title = IF row.at > next.at THEN row.title ELSE @,
               !.at = IF keepsTime THEN row.at ELSE @]
Received(rows) ==
  [c \in DOMAIN rows |-> IF c \in DOMAIN byId THEN MergedRow(byId[c], rows[c], c \in held)
                         ELSE rows[c]]

(* compareSidebarConversations(): pinned rows first (their order by the time *)
(* of the pin is left out).                                                 *)
Behind(c, b, rows) ==
  IF rows[c].pinned = rows[b].pinned THEN Before(b, c, rows) ELSE ~rows[c].pinned

(* reconcileSidebarConversations(): of the rows the page has not, those under *)
(* change, the drafts and, when the page is full, those behind its last row.  *)
KeptUnderChange(page) ==
  {c \in view.listed \ DOMAIN page.rows : mutation[c] # None \/ byId[c].draft}
Kept(page) ==
  LET on == DOMAIN page.rows
      merged == Merge(byId, Received(page.rows))
      last == CHOOSE b \in on : \A d \in on : d = b \/ Before(d, b, page.rows)
      full == Cardinality(on) >= PageSize
  IN  {c \in view.listed \ on :
         mutation[c] # None \/ byId[c].draft \/ (full /\ Behind(c, last, merged))}

ReconciledLocalWins(page) ==
  LET ids == DOMAIN page.rows \cup Kept(page)
      rows == Drop(Merge(page.rows, byId), view.listed \ ids)
  IN  [byId |-> rows,
       view |-> [view EXCEPT !.listed = ids, !.total = page.total, !.status = "ready",
                             !.hasMore = DOMAIN page.rows # {} /\ Persisted(ids, rows) < page.total]]
Reconciled(page) ==
  LET ids == DOMAIN page.rows \cup Kept(page)
      rows == Drop(Merge(byId, Received(page.rows)), view.listed \ ids)
  IN  [byId |-> rows,
       view |-> [view EXCEPT !.listed = ids, !.total = page.total, !.status = "ready",
                             !.hasMore = DOMAIN page.rows # {} /\ Persisted(ids, rows) < page.total]]

(* The page lands, or is thrown away; then the queued request, if any. *)
Settle(v) ==
  IF queued # None /\ started
  THEN Begin(v, scope, queued = "reload")
  ELSE view' = v /\ first' = None /\ UNCHANGED <<queued, more>>

LandFirst ==
  /\ first # None /\ first.answer # None
  /\ IF first.stale \/ first.answer = Failed
     THEN /\ Settle(IF first.stale THEN view ELSE [view EXCEPT !.status = "ready"])
          /\ UNCHANGED <<byId, loaded>>
     ELSE LET page == first.answer
              pages == IF DOMAIN page.rows = {} THEN 0 ELSE 1
          IN  /\ byId' = Reconciled(page).byId
              /\ Settle(Reconciled(page).view)
              /\ loaded' = IF first.reload \/ loaded < pages THEN pages ELSE loaded
  /\ UNCHANGED <<net, changes, fetches, started, dropped, scope, running, mutation, held>>

LoadMore ==
  /\ started /\ more = None /\ first = None /\ view.hasMore /\ scope # None
  /\ more' = [scope |-> scope, page |-> loaded + 1, answer |-> None]
  /\ view' = [view EXCEPT !.loadingMore = TRUE]
  /\ UNCHANGED <<net, changes, fetches, started, dropped, scope, byId, first, queued, loaded, running, mutation, held>>

AnswerMore ==
  /\ more # None /\ more.answer = None
  /\ \/ more' = [more EXCEPT !.answer = Page(more.page, more.scope)]
     \/ more' = [more EXCEPT !.answer = Failed]
  /\ UNCHANGED <<net, changes, fetches, started, dropped, scope, byId, view, first, queued, loaded, running, mutation, held>>

LandMore ==
  /\ more # None /\ more.answer # None
  /\ more' = None
  /\ IF more.answer = Failed
     THEN view' = [view EXCEPT !.loadingMore = FALSE] /\ UNCHANGED <<byId, loaded>>
     ELSE LET page == more.answer
              ids == view.listed \cup DOMAIN page.rows
              rows == Merge(byId, Received(page.rows))
              any == DOMAIN page.rows # {}
          IN  /\ byId' = rows
              /\ loaded' = IF any THEN more.page ELSE loaded
              /\ view' = [view EXCEPT !.listed = ids, !.total = page.total, !.loadingMore = FALSE,
                                      !.hasMore = any /\ Persisted(ids, rows) < page.total]
  /\ UNCHANGED <<net, changes, fetches, started, dropped, scope, first, queued, running, mutation, held>>

-----------------------------------------------------------------------------
(* runMutation(): the row as it will be, the request, and what came of it.   *)

Change(c, kind, ids, rows) ==
  /\ Happens
  /\ mutation[c] = None /\ c \in DOMAIN byId /\ ~byId[c].draft
  /\ kind \in {"rename", "delete"} => c \notin running
  /\ mutation' = [mutation EXCEPT ![c] = [kind |-> kind, previous |-> byId[c], answer |-> None]]
  /\ byId' = rows
  /\ view' = Listing(ids, rows)
  /\ UNCHANGED <<net, fetches, started, dropped, scope, running, list, held>>

Rename(c) ==
  /\ c \in DOMAIN byId /\ byId[c].title < MaxTitle
  /\ Change(c, "rename", Place(c, view.listed), [byId EXCEPT ![c].title = @ + 1])

SetPinned(c) ==
  /\ c \in DOMAIN byId
  /\ Change(c, "pin", Place(c, view.listed), [byId EXCEPT ![c].pinned = ~@])

Remove(c) == Change(c, "delete", view.listed \ {c}, Drop(byId, {c}))

Wanted(c) ==
  LET m == mutation[c]
  IN  CASE m.kind = "rename" -> Put(server, c, [server[c] EXCEPT !.title = m.previous.title + 1])
        [] m.kind = "pin" -> Put(server, c, [server[c] EXCEPT !.pinned = ~m.previous.pinned])
        [] m.kind = "delete" -> Drop(server, {c})

(* The server does it, or refuses, or does it and the answer is lost. *)
Execute(c) ==
  /\ mutation[c] # None /\ mutation[c].answer = None
  /\ \/ /\ c \in DOMAIN server
        /\ server' = Stamped(Wanted(c), c, changes)
        /\ \E answer \in {Failed, IF mutation[c].kind = "delete" THEN New(0) ELSE server'[c]} :
             mutation' = [mutation EXCEPT ![c].answer = answer]
     \/ mutation' = [mutation EXCEPT ![c].answer = Failed] /\ UNCHANGED server
  /\ busy' = busy \cap DOMAIN server'
  /\ UNCHANGED <<changes, inbox, linked, fetches, started, dropped, scope, byId, view, running, list, held>>

(* Confirmed: the server's row, which keeps its place for a while; failed:   *)
(* the row of before, come what may.                                        *)
Settled(c) ==
  /\ mutation[c] # None /\ mutation[c].answer # None
  /\ mutation' = [mutation EXCEPT ![c] = None]
  /\ LET m == mutation[c]
         confirmed == IF c \in DOMAIN byId THEN MergedRow(byId[c], m.answer, TRUE) ELSE m.answer
         rows == Put(byId, c, IF m.answer = Failed THEN m.previous ELSE confirmed)
     IN  IF m.kind = "delete" /\ m.answer # Failed
         THEN UNCHANGED <<byId, view, held>>
         ELSE /\ byId' = rows /\ view' = Listing(Place(c, view.listed), rows)
              /\ held' = IF m.answer = Failed THEN held ELSE held \cup {c}
  /\ UNCHANGED <<net, changes, fetches, started, dropped, scope, running, list>>

(* positionLockMs is over. *)
HoldEnds(c) ==
  /\ c \in held
  /\ held' = held \ {c}
  /\ UNCHANGED <<net, changes, fetches, started, dropped, scope, byId, view, running, list,
                 mutation>>

(* upsertLocal(): the page shows a conversation the server does not have yet. *)
UpsertLocal(c) ==
  /\ Happens
  /\ c \in Draftable \ (DOMAIN server \cup DOMAIN byId)
  /\ byId' = Put(byId, c, [New(changes') EXCEPT !.draft = TRUE])
  /\ view' = IF ScopeOf[c] = scope THEN Listing(view.listed \cup {c}, byId') ELSE view
  /\ UNCHANGED <<net, fetches, started, dropped, scope, running, list, mutation, held>>

(* removeLocal(): its workspace was removed, and it on the server before. *)
RemoveLocal(c) ==
  /\ c \in (DOMAIN byId \cap Deletable) \ DOMAIN server
  /\ byId' = Drop(byId, {c})
  /\ view' = Listing(view.listed \ {c}, byId')
  /\ UNCHANGED <<net, changes, fetches, started, dropped, scope, running, list, mutation, held>>

(* applyRunningPatch(): a run of this window starts or ends. *)
ApplyRunningPatch(c) ==
  /\ Happens
  /\ running' = IF c \in running THEN running \ {c} ELSE running \cup {c}
  /\ UNCHANGED <<net, fetches, started, dropped, scope, byId, view, list, mutation, held>>

-----------------------------------------------------------------------------
(* The socket.  An end is applied at once; anything else fetches the session. *)

Deliver ==
  /\ inbox # <<>>
  /\ inbox' = Tail(inbox)
  /\ LET c == Head(inbox).conv
         rows == Drop(byId, {c})
     IN  IF ~started
         THEN UNCHANGED <<fetches, byId, view>>
         ELSE IF Head(inbox).kind = "deleted"
         THEN /\ byId' = rows
              /\ view' = IF c \in view.listed THEN Listing(view.listed \ {c}, rows) ELSE view
              /\ UNCHANGED fetches
         ELSE /\ fetches' = fetches \cup {[conv |-> c, answer |-> None]}
              /\ UNCHANGED <<byId, view>>
  /\ UNCHANGED <<server, busy, changes, linked, started, dropped, scope, running, list, mutation, held>>

AnswerFetch(f) ==
  /\ f \in fetches /\ f.answer = None
  /\ fetches' = (fetches \ {f}) \cup
       (IF f.conv \in DOMAIN server
        THEN {[f EXCEPT !.answer = [row |-> server[f.conv], busy |-> f.conv \in busy]]}
        ELSE {})
  /\ UNCHANGED <<net, changes, started, dropped, scope, byId, view, running, list, mutation, held>>

(* An upsert that changes no row of the list recounts it only if it is news  *)
(* of its workspace.                                                        *)
Relist(c) ==
  LET ids == Place(c, view.listed)
      same == ids = view.listed /\ (c \in ids => byId'[c] = byId[c])
  IN  \/ view' = Listing(ids, byId')
      \/ same /\ view' = view

(* The "upsert" of the fetched conversation, then "running" or "idle"; a     *)
(* listener that has unsubscribed meanwhile is called all the same.          *)
LandFetch(f) ==
  /\ f \in fetches /\ f.answer # None
  /\ fetches' = fetches \ {f}
  /\ byId' = Merge(byId, Received([c \in {f.conv} |-> f.answer.row]))
  /\ Relist(f.conv)
  /\ running' = IF f.answer.busy THEN running \cup {f.conv} ELSE running \ {f.conv}
  /\ UNCHANGED <<net, changes, started, dropped, scope, list, mutation, held>>

Disconnect ==
  /\ linked /\ Happens
  /\ linked' = FALSE /\ inbox' = <<>>
  /\ dropped' = started
  /\ UNCHANGED <<server, busy, fetches, started, scope, byId, view, running, list, mutation, held>>

Connect ==
  /\ ~linked
  /\ linked' = TRUE
  /\ dropped' = FALSE
  /\ IF started /\ dropped
     THEN /\ FetchFirst(view, scope, FALSE, first, more)
          /\ loaded' = IF first = None /\ scope = None THEN 0 ELSE loaded
     ELSE UNCHANGED <<view, list>>
  /\ UNCHANGED <<server, busy, changes, inbox, fetches, started, scope, byId, running, mutation, held>>

Next ==
  \/ \E c \in Conv : CreatedElsewhere(c) \/ RenamedElsewhere(c) \/ DeletedElsewhere(c) \/ RunsElsewhere(c)
  \/ Start \/ Stop \/ Refresh
  \/ \E s \in Scope \cup {None} : SetScope(s)
  \/ AnswerFirst \/ LandFirst \/ LoadMore \/ AnswerMore \/ LandMore
  \/ \E c \in Renamable : Rename(c)
  \/ \E c \in Pinnable : SetPinned(c)
  \/ \E c \in Deletable : Remove(c)
  \/ \E c \in Conv : Execute(c) \/ Settled(c) \/ HoldEnds(c) \/ UpsertLocal(c)
  \/ \E c \in Deletable : RemoveLocal(c)
  \/ \E c \in Runnable : ApplyRunningPatch(c)
  \/ Deliver \/ Disconnect \/ Connect
  \/ \E f \in fetches : AnswerFetch(f) \/ LandFetch(f)

Spec == Init /\ [][Next]_vars

(* The interval timer fires, what was asked is answered, a page sometimes    *)
(* successfully, and the socket reconnects.                                  *)
FairSpec ==
  /\ Spec
  /\ WF_vars(Refresh) /\ WF_vars(LandFirst) /\ WF_vars(Connect) /\ WF_vars(Deliver)
  /\ SF_vars(AnswerFirst /\ first'.answer # Failed)
  /\ WF_vars(\E f \in fetches : AnswerFetch(f) \/ LandFetch(f))
  /\ \A c \in Conv : WF_vars(Execute(c)) /\ WF_vars(Settled(c)) /\ WF_vars(HoldEnds(c))

-----------------------------------------------------------------------------
(* What is listed belongs to the workspace that is shown: no page, fetched   *)
(* session or settled change of another one lands in the list, whatever      *)
(* scope changes and restarts happened while it was on its way.              *)
ListedInScope == \A c \in view.listed : c \in DOMAIN byId /\ ScopeOf[c] = scope

(* A refresh takes out only what it can judge: a row that leaves the list    *)
(* when a page lands was not on the server when the page was computed.  Not  *)
(* so for three kinds of row: pinned ones, since the server's pages do not   *)
(* know of pins; one that a later fetch already moved up, which now sorts    *)
(* before the end of the older page; and any while a row of the page is held *)
(* at its old time.  They come back with the page that has them.             *)
LeavesOnLanding(c) ==
  /\ first # None /\ first.answer # None /\ first' # first
  /\ scope' = scope /\ started' = started
  /\ c \in view.listed \ view'.listed
MovedSince(c, page) == byId[c].at > page.all[c]
RefreshKeepsRows ==
  [][\A c \in Conv : LeavesOnLanding(c) =>
       \/ c \notin DOMAIN first.answer.all
       \/ byId[c].pinned \/ MovedSince(c, first.answer)
       \/ DOMAIN first.answer.rows \cap held # {}]_vars

(* The list comes to agree with the server: with a workspace shown for good, *)
(* its first page is listed as the server has it, and nothing that was       *)
(* deleted elsewhere, if all of it fits on a page.                           *)
Agrees(s) ==
  LET page == Page(1, s).rows
      free == {c \in Conv : mutation[c] = None}
  IN  /\ \A c \in DOMAIN page \cap free : c \in view.listed /\ byId[c] = page[c]
      /\ Cardinality(InScope(s)) < PageSize =>
           \A c \in view.listed \cap free : c \in InScope(s) \/ byId[c].draft
Converges == \A s \in Scope : <>[](started /\ scope = s) => []<>Agrees(s)
=============================================================================
