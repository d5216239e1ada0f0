------------------------- MODULE SidebarStoreProofs -------------------------
(***************************************************************************)
(* What holds of the sidebar for any conversations, workspaces and pages:    *)
(* the list has conversations of the workspace that is shown only.  That is  *)
(* not inductive alone: a page lands on the list later than it was asked     *)
(* for, so the requests whose answers would be accepted have to ask for the  *)
(* workspace that is shown, whatever setScope() and stop() did meanwhile.    *)
(***************************************************************************)
EXTENDS SidebarStore, FiniteSetTheorems, WellFoundedInduction, TLAPS

(* The fields of the snapshot and of the two requests. *)
ViewShaped == view = [listed |-> view.listed, total |-> view.total, hasMore |-> view.hasMore,
                      status |-> view.status, loadingMore |-> view.loadingMore]
FirstShaped == first # None =>
  /\ first.stale \in BOOLEAN
  /\ first = [scope |-> first.scope, reload |-> first.reload, stale |-> first.stale,
              answer |-> first.answer]
MoreShaped == more # None =>
  more = [scope |-> more.scope, page |-> more.page, answer |-> more.answer]

(* A page, once there, has rows of the workspace it was asked for. *)
PageOf(s, answer) ==
  answer \notin {None, Failed} => \A c \in DOMAIN answer.rows : ScopeOf[c] = s
FirstOfScope == first # None =>
  /\ PageOf(first.scope, first.answer)
  /\ ~first.stale => first.scope = scope
MoreOfScope == more # None => more.scope = scope /\ PageOf(more.scope, more.answer)

Requests == FirstShaped /\ MoreShaped /\ FirstOfScope /\ MoreOfScope
IInv == ViewShaped /\ Requests /\ ListedInScope

(* A view with its fields, and one whose list may be shown in a workspace.   *)
Shape(v) == v = [listed |-> v.listed, total |-> v.total, hasMore |-> v.hasMore,
                 status |-> v.status, loadingMore |-> v.loadingMore]
Shows(v, rows, s) == Shape(v) /\ \A c \in v.listed : c \in DOMAIN rows /\ ScopeOf[c] = s

(* What the helpers on rows have for domain. *)
LEMMA PutDomain == ASSUME NEW f, NEW c, NEW row PROVE DOMAIN Put(f, c, row) = DOMAIN f \cup {c}
  BY DEF Put
LEMMA DropDomain == ASSUME NEW f, NEW S PROVE DOMAIN Drop(f, S) = DOMAIN f \ S
  BY DEF Drop
LEMMA MergeDomain == ASSUME NEW f, NEW g PROVE DOMAIN Merge(f, g) = DOMAIN f \cup DOMAIN g
  BY DEF Merge
LEMMA ReceivedDomain == ASSUME NEW rows PROVE DOMAIN Received(rows) = DOMAIN rows
  BY DEF Received

(* commitScopedList() lists what it is given. *)
LEMMA ListingShape ==
  ASSUME ViewShaped, NEW ids, NEW rows
  PROVE  Shape(Listing(ids, rows)) /\ Listing(ids, rows).listed = ids
<1> DEFINE now == Persisted(ids, rows)
           moved == view.total + now - Persisted(view.listed, byId)
           total == IF moved > now THEN moved ELSE now
<1>1. Listing(ids, rows) = [view EXCEPT !.listed = ids, !.total = total, !.hasMore = now < total]
  BY DEF Listing
<1> HIDE DEF now, total
<1>2. Listing(ids, rows) = [listed |-> ids, total |-> total, hasMore |-> now < total,
                            status |-> view.status, loadingMore |-> view.loadingMore]
  BY <1>1 DEF ViewShaped
<1>3. QED BY <1>2 DEF Shape

(* A page computed by the server is one of the workspace it was asked for.   *)
LEMMA PageOfScope == ASSUME NEW n, NEW s PROVE PageOf(s, Page(n, s))
<1> DEFINE on == {c \in InScope(s) : (n - 1) * PageSize < Rank(c) /\ Rank(c) <= n * PageSize}
<1>1. Page(n, s).rows = [c \in on |-> server[c]]
  BY DEF Page
<1>2. \A c \in on : ScopeOf[c] = s
  BY DEF InScope
<1>3. QED BY <1>1, <1>2 DEF PageOf

(* A request that is begun asks for the workspace it is given and leaves a   *)
(* list that may be shown there.                                             *)
LEMMA BeginKeeps ==
  ASSUME NEW v, NEW s, NEW reload, NEW rows, Shows(v, rows, s), Begin(v, s, reload),
         scope' = s, byId' = rows
  PROVE  IInv'
<1>1. more' = None /\ first' = Request(s, reload) /\ view' = Begun(v, s)
  BY DEF Begin
<1>2. PageOf(s, None)
  BY DEF PageOf
<1>3. FirstShaped' /\ FirstOfScope'
  BY <1>1, <1>2 DEF Request, FirstShaped, FirstOfScope, PageOf
<1>4. MoreShaped' /\ MoreOfScope'
  BY <1>1 DEF MoreShaped, MoreOfScope
<1>5. Shows(view', byId', scope')
  BY <1>1 DEF Begun, EmptyView, Shows, Shape
<1>6. QED
  BY <1>3, <1>4, <1>5 DEF IInv, Requests, Shows, Shape, ViewShaped, ListedInScope

(* So does fetchFirstPage(), which leaves the request in flight if there is one. *)
LEMMA FetchFirstKeeps ==
  ASSUME NEW v, NEW s, NEW reload, NEW rows, NEW inFlight, NEW moreNow,
         Shows(v, rows, s), FetchFirst(v, s, reload, inFlight, moreNow),
         scope' = s, byId' = rows,
         first' = inFlight /\ more' = moreNow => Requests'
  PROVE  IInv'
<1>1. CASE inFlight = None
  BY <1>1, BeginKeeps DEF FetchFirst
<1>2. CASE inFlight # None
  BY <1>2 DEF FetchFirst, IInv, Shows, Shape, ViewShaped, ListedInScope
<1>3. QED BY <1>1, <1>2

(* A step that changes the list only. *)
LEMMA ListChanged ==
  ASSUME IInv, UNCHANGED <<first, more, scope>>, Shows(view', byId', scope)
  PROVE  IInv'
<1>1. Requests'
  BY DEF IInv, Requests, FirstShaped, MoreShaped, FirstOfScope, MoreOfScope
<1>2. QED BY <1>1 DEF IInv, Shows, Shape, ViewShaped, ListedInScope

(* A request that was asked for another workspace is outdated. *)
LEMMA OutdatedRequest ==
  ASSUME IInv, first' = Outdated(first), more' = None PROVE Requests'
<1>1. CASE first = None
  BY <1>1 DEF Outdated, Requests, FirstShaped, MoreShaped, FirstOfScope, MoreOfScope
<1>2. CASE first # None
  <2>1. first' = [scope |-> first.scope, reload |-> first.reload, stale |-> TRUE,
                  answer |-> first.answer]
    BY <1>2 DEF Outdated, IInv, Requests, FirstShaped
  <2>2. QED
    BY <1>2, <2>1 DEF IInv, Requests, FirstShaped, MoreShaped, FirstOfScope, MoreOfScope
<1>3. QED BY <1>1, <1>2

LEMMA ShowsNow == IInv => Shows(view, byId, scope)
  BY DEF IInv, ViewShaped, ListedInScope, Shows, Shape

(* start(), stop(), refresh(), setScope() and what the socket's connection   *)
(* does.                                                                     *)
LEMMA ScopeStep ==
  ASSUME IInv, Start \/ Stop \/ Refresh \/ Connect \/ (\E s \in Scope \cup {None} : SetScope(s))
  PROVE  IInv'
<1> USE ShowsNow
<1>1. first' = first /\ more' = more /\ scope' = scope => Requests'
  BY DEF IInv, Requests, FirstShaped, MoreShaped, FirstOfScope, MoreOfScope
<1>2. CASE Start
  BY <1>1, <1>2, FetchFirstKeeps DEF Start
<1>3. CASE Refresh
  BY <1>1, <1>3, FetchFirstKeeps DEF Refresh
<1>4. CASE Connect
  <2>1. CASE started /\ dropped
    BY <1>1, <1>4, <2>1, FetchFirstKeeps DEF Connect
  <2>2. CASE ~(started /\ dropped)
    BY <1>4, <2>2, ListChanged DEF Connect, list
  <2>3. QED BY <2>1, <2>2
<1>5. CASE Stop
  <2>1. Requests'
    BY <1>5, OutdatedRequest DEF Stop
  <2>2. QED BY <1>5, <2>1 DEF Stop, IInv, ViewShaped, ListedInScope
<1>6. ASSUME NEW s \in Scope \cup {None}, SetScope(s) PROVE IInv'
  <2> DEFINE cached == {c \in DOMAIN byId : ScopeOf[c] = s}
             painted == [listed |-> cached, total |-> Persisted(cached, byId), hasMore |-> FALSE,
                         status |-> IF s = None THEN "ready"
                                    ELSE IF cached # {} THEN "syncing" ELSE "loading",
                         loadingMore |-> FALSE]
  <2>1. Shows(painted, byId, s)
    BY DEF Shows, Shape
  <2>2. scope' = s /\ byId' = byId
    BY <1>6 DEF SetScope
  <2>3. \/ FetchFirst(painted, s, TRUE, Outdated(first), None)
        \/ view' = painted /\ first' = Outdated(first) /\ more' = None
    BY <1>6 DEF SetScope
  <2> HIDE DEF painted
  <2>4. CASE FetchFirst(painted, s, TRUE, Outdated(first), None)
    BY <2>1, <2>2, <2>4, FetchFirstKeeps, OutdatedRequest
  <2>5. CASE view' = painted /\ first' = Outdated(first) /\ more' = None
    BY <2>1, <2>2, <2>5, OutdatedRequest DEF IInv, Shows, Shape, ViewShaped, ListedInScope
  <2>6. QED BY <2>3, <2>4, <2>5
<1>7. QED BY <1>2, <1>3, <1>4, <1>5, <1>6

(* The server answers a request for a page. *)
LEMMA AnswerStep == ASSUME IInv, AnswerFirst \/ AnswerMore PROVE IInv'
<1>1. CASE AnswerFirst
  <2>1. PICK answer \in {Page(1, first.scope), Failed} : first' = [first EXCEPT !.answer = answer]
    BY <1>1 DEF AnswerFirst
  <2>2. PageOf(first.scope, answer)
    BY <2>1, PageOfScope DEF PageOf
  <2>3. first' = [scope |-> first.scope, reload |-> first.reload, stale |-> first.stale,
                  answer |-> answer]
    BY <1>1, <2>1 DEF AnswerFirst, IInv, Requests, FirstShaped
  <2>4. FirstShaped' /\ FirstOfScope'
    BY <1>1, <2>2, <2>3 DEF AnswerFirst, IInv, Requests, FirstShaped, FirstOfScope
  <2>5. QED
    BY <1>1, <2>4 DEF AnswerFirst, IInv, Requests, ViewShaped, MoreShaped, MoreOfScope, ListedInScope
<1>2. CASE AnswerMore
  <2>1. PICK answer \in {Page(more.page, more.scope), Failed} : more' = [more EXCEPT !.answer = answer]
    BY <1>2 DEF AnswerMore
  <2>2. PageOf(more.scope, answer)
    BY <2>1, PageOfScope DEF PageOf
  <2>3. more' = [scope |-> more.scope, page |-> more.page, answer |-> answer]
    BY <1>2, <2>1 DEF AnswerMore, IInv, Requests, MoreShaped
  <2>4. MoreShaped' /\ MoreOfScope'
    BY <1>2, <2>2, <2>3 DEF AnswerMore, IInv, Requests, MoreShaped, MoreOfScope
  <2>5. QED
    BY <1>2, <2>4 DEF AnswerMore, IInv, Requests, ViewShaped, FirstShaped, FirstOfScope, ListedInScope
<1>3. QED BY <1>1, <1>2

(* A page that is accepted, reconciled with the list. *)
LEMMA ReconciledShows ==
  ASSUME IInv, NEW page, \A c \in DOMAIN page.rows : ScopeOf[c] = scope
  PROVE  Shows(Reconciled(page).view, Reconciled(page).byId, scope)
<1> DEFINE ids == DOMAIN page.rows \cup Kept(page)
           rows == Drop(Merge(byId, Received(page.rows)), view.listed \ ids)
           more_ == DOMAIN page.rows # {} /\ Persisted(ids, rows) < page.total
<1>1. Kept(page) \subseteq view.listed
  BY DEF Kept
<1>2. \A c \in ids : c \in DOMAIN rows /\ ScopeOf[c] = scope
  <2> DEFINE gone == view.listed \ ids
             merged == Merge(byId, Received(page.rows))
  <2>1. DOMAIN merged = DOMAIN byId \cup DOMAIN page.rows
    BY MergeDomain, ReceivedDomain
  <2>2. rows = Drop(merged, gone)
    OBVIOUS
  <2> HIDE DEF rows, merged, gone
  <2>3. DOMAIN rows = DOMAIN merged \ gone
    BY <2>2, DropDomain, Zenon
  <2>4. QED BY <1>1, <2>1, <2>3 DEF gone, IInv, ListedInScope
<1>3. Reconciled(page).byId = rows
  BY DEF Reconciled
<1>4. Reconciled(page).view = [view EXCEPT !.listed = ids, !.total = page.total, !.status = "ready",
                                           !.hasMore = more_]
  BY DEF Reconciled
<1> HIDE DEF ids, rows, more_
<1>5. Reconciled(page).view = [listed |-> ids, total |-> page.total, hasMore |-> more_,
                               status |-> "ready", loadingMore |-> view.loadingMore]
  BY <1>4 DEF IInv, ViewShaped
<1>6. QED BY <1>2, <1>3, <1>5 DEF Shows, Shape

(* The answer to a request lands. *)
LEMMA LandStep == ASSUME IInv, LandFirst PROVE IInv'
<1> USE ShowsNow
<1>1. first # None /\ first.answer # None /\ scope' = scope
  BY DEF LandFirst
<1>2. ASSUME NEW v, Shows(v, byId', scope), Settle(v) PROVE IInv'
  <2>1. CASE queued # None /\ started
    BY <1>1, <1>2, <2>1, BeginKeeps DEF Settle
  <2>2. CASE ~(queued # None /\ started)
    <3>1. first' = None /\ more' = more /\ view' = v
      BY <1>2, <2>2 DEF Settle
    <3>2. Requests'
      BY <1>1, <3>1 DEF IInv, Requests, FirstShaped, MoreShaped, FirstOfScope, MoreOfScope
    <3>3. QED BY <1>1, <1>2, <3>1, <3>2 DEF IInv, Shows, Shape, ViewShaped, ListedInScope
  <2>3. QED BY <2>1, <2>2
<1>3. CASE first.stale \/ first.answer = Failed
  <2> DEFINE v == IF first.stale THEN view ELSE [view EXCEPT !.status = "ready"]
  <2>1. byId' = byId /\ Settle(v)
    BY <1>3 DEF LandFirst
  <2>2. Shows(v, byId, scope)
    BY DEF Shows, Shape
  <2> HIDE DEF v
  <2>3. QED BY <1>2, <2>1, <2>2
<1>4. CASE ~(first.stale \/ first.answer = Failed)
  <2>1. \A c \in DOMAIN first.answer.rows : ScopeOf[c] = scope
    BY <1>1, <1>4 DEF IInv, Requests, FirstOfScope, PageOf
  <2>2. byId' = Reconciled(first.answer).byId /\ Settle(Reconciled(first.answer).view)
    BY <1>4 DEF LandFirst
  <2>3. QED BY <1>2, <2>1, <2>2, ReconciledShows
<1>5. QED BY <1>3, <1>4

(* loadMore() asks for a page of what is shown, and adds its rows. *)
LEMMA MoreStep == ASSUME IInv, LoadMore \/ LandMore PROVE IInv'
<1>1. CASE LoadMore
  <2>1. more' = [scope |-> scope, page |-> loaded + 1, answer |-> None]
    BY <1>1 DEF LoadMore
  <2>2. MoreShaped' /\ MoreOfScope'
    BY <1>1, <2>1 DEF LoadMore, MoreShaped, MoreOfScope, PageOf
  <2>3. QED
    BY <1>1, <2>2 DEF LoadMore, IInv, Requests, ViewShaped, FirstShaped, FirstOfScope, ListedInScope
<1>2. CASE LandMore
  <2>1. first' = first /\ scope' = scope /\ more' = None /\ more # None /\ more.answer # None
    BY <1>2 DEF LandMore
  <2>2. Requests'
    BY <2>1 DEF IInv, Requests, FirstShaped, MoreShaped, FirstOfScope, MoreOfScope
  <2>3. CASE more.answer = Failed
    BY <1>2, <2>2, <2>3 DEF LandMore, IInv, ViewShaped, ListedInScope
  <2>4. CASE more.answer # Failed
    <3> DEFINE page == more.answer
               ids == view.listed \cup DOMAIN page.rows
               rows == Merge(byId, Received(page.rows))
               more_ == DOMAIN page.rows # {} /\ Persisted(ids, rows) < page.total
    <3>1. byId' = rows
      BY <1>2, <2>4 DEF LandMore
    <3>2. view' = [view EXCEPT !.listed = ids, !.total = page.total, !.loadingMore = FALSE,
                               !.hasMore = more_]
      BY <1>2, <2>4 DEF LandMore
    <3>3. DOMAIN rows = DOMAIN byId \cup DOMAIN page.rows
      <4>1. DOMAIN Merge(byId, Received(page.rows)) = DOMAIN byId \cup DOMAIN Received(page.rows)
        BY MergeDomain, Zenon
      <4>2. DOMAIN Received(page.rows) = DOMAIN page.rows
        BY ReceivedDomain, Zenon
      <4>3. QED BY <4>1, <4>2
    <3>4. \A c \in DOMAIN page.rows : ScopeOf[c] = scope
      BY <2>1, <2>4 DEF IInv, Requests, MoreOfScope, PageOf
    <3> HIDE DEF rows, more_
    <3>5. view' = [listed |-> ids, total |-> page.total, hasMore |-> more_, status |-> view.status,
                   loadingMore |-> FALSE]
      BY <3>2 DEF IInv, ViewShaped
    <3>6. QED
      BY <2>1, <2>2, <3>1, <3>3, <3>4, <3>5 DEF IInv, ViewShaped, ListedInScope
  <2>5. QED BY <2>3, <2>4
<1>3. QED BY <1>1, <1>2

(* A row is put in its place, or taken out of the list. *)
LEMMA PlaceShows ==
  ASSUME IInv, NEW c, NEW rows, DOMAIN byId \cup {c} \subseteq DOMAIN rows
  PROVE  Shows(Listing(Place(c, view.listed), rows), rows, scope)
<1>1. \A d \in Place(c, view.listed) : d \in DOMAIN rows /\ ScopeOf[d] = scope
  BY DEF Place, IInv, ListedInScope
<1>2. QED BY <1>1, ListingShape DEF IInv, Shows

LEMMA TakenOutShows ==
  ASSUME IInv, NEW c
  PROVE  Shows(Listing(view.listed \ {c}, Drop(byId, {c})), Drop(byId, {c}), scope)
<1>1. \A d \in view.listed \ {c} : d \in DOMAIN Drop(byId, {c}) /\ ScopeOf[d] = scope
  BY DropDomain DEF IInv, ListedInScope
<1>2. QED BY <1>1, ListingShape DEF IInv, Shows

(* Mutations, from the row as it will be to what came of it. *)
LEMMA MutationStep ==
  ASSUME IInv, NEW c, Rename(c) \/ SetPinned(c) \/ Remove(c) \/ Settled(c)
  PROVE  IInv'
<1> USE ShowsNow
<1>1. CASE Rename(c)
  BY <1>1, PlaceShows, ListChanged DEF Rename, Change, list
<1>2. CASE SetPinned(c)
  BY <1>2, PlaceShows, ListChanged DEF SetPinned, Change, list
<1>3. CASE Remove(c)
  BY <1>3, TakenOutShows, ListChanged DEF Remove, Change, list
<1>4. CASE Settled(c)
  <2>1. UNCHANGED <<first, more, scope>>
    BY <1>4 DEF Settled, list
  <2>2. CASE UNCHANGED <<byId, view>>
    BY <2>1, <2>2, ListChanged
  <2>3. CASE ~UNCHANGED <<byId, view>>
    <3>1. PICK row : /\ byId' = Put(byId, c, row)
                     /\ view' = Listing(Place(c, view.listed), Put(byId, c, row))
      BY <1>4, <2>3 DEF Settled
    <3>2. DOMAIN byId \cup {c} \subseteq DOMAIN Put(byId, c, row)
      BY PutDomain, Zenon
    <3>3. Shows(Listing(Place(c, view.listed), Put(byId, c, row)), Put(byId, c, row), scope)
      BY <3>2, PlaceShows, Zenon
    <3>4. Shows(view', byId', scope)
      BY <3>1, <3>3, Zenon
    <3>5. QED BY <2>1, <3>4, ListChanged
  <2>4. QED BY <2>2, <2>3
<1>5. QED BY <1>1, <1>2, <1>3, <1>4

(* What the page, the socket and fetched sessions do to the rows. *)
LEMMA RowStep ==
  ASSUME IInv, \/ Deliver
               \/ \E c \in Conv : UpsertLocal(c) \/ RemoveLocal(c)
               \/ \E f \in fetches : LandFetch(f)
  PROVE  IInv'
<1> USE ShowsNow
<1>1. ASSUME NEW c \in Conv, UpsertLocal(c) PROVE IInv'
  <2>1. UNCHANGED <<first, more, scope>>
    BY <1>1 DEF UpsertLocal, list
  <2>2. DOMAIN byId' = DOMAIN byId \cup {c}
    BY <1>1, PutDomain DEF UpsertLocal
  <2>3. CASE ScopeOf[c] = scope
    BY <1>1, <2>1, <2>2, <2>3, PlaceShows, ListChanged DEF UpsertLocal, Place
  <2>4. CASE ScopeOf[c] # scope
    <3>1. view' = view
      BY <1>1, <2>4 DEF UpsertLocal
    <3>2. QED BY <2>1, <2>2, <3>1, ListChanged DEF Shows
  <2>5. QED BY <2>3, <2>4
<1>2. ASSUME NEW c \in Conv, RemoveLocal(c) PROVE IInv'
  BY <1>2, TakenOutShows, ListChanged DEF RemoveLocal, list
<1>3. CASE Deliver
  <2>1. UNCHANGED <<first, more, scope>>
    BY <1>3 DEF Deliver, list
  <2>2. CASE UNCHANGED <<byId, view>>
    BY <2>1, <2>2, ListChanged
  <2>3. CASE ~UNCHANGED <<byId, view>>
    <3> DEFINE c == Head(inbox).conv
    <3>1. /\ byId' = Drop(byId, {c})
          /\ view' = IF c \in view.listed THEN Listing(view.listed \ {c}, Drop(byId, {c})) ELSE view
      BY <1>3, <2>3 DEF Deliver
    <3> HIDE DEF c
    <3>2. CASE c \in view.listed
      BY <2>1, <3>1, <3>2, TakenOutShows, ListChanged
    <3>3. CASE c \notin view.listed
      BY <2>1, <3>1, <3>3, DropDomain, ListChanged DEF Shows
    <3>4. QED BY <3>2, <3>3
  <2>4. QED BY <2>2, <2>3
<1>4. ASSUME NEW f \in fetches, LandFetch(f) PROVE IInv'
  <2>1. UNCHANGED <<first, more, scope>> /\ DOMAIN byId' = DOMAIN byId \cup {f.conv}
    <3>1. DOMAIN Received([c \in {f.conv} |-> f.answer.row]) = {f.conv}
      BY ReceivedDomain
    <3>2. byId' = Merge(byId, Received([c \in {f.conv} |-> f.answer.row]))
      BY <1>4 DEF LandFetch
    <3>3. DOMAIN byId' = DOMAIN byId \cup {f.conv}
      BY <3>1, <3>2, MergeDomain, Zenon
    <3>4. QED BY <1>4, <3>3 DEF LandFetch, list
  <2>2. view' = view \/ view' = Listing(Place(f.conv, view.listed), byId')
    BY <1>4 DEF LandFetch, Relist
  <2>3. CASE view' = view
    BY <2>1, <2>3, ListChanged DEF Shows
  <2>4. CASE view' = Listing(Place(f.conv, view.listed), byId')
    <3>1. Shows(Listing(Place(f.conv, view.listed), byId'), byId', scope)
      BY <2>1, PlaceShows, Zenon
    <3>2. QED BY <2>1, <2>4, <3>1, ListChanged
  <2>5. QED BY <2>2, <2>3, <2>4
<1>5. QED BY <1>1, <1>2, <1>3, <1>4

(* Everything else leaves the list and the requests alone. *)
LEMMA OtherStep ==
  ASSUME IInv, UNCHANGED <<first, more, scope, view, byId>>
  PROVE  IInv'
  BY ShowsNow, ListChanged

LEMMA StepKeeps == IInv /\ [Next]_vars => IInv'
<1> SUFFICES ASSUME IInv, [Next]_vars PROVE IInv'
  OBVIOUS
<1>1. ASSUME NEW c \in Conv,
             CreatedElsewhere(c) \/ RenamedElsewhere(c) \/ DeletedElsewhere(c) \/ RunsElsewhere(c)
      PROVE  IInv'
  BY <1>1, OtherStep
  DEF CreatedElsewhere, RenamedElsewhere, DeletedElsewhere, RunsElsewhere, Elsewhere, list
<1>2. ASSUME NEW c \in Conv, Execute(c) \/ HoldEnds(c) PROVE IInv'
  BY <1>2, OtherStep DEF Execute, HoldEnds, list
<1>3. ASSUME NEW c, ApplyRunningPatch(c) PROVE IInv'
  BY <1>3, OtherStep DEF ApplyRunningPatch, list
<1>4. CASE Disconnect
  BY <1>4, OtherStep DEF Disconnect, list
<1>5. ASSUME NEW f \in fetches, AnswerFetch(f) PROVE IInv'
  BY <1>5, OtherStep DEF AnswerFetch, list
<1>6. CASE UNCHANGED vars
  BY <1>6, OtherStep DEF vars, list
<1>7. Deletable \subseteq Conv
  BY SidebarAssumption DEF SidebarAssumption
<1>8. QED
  BY <1>1, <1>2, <1>3, <1>4, <1>5, <1>6, <1>7, ScopeStep, AnswerStep, LandStep, MoreStep,
     MutationStep, RowStep DEF Next

(* ListedInScope: no page, fetched session, event or settled change of       *)
(* another workspace is listed, however setScope(), stop(), start() and      *)
(* reconnects interleave with the answers under way.                         *)
THEOREM ListStaysInScope == Spec => []ListedInScope
<1>1. Init => IInv
  BY DEF Init, IInv, ViewShaped, Requests, FirstShaped, MoreShaped, FirstOfScope, MoreOfScope,
         ListedInScope
<1>2. IInv => ListedInScope
  BY DEF IInv
<1>3. QED BY <1>1, <1>2, StepKeeps, PTL DEF Spec

-----------------------------------------------------------------------------
(* What a first page can judge: it is full unless it has all there is, and   *)
(* what it leaves out comes after all it has.                                *)

LEMMA LeastNatural ==
  ASSUME NEW T \in SUBSET Nat, T # {} PROVE \E x \in T : \A y \in T : x <= y
<1>1. \E x \in T : \A y \in T : <<y, x>> \notin OpToRel(<, Nat)
  BY NatLessThanWellFounded, WFMin
<1>2. \A x, y \in Nat : <<y, x>> \notin OpToRel(<, Nat) => x <= y
  BY DEF OpToRel
<1>3. QED BY <1>1, <1>2

LEMMA GreatestNatural ==
  ASSUME NEW S \in SUBSET Nat, S # {}, NEW u \in Nat, \A d \in S : d <= u
  PROVE  \E b \in S : \A d \in S : d <= b
<1> DEFINE T == {m \in Nat : \A d \in S : d <= m}
<1>1. u \in T
  OBVIOUS
<1>2. PICK b \in T : \A y \in T : b <= y
  BY <1>1, LeastNatural
<1>3. CASE b \notin S
  <2>1. PICK d \in S : d <= b
    BY <1>2
  <2>2. b - 1 \in Nat /\ \A e \in S : e <= b - 1
    BY <1>2, <1>3, <2>1
  <2>3. b - 1 \in T
    BY <2>2
  <2>4. QED BY <1>2, <2>2, <2>3
<1>4. QED BY <1>2, <1>3

(* A row is a record with a time, and so is every row there is. *)
Rowed(row) ==
  /\ row = [title |-> row.title, pinned |-> row.pinned, draft |-> row.draft, at |-> row.at]
  /\ row.at \in Int
RowsIn(f) == \A c \in DOMAIN f : Rowed(f[c])

ServerKnown == DOMAIN server \subseteq Conv /\ RowsIn(server)

(* listConversations() sorts strictly, and a session's rank is the number of *)
(* sessions up to it.                                                       *)
UpTo(S, c) == {d \in S : d = c \/ Before(d, c, server)}

LEMMA SortsStrictly ==
  ASSUME ServerKnown, NEW d \in DOMAIN server, NEW e \in DOMAIN server
  PROVE  /\ d \in Nat /\ server[d].at \in Int
         /\ ~(Before(d, e, server) /\ Before(e, d, server)) /\ ~Before(d, d, server)
         /\ d = e \/ Before(d, e, server) \/ Before(e, d, server)
         /\ \A f \in DOMAIN server :
              Before(d, e, server) /\ Before(e, f, server) => Before(d, f, server)
<1>1. \A f \in DOMAIN server : f \in Nat /\ server[f].at \in Int
  BY SidebarAssumption DEF SidebarAssumption, ServerKnown, RowsIn, Rowed
<1>2. QED BY <1>1 DEF Before

LEMMA RankOf ==
  ASSUME ServerKnown, NEW s, NEW c \in InScope(s)
  PROVE  /\ IsFiniteSet(UpTo(InScope(s), c)) /\ Rank(c) = Cardinality(UpTo(InScope(s), c))
         /\ Rank(c) \in Nat /\ Rank(c) > 0
<1>1. IsFiniteSet(InScope(s))
  <2>1. InScope(s) \in SUBSET Conv /\ IsFiniteSet(Conv)
    BY SidebarAssumption DEF SidebarAssumption, ServerKnown, InScope
  <2>2. QED BY <2>1, FS_Subset
<1>2. UpTo(InScope(s), c) \in SUBSET InScope(s) /\ c \in UpTo(InScope(s), c)
  BY DEF UpTo
<1>3. Rank(c) = Cardinality(UpTo(InScope(s), c))
  <2>1. ScopeOf[c] = s
    BY DEF InScope
  <2>2. QED BY <2>1 DEF Rank, UpTo
<1>4. IsFiniteSet(UpTo(InScope(s), c))
  BY <1>1, <1>2, FS_Subset
<1>5. Cardinality(UpTo(InScope(s), c)) \in Nat /\ Cardinality(UpTo(InScope(s), c)) # 0
  BY <1>2, <1>4, FS_CardinalityType, FS_EmptySet
<1>6. QED BY <1>3, <1>4, <1>5

LEMMA RankGrows ==
  ASSUME ServerKnown, NEW s, NEW d \in InScope(s), NEW e \in InScope(s), Before(d, e, server)
  PROVE  Rank(d) < Rank(e)
<1> DEFINE D == UpTo(InScope(s), d)
           E == UpTo(InScope(s), e)
<1>1. InScope(s) \subseteq DOMAIN server
  BY DEF InScope
<1>2. D \cup {e} \in SUBSET E
  <2>1. \A x \in InScope(s) : Before(x, d, server) => Before(x, e, server)
    BY <1>1, SortsStrictly
  <2>2. QED BY <2>1 DEF UpTo
<1>3. e \notin D
  <2>1. e # d /\ ~Before(e, d, server)
    BY <1>1, SortsStrictly
  <2>2. QED BY <2>1 DEF UpTo
<1>4. /\ IsFiniteSet(D) /\ Rank(d) = Cardinality(D) /\ Rank(d) \in Nat
      /\ IsFiniteSet(E) /\ Rank(e) = Cardinality(E) /\ Rank(e) \in Nat
  BY RankOf
<1> HIDE DEF D, E
<1>5. Cardinality(D \cup {e}) = Cardinality(D) + 1
  BY <1>3, <1>4, FS_AddElement
<1>6. Cardinality(D \cup {e}) <= Cardinality(E)
  BY <1>2, <1>4, FS_Subset
<1>7. QED BY <1>4, <1>5, <1>6

Ones(s, n) == {c \in InScope(s) : Rank(c) <= n}

(* The first n are n unless they are all there is, and come before the rest. *)
LEMMA FirstOnes ==
  ASSUME ServerKnown, NEW s, NEW n \in Nat, NEW c \in InScope(s) \ Ones(s, n)
  PROVE  Cardinality(Ones(s, n)) >= n /\ \A d \in Ones(s, n) : Before(d, c, server)
<1> DEFINE S == InScope(s)
           on == Ones(s, n)
           ranks == {Rank(x) : x \in S \ on}
<1>1. S \subseteq DOMAIN server /\ \A x \in S : Rank(x) \in Nat /\ (x \in on <=> Rank(x) <= n)
  BY RankOf DEF InScope, Ones
<1>2. \A d \in on : Before(d, c, server)
  <2> SUFFICES ASSUME NEW d \in on, ~Before(d, c, server) PROVE FALSE
    OBVIOUS
  <2>1. d \in S /\ c \in S /\ Rank(d) <= n /\ ~(Rank(c) <= n) /\ Rank(d) \in Nat /\ Rank(c) \in Nat
    BY <1>1 DEF Ones
  <2>2. Before(c, d, server)
    BY <1>1, <2>1, SortsStrictly
  <2>3. Rank(c) < Rank(d)
    BY <2>1, <2>2, RankGrows
  <2>4. QED BY <2>1, <2>3
<1>3. PICK b \in S \ on : \A x \in S \ on : Rank(b) <= Rank(x)
  <2>1. ranks \in SUBSET Nat /\ ranks # {}
    BY <1>1
  <2>2. PICK m \in ranks : \A y \in ranks : m <= y
    BY <2>1, LeastNatural
  <2>3. QED BY <2>2
<1>4. UpTo(S, b) \in SUBSET (on \cup {b})
  <2> SUFFICES ASSUME NEW d \in S, Before(d, b, server), d \notin on PROVE FALSE
    BY DEF UpTo
  <2>1. Rank(d) < Rank(b) /\ Rank(b) <= Rank(d)
    BY <1>3, RankGrows
  <2>2. QED BY <1>1, <1>3, <2>1
<1>5. IsFiniteSet(on) /\ Cardinality(on) \in Nat
  <2>1. on \in SUBSET Conv /\ IsFiniteSet(Conv)
    BY SidebarAssumption DEF SidebarAssumption, ServerKnown, Ones, InScope
  <2>2. QED BY <2>1, FS_Subset, FS_CardinalityType
<1>6. b \in S /\ b \notin on /\ Rank(b) = Cardinality(UpTo(S, b)) /\ Rank(b) \in Nat /\ ~(Rank(b) <= n)
  BY <1>1, <1>3, RankOf
<1> HIDE DEF on, S
<1>7. IsFiniteSet(on \cup {b}) /\ Cardinality(on \cup {b}) = Cardinality(on) + 1
  BY <1>5, <1>6, FS_AddElement
<1>8. Cardinality(UpTo(S, b)) <= Cardinality(on \cup {b})
  BY <1>4, <1>7, FS_Subset
<1>9. Cardinality(on) >= n
  BY <1>5, <1>6, <1>7, <1>8
<1>10. QED BY <1>2, <1>9 DEF on

LEMMA LastOfOnes ==
  ASSUME ServerKnown, NEW s, NEW n \in Nat, Ones(s, n) # {}
  PROVE  \E b \in Ones(s, n) : \A d \in Ones(s, n) : d = b \/ Before(d, b, server)
<1> DEFINE ranks == {Rank(x) : x \in Ones(s, n)}
<1>1. \A x \in Ones(s, n) : x \in InScope(s) /\ x \in DOMAIN server /\ Rank(x) \in Nat /\ Rank(x) <= n
  BY RankOf DEF Ones, InScope
<1>2. ranks \in SUBSET Nat /\ ranks # {} /\ \A y \in ranks : y <= n
  BY <1>1
<1>3. PICK m \in ranks : \A y \in ranks : y <= m
  BY <1>2, GreatestNatural
<1>4. PICK b \in Ones(s, n) : Rank(b) = m
  BY <1>3
<1>5. ASSUME NEW d \in Ones(s, n), d # b PROVE Before(d, b, server)
  <2>1. Rank(d) <= Rank(b)
    BY <1>3, <1>4, <1>5
  <2>2. ~Before(b, d, server)
    <3>1. SUFFICES ASSUME Before(b, d, server) PROVE FALSE
      OBVIOUS
    <3>2. Rank(b) < Rank(d)
      BY <1>1, <1>5, <3>1, RankGrows
    <3>3. QED BY <1>1, <1>5, <2>1, <3>2
  <2>3. QED BY <1>1, <1>5, <2>2, SortsStrictly
<1>6. QED BY <1>5

(* A row of a page that came before a session its page left out. *)
Ahead(d, c, page) ==
  /\ c \in Nat /\ d \in Nat /\ page.all[c] \in Int
  /\ page.rows[d].at > page.all[c] \/ (page.rows[d].at = page.all[c] /\ d < c)
FirstPage(answer) == answer \notin {None, Failed} =>
  /\ RowsIn(answer.rows)
  /\ \A c \in DOMAIN answer.all \ DOMAIN answer.rows :
       /\ Cardinality(DOMAIN answer.rows) >= PageSize
       /\ \A d \in DOMAIN answer.rows : Ahead(d, c, answer)
       /\ \E b \in DOMAIN answer.rows : \A d \in DOMAIN answer.rows :
            d = b \/ Before(d, b, answer.rows)

FirstJudges == first # None => FirstPage(first.answer)

LEMMA PageRows == ASSUME ServerKnown, NEW n, NEW s PROVE RowsIn(Page(n, s).rows)
<1> DEFINE on == {c \in InScope(s) : (n - 1) * PageSize < Rank(c) /\ Rank(c) <= n * PageSize}
<1>1. Page(n, s).rows = [c \in on |-> server[c]]
  BY DEF Page
<1>2. on \subseteq DOMAIN server
  BY DEF InScope
<1>3. QED BY <1>1, <1>2 DEF RowsIn, ServerKnown

LEMMA PageJudges == ASSUME ServerKnown, NEW s PROVE FirstPage(Page(1, s))
<1> DEFINE on == Ones(s, PageSize)
           page == Page(1, s)
<1>1. PageSize \in Nat /\ PageSize # 0
  BY SidebarAssumption DEF SidebarAssumption
<1>2. page.rows = [c \in on |-> server[c]] /\ page.all = [c \in InScope(s) |-> server[c].at]
  <2> DEFINE asked == {c \in InScope(s) : (1 - 1) * PageSize < Rank(c) /\ Rank(c) <= 1 * PageSize}
  <2>1. page.rows = [c \in asked |-> server[c]] /\ page.all = [c \in InScope(s) |-> server[c].at]
    BY DEF Page
  <2>2. (1 - 1) * PageSize = 0 /\ 1 * PageSize = PageSize
    BY <1>1
  <2>3. asked = on
    BY <2>2, RankOf DEF Ones
  <2>4. QED BY <2>1, <2>3
<1>3. RowsIn(page.rows)
  BY PageRows
<1>4. on \subseteq InScope(s) /\ InScope(s) \subseteq DOMAIN server
  BY DEF Ones, InScope
<1>5. DOMAIN page.rows = on /\ DOMAIN page.all = InScope(s)
  BY <1>2
<1>6. ASSUME NEW c \in InScope(s) \ on
      PROVE  /\ Cardinality(on) >= PageSize
             /\ \A d \in on : Ahead(d, c, page)
             /\ \E b \in on : \A d \in on : d = b \/ Before(d, b, page.rows)
  <2>1. Cardinality(on) >= PageSize /\ \A d \in on : Before(d, c, server)
    BY <1>1, FirstOnes
  <2>2. \A d \in on : d \in DOMAIN server /\ page.rows[d] = server[d]
    BY <1>2, <1>4
  <2>3. page.all[c] = server[c].at /\ c \in DOMAIN server
    BY <1>2, <1>4
  <2>4. \A d \in DOMAIN server : d \in Nat /\ server[d].at \in Int
    BY SortsStrictly
  <2> HIDE DEF page
  <2>5. \A d \in on : Ahead(d, c, page)
    BY <2>1, <2>2, <2>3, <2>4 DEF Ahead, Before
  <2>6. on # {}
    BY <1>1, <2>1, FS_EmptySet
  <2>7. PICK b \in on : \A d \in on : d = b \/ Before(d, b, server)
    BY <1>1, <2>6, LastOfOnes
  <2>8. \A d \in on : d = b \/ Before(d, b, page.rows)
    BY <2>2, <2>7 DEF Before
  <2>9. QED BY <2>1, <2>5, <2>7, <2>8
<1> HIDE DEF page, on
<1>7. QED BY <1>3, <1>5, <1>6 DEF FirstPage, page

(* What the helpers do to rows. *)
LEMMA PutRows ==
  ASSUME NEW f, RowsIn(f), NEW c, NEW row, Rowed(row) PROVE RowsIn(Put(f, c, row))
  BY DEF Put, RowsIn
LEMMA DropRows == ASSUME NEW f, RowsIn(f), NEW S PROVE RowsIn(Drop(f, S))
  BY DEF Drop, RowsIn
LEMMA MergeRows == ASSUME NEW f, RowsIn(f), NEW g, RowsIn(g) PROVE RowsIn(Merge(f, g))
  BY DEF Merge, RowsIn
LEMMA StampedRows ==
  ASSUME NEW rows, RowsIn(rows), NEW c, NEW now \in Int
  PROVE  RowsIn(Stamped(rows, c, now)) /\ DOMAIN Stamped(rows, c, now) = DOMAIN rows
<1>1. CASE Stamped(rows, c, now) = rows
  BY <1>1
<1>2. CASE Stamped(rows, c, now) = [rows EXCEPT ![c].at = now] /\ c \in DOMAIN rows
  <2>1. Rowed([rows[c] EXCEPT !.at = now])
    BY <1>2 DEF RowsIn, Rowed
  <2>2. [rows EXCEPT ![c].at = now] = [rows EXCEPT ![c] = [rows[c] EXCEPT !.at = now]]
    OBVIOUS
  <2>3. QED BY <1>2, <2>1, <2>2 DEF RowsIn
<1>3. QED BY <1>1, <1>2 DEF Stamped

LEMMA MergedRowRowed ==
  ASSUME NEW row, NEW next, NEW keepsTime, Rowed(row), Rowed(next)
  PROVE  Rowed(MergedRow(row, next, keepsTime))
<1> DEFINE title == IF row.at > next.at THEN row.title ELSE next.title
           at == IF keepsTime THEN row.at ELSE next.at
<1>1. MergedRow(row, next, keepsTime) =
        [title |-> title, pinned |-> next.pinned, draft |-> next.draft, at |-> at]
  <2>1. next = [title |-> next.title, pinned |-> next.pinned, draft |-> next.draft, at |-> next.at]
    BY DEF Rowed
  <2>2. MergedRow(row, next, keepsTime) = [next EXCEPT !.title = title, !.at = at]
    BY DEF MergedRow
  <2> HIDE DEF title, at
  <2>3. QED BY <2>1, <2>2
<1>2. at \in Int
  BY DEF Rowed
<1> HIDE DEF title, at
<1>3. QED BY <1>1, <1>2 DEF Rowed

LEMMA ReceivedRows == ASSUME RowsIn(byId), NEW rows, RowsIn(rows) PROVE RowsIn(Received(rows))
<1> SUFFICES ASSUME NEW c \in DOMAIN rows PROVE Rowed(Received(rows)[c])
  BY ReceivedDomain DEF RowsIn
<1>1. Rowed(rows[c])
  BY DEF RowsIn
<1>2. CASE c \in DOMAIN byId
  <2>1. Rowed(byId[c])
    BY <1>2 DEF RowsIn
  <2>2. Received(rows)[c] = MergedRow(byId[c], rows[c], c \in held)
    BY <1>2 DEF Received
  <2>3. QED BY <1>1, <2>1, <2>2, MergedRowRowed
<1>3. CASE c \notin DOMAIN byId
  BY <1>1, <1>3 DEF Received
<1>4. QED BY <1>2, <1>3

(* The requests of the server are those of runMutation(). *)
AMutation(m) == m # None =>
  /\ m.kind \in {"rename", "pin", "delete"}
  /\ m = [kind |-> m.kind, previous |-> m.previous, answer |-> m.answer]
  /\ Rowed(m.previous) /\ (m.answer \notin {None, Failed} => Rowed(m.answer))
MutationsKnown == DOMAIN mutation = Conv /\ \A c \in Conv : AMutation(mutation[c])
MoreKnown == more # None => (more.answer \notin {None, Failed} => RowsIn(more.answer.rows))
FetchesKnown == \A f \in fetches : f.answer # None => Rowed(f.answer.row)
PagesInv ==
  /\ changes \in Int /\ ServerKnown /\ RowsIn(byId)
  /\ MutationsKnown /\ FirstJudges /\ MoreKnown /\ FetchesKnown

LEMMA ChangesStep == ASSUME changes \in Int, [Next]_vars PROVE changes' \in Int
<1>1. ASSUME changes' = changes \/ Happens PROVE changes' \in Int
  BY <1>1 DEF Happens
<1>2. ASSUME NEW c, \/ CreatedElsewhere(c) \/ RenamedElsewhere(c) \/ DeletedElsewhere(c)
                    \/ RunsElsewhere(c) \/ Rename(c) \/ SetPinned(c) \/ Remove(c)
                    \/ UpsertLocal(c) \/ ApplyRunningPatch(c)
      PROVE  changes' \in Int
  BY <1>1, <1>2
  DEF CreatedElsewhere, RenamedElsewhere, DeletedElsewhere, RunsElsewhere, Rename, SetPinned,
      Remove, Change, UpsertLocal, ApplyRunningPatch
<1>3. ASSUME NEW c, Execute(c) \/ Settled(c) \/ HoldEnds(c) \/ RemoveLocal(c)
      PROVE  changes' \in Int
  BY <1>1, <1>3 DEF Execute, Settled, HoldEnds, RemoveLocal
<1>4. ASSUME NEW f, AnswerFetch(f) \/ LandFetch(f) PROVE changes' \in Int
  BY <1>1, <1>4 DEF AnswerFetch, LandFetch
<1>5. CASE \/ Start \/ Stop \/ Refresh \/ (\E s \in Scope \cup {None} : SetScope(s))
           \/ Deliver \/ Disconnect \/ Connect
  BY <1>1, <1>5 DEF Start, Stop, Refresh, SetScope, Deliver, Disconnect, Connect
<1>6. CASE AnswerFirst \/ LandFirst \/ LoadMore \/ AnswerMore \/ LandMore
  BY <1>1, <1>6 DEF AnswerFirst, LandFirst, LoadMore, AnswerMore, LandMore
<1>7. CASE UNCHANGED vars
  BY <1>1, <1>7 DEF vars
<1>8. QED BY <1>2, <1>3, <1>4, <1>5, <1>6, <1>7 DEF Next

LEMMA WantedRows ==
  ASSUME PagesInv, NEW c \in Conv, c \in DOMAIN server, mutation[c] # None
  PROVE  DOMAIN Wanted(c) \subseteq Conv /\ RowsIn(Wanted(c))
<1>1. mutation[c].kind \in {"rename", "pin", "delete"}
  BY DEF PagesInv, MutationsKnown, AMutation
<1>2. Rowed(server[c]) /\ RowsIn(server) /\ DOMAIN server \subseteq Conv
  BY DEF PagesInv, ServerKnown, RowsIn
<1>3. ASSUME NEW row, Rowed(row), Wanted(c) = Put(server, c, row)
      PROVE  DOMAIN Wanted(c) \subseteq Conv /\ RowsIn(Wanted(c))
  <2>1. DOMAIN Put(server, c, row) = DOMAIN server \cup {c}
    BY PutDomain, Zenon
  <2>2. RowsIn(Put(server, c, row))
    BY <1>2, <1>3, PutRows, Zenon
  <2>3. QED BY <1>2, <1>3, <2>1, <2>2
<1>4. CASE mutation[c].kind = "rename"
  <2> DEFINE title == mutation[c].previous.title + 1
             row == [server[c] EXCEPT !.title = title]
  <2>1. Wanted(c) = Put(server, c, row)
    BY <1>4 DEF Wanted
  <2>2. Rowed(row)
    BY <1>2 DEF Rowed
  <2> HIDE DEF row
  <2>3. QED BY <1>3, <2>1, <2>2
<1>5. CASE mutation[c].kind = "pin"
  <2> DEFINE row == [server[c] EXCEPT !.pinned = ~mutation[c].previous.pinned]
  <2>1. Wanted(c) = Put(server, c, row)
    BY <1>5 DEF Wanted
  <2>2. Rowed(row)
    BY <1>2 DEF Rowed
  <2> HIDE DEF row
  <2>3. QED BY <1>3, <2>1, <2>2
<1>6. CASE mutation[c].kind = "delete"
  <2>1. Wanted(c) = Drop(server, {c})
    BY <1>6 DEF Wanted
  <2>2. DOMAIN Drop(server, {c}) = DOMAIN server \ {c} /\ RowsIn(Drop(server, {c}))
    BY <1>2, DropDomain, DropRows, Zenon
  <2>3. QED BY <1>2, <2>1, <2>2
<1>7. QED BY <1>1, <1>4, <1>5, <1>6

(* What the server does, and with what it answers. *)
LEMMA Executed ==
  ASSUME PagesInv, NEW c \in Conv, Execute(c)
  PROVE  /\ ServerKnown'
         /\ \E answer : /\ mutation' = [mutation EXCEPT ![c].answer = answer]
                        /\ answer # Failed => Rowed(answer)
<1>1. mutation[c] # None /\ mutation[c].kind \in {"rename", "pin", "delete"}
  BY DEF Execute, PagesInv, MutationsKnown, AMutation
<1>2. CASE mutation' = [mutation EXCEPT ![c].answer = Failed] /\ UNCHANGED server
  BY <1>2 DEF PagesInv, ServerKnown
<1>3. CASE c \in DOMAIN server /\ server' = Stamped(Wanted(c), c, changes)
  <2>1. DOMAIN Wanted(c) \subseteq Conv /\ RowsIn(Wanted(c))
    BY <1>1, <1>3, WantedRows
  <2>2. RowsIn(server') /\ DOMAIN server' = DOMAIN Wanted(c)
    BY <1>3, <2>1, StampedRows DEF PagesInv
  <2>3. ServerKnown'
    BY <2>1, <2>2 DEF ServerKnown, RowsIn
  <2>4. CASE mutation' = [mutation EXCEPT ![c].answer = Failed]
    BY <2>3, <2>4
  <2>5. CASE mutation' = [mutation EXCEPT ![c].answer =
                            IF mutation[c].kind = "delete" THEN New(0) ELSE server'[c]]
    <3>1. Rowed(New(0))
      BY DEF New, Rowed
    <3>2. CASE mutation[c].kind = "delete"
      BY <2>3, <2>5, <3>1, <3>2
    <3>3. CASE mutation[c].kind # "delete"
      <4>1. \E row : Wanted(c) = Put(server, c, row)
        BY <1>1, <3>3 DEF Wanted
      <4>2. c \in DOMAIN Wanted(c)
        <5>1. PICK row : Wanted(c) = Put(server, c, row)
          BY <4>1
        <5>2. DOMAIN Put(server, c, row) = DOMAIN server \cup {c}
          BY PutDomain, Zenon
        <5>3. QED BY <5>1, <5>2
      <4>3. Rowed(server'[c])
        BY <2>2, <4>2 DEF RowsIn
      <4>4. QED BY <2>3, <2>5, <3>3, <4>3
    <3>4. QED BY <3>2, <3>3
  <2>6. QED BY <1>2, <1>3, <2>4, <2>5 DEF Execute
<1>4. QED BY <1>2, <1>3 DEF Execute

LEMMA MutationsStep == ASSUME PagesInv, [Next]_vars PROVE MutationsKnown'
<1>0. MutationsKnown
  BY DEF PagesInv
<1>1. ASSUME mutation' = mutation PROVE MutationsKnown'
  BY <1>0, <1>1 DEF MutationsKnown
<1>2. ASSUME NEW c \in Conv, NEW m, mutation' = [mutation EXCEPT ![c] = m], AMutation(m)
      PROVE  MutationsKnown'
  BY <1>0, <1>2 DEF MutationsKnown
<1>3. Renamable \cup Pinnable \cup Deletable \subseteq Conv
  BY SidebarAssumption DEF SidebarAssumption
<1>4. ASSUME NEW c \in Conv, Rename(c) \/ SetPinned(c) \/ Remove(c) PROVE MutationsKnown'
  <2>1. PICK kind \in {"rename", "pin", "delete"} :
          /\ mutation' = [mutation EXCEPT ![c] = [kind |-> kind, previous |-> byId[c], answer |-> None]]
          /\ c \in DOMAIN byId
    BY <1>4 DEF Rename, SetPinned, Remove, Change
  <2>2. Rowed(byId[c])
    BY <2>1 DEF PagesInv, RowsIn
  <2>3. AMutation([kind |-> kind, previous |-> byId[c], answer |-> None])
    BY <2>2 DEF AMutation
  <2>4. QED BY <1>2, <2>1, <2>3
<1>5. ASSUME NEW c \in Conv, Execute(c) PROVE MutationsKnown'
  <2>1. PICK answer : /\ mutation' = [mutation EXCEPT ![c].answer = answer]
                      /\ answer # Failed => Rowed(answer)
    BY <1>5, Executed
  <2>2. mutation[c] # None /\ AMutation(mutation[c])
    BY <1>0, <1>5 DEF Execute, MutationsKnown
  <2>3. [mutation[c] EXCEPT !.answer = answer] =
          [kind |-> mutation[c].kind, previous |-> mutation[c].previous, answer |-> answer]
    BY <2>2 DEF AMutation
  <2>4. AMutation([mutation[c] EXCEPT !.answer = answer])
    BY <2>1, <2>2, <2>3 DEF AMutation
  <2>5. mutation' = [mutation EXCEPT ![c] = [mutation[c] EXCEPT !.answer = answer]]
    BY <2>1
  <2>6. QED BY <1>2, <2>4, <2>5
<1>6. ASSUME NEW c \in Conv, Settled(c) PROVE MutationsKnown'
  BY <1>2, <1>6 DEF Settled, AMutation
<1>7. ASSUME NEW c, \/ CreatedElsewhere(c) \/ RenamedElsewhere(c)
                    \/ DeletedElsewhere(c) \/ RunsElsewhere(c)
      PROVE  MutationsKnown'
  BY <1>1, <1>7 DEF CreatedElsewhere, RenamedElsewhere, DeletedElsewhere, RunsElsewhere, Elsewhere
<1>8. ASSUME NEW c, UpsertLocal(c) \/ RemoveLocal(c) \/ ApplyRunningPatch(c) \/ HoldEnds(c)
      PROVE  MutationsKnown'
  BY <1>1, <1>8 DEF UpsertLocal, RemoveLocal, ApplyRunningPatch, HoldEnds
<1>9. ASSUME NEW f, AnswerFetch(f) \/ LandFetch(f) PROVE MutationsKnown'
  BY <1>1, <1>9 DEF AnswerFetch, LandFetch
<1>10. CASE \/ Start \/ Stop \/ Refresh \/ (\E s \in Scope \cup {None} : SetScope(s))
            \/ Deliver \/ Disconnect \/ Connect
  BY <1>1, <1>10 DEF Start, Stop, Refresh, SetScope, Deliver, Disconnect, Connect
<1>11. CASE AnswerFirst \/ LandFirst \/ LoadMore \/ AnswerMore \/ LandMore
  BY <1>1, <1>11 DEF AnswerFirst, LandFirst, LoadMore, AnswerMore, LandMore
<1>12. CASE UNCHANGED vars
  BY <1>1, <1>12 DEF vars
<1>13. QED
  BY <1>3, <1>4, <1>5, <1>6, <1>7, <1>8, <1>9, <1>10, <1>11, <1>12 DEF Next

LEMMA ServerStep == ASSUME PagesInv, [Next]_vars PROVE ServerKnown'
<1>0. ServerKnown /\ RowsIn(server) /\ DOMAIN server \subseteq Conv
  BY DEF PagesInv, ServerKnown
<1>1. ASSUME server' = server PROVE ServerKnown'
  BY <1>0, <1>1 DEF ServerKnown
<1>2. Renamable \cup Pinnable \cup Deletable \cup Draftable \subseteq Conv
  BY SidebarAssumption DEF SidebarAssumption
<1>3. ASSUME NEW rows, RowsIn(rows), DOMAIN rows \subseteq Conv, server' = rows PROVE ServerKnown'
  BY <1>3 DEF ServerKnown, RowsIn
<1>4. changes' \in Int
  BY ChangesStep DEF PagesInv
<1>5. ASSUME NEW c \in Conv, \/ CreatedElsewhere(c) \/ RenamedElsewhere(c)
                             \/ DeletedElsewhere(c) \/ RunsElsewhere(c)
      PROVE  ServerKnown'
  <2>1. CASE CreatedElsewhere(c)
    <3>1. Rowed(New(changes'))
      BY <1>4 DEF New, Rowed
    <3>2. RowsIn(Put(server, c, New(changes'))) /\ DOMAIN Put(server, c, New(changes')) \subseteq Conv
      <4>1. DOMAIN Put(server, c, New(changes')) = DOMAIN server \cup {c}
        BY PutDomain, Zenon
      <4>2. RowsIn(Put(server, c, New(changes')))
        BY <1>0, <3>1, PutRows, Zenon
      <4>3. QED BY <1>0, <4>1, <4>2
    <3>3. server' = Put(server, c, New(changes'))
      BY <2>1 DEF CreatedElsewhere
    <3>4. QED BY <1>3, <3>2, <3>3
  <2>2. CASE RenamedElsewhere(c)
    <3> DEFINE rows == [server EXCEPT ![c].title = @ + 1]
    <3>1. c \in DOMAIN server /\ server' = Stamped(rows, c, changes')
      BY <2>2 DEF RenamedElsewhere
    <3>2. RowsIn(rows) /\ DOMAIN rows = DOMAIN server
      <4>1. Rowed([server[c] EXCEPT !.title = server[c].title + 1])
        BY <1>0, <3>1 DEF RowsIn, Rowed
      <4>2. rows = [server EXCEPT ![c] = [server[c] EXCEPT !.title = server[c].title + 1]]
        OBVIOUS
      <4> HIDE DEF rows
      <4>3. QED BY <1>0, <3>1, <4>1, <4>2 DEF RowsIn
    <3> HIDE DEF rows
    <3>3. QED BY <1>0, <1>3, <1>4, <3>1, <3>2, StampedRows
  <2>3. CASE DeletedElsewhere(c)
    <3>1. server' = Drop(server, {c})
      BY <2>3 DEF DeletedElsewhere
    <3>2. RowsIn(Drop(server, {c})) /\ DOMAIN Drop(server, {c}) \subseteq Conv
      BY <1>0, DropRows, DropDomain
    <3>3. QED BY <1>3, <3>1, <3>2
  <2>4. CASE RunsElsewhere(c)
    <3>1. c \in DOMAIN server /\ server' = [server EXCEPT ![c].at = changes']
      BY <2>4 DEF RunsElsewhere
    <3>2. server' = [server EXCEPT ![c] = [server[c] EXCEPT !.at = changes']]
      BY <3>1
    <3>3. Rowed([server[c] EXCEPT !.at = changes'])
      BY <1>0, <1>4, <3>1 DEF RowsIn, Rowed
    <3>4. QED BY <1>0, <3>2, <3>3 DEF ServerKnown, RowsIn
  <2>5. QED BY <1>5, <2>1, <2>2, <2>3, <2>4
<1>6. ASSUME NEW c \in Conv, Execute(c) PROVE ServerKnown'
  BY <1>6, Executed
<1>7. ASSUME NEW c, Rename(c) \/ SetPinned(c) \/ Remove(c) \/ Settled(c) PROVE ServerKnown'
  BY <1>1, <1>7 DEF Rename, SetPinned, Remove, Change, Settled, net
<1>8. ASSUME NEW c, UpsertLocal(c) \/ RemoveLocal(c) \/ ApplyRunningPatch(c) \/ HoldEnds(c)
      PROVE  ServerKnown'
  BY <1>1, <1>8 DEF UpsertLocal, RemoveLocal, ApplyRunningPatch, HoldEnds, net
<1>9. ASSUME NEW f, AnswerFetch(f) \/ LandFetch(f) PROVE ServerKnown'
  BY <1>1, <1>9 DEF AnswerFetch, LandFetch, net
<1>10. CASE \/ Start \/ Stop \/ Refresh \/ (\E s \in Scope \cup {None} : SetScope(s))
            \/ Deliver \/ Disconnect \/ Connect
  BY <1>1, <1>10 DEF Start, Stop, Refresh, SetScope, Deliver, Disconnect, Connect, net
<1>11. CASE AnswerFirst \/ LandFirst \/ LoadMore \/ AnswerMore \/ LandMore
  BY <1>1, <1>11 DEF AnswerFirst, LandFirst, LoadMore, AnswerMore, LandMore, net
<1>12. CASE UNCHANGED vars
  BY <1>1, <1>12 DEF vars, net
<1>13. QED
  BY <1>2, <1>5, <1>6, <1>7, <1>8, <1>9, <1>10, <1>11, <1>12 DEF Next

(* What a step does to the first-page request: nothing, or it is outdated or *)
(* begun anew, with the workspace, by start() and stop(), or where there was *)
(* none; or it is answered, or its answer lands.                             *)
Unanswered(r) == r = None \/ r.answer = None
FirstMoves ==
  \/ first' = first
  \/ /\ first' = Outdated(first) \/ Unanswered(first')
     /\ scope' # scope \/ started' # started \/ first = None
  \/ AnswerFirst
  \/ LandFirst /\ Unanswered(first')

LEMMA BeginAsks ==
  ASSUME NEW v, NEW s, NEW reload, Begin(v, s, reload) PROVE Unanswered(first')
  BY DEF Begin, Request, Unanswered

LEMMA FirstStep == ASSUME [Next]_vars PROVE FirstMoves
<1>1. ASSUME UNCHANGED list PROVE FirstMoves
  BY <1>1 DEF list, FirstMoves
<1>2. ASSUME NEW v, NEW s, NEW reload, NEW moreNow, FetchFirst(v, s, reload, first, moreNow)
      PROVE  FirstMoves
  BY <1>2, BeginAsks DEF FetchFirst, FirstMoves
<1>3. ASSUME NEW c, \/ CreatedElsewhere(c) \/ RenamedElsewhere(c) \/ DeletedElsewhere(c)
                    \/ RunsElsewhere(c) \/ Execute(c)
      PROVE  FirstMoves
  BY <1>1, <1>3
  DEF CreatedElsewhere, RenamedElsewhere, DeletedElsewhere, RunsElsewhere, Elsewhere, Execute
<1>4. ASSUME NEW c, \/ Rename(c) \/ SetPinned(c) \/ Remove(c) \/ Settled(c)
                    \/ UpsertLocal(c) \/ RemoveLocal(c) \/ ApplyRunningPatch(c) \/ HoldEnds(c)
      PROVE  FirstMoves
  BY <1>1, <1>4
  DEF Rename, SetPinned, Remove, Change, Settled, UpsertLocal, RemoveLocal, ApplyRunningPatch,
      HoldEnds
<1>5. ASSUME NEW f, AnswerFetch(f) \/ LandFetch(f) PROVE FirstMoves
  BY <1>1, <1>5 DEF AnswerFetch, LandFetch, FirstMoves, list
<1>6. CASE Start \/ Refresh
  BY <1>2, <1>6 DEF Start, Refresh
<1>7. CASE Connect
  BY <1>1, <1>2, <1>7 DEF Connect
<1>8. CASE Stop
  BY <1>8 DEF Stop, FirstMoves
<1>9. ASSUME NEW s, SetScope(s) PROVE FirstMoves
  <2>1. scope' # scope
    BY <1>9 DEF SetScope
  <2>2. first' = Outdated(first) \/ Unanswered(first')
    <3>1. CASE started
      <4>1. PICK v : FetchFirst(v, s, TRUE, Outdated(first), None)
        BY <1>9, <3>1 DEF SetScope
      <4>2. QED BY <4>1, BeginAsks DEF FetchFirst
    <3>2. CASE ~started
      BY <1>9, <3>2 DEF SetScope
    <3>3. QED BY <3>1, <3>2
  <2>3. QED BY <2>1, <2>2 DEF FirstMoves
<1>10. CASE Deliver \/ Disconnect \/ LoadMore \/ AnswerMore \/ LandMore
  BY <1>10 DEF Deliver, Disconnect, LoadMore, AnswerMore, LandMore, list, FirstMoves
<1>11. CASE LandFirst
  <2>1. PICK v : Settle(v)
    BY <1>11 DEF LandFirst
  <2>2. Unanswered(first')
    BY <2>1, BeginAsks DEF Settle, Unanswered
  <2>3. QED BY <1>11, <2>2 DEF FirstMoves
<1>12. CASE AnswerFirst
  BY <1>12 DEF FirstMoves
<1>13. CASE UNCHANGED vars
  BY <1>1, <1>13 DEF vars
<1>14. QED
  BY <1>3, <1>4, <1>5, <1>6, <1>7, <1>8, <1>9, <1>10, <1>11, <1>12, <1>13 DEF Next

LEMMA FirstJudgesStep == ASSUME IInv, PagesInv, [Next]_vars PROVE FirstJudges'
<1>1. ASSUME first' = first PROVE FirstJudges'
  BY <1>1 DEF PagesInv, FirstJudges
<1>2. ASSUME first' = Outdated(first) PROVE FirstJudges'
  BY <1>2 DEF PagesInv, FirstJudges, Outdated, IInv, Requests, FirstShaped
<1>3. ASSUME Unanswered(first') PROVE FirstJudges'
  BY <1>3 DEF FirstJudges, FirstPage, Unanswered
<1>4. ASSUME AnswerFirst PROVE FirstJudges'
  <2>1. PICK answer \in {Page(1, first.scope), Failed} : first' = [first EXCEPT !.answer = answer]
    BY <1>4 DEF AnswerFirst
  <2>2. FirstPage(answer)
    BY <2>1, PageJudges DEF PagesInv, FirstPage
  <2>3. first'.answer = answer
    BY <1>4, <2>1 DEF AnswerFirst, IInv, Requests, FirstShaped
  <2>4. QED BY <2>2, <2>3 DEF FirstJudges
<1>5. QED BY <1>1, <1>2, <1>3, <1>4, FirstStep DEF FirstMoves

(* The request for another page is left, begun, answered or dropped. *)
LEMMA MoreKnownStep == ASSUME IInv, PagesInv, [Next]_vars PROVE MoreKnown'
<1>0. ASSUME more' = more \/ more' = None PROVE MoreKnown'
  BY <1>0 DEF PagesInv, MoreKnown
<1>1. ASSUME UNCHANGED list PROVE MoreKnown'
  BY <1>0, <1>1 DEF list
<1>2. ASSUME NEW v, NEW s, NEW reload, NEW r, NEW moreNow, FetchFirst(v, s, reload, r, moreNow),
             moreNow \in {more, None}
      PROVE  MoreKnown'
  BY <1>0, <1>2 DEF FetchFirst, Begin
<1>3. ASSUME NEW c, \/ CreatedElsewhere(c) \/ RenamedElsewhere(c) \/ DeletedElsewhere(c)
                    \/ RunsElsewhere(c) \/ Execute(c)
      PROVE  MoreKnown'
  BY <1>1, <1>3
  DEF CreatedElsewhere, RenamedElsewhere, DeletedElsewhere, RunsElsewhere, Elsewhere, Execute
<1>4. ASSUME NEW c, \/ Rename(c) \/ SetPinned(c) \/ Remove(c) \/ Settled(c)
                    \/ UpsertLocal(c) \/ RemoveLocal(c) \/ ApplyRunningPatch(c) \/ HoldEnds(c)
      PROVE  MoreKnown'
  BY <1>1, <1>4
  DEF Rename, SetPinned, Remove, Change, Settled, UpsertLocal, RemoveLocal, ApplyRunningPatch,
      HoldEnds
<1>5. ASSUME NEW f, AnswerFetch(f) \/ LandFetch(f) PROVE MoreKnown'
  BY <1>1, <1>5 DEF AnswerFetch, LandFetch
<1>6. CASE Start \/ Refresh
  BY <1>2, <1>6 DEF Start, Refresh
<1>7. CASE Connect
  BY <1>1, <1>2, <1>7 DEF Connect
<1>8. CASE Stop
  BY <1>0, <1>8 DEF Stop
<1>9. ASSUME NEW s, SetScope(s) PROVE MoreKnown'
  <2>1. more' = None \/ \E v : FetchFirst(v, s, TRUE, Outdated(first), None)
    BY <1>9 DEF SetScope
  <2>2. QED BY <1>0, <1>2, <2>1
<1>10. CASE Deliver \/ Disconnect
  BY <1>1, <1>10 DEF Deliver, Disconnect
<1>11. CASE AnswerFirst \/ LandMore
  BY <1>0, <1>11 DEF AnswerFirst, LandMore
<1>12. CASE LoadMore
  BY <1>12 DEF LoadMore, MoreKnown
<1>13. CASE AnswerMore
  <2>1. PICK answer \in {Page(more.page, more.scope), Failed} : more' = [more EXCEPT !.answer = answer]
    BY <1>13 DEF AnswerMore
  <2>2. more'.answer = answer
    BY <1>13, <2>1 DEF AnswerMore, IInv, Requests, MoreShaped
  <2>3. answer # Failed => RowsIn(answer.rows)
    BY <2>1, PageRows DEF PagesInv
  <2>4. QED BY <2>2, <2>3 DEF MoreKnown
<1>14. CASE LandFirst
  <2>1. PICK v : Settle(v)
    BY <1>14 DEF LandFirst
  <2>2. QED BY <1>0, <2>1 DEF Settle, Begin
<1>15. CASE UNCHANGED vars
  BY <1>1, <1>15 DEF vars
<1>16. QED
  BY <1>3, <1>4, <1>5, <1>6, <1>7, <1>8, <1>9, <1>10, <1>11, <1>12, <1>13, <1>14, <1>15 DEF Next

LEMMA FetchesStep == ASSUME PagesInv, [Next]_vars PROVE FetchesKnown'
<1>0. FetchesKnown
  BY DEF PagesInv
<1>1. ASSUME fetches' \subseteq fetches PROVE FetchesKnown'
  BY <1>0, <1>1 DEF FetchesKnown
<1>2. ASSUME NEW c, \/ CreatedElsewhere(c) \/ RenamedElsewhere(c) \/ DeletedElsewhere(c)
                    \/ RunsElsewhere(c) \/ Execute(c)
      PROVE  FetchesKnown'
  BY <1>1, <1>2
  DEF CreatedElsewhere, RenamedElsewhere, DeletedElsewhere, RunsElsewhere, Elsewhere, Execute
<1>3. ASSUME NEW c, \/ Rename(c) \/ SetPinned(c) \/ Remove(c) \/ Settled(c)
                    \/ UpsertLocal(c) \/ RemoveLocal(c) \/ ApplyRunningPatch(c) \/ HoldEnds(c)
      PROVE  FetchesKnown'
  BY <1>1, <1>3
  DEF Rename, SetPinned, Remove, Change, Settled, UpsertLocal, RemoveLocal, ApplyRunningPatch,
      HoldEnds
<1>4. CASE \/ Start \/ Stop \/ Refresh \/ (\E s \in Scope \cup {None} : SetScope(s))
           \/ Disconnect \/ Connect
  BY <1>1, <1>4 DEF Start, Stop, Refresh, SetScope, Disconnect, Connect
<1>5. CASE AnswerFirst \/ LandFirst \/ LoadMore \/ AnswerMore \/ LandMore
  BY <1>1, <1>5 DEF AnswerFirst, LandFirst, LoadMore, AnswerMore, LandMore
<1>6. CASE Deliver
  <2>1. \A f \in fetches' : f \in fetches \/ f.answer = None
    BY <1>6 DEF Deliver
  <2>2. QED BY <1>0, <2>1 DEF FetchesKnown
<1>7. ASSUME NEW f \in fetches, AnswerFetch(f) PROVE FetchesKnown'
  <2>1. CASE f.conv \in DOMAIN server
    <3> DEFINE answer == [row |-> server[f.conv], busy |-> f.conv \in busy]
               g == [f EXCEPT !.answer = answer]
    <3>1. \A h \in fetches' : h \in fetches \/ h = g
      BY <1>7, <2>1 DEF AnswerFetch
    <3>2. Rowed(server[f.conv])
      BY <2>1 DEF PagesInv, ServerKnown, RowsIn
    <3>3. g.answer = answer \/ g.answer = f.answer
      OBVIOUS
    <3>4. g.answer # None => Rowed(g.answer.row)
      BY <1>0, <3>2, <3>3 DEF FetchesKnown
    <3> HIDE DEF g
    <3>5. QED BY <1>0, <3>1, <3>4 DEF FetchesKnown
  <2>2. CASE f.conv \notin DOMAIN server
    BY <1>1, <1>7, <2>2 DEF AnswerFetch
  <2>3. QED BY <2>1, <2>2
<1>8. ASSUME NEW f \in fetches, LandFetch(f) PROVE FetchesKnown'
  BY <1>1, <1>8 DEF LandFetch
<1>9. CASE UNCHANGED vars
  BY <1>1, <1>9 DEF vars
<1>10. QED
  BY <1>2, <1>3, <1>4, <1>5, <1>6, <1>7, <1>8, <1>9 DEF Next

(* The rows of the list come from pages, fetches, changes and the answers to *)
(* them.                                                                    *)
LEMMA RowsStep == ASSUME PagesInv, [Next]_vars PROVE RowsIn(byId')
<1>0. RowsIn(byId)
  BY DEF PagesInv
<1>1. ASSUME byId' = byId PROVE RowsIn(byId')
  BY <1>0, <1>1
<1>2. ASSUME NEW c, NEW row, Rowed(row), byId' = Put(byId, c, row) PROVE RowsIn(byId')
  BY <1>0, <1>2, PutRows, Zenon
<1>3. ASSUME NEW S, byId' = Drop(byId, S) PROVE RowsIn(byId')
  BY <1>0, <1>3, DropRows, Zenon
<1>4. ASSUME NEW rows, RowsIn(rows) PROVE RowsIn(Merge(byId, Received(rows)))
  BY <1>0, <1>4, ReceivedRows, MergeRows, Zenon
<1>5. ASSUME NEW c, \/ CreatedElsewhere(c) \/ RenamedElsewhere(c) \/ DeletedElsewhere(c)
                    \/ RunsElsewhere(c) \/ Execute(c) \/ ApplyRunningPatch(c) \/ HoldEnds(c)
      PROVE  RowsIn(byId')
  BY <1>1, <1>5
  DEF CreatedElsewhere, RenamedElsewhere, DeletedElsewhere, RunsElsewhere, Elsewhere, Execute,
      ApplyRunningPatch, HoldEnds
<1>6. ASSUME NEW c, Rename(c) \/ SetPinned(c) PROVE RowsIn(byId')
  <2>1. c \in DOMAIN byId /\ Rowed(byId[c])
    BY <1>0, <1>6 DEF Rename, SetPinned, RowsIn
  <2>2. ASSUME NEW row, Rowed(row), byId' = [byId EXCEPT ![c] = row] PROVE RowsIn(byId')
    BY <1>0, <2>2 DEF RowsIn
  <2>3. CASE Rename(c)
    <3>1. Rowed([byId[c] EXCEPT !.title = byId[c].title + 1])
      BY <2>1 DEF Rowed
    <3>2. byId' = [byId EXCEPT ![c] = [byId[c] EXCEPT !.title = byId[c].title + 1]]
      BY <2>3 DEF Rename, Change
    <3>3. QED BY <2>2, <3>1, <3>2
  <2>4. CASE SetPinned(c)
    <3>1. Rowed([byId[c] EXCEPT !.pinned = ~byId[c].pinned])
      BY <2>1 DEF Rowed
    <3>2. byId' = [byId EXCEPT ![c] = [byId[c] EXCEPT !.pinned = ~byId[c].pinned]]
      BY <2>4 DEF SetPinned, Change
    <3>3. QED BY <2>2, <3>1, <3>2
  <2>5. QED BY <1>6, <2>3, <2>4
<1>7. ASSUME NEW c, Remove(c) \/ RemoveLocal(c) PROVE RowsIn(byId')
  BY <1>3, <1>7 DEF Remove, RemoveLocal, Change
<1>8. ASSUME NEW c \in Conv, UpsertLocal(c) PROVE RowsIn(byId')
  <2>1. byId' = Put(byId, c, [New(changes') EXCEPT !.draft = TRUE])
    BY <1>8 DEF UpsertLocal
  <2>2. changes' \in Int
    BY ChangesStep DEF PagesInv
  <2>3. Rowed([New(changes') EXCEPT !.draft = TRUE])
    <3>1. ASSUME NEW row, Rowed(row), NEW b PROVE Rowed([row EXCEPT !.draft = b])
      BY <3>1 DEF Rowed
    <3>2. Rowed(New(changes'))
      BY <2>2 DEF New, Rowed
    <3>3. QED BY <3>1, <3>2
  <2>4. QED BY <1>2, <2>1, <2>3
<1>9. ASSUME NEW c \in Conv, Settled(c) PROVE RowsIn(byId')
  <2> DEFINE m == mutation[c]
             confirmed == IF c \in DOMAIN byId THEN MergedRow(byId[c], m.answer, TRUE) ELSE m.answer
             row == IF m.answer = Failed THEN m.previous ELSE confirmed
  <2>1. byId' = byId \/ byId' = Put(byId, c, row)
    <3>1. CASE m.kind = "delete" /\ m.answer # Failed
      BY <1>9, <3>1 DEF Settled
    <3>2. CASE ~(m.kind = "delete" /\ m.answer # Failed)
      BY <1>9, <3>2 DEF Settled
    <3>3. QED BY <3>1, <3>2
  <2>2. AMutation(m) /\ m # None /\ m.answer # None
    BY <1>9 DEF PagesInv, MutationsKnown, Settled
  <2>3. Rowed(row)
    <3>1. CASE m.answer = Failed
      BY <2>2, <3>1 DEF AMutation
    <3>2. CASE m.answer # Failed
      <4>1. Rowed(m.answer)
        BY <2>2, <3>2 DEF AMutation
      <4>2. c \in DOMAIN byId => Rowed(MergedRow(byId[c], m.answer, TRUE))
        BY <1>0, <4>1, MergedRowRowed DEF RowsIn
      <4>3. QED BY <3>2, <4>1, <4>2
    <3>3. QED BY <3>1, <3>2
  <2> HIDE DEF row
  <2>4. QED BY <1>1, <1>2, <2>1, <2>3
<1>10. CASE Deliver
  <2>1. byId' = byId \/ byId' = Drop(byId, {Head(inbox).conv})
    BY <1>10 DEF Deliver
  <2>2. QED BY <1>1, <1>3, <2>1
<1>11. ASSUME NEW f \in fetches, LandFetch(f) PROVE RowsIn(byId')
  <2>1. byId' = Merge(byId, Received([c \in {f.conv} |-> f.answer.row])) /\ f.answer # None
    BY <1>11 DEF LandFetch
  <2>2. Rowed(f.answer.row)
    BY <2>1 DEF PagesInv, FetchesKnown
  <2>3. RowsIn([c \in {f.conv} |-> f.answer.row])
    BY <2>2 DEF RowsIn
  <2>4. QED BY <1>4, <2>1, <2>3
<1>12. ASSUME NEW f, AnswerFetch(f) PROVE RowsIn(byId')
  BY <1>1, <1>12 DEF AnswerFetch
<1>13. CASE \/ Start \/ Stop \/ Refresh \/ (\E s \in Scope \cup {None} : SetScope(s))
            \/ Disconnect \/ Connect
  BY <1>1, <1>13 DEF Start, Stop, Refresh, SetScope, Disconnect, Connect
<1>14. CASE AnswerFirst \/ LoadMore \/ AnswerMore
  BY <1>1, <1>14 DEF AnswerFirst, LoadMore, AnswerMore
<1>15. CASE LandFirst
  <2>1. byId' = byId \/ (first.answer \notin {None, Failed} /\ byId' = Reconciled(first.answer).byId)
    BY <1>15 DEF LandFirst
  <2>2. CASE byId' = byId
    BY <1>1, <2>2
  <2>3. CASE first.answer \notin {None, Failed} /\ byId' = Reconciled(first.answer).byId
    <3>1. RowsIn(first.answer.rows)
      BY <1>15, <2>3 DEF LandFirst, PagesInv, FirstJudges, FirstPage
    <3>2. RowsIn(Merge(byId, Received(first.answer.rows)))
      BY <1>4, <3>1
    <3>3. \E S : byId' = Drop(Merge(byId, Received(first.answer.rows)), S)
      BY <2>3 DEF Reconciled
    <3>4. QED BY <3>2, <3>3, DropRows
  <2>4. QED BY <2>1, <2>2, <2>3
<1>16. CASE LandMore
  <2>1. CASE more.answer = Failed
    BY <1>1, <1>16, <2>1 DEF LandMore
  <2>2. CASE more.answer # Failed
    <3>1. byId' = Merge(byId, Received(more.answer.rows)) /\ more # None /\ more.answer # None
      BY <1>16, <2>2 DEF LandMore
    <3>2. RowsIn(more.answer.rows)
      BY <2>2, <3>1 DEF PagesInv, MoreKnown
    <3>3. QED BY <1>4, <3>1, <3>2
  <2>3. QED BY <2>1, <2>2
<1>17. CASE UNCHANGED vars
  BY <1>1, <1>17 DEF vars
<1>18. Renamable \cup Pinnable \cup Deletable \cup Runnable \subseteq Conv
  BY SidebarAssumption DEF SidebarAssumption
<1>19. QED
  BY <1>5, <1>6, <1>7, <1>8, <1>9, <1>10, <1>11, <1>12, <1>13, <1>14, <1>15, <1>16, <1>17, <1>18
  DEF Next

LEMMA PagesStep == ASSUME IInv, PagesInv, [Next]_vars PROVE PagesInv'
<1>1. changes' \in Int
  BY ChangesStep DEF PagesInv
<1>2. ServerKnown' /\ RowsIn(byId')
  BY ServerStep, RowsStep
<1>3. MutationsKnown' /\ FirstJudges'
  BY MutationsStep, FirstJudgesStep
<1>4. MoreKnown' /\ FetchesKnown'
  BY MoreKnownStep, FetchesStep
<1>5. QED BY <1>1, <1>2, <1>3, <1>4 DEF PagesInv

(* Where a list ends up that a landing request leaves. *)
LEMMA SettleShows ==
  ASSUME NEW v, Settle(v), Shape(v), scope # None PROVE view'.listed = v.listed
<1>1. view' = v \/ view' = Begun(v, scope)
  BY DEF Settle, Begin
<1>2. Begun(v, scope).listed = v.listed
  BY DEF Begun, Shape
<1>3. QED BY <1>1, <1>2

(* What reconcileSidebarConversations() drops of what a page left out. *)
LEMMA PageDrops ==
  ASSUME NEW page, NEW c \in Conv, c \in DOMAIN byId, c \in view.listed, RowsIn(byId),
         c \notin DOMAIN page.rows \cup Kept(page), c \in DOMAIN page.all,
         page \notin {None, Failed}, FirstPage(page), DOMAIN page.rows \cap held = {}
  PROVE  byId[c].pinned \/ MovedSince(c, page)
<1> DEFINE on == DOMAIN page.rows
           merged == Merge(byId, Received(page.rows))
           last == CHOOSE b \in on : \A d \in on : d = b \/ Before(d, b, page.rows)
<1>1. /\ Cardinality(on) >= PageSize /\ \A d \in on : Ahead(d, c, page)
      /\ \E b \in on : \A d \in on : d = b \/ Before(d, b, page.rows)
      /\ RowsIn(page.rows)
  BY DEF FirstPage
<1>2. last \in on
  BY <1>1
<1>3. ~Behind(c, last, merged)
  BY <1>1 DEF Kept
<1>4. merged[c] = byId[c]
  BY ReceivedDomain DEF Merge
<1>5. merged[last].pinned = page.rows[last].pinned /\ merged[last].at = page.rows[last].at
  <2> HIDE DEF last
  <2>1. merged[last] = Received(page.rows)[last]
    BY <1>2, ReceivedDomain DEF Merge
  <2>2. last \notin held /\ Rowed(page.rows[last])
    BY <1>1, <1>2 DEF RowsIn
  <2>3. CASE last \notin DOMAIN byId
    BY <1>2, <2>1, <2>3 DEF Received
  <2>4. CASE last \in DOMAIN byId
    <3>1. Received(page.rows)[last] = MergedRow(byId[last], page.rows[last], FALSE)
      <4>1. Received(page.rows)[last] = MergedRow(byId[last], page.rows[last], last \in held)
        BY <1>2, <2>4 DEF Received
      <4>2. (last \in held) = FALSE
        BY <2>2
      <4>3. QED BY <4>1, <4>2
    <3> DEFINE next == page.rows[last]
               title == IF byId[last].at > next.at THEN byId[last].title ELSE next.title
    <3>2. MergedRow(byId[last], next, FALSE) = [next EXCEPT !.title = title, !.at = next.at]
      BY DEF MergedRow
    <3>3. next = [title |-> next.title, pinned |-> next.pinned, draft |-> next.draft, at |-> next.at]
      BY <2>2 DEF Rowed
    <3> HIDE DEF next, title
    <3>4. [next EXCEPT !.title = title, !.at = next.at].pinned = next.pinned
          /\ [next EXCEPT !.title = title, !.at = next.at].at = next.at
      BY <3>3
    <3>5. QED BY <2>1, <3>1, <3>2, <3>4 DEF next
  <2>5. QED BY <2>3, <2>4
<1>6. /\ byId[c].at \in Int /\ page.rows[last].at \in Int
      /\ Ahead(last, c, page)
  BY <1>1, <1>2 DEF RowsIn, Rowed
<1> HIDE DEF merged, last, on
<1>7. CASE byId[c].pinned # merged[last].pinned
  BY <1>3, <1>4, <1>7 DEF Behind
<1>8. CASE byId[c].pinned = merged[last].pinned
  <2>1. ~Before(last, c, merged)
    BY <1>3, <1>4, <1>8 DEF Behind
  <2>2. QED BY <1>4, <1>5, <1>6, <2>1 DEF Before, Ahead, MovedSince
<1>9. QED BY <1>7, <1>8

LEMMA LandingKeeps ==
  ASSUME IInv, PagesInv, [Next]_vars, NEW c \in Conv, LeavesOnLanding(c)
  PROVE  \/ c \notin DOMAIN first.answer.all
         \/ byId[c].pinned \/ MovedSince(c, first.answer)
         \/ DOMAIN first.answer.rows \cap held # {}
<1> USE ShowsNow
<1>1. LandFirst
  BY FirstStep DEF FirstMoves, LeavesOnLanding, AnswerFirst
<1>2. c \in DOMAIN byId /\ scope # None
  BY SidebarAssumption DEF SidebarAssumption, LeavesOnLanding, IInv, ListedInScope
<1>3. CASE first.stale \/ first.answer = Failed
  <2> DEFINE v == IF first.stale THEN view ELSE [view EXCEPT !.status = "ready"]
  <2>1. Settle(v) /\ Shape(v) /\ v.listed = view.listed
    BY <1>1, <1>3 DEF LandFirst, Shows, Shape
  <2> HIDE DEF v
  <2>2. QED BY <1>2, <2>1, SettleShows DEF LeavesOnLanding
<1>4. CASE ~(first.stale \/ first.answer = Failed)
  <2> DEFINE page == first.answer
             v == Reconciled(page).view
  <2>1. Settle(v)
    BY <1>1, <1>4 DEF LandFirst
  <2>2. \A d \in DOMAIN page.rows : ScopeOf[d] = scope
    BY <1>1, <1>4 DEF LandFirst, IInv, Requests, FirstOfScope, PageOf
  <2>3. Shape(v)
    BY <2>2, ReconciledShows DEF Shows
  <2>4. v.listed = DOMAIN page.rows \cup Kept(page)
    BY DEF Reconciled, IInv, ViewShaped
  <2>5. page \notin {None, Failed} /\ FirstPage(page)
    BY <1>1, <1>4 DEF LandFirst, PagesInv, FirstJudges
  <2>6. c \in view.listed /\ c \notin view'.listed
    BY DEF LeavesOnLanding
  <2> HIDE DEF v, page
  <2>7. c \notin DOMAIN page.rows \cup Kept(page)
    BY <1>2, <2>1, <2>3, <2>4, <2>6, SettleShows
  <2>8. RowsIn(byId)
    BY DEF PagesInv
  <2>9. c \in DOMAIN page.all /\ DOMAIN page.rows \cap held = {} =>
          byId[c].pinned \/ MovedSince(c, page)
    BY <1>2, <2>5, <2>6, <2>7, <2>8, PageDrops
  <2>10. QED BY <2>9 DEF page
<1>5. QED BY <1>3, <1>4

(* RefreshKeepsRows: of the sessions the server had when it computed a first *)
(* page, the page takes out of the list only pinned ones, those the list     *)
(* already knows to be newer than the page does, and some while a row of the *)
(* page is held at its old time; however many conversations there are,       *)
(* however long a page is and whatever was created, renamed, run or deleted  *)
(* while the page was on its way.                                            *)
THEOREM RefreshesKeepRows == Spec => RefreshKeepsRows
<1>1. Init => IInv
  BY DEF Init, IInv, ViewShaped, Requests, FirstShaped, MoreShaped, FirstOfScope, MoreOfScope,
         ListedInScope
<1>2. Init => PagesInv
  <2> SUFFICES ASSUME Init PROVE PagesInv
    OBVIOUS
  <2>1. \A c \in Conv : Rowed(New(LastUsed[c]))
    BY SidebarAssumption DEF SidebarAssumption, New, Rowed
  <2>2. ServerKnown
    BY <2>1 DEF Init, ServerKnown, RowsIn
  <2>3. changes \in Int /\ RowsIn(byId)
    BY DEF Init, RowsIn
  <2>4. MutationsKnown /\ FirstJudges /\ MoreKnown /\ FetchesKnown
    BY DEF Init, MutationsKnown, AMutation, FirstJudges, MoreKnown, FetchesKnown
  <2>5. QED BY <2>2, <2>3, <2>4 DEF PagesInv
<1>3. IInv /\ PagesInv /\ [Next]_vars =>
        \A c \in Conv : LeavesOnLanding(c) =>
          \/ c \notin DOMAIN first.answer.all
          \/ byId[c].pinned \/ MovedSince(c, first.answer)
          \/ DOMAIN first.answer.rows \cap held # {}
  BY LandingKeeps
<1>4. QED BY <1>1, <1>2, <1>3, StepKeeps, PagesStep, PTL DEF Spec, RefreshKeepsRows
=============================================================================
