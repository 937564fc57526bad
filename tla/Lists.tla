------------------------------- MODULE Lists -------------------------------
(***************************************************************************)
(* The pages of the frontend that list rows of the backend, and the two    *)
(* ways the backend pages them: by page number (findAndCount: the rows of  *)
(* the page, then the number of all, in two queries) and by cursor         *)
(* (common/cursor-pagination.util.ts).  Rows come and go while a page is   *)
(* read.  A behaviour follows one screen:                                  *)
(*                                                                         *)
(*   users, all shipments, my shipments   show the answer that came last   *)
(*   marketplace, disputes, reviews       keep an answer per page (useQuery)*)
(*   infinite, cursor                     walk to the end, page by page    *)
(*                                                                         *)
(* A row is a number, larger when newer, and open or closed: a user is     *)
(* active or not, a shipment still in the list or past it.                 *)
(***************************************************************************)
EXTENDS Naturals, FiniteSets, Sequences

CONSTANTS WalkRows, TableRows, Limit, MaxRequests

ASSUME ListsAssumption ==
    WalkRows \in Nat /\ TableRows \in Nat /\ Limit \in Nat \ {0} /\ MaxRequests \in Nat

VARIABLES
    screen,     \* the screen followed
    class,      \* of each row: "none" (not there yet), "open", "closed"
    joined,     \* rows created in the same millisecond as the row before them
    opened,     \* class as it was when a walk was begun
    view,       \* the filter and the page that are selected
    fetching,   \* requests under way
    answers,    \* those that have come back, in that order
    failed,     \* those whose last load came back without an answer
    acting,     \* the user's own requests to change a row
    mine,       \* rows whose last change is the user's own, while not hasty
    hasty       \* the user has not waited for what was under way

listsVars == <<screen, class, joined, opened, view, fetching, answers, failed, acting, mine, hasty>>

Screens == {"users", "all shipments", "my shipments", "marketplace", "disputes", "reviews",
            "infinite", "cursor"}
Walks == {"infinite", "cursor"}
Rows == 1..IF screen \in Walks THEN WalkRows ELSE TableRows
Keyed == {"marketplace", "disputes", "reviews"}

FirstView == [filter |-> IF screen \in {"users", "all shipments", "my shipments"} THEN "all"
                         ELSE "open",
              page |-> 1]

Created == {r \in Rows : class[r] # "none"}
Matching(f) == {r \in Created : f \in {"all", class[r]}}
Millisecond(r) == Cardinality((1..r) \ joined)
Newer(r, S) == {x \in S : x > r}

(* order: { createdAt: 'DESC' }, skip: (page - 1) * limit, take: limit *)
PageOf(S, p) ==
    {r \in S : LET n == Cardinality(Newer(r, S)) IN (p - 1) * Limit <= n /\ n < p * Limit}

Last == answers[Len(answers)]
Loading == fetching # {}
Quiet == fetching = {} /\ acting = {}

-----------------------------------------------------------------------------
(* A request: the view it asks for and, for the cursor, the row it goes on *)
(* from.  The number tells requests apart that are under way together.     *)
Request(v, from, others) ==
    [view |-> v, from |-> from, pc |-> "data", data |-> <<>>, total |-> 0,
     n |-> CHOOSE n \in 1..(Cardinality(others) + 1) : \A q \in others : q.n # n]

CanAsk == Cardinality(fetching) + Cardinality(acting) < MaxRequests

Ask(v, from) == fetching' = fetching \cup {Request(v, from, fetching)}

Became(q, changed) == fetching' = (fetching \ {q}) \cup {changed}
Statuses(S) == [r \in S |-> class[r]]

(* findAll, findMarketplace, listUsers, listShipments, findForCarrier: the *)
(* rows of the page, ...                                                   *)
ReadPage(q) ==
    /\ q.pc = "data"
    /\ screen # "cursor"
    /\ Became(q, [q EXCEPT !.pc = "total",
                           !.data = Statuses(PageOf(Matching(q.view.filter), q.view.page))])
    /\ UNCHANGED <<screen, class, joined, opened, view, answers, failed, acting, mine, hasty>>

(* ... and then the number of all. *)
CountRows(q) ==
    /\ q.pc = "total"
    /\ Became(q, [q EXCEPT !.pc = "done", !.total = Cardinality(Matching(q.view.filter))])
    /\ UNCHANGED <<screen, class, joined, opened, view, answers, failed, acting, mine, hasty>>

(* The cursor names its row by the millisecond of a timestamp that the     *)
(* database keeps in microseconds: neither the rows before it nor those    *)
(* equal to it are the other rows of that millisecond (unless a row's      *)
(* microseconds are 000, which is left out).                               *)
AfterCursor(from) ==
    {r \in Matching("open") : from = 0 \/ Millisecond(r) < Millisecond(from)}

(* cursorPaginate: one row more than the limit tells whether there are more. *)
CursorPaginate(q) ==
    /\ q.pc = "data"
    /\ screen = "cursor"
    /\ LET found == AfterCursor(q.from)
           taken == PageOf(found, 1)
       IN  Became(q, [q EXCEPT !.pc = "done", !.data = Statuses(taken),
                               !.total = Cardinality(taken)
                                         + IF taken = found THEN 0 ELSE 1])
    /\ UNCHANGED <<screen, class, joined, opened, view, answers, failed, acting, mine, hasty>>

(* What an error is kept for: a view, or the whole screen.                 *)
Key(v) == IF screen \in Keyed THEN v ELSE FirstView
Failed == Key(view) \in failed

AnswersTo(v) == {i \in DOMAIN answers : answers[i].view = v}

(* An answer comes back, in whatever order.  A walk keeps them all, a page *)
(* with useQuery one for each view, and the others the one that came last. *)
Received(a) ==
    IF screen \in Keyed /\ AnswersTo(a.view) # {}
    THEN [i \in DOMAIN answers |-> IF answers[i].view = a.view THEN a ELSE answers[i]]
    ELSE Append(IF screen \in Walks \cup Keyed THEN answers ELSE <<>>, a)

Answer(q) ==
    /\ q.pc = "done"
    /\ fetching' = fetching \ {q}
    /\ answers' = Received([view |-> q.view, data |-> q.data, total |-> q.total, valid |-> TRUE])
    /\ failed' = failed \ {Key(q.view)}
    /\ UNCHANGED <<screen, class, joined, opened, view, acting, mine, hasty>>

(* A load fails, wherever it was; the second of the two attempts, where    *)
(* useQuery makes two.  The page says so, or not even that (disputes), and *)
(* keeps the rows it had: the first three screens show those of the view   *)
(* that was answered last, whichever is selected.                          *)
LoadFails(q) ==
    /\ fetching' = fetching \ {q}
    /\ failed' = failed \cup {Key(q.view)}
    /\ UNCHANGED <<screen, class, joined, opened, view, answers, acting, mine, hasty>>

-----------------------------------------------------------------------------
(* What the screens show.                                                  *)

Shown == UNION {DOMAIN answers[i].data : i \in DOMAIN answers}

Displayed ==
    {answers[i] : i \in IF screen \in Keyed THEN AnswersTo(view)
                        ELSE DOMAIN answers \cap {Len(answers)}}

TotalPages(a) == (a.total + Limit - 1) \div Limit

(* Previous and Next, where there is more than one page. *)
Pager(a) ==
    {p \in {view.page - 1, view.page + 1} :
        /\ TotalPages(a) > 1
        /\ p = view.page - 1 => view.page # 1
        /\ p = view.page + 1 => view.page # TotalPages(a)}

Turned(a) == {[view EXCEPT !.page = p] : p \in Pager(a)}
Filtered == {[filter |-> f, page |-> 1] : f \in {"all", "open"}}

(* The views a click leads to, screen by screen.  The tables of the first  *)
(* two hide while they load, their filters and their pager do not; my      *)
(* shipments has tabs and one page; the marketplace searches from page 1   *)
(* and has a pager only under rows; disputes and reviews have no filter,   *)
(* and after a failed load reviews have no pager.  Two filters stand for   *)
(* all.                                                                    *)
UsersPageViews == Filtered \cup UNION {Turned(a) : a \in Displayed}
AdminShipmentsPageViews == Filtered \cup UNION {Turned(a) : a \in Displayed}
ShipmentsPageViews == Filtered
MarketplacePageViews ==
    {FirstView} \cup UNION {Turned(a) : a \in {d \in Displayed : DOMAIN d.data # {}}}
AdminDisputesPageViews == UNION {Turned(a) : a \in Displayed}
CarrierReviewsViews ==
    UNION {Turned(a) : a \in {d \in Displayed : d.total # 0 /\ ~Failed}}

Views ==
    CASE screen = "users" -> UsersPageViews
      [] screen = "all shipments" -> AdminShipmentsPageViews
      [] screen = "my shipments" -> ShipmentsPageViews
      [] screen = "marketplace" -> MarketplacePageViews
      [] screen = "disputes" -> AdminDisputesPageViews
      [] screen = "reviews" -> CarrierReviewsViews
      [] screen \in Walks -> {}

(* Whoever does something while something is under way is hasty.           *)
InHasteOrNot ==
    /\ hasty' = (hasty \/ ~Quiet)
    /\ mine' = IF hasty' THEN {} ELSE mine

(* A click: a view that was answered before and not invalidated since is   *)
(* shown from memory, and asked for again only when it has become stale.   *)
Click ==
    /\ CanAsk
    /\ \E v \in Views \ {view} :
         /\ view' = v
         /\ \/ Ask(v, 0)
            \/ /\ screen \in Keyed
               /\ \E i \in AnswersTo(v) : answers[i].valid
               /\ UNCHANGED fetching
    /\ InHasteOrNot
    /\ UNCHANGED <<screen, class, joined, opened, answers, failed, acting>>

(* Mutant: one page too few, as if pages were counted from zero. *)
HasNextPageShort(a) ==
    IF screen = "cursor" THEN a.total > Limit ELSE (a.view.page + 1) * Limit < a.total

(* ShipmentsInfiniteList: page * limit < total; the cursor: nextCursor. *)
HasNextPage(a) ==
    IF screen = "cursor" THEN a.total > Limit ELSE a.view.page * Limit < a.total

Oldest(S) == CHOOSE r \in S : \A x \in S : r <= x

(* fetchNextPage, when the end of the list comes into sight, which it does *)
(* no more once a page has failed; or the caller of the API, with          *)
(* nextCursor, once more if that failed.                                   *)
FetchNextPage ==
    /\ screen \in Walks
    /\ answers # <<>>
    /\ screen = "infinite" => ~Failed
    /\ CanAsk
    /\ ~Loading
    /\ HasNextPage(Last)
    /\ Ask([Last.view EXCEPT !.page = @ + 1],
           IF screen = "cursor" THEN Oldest(DOMAIN Last.data) ELSE 0)
    /\ UNCHANGED <<screen, class, joined, opened, view, answers, failed, acting, mine, hasty>>

-----------------------------------------------------------------------------
(* The user's own changes: Activate and Deactivate in the table of users,  *)
(* which act by the status it shows, and the resolution of a dispute.      *)
Other(c) == IF c = "open" THEN "closed" ELSE "open"

HandleToggleActive(r) ==
    /\ screen = "users"
    /\ CanAsk
    /\ ~Loading
    /\ \E a \in Displayed :
         /\ r \in DOMAIN a.data
         /\ \A own \in acting : own.row # r
         /\ acting' = acting \cup {[row |-> r, to |-> Other(a.data[r])]}
    /\ InHasteOrNot
    /\ UNCHANGED <<screen, class, joined, opened, view, fetching, answers, failed>>

Resolve(r) ==
    /\ screen = "disputes"
    /\ CanAsk
    /\ acting = {}
    /\ \E a \in Displayed : r \in DOMAIN a.data
    /\ acting' = {[row |-> r, to |-> "closed"]}
    /\ InHasteOrNot
    /\ UNCHANGED <<screen, class, joined, opened, view, fetching, answers, failed>>

(* Mutant: what was loaded before stays good. *)
ReloadNothing == UNCHANGED <<fetching, answers>>

(* load(), or invalidateQueries: every answer kept is invalid, the request *)
(* for the page that is shown is dropped and made again.                   *)
Reload ==
    \/ /\ screen = "users"
       /\ Ask(view, 0)
       /\ UNCHANGED answers
    \/ /\ screen = "disputes"
       /\ LET rest == {q \in fetching : q.view # view}
          IN  fetching' = rest \cup {Request(view, 0, rest)}
       /\ answers' = [i \in DOMAIN answers |-> [answers[i] EXCEPT !.valid = FALSE]]

(* The service makes the change and the page reloads.                      *)
Change(own) ==
    /\ class[own.row] # own.to
    /\ class' = [class EXCEPT ![own.row] = own.to]
    /\ mine' = IF hasty THEN {} ELSE mine \cup {own.row}
    /\ acting' = acting \ {own}
    /\ Reload
    /\ UNCHANGED <<screen, joined, opened, view, failed, hasty>>

(* The change is refused, because it is made already, or the request fails *)
(* (if the change was made all the same, that is ChangeElsewhere and then  *)
(* this); the page says so and shows what it showed.                       *)
Refuse(own) ==
    /\ acting' = acting \ {own}
    /\ UNCHANGED <<screen, class, joined, opened, view, fetching, answers, failed, mine, hasty>>

-----------------------------------------------------------------------------
(* Everybody else: a row comes in; a row changes, back only if it is a user. *)
ComeIn(r) ==
    /\ class[r] = "none"
    /\ \A x \in 1..(r - 1) : class[x] # "none"
    /\ class' = [class EXCEPT ![r] = "open"]
    /\ UNCHANGED <<screen, joined, opened, view, fetching, answers, failed, acting, mine, hasty>>

ChangeElsewhere(r) ==
    /\ class[r] \in {"open"} \cup IF screen = "users" THEN {"closed"} ELSE {}
    /\ class' = [class EXCEPT ![r] = Other(@)]
    /\ mine' = mine \ {r}
    /\ UNCHANGED <<screen, joined, opened, view, fetching, answers, failed, acting, hasty>>

(* The browser loads the page anew. *)
Refresh ==
    /\ Quiet
    /\ view' = FirstView
    /\ fetching' = {Request(FirstView, 0, {})}
    /\ answers' = <<>>
    /\ failed' = {}
    /\ opened' = IF screen \in Walks THEN class ELSE opened
    /\ mine' = {}
    /\ hasty' = FALSE
    /\ UNCHANGED <<screen, class, joined, acting>>

ListsInit ==
    /\ screen \in Screens
    /\ \E n \in {0} \cup Rows : class = [r \in Rows |-> IF r <= n THEN "open" ELSE "none"]
    /\ joined \in SUBSET (IF screen = "cursor" THEN Rows ELSE {})
    /\ opened = IF screen \in Walks THEN class ELSE <<>>
    /\ view = FirstView
    /\ fetching = {Request(FirstView, 0, {})}
    /\ answers = <<>>
    /\ failed = {}
    /\ acting = {}
    /\ mine = {}
    /\ hasty = FALSE

ListsNext ==
    \/ \E q \in fetching :
         ReadPage(q) \/ CountRows(q) \/ CursorPaginate(q) \/ Answer(q) \/ LoadFails(q)
    \/ Click
    \/ FetchNextPage
    \/ \E r \in Rows :
         HandleToggleActive(r) \/ Resolve(r) \/ ComeIn(r) \/ ChangeElsewhere(r)
    \/ \E own \in acting : Change(own) \/ Refuse(own)
    \/ Refresh

ListsSpec == ListsInit /\ [][ListsNext]_listsVars

-----------------------------------------------------------------------------
Ended == fetching = {} /\ answers # <<>> /\ ~HasNextPage(Last)

Missed == {r \in Rows : opened[r] = "open" /\ class[r] = "open"} \ Shown
Left == {r \in Rows : opened[r] # "closed" /\ class[r] = "closed"}

(* A walk that has come to its end has shown what was there from its start *)
(* to its end.  The infinite list misses no more rows than have left the   *)
(* list meanwhile and pulled the others a place forward; rows that come in *)
(* make it show some twice and none less.  A walk by cursor shows no row   *)
(* twice and misses only rows created in the same millisecond as a newer   *)
(* one, whatever comes in or leaves.                                       *)
WalksShowAll ==
    /\ screen = "infinite" /\ Ended => Cardinality(Missed) <= Cardinality(Left)
    /\ screen = "cursor" =>
          /\ \A i, j \in DOMAIN answers :
                i # j => DOMAIN answers[i].data \cap DOMAIN answers[j].data = {}
          /\ Ended => \A r \in Missed :
                \E x \in Shown : x > r /\ Millisecond(x) = Millisecond(r)

(* A table that has come to rest shows an answer, unless the last load has *)
(* failed (of the view, where a table is kept per page).  It then shows    *)
(* the page and the filter that are selected, and what the user has        *)
(* himself done to a user or a dispute, whatever others do meanwhile and   *)
(* whichever loads failed before, provided that he waits for one thing to  *)
(* come back before he does the next.  A table kept per page shows the     *)
(* selected page in any case.                                              *)
ScreenSettles ==
    Quiet /\ screen \notin Walks =>
        /\ ~Failed => Displayed # {}
        /\ \A a \in Displayed :
             /\ screen \in Keyed \/ ~(hasty \/ Failed) => a.view = view
             /\ ~(hasty \/ Failed) => \A r \in mine \cap DOMAIN a.data : a.data[r] = class[r]
=============================================================================
