----------------------------- MODULE Statistics -----------------------------
(***************************************************************************)
(* The reports an administrator's statistics page asks for: getStats of    *)
(* AdminService and getAnalytics of ShipmentsService.  A report is made of *)
(* queries, one after another and in no transaction, while accounts and    *)
(* shipments go on changing.  A behaviour follows one of the two.          *)
(*                                                                         *)
(* A price is fixed when a shipment is accepted, so the number of          *)
(* completed shipments stands for the sum of their prices.  The days on    *)
(* which shipments were created are not kept: which of them a report       *)
(* leaves out is chosen when it asks.  Of the accounts that are active and *)
(* of the disputes a report says nothing else, so these answers are not    *)
(* kept.                                                                   *)
(***************************************************************************)
EXTENDS Integers, Sequences, FiniteSets, Functions

CONSTANTS Accounts, Posted

VARIABLES
    account,  \* the role; "none" before registration
    status,   \* of each shipment
    report    \* its kind, the shipments outside its bounds, the queries still
              \* to make, the answers so far; the shipments its day series is too
              \* late for; history: those taken out of Completed meanwhile

statisticsVars == <<account, status, report>>

Roles == {"shipper", "carrier"}

(* The statuses of a shipment, and the first of them.                      *)
Promise == INSTANCE Lifecycle WITH
    Ids <- Posted, Carriers <- {}, NoCarrier <- "none", carrier <- [s \in Posted |-> "none"]

Registered == {u \in Accounts : account[u] # "none"}
In(st) == {s \in Posted : status[s] = st}
Created == Posted \ In("Unposted")
Statuses == DOMAIN Promise!Successors \ {"Unposted"}

NoReport ==
    [kind |-> "none", outside |-> {}, queries |-> <<>>, found |-> <<>>, old |-> {}, undone |-> {}]

StatisticsInit ==
    /\ account = [u \in Accounts |-> "none"]
    /\ status = [s \in Posted |-> "Unposted"]
    /\ report = NoReport

(* Mutant: the number of all is asked for last. *)
StatsQueriesTotalLast ==
    <<"active", "roles", "total", "disputes", "statuses", "shipments", "revenue">>

StatsQueries == <<"total", "active", "roles", "shipments", "disputes", "statuses", "revenue">>
AnalyticsQueries == <<"statuses", "revenue", "days">>

Finished == report # NoReport /\ report.queries = <<>>

(* The statuses have been counted, and this has not. *)
Awaited(query) ==
    "statuses" \in DOMAIN report.found /\ query \notin DOMAIN report.found

(* getStats counts all; getAnalytics a shipper's own shipments, or all, and *)
(* of them those created between two dates.                                *)
Ask(kind) ==
    /\ report = NoReport
    /\ \E outside \in IF kind = "analytics" THEN SUBSET Posted ELSE {{}} :
         report' = [NoReport EXCEPT
                      !.kind = kind, !.outside = outside,
                      !.queries = IF kind = "stats" THEN StatsQueries ELSE AnalyticsQueries]
    /\ UNCHANGED <<account, status>>

Of(shipments) == shipments \ report.outside

(* The days are the last thirty, whatever the bounds of the report.        *)
Counted(query, old) ==
    CASE query = "total"     -> Cardinality(Registered)
      [] query = "roles"     -> [r \in Roles |-> Cardinality({u \in Registered : account[u] = r})]
      [] query = "shipments" -> Cardinality(Of(Created))
      [] query = "statuses"  -> [st \in Statuses |-> Cardinality(Of(In(st)))]
      [] query = "revenue"   -> Cardinality(Of(In("Completed")))
      [] query = "days"      -> Cardinality(Of(Created) \ old)
      [] query \in {"active", "disputes"} -> 0

With(found, query, old) ==
    [q \in DOMAIN found \cup {query} |-> IF q = query THEN Counted(query, old) ELSE found[q]]

(* The next query of the report. *)
Query ==
    /\ report.queries # <<>>
    /\ \E old \in IF Head(report.queries) = "days" THEN SUBSET Of(Created) ELSE {{}} :
         report' = [report EXCEPT !.queries = Tail(@), !.old = old,
                                  !.found = With(@, Head(report.queries), old)]
    /\ UNCHANGED <<account, status>>

(* A query fails, and the report with it; the page goes without analytics, *)
(* and says that statistics could not be loaded.                           *)
QueryFails ==
    /\ report.queries # <<>>
    /\ report' = NoReport
    /\ UNCHANGED <<account, status>>

(* The page is left.  What changes while a finished report is shown does   *)
(* not show in it, and is taken to come after that.                        *)
Leave ==
    /\ Finished
    /\ report' = NoReport
    /\ UNCHANGED <<account, status>>

(* Somebody registers, or is given a role.                                 *)
ChangeAccount(u) ==
    /\ ~Finished
    /\ account' \in {[account EXCEPT ![u] = r] : r \in Roles \ {account[u]}}
    /\ UNCHANGED <<status, report>>

(* A shipment is created; or a handler saves it.  What it read may have    *)
(* been overtaken by others, and an edit writes Created back, so that any  *)
(* status may follow any: more can happen here than in ShipmentsService.   *)
Follows(st) == IF st = "Unposted" THEN Promise!Successors[st] ELSE Statuses

ChangeShipment(s) ==
    /\ ~Finished
    /\ status' \in {[status EXCEPT ![s] = st] : st \in Follows(status[s]) \ {status[s]}}
    /\ report' = IF status[s] = "Completed" /\ Awaited("revenue")
                 THEN [report EXCEPT !.undone = @ \cup Of({s})] ELSE report
    /\ UNCHANGED account

StatisticsNext ==
    \/ \E kind \in {"stats", "analytics"} : Ask(kind)
    \/ Query
    \/ QueryFails
    \/ Leave
    \/ \E u \in Accounts : ChangeAccount(u)
    \/ \E s \in Posted : ChangeShipment(s)

-----------------------------------------------------------------------------
Total(counts) == FoldFunction(+, 0, counts)

(* The cards of the administrator's first page, those for active accounts  *)
(* and disputes left out.  Shipments that are accepted or delivered have   *)
(* none.                                                                   *)
AdminCards(found) ==
    [users     |-> found.total,
     roles     |-> found.roles,
     shipments |-> found.shipments,
     statuses  |-> [st \in {"Created", "InTransit", "Completed", "Cancelled"} |-> found.statuses[st]],
     revenue   |-> found.revenue]

(* No two numbers of a report are of the same moment, and handlers that    *)
(* overlap take shipments back to statuses they had left; yet the numbers  *)
(* fit.  The totals are at most the sums of their parts.  The revenue      *)
(* counts every shipment the report calls completed, but for those taken   *)
(* back before it was asked for; and the days every shipment that has a    *)
(* status in it, but for those created more than thirty days ago.          *)
ReportHangsTogether ==
    LET found == report.found
    IN  report.queries = <<>> =>
          /\ report.kind = "stats" =>
               LET cards == AdminCards(found)
               IN  /\ cards.users <= Total(cards.roles)
                   /\ cards.shipments <= Total(found.statuses)
                   /\ cards.statuses["Completed"] <= cards.revenue + Cardinality(report.undone)
          /\ report.kind = "analytics" =>
               /\ Total(found.statuses) <= found.days + Cardinality(report.old)
               /\ found.statuses["Completed"] <= found.revenue + Cardinality(report.undone)
=============================================================================
