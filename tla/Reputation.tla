----------------------------- MODULE Reputation -----------------------------
(***************************************************************************)
(* The Soroban reputation contract, contracts/reputation/src/lib.rs: one   *)
(* action per entry point.  An invocation that returns an error changes    *)
(* nothing and is left out.  Registration and rating do not ask whether    *)
(* the contract is initialised.                                            *)
(*                                                                         *)
(* MaxRatings and MaxReports bound the ratings and the completion reports  *)
(* of a behaviour; Scores are the scores callers try.                      *)
(***************************************************************************)
EXTENDS Naturals, FiniteSetsExt

CONSTANTS Accounts, NoAdmin, Shipments, Scores, MaxRatings, MaxReports

VARIABLES
    admin,
    authorizedContract,  \* who may report completions, besides the admin
    ratingCounter,
    reputations,         \* DataKey::Reputation(account), or Unregistered
    ratings,             \* DataKey::Rating(id), or NotRated
    raters               \* DataKey::ShipmentRaters(shipment): never reordered, so a set

vars == <<admin, authorizedContract, ratingCounter, reputations, ratings, raters>>

UserTypes == {"Carrier", "Shipper"}
Unregistered == [userType |-> "Unregistered"]
NotRated == [score |-> 0]
RatingRecord(shipment, rater, rated, score) ==
    [shipment |-> shipment, rater |-> rater, rated |-> rated, score |-> score]
Ids == 1..MaxRatings

Registered(u) == reputations[u] # Unregistered
HasRated(shipment, rater) == rater \in raters[shipment]
NextRatingId == ratingCounter + 1

Init ==
    /\ admin = NoAdmin
    /\ authorizedContract = NoAdmin
    /\ ratingCounter = 0
    /\ reputations = [u \in Accounts |-> Unregistered]
    /\ ratings = [id \in Ids |-> NotRated]
    /\ raters = [s \in Shipments |-> {}]

Initialize(a, contract) ==
    /\ admin = NoAdmin
    /\ admin' = a
    /\ authorizedContract' = contract
    /\ ratingCounter' = 0
    /\ UNCHANGED <<reputations, ratings, raters>>

NewReputation(type) ==
    [userType |-> type, totalCompleted |-> 0, points |-> 0, ratingCount |-> 0,
     onTime |-> 0, late |-> 0, success |-> 0, cancel |-> 0, average |-> 0]

RegisterUser(u, type) ==
    /\ ~Registered(u)
    /\ reputations' = [reputations EXCEPT ![u] = NewReputation(type)]
    /\ UNCHANGED <<admin, authorizedContract, ratingCounter, ratings, raters>>

Rated(rep, score) ==
    LET points == rep.points + score * 100
        count == rep.ratingCount + 1
    IN  [rep EXCEPT !.points = points, !.ratingCount = count, !.average = points \div count]

(* Mutant: a shipment remembers who was rated, not who rated. *)
SubmitRatingOfRated(rater, shipment, rated, score) ==
    /\ score \in 1..5
    /\ rater # rated
    /\ rated \notin raters[shipment]
    /\ Registered(rated)
    /\ ratingCounter < MaxRatings
    /\ ratingCounter' = NextRatingId
    /\ ratings' = [ratings EXCEPT ![NextRatingId] = RatingRecord(shipment, rater, rated, score)]
    /\ raters' = [raters EXCEPT ![shipment] = @ \cup {rated}]
    /\ reputations' = [reputations EXCEPT ![rated] = Rated(@, score)]
    /\ UNCHANGED <<admin, authorizedContract>>

(* Anybody may rate anybody registered, once for each shipment number; the *)
(* contract does not know who took part in a shipment.                     *)
SubmitRating(rater, shipment, rated, score) ==
    /\ score \in 1..5
    /\ rater # rated
    /\ ~HasRated(shipment, rater)
    /\ Registered(rated)
    /\ ratingCounter < MaxRatings
    /\ ratingCounter' = NextRatingId
    /\ ratings' = [ratings EXCEPT ![NextRatingId] = RatingRecord(shipment, rater, rated, score)]
    /\ raters' = [raters EXCEPT ![shipment] = @ \cup {rater}]
    /\ reputations' = [reputations EXCEPT ![rated] = Rated(@, score)]
    /\ UNCHANGED <<admin, authorizedContract>>

(* A completion is on time or late for a carrier, a success or a           *)
(* cancellation for a shipper; the other flag of the call is not looked at. *)
Completed(rep, wasOnTime, wasSuccessful) ==
    LET field == CASE rep.userType = "Carrier" -> IF wasOnTime THEN "onTime" ELSE "late"
                   [] rep.userType = "Shipper" -> IF wasSuccessful THEN "success" ELSE "cancel"
    IN  [rep EXCEPT !.totalCompleted = @ + 1, ![field] = @ + 1]

UpdateStats(caller, u, wasOnTime, wasSuccessful) ==
    /\ admin # NoAdmin
    /\ caller \in {authorizedContract, admin}
    /\ Registered(u)
    /\ MapThenSumSet(LAMBDA v : reputations[v].totalCompleted,
                     {v \in Accounts : Registered(v)}) < MaxReports
    /\ reputations' = [reputations EXCEPT ![u] = Completed(@, wasOnTime, wasSuccessful)]
    /\ UNCHANGED <<admin, authorizedContract, ratingCounter, ratings, raters>>

(* part is a count of whole, as a percentage rounded down. *)
Percent(part, whole) == (part * 100) \div whole

Least(a, b) == IF a <= b THEN a ELSE b

(* Mutant: the completion part counts the completions for each rating. *)
ScoreOfSwapped(rep) ==
    LET good == IF rep.userType = "Carrier" THEN rep.onTime ELSE rep.success
        rate == IF rep.totalCompleted = 0 THEN 0 ELSE Percent(good, rep.totalCompleted) * 3
        completion == IF rep.ratingCount = 0 THEN 0
                      ELSE Least(Percent(rep.totalCompleted, rep.ratingCount) * 2, 200)
    IN  Least(Least(rep.average, 500) + rate + completion, 1000)

(* calculate_score: stars, then the share of good completions, then the    *)
(* ratings for each completion.                                            *)
ScoreOf(rep) ==
    LET good == IF rep.userType = "Carrier" THEN rep.onTime ELSE rep.success
        rate == IF rep.totalCompleted = 0 THEN 0 ELSE Percent(good, rep.totalCompleted) * 3
        completion == IF rep.totalCompleted = 0 THEN 0
                      ELSE Least(Percent(rep.ratingCount, rep.totalCompleted) * 2, 200)
    IN  Least(Least(rep.average, 500) + rate + completion, 1000)

Next == \E a, b \in Accounts :
    \/ Initialize(a, b)
    \/ \E type \in UserTypes : a = b /\ RegisterUser(a, type)
    \/ \E s \in Shipments, score \in Scores : SubmitRating(a, s, b, score)
    \/ \E wasOnTime, wasSuccessful \in BOOLEAN : UpdateStats(a, b, wasOnTime, wasSuccessful)

(* As deployed: the first invocation is initialize. *)
DeployedNext == Next /\ (admin = NoAdmin => admin' # NoAdmin)
DeployedSpec == Init /\ [][DeployedNext]_vars

-----------------------------------------------------------------------------
RatingsOf(u) == {id \in 1..ratingCounter : ratings[id].rated = u}
PointsOf(id) == ratings[id].score * 100

(* The profile of an account sums up the rating records that name it: none *)
(* is counted twice, none is lost, and no two are about the same shipment  *)
(* by the same rater.                                                      *)
RatingsAddUp ==
    /\ \A u \in Accounts : Registered(u) =>
         LET count == Cardinality(RatingsOf(u))
             points == MapThenSumSet(PointsOf, RatingsOf(u))
         IN  /\ reputations[u].ratingCount = count
             /\ reputations[u].points = points
             /\ count > 0 => reputations[u].average = points \div count
    /\ \A i, j \in 1..ratingCounter :
         ratings[i].rater = ratings[j].rater /\ ratings[i].shipment = ratings[j].shipment => i = j

(* A rating of five stars never lowers the composite score, whatever the   *)
(* roundings of its three parts.                                           *)
BestRatingNeverHurts ==
    [][\A u \in Accounts :
         /\ Registered(u)
         /\ reputations'[u].ratingCount = reputations[u].ratingCount + 1
         /\ reputations'[u].points = reputations[u].points + 500
         => ScoreOf(reputations'[u]) >= ScoreOf(reputations[u])]_vars
=============================================================================
