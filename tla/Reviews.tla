------------------------------ MODULE Reviews -------------------------------
(***************************************************************************)
(* ReviewsService.create, backend/src/reviews/reviews.service.ts, and      *)
(* NotificationPreferencesService, whose getOrCreate has the same shape:   *)
(* a row is looked for and inserted if there is none, and only a unique    *)
(* index orders two callers that find none.  Two of the seven preference   *)
(* keys stand for all; ratings and comments are left out.                  *)
(*                                                                         *)
(* MaxReviews bounds the table of reviews.                                 *)
(***************************************************************************)
EXTENDS Naturals, Sequences

CONSTANTS Callers, Shipments, Users, MaxReviews

VARIABLES
    shipment,     \* each shipment: [shipper, carrier, completed]
    reviews,      \* sequence of [shipment, reviewer, reviewee]
    preferences,  \* sequence of [user, muted]: the keys switched off
    caller        \* what each caller is doing

reviewVars == <<shipment, reviews, preferences, caller>>

Idle == [pc |-> "idle"]
Keys == {"shipmentAccepted", "disputeResolved"}

ReviewsInit ==
    /\ reviews = <<>>
    /\ preferences = <<>>
    /\ caller = [c \in Callers |-> Idle]

Goto(c, pc) == caller' = [caller EXCEPT ![c].pc = pc]
Finish(c) == caller' = [caller EXCEPT ![c] = Idle]

Review(s, u) ==
    [shipment |-> s, reviewer |-> u,
     reviewee |-> IF u = shipment[s].shipper THEN shipment[s].carrier ELSE shipment[s].shipper]

(* create: the shipment is completed and the reviewer is a party to it;    *)
(* what it reads of the shipment does not change any more.                 *)
CreateReview(c, u, s) ==
    /\ caller[c] = Idle
    /\ shipment[s].completed
    /\ u \in {shipment[s].shipper, shipment[s].carrier}
    /\ caller' = [caller EXCEPT ![c] = [pc |-> "findReview", row |-> Review(s, u)]]
    /\ UNCHANGED <<shipment, reviews, preferences>>

SameReview(r, q) == r.shipment = q.shipment /\ r.reviewer = q.reviewer

FindReview(c) ==
    /\ caller[c].pc = "findReview"
    /\ IF \E i \in DOMAIN reviews : SameReview(reviews[i], caller[c].row)
         THEN Finish(c)
         ELSE Goto(c, "insertReview")
    /\ UNCHANGED <<shipment, reviews, preferences>>

(* Mutant: the index is not unique. *)
NoReviewConflict(row) == FALSE

(* UNIQUE (shipment_id, reviewer_id) *)
ReviewConflict(row) == \E i \in DOMAIN reviews : SameReview(reviews[i], row)

InsertReview(c) ==
    /\ caller[c].pc = "insertReview"
    /\ Len(reviews) < MaxReviews
    /\ reviews' = IF ReviewConflict(caller[c].row) THEN reviews
                  ELSE Append(reviews, caller[c].row)
    /\ Finish(c)
    /\ UNCHANGED <<shipment, preferences>>

-----------------------------------------------------------------------------
NewPreferences(u) == [user |-> u, muted |-> {}]   \* the defaults of the columns
RowOf(u) == {i \in DOMAIN preferences : preferences[i].user = u}

(* getOrCreate for a read, or for an update that switches one key. *)
AskPreferences(c, u, switch) ==
    /\ caller[c] = Idle
    /\ caller' = [caller EXCEPT ![c] = [pc |-> "findPreferences", user |-> u, switch |-> switch]]
    /\ UNCHANGED <<shipment, reviews, preferences>>

Switched(muted, switch) ==
    IF switch.enabled THEN muted \ {switch.key} ELSE muted \cup {switch.key}

(* The row that was found, with the switched key, is what will be saved.   *)
Loaded(c, muted) ==
    IF caller[c].switch.key \in Keys
    THEN caller' = [caller EXCEPT ![c] = [pc |-> "savePreferences", user |-> caller[c].user,
                                          muted |-> Switched(muted, caller[c].switch)]]
    ELSE Finish(c)

FindPreferences(c) ==
    /\ caller[c].pc = "findPreferences"
    /\ \/ \E i \in RowOf(caller[c].user) : Loaded(c, preferences[i].muted)
       \/ RowOf(caller[c].user) = {} /\ Goto(c, "insertPreferences")
    /\ UNCHANGED <<shipment, reviews, preferences>>

(* UNIQUE (user_id): the caller whose insert loses is answered an error.   *)
InsertPreferences(c) ==
    /\ caller[c].pc = "insertPreferences"
    /\ IF RowOf(caller[c].user) # {}
         THEN Finish(c) /\ UNCHANGED preferences
         ELSE /\ preferences' = Append(preferences, NewPreferences(caller[c].user))
              /\ Loaded(c, {})
    /\ UNCHANGED <<shipment, reviews>>

SavePreferences(c) ==
    /\ caller[c].pc = "savePreferences"
    /\ preferences' = [i \in DOMAIN preferences |->
                         IF preferences[i].user = caller[c].user
                         THEN [preferences[i] EXCEPT !.muted = caller[c].muted]
                         ELSE preferences[i]]
    /\ Finish(c)
    /\ UNCHANGED <<shipment, reviews>>

(* isEnabled, which nothing asks before it notifies. *)
IsEnabled(u, key) == \A i \in RowOf(u) : key \notin preferences[i].muted

Switches == [key : Keys, enabled : BOOLEAN] \cup {[key |-> "none"]}

ReviewsNext ==
    \E c \in Callers :
        \/ \E u \in Users, s \in Shipments : CreateReview(c, u, s)
        \/ FindReview(c) \/ InsertReview(c)

PreferencesNext ==
    \E c \in Callers :
        \/ \E u \in Users, switch \in Switches : AskPreferences(c, u, switch)
        \/ FindPreferences(c) \/ InsertPreferences(c) \/ SavePreferences(c)

-----------------------------------------------------------------------------
(* However reviews race, each party of a shipment has reviewed it at most  *)
(* once, and the other party, so a rating counts a shipment once for each; *)
(* and no user has two rows of preferences, of which one would be read and *)
(* the other written.                                                      *)
OneRowEach ==
    /\ \A i, j \in DOMAIN reviews : SameReview(reviews[i], reviews[j]) => i = j
    /\ \A i \in DOMAIN reviews : LET p == shipment[reviews[i].shipment] IN
         {reviews[i].reviewer, reviews[i].reviewee} = {p.shipper, p.carrier}
    /\ \A i, j \in DOMAIN preferences : preferences[i].user = preferences[j].user => i = j
=============================================================================
