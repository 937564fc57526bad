----------------------------- MODULE Lifecycle ------------------------------
(***************************************************************************)
(* What the shipment contract (contracts/shipment) and the backend's       *)
(* ShipmentsService both promise of a shipment: which statuses follow      *)
(* which, that a shipment has one carrier from its acceptance on, and that *)
(* a Completed or Cancelled shipment never moves again.                    *)
(***************************************************************************)
CONSTANTS
    Ids,        \* shipments
    Carriers,
    NoCarrier   \* a shipment nobody has accepted

VARIABLES status, carrier

vars == <<status, carrier>>

(* "Unposted" is a shipment that does not exist yet. *)
Successors ==
    [Unposted  |-> {"Created"},
     Created   |-> {"Accepted", "Cancelled"},
     Accepted  |-> {"InTransit", "Cancelled"},
     InTransit |-> {"Delivered", "Disputed"},
     Delivered |-> {"Completed", "Disputed"},
     Disputed  |-> {"Completed", "Cancelled"},
     Completed |-> {},
     Cancelled |-> {}]

Init ==
    /\ status = [id \in Ids |-> "Unposted"]
    /\ carrier = [id \in Ids |-> NoCarrier]

(* A shipment moves on; exactly an acceptance names its carrier. *)
Move(id, to) ==
    /\ to \in Successors[status[id]]
    /\ status' = [status EXCEPT ![id] = to]
    /\ IF to = "Accepted"
         THEN \E c \in Carriers : carrier' = [carrier EXCEPT ![id] = c]
         ELSE UNCHANGED carrier

Next == \E id \in Ids : \E to \in Successors[status[id]] : Move(id, to)

Spec == Init /\ [][Next]_vars
=============================================================================
