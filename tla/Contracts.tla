----------------------------- MODULE Contracts ------------------------------
(***************************************************************************)
(* The deployed contracts that move no tokens.  No contract calls another, *)
(* so an order of invocations is, for each contract, the order of its own: *)
(* a behaviour follows one of them, chosen at the start.                   *)
(***************************************************************************)
EXTENDS ShipmentContract

CONSTANTS ShipmentNumbers, Hashes, MaxDocuments, NoIdentity, Scores, MaxRatings, MaxReports

ASSUME RatingsAssumption == MaxRatings \in Nat

VARIABLES
    contract,  \* the contract this behaviour follows
    authorizedContract, ratingCounter, reputations, ratings, raters,
    documentCounter, documents, shipmentDocs, documentCalls,
    identities

shipmentVars == <<counter, shipments, shipperList, carrierList, calls>>
reputationVars == <<authorizedContract, ratingCounter, reputations, ratings, raters>>
documentVars == <<documentCounter, documents, shipmentDocs, documentCalls>>
contractsVars ==
    <<contract, admin, shipmentVars, reputationVars, documentVars, identities>>

Rep == INSTANCE Reputation WITH Shipments <- ShipmentNumbers
Doc == INSTANCE DocumentRegistry WITH
    Shipments <- ShipmentNumbers, counter <- documentCounter, calls <- documentCalls
Id == INSTANCE Identity WITH UserHashes <- Hashes

AnyInit ==
    /\ contract \in {"shipment", "reputation", "document", "identity"}
    /\ Init /\ Rep!Init /\ Doc!Init /\ Id!Init

AnyNext ==
    /\ UNCHANGED contract
    /\ \/ /\ contract = "shipment" /\ Next /\ (admin = NoAdmin => admin' # NoAdmin)
          /\ UNCHANGED <<reputationVars, documentVars, identities>>
       \/ /\ contract = "reputation" /\ Rep!DeployedNext
          /\ UNCHANGED <<shipmentVars, documentVars, identities>>
       \/ /\ contract = "document" /\ Doc!DeployedNext
          /\ UNCHANGED <<shipmentVars, reputationVars, identities>>
       \/ /\ contract = "identity" /\ Id!Next
          /\ UNCHANGED <<shipmentVars, reputationVars, documentVars>>

ContractsSpec == AnyInit /\ [][AnyNext]_contractsVars

-----------------------------------------------------------------------------
(* Reputation: the profiles sum up the rating records. *)
RatingsAddUp == Rep!RatingsAddUp

(* Reputation: five stars never cost points. *)
BestRatingNeverHurts == Rep!BestRatingNeverHurts

(* Documents: what was provable stays provable. *)
IntegrityIsKept == Doc!IntegrityIsKept
=============================================================================
