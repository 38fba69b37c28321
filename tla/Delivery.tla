------------------------------ MODULE Delivery ------------------------------
(***************************************************************************)
(* What webhook delivery promises a subscriber, whatever the processes,    *)
(* the database and the endpoint do: a delivery is reported as made only   *)
(* when the endpoint accepted the event, that report is never taken back,  *)
(* and a delivery on record is settled in the end, made or given up.       *)
(***************************************************************************)
CONSTANT Deliveries

VARIABLES
    status,      \* delivery -> "none", "pending", "made", "givenup"
    accepted     \* delivery -> the endpoint has accepted the event

abstractVars == <<status, accepted>>

Start ==
    /\ status = [k \in Deliveries |-> "none"]
    /\ accepted = [k \in Deliveries |-> FALSE]

Accept(k) ==
    /\ accepted' = [accepted EXCEPT ![k] = TRUE]
    /\ UNCHANGED status

(* A delivery is recorded after its first attempt.                         *)
Record(k) ==
    /\ status[k] = "none"
    /\ \/ status' = [status EXCEPT ![k] = "pending"]
       \/ accepted[k] /\ status' = [status EXCEPT ![k] = "made"]
    /\ UNCHANGED accepted

(* An attempt that another processor still had under way may succeed after *)
(* the delivery was given up, or fail and give it another chance.          *)
Settle(k) ==
    /\ \/ status[k] \in {"pending", "givenup"} /\ accepted[k]
          /\ status' = [status EXCEPT ![k] = "made"]
       \/ status[k] = "pending" /\ status' = [status EXCEPT ![k] = "givenup"]
       \/ status[k] = "givenup" /\ status' = [status EXCEPT ![k] = "pending"]
    /\ UNCHANGED accepted

(* Deleting a subscription forgets its deliveries.                         *)
Forget(K) ==
    /\ status' = [k \in Deliveries |-> IF k \in K THEN "none" ELSE status[k]]
    /\ UNCHANGED accepted

Step ==
    \/ \E k \in Deliveries : Accept(k) \/ Record(k) \/ Settle(k)
    \/ \E K \in SUBSET Deliveries : Forget(K)

(* Reports are true and final.                                             *)
TrueReports == Start /\ [][Step]_abstractVars

Promise == TrueReports /\ \A k \in Deliveries : []<>(status[k] # "pending")
==============================================================================
