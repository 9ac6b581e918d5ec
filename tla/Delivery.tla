------------------------------ MODULE Delivery ------------------------------
(***************************************************************************)
(* What queueing a message promises, with no queue, worker or timer in it: *)
(* an accepted message is tried a bounded number of times and ends in      *)
(* exactly one of three ways.  It is delivered or dropped only after it    *)
(* was tried, and a message that was tried cannot be cleared any more.     *)
(* QueueManager implements this specification.                             *)
(***************************************************************************)
EXTENDS Integers

CONSTANTS Messages,     \* the messages there may be
          MaxTries      \* how often the provider may be asked to send one

VARIABLES status,       \* how far each message has come
          tries         \* how often each message was handed to the provider

deliveryVars == <<status, tries>>

Statuses == {"new", "accepted", "delivered", "dropped", "cleared"}

DeliveryInit ==
    /\ status = [m \in Messages |-> "new"]
    /\ tries = [m \in Messages |-> 0]

Accept(m) ==
    /\ status[m] = "new"
    /\ status' = [status EXCEPT ![m] = "accepted"]
    /\ UNCHANGED tries

Try(m) ==
    /\ status[m] = "accepted"
    /\ tries[m] < MaxTries
    /\ tries' = [tries EXCEPT ![m] = @ + 1]
    /\ UNCHANGED status

End(m, outcome) ==
    /\ status[m] = "accepted"
    /\ tries[m] > 0
    /\ status' = [status EXCEPT ![m] = outcome]
    /\ UNCHANGED tries

Forget(S) ==
    /\ \A m \in S : status[m] = "accepted" /\ tries[m] = 0
    /\ status' = [m \in Messages |-> IF m \in S THEN "cleared" ELSE status[m]]
    /\ UNCHANGED tries

DeliveryNext ==
    \/ \E m \in Messages :
          \/ Accept(m)
          \/ Try(m)
          \/ End(m, "delivered")
          \/ End(m, "dropped")
    \/ \E S \in SUBSET Messages : Forget(S)

DeliverySpec == DeliveryInit /\ [][DeliveryNext]_deliveryVars
=============================================================================
