---------------------------- MODULE RlcAmService ----------------------------
(***************************************************************************)
(* What an RLC AM bearer promises to the PDCP entities at its two ends:    *)
(* every SDU is delivered at most once and intact, in any order, and PDCP  *)
(* is told that SDUs were delivered (rlc_tx_upper_layer_data_notifier::    *)
(* on_delivered_sdu, the highest such SDU) only when they were.            *)
(***************************************************************************)
EXTENDS Naturals

CONSTANT MaxSdus \* bound: SDUs submitted

VARIABLES
    submitted, \* SDUs 1 .. submitted were handed to RLC
    dropped,   \* SDUs discarded by PDCP or refused by a full queue
    received,  \* SDUs handed to the peer's PDCP
    confirmed  \* all SDUs up to this one were reported as delivered

vars == <<submitted, dropped, received, confirmed>>

Init == submitted = 0 /\ dropped = {} /\ received = {} /\ confirmed = 0

Submit == /\ submitted < MaxSdus
          /\ submitted' = submitted + 1
          /\ dropped' \in {dropped, dropped \union {submitted'}}
          /\ UNCHANGED <<received, confirmed>>

Discard(id) == /\ id \notin dropped \union received
               /\ dropped' = dropped \union {id}
               /\ UNCHANGED <<submitted, received, confirmed>>

Deliver(id) == /\ id \notin dropped \union received
               /\ received' = received \union {id}
               /\ UNCHANGED <<submitted, dropped, confirmed>>

Confirm(id) == /\ id > confirmed
               /\ 1 .. id \subseteq dropped \union received
               /\ confirmed' = id
               /\ UNCHANGED <<submitted, dropped, received>>

Next == \/ Submit
        \/ \E id \in 1 .. submitted : Discard(id) \/ Deliver(id) \/ Confirm(id)

Spec == Init /\ [][Next]_vars

=============================================================================
