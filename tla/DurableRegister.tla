---------------------------- MODULE DurableRegister ----------------------------
(***************************************************************************)
(* What PersistentStore promises its callers: the file is a register.  A   *)
(* save in progress offers a value; the register takes, at one instant,    *)
(* one of the values on offer, and never anything else.  A save that ends, *)
(* fails or dies with its process withdraws its offer.                     *)
(***************************************************************************)
CONSTANTS None, Values

VARIABLES
    value,      \* what load would return, or None while no file exists
    offered     \* the values of the saves in progress

Init == value = None /\ offered = {}

Offer(v) == offered' = offered \cup {v} /\ UNCHANGED value

\* A save takes effect and ends; the save whose value it took may be another one.
Install(v) ==
    /\ v \in offered
    /\ value' = v
    /\ offered' \in SUBSET offered

Withdraw == offered' \in SUBSET offered /\ UNCHANGED value

Next ==
    \/ \E v \in Values : Offer(v) \/ Install(v)
    \/ Withdraw

Spec == Init /\ [][Next]_<<value, offered>>
=============================================================================
