------------------------------ MODULE MCQueue ------------------------------
(* Instances of Queue for TLC. *)
EXTENDS Queue, TLC

CONSTANTS e1, e2, e3, a, b

\* e1 is sent to both addresses, e2 to one.
ToTwoAndOne == (e1 :> {a, b}) @@ (e2 :> {a})

\* Every event is sent to one address.
ToOneEach   == [e \in Events |-> {a}]
=============================================================================
