----------------------------- MODULE MCSettings -----------------------------
(* Instances of Settings for TLC. *)
EXTENDS Settings, TLC

CONSTANTS alice, root

\* `users` keeps everybody but the admin out, or lets everybody in.
OpenOrClosed == {{root}, {alice, root}}

Perms == Permutations(Jobs)
=============================================================================
