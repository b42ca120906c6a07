---------------------------- MODULE MCMailboxes ----------------------------
(* Instances of Mailboxes for TLC. *)
EXTENDS Mailboxes, TLC

CONSTANTS r1, r2, x, y, admin

NoAliases  == {}
OneAlias   == {{x}}
SomeAliases == {{x}, {x, y}}

Perms == Permutations(Rooms)
=============================================================================
