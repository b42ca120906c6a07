----------------------------- MODULE MCAntispam -----------------------------
(* Instances of Antispam for TLC. *)
EXTENDS Antispam

\* No blacklist has a signal for the peer, or every one.
NoneOrAll == {{}, RBLs}
=============================================================================
