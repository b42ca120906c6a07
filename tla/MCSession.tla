----------------------------- MODULE MCSession -----------------------------
(* Instances of Session for TLC. *)
EXTENDS Session, TLC

CONSTANTS ax, ay, ox, x, y

\* Two addresses of ours and one elsewhere whose first part is also a mailbox
\* of ours.
MailboxOf == (ax :> x) @@ (ay :> y) @@ (ox :> x)
=============================================================================
