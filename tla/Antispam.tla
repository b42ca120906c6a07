------------------------------ MODULE Antispam ------------------------------
(***************************************************************************)
(* Mail servers that come back until their mail is taken, and the two      *)
(* checks that turn them away: the DNS blacklists at RCPT and the greylist *)
(* at DATA.  One of the peers writes to a room with spamcheck:rbl on.      *)
(***************************************************************************)
EXTENDS DNSBL, Greylist

CONSTANT Checked   \* the peer that the blacklists are asked about

ASSUME CheckedAssumption == Checked \in Peers

VARIABLE at        \* at[p]: where the session of p is

vars == <<lists, dnsbl, greylist, at>>

TypeOK ==
  /\ DNSBLType
  /\ GreylistType
  /\ at \in [Peers -> {"outside", "rcpt", "data", "inside"}]

Init ==
  /\ DNSBLInit
  /\ GreylistInit
  /\ at = [p \in Peers |-> "outside"]

Go(p, where) == at' = [at EXCEPT ![p] = where]

\* A peer connects and gets as far as RCPT.  The blacklists are asked if the
\* options of the room say so.
Rcpt(p) ==
  /\ at[p] = "outside"
  /\ IF p = Checked
     THEN CheckStart /\ Go(p, "rcpt")
     ELSE Go(p, "data") /\ UNCHANGED <<lists, dnsbl>>
  /\ UNCHANGED greylist

\* ErrRBL leaves the session open: the peer gives up, or names another
\* recipient, of a room that does not ask the lists, and goes on to DATA.  The
\* refused recipient is in s.tos by then and gets the mail as well.
RcptAnswer ==
  /\ at[Checked] = "rcpt" /\ check \in {"blocked", "clear"}
  /\ \/ check = "blocked" /\ Go(Checked, "outside")
     \/ Go(Checked, "data")
  /\ check' = "idle" /\ found' = [r \in RBLs |-> "nothing"]
  /\ UNCHANGED <<lists, wpc, loaded, slots, length, greylist>>

DataStart(p) ==
  /\ at[p] = "data" /\ AskGreylist(p)
  /\ UNCHANGED <<lists, dnsbl, at>>

\* ErrGreylisted, or the mail is taken.
DataAnswer(p) ==
  /\ at[p] = "data" /\ IsGreylisted(p)
  /\ Go(p, CASE gpc'[p] = "grey" -> "outside"
             [] gpc'[p] = "pass" -> "inside"
             [] OTHER -> "data")
  /\ UNCHANGED <<lists, dnsbl>>

\* The process dies, and every session with it.
Die ==
  /\ Crash
  /\ check' = "idle" /\ found' = [r \in RBLs |-> "nothing"]
  /\ wpc' = [r \in RBLs |-> "done"] /\ loaded' = [r \in RBLs |-> 0]
  /\ Dropped /\ UNCHANGED lists
  /\ at' = [p \in Peers |-> IF at[p] = "inside" THEN "inside" ELSE "outside"]

Lookups ==
  /\ CheckEnd \/ \E r \in RBLs : Worker(r)
  /\ UNCHANGED <<greylist, at>>

Environment == (Tick \/ EvictList) /\ UNCHANGED <<lists, dnsbl, at>>

Session(p) ==
  \/ Rcpt(p)
  \/ p = Checked /\ RcptAnswer
  \/ DataStart(p)
  \/ DataAnswer(p)

Next ==
  \/ \E p \in Peers : Session(p)
  \/ Lookups
  \/ Environment
  \/ Die

\* Mail servers retry, goroutines run, a lookup ends after 5 seconds at the
\* latest, and time passes.
Fairness ==
  /\ \A p \in Peers : WF_vars(Session(p))
  /\ WF_vars(Lookups)
  /\ WF_vars(Tick /\ UNCHANGED <<lists, dnsbl, at>>)

Spec == Init /\ [][Next]_vars /\ Fairness

----------------------------------------------------------------------------
(* Properties *)

\* A mail server that no blacklist knows and that keeps coming back gets its
\* mail in, however its attempts and those of others overlap in the greylist,
\* and though lists are lost in crashes, evictions and failed writes.
RetriesGetIn ==
  \A p \in Peers : <>(at[p] = "inside" \/ (p = Checked /\ lists # {}))

----------------------------------------------------------------------------
(* What a reader of spamcheck:rbl expects, and the code does not do *)

\* A peer that every blacklist has a signal for gets past RCPT only when some
\* lookup of that attempt failed.
ListedStayOut ==
  [][at[Checked] = "rcpt" /\ at'[Checked] = "data" /\ lists = RBLs
       => \E r \in RBLs : found[r] = "error"]_vars
=============================================================================
