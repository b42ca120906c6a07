------------------------------- MODULE DNSBL -------------------------------
(***************************************************************************)
(* CheckDNSBLs: one goroutine per DNS blacklist looks the peer up and      *)
(* appends its result to req.results; when all have called wg.Done the     *)
(* results are counted.                                                    *)
(*                                                                         *)
(* The append is not synchronised.  req.results is made with room for one  *)
(* result per blacklist, so append never moves it: it loads the length,    *)
(* writes the slot behind it and stores the length it loaded plus one, and *)
(* these steps of several goroutines interleave.  The compiler may also    *)
(* store the length before the slot; nobody reads req.results before every *)
(* goroutine has done both and called wg.Done.                             *)
(***************************************************************************)
EXTENDS Naturals, FiniteSets

CONSTANTS
  RBLs,      \* DNSBLs: the blacklists
  Listings,  \* the sets of blacklists that may have a signal for the peer
  NoResult   \* a nil *DNSBLResult

ASSUME DNSBLAssumption ==
  /\ IsFiniteSet(RBLs) /\ RBLs # {} /\ NoResult \notin RBLs
  /\ Listings \subseteq SUBSET RBLs

Total == Cardinality(RBLs)

VARIABLES
  lists,     \* the blacklists that have a signal for the peer
  check,     \* CheckDNSBLs: "idle", "wait", or the decision it returned
  wpc,       \* wpc[r]: where the goroutine of blacklist r is
  found,     \* found[r]: what its lookup came to
  loaded,    \* loaded[r]: the length its append loaded
  slots,     \* the array of req.results; a result is named by its blacklist
  length     \* len(req.results)

dnsbl == <<check, wpc, found, loaded, slots, length>>

DNSBLType ==
  /\ lists \subseteq RBLs
  /\ check \in {"idle", "wait", "blocked", "clear"}
  /\ wpc \in [RBLs -> {"lookup", "write", "store", "done"}]
  /\ found \in [RBLs -> {"nothing", "listed", "unlisted", "error"}]
  /\ loaded \in [RBLs -> 0..Total]
  /\ slots \in [1..Total -> RBLs \cup {NoResult}]
  /\ length \in 0..Total

DNSBLInit ==
  /\ lists \in Listings
  /\ check = "idle"
  /\ wpc = [r \in RBLs |-> "done"]
  /\ found = [r \in RBLs |-> "nothing"]
  /\ loaded = [r \in RBLs |-> 0]
  /\ slots = [i \in 1..Total |-> NoResult]
  /\ length = 0

----------------------------------------------------------------------------
\* The request is garbage.
Dropped ==
  /\ slots' = [i \in 1..Total |-> NoResult]
  /\ length' = 0

\* A new request; check starts one goroutine per blacklist.
CheckStart ==
  /\ check # "wait"
  /\ check' = "wait"
  /\ wpc' = [r \in RBLs |-> "lookup"]
  /\ found' = [r \in RBLs |-> "nothing"]
  /\ UNCHANGED <<lists, loaded, slots, length>>

\* checkRBL: the host name is found with a signal of the list; or it is not
\* found, or found without one; or the lookup fails or takes 5 seconds.
\* Then append loads the length.
checkRBL(r) ==
  /\ wpc[r] = "lookup"
  /\ \E what \in {IF r \in lists THEN "listed" ELSE "unlisted", "error"} :
       found' = [found EXCEPT ![r] = what]
  /\ loaded' = [loaded EXCEPT ![r] = length]
  /\ wpc' = [wpc EXCEPT ![r] = "write"]
  /\ UNCHANGED <<lists, check, slots, length>>

AppendWrite(r) ==
  /\ wpc[r] = "write"
  /\ slots' = [slots EXCEPT ![loaded[r] + 1] = r]
  /\ wpc' = [wpc EXCEPT ![r] = "store"]
  /\ UNCHANGED <<lists, check, found, loaded, length>>

\* Mutant: the length is counted up, as by an atomic counter.
AppendStoreCounts(r) ==
  /\ wpc[r] = "store"
  /\ length' = length + 1
  /\ loaded' = [loaded EXCEPT ![r] = 0]
  /\ wpc' = [wpc EXCEPT ![r] = "done"]
  /\ UNCHANGED <<lists, check, found, slots>>

\* The new slice header is stored, and wg.Done called: the last of the two
\* stores of append, in whichever order they are made.
AppendStore(r) ==
  /\ wpc[r] = "store"
  /\ length' = loaded[r] + 1
  /\ loaded' = [loaded EXCEPT ![r] = 0]
  /\ wpc' = [wpc EXCEPT ![r] = "done"]
  /\ UNCHANGED <<lists, check, found, slots>>

\* The blacklists whose results are kept and say so.
Kept(what) == {i \in 1..length : slots[i] # NoResult /\ found[slots[i]] = what}

\* Mutant: one list is not enough, whatever the others say.
decisionOfTwo(total, listed, unlisted) ==
  total > 0 /\ listed > 1

decision(total, listed, unlisted) ==
  /\ total > 0 /\ listed > 0
  /\ listed > 1 \/ listed > unlisted

\* wg.Wait returns; the results are counted.
CheckEnd ==
  /\ check = "wait" /\ \A r \in RBLs : wpc[r] = "done"
  /\ check' = IF decision(length, Cardinality(Kept("listed")),
                          Cardinality(Kept("unlisted")))
              THEN "blocked" ELSE "clear"
  /\ Dropped
  /\ UNCHANGED <<lists, wpc, found, loaded>>

Worker(r) == checkRBL(r) \/ AppendWrite(r) \/ AppendStore(r)

DNSBLNext == CheckStart \/ CheckEnd \/ \E r \in RBLs : Worker(r)

DNSBLSpec == DNSBLInit /\ [][DNSBLNext]_<<lists, dnsbl>>

----------------------------------------------------------------------------
(* Properties *)

\* However the appends overlap, what CheckDNSBLs counts is a prefix of real
\* results: it reads r.Error of every one of them, and a nil among them would
\* be a panic in the goroutine of the connection.
ResultsAreReal ==
  \A i \in 1..length : slots[i] # NoResult

\* Results that overwrite one another are lost, and yet the decision is never
\* against what every blacklist said: a peer that no list has a signal for is
\* not blocked, and one that every list has answered "listed" for is.
DecisionIsGrounded ==
  /\ check = "blocked" => \E r \in RBLs : found[r] = "listed"
  /\ check = "clear" => \E r \in RBLs : found[r] # "listed"

----------------------------------------------------------------------------
(* What a reader of decision expects, and the code does not do *)

\* The decision is that of all the results.
DecisionIsComplete ==
  check \in {"blocked", "clear"} =>
    (check = "blocked"
       <=> decision(Total, Cardinality({r \in RBLs : found[r] = "listed"}),
                    Cardinality({r \in RBLs : found[r] = "unlisted"})))
=============================================================================
