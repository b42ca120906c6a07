----------------------------- MODULE Directory -----------------------------
(***************************************************************************)
(* What the registry of mailboxes promises of what is stored: a mailbox    *)
(* is given in one piece to a room when no other has it, it stays until it *)
(* is taken back or exchanged for another, and reserved names are not      *)
(* given.  A name may become disputed, and is then no longer kept to one   *)
(* room; no name stops being disputed.                                     *)
(***************************************************************************)

CONSTANTS
  Rooms, Names,
  Reserved,  \* names that nobody is given
  NoName

VARIABLES
  box,       \* box[r]: the mailbox of room r
  disputed   \* names that may belong to more than one room

dir == <<box, disputed>>

Init == box = [r \in Rooms |-> NoName] /\ disputed = {}

\* A room is given a mailbox, in place of the one it had.
Give(r, n) ==
  /\ n \notin Reserved
  /\ n \in disputed' \/ \A q \in Rooms \ {r} : box[q] # n
  /\ box' = [box EXCEPT ![r] = n]

\* A room gives its mailbox up.
Free(r) == box' = [box EXCEPT ![r] = NoName]

Next ==
  /\ disputed \subseteq disputed' /\ disputed' \subseteq Names
  /\ \/ box' = box
     \/ \E r \in Rooms : Free(r) \/ \E n \in Names : Give(r, n)

Spec == Init /\ [][Next]_dir
=============================================================================
