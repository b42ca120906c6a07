------------------------------ MODULE Delivery ------------------------------
(***************************************************************************)
(* What the retry queue promises: a mail it has taken stays in it until it *)
(* has been sent, or has been sent Limit + 1 times in vain.                *)
(***************************************************************************)
EXTENDS Naturals

CONSTANTS
  Ids,    \* queue ids
  Limit   \* retries a mail is due after its first send from the queue

VARIABLES
  queue,  \* the ids the queue answers for
  left    \* left[i]: sends that i is still due before it may be given up

vars == <<queue, left>>

Init ==
  /\ queue \subseteq Ids
  /\ left = [i \in Ids |-> Limit + 1]

\* The queue takes a mail.
Put(i) ==
  /\ queue' = queue \cup {i}
  /\ UNCHANGED left

\* A mail is sent; it leaves the queue or not.
Try(i) ==
  /\ left' = [left EXCEPT ![i] = IF @ = 0 THEN 0 ELSE @ - 1]
  /\ queue' \in {queue, queue \ {i}}

\* A mail that was sent often enough is given up.
GiveUp(i) ==
  /\ left[i] = 0
  /\ queue' = queue \ {i}
  /\ UNCHANGED left

Next == \E i \in Ids : Put(i) \/ Try(i) \/ GiveUp(i)

Spec == Init /\ [][Next]_vars
=============================================================================
