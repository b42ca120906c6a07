----------------------------- MODULE MCReplies -----------------------------
(* Instances of Replies for TLC. *)
EXTENDS Replies, FiniteSets, Naturals, TLC

CONSTANTS s1, s2, al, p1, p2, p3

UpTo(n, S) == {T \in SUBSET S : Cardinality(T) <= n}

\* Any mail with up to two addresses in each of To and Cc, each of them once.
AnyMail ==
  {m \in [from : People, to : UpTo(2, Addrs), cc : UpTo(2, Addrs), rcptTo : Own \cup Others] :
     m.from \notin m.to \cup m.cc /\ m.to \cap m.cc = {}}

\* Mails to an address of the room and to somebody else.
ToMany == {m \in AnyMail : /\ m.rcptTo \in m.to \cap Own /\ m.cc = {}
                           /\ \E p \in People : m.to = {m.rcptTo, p}}

\* Mails to an alias of the room, and to nobody else.
ToAlias == {m \in AnyMail : m.rcptTo \in Others /\ m.to = {m.rcptTo} /\ m.cc = {}}

Perms == Permutations(People \ Forwarded)
=============================================================================
