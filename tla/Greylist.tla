------------------------------ MODULE Greylist ------------------------------
(***************************************************************************)
(* Bot.IsGreylisted, asked by the sessions of several peers at once: the   *)
(* greylist is one Go map, read and written through linkpearl's cache of   *)
(* the account data.  GetGreylist and SetGreylist take no lock, so a map   *)
(* that one session fetched may enter the cache after a newer one, and the *)
(* writes of two sessions may reach the homeserver in either order.        *)
(*                                                                         *)
(* The cache hands out the map itself: Maps are the Go maps in memory, and *)
(* a session or the cache refers to one.  An entry is the time since it    *)
(* was made, in ticks, which stops at Duration.                            *)
(***************************************************************************)
EXTENDS Integers, FiniteSets

CONSTANTS
  Peers,         \* peers, each with one connection at a time
  Duration,      \* the bot option greylist, in ticks
  MaxFaults,     \* bound: failed API calls, crashes and evictions of the list
  NoEntry, NoMap

ASSUME GreylistAssumption ==
  /\ IsFiniteSet(Peers)
  /\ Duration \in Nat \ {0} /\ MaxFaults \in Nat
  /\ NoEntry \notin Nat /\ NoMap \notin Nat

\* One map per session, one in the cache, one to be made.
Maps  == 1..Cardinality(Peers) + 2
Ages  == 0..Duration
List  == [Peers -> Ages \cup {NoEntry}]
Empty == [p \in Peers |-> NoEntry]

VARIABLES
  gpc,        \* gpc[p]: where IsGreylisted is for p; "pass" and "grey": answers
  mine,       \* mine[p]: the map it works on
  put,        \* put[p]: the list it is writing
  heap,       \* the maps
  cache,      \* the map that the cache holds
  list,       \* the list on the homeserver
  faults,
  first,      \* time since p was first put on a list
  excused     \* peers whose last answer came from settings it could not read

greylist == <<gpc, mine, put, heap, cache, list, faults, first, excused>>

GreylistType ==
  /\ gpc \in [Peers -> {"idle", "get", "fetched", "have", "put", "pass", "grey"}]
  /\ mine \in [Peers -> Maps \cup {NoMap}]
  /\ put \in [Peers -> List]
  /\ heap \in [Maps -> List] /\ cache \in Maps \cup {NoMap}
  /\ list \in List
  /\ faults \in 0..MaxFaults
  /\ first \in List /\ excused \subseteq Peers

GreylistInit ==
  /\ gpc = [p \in Peers |-> "idle"]
  /\ mine = [p \in Peers |-> NoMap] /\ put = [p \in Peers |-> Empty]
  /\ heap = [m \in Maps |-> Empty] /\ cache = NoMap
  /\ list = Empty
  /\ faults = 0
  /\ first = Empty /\ excused = {}

----------------------------------------------------------------------------
(* Memory *)

Live  == {cache} \cup {mine[p] : p \in Peers}
Fresh == CHOOSE m \in Maps : m \notin Live

\* The maps become h; the garbage collector clears those nothing refers to.
Memory(h) == heap' = [m \in Maps |-> IF m \in Live' THEN h[m] ELSE Empty]

Fault(happens) ==
  IF happens THEN faults < MaxFaults /\ faults' = faults + 1
             ELSE faults' = faults

To(p, where) == gpc' = [gpc EXCEPT ![p] = where]

\* IsGreylisted returns.
Return(p, result) ==
  /\ To(p, result)
  /\ mine' = [mine EXCEPT ![p] = NoMap]
  /\ put' = [put EXCEPT ![p] = Empty]

----------------------------------------------------------------------------
(* IsGreylisted *)

\* The option is read; the list is next.
AskGreylist(p) ==
  /\ gpc[p] \in {"idle", "grey"}
  /\ To(p, "get")
  /\ excused' = excused \ {p}
  /\ UNCHANGED <<mine, put, heap, cache, list, faults, first>>

\* The bot options cannot be read: they look empty, and so the greylist off.
BotUnreadable(p) ==
  /\ gpc[p] = "get"
  /\ Fault(TRUE)
  /\ Return(p, "pass")
  /\ excused' = excused \cup {p}
  /\ UNCHANGED <<heap, cache, list, first>>

\* GetGreylist: the cached map itself.
GetCached(p) ==
  /\ gpc[p] = "get" /\ cache # NoMap
  /\ mine' = [mine EXCEPT ![p] = cache]
  /\ To(p, "have")
  /\ UNCHANGED <<put, heap, cache, list, faults, first, excused>>

\* It is not cached: the homeserver answers with the list of this moment.
Fetch(p) ==
  /\ gpc[p] = "get" /\ cache = NoMap
  /\ mine' = [mine EXCEPT ![p] = Fresh]
  /\ To(p, "fetched")
  /\ UNCHANGED cache /\ Memory([heap EXCEPT ![Fresh] = list])
  /\ UNCHANGED <<put, list, faults, first, excused>>

\* The answer goes into the cache, over what may be there by now.
CacheFetched(p) ==
  /\ gpc[p] = "fetched"
  /\ cache' = mine[p]
  /\ To(p, "have")
  /\ UNCHANGED mine /\ Memory(heap)
  /\ UNCHANGED <<put, list, faults, first, excused>>

\* The homeserver does not answer: an empty map, not cached, with an error
\* that GetGreylist logs and keeps.
FetchFailed(p) ==
  /\ gpc[p] = "get" /\ cache = NoMap
  /\ Fault(TRUE)
  /\ mine' = [mine EXCEPT ![p] = Fresh]
  /\ To(p, "have")
  /\ UNCHANGED cache /\ Memory([heap EXCEPT ![Fresh] = Empty])
  /\ UNCHANGED <<put, list, first, excused>>

Entry(p) == heap[mine[p]][p]

\* Mutant: the duration is not added to the date of the entry.
KnownPeerAtOnce(p) ==
  /\ gpc[p] = "have" /\ Entry(p) # NoEntry
  /\ Return(p, "pass")
  /\ UNCHANGED cache /\ Memory(heap)
  /\ UNCHANGED <<list, faults, first, excused>>

\* Mutant: an entry never expires.
KnownPeerForever(p) ==
  /\ gpc[p] = "have" /\ Entry(p) # NoEntry
  /\ Return(p, "grey")
  /\ UNCHANGED cache /\ Memory(heap)
  /\ UNCHANGED <<list, faults, first, excused>>

\* The peer is on the list: it may pass when its time is over.
KnownPeer(p) ==
  /\ gpc[p] = "have" /\ Entry(p) # NoEntry
  /\ Return(p, IF Entry(p) < Duration THEN "grey" ELSE "pass")
  /\ UNCHANGED cache /\ Memory(heap)
  /\ UNCHANGED <<list, faults, first, excused>>

\* The option is read again for the duration, and cannot be read this time.
KnownPeerUnreadable(p) ==
  /\ gpc[p] = "have" /\ Entry(p) # NoEntry
  /\ Fault(TRUE)
  /\ Return(p, "pass")
  /\ excused' = excused \cup {p}
  /\ UNCHANGED cache /\ Memory(heap)
  /\ UNCHANGED <<list, first>>

\* Mutant: the date kept is the one when the time is over.
AddPeerUntil(p) ==
  /\ gpc[p] = "have" /\ Entry(p) = NoEntry
  /\ LET h == [heap EXCEPT ![mine[p]][p] = 0 - Duration]
     IN /\ cache' = mine[p] /\ UNCHANGED mine
        /\ put' = [put EXCEPT ![p] = h[mine[p]]]
        /\ Memory(h)
  /\ To(p, "put")
  /\ first' = [first EXCEPT ![p] = IF @ = NoEntry THEN 0 ELSE @]
  /\ UNCHANGED <<list, faults, excused>>

\* The peer is new: it is added to the map in hand, which SetGreylist puts
\* into the cache; what is sent to the homeserver is the map of this moment.
AddPeer(p) ==
  /\ gpc[p] = "have" /\ Entry(p) = NoEntry
  /\ LET h == [heap EXCEPT ![mine[p]][p] = 0]
     IN /\ cache' = mine[p] /\ UNCHANGED mine
        /\ put' = [put EXCEPT ![p] = h[mine[p]]]
        /\ Memory(h)
  /\ To(p, "put")
  /\ first' = [first EXCEPT ![p] = IF @ = NoEntry THEN 0 ELSE @]
  /\ UNCHANGED <<list, faults, excused>>

\* The write takes effect, or fails, or its answer is lost: the peer is told
\* to come back either way.
PutList(p) ==
  /\ gpc[p] = "put"
  /\ \E applied, failed \in BOOLEAN :
       /\ applied \/ failed
       /\ list' = IF applied THEN put[p] ELSE list
       /\ Fault(failed)
  /\ Return(p, "grey")
  /\ UNCHANGED cache /\ Memory(heap)
  /\ UNCHANGED <<first, excused>>

----------------------------------------------------------------------------
(* The environment *)

Older(l) == [p \in Peers |-> IF l[p] \in 0..Duration - 1 THEN l[p] + 1 ELSE l[p]]

\* Time passes, for the lists in memory, on their way and on the homeserver.
Tick ==
  /\ heap' = [m \in Maps |-> Older(heap[m])]
  /\ put' = [p \in Peers |-> Older(put[p])]
  /\ list' = Older(list)
  /\ first' = Older(first)
  /\ UNCHANGED <<gpc, mine, cache, faults, excused>>

EvictList ==
  /\ cache # NoMap
  /\ Fault(TRUE)
  /\ cache' = NoMap
  /\ UNCHANGED mine /\ Memory(heap)
  /\ UNCHANGED <<gpc, put, list, first, excused>>

\* The process dies and starts again: what is not on the homeserver is gone.
Crash ==
  /\ Fault(TRUE)
  /\ gpc' = [p \in Peers |-> IF gpc[p] = "pass" THEN "pass" ELSE "idle"]
  /\ mine' = [p \in Peers |-> NoMap] /\ put' = [p \in Peers |-> Empty]
  /\ heap' = [m \in Maps |-> Empty] /\ cache' = NoMap
  /\ UNCHANGED <<list, first, excused>>

IsGreylisted(p) ==
  \/ BotUnreadable(p)
  \/ GetCached(p)
  \/ Fetch(p)
  \/ CacheFetched(p)
  \/ FetchFailed(p)
  \/ KnownPeer(p)
  \/ KnownPeerUnreadable(p)
  \/ AddPeer(p)
  \/ PutList(p)

----------------------------------------------------------------------------
(* Properties *)

\* No race lets a peer in early: when the list lets a peer pass, the time
\* since it was first put on one is over, whichever copy of the list
\* was read; unless the settings could not be read at all.
NotBeforeItsTime ==
  \A p \in Peers :
    gpc[p] = "pass" /\ p \notin excused => first[p] = Duration
=============================================================================
