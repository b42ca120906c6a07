-------------------------- MODULE AntispamProofs ---------------------------
(***************************************************************************)
(* Proofs about Antispam, and with it about DNSBL and Greylist, for any    *)
(* set of blacklists and of peers, any greylist duration and any number of *)
(* faults.                                                                 *)
(***************************************************************************)
EXTENDS Antispam, FiniteSetTheorems, TLAPS

----------------------------------------------------------------------------
(* CheckDNSBLs: counting the appends *)

\* The goroutines that have called wg.Done, or were not started.
Done == {r \in RBLs : wpc[r] = "done"}

\* The goroutines of a check are those that run; no append counts more results
\* than there are goroutines that are done, and the first one that is done
\* leaves a result.
Counted ==
  /\ check # "wait" => length = 0 /\ \A r \in RBLs : wpc[r] = "done"
  /\ \A r \in RBLs : wpc[r] \in {"lookup", "done"} => loaded[r] = 0
  /\ length <= Cardinality(Done)
  /\ \A r \in RBLs : loaded[r] <= Cardinality(Done)
  /\ check = "wait" /\ Done # {} => length > 0

\* The slots below a length that is stored, or about to be, are written.
Written ==
  /\ \A i \in 1..length : slots[i] # NoResult
  /\ \A r \in RBLs :
       /\ wpc[r] # "done" => \A i \in 1..loaded[r] : slots[i] # NoResult
       /\ wpc[r] = "store" => slots[loaded[r] + 1] # NoResult

\* What a lookup came to, and what the decision that is returned rests on.
Answered ==
  /\ \A r \in RBLs :
       /\ check # "idle" /\ wpc[r] # "lookup" => found[r] # "nothing"
       /\ found[r] = "unlisted" => r \notin lists
  /\ DecisionIsGrounded

DNSBLInv == Counted /\ Written /\ Answered

\* The number of blacklists, and of those whose goroutine is done, is a number;
\* not all are done while one is not.
LEMMA DoneNumber ==
  /\ Total \in Nat /\ Cardinality(Done) \in 0..Total
  /\ \A r \in RBLs : wpc[r] # "done" => Cardinality(Done) < Total
<1>1. Total \in Nat
  BY DNSBLAssumption, FS_CardinalityType DEF Total
<1>2. Done \in SUBSET RBLs
  BY DEF Done
<1>3. /\ IsFiniteSet(Done) /\ Cardinality(Done) <= Total
      /\ Cardinality(Done) = Total => Done = RBLs
  BY <1>2, DNSBLAssumption, FS_Subset DEF Total
<1>4. Cardinality(Done) \in Nat
  BY <1>3, FS_CardinalityType
<1>5. \A r \in RBLs : wpc[r] # "done" => Done # RBLs
  BY DEF Done
<1> QED BY <1>1, <1>3, <1>4, <1>5

\* The goroutines of a new request begin.
LEMMA CheckStartKeeps ==
  ASSUME DNSBLType, DNSBLInv, CheckStart
  PROVE  DNSBLType' /\ DNSBLInv'
<1>1. Done' = {}
  BY DEF CheckStart, Done
<1>2. Cardinality(Done') = 0
  BY <1>1, FS_EmptySet
<1>3. length = 0 /\ \A r \in RBLs : loaded[r] = 0
  BY DEF DNSBLInv, Counted, CheckStart
<1>4. DNSBLType'
  BY DEF DNSBLType, CheckStart
<1>5. Counted'
  BY <1>1, <1>2, <1>3 DEF Counted, CheckStart
<1>6. Written'
  BY <1>3 DEF Written, CheckStart
<1>7. Answered'
  BY DEF Answered, DecisionIsGrounded, CheckStart
<1> QED BY <1>4, <1>5, <1>6, <1>7 DEF DNSBLInv

\* A lookup ends and its append loads the length.
LEMMA LookupKeeps ==
  ASSUME DNSBLType, DNSBLInv, NEW r \in RBLs, checkRBL(r)
  PROVE  DNSBLType' /\ DNSBLInv'
<1>1. PICK what \in {IF r \in lists THEN "listed" ELSE "unlisted", "error"} :
        found' = [found EXCEPT ![r] = what]
  BY DEF checkRBL
<1>2. /\ wpc[r] = "lookup" /\ wpc' = [wpc EXCEPT ![r] = "write"]
      /\ loaded' = [loaded EXCEPT ![r] = length]
      /\ UNCHANGED <<lists, check, slots, length>>
  BY DEF checkRBL
<1>3. Done' = Done
  BY <1>2 DEF Done, DNSBLType
<1>4. DNSBLType'
  BY <1>1, <1>2 DEF DNSBLType
<1>5. Counted'
  BY <1>2, <1>3 DEF DNSBLInv, Counted, DNSBLType
<1>6. Written'
  BY <1>2 DEF DNSBLInv, Written, DNSBLType
<1>7. check = "wait"
  BY <1>2 DEF DNSBLInv, Counted
<1>8. Answered'
  BY <1>1, <1>2, <1>7 DEF DNSBLInv, Answered, DecisionIsGrounded, DNSBLType
<1> QED BY <1>4, <1>5, <1>6, <1>8 DEF DNSBLInv

\* An append writes the slot behind the length it loaded, over a result of
\* another one perhaps.
LEMMA WriteKeeps ==
  ASSUME DNSBLType, DNSBLInv, NEW r \in RBLs, AppendWrite(r)
  PROVE  DNSBLType' /\ DNSBLInv'
<1>1. /\ wpc[r] = "write" /\ wpc' = [wpc EXCEPT ![r] = "store"]
      /\ slots' = [slots EXCEPT ![loaded[r] + 1] = r]
      /\ UNCHANGED <<lists, check, found, loaded, length>>
  BY DEF AppendWrite
<1>2. Done' = Done
  BY <1>1 DEF Done, DNSBLType
<1>3. DNSBLType'
  BY <1>1 DEF DNSBLType
<1>4. Counted'
  BY <1>1, <1>2 DEF DNSBLInv, Counted, DNSBLType
<1>5. loaded[r] + 1 \in 1..Total
  BY <1>1, DoneNumber DEF DNSBLInv, Counted, DNSBLType
<1>6. /\ slots'[loaded[r] + 1] # NoResult
      /\ \A i \in 1..Total : slots[i] # NoResult => slots'[i] # NoResult
  BY <1>1, <1>5, DNSBLAssumption DEF DNSBLType
<1>7. \A q \in RBLs : q # r => /\ wpc'[q] = wpc[q]
                               /\ wpc[q] = "store" => loaded[q] + 1 \in 1..Total
  BY <1>1, DoneNumber DEF DNSBLInv, Counted, DNSBLType
<1>8. Written'
  BY <1>1, <1>5, <1>6, <1>7, DoneNumber DEF DNSBLInv, Written, DNSBLType
<1>9. Answered'
  BY <1>1 DEF DNSBLInv, Answered, DecisionIsGrounded, DNSBLType
<1> QED BY <1>3, <1>4, <1>8, <1>9 DEF DNSBLInv

\* An append stores its length, and one more goroutine is done.
LEMMA StoreKeeps ==
  ASSUME DNSBLType, DNSBLInv, NEW r \in RBLs, AppendStore(r)
  PROVE  DNSBLType' /\ DNSBLInv'
<1>1. /\ wpc[r] = "store" /\ wpc' = [wpc EXCEPT ![r] = "done"]
      /\ length' = loaded[r] + 1 /\ loaded' = [loaded EXCEPT ![r] = 0]
      /\ UNCHANGED <<lists, check, found, slots>>
  BY DEF AppendStore
<1>2. Done' = Done \cup {r} /\ r \notin Done
  BY <1>1 DEF Done, DNSBLType
<1>3. IsFiniteSet(Done)
  BY DNSBLAssumption, FS_Subset DEF Done
<1>4. Cardinality(Done') = Cardinality(Done) + 1
  BY <1>2, <1>3, FS_AddElement
<1>5. check = "wait"
  BY <1>1 DEF DNSBLInv, Counted
<1>6. loaded[r] <= Cardinality(Done) /\ Cardinality(Done) < Total
  BY <1>1, DoneNumber DEF DNSBLInv, Counted
<1>7. DNSBLType'
  <2>1. loaded[r] \in Nat /\ Total \in Nat /\ Cardinality(Done) \in Nat
    BY DoneNumber DEF DNSBLType
  <2>2. length' \in 0..Total /\ 0 \in 0..Total
    BY <1>1, <1>6, <2>1
  <2> QED BY <1>1, <2>2 DEF DNSBLType
<1>8. Counted'
  BY <1>1, <1>4, <1>5, <1>6, DoneNumber DEF DNSBLInv, Counted, DNSBLType
<1>9. Written'
  <2>1. \A i \in 1..length' : i \in 1..loaded[r] \/ i = loaded[r] + 1
    BY <1>1 DEF DNSBLType
  <2>2. \A i \in 1..length' : slots[i] # NoResult
    BY <1>1, <2>1 DEF DNSBLInv, Written
  <2>3. \A q \in RBLs : q # r => wpc'[q] = wpc[q] /\ loaded'[q] = loaded[q]
    BY <1>1 DEF DNSBLType
  <2>4. wpc'[r] = "done"
    BY <1>1 DEF DNSBLType
  <2> QED BY <1>1, <2>2, <2>3, <2>4 DEF DNSBLInv, Written
<1>10. Answered'
  BY <1>1, <1>5 DEF DNSBLInv, Answered, DecisionIsGrounded, DNSBLType
<1> QED BY <1>7, <1>8, <1>9, <1>10 DEF DNSBLInv

\* Results are kept in slots that hold one.
LEMMA KeptNumber ==
  ASSUME DNSBLType, NEW what
  PROVE  /\ IsFiniteSet(Kept(what)) /\ Cardinality(Kept(what)) \in Nat
         /\ Cardinality(Kept(what)) = 0 <=> Kept(what) = {}
<1>1. length \in Int
  BY DoneNumber DEF DNSBLType
<1>2. IsFiniteSet(1..length)
  BY <1>1, FS_Interval
<1>3. Kept(what) \in SUBSET (1..length)
  BY DEF Kept
<1>4. IsFiniteSet(Kept(what))
  BY <1>2, <1>3, FS_Subset
<1> QED BY <1>4, FS_CardinalityType, FS_EmptySet

\* The results are counted: whatever was overwritten, a decision to block
\* rests on a list, and one not to block on a list that did not say so.
LEMMA CheckEndKeeps ==
  ASSUME DNSBLType, DNSBLInv, CheckEnd
  PROVE  DNSBLType' /\ DNSBLInv'
<1>1. /\ check = "wait" /\ \A r \in RBLs : wpc[r] = "done"
      /\ slots' = [i \in 1..Total |-> NoResult] /\ length' = 0
      /\ check' \in {"blocked", "clear"}
      /\ UNCHANGED <<lists, wpc, found, loaded>>
  BY DEF CheckEnd, Dropped
<1>2. length > 0 /\ length \in 0..Total /\ Total \in Nat
  BY <1>1, DNSBLAssumption, DoneNumber DEF DNSBLInv, Counted, Done, DNSBLType
<1>3. \A i \in 1..length : slots[i] \in RBLs
  BY <1>2 DEF DNSBLInv, Written, DNSBLType
<1>4. ASSUME check' = "blocked" PROVE \E r \in RBLs : found[r] = "listed"
  <2>1. Cardinality(Kept("listed")) > 0
    BY <1>4 DEF CheckEnd, decision
  <2>2. PICK i \in Kept("listed") : TRUE
    BY <2>1, KeptNumber
  <2> QED BY <1>3, <2>2 DEF Kept
<1>5. ASSUME \A r \in RBLs : found[r] = "listed" PROVE check' = "blocked"
  <2>1. 1 \in Kept("listed")
    BY <1>2, <1>3, <1>5, DNSBLAssumption DEF Kept
  <2>2. Kept("unlisted") = {}
    BY <1>3, <1>5 DEF Kept
  <2>3. Cardinality(Kept("listed")) > 0 /\ Cardinality(Kept("unlisted")) = 0
    BY <2>1, <2>2, KeptNumber
  <2> QED BY <1>2, <2>3 DEF CheckEnd, decision
<1>6. DNSBLType'
  BY <1>1, <1>2 DEF DNSBLType
<1>7. Counted'
  <2>1. Done' = Done
    BY <1>1 DEF Done
  <2> QED BY <1>1, <2>1, DoneNumber DEF DNSBLInv, Counted
<1>8. Written'
  BY <1>1 DEF Written
<1>9. Answered'
  BY <1>1, <1>4, <1>5 DEF DNSBLInv, Answered, DecisionIsGrounded
<1> QED BY <1>6, <1>7, <1>8, <1>9 DEF DNSBLInv

\* The answer is taken by the session, or lost with the process.
LEMMA CheckTakenKeeps ==
  ASSUME DNSBLType, DNSBLInv, RcptAnswer \/ Die
  PROVE  DNSBLType' /\ DNSBLInv'
<1>1. CASE RcptAnswer
  <2>1. Done' = Done
    BY <1>1 DEF Done, RcptAnswer
  <2>2. DNSBLType'
    BY <1>1 DEF DNSBLType, RcptAnswer
  <2>3. Counted'
    BY <1>1, <2>1 DEF DNSBLInv, Counted, RcptAnswer
  <2>4. Written' /\ Answered'
    BY <1>1 DEF DNSBLInv, Written, Answered, DecisionIsGrounded, RcptAnswer
  <2> QED BY <2>2, <2>3, <2>4 DEF DNSBLInv
<1>2. CASE Die
  <2>1. /\ check' = "idle" /\ found' = [r \in RBLs |-> "nothing"]
        /\ wpc' = [r \in RBLs |-> "done"] /\ loaded' = [r \in RBLs |-> 0]
        /\ slots' = [i \in 1..Total |-> NoResult] /\ length' = 0
        /\ UNCHANGED lists
    BY <1>2 DEF Die, Dropped
  <2>2. Done' = RBLs
    BY <2>1 DEF Done
  <2>3. Cardinality(Done') = Total
    BY <2>2 DEF Total
  <2>4. DNSBLType'
    BY <2>1, DoneNumber DEF DNSBLType
  <2>5. Counted'
    BY <2>1, <2>3, DoneNumber DEF Counted
  <2>6. Written' /\ Answered'
    BY <2>1 DEF Written, Answered, DecisionIsGrounded
  <2> QED BY <2>4, <2>5, <2>6 DEF DNSBLInv
<1> QED BY <1>1, <1>2

\* Before the first check nothing is counted.
LEMMA DNSBLStarts == DNSBLInit => DNSBLType /\ DNSBLInv
<1> SUFFICES ASSUME DNSBLInit PROVE DNSBLType /\ DNSBLInv
  OBVIOUS
<1>1. DNSBLType
  BY DNSBLAssumption, DoneNumber DEF DNSBLInit, DNSBLType
<1>2. Counted
  BY DoneNumber DEF DNSBLInit, Counted
<1>3. Written /\ Answered
  BY DEF DNSBLInit, Written, Answered, DecisionIsGrounded
<1> QED BY <1>1, <1>2, <1>3 DEF DNSBLInv

\* Every step keeps the results of the blacklists in order.
LEMMA DNSBLStep == DNSBLType /\ DNSBLInv /\ [Next]_vars => DNSBLType' /\ DNSBLInv'
<1> SUFFICES ASSUME DNSBLType, DNSBLInv, [Next]_vars
             PROVE  DNSBLType' /\ DNSBLInv'
  OBVIOUS
<1>1. ASSUME UNCHANGED <<lists, dnsbl>> PROVE DNSBLType' /\ DNSBLInv'
  BY <1>1 DEF dnsbl, DNSBLType, DNSBLInv, Counted, Done, Written, Answered,
              DecisionIsGrounded
<1>2. \/ CheckStart
      \/ \E r \in RBLs : Worker(r)
      \/ CheckEnd
      \/ RcptAnswer \/ Die
      \/ UNCHANGED <<lists, dnsbl>>
  BY DEF Next, Session, Rcpt, DataStart, DataAnswer, Lookups, Environment, vars
<1> QED
  BY <1>1, <1>2, CheckStartKeeps, LookupKeeps, WriteKeeps, StoreKeeps,
     CheckEndKeeps, CheckTakenKeeps
     DEF Worker

----------------------------------------------------------------------------
(* IsGreylisted: no copy of the list is ahead of its time *)

\* Entries of l are of peers that were put on a list, and not older than the
\* first time this was done.
InTime(l) ==
  \A p \in Peers : l[p] # NoEntry => first[p] # NoEntry /\ l[p] <= first[p]

\* A session that has the list has a map; every copy of the list, in memory,
\* on its way or on the homeserver, is in time.
GreylistInv ==
  /\ \A p \in Peers : gpc[p] \in {"fetched", "have", "put"} => mine[p] # NoMap
  /\ \A m \in Maps : InTime(heap[m])
  /\ \A p \in Peers : InTime(put[p])
  /\ InTime(list)
  /\ NotBeforeItsTime

\* There is always a map to be made: those in use are one per session and the
\* one in the cache.
LEMMA FreshMap ==
  ASSUME mine \in [Peers -> Maps \cup {NoMap}]
  PROVE  Fresh \in Maps
<1> DEFINE used == {mine[p] : p \in Peers}
           n == Cardinality(Peers)
<1>1. n \in Nat
  BY GreylistAssumption, FS_CardinalityType
<1>2. mine \in Surjection(Peers, used)
  BY DEF Surjection
<1>3. IsFiniteSet(used) /\ Cardinality(used) <= n
  BY <1>2, GreylistAssumption, FS_Surjection
<1>4. Live = used \cup {cache}
  BY DEF Live
<1>5. IsFiniteSet(Live) /\ Cardinality(Live) <= n + 1
  <2>1. Cardinality(used) \in Nat
    BY <1>3, FS_CardinalityType
  <2>2. /\ IsFiniteSet(used \cup {cache})
        /\ Cardinality(used \cup {cache})
             = IF cache \in used THEN Cardinality(used) ELSE Cardinality(used) + 1
    BY <1>3, FS_AddElement
  <2> HIDE DEF used, n
  <2> QED BY <1>1, <1>3, <1>4, <2>1, <2>2
<1>6. Cardinality(Maps) = n + 2
  <2>1. n + 2 \in Int /\ 1 \in Int /\ ~(1 > n + 2) /\ n + 2 - 1 + 1 = n + 2
    BY <1>1
  <2> HIDE DEF n
  <2>2. Cardinality(1..n + 2) = n + 2
    BY <2>1, FS_Interval
  <2> QED BY <2>2 DEF Maps, n
<1>7. ~(Maps \subseteq Live)
  <2> SUFFICES ASSUME Maps \subseteq Live PROVE FALSE
    OBVIOUS
  <2>1. Cardinality(Maps) <= Cardinality(Live) /\ Cardinality(Live) \in Nat
    BY <1>5, FS_Subset, FS_CardinalityType
  <2> HIDE DEF n
  <2> QED BY <1>1, <1>5, <1>6, <2>1
<1> QED BY <1>7 DEF Fresh

\* Nothing on it is in time.
LEMMA EmptyInTime == Empty \in List /\ InTime(Empty)
  BY DEF Empty, List, InTime

\* Collecting garbage keeps the maps well typed and in time.
LEMMA MemoryKeeps ==
  ASSUME NEW h \in [Maps -> List], Memory(h),
         \A m \in Maps : InTime(h[m]), UNCHANGED first
  PROVE  heap' \in [Maps -> List] /\ \A m \in Maps : InTime(heap[m])'
  BY EmptyInTime DEF Memory, InTime

\* The greylist is asked; the options cannot be read; the list is cached.
LEMMA GreylistAsks ==
  ASSUME GreylistType, GreylistInv, NEW p \in Peers,
         AskGreylist(p) \/ BotUnreadable(p) \/ GetCached(p)
  PROVE  GreylistType' /\ GreylistInv'
<1> USE EmptyInTime, GreylistAssumption
    DEF GreylistType, GreylistInv, InTime, NotBeforeItsTime, To, Return, Fault
<1>1. CASE AskGreylist(p)
  BY <1>1 DEF AskGreylist
<1>2. CASE BotUnreadable(p)
  BY <1>2 DEF BotUnreadable
<1>3. CASE GetCached(p)
  BY <1>3 DEF GetCached
<1> QED BY <1>1, <1>2, <1>3

\* The list is fetched and enters the cache, or cannot be fetched.
LEMMA GreylistFetches ==
  ASSUME GreylistType, GreylistInv, NEW p \in Peers,
         Fetch(p) \/ CacheFetched(p) \/ FetchFailed(p)
  PROVE  GreylistType' /\ GreylistInv'
<1>1. Fresh \in Maps /\ NoMap \notin Maps
  BY FreshMap, GreylistAssumption DEF GreylistType, Maps
<1>2. UNCHANGED <<put, list, first, excused>>
  BY DEF Fetch, CacheFetched, FetchFailed
<1>3. heap' \in [Maps -> List] /\ \A m \in Maps : InTime(heap[m])'
  <2>1. ASSUME NEW l \in List, InTime(l)
        PROVE  /\ [heap EXCEPT ![Fresh] = l] \in [Maps -> List]
               /\ \A m \in Maps : InTime([heap EXCEPT ![Fresh] = l][m])
    BY <1>1, <2>1 DEF GreylistType, GreylistInv
  <2>2. CASE Fetch(p)
    BY <1>2, <2>1, <2>2, MemoryKeeps DEF Fetch, GreylistType, GreylistInv
  <2>3. CASE CacheFetched(p)
    BY <1>2, <2>3, MemoryKeeps DEF CacheFetched, GreylistType, GreylistInv
  <2>4. CASE FetchFailed(p)
    BY <1>2, <2>1, <2>4, EmptyInTime, MemoryKeeps DEF FetchFailed
  <2> QED BY <2>2, <2>3, <2>4
<1>4. /\ GreylistType'
      /\ \A q \in Peers : gpc'[q] \in {"fetched", "have", "put"} => mine'[q] # NoMap
      /\ \A q \in Peers : gpc'[q] = "pass" => gpc[q] = "pass"
  <2> USE <1>1, <1>2, <1>3, GreylistAssumption
      DEF GreylistType, GreylistInv, To, Fault
  <2>1. CASE Fetch(p)
    BY <2>1 DEF Fetch
  <2>2. CASE CacheFetched(p)
    BY <2>2 DEF CacheFetched
  <2>3. CASE FetchFailed(p)
    BY <2>3 DEF FetchFailed
  <2> QED BY <2>1, <2>2, <2>3
<1> QED BY <1>2, <1>3, <1>4 DEF GreylistInv, InTime, NotBeforeItsTime

\* IsGreylisted returns, or the list is evicted: the lists stay what they are,
\* but for the one that a write replaces.
LEMMA GreylistAnswers ==
  ASSUME GreylistType, GreylistInv, NEW p \in Peers,
         KnownPeer(p) \/ KnownPeerUnreadable(p) \/ PutList(p) \/ EvictList
  PROVE  GreylistType' /\ GreylistInv'
<1>1. UNCHANGED first /\ Memory(heap)
  BY DEF KnownPeer, KnownPeerUnreadable, PutList, EvictList
<1>2. heap' \in [Maps -> List] /\ \A m \in Maps : InTime(heap[m])'
  BY <1>1, MemoryKeeps DEF GreylistType, GreylistInv
<1>3. ASSUME KnownPeer(p) PROVE Entry(p) < Duration \/ first[p] = Duration
  <2>1. mine[p] \in Maps /\ Entry(p) # NoEntry
    BY <1>3 DEF KnownPeer, GreylistType, GreylistInv
  <2>2. heap[mine[p]] \in List /\ InTime(heap[mine[p]])
    BY <2>1 DEF GreylistType, GreylistInv
  <2>3. Entry(p) \in Ages /\ first[p] \in Ages /\ Entry(p) <= first[p]
    BY <2>1, <2>2 DEF Entry, InTime, List, GreylistType
  <2> QED BY <2>3, GreylistAssumption DEF Ages
<1> USE <1>1, <1>2, EmptyInTime, GreylistAssumption
    DEF GreylistType, GreylistInv, InTime, NotBeforeItsTime, To, Return, Fault
<1>4. CASE KnownPeer(p)
  BY <1>3, <1>4 DEF KnownPeer
<1>5. CASE KnownPeerUnreadable(p)
  BY <1>5 DEF KnownPeerUnreadable
<1>6. CASE PutList(p)
  BY <1>6 DEF PutList
<1>7. CASE EvictList
  BY <1>7 DEF EvictList
<1> QED BY <1>4, <1>5, <1>6, <1>7

\* A new peer is put on the list in hand.
LEMMA GreylistAdds ==
  ASSUME GreylistType, GreylistInv, NEW p \in Peers, AddPeer(p)
  PROVE  GreylistType' /\ GreylistInv'
<1> DEFINE h == [heap EXCEPT ![mine[p]][p] = 0]
<1>1. /\ gpc[p] = "have" /\ gpc' = [gpc EXCEPT ![p] = "put"]
      /\ cache' = mine[p] /\ put' = [put EXCEPT ![p] = h[mine[p]]]
      /\ heap' = [m \in Maps |-> IF m \in Live' THEN h[m] ELSE Empty]
      /\ first' = [first EXCEPT ![p] = IF @ = NoEntry THEN 0 ELSE @]
      /\ UNCHANGED <<mine, list, faults, excused>>
  BY DEF AddPeer, Memory, To
<1>2. mine[p] \in Maps /\ 0 \in Ages /\ NoEntry \notin Ages
  BY <1>1, GreylistAssumption DEF GreylistType, GreylistInv, Ages
<1>3. /\ h \in [Maps -> List]
      /\ \A m \in Maps : \A q \in Peers :
           h[m][q] = heap[m][q] \/ (q = p /\ h[m][q] = 0)
  BY <1>2 DEF GreylistType, List
<1> HIDE DEF h
<1>4. /\ first' \in List
      /\ \A q \in Peers : first[q] # NoEntry => first'[q] = first[q]
      /\ first'[p] # NoEntry /\ 0 <= first'[p]
  BY <1>1, <1>2, GreylistAssumption DEF GreylistType, List, Ages
<1>5. ASSUME NEW l, InTime(l)
      PROVE  \A q \in Peers : l[q] # NoEntry => first'[q] # NoEntry /\ l[q] <= first'[q]
  BY <1>4, <1>5 DEF InTime
<1>6. \A m \in Maps : \A q \in Peers :
        h[m][q] # NoEntry => first'[q] # NoEntry /\ h[m][q] <= first'[q]
  BY <1>3, <1>4, <1>5 DEF GreylistInv
<1>7. GreylistType'
  BY <1>1, <1>2, <1>3, <1>4, EmptyInTime DEF GreylistType
<1>8. /\ \A m \in Maps : InTime(heap[m])'
      /\ \A q \in Peers : InTime(put[q])'
      /\ InTime(list)'
  <2>1. \A m \in Maps : InTime(heap[m])'
    BY <1>1, <1>6 DEF InTime, Empty
  <2>2. \A q \in Peers : InTime(put[q])'
    BY <1>1, <1>2, <1>5, <1>6 DEF InTime, GreylistType, GreylistInv
  <2> QED BY <1>1, <1>5, <2>1, <2>2 DEF InTime, GreylistInv
<1>9. NotBeforeItsTime'
  BY <1>1, <1>4, GreylistAssumption DEF NotBeforeItsTime, GreylistType, GreylistInv
<1>10. \A q \in Peers : gpc'[q] \in {"fetched", "have", "put"} => mine'[q] # NoMap
  BY <1>1 DEF GreylistType, GreylistInv
<1> QED BY <1>7, <1>8, <1>9, <1>10 DEF GreylistInv

\* Time passes alike for every list.
LEMMA OlderInTime ==
  ASSUME first \in List, NEW l \in List, InTime(l)
  PROVE  /\ Older(l) \in List
         /\ \A q \in Peers : Older(l)[q] # NoEntry =>
              /\ Older(first)[q] # NoEntry
              /\ Older(l)[q] <= Older(first)[q]
  BY GreylistAssumption DEF List, Ages, InTime, Older

\* The environment: time passes, the process dies and starts again.
LEMMA GreylistWaits ==
  ASSUME GreylistType, GreylistInv, Tick \/ Crash
  PROVE  GreylistType' /\ GreylistInv'
<1>1. CASE Tick
  <2>1. /\ heap' = [m \in Maps |-> Older(heap[m])]
        /\ put' = [p \in Peers |-> Older(put[p])]
        /\ list' = Older(list) /\ first' = Older(first)
        /\ UNCHANGED <<gpc, mine, cache, faults, excused>>
    BY <1>1 DEF Tick
  <2>2. first' \in List /\ \A p \in Peers : first[p] = Duration => first'[p] = Duration
    BY <2>1, GreylistAssumption DEF GreylistType, List, Ages, Older
  <2>3. /\ \A m \in Maps : Older(heap[m]) \in List
        /\ \A p \in Peers : Older(put[p]) \in List
        /\ Older(list) \in List
    BY OlderInTime DEF GreylistType, GreylistInv
  <2>4. GreylistType'
    BY <2>1, <2>2, <2>3 DEF GreylistType
  <2>5. /\ \A m \in Maps : InTime(heap[m])'
        /\ \A p \in Peers : InTime(put[p])'
        /\ InTime(list)'
    <3>1. \A m \in Maps : InTime(heap[m])'
      BY <2>1, OlderInTime DEF GreylistType, GreylistInv, InTime
    <3>2. \A p \in Peers : InTime(put[p])'
      BY <2>1, OlderInTime DEF GreylistType, GreylistInv, InTime
    <3> QED BY <2>1, <3>1, <3>2, OlderInTime DEF GreylistType, GreylistInv, InTime
  <2> QED BY <2>1, <2>2, <2>4, <2>5 DEF GreylistInv, NotBeforeItsTime
<1>2. CASE Crash
  BY <1>2, EmptyInTime, GreylistAssumption
     DEF Crash, Fault, GreylistType, GreylistInv, InTime, NotBeforeItsTime
<1> QED BY <1>1, <1>2

\* At first nobody is on a list.
LEMMA GreylistStarts == GreylistInit => GreylistType /\ GreylistInv
  BY EmptyInTime, GreylistAssumption
     DEF GreylistInit, GreylistType, GreylistInv, InTime, NotBeforeItsTime, Empty

\* Every step keeps the greylist in time.
LEMMA GreylistStep ==
  GreylistType /\ GreylistInv /\ [Next]_vars => GreylistType' /\ GreylistInv'
<1> SUFFICES ASSUME GreylistType, GreylistInv, [Next]_vars
             PROVE  GreylistType' /\ GreylistInv'
  OBVIOUS
<1>1. ASSUME UNCHANGED greylist PROVE GreylistType' /\ GreylistInv'
  BY <1>1 DEF greylist, GreylistType, GreylistInv, InTime, NotBeforeItsTime
<1>2. ASSUME EvictList PROVE GreylistType' /\ GreylistInv'
  BY <1>2, CheckedAssumption, GreylistAnswers
<1>3. \/ \E p \in Peers : AskGreylist(p) \/ IsGreylisted(p)
      \/ Tick \/ EvictList \/ Crash
      \/ UNCHANGED greylist
  BY DEF Next, Session, Rcpt, RcptAnswer, DataStart, DataAnswer, Lookups,
         Environment, Die, vars
<1> QED
  BY <1>1, <1>2, <1>3, GreylistAsks, GreylistFetches, GreylistAnswers,
     GreylistAdds, GreylistWaits
     DEF IsGreylisted

----------------------------------------------------------------------------
(* The sessions *)

\* A session moves between the places it can be at.
LEMMA AtStep ==
  ASSUME GreylistType, at \in [Peers -> {"outside", "rcpt", "data", "inside"}],
         [Next]_vars
  PROVE  at' \in [Peers -> {"outside", "rcpt", "data", "inside"}]
  BY CheckedAssumption
     DEF Next, Session, Rcpt, RcptAnswer, DataStart, DataAnswer, Go, Lookups,
         Environment, Die, vars

Inv == TypeOK /\ DNSBLInv /\ GreylistInv

\* The inductive invariant holds in every reachable state.
LEMMA Invariance == Spec => []Inv
<1>1. Init => Inv
  BY DNSBLStarts, GreylistStarts DEF Init, Inv, TypeOK
<1>2. Inv /\ [Next]_vars => Inv'
  BY DNSBLStep, GreylistStep, AtStep DEF Inv, TypeOK
<1> QED BY <1>1, <1>2, PTL DEF Spec

\* Every variable of the two checks keeps its type; above all the length that
\* racing appends store never exceeds the room in req.results.
THEOREM TypeCorrect == Spec => []TypeOK
<1>1. Inv => TypeOK
  BY DEF Inv
<1> QED BY <1>1, Invariance, PTL

\* However the appends overlap, CheckDNSBLs never counts a nil result.
THEOREM RealResults == Spec => []ResultsAreReal
<1>1. Inv => ResultsAreReal
  BY DEF Inv, DNSBLInv, Written, ResultsAreReal
<1> QED BY <1>1, Invariance, PTL

\* Results that are lost never turn the decision against what every blacklist
\* said.
THEOREM GroundedDecision == Spec => []DecisionIsGrounded
<1>1. Inv => DecisionIsGrounded
  BY DEF Inv, DNSBLInv, Answered
<1> QED BY <1>1, Invariance, PTL

\* No race, crash, eviction or failed write lets a peer in before its time.
THEOREM GreylistKeepsTime == Spec => []NotBeforeItsTime
<1>1. Inv => NotBeforeItsTime
  BY DEF Inv, GreylistInv
<1> QED BY <1>1, Invariance, PTL
=============================================================================
