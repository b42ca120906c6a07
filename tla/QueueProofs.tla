---------------------------- MODULE QueueProofs ----------------------------
(***************************************************************************)
(* Proofs about Queue for every set of events, every recipient list, every *)
(* batch size and retry limit and any number of faults.                    *)
(***************************************************************************)
EXTENDS Queue, TLAPS

USE DEF Owners, Outcomes, Mails

----------------------------------------------------------------------------
(* Lemmas about the helpers *)

\* The part of TypeOK about account data and faults, and the rest.
StoreType ==
  /\ cached \subseteq Events \cup {QueueKey}
  /\ mIndex \subseteq Events /\ sIndex \subseteq Events
  /\ mItem \in [Events -> Item \cup {NoItem}]
  /\ sItem \in [Events -> Item \cup {NoItem}]
  /\ faults \in Nat

\* The retry limit is a positive number whatever the option says.
LEMMA RetriesNat == maxRetries \in Nat /\ MaxTries \in Nat /\ MaxDelivered \in Nat
  BY QueueAssumption
     DEF maxRetries, defaultQueueRetries, MaxTries

\* A capped counter stays between 0 and its cap.
LEMMA BumpType ==
  ASSUME NEW cap \in Nat, NEW n \in 0..cap
  PROVE  Bump(n, cap) \in 0..cap
  BY DEF Bump

\* Counting an event keeps a counter a natural number.
LEMMA BumpNat ==
  ASSUME NEW cap \in Nat, NEW n \in Nat
  PROVE  Bump(n, cap) \in Nat
  BY DEF Bump

\* What the process sees of the account data has the type of what is stored.
LEMMA ViewType ==
  ASSUME TypeOK
  PROVE  /\ IndexView \subseteq Events
         /\ \A e \in Events : ItemView(e) \in Item \cup {NoItem}
  BY DEF TypeOK, IndexView, ItemView

\* Writing an item keeps the store well typed.
LEMMA SetItemType ==
  ASSUME TypeOK, NEW e \in Events, NEW new \in Item \cup {NoItem},
         NEW o \in Outcomes, SetItem(e, new, o)
  PROVE  StoreType'
  BY DEF TypeOK, StoreType, SetItem, Fault

\* Writing the index keeps the store well typed.
LEMMA SetIndexType ==
  ASSUME TypeOK, NEW new \in SUBSET Events,
         NEW o \in Outcomes, SetIndex(new, o)
  PROVE  StoreType'
  BY DEF TypeOK, StoreType, SetIndex, Fault

----------------------------------------------------------------------------
(* Type correctness *)

\* The initial states have their types.
LEMMA TypeInit == Init => TypeOK
<1> SUFFICES ASSUME Init PROVE TypeOK
  OBVIOUS
<1> PICK r \in [Stored -> Rcpts] :
      sItem = [e \in Events |-> IF e \in Stored
                               THEN [to |-> r[e], attempts |-> 0]
                               ELSE NoItem]
  BY DEF Init
<1>1. \A e \in Stored : [to |-> r[e], attempts |-> 0] \in Item
  BY DEF Item
<1>2. sItem \in [Events -> Item \cup {NoItem}]
  BY <1>1
<1> QED BY <1>2, QueueAssumption, RetriesNat DEF Init, TypeOK

\* What an earlier process left in the queue is backed by items without
\* attempts.
LEMMA StoredItems ==
  ASSUME Init
  PROVE  /\ \A e \in Stored : sItem[e] # NoItem
         /\ \A e \in Events : sItem[e] # NoItem => sItem[e].attempts = 0
<1> PICK r \in [Stored -> Rcpts] :
      sItem = [e \in Events |-> IF e \in Stored
                               THEN [to |-> r[e], attempts |-> 0]
                               ELSE NoItem]
  BY DEF Init
<1>1. \A e \in Stored : [to |-> r[e], attempts |-> 0] \in Item
  BY DEF Item
<1>2. \A e \in Stored : [to |-> r[e], attempts |-> 0] # NoItem
  BY <1>1, QueueAssumption DEF Item
<1> QED BY <1>2, QueueAssumption

\* Sending a mail the first time keeps the types.
LEMMA TypeSend ==
  ASSUME TypeOK, NEW e \in Events, Send(e)
  PROVE  TypeOK'
<1> PICK r \in Rcpts :
      \/ SendAccepted(e, r)
      \/ SendRefusedAfterData(e, r)
      \/ SendFailed(e, r)
      \/ SendStalls(e, r)
      \/ SendDeferred(e, r)
      \/ SendDeferredNoRelay(e, r)
      \/ SendDeferredRecovered(e, r)
  BY DEF Send
<1> USE DEF TypeOK, sender, cron, locks, store, hist
<1>1. CASE SendAccepted(e, r)
  <2>1. delivered' \in [Mails -> 0..MaxDelivered]
    BY <1>1, RetriesNat, BumpType DEF SendAccepted
  <2> QED BY <1>1, <2>1 DEF SendAccepted, Told
<1>2. CASE SendRefusedAfterData(e, r)
  BY <1>2 DEF SendRefusedAfterData, Told
<1>3. CASE SendFailed(e, r)
  BY <1>3 DEF SendFailed, Told
<1>4. CASE SendDeferred(e, r)
  BY <1>4 DEF SendDeferred
<1>5. CASE SendDeferredNoRelay(e, r)
  BY <1>5 DEF SendDeferredNoRelay, Restart
<1>6. CASE SendStalls(e, r)
  BY <1>6 DEF SendStalls
<1>7. CASE SendDeferredRecovered(e, r)
  BY <1>7 DEF SendDeferredRecovered
<1> QED BY <1>1, <1>2, <1>3, <1>4, <1>5, <1>6, <1>7

\* Queue.Add keeps the types.
LEMMA TypeAdd ==
  ASSUME TypeOK, NEW e \in Events, Add(e)
  PROVE  TypeOK'
<1> USE DEF TypeOK, sender, cron, locks, store, hist
<1>1. CASE AddLockItem(e)
  BY <1>1 DEF AddLockItem
<1>2. CASE AddSetItem(e)
  <2> PICK r \in cur[e], o \in Outcomes :
        /\ SetItem(e, [to |-> r, attempts |-> 0], o)
        /\ \/ /\ o = "ok"
              /\ pc' = [pc EXCEPT ![e] = "lockIndex"]
              /\ UNCHANGED <<cur, imu, told>>
           \/ o # "ok" /\ AddReturn(e)
    BY <1>2 DEF AddSetItem
  <2>1. [to |-> r, attempts |-> 0] \in Item
    BY DEF Item
  <2>2. StoreType'
    BY <2>1, SetItemType
  <2>3. /\ pc' \in [Events -> {"send", "lockItem", "setItem", "lockIndex",
                              "setIndex", "stalled", "dead"}]
        /\ cur' \in [Events -> SUBSET Rcpts]
        /\ imu' \in [Events -> Owners]
        /\ told' \in [Mails -> {"nothing", "sent", "queued", "failed"}]
    BY DEF AddReturn
  <2> QED BY <1>2, <2>2, <2>3 DEF AddSetItem, StoreType
<1>3. CASE AddLockIndex(e)
  BY <1>3 DEF AddLockIndex
<1>4. CASE AddSetIndex(e)
  <2> PICK o \in Outcomes :
        /\ SetIndex(IndexView \cup {e}, o)
        /\ acked' = IF o = "ok" THEN acked \cup {e} ELSE acked
    BY <1>4 DEF AddSetIndex
  <2>1. IndexView \cup {e} \subseteq Events
    BY ViewType
  <2>2. StoreType'
    BY <2>1, SetIndexType
  <2> QED BY <1>4, <2>2 DEF AddSetIndex, AddReturn, StoreType
<1>5. CASE AddGetIndexFailed(e)
  BY <1>5 DEF AddGetIndexFailed, AddReturn, Fault
<1> QED BY <1>1, <1>2, <1>3, <1>4, <1>5 DEF Add

\* Queue.Process and Queue.try keep the types.
LEMMA TypeTry ==
  ASSUME TypeOK, NEW e \in Events, Try(e)
  PROVE  TypeOK'
<1> USE DEF TypeOK, sender, cron, locks, store, hist
<1> DEFINE it == ItemView(e)
<1>0. it \in Item \cup {NoItem}
  BY ViewType
<1>1. CASE TryLockItem(e)
  BY <1>1 DEF TryLockItem
<1>2. CASE TryUnreadable(e)
  BY <1>2 DEF TryUnreadable, LoopAgain, Fault
<1>3. CASE TryGiveUp(e)
  BY <1>0, <1>3 DEF TryGiveUp, TryRead, Dequeue
<1>4. CASE TryAccepted(e)
  <2>1. it \in Item
    BY <1>0, <1>4 DEF TryAccepted
  <2>2. <<e, it.to>> \in Mails
    BY <2>1 DEF Item
  <2>3. tries' \in [Events -> Nat]
    BY <1>4, RetriesNat, BumpNat DEF TryAccepted
  <2>4. delivered' = [delivered EXCEPT ![<<e, it.to>>] = Bump(@, MaxDelivered)]
    BY <1>4 DEF TryAccepted
  <2>5. delivered' \in [Mails -> 0..MaxDelivered]
    <3> DEFINE m == <<e, it.to>>
    <3> HIDE DEF m, it
    <3>1. m \in Mails /\ delivered' = [delivered EXCEPT ![m] = Bump(@, MaxDelivered)]
      BY <2>2, <2>4 DEF m
    <3> QED BY <3>1, RetriesNat, BumpType
  <2> QED BY <1>4, <2>1, <2>3, <2>5 DEF TryAccepted, TryRead, Dequeue
<1>5. CASE TryRefusedAfterData(e)
  <2>1. tries' \in [Events -> Nat]
    BY <1>5, RetriesNat, BumpNat DEF TryRefusedAfterData
  <2> QED BY <1>0, <1>5, <2>1 DEF TryRefusedAfterData, TryRead, Dequeue
<1>6. CASE TryFailed(e)
  <2> PICK o \in Outcomes :
        /\ it # NoItem
        /\ SetItem(e, [it EXCEPT !.attempts = @ + 1], o)
        /\ tries' = [tries EXCEPT ![e] = Bump(@, MaxTries)]
    BY <1>6 DEF TryFailed
  <2>1. [it EXCEPT !.attempts = @ + 1] \in Item
    BY <1>0 DEF Item
  <2>2. StoreType'
    BY <2>1, SetItemType
  <2>3. tries' \in [Events -> Nat]
    BY RetriesNat, BumpNat
  <2> QED BY <1>6, <2>2, <2>3 DEF TryFailed, TryRead, LoopAgain, StoreType
<1>7. CASE TryStalls(e)
  BY <1>0, <1>7 DEF TryStalls
<1> QED BY <1>1, <1>2, <1>3, <1>4, <1>5, <1>6, <1>7 DEF Try

\* Queue.Remove keeps the types.
LEMMA TypeRemove ==
  ASSUME TypeOK, NEW e \in Events, Remove(e)
  PROVE  TypeOK'
<1> USE DEF TypeOK, sender, cron, locks, store, hist
<1>1. CASE RemoveFromIndex(e)
  <2> PICK o \in Outcomes :
        /\ SetIndex(IndexView \ {e}, o)
        /\ \/ /\ o = "ok" /\ cpc' = "removeItem"
              /\ UNCHANGED <<ctodo, cid, ci>>
           \/ o # "ok" /\ LoopAgain
    BY <1>1 DEF RemoveFromIndex
  <2>1. StoreType'
    BY ViewType, SetIndexType
  <2> QED BY <1>1, <2>1 DEF RemoveFromIndex, LoopAgain, StoreType
<1>2. CASE RemoveGetIndexFailed(e)
  BY <1>2 DEF RemoveGetIndexFailed, LoopAgain, Fault
<1>3. CASE RemoveItem(e)
  <2>1. StoreType'
    BY <1>3, SetItemType DEF RemoveItem
  <2> QED BY <1>3, <2>1 DEF RemoveItem, LoopAgain, StoreType
<1> QED BY <1>1, <1>2, <1>3 DEF Remove

\* Every step keeps the types.
LEMMA TypeNext == TypeOK /\ [Next]_vars => TypeOK'
<1> SUFFICES ASSUME TypeOK, [Next]_vars PROVE TypeOK'
  OBVIOUS
<1>1. ASSUME NEW e \in Events, Send(e) \/ Add(e) \/ Try(e) \/ Remove(e)
      PROVE  TypeOK'
  BY <1>1, TypeSend, TypeAdd, TypeTry, TypeRemove
<1> USE DEF TypeOK, sender, cron, locks, store, hist
<1>2. CASE ProcessStart
  BY <1>2, ViewType DEF ProcessStart
<1>3. CASE ProcessStartFailed
  BY <1>3 DEF ProcessStartFailed, Fault
<1>4. CASE ProcessEnd
  BY <1>4 DEF ProcessEnd
<1>5. ASSUME NEW e \in Events, ProcessNext(e) PROVE TypeOK'
  BY <1>5 DEF ProcessNext
<1>6. ASSUME NEW e \in Events, EvictItem(e) PROVE TypeOK'
  BY <1>6 DEF EvictItem
<1>7. CASE EvictIndex
  BY <1>7 DEF EvictIndex
<1>8. CASE Crash
  BY <1>8 DEF Crash, Restart, Fault
<1>9. CASE UNCHANGED vars
  BY <1>9 DEF vars
<1> QED BY <1>1, <1>2, <1>3, <1>4, <1>5, <1>6, <1>7, <1>8, <1>9 DEF Next, Process

\* Every reachable state of the queue is well typed: an item never holds a
\* negative attempt count and no goroutine leaves the recipient list of its
\* event, for any number of events, recipients and faults.
THEOREM TypeCorrect == Spec => []TypeOK
  BY TypeInit, TypeNext, PTL DEF Spec

----------------------------------------------------------------------------
(* Locks *)

\* Every step keeps the lock discipline.
LEMMA LockNext == IInv /\ [Next]_vars => LockInv'
<1> SUFFICES ASSUME IInv, [Next]_vars PROVE LockInv'
  OBVIOUS
<1> USE QueueAssumption DEF IInv, TypeOK, LockInv, sender, cron, locks, store, hist
<1>1. ASSUME NEW e \in Events, NEW r \in Rcpts, SendAccepted(e, r) PROVE LockInv'
  BY <1>1 DEF SendAccepted
<1>2. ASSUME NEW e \in Events, NEW r \in Rcpts, SendRefusedAfterData(e, r) PROVE LockInv'
  BY <1>2 DEF SendRefusedAfterData
<1>3. ASSUME NEW e \in Events, NEW r \in Rcpts, SendFailed(e, r) PROVE LockInv'
  BY <1>3 DEF SendFailed
<1>4. ASSUME NEW e \in Events, NEW r \in Rcpts, SendDeferred(e, r) PROVE LockInv'
  BY <1>4 DEF SendDeferred
<1>5. ASSUME NEW e \in Events, NEW r \in Rcpts, SendDeferredNoRelay(e, r) PROVE LockInv'
  BY <1>5 DEF SendDeferredNoRelay, Restart
<1>6. ASSUME NEW e \in Events, AddLockItem(e) PROVE LockInv'
  BY <1>6 DEF AddLockItem
<1>7. ASSUME NEW e \in Events, AddSetItem(e) PROVE LockInv'
  BY <1>7 DEF AddSetItem, SetItem, AddReturn
<1>8. ASSUME NEW e \in Events, AddLockIndex(e) PROVE LockInv'
  BY <1>8 DEF AddLockIndex
<1>9. ASSUME NEW e \in Events, AddSetIndex(e) PROVE LockInv'
  BY <1>9 DEF AddSetIndex, SetIndex, AddReturn
<1>10. ASSUME NEW e \in Events, AddGetIndexFailed(e) PROVE LockInv'
  BY <1>10 DEF AddGetIndexFailed, AddReturn
<1>11. ASSUME NEW e \in Events, EvictItem(e) PROVE LockInv'
  BY <1>11 DEF EvictItem
<1>12. ASSUME NEW e \in Events, ProcessNext(e) PROVE LockInv'
  BY <1>12 DEF ProcessNext
<1>13. ASSUME NEW e \in Events, TryLockItem(e) PROVE LockInv'
  BY <1>13 DEF TryLockItem
<1>14. ASSUME NEW e \in Events, TryUnreadable(e) PROVE LockInv'
  BY <1>14 DEF TryUnreadable, LoopAgain
<1>15. ASSUME NEW e \in Events, TryGiveUp(e) PROVE LockInv'
  BY <1>15 DEF TryGiveUp, TryRead, Dequeue
<1>16. ASSUME NEW e \in Events, TryAccepted(e) PROVE LockInv'
  BY <1>16 DEF TryAccepted, TryRead, Dequeue
<1>17. ASSUME NEW e \in Events, TryRefusedAfterData(e) PROVE LockInv'
  BY <1>17 DEF TryRefusedAfterData, TryRead, Dequeue
<1>18. ASSUME NEW e \in Events, TryFailed(e) PROVE LockInv'
  BY <1>18 DEF TryFailed, TryRead, SetItem, LoopAgain
<1>19. ASSUME NEW e \in Events, RemoveFromIndex(e) PROVE LockInv'
  BY <1>19 DEF RemoveFromIndex, SetIndex, LoopAgain
<1>20. ASSUME NEW e \in Events, RemoveGetIndexFailed(e) PROVE LockInv'
  BY <1>20 DEF RemoveGetIndexFailed, LoopAgain
<1>21. ASSUME NEW e \in Events, RemoveItem(e) PROVE LockInv'
  BY <1>21 DEF RemoveItem, SetItem, LoopAgain
<1>22. CASE ProcessStart
  BY <1>22 DEF ProcessStart
<1>23. CASE ProcessStartFailed
  BY <1>23 DEF ProcessStartFailed
<1>24. CASE ProcessEnd
  BY <1>24 DEF ProcessEnd
<1>25. CASE EvictIndex
  BY <1>25 DEF EvictIndex
<1>26. CASE Crash
  BY <1>26 DEF Crash, Restart
<1>27. CASE UNCHANGED vars
  BY <1>27 DEF vars
<1>28. ASSUME NEW e \in Events, NEW r \in Rcpts, SendStalls(e, r) PROVE LockInv'
  BY <1>28 DEF SendStalls
<1>29. ASSUME NEW e \in Events, NEW r \in Rcpts, SendDeferredRecovered(e, r) PROVE LockInv'
  BY <1>29 DEF SendDeferredRecovered
<1>30. ASSUME NEW e \in Events, TryStalls(e) PROVE LockInv'
  BY <1>30 DEF TryStalls
<1> QED
  BY <1>1, <1>2, <1>3, <1>4, <1>5, <1>6, <1>7, <1>8, <1>9, <1>10,
         <1>11, <1>12, <1>13, <1>14, <1>15, <1>16, <1>17, <1>18, <1>19,
         <1>20, <1>21, <1>22, <1>23, <1>24, <1>25, <1>26, <1>27, <1>28,
     <1>29, <1>30
     DEF Next, Process, Send, Add, Try, Remove

----------------------------------------------------------------------------
(* Account data *)

\* Writing an item that is not the empty map disturbs nothing that is real,
\* and leaves an item that is real on both sides of the cache if the API
\* call took effect.
LEMMA SetItemReal ==
  ASSUME TypeOK, NEW e \in Events, NEW new \in Item, NEW o \in Outcomes,
         SetItem(e, new, o)
  PROVE  /\ Indexed' = Indexed
         /\ \A f \in Events : Real(f) => Real(f)'
         /\ o = "ok" => Real(e)'
<1>1. new # NoItem
  BY QueueAssumption DEF Item
<1>2. Indexed' = Indexed
  BY QueueAssumption DEF SetItem, Indexed, IndexView
<1> QED BY <1>1, <1>2 DEF TypeOK, SetItem, Applied, Real, ItemView

\* An attempt that is charged leaves the item where it is.
LEMMA TryFailedKeeps ==
  ASSUME TypeOK, NEW e \in Events, TryFailed(e)
  PROVE  /\ Indexed' = Indexed /\ \A f \in Events : Real(f) => Real(f)'
         /\ pc' = pc /\ cpc' = "loop"
<1>1. PICK it \in {ItemView(e)} \ {NoItem}, o \in Outcomes :
        /\ SetItem(e, [it EXCEPT !.attempts = @ + 1], o)
        /\ LoopAgain /\ UNCHANGED sender
  BY DEF TryFailed
<1>2. it \in Item
  BY ViewType
<1>3. [it EXCEPT !.attempts = @ + 1] \in Item
  BY <1>2 DEF Item
<1> QED BY <1>1, <1>3, SetItemReal DEF LoopAgain, sender

\* Every step keeps every indexed id backed by an item.
LEMMA StoreNext == IInv /\ [Next]_vars => StoreInv'
<1> SUFFICES ASSUME IInv, [Next]_vars PROVE StoreInv'
  OBVIOUS
<1> USE QueueAssumption DEF IInv, TypeOK, LockInv, StoreInv, Indexed, Real, IndexView, ItemView, sender, cron, locks, store, hist
<1>1. ASSUME NEW e \in Events, NEW r \in Rcpts, SendAccepted(e, r) PROVE StoreInv'
  BY <1>1 DEF SendAccepted
<1>2. ASSUME NEW e \in Events, NEW r \in Rcpts, SendRefusedAfterData(e, r) PROVE StoreInv'
  BY <1>2 DEF SendRefusedAfterData
<1>3. ASSUME NEW e \in Events, NEW r \in Rcpts, SendFailed(e, r) PROVE StoreInv'
  BY <1>3 DEF SendFailed
<1>4. ASSUME NEW e \in Events, NEW r \in Rcpts, SendDeferred(e, r) PROVE StoreInv'
  BY <1>4 DEF SendDeferred
<1>5. ASSUME NEW e \in Events, NEW r \in Rcpts, SendDeferredNoRelay(e, r) PROVE StoreInv'
  BY <1>5 DEF SendDeferredNoRelay, Restart
<1>6. ASSUME NEW e \in Events, AddLockItem(e) PROVE StoreInv'
  BY <1>6 DEF AddLockItem
<1>7. ASSUME NEW e \in Events, AddSetItem(e) PROVE StoreInv'
  <2> PICK r \in cur[e], o \in Outcomes :
        /\ SetItem(e, [to |-> r, attempts |-> 0], o)
        /\ \/ o = "ok" /\ pc' = [pc EXCEPT ![e] = "lockIndex"]
           \/ o # "ok" /\ pc' = [pc EXCEPT ![e] = "send"]
    BY <1>7 DEF AddSetItem, AddReturn
  <2>1. [to |-> r, attempts |-> 0] \in Item
    BY DEF Item
  <2>2. /\ Indexed' = Indexed
        /\ \A f \in Events : Real(f) => Real(f)'
        /\ o = "ok" => Real(e)'
    <3> HIDE DEF Indexed, Real
    <3> QED BY <2>1, SetItemReal
  <2>3. Indexed \subseteq Events
    OBVIOUS
  <2>4. cpc' = cpc /\ cid' = cid
    BY <1>7 DEF AddSetItem
  <2> HIDE DEF Indexed, Real
  <2> QED BY <2>2, <2>3, <2>4
<1>8. ASSUME NEW e \in Events, AddLockIndex(e) PROVE StoreInv'
  BY <1>8 DEF AddLockIndex
<1>9. ASSUME NEW e \in Events, AddSetIndex(e) PROVE StoreInv'
  BY <1>9 DEF AddSetIndex, SetIndex, AddReturn
<1>10. ASSUME NEW e \in Events, AddGetIndexFailed(e) PROVE StoreInv'
  BY <1>10 DEF AddGetIndexFailed, AddReturn
<1>11. ASSUME NEW e \in Events, EvictItem(e) PROVE StoreInv'
  BY <1>11 DEF EvictItem
<1>12. ASSUME NEW e \in Events, ProcessNext(e) PROVE StoreInv'
  BY <1>12 DEF ProcessNext
<1>13. ASSUME NEW e \in Events, TryLockItem(e) PROVE StoreInv'
  BY <1>13 DEF TryLockItem
<1>14. ASSUME NEW e \in Events, TryUnreadable(e) PROVE StoreInv'
  BY <1>14 DEF TryUnreadable, LoopAgain
<1>15. ASSUME NEW e \in Events, TryGiveUp(e) PROVE StoreInv'
  BY <1>15 DEF TryGiveUp, TryRead, Dequeue
<1>16. ASSUME NEW e \in Events, TryAccepted(e) PROVE StoreInv'
  BY <1>16 DEF TryAccepted, TryRead, Dequeue
<1>17. ASSUME NEW e \in Events, TryRefusedAfterData(e) PROVE StoreInv'
  BY <1>17 DEF TryRefusedAfterData, TryRead, Dequeue
<1>18. ASSUME NEW e \in Events, TryFailed(e) PROVE StoreInv'
  <2>1. Indexed \subseteq Events
    OBVIOUS
  <2> HIDE DEF Indexed, Real
  <2> QED BY <1>18, <2>1, TryFailedKeeps
<1>19. ASSUME NEW e \in Events, RemoveFromIndex(e) PROVE StoreInv'
  <2> PICK o \in Outcomes :
        /\ SetIndex(IndexView \ {e}, o)
        /\ \/ o = "ok" /\ cpc' = "removeItem" /\ cid' = cid
           \/ o # "ok" /\ cpc' = "loop"
    BY <1>19 DEF RemoveFromIndex, LoopAgain
  <2>1. Indexed' \subseteq Indexed /\ (o = "ok" => e \notin Indexed')
    BY DEF SetIndex, Applied
  <2>2. \A f \in Events : Real(f)' = Real(f)
    BY DEF SetIndex
  <2>3. cid = {e} /\ pc' = pc
    BY <1>19 DEF RemoveFromIndex
  <2>4. Indexed \subseteq Events
    OBVIOUS
  <2> HIDE DEF Indexed, Real
  <2> QED BY <2>1, <2>2, <2>3, <2>4
<1>20. ASSUME NEW e \in Events, RemoveGetIndexFailed(e) PROVE StoreInv'
  BY <1>20 DEF RemoveGetIndexFailed, LoopAgain
<1>21. ASSUME NEW e \in Events, RemoveItem(e) PROVE StoreInv'
  BY <1>21 DEF RemoveItem, SetItem, LoopAgain
<1>22. CASE ProcessStart
  BY <1>22 DEF ProcessStart
<1>23. CASE ProcessStartFailed
  BY <1>23 DEF ProcessStartFailed
<1>24. CASE ProcessEnd
  BY <1>24 DEF ProcessEnd
<1>25. CASE EvictIndex
  BY <1>25 DEF EvictIndex
<1>26. CASE Crash
  BY <1>26 DEF Crash, Restart
<1>27. CASE UNCHANGED vars
  BY <1>27 DEF vars
<1>28. ASSUME NEW e \in Events, NEW r \in Rcpts, SendStalls(e, r) PROVE StoreInv'
  BY <1>28 DEF SendStalls
<1>29. ASSUME NEW e \in Events, NEW r \in Rcpts, SendDeferredRecovered(e, r) PROVE StoreInv'
  BY <1>29 DEF SendDeferredRecovered
<1>30. ASSUME NEW e \in Events, TryStalls(e) PROVE StoreInv'
  BY <1>30 DEF TryStalls
<1> QED
  BY <1>1, <1>2, <1>3, <1>4, <1>5, <1>6, <1>7, <1>8, <1>9, <1>10,
         <1>11, <1>12, <1>13, <1>14, <1>15, <1>16, <1>17, <1>18, <1>19,
         <1>20, <1>21, <1>22, <1>23, <1>24, <1>25, <1>26, <1>27, <1>28,
     <1>29, <1>30
     DEF Next, Process, Send, Add, Try, Remove

\* Every step keeps every acknowledged id indexed.
LEMMA AckedNext == IInv /\ [Next]_vars => AckedInv'
<1> SUFFICES ASSUME IInv, [Next]_vars PROVE AckedInv'
  OBVIOUS
<1> USE QueueAssumption DEF IInv, TypeOK, LockInv, AckedInv, IndexView, sender, cron, locks, store, hist
<1>1. ASSUME NEW e \in Events, NEW r \in Rcpts, SendAccepted(e, r) PROVE AckedInv'
  BY <1>1 DEF SendAccepted
<1>2. ASSUME NEW e \in Events, NEW r \in Rcpts, SendRefusedAfterData(e, r) PROVE AckedInv'
  BY <1>2 DEF SendRefusedAfterData
<1>3. ASSUME NEW e \in Events, NEW r \in Rcpts, SendFailed(e, r) PROVE AckedInv'
  BY <1>3 DEF SendFailed
<1>4. ASSUME NEW e \in Events, NEW r \in Rcpts, SendDeferred(e, r) PROVE AckedInv'
  BY <1>4 DEF SendDeferred
<1>5. ASSUME NEW e \in Events, NEW r \in Rcpts, SendDeferredNoRelay(e, r) PROVE AckedInv'
  BY <1>5 DEF SendDeferredNoRelay, Restart
<1>6. ASSUME NEW e \in Events, AddLockItem(e) PROVE AckedInv'
  BY <1>6 DEF AddLockItem
<1>7. ASSUME NEW e \in Events, AddSetItem(e) PROVE AckedInv'
  BY <1>7 DEF AddSetItem, SetItem, AddReturn
<1>8. ASSUME NEW e \in Events, AddLockIndex(e) PROVE AckedInv'
  BY <1>8 DEF AddLockIndex
<1>9. ASSUME NEW e \in Events, AddSetIndex(e) PROVE AckedInv'
  BY <1>9 DEF AddSetIndex, SetIndex, AddReturn
<1>10. ASSUME NEW e \in Events, AddGetIndexFailed(e) PROVE AckedInv'
  BY <1>10 DEF AddGetIndexFailed, AddReturn
<1>11. ASSUME NEW e \in Events, EvictItem(e) PROVE AckedInv'
  BY <1>11 DEF EvictItem
<1>12. ASSUME NEW e \in Events, ProcessNext(e) PROVE AckedInv'
  BY <1>12 DEF ProcessNext
<1>13. ASSUME NEW e \in Events, TryLockItem(e) PROVE AckedInv'
  BY <1>13 DEF TryLockItem
<1>14. ASSUME NEW e \in Events, TryUnreadable(e) PROVE AckedInv'
  BY <1>14 DEF TryUnreadable, LoopAgain
<1>15. ASSUME NEW e \in Events, TryGiveUp(e) PROVE AckedInv'
  BY <1>15 DEF TryGiveUp, TryRead, Dequeue
<1>16. ASSUME NEW e \in Events, TryAccepted(e) PROVE AckedInv'
  BY <1>16 DEF TryAccepted, TryRead, Dequeue
<1>17. ASSUME NEW e \in Events, TryRefusedAfterData(e) PROVE AckedInv'
  BY <1>17 DEF TryRefusedAfterData, TryRead, Dequeue
<1>18. ASSUME NEW e \in Events, TryFailed(e) PROVE AckedInv'
  BY <1>18 DEF TryFailed, TryRead, SetItem, LoopAgain
<1>19. ASSUME NEW e \in Events, RemoveFromIndex(e) PROVE AckedInv'
  BY <1>19 DEF RemoveFromIndex, SetIndex, LoopAgain
<1>20. ASSUME NEW e \in Events, RemoveGetIndexFailed(e) PROVE AckedInv'
  BY <1>20 DEF RemoveGetIndexFailed, LoopAgain
<1>21. ASSUME NEW e \in Events, RemoveItem(e) PROVE AckedInv'
  BY <1>21 DEF RemoveItem, SetItem, LoopAgain
<1>22. CASE ProcessStart
  BY <1>22 DEF ProcessStart
<1>23. CASE ProcessStartFailed
  BY <1>23 DEF ProcessStartFailed
<1>24. CASE ProcessEnd
  BY <1>24 DEF ProcessEnd
<1>25. CASE EvictIndex
  BY <1>25 DEF EvictIndex
<1>26. CASE Crash
  BY <1>26 DEF Crash, Restart
<1>27. CASE UNCHANGED vars
  BY <1>27 DEF vars
<1>28. ASSUME NEW e \in Events, NEW r \in Rcpts, SendStalls(e, r) PROVE AckedInv'
  BY <1>28 DEF SendStalls
<1>29. ASSUME NEW e \in Events, NEW r \in Rcpts, SendDeferredRecovered(e, r) PROVE AckedInv'
  BY <1>29 DEF SendDeferredRecovered
<1>30. ASSUME NEW e \in Events, TryStalls(e) PROVE AckedInv'
  BY <1>30 DEF TryStalls
<1> QED
  BY <1>1, <1>2, <1>3, <1>4, <1>5, <1>6, <1>7, <1>8, <1>9, <1>10,
         <1>11, <1>12, <1>13, <1>14, <1>15, <1>16, <1>17, <1>18, <1>19,
         <1>20, <1>21, <1>22, <1>23, <1>24, <1>25, <1>26, <1>27, <1>28,
     <1>29, <1>30
     DEF Next, Process, Send, Add, Try, Remove

----------------------------------------------------------------------------
(* The theorems *)

\* The inductive invariant holds in every reachable state.
THEOREM Inductive == Spec => []IInv
<1>1. Init => IInv
  BY TypeInit, StoredItems, QueueAssumption
     DEF Init, IInv, LockInv, StoreInv, AckedInv, Indexed, Real, IndexView, ItemView
<1>2. IInv /\ [Next]_vars => IInv'
  BY TypeNext, LockNext, StoreNext, AckedNext DEF IInv
<1> QED BY <1>1, <1>2, PTL DEF Spec

\* Add writes the item before the index and Remove the index before the item,
\* under locks: no interleaving, failed API call, eviction or crash leaves an
\* indexed id without an item.
THEOREM IndexIsBacked == Spec => []IndexedIdsHaveItems
<1>1. IInv => IndexedIdsHaveItems
  BY DEF IInv, StoreInv, Indexed, Real, IndexedIdsHaveItems
<1> QED BY <1>1, Inductive, PTL

\* What Queue.Add has acknowledged stays on the homeserver, and visible to
\* the process, until it is dequeued.
THEOREM AckedSurvives == Spec => []AckedIsDurable
<1>1. IInv => AckedIsDurable
  BY DEF IInv, StoreInv, AckedInv, Indexed, Real, AckedIsDurable
<1> QED BY <1>1, Inductive, PTL

----------------------------------------------------------------------------
(* Attempts *)

\* An item is charged with no more attempts than n, nor than the limit.
Charged(it, n) ==
  it # NoItem => it.attempts <= n /\ it.attempts <= maxRetries + 1

AttemptsInv ==
  \A e \in Events : Charged(sItem[e], tries[e]) /\ Charged(mItem[e], tries[e])

\* One more try allows one more attempt.
LEMMA ChargeOne ==
  ASSUME NEW it \in Item, NEW n \in Nat, Charged(it, n), it # NoItem,
         ~(it.attempts > maxRetries)
  PROVE  Charged([it EXCEPT !.attempts = @ + 1], Bump(n, MaxTries))
  BY RetriesNat DEF Charged, Item, Bump, MaxTries

\* More tries never hurt.
LEMMA ChargeMore ==
  ASSUME NEW it \in Item \cup {NoItem}, NEW n \in Nat, Charged(it, n)
  PROVE  Charged(it, Bump(n, MaxTries))
  BY RetriesNat DEF Charged, Item, Bump, MaxTries

\* A mail that leaves the queue by a send is charged nothing.
LEMMA DequeueWrites ==
  ASSUME NEW e \in Events, TryAccepted(e) \/ TryRefusedAfterData(e)
  PROVE  /\ tries' = [tries EXCEPT ![e] = Bump(@, MaxTries)]
         /\ sItem' = sItem /\ mItem' = [mItem EXCEPT ![e] = ItemView(e)]
  BY Zenon DEF TryAccepted, TryRefusedAfterData, Dequeue

\* Every step keeps the count of attempts honest.
LEMMA AttemptsNext == TypeOK /\ AttemptsInv /\ [Next]_vars => AttemptsInv'
<1> SUFFICES ASSUME TypeOK, AttemptsInv, [Next]_vars PROVE AttemptsInv'
  OBVIOUS
<1> USE QueueAssumption, RetriesNat DEF TypeOK, AttemptsInv, sender, cron, locks, store, hist
<1>1. ASSUME NEW e \in Events, NEW r \in Rcpts, SendAccepted(e, r) PROVE AttemptsInv'
  BY <1>1 DEF SendAccepted
<1>2. ASSUME NEW e \in Events, NEW r \in Rcpts, SendRefusedAfterData(e, r) PROVE AttemptsInv'
  BY <1>2 DEF SendRefusedAfterData
<1>3. ASSUME NEW e \in Events, NEW r \in Rcpts, SendFailed(e, r) PROVE AttemptsInv'
  BY <1>3 DEF SendFailed
<1>4. ASSUME NEW e \in Events, NEW r \in Rcpts, SendDeferred(e, r) PROVE AttemptsInv'
  BY <1>4 DEF SendDeferred
<1>5. ASSUME NEW e \in Events, NEW r \in Rcpts, SendDeferredNoRelay(e, r) PROVE AttemptsInv'
  BY <1>5 DEF SendDeferredNoRelay, Restart, Charged
<1>6. ASSUME NEW e \in Events, AddLockItem(e) PROVE AttemptsInv'
  BY <1>6 DEF AddLockItem
<1>7. ASSUME NEW e \in Events, AddSetItem(e) PROVE AttemptsInv'
  <2> PICK r \in cur[e], o \in Outcomes :
        SetItem(e, [to |-> r, attempts |-> 0], o)
    BY <1>7 DEF AddSetItem
  <2>1. Charged([to |-> r, attempts |-> 0], tries[e])
    BY DEF Charged
  <2>2. tries' = tries
    BY <1>7 DEF AddSetItem
  <2> QED BY <2>1, <2>2 DEF SetItem
<1>8. ASSUME NEW e \in Events, AddLockIndex(e) PROVE AttemptsInv'
  BY <1>8 DEF AddLockIndex
<1>9. ASSUME NEW e \in Events, AddSetIndex(e) PROVE AttemptsInv'
  BY <1>9 DEF AddSetIndex, SetIndex, AddReturn
<1>10. ASSUME NEW e \in Events, AddGetIndexFailed(e) PROVE AttemptsInv'
  BY <1>10 DEF AddGetIndexFailed, AddReturn
<1>11. ASSUME NEW e \in Events, EvictItem(e) PROVE AttemptsInv'
  BY <1>11 DEF EvictItem, Charged
<1>12. ASSUME NEW e \in Events, ProcessNext(e) PROVE AttemptsInv'
  BY <1>12 DEF ProcessNext
<1>13. ASSUME NEW e \in Events, TryLockItem(e) PROVE AttemptsInv'
  BY <1>13 DEF TryLockItem
<1>14. ASSUME NEW e \in Events, TryUnreadable(e) PROVE AttemptsInv'
  BY <1>14 DEF TryUnreadable, LoopAgain
<1>15. ASSUME NEW e \in Events, TryGiveUp(e) PROVE AttemptsInv'
  BY <1>15 DEF TryGiveUp, TryRead, Dequeue, ItemView
<1>16. ASSUME NEW e \in Events, TryAccepted(e) PROVE AttemptsInv'
  <2>1. /\ tries' = [tries EXCEPT ![e] = Bump(@, MaxTries)]
        /\ sItem' = sItem /\ mItem' = [mItem EXCEPT ![e] = ItemView(e)]
    BY <1>16, DequeueWrites
  <2>2. /\ sItem[e] \in Item \cup {NoItem} /\ Charged(sItem[e], tries[e])
        /\ ItemView(e) \in Item \cup {NoItem} /\ Charged(ItemView(e), tries[e])
        /\ tries[e] \in Nat /\ tries'[e] = Bump(tries[e], MaxTries)
    BY <2>1, ViewType DEF ItemView
  <2>3. Charged(sItem[e], tries'[e])
    BY <2>2, ChargeMore
  <2>4. Charged(ItemView(e), tries'[e])
    <3> DEFINE it == ItemView(e)
    <3> HIDE DEF it
    <3>1. it \in Item \cup {NoItem} /\ Charged(it, tries[e])
      BY <2>2 DEF it
    <3>2. Charged(it, Bump(tries[e], MaxTries))
      BY <2>2, <3>1, ChargeMore
    <3> QED BY <2>2, <3>2 DEF it
  <2> QED BY <2>1, <2>3, <2>4
<1>17. ASSUME NEW e \in Events, TryRefusedAfterData(e) PROVE AttemptsInv'
  <2>1. /\ tries' = [tries EXCEPT ![e] = Bump(@, MaxTries)]
        /\ sItem' = sItem /\ mItem' = [mItem EXCEPT ![e] = ItemView(e)]
    BY <1>17, DequeueWrites
  <2>2. /\ sItem[e] \in Item \cup {NoItem} /\ Charged(sItem[e], tries[e])
        /\ ItemView(e) \in Item \cup {NoItem} /\ Charged(ItemView(e), tries[e])
        /\ tries[e] \in Nat /\ tries'[e] = Bump(tries[e], MaxTries)
    BY <2>1, ViewType DEF ItemView
  <2>3. Charged(sItem[e], tries'[e])
    BY <2>2, ChargeMore
  <2>4. Charged(ItemView(e), tries'[e])
    <3> DEFINE it == ItemView(e)
    <3> HIDE DEF it
    <3>1. it \in Item \cup {NoItem} /\ Charged(it, tries[e])
      BY <2>2 DEF it
    <3>2. Charged(it, Bump(tries[e], MaxTries))
      BY <2>2, <3>1, ChargeMore
    <3> QED BY <2>2, <3>2 DEF it
  <2> QED BY <2>1, <2>3, <2>4
<1>18. ASSUME NEW e \in Events, TryFailed(e) PROVE AttemptsInv'
  <2> DEFINE it == ItemView(e)
  <2> PICK o \in Outcomes :
        /\ it # NoItem /\ ~(it.attempts > maxRetries)
        /\ SetItem(e, [it EXCEPT !.attempts = @ + 1], o)
        /\ tries' = [tries EXCEPT ![e] = Bump(@, MaxTries)]
    BY <1>18 DEF TryFailed
  <2>1. it \in Item /\ Charged(it, tries[e])
    BY ViewType DEF ItemView
  <2>2. Charged([it EXCEPT !.attempts = @ + 1], tries'[e])
    BY <2>1, ChargeOne
  <2>3. Charged(sItem[e], tries'[e])
    BY ChargeMore
  <2> HIDE DEF it
  <2> QED BY <2>2, <2>3 DEF SetItem
<1>19. ASSUME NEW e \in Events, RemoveFromIndex(e) PROVE AttemptsInv'
  BY <1>19 DEF RemoveFromIndex, SetIndex, LoopAgain
<1>20. ASSUME NEW e \in Events, RemoveGetIndexFailed(e) PROVE AttemptsInv'
  BY <1>20 DEF RemoveGetIndexFailed, LoopAgain
<1>21. ASSUME NEW e \in Events, RemoveItem(e) PROVE AttemptsInv'
  BY <1>21 DEF RemoveItem, SetItem, LoopAgain, Charged
<1>22. CASE ProcessStart
  BY <1>22 DEF ProcessStart
<1>23. CASE ProcessStartFailed
  BY <1>23 DEF ProcessStartFailed
<1>24. CASE ProcessEnd
  BY <1>24 DEF ProcessEnd
<1>25. CASE EvictIndex
  BY <1>25 DEF EvictIndex
<1>26. CASE Crash
  BY <1>26 DEF Crash, Restart, Charged
<1>27. CASE UNCHANGED vars
  BY <1>27 DEF vars
<1>28. ASSUME NEW e \in Events, NEW r \in Rcpts, SendStalls(e, r) PROVE AttemptsInv'
  BY <1>28 DEF SendStalls
<1>29. ASSUME NEW e \in Events, NEW r \in Rcpts, SendDeferredRecovered(e, r) PROVE AttemptsInv'
  BY <1>29 DEF SendDeferredRecovered
<1>30. ASSUME NEW e \in Events, TryStalls(e) PROVE AttemptsInv'
  BY <1>30 DEF TryStalls, ItemView
<1> QED
  BY <1>1, <1>2, <1>3, <1>4, <1>5, <1>6, <1>7, <1>8, <1>9, <1>10, <1>11,
     <1>12, <1>13, <1>14, <1>15, <1>16, <1>17, <1>18, <1>19, <1>20, <1>21,
     <1>22, <1>23, <1>24, <1>25, <1>26, <1>27, <1>28,
     <1>29, <1>30
     DEF Next, Process, Send, Add, Try, Remove

\* An item that an earlier process left is charged with nothing.
LEMMA AttemptsInit == Init => AttemptsInv
<1> SUFFICES ASSUME Init PROVE AttemptsInv
  OBVIOUS
<1>1. \A e \in Events : sItem[e] # NoItem => sItem[e].attempts = 0
  BY StoredItems
<1>2. /\ tries = [e \in Events |-> 0] /\ mItem = [e \in Events |-> NoItem]
  BY DEF Init
<1>3. maxRetries \in Nat
  BY RetriesNat
<1>4. ASSUME NEW e \in Events PROVE Charged(sItem[e], tries[e])
  BY <1>1, <1>2, <1>3 DEF Charged
<1>5. ASSUME NEW e \in Events PROVE Charged(mItem[e], tries[e])
  BY <1>2 DEF Charged
<1> QED BY <1>4, <1>5 DEF AttemptsInv

\* Process never charges an attempt that was not made and so never gives an
\* item up early, and it never tries an item beyond the limit.
THEOREM AttemptsAreHonest == Spec => []AttemptsAreTries
<1>1. AttemptsInv => AttemptsAreTries
  BY DEF AttemptsInv, Charged, AttemptsAreTries
<1> QED BY <1>1, AttemptsInit, TypeCorrect, AttemptsNext, PTL DEF Spec

----------------------------------------------------------------------------
(* The refinement *)

\* Sending a mail the first time does not touch the queue; Add may take e in.
LEMMA SendAndAddSteps ==
  ASSUME NEW e \in Events, Send(e) \/ Add(e)
  PROVE  tries' = tries /\ acked' \in {acked, acked \cup {e}}
<1>1. CASE Send(e)
  BY <1>1 DEF Send, SendAccepted, SendRefusedAfterData, SendFailed,
              SendStalls, SendDeferred, SendDeferredNoRelay,
              SendDeferredRecovered, Restart, hist
<1>2. CASE Add(e)
  BY <1>2 DEF Add, AddLockItem, AddSetItem, AddLockIndex, AddSetIndex,
              AddGetIndexFailed, hist
<1> QED BY <1>1, <1>2

\* What the queue answers for, and what it has tried, only changes in Add and
\* in the sends and the giving up of try.
LEMMA OtherSteps ==
  ASSUME NEW e \in Events,
         \/ TryLockItem(e) \/ TryUnreadable(e) \/ TryStalls(e) \/ Remove(e)
         \/ ProcessNext(e) \/ EvictItem(e) \/ EvictIndex \/ Crash
         \/ ProcessStart \/ ProcessStartFailed \/ ProcessEnd
  PROVE  tries' = tries /\ acked' = acked
  BY DEF TryLockItem, TryUnreadable, TryStalls, Remove, RemoveFromIndex,
         RemoveGetIndexFailed, RemoveItem, ProcessNext, EvictItem, EvictIndex,
         Crash, Restart, ProcessStart, ProcessStartFailed, ProcessEnd, hist

\* One more send is one less due.
LEMMA OneLessDue ==
  ASSUME NEW n \in Nat
  PROVE  LET due(k) == IF k > maxRetries THEN 0 ELSE maxRetries + 1 - k
         IN  due(Bump(n, MaxTries)) = IF due(n) = 0 THEN 0 ELSE due(n) - 1
  BY RetriesNat DEF Bump, MaxTries

\* Every step of the queue is a step of Delivery, or none.
LEMMA DeliveryNext ==
  TypeOK /\ AttemptsInv /\ [Next]_vars => [D!Next]_(D!vars)
<1> SUFFICES ASSUME TypeOK, AttemptsInv, [Next]_vars PROVE [D!Next]_(D!vars)
  OBVIOUS
<1> DEFINE left == [e \in Events |-> Due(e)]
<1>1. ASSUME tries' = tries, NEW e \in Events, acked' \in {acked, acked \cup {e}}
      PROVE  [D!Next]_(D!vars)
  <2>1. left' = left
    BY <1>1 DEF Due
  <2> QED BY <1>1, <2>1 DEF D!Next, D!Put, D!vars
<1>2. ASSUME tries' = tries, acked' = acked PROVE [D!Next]_(D!vars)
  BY <1>2 DEF D!vars, Due
<1>3. ASSUME NEW e \in Events, TryGiveUp(e) PROVE [D!Next]_(D!vars)
  <2>1. /\ tries' = tries /\ acked' = acked \ {e}
        /\ ItemView(e) # NoItem /\ ItemView(e).attempts > maxRetries
    BY <1>3 DEF TryGiveUp, TryRead, Dequeue
  <2>2. ItemView(e) \in Item /\ Charged(ItemView(e), tries[e])
    BY <2>1, ViewType DEF AttemptsInv, ItemView
  <2>3. tries[e] > maxRetries
    BY <2>1, <2>2, RetriesNat DEF Charged, Item, TypeOK
  <2>4. left[e] = 0 /\ left' = left
    BY <2>1, <2>3 DEF Due
  <2> QED BY <2>1, <2>4 DEF D!Next, D!GiveUp, D!vars
<1>4. ASSUME NEW e \in Events,
             TryAccepted(e) \/ TryRefusedAfterData(e) \/ TryFailed(e)
      PROVE  [D!Next]_(D!vars)
  <2>1. tries' = [tries EXCEPT ![e] = Bump(@, MaxTries)]
    BY <1>4 DEF TryAccepted, TryRefusedAfterData, TryFailed
  <2>2. acked' \in {acked, acked \ {e}}
    BY <1>4 DEF TryAccepted, TryRefusedAfterData, TryFailed, TryStalls, Dequeue
  <2>3. /\ tries \in [Events -> Nat]
        /\ Due(e)' = IF Due(e) = 0 THEN 0 ELSE Due(e) - 1
    BY <2>1, OneLessDue DEF TypeOK, Due
  <2>4. \A f \in Events \ {e} : Due(f)' = Due(f)
    BY <2>1, <2>3 DEF Due
  <2>5. left' = [left EXCEPT ![e] = IF @ = 0 THEN 0 ELSE @ - 1]
    BY <2>3, <2>4
  <2> QED BY <2>2, <2>5 DEF D!Next, D!Try, D!vars
<1>5. CASE UNCHANGED vars
  BY <1>2, <1>5 DEF vars, hist
<1>6. CASE \E e \in Events : Send(e) \/ Add(e)
  BY <1>1, <1>6, SendAndAddSteps
<1>7. CASE \E e \in Events :
             TryGiveUp(e) \/ TryAccepted(e) \/ TryRefusedAfterData(e) \/ TryFailed(e)
  BY <1>3, <1>4, <1>7
<1>8. CASE \E e \in Events :
             \/ TryLockItem(e) \/ TryUnreadable(e) \/ TryStalls(e) \/ Remove(e)
             \/ ProcessNext(e) \/ EvictItem(e)
  BY <1>2, <1>8, OtherSteps
<1>9. CASE EvictIndex \/ Crash \/ ProcessStart \/ ProcessStartFailed \/ ProcessEnd
  BY <1>2, <1>9 DEF EvictIndex, Crash, Restart, ProcessStart,
                    ProcessStartFailed, ProcessEnd, hist
<1> QED
  BY <1>5, <1>6, <1>7, <1>8, <1>9 DEF Next, Process, Try

\* The queue implements Delivery: whatever interleaves, fails or crashes, an
\* id that Queue.Add has acknowledged leaves the queue by a send of its own,
\* or after maxRetries + 1 of them.
THEOREM Refinement == Spec => Delivers
<1>1. Init => D!Init
  BY QueueAssumption, RetriesNat DEF Init, D!Init, Due
<1> QED
  BY <1>1, AttemptsInit, TypeCorrect, AttemptsNext, DeliveryNext, PTL
     DEF Spec, Delivers, D!Spec

----------------------------------------------------------------------------
(* The single mails: one is delivered again only because of a fault, and one    *)
(* of which the room was told "queued" is in the queue.  Both rest on where the *)
(* recipients of an event can be: in the loop, in Add, or in its one item.      *)

\* An item of e, on the homeserver or in the cache, is for recipient r.
HasItem(e, r) ==
  \/ sItem[e] # NoItem /\ sItem[e].to = r
  \/ mItem[e] # NoItem /\ mItem[e].to = r

\* Recipients go from the loop to Add and from there, once, into the item; as
\* long as Add works on the item it is its own.
RecipientsInv ==
  /\ \A e \in Events : e \notin cached => mItem[e] = NoItem
  /\ \A e \in Events : pc[e] \in {"send", "stalled", "dead"} => cur[e] = {}
  /\ \A e \in Events : todo[e] \cap cur[e] = {}
  /\ \A e \in Events, r \in Rcpts :
       /\ r \in todo[e] => ~HasItem(e, r)
       /\ r \in cur[e] /\ pc[e] \in {"lockItem", "setItem"} => ~HasItem(e, r)
       /\ pc[e] \in {"lockIndex", "setIndex"} /\ HasItem(e, r) => r \in cur[e]
  /\ \A e \in Stored : todo[e] = {} /\ cur[e] = {}
  /\ \A e \in Events \ Stored :
       /\ todo[e] \subseteq To[e] /\ cur[e] \subseteq To[e]
       /\ \A r \in Rcpts : HasItem(e, r) => r \in To[e]

\* What is written is the only item that can be new, and the only one left if
\* the write was answered.
LEMMA SetItemHas ==
  ASSUME TypeOK, NEW e \in Events, NEW new \in Item \cup {NoItem},
         NEW o \in Outcomes, SetItem(e, new, o)
  PROVE  \A f \in Events, r \in Rcpts :
           HasItem(f, r)' =>
             \/ HasItem(f, r) /\ (f = e => o # "ok")
             \/ f = e /\ new # NoItem /\ r = new.to
  BY DEF TypeOK, SetItem, Applied, HasItem

\* A step that writes no item, or writes back what it read, adds none.
LEMMA SameItems ==
  ASSUME TypeOK, UNCHANGED sItem,
         \/ UNCHANGED mItem
         \/ \E e \in Events : mItem' = [mItem EXCEPT ![e] = NoItem]
         \/ \E e \in Events : mItem' = [mItem EXCEPT ![e] = ItemView(e)]
         \/ mItem' = [e \in Events |-> NoItem]
  PROVE  \A f \in Events, r \in Rcpts : HasItem(f, r)' => HasItem(f, r)
  BY DEF TypeOK, HasItem, ItemView

\* Every step keeps the recipients where they can be.
LEMMA RecipientsNext == IInv /\ RecipientsInv /\ [Next]_vars => RecipientsInv'
<1> SUFFICES ASSUME IInv, RecipientsInv, [Next]_vars PROVE RecipientsInv'
  OBVIOUS
<1>0. TypeOK /\ LockInv
  BY DEF IInv
<1> USE <1>0, QueueAssumption DEF RecipientsInv, sender, cron, locks, store, hist
<1>1. ASSUME NEW e \in Events, NEW r \in Rcpts, SendAccepted(e, r) PROVE RecipientsInv'
  BY <1>1 DEF SendAccepted, TypeOK, HasItem
<1>2. ASSUME NEW e \in Events, NEW r \in Rcpts, SendRefusedAfterData(e, r) PROVE RecipientsInv'
  BY <1>2 DEF SendRefusedAfterData, TypeOK, HasItem
<1>3. ASSUME NEW e \in Events, NEW r \in Rcpts, SendFailed(e, r) PROVE RecipientsInv'
  BY <1>3 DEF SendFailed, TypeOK, HasItem
<1>4. ASSUME NEW e \in Events, NEW r \in Rcpts, SendDeferred(e, r) PROVE RecipientsInv'
  BY <1>4 DEF SendDeferred, TypeOK, HasItem
<1>5. ASSUME NEW e \in Events, NEW r \in Rcpts, SendDeferredNoRelay(e, r) PROVE RecipientsInv'
  BY <1>5 DEF SendDeferredNoRelay, Restart, TypeOK, HasItem
<1>6. ASSUME NEW e \in Events, AddLockItem(e) PROVE RecipientsInv'
  BY <1>6 DEF AddLockItem, TypeOK, HasItem
<1>7. ASSUME NEW e \in Events, AddSetItem(e) PROVE RecipientsInv'
  <2> PICK r \in cur[e], o \in Outcomes :
        /\ SetItem(e, [to |-> r, attempts |-> 0], o)
        /\ \/ /\ o = "ok"
              /\ pc' = [pc EXCEPT ![e] = "lockIndex"]
              /\ UNCHANGED cur
           \/ /\ o # "ok"
              /\ pc' = [pc EXCEPT ![e] = "send"]
              /\ cur' = [cur EXCEPT ![e] = {}]
    BY <1>7 DEF AddSetItem, AddReturn
  <2> DEFINE new == [to |-> r, attempts |-> 0]
  <2>0. r \in Rcpts
    BY DEF TypeOK
  <2>1. new \in Item /\ new.to = r /\ SetItem(e, new, o)
    BY <2>0 DEF Item
  <2> HIDE DEF new
  <2>2. \A f \in Events, q \in Rcpts :
          HasItem(f, q)' => \/ HasItem(f, q) /\ (f = e => o # "ok")
                            \/ f = e /\ q = r
    BY <2>1, SetItemHas
  <2>3. /\ pc[e] = "setItem" /\ UNCHANGED todo
        /\ cached' = cached \cup {e}
        /\ \A f \in Events : f # e => mItem'[f] = mItem[f]
    BY <1>7 DEF AddSetItem, SetItem, TypeOK
  <2>4. \A f \in Events : /\ cur'[f] = IF f = e /\ o # "ok" THEN {} ELSE cur[f]
                          /\ pc'[f] = IF f # e THEN pc[f]
                                      ELSE IF o = "ok" THEN "lockIndex" ELSE "send"
    <3>1. cur \in [Events -> SUBSET Rcpts] /\ DOMAIN pc = Events
      BY DEF TypeOK
    <3>2. CASE o = "ok"
      BY <3>1, <3>2
    <3>3. CASE o # "ok"
      BY <3>1, <3>3
    <3> QED BY <3>2, <3>3
  <2>5. /\ \A f \in Events : f \notin cached' => mItem'[f] = NoItem
        /\ \A f \in Events : pc'[f] \in {"send", "stalled", "dead"} => cur'[f] = {}
        /\ \A f \in Events : todo'[f] \cap cur'[f] = {}
        /\ \A f \in Stored : todo'[f] = {} /\ cur'[f] = {}
    BY <2>3, <2>4
  <2>6. ASSUME NEW f \in Events, NEW q \in Rcpts
        PROVE  /\ q \in todo'[f] => ~HasItem(f, q)'
               /\ q \in cur'[f] /\ pc'[f] \in {"lockItem", "setItem"} => ~HasItem(f, q)'
               /\ pc'[f] \in {"lockIndex", "setIndex"} /\ HasItem(f, q)' => q \in cur'[f]
    BY <2>0, <2>2, <2>3, <2>4
  <2>7. ASSUME NEW f \in Events \ Stored
        PROVE  /\ todo'[f] \subseteq To[f] /\ cur'[f] \subseteq To[f]
               /\ \A q \in Rcpts : HasItem(f, q)' => q \in To[f]
    BY <2>0, <2>2, <2>3, <2>4
  <2> QED BY <2>5, <2>6, <2>7
<1>8. ASSUME NEW e \in Events, AddLockIndex(e) PROVE RecipientsInv'
  BY <1>8 DEF AddLockIndex, TypeOK, HasItem
<1>9. ASSUME NEW e \in Events, AddSetIndex(e) PROVE RecipientsInv'
  <2>1. \A f \in Events, q \in Rcpts : HasItem(f, q)' => HasItem(f, q)
    BY <1>9, SameItems DEF AddSetIndex, SetIndex, AddReturn
  <2> QED BY <1>9, <2>1 DEF AddSetIndex, SetIndex, AddReturn, TypeOK, ItemView
<1>10. ASSUME NEW e \in Events, AddGetIndexFailed(e) PROVE RecipientsInv'
  <2>1. \A f \in Events, q \in Rcpts : HasItem(f, q)' => HasItem(f, q)
    BY <1>10, SameItems DEF AddGetIndexFailed, AddReturn
  <2> QED BY <1>10, <2>1 DEF AddGetIndexFailed, AddReturn, TypeOK, ItemView
<1>11. ASSUME NEW e \in Events, EvictItem(e) PROVE RecipientsInv'
  <2>1. \A f \in Events, q \in Rcpts : HasItem(f, q)' => HasItem(f, q)
    BY <1>11, SameItems DEF EvictItem
  <2> QED BY <1>11, <2>1 DEF EvictItem, TypeOK, ItemView
<1>12. ASSUME NEW e \in Events, ProcessNext(e) PROVE RecipientsInv'
  BY <1>12 DEF ProcessNext, TypeOK, HasItem
<1>13. ASSUME NEW e \in Events, TryLockItem(e) PROVE RecipientsInv'
  BY <1>13 DEF TryLockItem, TypeOK, HasItem
<1>14. ASSUME NEW e \in Events, TryUnreadable(e) PROVE RecipientsInv'
  <2>1. \A f \in Events, q \in Rcpts : HasItem(f, q)' => HasItem(f, q)
    BY <1>14, SameItems DEF TryUnreadable, LoopAgain
  <2> QED BY <1>14, <2>1 DEF TryUnreadable, LoopAgain, TypeOK, ItemView
<1>15. ASSUME NEW e \in Events, TryGiveUp(e) PROVE RecipientsInv'
  <2>1. \A f \in Events, q \in Rcpts : HasItem(f, q)' => HasItem(f, q)
    BY <1>15, SameItems DEF TryGiveUp, TryRead, Dequeue
  <2> QED BY <1>15, <2>1 DEF TryGiveUp, TryRead, Dequeue, TypeOK, ItemView
<1>16. ASSUME NEW e \in Events, TryAccepted(e) PROVE RecipientsInv'
  <2>1. \A f \in Events, q \in Rcpts : HasItem(f, q)' => HasItem(f, q)
    BY <1>16, SameItems DEF TryAccepted, TryRead, Dequeue
  <2> QED BY <1>16, <2>1 DEF TryAccepted, TryRead, Dequeue, TypeOK, ItemView
<1>17. ASSUME NEW e \in Events, TryRefusedAfterData(e) PROVE RecipientsInv'
  <2>1. \A f \in Events, q \in Rcpts : HasItem(f, q)' => HasItem(f, q)
    BY <1>17, SameItems DEF TryRefusedAfterData, TryRead, Dequeue
  <2> QED BY <1>17, <2>1 DEF TryRefusedAfterData, TryRead, Dequeue, TypeOK, ItemView
<1>18. ASSUME NEW e \in Events, TryFailed(e) PROVE RecipientsInv'
  <2> DEFINE it == ItemView(e)
             new == [it EXCEPT !.attempts = @ + 1]
  <2> PICK o \in Outcomes : it # NoItem /\ SetItem(e, new, o)
    BY <1>18 DEF TryFailed
  <2>1. it \in Item /\ new \in Item /\ new.to = it.to /\ HasItem(e, it.to)
    BY ViewType DEF Item, ItemView, HasItem
  <2> HIDE DEF new
  <2>2. \A f \in Events, q \in Rcpts : HasItem(f, q)' => HasItem(f, q)
    BY <2>1, SetItemHas
  <2>3. /\ UNCHANGED <<pc, todo, cur>>
        /\ cached' = cached \cup {e}
        /\ \A f \in Events : f # e => mItem'[f] = mItem[f]
    BY <1>18 DEF TryFailed, SetItem, TypeOK
  <2> QED BY <2>2, <2>3
<1>19. ASSUME NEW e \in Events, RemoveFromIndex(e) PROVE RecipientsInv'
  <2>1. \A f \in Events, q \in Rcpts : HasItem(f, q)' => HasItem(f, q)
    BY <1>19, SameItems DEF RemoveFromIndex, SetIndex, LoopAgain
  <2> QED BY <1>19, <2>1 DEF RemoveFromIndex, SetIndex, LoopAgain, TypeOK, ItemView
<1>20. ASSUME NEW e \in Events, RemoveGetIndexFailed(e) PROVE RecipientsInv'
  <2>1. \A f \in Events, q \in Rcpts : HasItem(f, q)' => HasItem(f, q)
    BY <1>20, SameItems DEF RemoveGetIndexFailed, LoopAgain
  <2> QED BY <1>20, <2>1 DEF RemoveGetIndexFailed, LoopAgain, TypeOK, ItemView
<1>21. ASSUME NEW e \in Events, RemoveItem(e) PROVE RecipientsInv'
  <2> PICK o \in Outcomes : SetItem(e, NoItem, o)
    BY <1>21 DEF RemoveItem
  <2>1. \A f \in Events, q \in Rcpts : HasItem(f, q)' => HasItem(f, q)
    BY SetItemHas
  <2>2. /\ UNCHANGED <<pc, todo, cur>>
        /\ cached' = cached \cup {e}
        /\ \A f \in Events : f # e => mItem'[f] = mItem[f]
    BY <1>21 DEF RemoveItem, SetItem, TypeOK
  <2> QED BY <2>1, <2>2
<1>22. CASE ProcessStart
  <2>1. \A f \in Events, q \in Rcpts : HasItem(f, q)' => HasItem(f, q)
    BY <1>22, SameItems DEF ProcessStart
  <2> QED BY <1>22, <2>1 DEF ProcessStart, TypeOK, ItemView
<1>23. CASE ProcessStartFailed
  <2>1. \A f \in Events, q \in Rcpts : HasItem(f, q)' => HasItem(f, q)
    BY <1>23, SameItems DEF ProcessStartFailed
  <2> QED BY <1>23, <2>1 DEF ProcessStartFailed, TypeOK, ItemView
<1>24. CASE ProcessEnd
  <2>1. \A f \in Events, q \in Rcpts : HasItem(f, q)' => HasItem(f, q)
    BY <1>24, SameItems DEF ProcessEnd
  <2> QED BY <1>24, <2>1 DEF ProcessEnd, TypeOK, ItemView
<1>25. CASE EvictIndex
  <2>1. \A f \in Events, q \in Rcpts : HasItem(f, q)' => HasItem(f, q)
    BY <1>25, SameItems DEF EvictIndex
  <2> QED BY <1>25, <2>1 DEF EvictIndex, TypeOK, ItemView
<1>26. CASE Crash
  BY <1>26 DEF Crash, Restart, TypeOK, HasItem
<1>27. CASE UNCHANGED vars
  BY <1>27 DEF vars, HasItem
<1>28. ASSUME NEW e \in Events, NEW r \in Rcpts, SendStalls(e, r) PROVE RecipientsInv'
  BY <1>28 DEF SendStalls, TypeOK, HasItem
<1>29. ASSUME NEW e \in Events, NEW r \in Rcpts, SendDeferredRecovered(e, r) PROVE RecipientsInv'
  BY <1>29 DEF SendDeferredRecovered, TypeOK, HasItem
<1>30. ASSUME NEW e \in Events, TryStalls(e) PROVE RecipientsInv'
  <2>1. \A f \in Events, q \in Rcpts : HasItem(f, q)' => HasItem(f, q)
    BY <1>30, SameItems DEF TryStalls
  <2> QED BY <1>30, <2>1 DEF TryStalls, TypeOK, ItemView
<1> QED
  BY <1>1, <1>2, <1>3, <1>4, <1>5, <1>6, <1>7, <1>8, <1>9, <1>10, <1>11,
     <1>12, <1>13, <1>14, <1>15, <1>16, <1>17, <1>18, <1>19, <1>20, <1>21,
     <1>22, <1>23, <1>24, <1>25, <1>26, <1>27, <1>28,
     <1>29, <1>30
     DEF Next, Process, Send, Add, Try, Remove

\* At first every recipient is in its loop, or in an item an earlier process
\* left.
LEMMA RecipientsInit == Init => RecipientsInv
<1> SUFFICES ASSUME Init PROVE RecipientsInv
  OBVIOUS
<1>1. \A e \in Events \ Stored : sItem[e] = NoItem
  BY DEF Init
<1> QED BY <1>1, QueueAssumption DEF Init, RecipientsInv, HasItem

----------------------------------------------------------------------------
(* Duplicates *)

\* Process may still come to try e without another fault.
MayBeTried(e) ==
  \/ e \in Indexed /\ ~(cpc = "removeIndex" /\ e \in cid)
  \/ e \in ctodo
  \/ e \in cid /\ cpc \in {"lockItem", "try"}

\* The mail to r may still be sent without another fault.
Pending(e, r) ==
  \/ r \in todo[e] \/ r \in cur[e]
  \/ HasItem(e, r) /\ MayBeTried(e)

\* A mail that may be sent once more has been sent at most once per fault.
DuplicatesInv ==
  /\ cid \cap ctodo = {}
  /\ \A e \in Events, r \in Rcpts :
       /\ delivered[<<e, r>>] <= 1 + faults
       /\ Pending(e, r) => delivered[<<e, r>>] <= faults

\* A step counts at most one fault, and then it delivers nothing.
LEMMA FaultSteps ==
  ASSUME TypeOK, [Next]_vars
  PROVE  faults' = faults \/ (faults' = faults + 1 /\ delivered' = delivered)
<1> DEFINE Goal == faults' = faults \/ (faults' = faults + 1 /\ delivered' = delivered)
<1> USE DEF store, hist, Fault
<1>1. ASSUME NEW e \in Events, Send(e) PROVE Goal
  BY <1>1 DEF Send, SendAccepted, SendRefusedAfterData, SendFailed,
              SendStalls, SendDeferred, SendDeferredNoRelay,
              SendDeferredRecovered, Restart
<1>2. ASSUME NEW e \in Events, Add(e) PROVE Goal
  BY <1>2 DEF Add, AddLockItem, AddSetItem, AddLockIndex, AddSetIndex,
              AddGetIndexFailed, SetItem, SetIndex
<1>3. ASSUME NEW e \in Events, Try(e) PROVE Goal
  BY <1>3 DEF Try, TryLockItem, TryUnreadable, TryGiveUp, TryAccepted,
              TryRefusedAfterData, TryFailed, TryStalls, Dequeue, SetItem
<1>4. ASSUME NEW e \in Events, Remove(e) \/ ProcessNext(e) \/ EvictItem(e) PROVE Goal
  BY <1>4 DEF Remove, RemoveFromIndex, RemoveGetIndexFailed, RemoveItem,
              SetItem, SetIndex, ProcessNext, EvictItem
<1>5. CASE ProcessStart \/ ProcessStartFailed \/ ProcessEnd \/ EvictIndex \/ Crash
  BY <1>5 DEF ProcessStart, ProcessStartFailed, ProcessEnd, EvictIndex, Crash,
              Restart
<1>6. CASE UNCHANGED vars
  BY <1>6 DEF vars
<1> QED BY <1>1, <1>2, <1>3, <1>4, <1>5, <1>6 DEF Next, Process

\* The id that Process is at is not among those it has yet to come to.
LEMMA LoopNext == cid \cap ctodo = {} /\ [Next]_vars => (cid \cap ctodo = {})'
<1> SUFFICES ASSUME cid \cap ctodo = {}, [Next]_vars PROVE (cid \cap ctodo = {})'
  OBVIOUS
<1> USE DEF cron
<1>1. ASSUME NEW e \in Events, Send(e) \/ Add(e) \/ EvictItem(e)
      PROVE  (cid \cap ctodo = {})'
  BY <1>1 DEF Send, SendAccepted, SendRefusedAfterData, SendFailed,
              SendStalls, SendDeferred, SendDeferredNoRelay,
              SendDeferredRecovered, Restart, Add, AddLockItem,
              AddSetItem, AddLockIndex, AddSetIndex, AddGetIndexFailed, EvictItem
<1>2. ASSUME NEW e \in Events, Try(e) PROVE (cid \cap ctodo = {})'
  BY <1>2 DEF Try, TryLockItem, TryUnreadable, TryGiveUp, TryAccepted,
              TryRefusedAfterData, TryFailed, TryStalls, Dequeue, LoopAgain
<1>3. ASSUME NEW e \in Events, Remove(e) \/ ProcessNext(e)
      PROVE  (cid \cap ctodo = {})'
  BY <1>3 DEF Remove, RemoveFromIndex, RemoveGetIndexFailed, RemoveItem,
              LoopAgain, ProcessNext
<1>4. CASE ProcessStart \/ ProcessStartFailed \/ ProcessEnd \/ EvictIndex \/ Crash
  BY <1>4 DEF ProcessStart, ProcessStartFailed, ProcessEnd, EvictIndex, Crash,
              Restart
<1>5. CASE UNCHANGED vars
  BY <1>5 DEF vars
<1> QED BY <1>1, <1>2, <1>3, <1>4, <1>5 DEF Next, Process

\* What a step of the event's own goroutine leaves pending was pending.
LEMMA PendingSender ==
  ASSUME IInv, RecipientsInv, NEW e \in Events, Send(e) \/ Add(e),
         faults' = faults, NEW f \in Events, NEW q \in Rcpts, Pending(f, q)'
  PROVE  Pending(f, q)
<1>0. TypeOK /\ faults \in Nat /\ faults # faults + 1
  BY DEF IInv, TypeOK
<1> USE <1>0, QueueAssumption DEF sender, cron, locks, store
<1>1. ASSUME NEW r \in Rcpts,
             SendAccepted(e, r) \/ SendRefusedAfterData(e, r) \/ SendFailed(e, r)
      PROVE  Pending(f, q)
  <2>1. UNCHANGED <<cached, mIndex, sIndex, mItem, sItem, cpc, cid, ctodo, cur>>
    BY <1>1 DEF SendAccepted, SendRefusedAfterData, SendFailed
  <2>2. todo'[f] \subseteq todo[f]
    BY <1>1 DEF SendAccepted, SendRefusedAfterData, SendFailed, TypeOK
  <2>3. HasItem(f, q)' => HasItem(f, q)
    BY <2>1 DEF HasItem
  <2>4. MayBeTried(f)' => MayBeTried(f)
    BY <2>1 DEF MayBeTried, Indexed, IndexView
  <2> QED BY <2>1, <2>2, <2>3, <2>4 DEF Pending
<1>2. ASSUME NEW r \in Rcpts, SendDeferred(e, r) PROVE Pending(f, q)
  BY <1>2 DEF SendDeferred, Pending, HasItem, MayBeTried, Indexed, IndexView,
              TypeOK
<1>3. ASSUME NEW r \in Rcpts, SendDeferredNoRelay(e, r) PROVE Pending(f, q)
  BY <1>3 DEF SendDeferredNoRelay
<1>8. ASSUME NEW r \in Rcpts, SendStalls(e, r) \/ SendDeferredRecovered(e, r)
      PROVE  Pending(f, q)
  BY <1>8 DEF SendStalls, SendDeferredRecovered, Pending, HasItem, MayBeTried,
              Indexed, IndexView, TypeOK
<1>4. CASE AddLockItem(e) \/ AddLockIndex(e)
  BY <1>4 DEF AddLockItem, AddLockIndex, Pending, HasItem, MayBeTried, Indexed,
              IndexView
<1>5. CASE AddSetItem(e)
  <2> PICK r \in cur[e], o \in Outcomes :
        SetItem(e, [to |-> r, attempts |-> 0], o)
    BY <1>5 DEF AddSetItem
  <2> DEFINE new == [to |-> r, attempts |-> 0]
  <2>1. r \in Rcpts
    BY DEF TypeOK
  <2>2. new \in Item /\ new.to = r /\ SetItem(e, new, o)
    BY <2>1 DEF Item
  <2> HIDE DEF new
  <2>3. HasItem(f, q)' => HasItem(f, q) \/ (f = e /\ q = r)
    BY <2>2, SetItemHas
  <2>4. o = "ok"
    BY <2>2 DEF SetItem, Fault
  <2>5. /\ UNCHANGED <<todo, cron, mIndex, sIndex>> /\ cached' = cached \cup {e}
        /\ cur'[f] \subseteq cur[f]
    BY <1>5 DEF AddSetItem, AddReturn, SetItem, TypeOK
  <2>6. MayBeTried(f)' => MayBeTried(f)
    BY <2>5 DEF MayBeTried, Indexed, IndexView
  <2> QED BY <2>3, <2>5, <2>6 DEF Pending
<1>6. CASE AddSetIndex(e)
  <2> PICK o \in Outcomes : SetIndex(IndexView \cup {e}, o)
    BY <1>6 DEF AddSetIndex
  <2>1. HasItem(f, q)' => HasItem(f, q)
    BY <1>6 DEF AddSetIndex, SetIndex, HasItem
  <2>2. /\ UNCHANGED <<todo, cron>> /\ pc[e] = "setIndex"
        /\ cur'[f] \subseteq cur[f]
    BY <1>6 DEF AddSetIndex, AddReturn, TypeOK
  <2>3. MayBeTried(f)' => MayBeTried(f) \/ f = e
    BY <2>2 DEF SetIndex, MayBeTried, Indexed, IndexView
  <2>4. HasItem(e, q) => q \in cur[e]
    BY <2>2 DEF RecipientsInv
  <2> QED BY <2>1, <2>2, <2>3, <2>4 DEF Pending
<1>7. CASE AddGetIndexFailed(e)
  BY <1>7 DEF AddGetIndexFailed, Fault
<1> QED BY <1>1, <1>2, <1>3, <1>4, <1>5, <1>6, <1>7, <1>8 DEF Send, Add

\* What a step of Process, or of the cache, leaves pending was pending.
LEMMA PendingProcess ==
  ASSUME IInv, NEW e \in Events,
         \/ ProcessStart \/ ProcessStartFailed \/ ProcessEnd \/ ProcessNext(e)
         \/ Try(e) \/ Remove(e) \/ EvictItem(e) \/ EvictIndex \/ Crash,
         faults' = faults, NEW f \in Events, NEW q \in Rcpts, Pending(f, q)'
  PROVE  Pending(f, q)
<1>0. TypeOK /\ faults \in Nat /\ faults # faults + 1
  BY DEF IInv, TypeOK
<1> USE <1>0, QueueAssumption DEF sender, cron, locks, store
<1>1. ASSUME \/ TryFailed(e) \/ RemoveItem(e)
      PROVE  HasItem(f, q)' => HasItem(f, q)
  <2>1. CASE TryFailed(e)
    <3> DEFINE it == ItemView(e)
               new == [it EXCEPT !.attempts = @ + 1]
    <3> PICK o \in Outcomes : it # NoItem /\ SetItem(e, new, o)
      BY <2>1 DEF TryFailed
    <3>1. it \in Item /\ new \in Item /\ new.to = it.to /\ HasItem(e, it.to)
      BY ViewType DEF Item, ItemView, HasItem
    <3> HIDE DEF new
    <3> QED BY <3>1, SetItemHas
  <2>2. CASE RemoveItem(e)
    BY <2>2, SetItemHas DEF RemoveItem
  <2> QED BY <1>1, <2>1, <2>2
<1>2. CASE ProcessStart \/ ProcessEnd \/ ProcessNext(e) \/ EvictIndex
  BY <1>2 DEF ProcessStart, ProcessEnd, ProcessNext, EvictIndex, Pending,
              HasItem, MayBeTried, Indexed, IndexView
<1>3. CASE ProcessStartFailed \/ Crash \/ RemoveGetIndexFailed(e)
  BY <1>3 DEF ProcessStartFailed, Crash, RemoveGetIndexFailed, Fault
<1>4. CASE EvictItem(e)
  <2>1. HasItem(f, q)' => HasItem(f, q)
    BY <1>4, SameItems DEF EvictItem
  <2>2. MayBeTried(f)' => MayBeTried(f)
    BY <1>4 DEF EvictItem, MayBeTried, Indexed, IndexView
  <2> QED BY <1>4, <2>1, <2>2 DEF EvictItem, Pending
<1>5. CASE TryLockItem(e) \/ TryUnreadable(e)
  BY <1>5 DEF TryLockItem, TryUnreadable, LoopAgain, Pending, HasItem,
              MayBeTried, Indexed, IndexView
<1>10. CASE TryStalls(e)
  <2>1. HasItem(f, q)' => HasItem(f, q)
    BY <1>10, SameItems DEF TryStalls
  <2>2. MayBeTried(f)' => MayBeTried(f)
    BY <1>10 DEF TryStalls, MayBeTried, Indexed, IndexView
  <2> QED BY <1>10, <2>1, <2>2 DEF TryStalls, Pending
<1>6. CASE TryGiveUp(e) \/ TryAccepted(e) \/ TryRefusedAfterData(e)
  <2>1. HasItem(f, q)' => HasItem(f, q)
    BY <1>6, SameItems DEF TryGiveUp, TryAccepted, TryRefusedAfterData, Dequeue
  <2>2. MayBeTried(f)' => MayBeTried(f)
    BY <1>6 DEF TryGiveUp, TryAccepted, TryRefusedAfterData, TryRead, Dequeue,
                MayBeTried, Indexed, IndexView
  <2>3. UNCHANGED sender
    BY <1>6 DEF TryGiveUp, TryAccepted, TryRefusedAfterData, Dequeue
  <2> QED BY <2>1, <2>2, <2>3 DEF Pending
<1>7. CASE TryFailed(e)
  <2>1. MayBeTried(f)' => MayBeTried(f)
    BY <1>7 DEF TryFailed, TryRead, SetItem, LoopAgain, MayBeTried, Indexed,
                IndexView
  <2> QED BY <1>1, <1>7, <2>1 DEF TryFailed, Pending
<1>8. CASE RemoveFromIndex(e)
  <2>1. HasItem(f, q)' => HasItem(f, q)
    BY <1>8 DEF RemoveFromIndex, SetIndex, HasItem
  <2>2. PICK o \in Outcomes :
          /\ SetIndex(IndexView \ {e}, o)
          /\ o = "ok" => cpc' = "removeItem" /\ UNCHANGED <<ctodo, cid>>
    BY <1>8 DEF RemoveFromIndex
  <2>3. o = "ok" /\ cid = {e}
    BY <1>8, <2>2 DEF RemoveFromIndex, SetIndex, Fault
  <2>4. MayBeTried(f)' => MayBeTried(f)
    BY <2>2, <2>3 DEF SetIndex, Applied, MayBeTried, Indexed, IndexView
  <2> QED BY <1>8, <2>1, <2>4 DEF RemoveFromIndex, Pending
<1>9. CASE RemoveItem(e)
  <2>1. MayBeTried(f)' => MayBeTried(f)
    BY <1>9 DEF RemoveItem, SetItem, LoopAgain, MayBeTried, Indexed, IndexView
  <2> QED BY <1>1, <1>9, <2>1 DEF RemoveItem, Pending
<1> QED
  BY <1>2, <1>3, <1>4, <1>5, <1>6, <1>7, <1>8, <1>9, <1>10 DEF Try, Remove

\* A step without a fault leaves pending only what was.
LEMMA PendingNext ==
  ASSUME IInv, RecipientsInv, [Next]_vars, faults' = faults,
         NEW f \in Events, NEW q \in Rcpts, Pending(f, q)'
  PROVE  Pending(f, q)
<1>1. CASE UNCHANGED vars
  BY <1>1 DEF vars, sender, cron, store, Pending, HasItem, MayBeTried, Indexed,
              IndexView
<1>2. CASE \E e \in Events : Send(e) \/ Add(e)
  BY <1>2, PendingSender
<1>3. CASE Process \/ EvictIndex \/ Crash \/ \E e \in Events : EvictItem(e)
  BY <1>3, PendingProcess DEF Process
<1> QED BY <1>1, <1>2, <1>3 DEF Next

\* Deliveries are those of the recipient loop and of try.
LEMMA DeliverySteps ==
  ASSUME [Next]_vars, delivered' # delivered
  PROVE  \E e \in Events : TryAccepted(e) \/ \E r \in Rcpts : SendAccepted(e, r)
<1> USE DEF hist
<1>1. ASSUME NEW e \in Events, NEW r \in Rcpts,
             \/ SendRefusedAfterData(e, r) \/ SendFailed(e, r)
             \/ SendStalls(e, r) \/ SendDeferred(e, r)
             \/ SendDeferredNoRelay(e, r) \/ SendDeferredRecovered(e, r)
      PROVE  FALSE
  BY <1>1 DEF SendRefusedAfterData, SendFailed, SendStalls, SendDeferred,
              SendDeferredNoRelay, SendDeferredRecovered, Restart
<1>2. ASSUME NEW e \in Events, Add(e) PROVE FALSE
  BY <1>2 DEF Add, AddLockItem, AddSetItem, AddLockIndex, AddSetIndex,
              AddGetIndexFailed
<1>3. ASSUME NEW e \in Events, Try(e), ~TryAccepted(e) PROVE FALSE
  BY <1>3 DEF Try, TryLockItem, TryUnreadable, TryGiveUp, TryRefusedAfterData,
              TryFailed, TryStalls
<1>4. ASSUME NEW e \in Events, Remove(e) \/ ProcessNext(e) \/ EvictItem(e)
      PROVE  FALSE
  BY <1>4 DEF Remove, RemoveFromIndex, RemoveGetIndexFailed, RemoveItem,
              ProcessNext, EvictItem
<1>5. ~(ProcessStart \/ ProcessStartFailed \/ ProcessEnd \/ EvictIndex \/ Crash)
  BY DEF ProcessStart, ProcessStartFailed, ProcessEnd, EvictIndex, Crash, Restart
<1>6. ~UNCHANGED vars
  BY DEF vars
<1> QED BY <1>1, <1>2, <1>3, <1>4, <1>5, <1>6 DEF Next, Process, Send

\* A delivery is of a pending mail, counts one, and leaves it not pending.
LEMMA DeliveryOnce ==
  ASSUME IInv, RecipientsInv, cid \cap ctodo = {}, NEW e \in Events, NEW r \in Rcpts,
         \/ SendAccepted(e, r)
         \/ TryAccepted(e) /\ r = ItemView(e).to
  PROVE  /\ Pending(e, r) /\ ~Pending(e, r)'
         /\ delivered' = [delivered EXCEPT ![<<e, r>>] = Bump(@, MaxDelivered)]
<1>0. TypeOK /\ LockInv
  BY DEF IInv
<1> USE <1>0, QueueAssumption DEF sender, cron, locks, store
<1>1. CASE SendAccepted(e, r)
  <2>1. /\ r \in todo[e] /\ r \notin todo'[e] /\ cur'[e] = {} /\ ~HasItem(e, r)'
    BY <1>1 DEF SendAccepted, TypeOK, RecipientsInv, HasItem
  <2> QED BY <1>1, <2>1 DEF SendAccepted, Pending
<1>2. CASE TryAccepted(e) /\ r = ItemView(e).to
  <2>1. /\ cpc = "try" /\ cid = {e} /\ ItemView(e) # NoItem
        /\ cpc' = "removeIndex"
        /\ UNCHANGED <<pc, todo, cur, ctodo, cid>>
        /\ delivered' = [delivered EXCEPT ![<<e, r>>] = Bump(@, MaxDelivered)]
    BY <1>2 DEF TryAccepted, TryRead, Dequeue
  <2>2. HasItem(e, r)
    BY <1>2, <2>1 DEF HasItem, ItemView
  <2>3. Pending(e, r)
    BY <2>1, <2>2 DEF Pending, MayBeTried
  <2>4. pc[e] \notin {"setItem", "lockIndex", "setIndex"}
    BY <2>1 DEF LockInv
  <2>5. r \notin todo[e] /\ r \notin cur[e]
    BY <2>2, <2>4 DEF RecipientsInv, TypeOK
  <2>6. ~MayBeTried(e)'
    BY <2>1 DEF MayBeTried
  <2> QED BY <2>1, <2>3, <2>5, <2>6 DEF Pending
<1> QED BY <1>1, <1>2

\* Every step keeps the count of deliveries within the faults.
LEMMA DuplicatesNext ==
  IInv /\ RecipientsInv /\ DuplicatesInv /\ [Next]_vars => DuplicatesInv'
<1> SUFFICES ASSUME IInv, RecipientsInv, DuplicatesInv, [Next]_vars
             PROVE  DuplicatesInv'
  OBVIOUS
<1>0. TypeOK /\ faults \in Nat /\ \A m \in Mails : delivered[m] \in Nat
  BY RetriesNat DEF IInv, TypeOK
<1>1. (cid \cap ctodo = {})'
  BY LoopNext DEF DuplicatesInv
<1>2. ASSUME NEW f \in Events, NEW q \in Rcpts
      PROVE  /\ delivered'[<<f, q>>] <= 1 + faults'
             /\ Pending(f, q)' => delivered'[<<f, q>>] <= faults'
  <2>1. /\ delivered[<<f, q>>] \in Nat /\ delivered[<<f, q>>] <= 1 + faults
        /\ Pending(f, q) => delivered[<<f, q>>] <= faults
    BY <1>0 DEF DuplicatesInv
  <2>2. CASE faults' = faults + 1 /\ delivered' = delivered
    BY <1>0, <2>1, <2>2
  <2>3. CASE faults' = faults /\ delivered' = delivered
    BY <2>1, <2>3, PendingNext
  <2>4. CASE faults' = faults /\ delivered' # delivered
    <3>1. PICK e \in Events : TryAccepted(e) \/ \E r \in Rcpts : SendAccepted(e, r)
      BY <2>4, DeliverySteps
    <3>2. PICK r \in Rcpts : \/ SendAccepted(e, r)
                             \/ TryAccepted(e) /\ r = ItemView(e).to
      <4>1. CASE TryAccepted(e)
        <5>1. ItemView(e) \in Item
          BY <1>0, <4>1, ViewType DEF TryAccepted
        <5>2. ItemView(e).to \in Rcpts
          BY <5>1 DEF Item
        <5> QED BY <4>1, <5>2
      <4> QED BY <3>1, <4>1
    <3>3. /\ Pending(e, r) /\ ~Pending(e, r)'
          /\ delivered' = [delivered EXCEPT ![<<e, r>>] = Bump(@, MaxDelivered)]
      BY <3>2, DeliveryOnce DEF DuplicatesInv
    <3>4. CASE f = e /\ q = r
      <4>1. delivered'[<<f, q>>] = Bump(delivered[<<f, q>>], MaxDelivered)
        BY <1>0, <3>3, <3>4 DEF TypeOK
      <4>2. delivered'[<<f, q>>] <= delivered[<<f, q>>] + 1
        BY <2>1, <4>1 DEF Bump
      <4>3. delivered'[<<f, q>>] \in Nat
        BY <2>1, <4>1, RetriesNat, BumpNat
      <4> QED BY <1>0, <2>1, <2>4, <3>3, <3>4, <4>2, <4>3
    <3>5. CASE ~(f = e /\ q = r)
      <4>1. <<f, q>> # <<e, r>> /\ <<f, q>> \in Mails
        BY <3>5
      <4>2. delivered'[<<f, q>>] = delivered[<<f, q>>]
        BY <1>0, <3>3, <4>1 DEF TypeOK
      <4> QED BY <2>1, <2>4, <4>2, PendingNext
    <3> QED BY <3>4, <3>5
  <2> QED BY <1>0, <2>2, <2>3, <2>4, FaultSteps
<1> QED BY <1>1, <1>2 DEF DuplicatesInv

\* The recipients are where they can be in every reachable state.
LEMMA RecipientsHold == Spec => []RecipientsInv
  BY RecipientsInit, RecipientsNext, Inductive, PTL DEF Spec

\* A mail is accepted by the remote server once, plus at most once more for
\* each crash or failed account data call, however the goroutine of its event,
\* Process and the cache interleave.
THEOREM DuplicatesAreFaults == Spec => []DuplicatesNeedFaults
<1>1. Init => DuplicatesInv
  BY DEF Init, DuplicatesInv
<1>2. DuplicatesInv => DuplicatesNeedFaults
  BY DEF DuplicatesInv, DuplicatesNeedFaults
<1> QED
  BY <1>1, <1>2, Inductive, RecipientsHold, DuplicatesNext, PTL DEF Spec

----------------------------------------------------------------------------
(* What the room is told *)

\* Without faults, what the room was told is queued has been acknowledged.
ToldInv ==
  /\ \A e \in Stored, r \in Rcpts : told[<<e, r>>] # "queued"
  /\ faults = 0 => \A e \in Events, r \in Rcpts :
       told[<<e, r>>] = "queued" /\ tries[e] = 0 => e \in acked

\* A counter that was bumped is not 0.
LEMMA BumpedTries ==
  ASSUME NEW n \in Nat
  PROVE  Bump(n, MaxTries) # 0
  BY RetriesNat DEF Bump, MaxTries

\* Every step keeps what the room was told true of the queue.
LEMMA ToldNext ==
  IInv /\ AttemptsInv /\ RecipientsInv /\ ToldInv /\ [Next]_vars => ToldInv'
<1> SUFFICES ASSUME IInv, AttemptsInv, RecipientsInv, ToldInv, [Next]_vars
             PROVE  ToldInv'
  OBVIOUS
<1>0. TypeOK /\ faults \in Nat
  BY DEF IInv, TypeOK
<1> USE <1>0, QueueAssumption DEF hist
<1>1. ASSUME UNCHANGED <<told, tries, acked>> PROVE ToldInv'
  BY <1>1, FaultSteps DEF ToldInv
<1>2. ASSUME NEW e \in Events, Send(e) PROVE ToldInv'
  <2>1. PICK r \in Rcpts :
          \/ SendAccepted(e, r) \/ SendRefusedAfterData(e, r) \/ SendFailed(e, r)
          \/ SendStalls(e, r) \/ SendDeferred(e, r)
          \/ SendDeferredNoRelay(e, r) \/ SendDeferredRecovered(e, r)
    BY <1>2 DEF Send
  <2>2. CASE SendAccepted(e, r) \/ SendRefusedAfterData(e, r) \/ SendFailed(e, r)
    <3>1. /\ UNCHANGED <<tries, acked, faults>>
          /\ \A m \in Mails : told'[m] = "queued" => told[m] = "queued"
      BY <2>2 DEF SendAccepted, SendRefusedAfterData, SendFailed, Told, TypeOK
    <3> QED BY <3>1 DEF ToldInv
  <2>3. CASE \/ SendStalls(e, r) \/ SendDeferred(e, r)
             \/ SendDeferredNoRelay(e, r) \/ SendDeferredRecovered(e, r)
    BY <1>1, <2>3 DEF SendStalls, SendDeferred, SendDeferredNoRelay,
                      SendDeferredRecovered, Restart
  <2> QED BY <2>1, <2>2, <2>3
<1>3. ASSUME NEW e \in Events, Add(e) PROVE ToldInv'
  <2>1. CASE AddLockItem(e) \/ AddLockIndex(e)
    BY <1>1, <2>1 DEF AddLockItem, AddLockIndex
  <2>2. e \in Stored => cur[e] = {}
    BY DEF RecipientsInv
  <2>3. CASE AddSetItem(e)
    <3>1. /\ UNCHANGED <<tries, acked>>
          /\ faults' = 0 => faults = 0 /\ UNCHANGED told
      BY <2>3 DEF AddSetItem, SetItem, Fault
    <3>2. \A m \in Mails : told'[m] = told[m] \/ (m[1] = e /\ m[2] \in cur[e])
      BY <2>3 DEF AddSetItem, AddReturn, TypeOK
    <3> QED BY <2>2, <3>1, <3>2 DEF ToldInv
  <2>4. CASE AddSetIndex(e)
    <3>1. /\ UNCHANGED tries
          /\ faults' = 0 => faults = 0 /\ acked' = acked \cup {e}
      BY <2>4 DEF AddSetIndex, SetIndex, Fault
    <3>2. \A m \in Mails : told'[m] = told[m] \/ (m[1] = e /\ m[2] \in cur[e])
      BY <2>4 DEF AddSetIndex, AddReturn, TypeOK
    <3> QED BY <2>2, <3>1, <3>2 DEF ToldInv
  <2>5. CASE AddGetIndexFailed(e)
    <3>1. faults' # 0
      BY <2>5 DEF AddGetIndexFailed, Fault
    <3>2. \A m \in Mails : told'[m] = told[m] \/ (m[1] = e /\ m[2] \in cur[e])
      BY <2>5 DEF AddGetIndexFailed, AddReturn, TypeOK
    <3> QED BY <2>2, <3>1, <3>2 DEF ToldInv
  <2> QED BY <1>3, <2>1, <2>3, <2>4, <2>5 DEF Add
<1>4. ASSUME NEW e \in Events,
             TryAccepted(e) \/ TryRefusedAfterData(e) \/ TryFailed(e)
      PROVE  ToldInv'
  <2>1. /\ UNCHANGED told /\ acked' \in {acked, acked \ {e}}
        /\ tries' = [tries EXCEPT ![e] = Bump(@, MaxTries)]
    BY <1>4 DEF TryAccepted, TryRefusedAfterData, TryFailed, TryStalls, Dequeue
  <2>2. tries'[e] # 0 /\ \A f \in Events : f # e => tries'[f] = tries[f]
    BY <2>1, BumpedTries DEF TypeOK
  <2>3. faults' = 0 => faults = 0
    BY FaultSteps
  <2> QED BY <2>1, <2>2, <2>3 DEF ToldInv
<1>5. ASSUME NEW e \in Events, TryGiveUp(e) PROVE ToldInv'
  <2>1. /\ UNCHANGED <<told, tries>> /\ acked' = acked \ {e}
        /\ ItemView(e) # NoItem /\ ItemView(e).attempts > maxRetries
    BY <1>5 DEF TryGiveUp, TryRead, Dequeue
  <2>2. ItemView(e) \in Item /\ Charged(ItemView(e), tries[e])
    BY <2>1, ViewType DEF AttemptsInv, ItemView
  <2>3. tries[e] # 0
    BY <2>1, <2>2, RetriesNat DEF Charged, Item, TypeOK
  <2>4. faults' = 0 => faults = 0
    BY FaultSteps
  <2> QED BY <2>1, <2>3, <2>4 DEF ToldInv
<1>6. ASSUME NEW e \in Events,
             \/ TryLockItem(e) \/ TryUnreadable(e) \/ TryStalls(e) \/ Remove(e)
             \/ ProcessNext(e) \/ EvictItem(e)
      PROVE  ToldInv'
  BY <1>1, <1>6 DEF TryLockItem, TryUnreadable, TryStalls, Remove, RemoveFromIndex,
     RemoveGetIndexFailed, RemoveItem, ProcessNext, EvictItem
<1>7. CASE ProcessStart \/ ProcessStartFailed \/ ProcessEnd \/ EvictIndex \/ Crash
  BY <1>1, <1>7 DEF ProcessStart, ProcessStartFailed, ProcessEnd, EvictIndex,
                    Crash, Restart
<1>8. CASE UNCHANGED vars
  BY <1>1, <1>8 DEF vars
<1> QED
  BY <1>2, <1>3, <1>4, <1>5, <1>6, <1>7, <1>8 DEF Next, Process, Try

\* An acknowledged id is in the queue with its one recipient.
LEMMA AckedIsQueued ==
  IInv /\ RecipientsInv /\ ToldInv => QueuedMailIsKept
<1> SUFFICES ASSUME IInv, RecipientsInv, ToldInv, faults = 0,
                    NEW e \in Events, NEW r \in Rcpts,
                    told[<<e, r>>] = "queued", tries[e] = 0, To[e] = {r}
             PROVE  e \in IndexView /\ ItemView(e) # NoItem /\ ItemView(e).to = r
  BY DEF QueuedMailIsKept, MailIsQueued
<1>1. e \in acked /\ e \notin Stored
  BY DEF ToldInv
<1>2. e \in IndexView /\ ItemView(e) # NoItem
  BY <1>1 DEF IInv, AckedInv, StoreInv, Indexed, Real
<1>3. ItemView(e) \in Item
  BY <1>2, ViewType DEF IInv
<1>4. ItemView(e).to \in Rcpts /\ HasItem(e, ItemView(e).to)
  BY <1>2, <1>3 DEF HasItem, ItemView, Item
<1>5. ItemView(e).to \in To[e]
  BY <1>1, <1>4 DEF RecipientsInv
<1> QED BY <1>2, <1>5

\* Without faults, a mail of which the room was told "queued" is in the queue
\* under its own recipient until Process tries it.
THEOREM QueuedIsKept == Spec => []QueuedMailIsKept
<1>1. Init => ToldInv
  BY QueueAssumption DEF Init, ToldInv
<1>2. Spec => []AttemptsInv
  BY AttemptsInit, TypeCorrect, AttemptsNext, PTL DEF Spec
<1> QED
  BY <1>1, <1>2, Inductive, RecipientsHold, ToldNext, AckedIsQueued, PTL DEF Spec
=============================================================================
