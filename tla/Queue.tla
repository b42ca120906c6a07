------------------------------- MODULE Queue -------------------------------
(***************************************************************************)
(* The outgoing mail path of postmoogle: the goroutine that answers one    *)
(* Matrix event (`!pm send`, a thread reply) and hands each recipient to   *)
(* Bot.Sendmail, the persistent retry queue that Sendmail feeds            *)
(* (Queue.Add), and the cron job that drains it (Queue.Process, try,       *)
(* Remove).                                                                *)
(*                                                                         *)
(* The queue lives in Matrix account data: an index (queue id -> item key) *)
(* and one item per id.  The id is the Matrix event ID, so all recipients  *)
(* of one event share one item.  Account data is reached through           *)
(* linkpearl, which keeps an in-memory LRU cache in front of the           *)
(* homeserver: a write goes to the cache first and then to the API, whose  *)
(* failure leaves the two different.                                       *)
(***************************************************************************)
EXTENDS Integers

CONSTANTS
  Events,        \* Matrix events that send mail; each is also a queue id
  Rcpts,         \* mail addresses
  To,            \* To[e]: the addresses event e is sent to
  Stored,        \* ids that an earlier process has left in the queue
  HasRelay,      \* events of rooms that never unset their `relay` option
  QueueBatch,    \* the bot option queue:batch, 0 when unset
  QueueRetries,  \* the bot option queue:retries, 0 when unset
  MaxFaults,     \* bound: failed API calls plus crashes in a behaviour
  MaxDelivered,  \* bound: where the count of deliveries of a mail stops
  QueueKey,      \* the account data key of the index (acQueueKey)
  Cron,          \* the goroutine of the cron job
  Nobody,        \* holder of a free lock
  NoItem         \* an empty account data map

ASSUME QueueAssumption ==
  /\ To \in [Events -> SUBSET Rcpts]
  /\ Stored \subseteq Events /\ HasRelay \subseteq Events
  /\ QueueBatch \in Nat /\ QueueRetries \in Nat
  /\ MaxFaults \in Nat /\ MaxDelivered \in Nat
  /\ QueueKey \notin Events
  /\ Cron \notin Events /\ Nobody \notin Events /\ Cron # Nobody
  /\ NoItem \notin [to : Rcpts, attempts : Nat]

VARIABLES
  \* the goroutine of each event
  pc,         \* where it is
  todo,       \* recipients its loop has not reached yet
  cur,        \* the recipient being queued, as a set of at most one
  \* the cron goroutine
  cpc,        \* where it is
  ctodo,      \* ids of the index that its loop has not reached yet
  cid,        \* the id being tried, as a set of at most one
  ci,         \* loop counter i
  \* kit.Mutex, by key
  qmu,        \* holder of acQueueKey
  imu,        \* imu[e]: holder of the item key of e
  \* account data
  cached,     \* keys present in linkpearl's cache
  mIndex,     \* the cached index
  mItem,      \* the cached items
  sIndex,     \* the index on the homeserver
  sItem,      \* the items on the homeserver
  \* the environment and history
  faults,     \* faults so far
  delivered,  \* delivered[m]: times mail m was accepted (capped)
  told,       \* told[m]: what the room was told about mail m
  acked,      \* ids whose Add returned nil and whose item was not dequeued
  tries       \* tries[e]: sends from the queue for id e

sender == <<pc, todo, cur>>
cron   == <<cpc, ctodo, cid, ci>>
locks  == <<qmu, imu>>
store  == <<cached, mIndex, mItem, sIndex, sItem>>
hist   == <<delivered, told, acked, tries>>
vars   == <<sender, cron, locks, store, faults, hist>>

----------------------------------------------------------------------------
(* Settings *)

defaultQueueBatch   == 10
defaultQueueRetries == 100

batchSize  == IF QueueBatch = 0 THEN defaultQueueBatch ELSE QueueBatch
maxRetries == IF QueueRetries = 0 THEN defaultQueueRetries ELSE QueueRetries

----------------------------------------------------------------------------
(* Types *)

Item   == [to : Rcpts, attempts : Nat]
Mails  == Events \X Rcpts
Owners == Events \cup {Cron, Nobody}

\* The count of sends stops one past the values the properties tell apart.
MaxTries == maxRetries + 2
Bump(n, cap) == IF n < cap THEN n + 1 ELSE n

\* What an account data write can come to: done; refused, so that only the
\* cache changed; or done with the answer lost, which the caller sees as an
\* error.
Outcomes   == {"ok", "refused", "lost"}
Applied(o) == o # "refused"

TypeOK ==
  /\ pc \in [Events -> {"send", "lockItem", "setItem", "lockIndex",
                        "setIndex", "stalled", "dead"}]
  /\ todo \in [Events -> SUBSET Rcpts]
  /\ cur \in [Events -> SUBSET Rcpts]
  /\ cpc \in {"idle", "loop", "lockItem", "try", "stalled", "removeIndex",
              "removeItem"}
  /\ ctodo \subseteq Events
  /\ cid \subseteq Events
  /\ ci \in Nat
  /\ qmu \in Owners
  /\ imu \in [Events -> Owners]
  /\ cached \subseteq Events \cup {QueueKey}
  /\ mIndex \subseteq Events
  /\ mItem \in [Events -> Item \cup {NoItem}]
  /\ sIndex \subseteq Events
  /\ sItem \in [Events -> Item \cup {NoItem}]
  /\ faults \in Nat
  /\ delivered \in [Mails -> 0..MaxDelivered]
  /\ told \in [Mails -> {"nothing", "sent", "queued", "failed"}]
  /\ acked \subseteq Events
  /\ tries \in [Events -> Nat]

Init ==
  /\ pc = [e \in Events |-> IF e \in Stored THEN "dead" ELSE "send"]
  /\ todo = [e \in Events |-> IF e \in Stored THEN {} ELSE To[e]]
  /\ cur = [e \in Events |-> {}]
  /\ cpc = "idle" /\ ctodo = {} /\ cid = {} /\ ci = 0
  /\ qmu = Nobody /\ imu = [e \in Events |-> Nobody]
  /\ cached = {} /\ mIndex = {} /\ mItem = [e \in Events |-> NoItem]
  /\ sIndex = Stored
  /\ \E r \in [Stored -> Rcpts] :
       sItem = [e \in Events |-> IF e \in Stored
                                THEN [to |-> r[e], attempts |-> 0]
                                ELSE NoItem]
  /\ faults = 0
  /\ delivered = [m \in Mails |-> 0]
  /\ told = [m \in Mails |-> "nothing"]
  /\ acked = Stored /\ tries = [e \in Events |-> 0]

----------------------------------------------------------------------------
(* Account data: Linkpearl.GetAccountData and SetAccountData *)

IndexView   == IF QueueKey \in cached THEN mIndex ELSE sIndex
ItemView(e) == IF e \in cached THEN mItem[e] ELSE sItem[e]

\* A fault happens (or not) while the bound allows one.
Fault(happens) ==
  IF happens THEN faults < MaxFaults /\ faults' = faults + 1
             ELSE faults' = faults

\* Writing the index: the cache first, then the API.
SetIndex(new, o) ==
  /\ cached' = cached \cup {QueueKey}
  /\ mIndex' = new
  /\ sIndex' = IF Applied(o) THEN new ELSE sIndex
  /\ UNCHANGED <<mItem, sItem>>
  /\ Fault(o # "ok")

\* Writing the item of e.
SetItem(e, new, o) ==
  /\ cached' = cached \cup {e}
  /\ mItem' = [mItem EXCEPT ![e] = new]
  /\ sItem' = IF Applied(o) THEN [sItem EXCEPT ![e] = new] ELSE sItem
  /\ UNCHANGED <<mIndex, sIndex>>
  /\ Fault(o # "ok")

\* The cache drops the least recently used entry.  Thread bookkeeping writes
\* two entries per mail, so any entry may go at any time.
EvictIndex ==
  /\ QueueKey \in cached
  /\ cached' = cached \ {QueueKey} /\ mIndex' = {}
  /\ UNCHANGED <<sender, cron, locks, mItem, sIndex, sItem, faults, hist>>

EvictItem(e) ==
  /\ e \in cached
  /\ cached' = cached \ {e} /\ mItem' = [mItem EXCEPT ![e] = NoItem]
  /\ UNCHANGED <<sender, cron, locks, mIndex, sIndex, sItem, faults, hist>>

----------------------------------------------------------------------------
(* The goroutine of an event: the recipient loop around Bot.Sendmail *)

Told(e, r, what) == told' = [told EXCEPT ![<<e, r>>] = what]

\* The remote server accepted the mail; the room is told "sent".
SendAccepted(e, r) ==
  /\ pc[e] = "send" /\ r \in todo[e]
  /\ todo' = [todo EXCEPT ![e] = @ \ {r}]
  /\ delivered' = [delivered EXCEPT ![<<e, r>>] = Bump(@, MaxDelivered)]
  /\ Told(e, r, "sent")
  /\ UNCHANGED <<pc, cur, cron, locks, store, faults, acked, tries>>

\* The remote server refused the mail after its data.  That answer is read by
\* the deferred w.Close(), whose error Client.Send drops: it returns nil.
SendRefusedAfterData(e, r) ==
  /\ pc[e] = "send" /\ r \in todo[e]
  /\ todo' = [todo EXCEPT ![e] = @ \ {r}]
  /\ Told(e, r, "sent")
  /\ UNCHANGED <<pc, cur, cron, locks, store, faults, delivered, acked, tries>>

\* Any error that shouldQueue does not recognise: the room is told so.
SendFailed(e, r) ==
  /\ pc[e] = "send" /\ r \in todo[e]
  /\ todo' = [todo EXCEPT ![e] = @ \ {r}]
  /\ Told(e, r, "failed")
  /\ UNCHANGED <<pc, cur, cron, locks, store, faults, delivered, acked, tries>>

\* The remote server stops answering.  The client dials without a deadline,
\* so the goroutine waits for the rest of its life.
SendStalls(e, r) ==
  /\ pc[e] = "send" /\ r \in todo[e]
  /\ pc' = [pc EXCEPT ![e] = "stalled"]
  /\ UNCHANGED <<todo, cur, cron, locks, store, faults, hist>>

\* A 4xx answer: Sendmail calls Queue.Add.
SendDeferred(e, r) ==
  /\ pc[e] = "send" /\ r \in todo[e]
  /\ todo' = [todo EXCEPT ![e] = @ \ {r}]
  /\ cur' = [cur EXCEPT ![e] = {r}]
  /\ pc' = [pc EXCEPT ![e] = "lockItem"]
  /\ UNCHANGED <<cron, locks, store, faults, hist>>

\* The process dies and starts again: goroutines, locks and cache are gone.
Restart ==
  /\ pc' = [e \in Events |-> "dead"]
  /\ todo' = [e \in Events |-> {}] /\ cur' = [e \in Events |-> {}]
  /\ cpc' = "idle" /\ ctodo' = {} /\ cid' = {} /\ ci' = 0
  /\ qmu' = Nobody /\ imu' = [e \in Events |-> Nobody]
  /\ cached' = {} /\ mIndex' = {} /\ mItem' = [e \in Events |-> NoItem]
  /\ UNCHANGED <<sIndex, sItem, hist>>

\* A 4xx answer in a room without a relay: Add gets a nil *url.URL as its one
\* variadic argument and calls String on it.  In the goroutine of a Matrix
\* event nothing recovers the panic, so the process dies.  That is a fault
\* beyond the bound: no goroutine is left to repeat it.
SendDeferredNoRelay(e, r) ==
  /\ pc[e] = "send" /\ r \in todo[e] /\ e \notin HasRelay
  /\ Restart /\ faults' = faults + 1

\* The same in an autoreply, which runs in a goroutine of go-smtp: the panic
\* is recovered there, and ends this goroutine only.
SendDeferredRecovered(e, r) ==
  /\ pc[e] = "send" /\ r \in todo[e] /\ e \notin HasRelay
  /\ pc' = [pc EXCEPT ![e] = "dead"]
  /\ todo' = [todo EXCEPT ![e] = {}]
  /\ UNCHANGED <<cur, cron, locks, store, faults, hist>>

Crash ==
  /\ Fault(TRUE)
  /\ Restart

----------------------------------------------------------------------------
(* Queue.Add *)

AddLockItem(e) ==
  /\ pc[e] = "lockItem" /\ imu[e] = Nobody
  /\ imu' = [imu EXCEPT ![e] = e]
  /\ pc' = [pc EXCEPT ![e] = "setItem"]
  /\ UNCHANGED <<todo, cur, cron, qmu, store, faults, hist>>

\* Back in the recipient loop.  Sendmail has answered queued = true whatever
\* Add returned, and the loop tells the room so.
AddReturn(e) ==
  /\ pc' = [pc EXCEPT ![e] = "send"]
  /\ cur' = [cur EXCEPT ![e] = {}]
  /\ imu' = [imu EXCEPT ![e] = Nobody]
  /\ told' = [m \in Mails |->
                IF m[1] = e /\ m[2] \in cur[e] THEN "queued" ELSE told[m]]

\* Mutant: Add returns once the item is stored.
AddSetItemOnly(e) ==
  /\ pc[e] = "setItem"
  /\ \E r \in cur[e], o \in Outcomes :
       SetItem(e, [to |-> r, attempts |-> 0], o)
  /\ AddReturn(e)
  /\ UNCHANGED <<todo, cron, qmu, delivered, acked, tries>>

AddSetItem(e) ==
  /\ pc[e] = "setItem"
  /\ \E r \in cur[e], o \in Outcomes :
       /\ SetItem(e, [to |-> r, attempts |-> 0], o)
       /\ \/ /\ o = "ok"
             /\ pc' = [pc EXCEPT ![e] = "lockIndex"]
             /\ UNCHANGED <<cur, imu, told>>
          \/ /\ o # "ok"
             /\ AddReturn(e)
  /\ UNCHANGED <<todo, cron, qmu, delivered, acked, tries>>

AddLockIndex(e) ==
  /\ pc[e] = "lockIndex" /\ qmu = Nobody
  /\ qmu' = e
  /\ pc' = [pc EXCEPT ![e] = "setIndex"]
  /\ UNCHANGED <<todo, cur, cron, imu, store, faults, hist>>

\* Mutant: the index is written without the ids it already had.
AddSetIndexForgets(e) ==
  /\ pc[e] = "setIndex"
  /\ \E o \in Outcomes :
       /\ SetIndex({e}, o)
       /\ acked' = IF o = "ok" THEN acked \cup {e} ELSE acked
  /\ qmu' = Nobody
  /\ AddReturn(e)
  /\ UNCHANGED <<todo, cron, delivered, tries>>

\* Add reads the index, adds e and writes it back; then both locks are
\* released.  Nobody else touches the index meanwhile, so read and write are
\* one step.
AddSetIndex(e) ==
  /\ pc[e] = "setIndex"
  /\ \E o \in Outcomes :
       /\ SetIndex(IndexView \cup {e}, o)
       /\ acked' = IF o = "ok" THEN acked \cup {e} ELSE acked
  /\ qmu' = Nobody
  /\ AddReturn(e)
  /\ UNCHANGED <<todo, cron, delivered, tries>>

\* The index was not cached and could not be read: Add returns that error.
AddGetIndexFailed(e) ==
  /\ pc[e] = "setIndex" /\ QueueKey \notin cached
  /\ Fault(TRUE)
  /\ qmu' = Nobody
  /\ AddReturn(e)
  /\ UNCHANGED <<todo, cron, store, delivered, acked, tries>>

----------------------------------------------------------------------------
(* Queue.Process, try and Remove, run by cron every minute *)

\* Lock the queue and read the index.  The scheduler does not start a run
\* while the previous one is in flight.
ProcessStart ==
  /\ cpc = "idle" /\ qmu = Nobody
  /\ qmu' = Cron
  /\ cached' = cached \cup {QueueKey} /\ mIndex' = IndexView
  /\ cpc' = "loop" /\ ctodo' = IndexView /\ cid' = {} /\ ci' = 0
  /\ UNCHANGED <<sender, imu, mItem, sIndex, sItem, faults, hist>>

\* The index cannot be read: linkpearl returns an empty map with the error,
\* which is logged, and the loop has nothing to do.
ProcessStartFailed ==
  /\ cpc = "idle" /\ qmu = Nobody /\ QueueKey \notin cached
  /\ Fault(TRUE)
  /\ qmu' = Cron
  /\ cpc' = "loop" /\ ctodo' = {} /\ cid' = {} /\ ci' = 0
  /\ UNCHANGED <<sender, imu, store, hist>>

\* Mutant: the lock of the queue is kept after a full batch.
ProcessEndKeepsLock ==
  /\ cpc = "loop" /\ (ctodo = {} \/ ci > batchSize)
  /\ cpc' = "idle" /\ ctodo' = {} /\ cid' = {} /\ ci' = 0
  /\ qmu' = IF ctodo = {} THEN Nobody ELSE qmu
  /\ UNCHANGED <<sender, imu, store, faults, hist>>

ProcessEnd ==
  /\ cpc = "loop" /\ (ctodo = {} \/ ci > batchSize)
  /\ cpc' = "idle" /\ ctodo' = {} /\ cid' = {} /\ ci' = 0
  /\ qmu' = Nobody
  /\ UNCHANGED <<sender, imu, store, faults, hist>>

\* The next id, in the order of a Go map: any.
ProcessNext(e) ==
  /\ cpc = "loop" /\ e \in ctodo /\ ~(ci > batchSize)
  /\ ctodo' = ctodo \ {e} /\ cid' = {e}
  /\ cpc' = "lockItem"
  /\ UNCHANGED <<sender, ci, locks, store, faults, hist>>

\* try or Remove returned: i++.
LoopAgain ==
  /\ cpc' = "loop" /\ cid' = {} /\ ci' = ci + 1
  /\ UNCHANGED ctodo

TryLockItem(e) ==
  /\ cpc = "lockItem" /\ cid = {e} /\ imu[e] = Nobody
  /\ imu' = [imu EXCEPT ![e] = Cron]
  /\ cpc' = "try"
  /\ UNCHANGED <<sender, ctodo, cid, ci, qmu, store, faults, hist>>

\* The read of the item that every way through try begins with.
TryRead(e, it) ==
  /\ cpc = "try" /\ cid = {e}
  /\ it = ItemView(e)
  /\ imu' = [imu EXCEPT ![e] = Nobody]

\* The read fails, or gives an empty map whose attempts do not parse: the id
\* is not dequeued.
TryUnreadable(e) ==
  /\ cpc = "try" /\ cid = {e}
  /\ \E failed \in BOOLEAN :
       /\ IF failed THEN e \notin cached ELSE ItemView(e) = NoItem
       /\ cached' = IF failed THEN cached ELSE cached \cup {e}
       /\ Fault(failed)
  /\ UNCHANGED mItem
  /\ imu' = [imu EXCEPT ![e] = Nobody]
  /\ LoopAgain
  /\ UNCHANGED <<sender, qmu, mIndex, sIndex, sItem, hist>>

\* The remote server stops answering, as in SendStalls: try, and Process with
\* it, keeps the lock of the item and that of the queue.
TryStalls(e) ==
  /\ cpc = "try" /\ cid = {e}
  /\ \E it \in {ItemView(e)} \ {NoItem} :
       /\ ~(it.attempts > maxRetries)
       /\ cached' = cached \cup {e} /\ mItem' = [mItem EXCEPT ![e] = it]
  /\ cpc' = "stalled"
  /\ UNCHANGED <<sender, ctodo, cid, ci, locks, mIndex, sIndex, sItem, faults,
                 hist>>

\* try answers true: Process goes on to Remove.
Dequeue(e, it) ==
  /\ cached' = cached \cup {e} /\ mItem' = [mItem EXCEPT ![e] = it]
  /\ acked' = acked \ {e}
  /\ cpc' = "removeIndex"
  /\ UNCHANGED <<sender, ctodo, cid, ci, qmu, mIndex, sIndex, sItem, faults, told>>

\* Mutant: an item is given up one attempt early.
TryGiveUpEarly(e) ==
  \E it \in {ItemView(e)} \ {NoItem} :
    /\ TryRead(e, it) /\ it.attempts >= maxRetries
    /\ Dequeue(e, it)
    /\ UNCHANGED <<delivered, tries>>

TryGiveUp(e) ==
  \E it \in {ItemView(e)} \ {NoItem} :
    /\ TryRead(e, it) /\ it.attempts > maxRetries
    /\ Dequeue(e, it)
    /\ UNCHANGED <<delivered, tries>>

\* Mutant: a delivered item stays in the queue.
TryAcceptedStays(e) ==
  \E it \in {ItemView(e)} \ {NoItem} :
    /\ TryRead(e, it) /\ ~(it.attempts > maxRetries)
    /\ LoopAgain
    /\ tries' = [tries EXCEPT ![e] = Bump(@, MaxTries)]
    /\ delivered' = [delivered EXCEPT ![<<e, it.to>>] = Bump(@, MaxDelivered)]
    /\ UNCHANGED <<sender, qmu, store, faults, told, acked>>

TryAccepted(e) ==
  \E it \in {ItemView(e)} \ {NoItem} :
    /\ TryRead(e, it) /\ ~(it.attempts > maxRetries)
    /\ Dequeue(e, it)
    /\ tries' = [tries EXCEPT ![e] = Bump(@, MaxTries)]
    /\ delivered' = [delivered EXCEPT ![<<e, it.to>>] = Bump(@, MaxDelivered)]

\* As in SendRefusedAfterData.
TryRefusedAfterData(e) ==
  \E it \in {ItemView(e)} \ {NoItem} :
    /\ TryRead(e, it) /\ ~(it.attempts > maxRetries)
    /\ Dequeue(e, it)
    /\ tries' = [tries EXCEPT ![e] = Bump(@, MaxTries)]
    /\ UNCHANGED delivered

\* Mutant: the attempt count goes down.
TryFailedCountsDown(e) ==
  \E it \in {ItemView(e)} \ {NoItem}, o \in Outcomes :
    /\ TryRead(e, it) /\ ~(it.attempts > maxRetries)
    /\ SetItem(e, [it EXCEPT !.attempts = 0 - 1], o)
    /\ tries' = [tries EXCEPT ![e] = Bump(@, MaxTries)]
    /\ LoopAgain
    /\ UNCHANGED <<sender, qmu, delivered, told, acked>>

\* Mutant: an attempt is charged without the limit being checked.
TryFailedUnlimited(e) ==
  \E it \in {ItemView(e)} \ {NoItem}, o \in Outcomes :
    /\ TryRead(e, it)
    /\ SetItem(e, [it EXCEPT !.attempts = @ + 1], o)
    /\ tries' = [tries EXCEPT ![e] = Bump(@, MaxTries)]
    /\ LoopAgain
    /\ UNCHANGED <<sender, qmu, delivered, told, acked>>

\* Any error, a permanent one too, costs one attempt; a failed write of the
\* new count is only logged.
TryFailed(e) ==
  \E it \in {ItemView(e)} \ {NoItem}, o \in Outcomes :
    /\ TryRead(e, it) /\ ~(it.attempts > maxRetries)
    /\ SetItem(e, [it EXCEPT !.attempts = @ + 1], o)
    /\ tries' = [tries EXCEPT ![e] = Bump(@, MaxTries)]
    /\ LoopAgain
    /\ UNCHANGED <<sender, qmu, delivered, told, acked>>

\* Mutant: Remove goes on to the item when the index could not be written.
RemoveFromIndexGoesOn(e) ==
  /\ cpc = "removeIndex" /\ cid = {e}
  /\ \E o \in Outcomes : SetIndex(IndexView \ {e}, o)
  /\ cpc' = "removeItem"
  /\ UNCHANGED <<sender, ctodo, cid, ci, locks, hist>>

\* Remove: the index first.  An error here ends Remove.
RemoveFromIndex(e) ==
  /\ cpc = "removeIndex" /\ cid = {e}
  /\ \E o \in Outcomes :
       /\ SetIndex(IndexView \ {e}, o)
       /\ \/ /\ o = "ok" /\ cpc' = "removeItem"
             /\ UNCHANGED <<ctodo, cid, ci>>
          \/ /\ o # "ok" /\ LoopAgain
  /\ UNCHANGED <<sender, locks, hist>>

RemoveGetIndexFailed(e) ==
  /\ cpc = "removeIndex" /\ cid = {e} /\ QueueKey \notin cached
  /\ Fault(TRUE)
  /\ LoopAgain
  /\ UNCHANGED <<sender, locks, store, hist>>

\* Then the item, under its lock, is overwritten with an empty map.
RemoveItem(e) ==
  /\ cpc = "removeItem" /\ cid = {e} /\ imu[e] = Nobody
  /\ \E o \in Outcomes : SetItem(e, NoItem, o)
  /\ LoopAgain
  /\ UNCHANGED <<sender, locks, hist>>

----------------------------------------------------------------------------
Send(e) ==
  \E r \in Rcpts :
    \/ SendAccepted(e, r)
    \/ SendRefusedAfterData(e, r)
    \/ SendFailed(e, r)
    \/ SendStalls(e, r)
    \/ SendDeferred(e, r)
    \/ SendDeferredNoRelay(e, r)
    \/ SendDeferredRecovered(e, r)

Add(e) ==
  \/ AddLockItem(e)
  \/ AddSetItem(e)
  \/ AddLockIndex(e)
  \/ AddSetIndex(e)
  \/ AddGetIndexFailed(e)

Try(e) ==
  \/ TryLockItem(e)
  \/ TryUnreadable(e)
  \/ TryGiveUp(e)
  \/ TryAccepted(e)
  \/ TryRefusedAfterData(e)
  \/ TryFailed(e)
  \/ TryStalls(e)

Remove(e) ==
  \/ RemoveFromIndex(e)
  \/ RemoveGetIndexFailed(e)
  \/ RemoveItem(e)

Process ==
  \/ ProcessStart
  \/ ProcessStartFailed
  \/ ProcessEnd
  \/ \E e \in Events : ProcessNext(e) \/ Try(e) \/ Remove(e)

Next ==
  \/ \E e \in Events : Send(e) \/ Add(e) \/ EvictItem(e)
  \/ Process
  \/ EvictIndex
  \/ Crash

Spec == Init /\ [][Next]_vars

\* A goroutine that can run is run; a sync.Mutex hands itself to a waiter
\* that has waited too long, so a lock that keeps becoming free is had in the
\* end; and the cron ticker fires every minute.  Remote servers may stop
\* answering (SendStalls, TryStalls); faults and the cache promise nothing.
Fairness ==
  /\ \A e \in Events \ Stored : WF_vars(Send(e)) /\ SF_vars(Add(e))
  /\ SF_vars(Process)

FairSpec == Spec /\ Fairness

----------------------------------------------------------------------------
(* Properties *)

\* An id of the index always has an item behind it, on the homeserver and as
\* the process sees it: Add writes the item before the index, Remove the index
\* before the item, and both hold the locks that keep a half-done Remove from
\* meeting a half-done Add.  An indexed id without an item could never be
\* tried nor dequeued ("cannot parse attempts", every minute, forever).
IndexedIdsHaveItems ==
  /\ \A e \in sIndex : sItem[e] # NoItem
  /\ \A e \in IndexView : ItemView(e) # NoItem

\* Once Queue.Add has returned nil for an id, its index entry and its item are
\* on the homeserver, and the process sees both, until try answers true for
\* it - whatever other goroutines add or remove, whatever the cache evicts,
\* and through any crash.
AckedIsDurable ==
  \A e \in acked :
    /\ e \in sIndex /\ e \in IndexView
    /\ sItem[e] # NoItem /\ ItemView(e) # NoItem

\* An item is never charged an attempt that was not made, so Process never
\* gives an item up before it has sent it maxRetries + 1 times; and no item is
\* charged more than that.
AttemptsAreTries ==
  \A e \in Events : \A it \in {sItem[e], mItem[e]} \ {NoItem} :
    it.attempts <= tries[e] /\ it.attempts <= maxRetries + 1

\* A mail is accepted by the remote server once, plus at most once more for
\* each fault: however its send, its queueing and the runs of Process
\* interleave, only a crash or a failed account data call between the
\* delivery and Remove can repeat it, and each repeats it once.
DuplicatesNeedFaults ==
  \A m \in Mails : delivered[m] <= 1 + faults

MailIsQueued(m) ==
  /\ m[1] \in IndexView
  /\ ItemView(m[1]) # NoItem /\ ItemView(m[1]).to = m[2]

\* Without faults, a mail of which the room was told "queued" is in the queue,
\* under its own recipient, until Process tries it; for an event with one
\* recipient, because those of one event share one item.
QueuedMailIsKept ==
  faults = 0 => \A m \in Mails :
    told[m] = "queued" /\ tries[m[1]] = 0 /\ To[m[1]] = {m[2]}
      => MailIsQueued(m)

\* The lock of the queue is taken under the lock of an item by Add and the
\* other way round by Process; every id that Add has queued is nevertheless
\* dequeued in the end, and so the queue becomes empty again and again - or
\* Process waits for a server that has stopped answering, for ever.  Nothing
\* else holds the queue up.
QueueDrains ==
  []<>(acked = {}) \/ <>[](cpc = "stalled")

\* The sends that id e is due before Process may give it up.
Due(e) == IF tries[e] > maxRetries THEN 0 ELSE maxRetries + 1 - tries[e]

D == INSTANCE Delivery WITH
       Ids <- Events, Limit <- maxRetries,
       queue <- acked, left <- [e \in Events |-> Due(e)]

\* The locks, the cache, the two account data writes of Add and of Remove and
\* the crashes between them implement the queue of Delivery: an id that Add
\* has acknowledged leaves the queue by a send, or after maxRetries + 1 sends.
Delivers == D!Spec

----------------------------------------------------------------------------
(* The inductive invariant behind IndexedIdsHaveItems and AckedIsDurable *)

\* Who is where holds which lock.
LockInv ==
  /\ \A e \in Events :
       /\ pc[e] \in {"setItem", "lockIndex", "setIndex"} => imu[e] = e
       /\ pc[e] = "setIndex" => qmu = e
  /\ cpc # "idle" => qmu = Cron
  /\ cpc \in {"try", "stalled"} => \A e \in cid : imu[e] = Cron

Indexed == sIndex \cup IndexView
Real(e) == sItem[e] # NoItem /\ ItemView(e) # NoItem

\* What is indexed, or about to be, is backed by an item; what is about to
\* lose its item is indexed nowhere.
StoreInv ==
  /\ \A e \in Indexed : Real(e)
  /\ \A e \in Events : pc[e] \in {"lockIndex", "setIndex"} => Real(e)
  /\ cpc = "removeItem" => cid \cap Indexed = {}

\* What Add has acknowledged is indexed on both sides of the cache, and what
\* is being dequeued is no longer acknowledged.
AckedInv ==
  /\ acked \subseteq sIndex \cap IndexView
  /\ cpc \in {"removeIndex", "removeItem"} => cid \cap acked = {}

IInv == TypeOK /\ LockInv /\ StoreInv /\ AckedInv
=============================================================================
