--------------------------- MODULE ThreadsProofs ---------------------------
(***************************************************************************)
(* Proofs about Threads for any Message-IDs and options, any number of     *)
(* events, faults, refusals of the homeserver and removed events; the      *)
(* theorems about conversations state what they need of the rooms and the  *)
(* correspondents.                                                         *)
(***************************************************************************)
EXTENDS Threads, FiniteSetTheorems, WellFoundedInduction, TLAPS

USE DEF Events, NoEvent

----------------------------------------------------------------------------
(* Types *)

\* The events of the handler in hand fit in the room.
FitsInv ==
  /\ job.at = "post" => n + 3 <= MaxEvents
  /\ job.at \in {"note", "body"} => n + 2 <= MaxEvents
  /\ job.at \in {"autoreply", "notice"} => n + 1 <= MaxEvents

\* What the handler has in hand where it is.
JobInv ==
  /\ job.at \in {"post", "note", "body", "autoreply"} => job.mail \in Mail
  /\ job.at = "note" /\ job.thread # NoEvent => job.event \in 1..n
  /\ job.at \in {"notice", "save"} =>
       job.out \in Sent /\ job.thread \in Events /\ job.event \in 1..n

TypeInv == TypeOK /\ FitsInv /\ JobInv

\* Message-IDs of the bridge are Message-IDs.
LEMMA OurIds ==
  ASSUME NEW e \in Events, NEW d \in Domains
  PROVE  MessageID(e, d) \in Ids /\ AutoreplyID(e, d) \in Ids
  BY DEF MessageID, AutoreplyID, Ids, Ours

\* A set of numbers that is not empty has a least one.
LEMMA Least ==
  ASSUME NEW S \in SUBSET Nat, S # {}
  PROVE  \E k \in S : \A l \in S : k <= l
<1>1. PICK k \in S : \A l \in S : ~ (<<l, k>> \in OpToRel(<, Nat))
  BY NatLessThanWellFounded, WFMin
<1>2. \A l \in S : ~ (l < k)
  BY <1>1 DEF OpToRel
<1> QED BY <1>2

\* The Message-IDs that getThreadID looks up, and whether the k-th of them leads
\* to an event that is there.
Lookups(irt, refs) == <<irt>> \o refs
Hit(ids, failed, k) == ids[k] \notin failed /\ GetEvent(tid[ids[k]])

\* getThreadID answers with no thread when none of the IDs leads to an event
\* that is there, and with the thread of the first that does when one does.
LEMMA ThreadIDFirst ==
  ASSUME NEW irt \in Ids, NEW refs \in Seq(Ids), NEW failed, NEW ids,
         ids = Lookups(irt, refs)
  PROVE  \/ /\ getThreadID(irt, refs, failed) = NoEvent
            /\ \A k \in 1..Len(ids) : ~Hit(ids, failed, k)
         \/ \E k \in 1..Len(ids) :
              /\ Hit(ids, failed, k)
              /\ \A l \in 1..(k - 1) : ~Hit(ids, failed, l)
              /\ getThreadID(irt, refs, failed) = tid[ids[k]]
<1> DEFINE hits == {k \in 1..Len(ids) : Hit(ids, failed, k)}
           k0 == CHOOSE k \in hits : \A l \in hits : k <= l
<1>1. getThreadID(irt, refs, failed) = IF hits = {} THEN NoEvent ELSE tid[ids[k0]]
  BY DEF getThreadID, Lookups, Hit
<1>2. ids \in Seq(Ids) /\ Len(ids) \in Nat
  BY DEF Lookups
<1>3. CASE hits = {}
  BY <1>1, <1>3
<1>4. CASE hits # {}
  <2>1. hits \in SUBSET Nat
    BY <1>2
  <2>2. k0 \in hits /\ \A l \in hits : k0 <= l
    BY <2>1, <1>4, Least
  <2> HIDE DEF k0
  <2>3. Hit(ids, failed, k0) /\ k0 \in 1..Len(ids)
    BY <2>2
  <2>4. \A l \in 1..(k0 - 1) : ~Hit(ids, failed, l)
    BY <2>2, <2>3, <1>2
  <2>5. getThreadID(irt, refs, failed) = tid[ids[k0]]
    BY <1>1, <1>4
  <2> QED BY <2>3, <2>4, <2>5
<1> QED BY <1>3, <1>4

\* getThreadID answers with an event of the room, or with none.
LEMMA ThreadIDType ==
  ASSUME TypeOK, NEW irt \in Ids, NEW refs \in Seq(Ids), NEW failed
  PROVE  getThreadID(irt, refs, failed) \in 0..n
<1> DEFINE ids == Lookups(irt, refs)
<1>1. n \in Nat
  BY DEF TypeOK
<1> HIDE DEF ids
<1>2. \/ getThreadID(irt, refs, failed) = NoEvent
      \/ \E k \in 1..Len(ids) : /\ Hit(ids, failed, k)
                                /\ getThreadID(irt, refs, failed) = tid[ids[k]]
  BY ThreadIDFirst DEF ids
<1> QED BY <1>1, <1>2 DEF GetEvent, Hit

\* The mails that arrive are mails.
LEMMA ArrivingType ==
  ASSUME TypeOK
  PROVE  Arriving \subseteq Mail
<1>1. NewIds \subseteq Ids /\ NoId \in Ids
  BY DEF NewIds, Ids
<1>2. unanswered \subseteq Mail
  BY DEF TypeOK
<1>3. ASSUME NEW m \in NewIds, NEW d \in Domains
      PROVE  [id |-> m, irt |-> NoId, refs |-> <<>>, domain |-> d,
              parent |-> NoId] \in Mail
  BY <1>1 DEF Mail
<1>4. ASSUME NEW m \in NewIds, NEW p \in world, NEW style \in Styles
      PROVE  [id |-> m, irt |-> Headers(p, style).irt,
              refs |-> Headers(p, style).refs, domain |-> p.domain,
              parent |-> p.id] \in Mail
  <2>1. p.id \in Ids /\ p.refs \in Seq(Ids) /\ p.domain \in Domains
    BY DEF TypeOK, Sent
  <2>2. Headers(p, style).irt \in Ids
    BY <1>1, <2>1 DEF Headers
  <2>3. Headers(p, style).refs \in Seq(Ids)
    BY <1>1, <2>1 DEF Headers
  <2> QED BY <1>1, <2>1, <2>2, <2>3 DEF Mail
<1> QED BY <1>2, <1>3, <1>4 DEF Arriving

\* A mail that continues a parent is a mail, and its last reference is its own
\* ID.
LEMMA ContinueType ==
  ASSUME TypeOK, NEW p, HasParent(p), NEW id \in Ids
  PROVE  /\ p \in 1..n /\ p \in Events /\ meta[p] # NoMeta /\ meta[p] \in Meta
         /\ meta[p].domain \in Domains
         /\ Continue(p, id) \in Sent
         /\ Continue(p, id).id = id
         /\ Continue(p, id).domain = meta[p].domain
<1>1. p \in 1..n /\ meta[p] # NoMeta
  BY DEF HasParent, GetEvent
<1>a. p \in Events
  BY <1>1, ThreadsAssumption DEF TypeOK
<1>2. meta[p] \in Meta
  BY <1>1, <1>a DEF TypeOK
<1>3. meta[p].refs \in Seq(Ids) /\ meta[p].domain \in Domains
  BY <1>2 DEF Meta
<1>4. MessageID(p, meta[p].domain) \in Ids
  BY <1>a, <1>3, OurIds
<1> DEFINE refs == IF meta[p].refs = <<>> THEN <<MessageID(p, meta[p].domain)>>
                   ELSE meta[p].refs
<1>5. refs \in Seq(Ids)
  BY <1>3, <1>4
<1>6. Continue(p, id) = [id |-> id, refs |-> Append(refs, id),
                         domain |-> meta[p].domain]
  BY DEF Continue
<1> HIDE DEF refs
<1>7. Append(refs, id) \in Seq(Ids)
  BY <1>5
<1> QED BY <1>1, <1>a, <1>2, <1>3, <1>6, <1>7 DEF Sent

\* The domain of an event with headers.
LEMMA ParentDomain ==
  ASSUME TypeOK, NEW p, HasParent(p)
  PROVE  p \in 1..n /\ p \in Events /\ meta[p] \in Meta /\ meta[p].domain \in Domains
<1>1. p \in 1..n /\ meta[p] # NoMeta
  BY DEF HasParent, GetEvent
<1>2. p \in Events
  BY <1>1, ThreadsAssumption DEF TypeOK
<1>3. meta[p] \in Meta
  BY <1>1, <1>2 DEF TypeOK
<1> QED BY <1>1, <1>2, <1>3 DEF Meta

\* Faults stay within their bound.
LEMMA FaultType ==
  ASSUME TypeOK, NEW fails, FaultIf(fails)
  PROVE  faults' \in 0..MaxFaults
<1> QED BY ThreadsAssumption DEF TypeOK, FaultIf, Fault

\* What is noted of some IDs, which the homeserver may refuse for some of them.
LEMMA NotedType ==
  ASSUME TypeOK, NEW ids \in SUBSET Ids, NEW refused \in SUBSET ids,
         NEW t \in Events \cup {NoEvent}, setThreadID(ids, t, refused)
  PROVE  /\ tid' \in [Ids -> Events \cup {NoEvent}]
         /\ acTid' \in [Ids -> Events \cup {NoEvent}]
         /\ unnoted' \subseteq Ids
         /\ \A i \in Ids : i \notin ids =>
              /\ tid'[i] = tid[i] /\ acTid'[i] = acTid[i]
              /\ i \in unnoted' <=> i \in unnoted
         /\ \A i \in ids : /\ tid'[i] = t
                           /\ i \in unnoted' <=> i \in refused
                           /\ acTid'[i] = IF i \in refused THEN acTid[i] ELSE t
<1>1. /\ tid' = [i \in Ids |-> IF i \in ids THEN t ELSE tid[i]]
      /\ acTid' = [i \in Ids |-> IF i \in ids \ refused THEN t ELSE acTid[i]]
      /\ unnoted' = (unnoted \ ids) \cup refused
  BY DEF setThreadID
<1>2. \A i \in ids : i \in Ids
  OBVIOUS
<1> QED BY <1>1, <1>2 DEF TypeOK

\* The last event of a thread that is noted, or refused by the homeserver.
LEMMA LastNoted ==
  ASSUME TypeOK, NEW t \in Events, NEW e \in Events, NEW refused,
         setLastEventID(t, e, refused)
  PROVE  /\ last' \in [Events -> Events \cup {NoEvent}]
         /\ acLast' \in [Events -> Events \cup {NoEvent}]
         /\ \A s \in Events : last'[s] = IF s = t THEN e ELSE last[s]
         /\ \A s \in Events : acLast'[s] = IF s = t /\ ~refused THEN e ELSE acLast[s]
<1> QED BY DEF setLastEventID, TypeOK

----------------------------------------------------------------------------
(* Types are kept *)

\* Initially.
LEMMA TypeInit == Init => TypeInv
<1> SUFFICES ASSUME Init PROVE TypeInv
  OBVIOUS
<1>1. world \subseteq Sent
  <2>1. <<>> \in Seq(Ids) /\ Foreign \subseteq Ids
    BY DEF Ids
  <2> QED BY <2>1 DEF Init, Sent
<1>2. job \in Job
  BY DEF Init, Job, Idle
<1>3. TypeOK
  BY <1>1, <1>2, ThreadsAssumption DEF Init, TypeOK
<1> QED BY <1>3 DEF Init, TypeInv, FitsInv, JobInv, Idle

\* The Message-IDs in `failed` are not looked up, thread t is found, and the
\* homeserver may refuse to note it.
Finds(mail, failed, refused, t) ==
  /\ FaultIf(failed # {} \/ refused # {})
  /\ refused \in SUBSET {mail.id}
  /\ t = IF mail.irt = NoId /\ mail.refs = <<>> THEN NoEvent
         ELSE getThreadID(mail.irt, mail.refs, failed)
  /\ IF t # NoEvent THEN setThreadID({mail.id}, t, refused)
     ELSE refused = {} /\ UNCHANGED threads
  /\ job' = [Idle EXCEPT !.at = "post", !.mail = mail, !.thread = t,
                         !.new = (t = NoEvent), !.blind = Blind(mail, failed)]

\* What IncomingEmail does with a mail.
LEMMA IncomingFinds ==
  ASSUME NEW mail, IncomingEmail(mail)
  PROVE  \E failed, refused, t : Finds(mail, failed, refused, t)
<1> DEFINE found(failed) == IF mail.irt = NoId /\ mail.refs = <<>> THEN NoEvent
                            ELSE getThreadID(mail.irt, mail.refs, failed)
<1>1. \E failed, refused : Finds(mail, failed, refused, found(failed))
  BY Zenon DEF IncomingEmail, Finds
<1> HIDE DEF found
<1> QED BY <1>1

\* What is noted when a mail comes in.
LEMMA FoundNoted ==
  ASSUME TypeOK, NEW mail \in Mail, NEW failed, NEW refused,
         NEW t \in Events \cup {NoEvent}, Finds(mail, failed, refused, t)
  PROVE  /\ tid' \in [Ids -> Events \cup {NoEvent}]
         /\ acTid' \in [Ids -> Events \cup {NoEvent}]
         /\ unnoted' \subseteq Ids
         /\ \A i \in Ids : i # mail.id => /\ tid'[i] = tid[i] /\ acTid'[i] = acTid[i]
                                          /\ i \in unnoted' <=> i \in unnoted
         /\ t # NoEvent => tid'[mail.id] = t
         /\ t = NoEvent => tid' = tid /\ acTid' = acTid /\ unnoted' = unnoted
<1>1. mail.id \in Ids /\ {mail.id} \in SUBSET Ids /\ refused \in SUBSET {mail.id}
  BY DEF Mail, Finds
<1>2. CASE t = NoEvent
  <2>1. tid' = tid /\ acTid' = acTid /\ unnoted' = unnoted
    BY <1>2 DEF Finds, threads
  <2> QED BY <1>2, <2>1 DEF TypeOK
<1>3. CASE t # NoEvent
  <2>1. setThreadID({mail.id}, t, refused)
    BY <1>3 DEF Finds
  <2> QED BY <1>1, <1>3, <2>1, NotedType
<1> QED BY <1>2, <1>3

\* A mail comes in.
LEMMA TypeIncoming ==
  ASSUME TypeInv, NEW mail \in Arriving, IncomingEmail(mail)
  PROVE  TypeInv'
<1>1. mail \in Mail
  BY ArrivingType DEF TypeInv
<1>2. mail.id \in Ids /\ mail.irt \in Ids /\ mail.refs \in Seq(Ids)
  BY <1>1 DEF Mail
<1>f. PICK failed, refused, t : Finds(mail, failed, refused, t)
  BY IncomingFinds
<1>3. /\ FaultIf(failed # {} \/ refused # {})
      /\ t = IF mail.irt = NoId /\ mail.refs = <<>> THEN NoEvent
             ELSE getThreadID(mail.irt, mail.refs, failed)
      /\ job' = [Idle EXCEPT !.at = "post", !.mail = mail, !.thread = t,
                             !.new = (t = NoEvent), !.blind = Blind(mail, failed)]
  BY <1>f DEF Finds
<1>4. n \in 0..MaxEvents /\ n + 3 <= MaxEvents
  BY ThreadsAssumption DEF TypeInv, TypeOK, IncomingEmail, Fits
<1>5. t \in 0..n
  BY <1>2, <1>3, <1>4, ThreadIDType DEF TypeInv
<1>6. t \in Events \cup {NoEvent}
  BY <1>4, <1>5, ThreadsAssumption
<1>b. Blind(mail, failed) \in BOOLEAN
  BY Zenon DEF Blind
<1>7. job' \in Job
  BY <1>1, <1>3, <1>6, <1>b DEF Job, Idle
<1>8. /\ tid' \in [Ids -> Events \cup {NoEvent}]
      /\ acTid' \in [Ids -> Events \cup {NoEvent}]
      /\ unnoted' \subseteq Ids
  BY <1>1, <1>6, <1>f, FoundNoted DEF TypeInv
<1>9. faults' \in 0..MaxFaults
  BY <1>3, FaultType DEF TypeInv
<1>10. TypeOK'
  BY <1>1, <1>7, <1>8, <1>9 DEF TypeInv, TypeOK, IncomingEmail, room, lasts
<1>11. /\ job'.at = "post" /\ job'.mail = mail /\ job'.thread = t /\ n' = n
  BY <1>3 DEF Idle, IncomingEmail, room
<1> QED BY <1>1, <1>4, <1>5, <1>10, <1>11 DEF TypeInv, FitsInv, JobInv

\* An event is added to the room.
LEMMA TypeAdd ==
  ASSUME TypeOK, n + 1 <= MaxEvents, NEW h \in Meta \cup {NoMeta}, Add(n + 1, h)
  PROVE  /\ n' = n + 1 /\ n' \in Events /\ n \in 0..n' /\ removed \subseteq 1..n'
         /\ meta' \in [Events -> Meta \cup {NoMeta}]
         /\ meta' = [meta EXCEPT ![n + 1] = h]
<1>1. n \in Nat /\ n' = n + 1 /\ n' \in Events
  BY ThreadsAssumption DEF TypeOK, Add
<1>2. removed \subseteq 1..n'
  BY <1>1 DEF TypeOK
<1>3. meta' \in [Events -> Meta \cup {NoMeta}] /\ meta' = [meta EXCEPT ![n + 1] = h]
  BY DEF TypeOK, Add
<1> QED BY <1>1, <1>2, <1>3

\* The mail in hand is posted.
LEMMA TypePost == ASSUME TypeInv, Post PROVE TypeInv'
<1> DEFINE e == n + 1
           t == IF job.thread = NoEvent THEN e ELSE job.thread
           h == [thread |-> t, id |-> job.mail.id, refs |-> job.mail.refs,
                 domain |-> job.mail.domain]
<1>1. job.mail \in Mail /\ n + 3 <= MaxEvents /\ n \in Nat
  BY DEF TypeInv, FitsInv, JobInv, TypeOK, Post
<1>2. t \in Events /\ e \in Events
  BY <1>1, ThreadsAssumption DEF TypeInv, TypeOK, Job
<1>3. h \in Meta
  BY <1>1, <1>2 DEF Meta, Mail
<1>4. Add(e, h) /\ job' = [job EXCEPT !.at = "note", !.thread = t, !.event = e]
  BY DEF Post
<1>b. n + 1 <= MaxEvents
  BY <1>1, ThreadsAssumption
<1> HIDE DEF h, t
<1>5. /\ n' = n + 1 /\ n' \in Events /\ removed \subseteq 1..n'
      /\ meta' \in [Events -> Meta \cup {NoMeta}]
  BY <1>b, <1>3, <1>4, TypeAdd DEF TypeInv
<1>6. job' \in Job /\ job'.at = "note" /\ job'.mail = job.mail /\ job'.event = n'
  BY <1>2, <1>4, <1>5 DEF TypeInv, TypeOK, Job
<1>7. TypeOK'
  BY <1>5, <1>6 DEF TypeInv, TypeOK, Post, notes, threads, lasts, bounds
<1> QED BY <1>1, <1>5, <1>6, <1>7 DEF TypeInv, FitsInv, JobInv

\* The homeserver refuses the mail, or does not answer.
LEMMA TypePostFailed ==
  ASSUME TypeInv, PostUnknown \/ PostFailed
  PROVE  TypeInv'
<1>1. CASE PostUnknown
  <2>1. job' \in Job
    BY <1>1 DEF PostUnknown, TypeInv, TypeOK, Job
  <2>2. unknown' \in 0..MaxUnknown
    BY <1>1, ThreadsAssumption DEF PostUnknown, TypeInv, TypeOK
  <2>3. TypeOK'
    BY <1>1, <2>1, <2>2 DEF PostUnknown, TypeInv, TypeOK, room, notes, threads, lasts
  <2>4. /\ job.at = "post" /\ job'.at = "note" /\ job'.mail = job.mail
        /\ job'.thread = NoEvent /\ n' = n /\ n \in Nat
    BY <1>1 DEF PostUnknown, TypeInv, TypeOK, Job, room
  <2> QED BY <2>3, <2>4, ThreadsAssumption DEF TypeInv, FitsInv, JobInv
<1>2. CASE PostFailed
  <2>1. job' \in Job /\ job'.at = "idle"
    BY <1>2 DEF PostFailed, Job, Idle
  <2>2. faults' \in 0..MaxFaults
    BY <1>2, ThreadsAssumption DEF PostFailed, TypeInv, TypeOK, Fault
  <2>3. TypeOK'
    BY <1>2, <2>1, <2>2 DEF PostFailed, TypeInv, TypeOK, room, notes, threads, lasts
  <2> QED BY <2>1, <2>3 DEF TypeInv, FitsInv, JobInv
<1> QED BY <1>1, <1>2

\* The mail in hand is noted, its body is posted.
LEMMA TypeNoteBody ==
  ASSUME TypeInv, Note \/ Body
  PROVE  TypeInv'
<1>1. CASE Note
  <2>1. job' \in Job /\ job.at = "note" /\ job'.at = "body" /\ job'.mail = job.mail
    BY <1>1 DEF Note, TypeInv, TypeOK, Job
  <2>2. job.thread \in Events \cup {NoEvent} /\ job.mail.id \in Ids
    BY <2>1 DEF TypeInv, TypeOK, Job, JobInv, Mail
  <2>3. PICK refused \in SUBSET {job.mail.id}, lost \in BOOLEAN :
          /\ FaultIf(refused # {} \/ lost)
          /\ setThreadID({job.mail.id}, job.thread, refused)
          /\ IF job.thread # NoEvent THEN setLastEventID(job.thread, job.event, lost)
             ELSE ~lost /\ UNCHANGED lasts
    BY <1>1 DEF Note
  <2>4. /\ tid' \in [Ids -> Events \cup {NoEvent}]
        /\ acTid' \in [Ids -> Events \cup {NoEvent}]
        /\ unnoted' \subseteq Ids
    BY <2>2, <2>3, NotedType DEF TypeInv
  <2>5. /\ last' \in [Events -> Events \cup {NoEvent}]
        /\ acLast' \in [Events -> Events \cup {NoEvent}]
    <3>1. CASE job.thread # NoEvent
      <4>1. job.event \in Events /\ job.thread \in Events
        BY <2>1, <2>2, <3>1, ThreadsAssumption DEF TypeInv, TypeOK, JobInv
      <4>2. setLastEventID(job.thread, job.event, lost)
        BY <2>3, <3>1
      <4> QED BY <4>1, <4>2, LastNoted DEF TypeInv
    <3>2. CASE job.thread = NoEvent
      BY <2>3, <3>2 DEF lasts, TypeInv, TypeOK
    <3> QED BY <3>1, <3>2
  <2>6. faults' \in 0..MaxFaults
    BY <2>3, FaultType DEF TypeInv
  <2>7. TypeOK'
    BY <1>1, <2>1, <2>4, <2>5, <2>6 DEF Note, TypeInv, TypeOK, room
  <2>8. n' = n
    BY <1>1 DEF Note, room
  <2> QED BY <2>1, <2>7, <2>8 DEF TypeInv, FitsInv, JobInv
<1>2. CASE Body
  <2>1. /\ job' \in Job /\ job.at = "body" /\ job'.at = "autoreply"
        /\ job'.mail = job.mail
    BY <1>2 DEF Body, TypeInv, TypeOK, Job
  <2>2. n \in Nat /\ n + 2 <= MaxEvents /\ n + 1 <= MaxEvents
    BY <2>1, ThreadsAssumption DEF TypeInv, TypeOK, FitsInv
  <2>3. /\ n' \in Events \cup {NoEvent} /\ n' + 1 <= MaxEvents /\ removed \subseteq 1..n'
        /\ meta' \in [Events -> Meta \cup {NoMeta}]
    <3>1. CASE job.new /\ Threadify
      <4>1. Add(n + 1, NoMeta)
        BY <1>2, <3>1 DEF Body
      <4> QED BY <2>2, <4>1, TypeAdd DEF TypeInv
    <3>2. CASE ~(job.new /\ Threadify)
      <4>1. n' = n /\ meta' = meta
        BY <1>2, <3>2 DEF Body
      <4> QED BY <2>2, <4>1 DEF TypeInv, TypeOK
    <3> QED BY <3>1, <3>2
  <2>4. TypeOK'
    BY <1>2, <2>1, <2>3 DEF Body, TypeInv, TypeOK, notes, threads, lasts, bounds
  <2> QED BY <2>1, <2>3, <2>4 DEF TypeInv, FitsInv, JobInv
<1> QED BY <1>1, <1>2

\* The handler returns.
LEMMA TypeFinish ==
  ASSUME TypeOK, NEW h \in [Ids -> Events \cup {NoEvent}], Finish(h)
  PROVE  /\ job' = Idle /\ job' \in Job /\ job'.at = "idle"
         /\ unanswered' \subseteq Mail /\ world' \subseteq Sent
         /\ home' \in [Ids -> Events \cup {NoEvent}]
<1>1. job' = Idle /\ job' \in Job /\ job'.at = "idle"
  BY DEF Finish, Job, Idle
<1>2. job.mail \in Mail \cup {NoMail} /\ job.thread \in Events \cup {NoEvent}
  BY DEF TypeOK, Job
<1>3. CASE job.mail = NoMail
  BY <1>1, <1>3 DEF Finish, TypeOK
<1>4. CASE job.mail # NoMail
  <2>1. AsSent(job.mail) \in Sent
    BY <1>2, <1>4 DEF AsSent, Sent, Mail
  <2>2. unanswered' = unanswered \ {job.mail} /\ world' = world \cup {AsSent(job.mail)}
    BY <1>4 DEF Finish
  <2>3. home' \in [Ids -> Events \cup {NoEvent}]
    BY <1>2, <1>4 DEF Finish
  <2> QED BY <1>1, <2>1, <2>2, <2>3 DEF TypeOK
<1> QED BY <1>3, <1>4

\* The autoreply leaves, for parent p.
AutoLeaves(p) ==
  /\ ParentIs(job.thread, p) /\ HasParent(p)
  /\ LET m == Continue(p, AutoreplyID(job.thread, meta[p].domain))
     IN /\ job' = [job EXCEPT !.at = "notice", !.event = job.thread, !.out = m]
        /\ world' = world \cup {m}

LEMMA AutoreplyLeaves ==
  ASSUME SendAutoreply
  PROVE  /\ \E p \in Events : AutoLeaves(p)
         /\ job.at = "autoreply" /\ job.new /\ Autoreply /\ GetEvent(job.thread)
         /\ room' = room /\ notes' = notes /\ unknown' = unknown
         /\ unanswered' = unanswered /\ home' = home
<1>1. \E p \in Events : AutoLeaves(p)
  BY Zenon DEF SendAutoreply, AutoLeaves
<1>2. /\ job.at = "autoreply" /\ job.new /\ Autoreply /\ GetEvent(job.thread)
      /\ room' = room /\ notes' = notes /\ unknown' = unknown
      /\ unanswered' = unanswered /\ home' = home
  BY Zenon DEF SendAutoreply
<1> QED BY <1>1, <1>2, Zenon

\* Where the handler is then, and what is out.
LEMMA AutoreplyOut ==
  ASSUME job \in Job, SendAutoreply
  PROVE  /\ job'.at = "notice" /\ job'.thread = job.thread /\ job'.mail = job.mail
         /\ job'.event = job.thread /\ job'.blind = job.blind /\ job'.new = job.new
         /\ world' = world \cup {job'.out}
<1>1. PICK p \in Events : AutoLeaves(p)
  BY AutoreplyLeaves
<1> DEFINE m == Continue(p, AutoreplyID(job.thread, meta[p].domain))
<1>2. /\ job' = [job EXCEPT !.at = "notice", !.event = job.thread, !.out = m]
      /\ world' = world \cup {m}
  BY <1>1 DEF AutoLeaves
<1> HIDE DEF m
<1> QED BY <1>2 DEF Job

\* The autoreply leaves, or there is none.
LEMMA TypeAutoreply ==
  ASSUME TypeInv, SendAutoreply \/ EndIncoming
  PROVE  TypeInv'
<1>1. CASE SendAutoreply
  <2> DEFINE t == job.thread
  <2>0. GetEvent(t) /\ job.at = "autoreply" /\ room' = room /\ notes' = notes
        /\ unknown' = unknown /\ unanswered' = unanswered /\ home' = home
    BY <1>1, AutoreplyLeaves
  <2>1. t \in 1..n /\ t \in Events
    BY <2>0, ThreadsAssumption DEF GetEvent, TypeInv, TypeOK
  <2>p. PICK p \in Events : AutoLeaves(p)
    BY <1>1, AutoreplyLeaves
  <2> DEFINE m == Continue(p, AutoreplyID(t, meta[p].domain))
  <2>a. HasParent(p)
    BY <2>p DEF AutoLeaves
  <2>2. meta[p].domain \in Domains
    BY <2>a, ParentDomain DEF TypeInv
  <2>b. AutoreplyID(t, meta[p].domain) \in Ids
    BY <2>1, <2>2, OurIds
  <2>3. m \in Sent
    BY <2>a, <2>b, ContinueType DEF TypeInv
  <2>4. /\ job' = [job EXCEPT !.at = "notice", !.event = t, !.out = m]
        /\ world' = world \cup {m}
    BY <2>p DEF AutoLeaves
  <2> HIDE DEF m
  <2>5. /\ job' \in Job /\ job'.at = "notice"
        /\ job'.out = m /\ job'.thread = t /\ job'.event = t
    BY <2>1, <2>3, <2>4 DEF TypeInv, TypeOK, Job
  <2>7. faults' \in 0..MaxFaults
    BY <2>p, FaultType DEF AutoLeaves, ParentIs, TypeInv
  <2>6. TypeOK' /\ n' = n
    BY <2>0, <2>3, <2>4, <2>5, <2>7
       DEF TypeInv, TypeOK, room, notes, threads, lasts
  <2> QED BY <2>0, <2>1, <2>3, <2>5, <2>6 DEF TypeInv, FitsInv, JobInv
<1>2. CASE EndIncoming
  <2>1. job.mail \in Mail /\ job.thread \in Events \cup {NoEvent}
    BY <1>2 DEF TypeInv, JobInv, TypeOK, Job, EndIncoming
  <2>2. AsSent(job.mail) \in Sent
    BY <2>1 DEF AsSent, Sent, Mail
  <2>3. job' \in Job /\ job'.at = "idle"
    BY <1>2 DEF EndIncoming, Job, Idle
  <2>4. faults' \in 0..MaxFaults
    BY <1>2, FaultType DEF EndIncoming, TypeInv
  <2>5. home' \in [Ids -> Events \cup {NoEvent}]
    BY <1>2, <2>1 DEF EndIncoming, Answered, TypeInv, TypeOK
  <2>6. unanswered' \subseteq Mail /\ world' \subseteq Sent
    BY <1>2, <2>2 DEF EndIncoming, Answered, TypeInv, TypeOK
  <2>7. TypeOK'
    BY <1>2, <2>3, <2>4, <2>5, <2>6
       DEF EndIncoming, TypeInv, TypeOK, room, notes, threads, lasts
  <2> QED BY <2>3, <2>7 DEF TypeInv, FitsInv, JobInv
<1> QED BY <1>1, <1>2

\* Threads that a user can write in are events.
LEMMA OpenThreadsType == ASSUME TypeOK PROVE OpenThreads \subseteq Events
<1> SUFFICES ASSUME NEW e \in 1..n, meta[e] # NoMeta PROVE meta[e].thread \in Events
  BY DEF OpenThreads
<1>1. e \in Events
  BY ThreadsAssumption DEF TypeOK
<1>2. meta[e] \in Meta
  BY <1>1 DEF TypeOK
<1> QED BY <1>2 DEF Meta

\* A user writes in a thread: the reply leaves, for parent p, or nothing does.
Leaves(t, p) ==
  /\ ParentIs(t, p) /\ HasParent(p)
  /\ LET m == Continue(p, MessageID(n + 1, meta[p].domain))
     IN /\ job' = [Idle EXCEPT !.at = "notice", !.thread = t, !.event = n + 1,
                               !.out = m]
        /\ world' = world \cup {m}

LEMMA ReplyLeaves ==
  ASSUME NEW t, SendEmailReply(t)
  PROVE  /\ \/ \E p \in Events : Leaves(t, p)
            \/ job' = job /\ world' = world /\ FaultIf(HasParent(getLastEventID(t)))
         /\ job = Idle /\ Fits /\ Add(n + 1, NoMeta)
         /\ removed' = removed /\ notes' = notes /\ unknown' = unknown
         /\ unanswered' = unanswered /\ home' = home
<1>1. \/ \E p \in Events : Leaves(t, p)
      \/ job' = job /\ world' = world /\ FaultIf(HasParent(getLastEventID(t)))
  BY Zenon DEF SendEmailReply, Leaves
<1>2. /\ job = Idle /\ Fits /\ Add(n + 1, NoMeta)
      /\ removed' = removed /\ notes' = notes /\ unknown' = unknown
      /\ unanswered' = unanswered /\ home' = home
  BY Zenon DEF SendEmailReply
<1> QED BY <1>1, <1>2, Zenon

\* Where the handler is when a reply has left, and what is out.
LEMMA LeavesOut ==
  ASSUME NEW t, NEW p, Leaves(t, p)
  PROVE  /\ job'.at = "notice" /\ job'.thread = t /\ job'.event = n + 1
         /\ job'.mail = NoMail /\ job'.blind = FALSE
         /\ job'.out = Continue(p, MessageID(n + 1, meta[p].domain))
         /\ world' = world \cup {job'.out}
<1> DEFINE m == Continue(p, MessageID(n + 1, meta[p].domain))
<1>2. /\ job' = [Idle EXCEPT !.at = "notice", !.thread = t, !.event = n + 1, !.out = m]
      /\ world' = world \cup {m}
  BY DEF Leaves
<1> HIDE DEF m
<1>3. /\ job'.at = "notice" /\ job'.thread = t /\ job'.event = n + 1
      /\ job'.mail = NoMail /\ job'.blind = FALSE /\ job'.out = m
  BY <1>2 DEF Idle
<1> QED BY <1>2, <1>3 DEF m

\* A user writes in a thread.
LEMMA TypeReply ==
  ASSUME TypeInv, NEW t \in OpenThreads, SendEmailReply(t)
  PROVE  TypeInv'
<1> DEFINE e == n + 1
<1>1. t \in Events
  BY OpenThreadsType DEF TypeInv
<1>0. /\ job = Idle /\ Fits /\ Add(e, NoMeta)
      /\ removed' = removed /\ notes' = notes /\ unknown' = unknown
      /\ unanswered' = unanswered /\ home' = home
  BY ReplyLeaves
<1>2. n \in Nat /\ n + 3 <= MaxEvents /\ n + 1 <= MaxEvents /\ job = Idle
  BY <1>0, ThreadsAssumption DEF Fits, TypeInv, TypeOK
<1>3. Add(e, NoMeta)
  BY <1>0
<1>4. /\ n' = n + 1 /\ n' \in Events /\ removed \subseteq 1..n'
      /\ meta' \in [Events -> Meta \cup {NoMeta}]
  BY <1>2, <1>3, TypeAdd DEF TypeInv
<1>7. ASSUME NEW p \in Events, Leaves(t, p)
      PROVE  TypeInv'
  <2> DEFINE m == Continue(p, MessageID(e, meta[p].domain))
  <2>a. HasParent(p)
    BY <1>7 DEF Leaves
  <2>1. meta[p].domain \in Domains /\ e \in Events
    BY <1>4, <2>a, ParentDomain DEF TypeInv
  <2>b. MessageID(e, meta[p].domain) \in Ids
    BY <2>1, OurIds
  <2>3. m \in Sent
    BY <2>a, <2>b, ContinueType DEF TypeInv
  <2>6. /\ job' = [Idle EXCEPT !.at = "notice", !.thread = t, !.event = e, !.out = m]
        /\ world' = world \cup {m}
    BY <1>7 DEF Leaves
  <2>7. faults' \in 0..MaxFaults
    BY <1>7, FaultType DEF Leaves, ParentIs, TypeInv
  <2> HIDE DEF m
  <2>4. /\ job' \in Job /\ job'.at = "notice" /\ job'.out = m /\ job'.thread = t
        /\ job'.event = n'
    BY <1>1, <1>4, <2>1, <2>3, <2>6 DEF Idle, Job
  <2>5. TypeOK'
    BY <1>0, <1>4, <2>3, <2>4, <2>6, <2>7
       DEF TypeInv, TypeOK, notes, threads, lasts
  <2> QED BY <1>1, <1>2, <1>4, <2>3, <2>4, <2>5, ThreadsAssumption
          DEF TypeInv, FitsInv, JobInv
<1>8. CASE job' = job /\ world' = world /\ FaultIf(HasParent(getLastEventID(t)))
  <2>0. faults' \in 0..MaxFaults
    BY <1>8, FaultType DEF TypeInv
  <2>1. TypeOK'
    BY <1>0, <1>4, <1>8, <2>0 DEF TypeInv, TypeOK, notes, threads, lasts
  <2>2. job'.at = "idle"
    BY <1>2, <1>8 DEF Idle
  <2> QED BY <2>1, <2>2 DEF TypeInv, FitsInv, JobInv
<1> QED BY <1>7, <1>8, ReplyLeaves

\* A user sends a mail.
LEMMA TypeSend == ASSUME TypeInv, RunSend PROVE TypeInv'
<1> DEFINE e == n + 1
           id == MessageID(e, Domain)
           m == [id |-> id, refs |-> <<id>>, domain |-> Domain]
<1>1. n \in Nat /\ n + 3 <= MaxEvents /\ n + 1 <= MaxEvents
  BY ThreadsAssumption DEF RunSend, Fits, TypeInv, TypeOK
<1>2. /\ n' = n + 1 /\ n' \in Events /\ removed \subseteq 1..n'
      /\ meta' \in [Events -> Meta \cup {NoMeta}]
  <2>1. Add(e, NoMeta)
    BY DEF RunSend
  <2> QED BY <2>1, <1>1, TypeAdd DEF TypeInv
<1>3. id \in Ids
  BY <1>2, OurIds, ThreadsAssumption
<1> HIDE DEF id
<1>4. m \in Sent
  BY <1>3, ThreadsAssumption DEF Sent
<1>5. /\ job' = [Idle EXCEPT !.at = "notice", !.thread = e, !.event = e, !.out = m]
      /\ world' = world \cup {m}
  BY DEF RunSend, id
<1> HIDE DEF m
<1>6. /\ job' \in Job /\ job'.at = "notice" /\ job'.out = m /\ job'.thread = n'
      /\ job'.event = n'
  BY <1>2, <1>4, <1>5 DEF Idle, Job
<1>7. TypeOK'
  BY <1>2, <1>4, <1>5, <1>6 DEF TypeInv, TypeOK, RunSend, notes, threads, lasts, bounds
<1> QED BY <1>1, <1>2, <1>4, <1>6, <1>7, ThreadsAssumption DEF TypeInv, FitsInv, JobInv

\* The notice is posted, or cannot be.
LEMMA TypeNotice ==
  ASSUME TypeInv, Notice \/ NoticeFailed
  PROVE  TypeInv'
<1>1. CASE Notice
  <2> DEFINE h == [thread |-> job.thread, id |-> job.out.id,
                   refs |-> job.out.refs, domain |-> job.out.domain]
  <2>1. /\ job.at = "notice" /\ job.out \in Sent /\ job.thread \in Events
        /\ job.event \in 1..n /\ n + 1 <= MaxEvents /\ n \in Nat
    BY <1>1 DEF Notice, TypeInv, TypeOK, FitsInv, JobInv
  <2>2. h \in Meta
    BY <2>1 DEF Meta, Sent
  <2>3. Add(n + 1, h) /\ job' = [job EXCEPT !.at = "save"]
    BY <1>1 DEF Notice
  <2> HIDE DEF h
  <2>4. /\ n' = n + 1 /\ n' \in Events /\ removed \subseteq 1..n'
        /\ meta' \in [Events -> Meta \cup {NoMeta}]
    BY <2>1, <2>2, <2>3, TypeAdd DEF TypeInv
  <2>5. /\ job' \in Job /\ job'.at = "save" /\ job'.out = job.out
        /\ job'.thread = job.thread /\ job'.event = job.event
    BY <2>3 DEF TypeInv, TypeOK, Job
  <2>6. TypeOK'
    BY <1>1, <2>4, <2>5 DEF Notice, TypeInv, TypeOK, notes, threads, lasts, bounds
  <2> QED BY <2>1, <2>4, <2>5, <2>6 DEF TypeInv, FitsInv, JobInv
<1>2. CASE NoticeFailed
  <2>1. /\ job' = Idle /\ job' \in Job /\ job'.at = "idle"
        /\ unanswered' \subseteq Mail /\ world' \subseteq Sent
        /\ home' \in [Ids -> Events \cup {NoEvent}]
    <3>1. Finish(home) /\ home \in [Ids -> Events \cup {NoEvent}] /\ TypeOK
      BY <1>2 DEF NoticeFailed, TypeInv, TypeOK
    <3> QED BY <3>1, TypeFinish
  <2>2. faults' \in 0..MaxFaults
    BY <1>2, ThreadsAssumption DEF NoticeFailed, TypeInv, TypeOK, Fault
  <2>3. TypeOK'
    BY <1>2, <2>1, <2>2 DEF NoticeFailed, TypeInv, TypeOK, room, notes, threads, lasts
  <2> QED BY <2>1, <2>3 DEF TypeInv, FitsInv, JobInv
<1> QED BY <1>1, <1>2

\* What Save notes, in the room's domain.
SavedIds == {MessageID(job.event, Domain), MessageID(n, Domain)}
Saves(refused, lost) ==
  /\ FaultIf(refused # {} \/ lost)
  /\ setThreadID(SavedIds, job.thread, refused)
  /\ setLastEventID(job.thread, n, lost)

\* The homeserver may refuse some of it.
LEMMA SaveSaves ==
  ASSUME Save
  PROVE  \E refused \in SUBSET SavedIds, lost \in BOOLEAN : Saves(refused, lost)
  BY Zenon DEF Save, Saves, SavedIds

\* What else it does.
LEMMA SaveDone ==
  ASSUME Save
  PROVE  /\ job.at = "save" /\ Finish([home EXCEPT ![job.out.id] = job.thread])
         /\ room' = room /\ unknown' = unknown
  BY Zenon DEF Save

\* The mail that left is noted.
LEMMA TypeSave == ASSUME TypeInv, Save PROVE TypeInv'
<1>1. /\ job.at = "save" /\ job.out \in Sent /\ job.thread \in Events
      /\ job.event \in 1..n /\ n \in Events
  BY ThreadsAssumption DEF Save, TypeInv, TypeOK, JobInv
<1>2. job.event \in Events
  BY <1>1, ThreadsAssumption
<1>3. PICK refused \in SUBSET SavedIds, lost \in BOOLEAN : Saves(refused, lost)
  BY SaveSaves
<1>9. SavedIds \in SUBSET Ids
  BY <1>1, <1>2, OurIds, ThreadsAssumption DEF SavedIds
<1>4. /\ tid' \in [Ids -> Events \cup {NoEvent}]
      /\ acTid' \in [Ids -> Events \cup {NoEvent}]
      /\ unnoted' \subseteq Ids
  BY <1>1, <1>3, <1>9, NotedType DEF Saves, TypeInv
<1>10. /\ last' \in [Events -> Events \cup {NoEvent}]
       /\ acLast' \in [Events -> Events \cup {NoEvent}]
  BY <1>1, <1>3, LastNoted DEF Saves, TypeInv
<1>11. faults' \in 0..MaxFaults
  BY <1>3, FaultType DEF Saves, TypeInv
<1> DEFINE h == [home EXCEPT ![job.out.id] = job.thread]
<1>5. h \in [Ids -> Events \cup {NoEvent}]
  BY <1>1 DEF TypeInv, TypeOK
<1>6. Finish(h)
  BY DEF Save
<1> HIDE DEF h
<1>7. /\ job' = Idle /\ job' \in Job /\ job'.at = "idle"
      /\ unanswered' \subseteq Mail /\ world' \subseteq Sent
      /\ home' \in [Ids -> Events \cup {NoEvent}]
  BY <1>5, <1>6, TypeFinish DEF TypeInv
<1>8. TypeOK'
  BY <1>4, <1>7, <1>10, <1>11 DEF Save, TypeInv, TypeOK, room
<1> QED BY <1>7, <1>8 DEF TypeInv, FitsInv, JobInv

\* The type invariant is inductive.
LEMMA TypeStep == TypeInv /\ [Next]_vars => TypeInv'
<1> SUFFICES ASSUME TypeInv, [Next]_vars PROVE TypeInv'
  OBVIOUS
<1>1. ASSUME NEW e \in Events, Redact(e) PROVE TypeInv'
  <2>1. TypeOK'
    BY <1>1 DEF Redact, GetEvent, TypeInv, TypeOK, notes, threads, lasts, bounds
  <2>2. n' = n /\ job' = job
    BY <1>1 DEF Redact
  <2> QED BY <2>1, <2>2 DEF TypeInv, FitsInv, JobInv
<1>2. CASE Restart
  <2>1. job' \in Job /\ job'.at = "idle"
    BY <1>2 DEF Restart, Job, Idle
  <2>2. faults' \in 0..MaxFaults
    BY <1>2, ThreadsAssumption DEF Restart, TypeInv, TypeOK, Fault
  <2>3. TypeOK'
    BY <1>2, <2>1, <2>2 DEF Restart, TypeInv, TypeOK, room
  <2> QED BY <2>1, <2>3 DEF TypeInv, FitsInv, JobInv
<1>3. CASE UNCHANGED vars
  BY <1>3 DEF vars, room, notes, threads, lasts, bounds, TypeInv, TypeOK, FitsInv, JobInv
<1>4. CASE Evict
  <2>1. /\ tid' \in [Ids -> Events \cup {NoEvent}]
        /\ last' \in [Events -> Events \cup {NoEvent}]
    BY <1>4 DEF Evict, TypeInv, TypeOK
  <2>2. TypeOK' /\ n' = n /\ job' = job
    BY <1>4, <2>1 DEF Evict, room, bounds, TypeInv, TypeOK
  <2> QED BY <2>2 DEF TypeInv, FitsInv, JobInv
<1> QED BY <1>1, <1>2, <1>3, <1>4, TypeIncoming, TypePost, TypePostFailed, TypeNoteBody,
           TypeAutoreply, TypeReply, TypeSend, TypeNotice, TypeSave DEF Next

\* The variables keep their types: account data, headers and the mail in hand
\* are about events of the room, and no handler adds more events than fit.
THEOREM TypeCorrect == Spec => []TypeOK
<1>1. TypeInv => TypeOK
  BY DEF TypeInv
<1> QED BY <1>1, TypeInit, TypeStep, PTL DEF Spec

----------------------------------------------------------------------------
(* The last event of a thread *)

\* The last events f of threads are among the first k and have headers.
LastIn(f, k, headers) ==
  \A t \in Events :
    /\ f[t] <= k
    /\ f[t] # NoEvent => headers[f[t]] # NoMeta /\ headers[f[t]].thread = t

\* The last event noted for a thread, also as the homeserver has it, is in the
\* room and has headers, and so has the event that is about to be noted.
HeadersInv ==
  /\ LastIn(last, n, meta) /\ LastIn(acLast, n, meta)
  /\ job.at = "note" /\ job.thread # NoEvent =>
       meta[job.event] # NoMeta /\ meta[job.event].thread = job.thread
  /\ job.at = "save" => meta[n] # NoMeta /\ meta[n].thread = job.thread

\* Events that are added leave those before them alone.
LEMMA AddKeeps ==
  ASSUME TypeInv, NEW h, Add(n + 1, h), n + 1 <= MaxEvents
  PROVE  /\ n' = n + 1 /\ n \in Nat /\ \A e \in 1..n : meta'[e] = meta[e]
         /\ meta'[n + 1] = h
<1>1. n \in Nat /\ n + 1 \in Events
  BY ThreadsAssumption DEF TypeInv, TypeOK
<1> QED BY <1>1 DEF TypeInv, TypeOK, Add

\* The last event of each thread, kept or cached, is one that was noted before.
LastsStay ==
  \A t \in Events : /\ last'[t] \in {last[t], acLast[t]}
                    /\ acLast'[t] = acLast[t]

\* What is noted stays true while the events of the room stay.
LEMMA HeadersStay ==
  ASSUME TypeInv, HeadersInv, LastsStay, n <= n', n' \in Nat,
         \A e \in 1..n : meta'[e] = meta[e]
  PROVE  LastIn(last', n', meta') /\ LastIn(acLast', n', meta')
<1>1. ASSUME NEW t \in Events, NEW e \in Nat, e <= n,
             e # NoEvent => meta[e] # NoMeta /\ meta[e].thread = t
      PROVE  e <= n' /\ (e # NoEvent => meta'[e] # NoMeta /\ meta'[e].thread = t)
  <2>1. n \in Nat /\ e <= n'
    BY <1>1 DEF TypeInv, TypeOK
  <2>2. e # NoEvent => meta'[e] = meta[e]
    BY <1>1, <2>1
  <2> QED BY <1>1, <2>1, <2>2
<1>2. \A t \in Events : last[t] \in Nat /\ acLast[t] \in Nat
  <2>1. Events \cup {NoEvent} \subseteq Nat
    BY DEF Events, NoEvent
  <2>2. /\ last \in [Events -> Events \cup {NoEvent}]
        /\ acLast \in [Events -> Events \cup {NoEvent}]
    BY DEF TypeInv, TypeOK
  <2> QED BY <2>1, <2>2
<1>3. \A t \in Events :
        /\ last[t] <= n' /\ (last[t] # NoEvent =>
             meta'[last[t]] # NoMeta /\ meta'[last[t]].thread = t)
        /\ acLast[t] <= n' /\ (acLast[t] # NoEvent =>
             meta'[acLast[t]] # NoMeta /\ meta'[acLast[t]].thread = t)
  BY <1>1, <1>2 DEF HeadersInv, LastIn
<1> QED BY <1>3 DEF LastIn, LastsStay

\* The event that a handler notes for a thread, which the homeserver may refuse.
LEMMA HeadersNoted ==
  ASSUME TypeInv, HeadersInv, n' = n, meta' = meta, NEW t \in Events, NEW e \in 1..n,
         meta[e] # NoMeta, meta[e].thread = t, NEW refused,
         setLastEventID(t, e, refused)
  PROVE  LastIn(last', n', meta') /\ LastIn(acLast', n', meta')
<1>1. e \in Events /\ e <= n
  BY ThreadsAssumption DEF TypeInv, TypeOK
<1>2. /\ \A s \in Events : last'[s] = IF s = t THEN e ELSE last[s]
      /\ \A s \in Events : acLast'[s] = IF s = t /\ ~refused THEN e ELSE acLast[s]
  BY <1>1, LastNoted DEF TypeInv
<1> QED BY <1>1, <1>2 DEF HeadersInv, LastIn

\* Handlers that note nothing.
LEMMA HeadersOthers ==
  ASSUME TypeInv, HeadersInv,
         LastsStay, n' = n, meta' = meta, job' = job \/ job'.at \notin {"note", "save"}
  PROVE  HeadersInv'
<1>1. n \in Nat /\ n <= n'
  BY DEF TypeInv, TypeOK
<1>2. LastIn(last', n', meta') /\ LastIn(acLast', n', meta')
  BY <1>1, HeadersStay
<1> QED BY <1>2 DEF HeadersInv

\* A handler that leaves the account data alone.
LEMMA LastsSame == ASSUME lasts' = lasts PROVE LastsStay
  BY DEF lasts, LastsStay

\* The headers invariant is inductive.
LEMMA HeadersStep == TypeInv /\ HeadersInv /\ [Next]_vars => HeadersInv'
<1> SUFFICES ASSUME TypeInv, HeadersInv, [Next]_vars PROVE HeadersInv'
  OBVIOUS
<1> DEFINE stay == LastIn(last', n', meta') /\ LastIn(acLast', n', meta')
<1>a. n \in Nat /\ MaxEvents \in Nat
  BY ThreadsAssumption DEF TypeInv, TypeOK
<1>1. ASSUME NEW mail \in Arriving, IncomingEmail(mail) PROVE HeadersInv'
  <2>1. job'.at = "post" /\ LastsStay /\ n' = n /\ meta' = meta
    <3>1. job'.at = "post"
      <4>1. PICK failed, refused, t : Finds(mail, failed, refused, t)
        BY <1>1, IncomingFinds
      <4> QED BY <4>1 DEF Finds, Idle
    <3> QED BY <1>1, <3>1, LastsSame DEF IncomingEmail, room
  <2> QED BY <2>1, HeadersOthers
<1>2. CASE Post
  <2> DEFINE t == IF job.thread = NoEvent THEN n + 1 ELSE job.thread
             h == [thread |-> t, id |-> job.mail.id, refs |-> job.mail.refs,
                   domain |-> job.mail.domain]
  <2>1. n + 1 <= MaxEvents /\ job.mail \in Mail
    BY <1>2, <1>a DEF Post, TypeInv, FitsInv, JobInv
  <2>2. t \in Events
    BY <1>a, <2>1 DEF TypeInv, TypeOK, Job
  <2>3. h \in Meta /\ h.thread = t
    BY <2>1, <2>2 DEF Meta, Mail
  <2>4. Add(n + 1, h) /\ job' = [job EXCEPT !.at = "note", !.thread = t, !.event = n + 1]
    BY <1>2 DEF Post
  <2>5. job'.at = "note" /\ job'.thread = t /\ job'.event = n + 1 /\ LastsStay
    BY <1>2, <2>4, LastsSame DEF Post, notes, TypeInv, TypeOK, Job
  <2> HIDE DEF h, t
  <2>6. n' = n + 1 /\ (\A e \in 1..n : meta'[e] = meta[e]) /\ meta'[n + 1] = h
    BY <2>1, <2>4, AddKeeps
  <2>7. stay
    BY <1>a, <2>5, <2>6, HeadersStay
  <2> QED BY <2>3, <2>5, <2>6, <2>7, ThreadsAssumption DEF HeadersInv
<1>3. CASE PostUnknown
  <2>1. job'.at = "note" /\ job'.thread = NoEvent
    BY <1>3 DEF PostUnknown, TypeInv, TypeOK, Job
  <2>2. LastsStay /\ n' = n /\ meta' = meta
    BY <1>3, LastsSame DEF PostUnknown, room, notes
  <2>3. stay
    BY <1>a, <2>2, HeadersStay
  <2> QED BY <2>1, <2>3 DEF HeadersInv
<1>4. CASE PostFailed
  BY <1>4, HeadersOthers, LastsSame DEF PostFailed, Idle, room, notes
<1>5. CASE Note
  <2>1. /\ job.at = "note" /\ job'.at = "body" /\ n' = n /\ meta' = meta
        /\ job.thread \in Events \cup {NoEvent}
    BY <1>5 DEF Note, TypeInv, TypeOK, Job, room
  <2>2. CASE job.thread = NoEvent
    BY <1>5, <2>1, <2>2, HeadersOthers, LastsSame DEF Note
  <2>3. CASE job.thread # NoEvent
    <3>1. job.event \in 1..n /\ \E lost : setLastEventID(job.thread, job.event, lost)
      BY <1>5, <2>1, <2>3 DEF Note, TypeInv, JobInv
    <3>2. meta[job.event] # NoMeta /\ meta[job.event].thread = job.thread
      BY <2>1, <2>3 DEF HeadersInv
    <3>3. stay
      BY <2>1, <2>3, <3>1, <3>2, HeadersNoted
    <3> QED BY <2>1, <3>3 DEF HeadersInv
  <2> QED BY <2>2, <2>3
<1>6. CASE Body
  <2>1. job.at = "body" /\ job'.at = "autoreply" /\ LastsStay
    BY <1>6, LastsSame DEF Body, TypeInv, TypeOK, Job, notes
  <2>2. n + 1 <= MaxEvents
    BY <2>1, <1>a DEF TypeInv, FitsInv
  <2>3. n' \in Nat /\ n <= n' /\ \A e \in 1..n : meta'[e] = meta[e]
    <3>1. CASE Add(n + 1, NoMeta)
      BY <2>2, <3>1, AddKeeps
    <3>2. CASE n' = n /\ meta' = meta
      BY <1>a, <3>2
    <3> QED BY <1>6, <3>1, <3>2 DEF Body
  <2>4. stay
    BY <2>1, <2>3, HeadersStay
  <2> QED BY <2>1, <2>4 DEF HeadersInv
<1>7. CASE SendAutoreply
  <2>1. LastsStay /\ n' = n /\ meta' = meta
    BY <1>7, AutoreplyLeaves, LastsSame DEF room, notes
  <2>2. job'.at = "notice"
    BY <1>7, AutoreplyOut DEF TypeInv, TypeOK
  <2> QED BY <2>1, <2>2, HeadersOthers
<1>8. CASE EndIncoming
  BY <1>8, HeadersOthers, LastsSame DEF EndIncoming, Idle, room, notes
<1>9. ASSUME NEW t \in OpenThreads, SendEmailReply(t) PROVE HeadersInv'
  <2>1. n + 1 <= MaxEvents /\ Add(n + 1, NoMeta) /\ LastsStay /\ job = Idle
    BY <1>9, <1>a, ReplyLeaves, LastsSame DEF Fits, notes
  <2>2. n' = n + 1 /\ \A e \in 1..n : meta'[e] = meta[e]
    BY <2>1, AddKeeps
  <2>3. stay
    BY <1>a, <2>1, <2>2, HeadersStay
  <2>4. job'.at \in {"notice", "idle"}
    <3>1. CASE \E p \in Events : Leaves(t, p)
      BY <3>1 DEF Leaves, Idle
    <3>2. CASE job' = job
      BY <2>1, <3>2 DEF Idle
    <3> QED BY <1>9, <3>1, <3>2, ReplyLeaves
  <2> QED BY <2>3, <2>4 DEF HeadersInv
<1>10. CASE RunSend
  <2>1. n + 1 <= MaxEvents /\ Add(n + 1, NoMeta) /\ LastsStay
    BY <1>10, <1>a, LastsSame DEF RunSend, Fits, notes
  <2>2. n' = n + 1 /\ \A e \in 1..n : meta'[e] = meta[e]
    BY <2>1, AddKeeps
  <2>3. stay
    BY <1>a, <2>1, <2>2, HeadersStay
  <2>4. job'.at = "notice"
    BY <1>10 DEF RunSend, Idle
  <2> QED BY <2>3, <2>4 DEF HeadersInv
<1>11. CASE Notice
  <2> DEFINE h == [thread |-> job.thread, id |-> job.out.id,
                   refs |-> job.out.refs, domain |-> job.out.domain]
  <2>1. n + 1 <= MaxEvents /\ job.out \in Sent /\ job.thread \in Events
    BY <1>11, <1>a DEF Notice, TypeInv, FitsInv, JobInv
  <2>2. h \in Meta /\ h.thread = job.thread
    BY <2>1 DEF Meta, Sent
  <2>3. Add(n + 1, h) /\ LastsStay /\ job'.at = "save" /\ job'.thread = job.thread
    BY <1>11, LastsSame DEF Notice, notes, TypeInv, TypeOK, Job
  <2> HIDE DEF h
  <2>4. n' = n + 1 /\ (\A e \in 1..n : meta'[e] = meta[e]) /\ meta'[n + 1] = h
    BY <2>1, <2>3, AddKeeps
  <2>5. stay
    BY <1>a, <2>3, <2>4, HeadersStay
  <2> QED BY <2>2, <2>3, <2>4, <2>5, ThreadsAssumption DEF HeadersInv
<1>12. CASE NoticeFailed
  BY <1>12, HeadersOthers, LastsSame DEF NoticeFailed, Finish, Idle, room, notes
<1>13. CASE Save
  <2>1. /\ job.at = "save" /\ job'.at = "idle" /\ n' = n /\ meta' = meta
        /\ job.thread \in Events /\ n \in 1..n
    BY <1>13, <1>a DEF Save, Finish, Idle, room, TypeInv, JobInv
  <2>2. meta[n] # NoMeta /\ meta[n].thread = job.thread
    BY <2>1 DEF HeadersInv
  <2>3. \E lost : setLastEventID(job.thread, n, lost)
    BY <1>13, SaveSaves DEF Saves
  <2>4. stay
    BY <2>1, <2>2, <2>3, HeadersNoted
  <2> QED BY <2>1, <2>4 DEF HeadersInv
<1>14. ASSUME NEW e \in Events, Redact(e) PROVE HeadersInv'
  BY <1>14, HeadersOthers, LastsSame DEF Redact, notes
<1>15. CASE Restart
  <2>1. LastsStay
    BY <1>15 DEF Restart, LastsStay
  <2> QED BY <1>15, <2>1, HeadersOthers DEF Restart, Idle, room
<1>16. CASE UNCHANGED vars
  BY <1>16, HeadersOthers, LastsSame DEF vars, room, notes
<1>17. CASE Evict
  <2>1. LastsStay
    BY <1>17 DEF Evict, LastsStay, TypeInv, TypeOK
  <2> QED BY <1>17, <2>1, HeadersOthers DEF Evict, room
<1> QED BY <1>1, <1>2, <1>3, <1>4, <1>5, <1>6, <1>7, <1>8, <1>9, <1>10, <1>11,
           <1>12, <1>13, <1>14, <1>15, <1>16, <1>17 DEF Next

\* A reply has something to continue: whatever fails, and whenever the process
\* stops, the last event noted for a thread is an event of that thread with the
\* headers of a mail.
THEOREM LastEventHasHeaders == Spec => []LastHasHeaders
<1>1. Init => HeadersInv
  <2> SUFFICES ASSUME Init PROVE HeadersInv
    OBVIOUS
  <2>1. LastIn(last, n, meta) /\ acLast = last
    BY DEF Init, LastIn
  <2> QED BY <2>1 DEF Init, HeadersInv, Idle
<1>2. HeadersInv => LastHasHeaders
  BY DEF HeadersInv, LastIn, LastHasHeaders
<1> QED BY <1>1, <1>2, TypeInit, TypeStep, HeadersStep, PTL DEF Spec

----------------------------------------------------------------------------
(* Conversations: what the outside refers to *)

\* Correspondents give their mails Message-IDs, and the bridge has one domain.
OneDomain == Domains = {Domain} /\ ~IdsMissing

\* Message-IDs that correspondents may refer to: those of mails that the bridge
\* has answered 250, and those that it makes of the events that users write and
\* of the events of mails without references.
Known(i) ==
  \/ i \in Foreign
  \/ i \in Mids /\ \E s \in world : s.id = i
  \/ \E e \in 1..n : /\ i = MessageID(e, Domain)
                     /\ meta[e] = NoMeta \/ meta[e].refs = <<>>

AllKnown(refs) == \A i \in Range(refs) : Known(i)

\* Mails that are out, and headers that replies continue.
WorldInv ==
  /\ \A s \in world : Known(s.id) /\ AllKnown(s.refs)
  /\ \A e \in 1..n : meta[e] # NoMeta => AllKnown(meta[e].refs)

\* Mails that have not been answered: nobody refers to them yet.
UnansweredInv ==
  \A u \in unanswered :
    /\ u.id \in Mids /\ AllKnown(u.refs)
    /\ \A s \in world : s.id # u.id
    /\ \A v \in unanswered : v.id = u.id => v = u
    /\ u.parent # NoId => /\ Known(u.parent)
                          /\ \/ u.irt = u.parent
                             \/ u.irt = NoId /\ u.parent \in Range(u.refs)

\* Nothing is noted of a Message-ID, nor was refused.
Blank(i) ==
  /\ tid[i] = NoEvent /\ acTid[i] = NoEvent /\ home[i] = NoEvent
  /\ i \notin unnoted

\* The account data and the history agree about what may be referred to, but
\* for what the homeserver refused.
AgreeInv ==
  /\ tid[NoId] = NoEvent /\ acTid[NoId] = NoEvent
  /\ \A i \in Ids : Known(i) /\ i \notin unnoted =>
                     tid[i] = home[i] /\ acTid[i] = home[i]
  /\ \A e \in Events : e > n => Blank(MessageID(e, Domain))

\* The mail in hand.
HandInv ==
  /\ job.at \in {"post", "note", "body", "autoreply"} => job.mail \in unanswered
  /\ job.at \in {"body", "autoreply"} /\ job.mail.id \notin unnoted =>
       tid[job.mail.id] = job.thread /\ acTid[job.mail.id] = job.thread
  /\ job.at \in {"notice", "save"} =>
       /\ job.mail = NoMail /\ job.out \in world /\ job.out.refs # <<>>
       /\ job.out.id = MessageID(job.event, Domain) /\ meta[job.event] = NoMeta
  /\ job.at = "save" => meta[n] # NoMeta /\ meta[n].refs # <<>>

ConversationInv ==
  WorldInv /\ UnansweredInv /\ AgreeInv /\ HandInv /\ MapsThreads

\* What is out stays out, and events keep their headers.
Grows ==
  /\ n \in Nat /\ n' \in Nat /\ n <= n' /\ world \subseteq world'
  /\ \A e \in 1..n : meta'[e] = meta[e]

\* Every step only adds to the room and to the world.
LEMMA GrowsStep == TypeInv /\ [Next]_vars => Grows
<1> SUFFICES ASSUME TypeInv, [Next]_vars PROVE Grows
  OBVIOUS
<1>a. n \in Nat /\ MaxEvents \in Nat
  BY ThreadsAssumption DEF TypeInv, TypeOK
<1>1. CASE n' = n /\ meta' = meta /\ world \subseteq world'
  BY <1>1, <1>a DEF Grows
<1>2. ASSUME NEW h, Add(n + 1, h), n + 1 <= MaxEvents, world \subseteq world'
      PROVE  Grows
  BY <1>2, <1>a, AddKeeps DEF Grows
<1>3. CASE Post
  <2>1. n + 1 <= MaxEvents
    BY <1>3, <1>a DEF Post, TypeInv, FitsInv
  <2>2. \E h : Add(n + 1, h)
    BY <1>3 DEF Post
  <2> QED BY <1>2, <1>3, <2>1, <2>2 DEF Post
<1>4. CASE Body
  <2>1. n + 1 <= MaxEvents
    BY <1>4, <1>a DEF Body, TypeInv, FitsInv
  <2>2. Add(n + 1, NoMeta) \/ (n' = n /\ meta' = meta)
    BY <1>4 DEF Body
  <2> QED BY <1>1, <1>2, <1>4, <2>1, <2>2 DEF Body
<1>5. CASE Notice
  <2>1. n + 1 <= MaxEvents
    BY <1>5, <1>a DEF Notice, TypeInv, FitsInv
  <2>2. \E h : Add(n + 1, h)
    BY <1>5 DEF Notice
  <2> QED BY <1>2, <1>5, <2>1, <2>2 DEF Notice
<1>6. ASSUME NEW t \in OpenThreads, SendEmailReply(t) PROVE Grows
  <2>1. n + 1 <= MaxEvents /\ Add(n + 1, NoMeta)
    BY <1>6, <1>a, ReplyLeaves DEF Fits
  <2>2. world \subseteq world'
    <3>1. CASE \E p \in Events : Leaves(t, p)
      BY <3>1, LeavesOut
    <3> QED BY <1>6, <3>1, ReplyLeaves
  <2> QED BY <1>2, <2>1, <2>2
<1>7. CASE RunSend
  <2>1. n + 1 <= MaxEvents /\ Add(n + 1, NoMeta) /\ world \subseteq world'
    BY <1>7, <1>a DEF RunSend, Fits
  <2> QED BY <1>2, <2>1
<1>8. ASSUME NEW mail \in Arriving, IncomingEmail(mail) PROVE Grows
  BY <1>1, <1>8 DEF IncomingEmail, room
<1>9. CASE PostUnknown \/ PostFailed \/ Note \/ Restart \/ Evict
  BY <1>1, <1>9 DEF PostUnknown, PostFailed, Note, Restart, Evict, room
<1>10. CASE SendAutoreply \/ EndIncoming
  <2>1. CASE SendAutoreply
    <3>1. room' = room /\ world \subseteq world'
      BY <2>1, AutoreplyLeaves, AutoreplyOut DEF TypeInv, TypeOK
    <3> QED BY <1>1, <3>1 DEF room
  <2>2. CASE EndIncoming
    BY <1>1, <2>2 DEF EndIncoming, room
  <2> QED BY <1>10, <2>1, <2>2
<1>11. CASE NoticeFailed \/ Save
  BY <1>1, <1>11 DEF NoticeFailed, Save, Finish, room
<1>12. ASSUME NEW e \in Events, Redact(e) PROVE Grows
  BY <1>1, <1>12 DEF Redact
<1>13. CASE UNCHANGED vars
  BY <1>1, <1>13 DEF vars, room
<1> QED BY <1>3, <1>4, <1>5, <1>6, <1>7, <1>8, <1>9, <1>10, <1>11, <1>12, <1>13
        DEF Next

\* What may be referred to stays so.
LEMMA KnownStays ==
  ASSUME Grows, NEW i, Known(i)
  PROVE  Known(i)'
<1>1. CASE i \in Foreign
  BY <1>1 DEF Known
<1>2. CASE i \in Mids /\ \E s \in world : s.id = i
  BY <1>2 DEF Known, Grows
<1>3. CASE \E e \in 1..n : /\ i = MessageID(e, Domain)
                           /\ meta[e] = NoMeta \/ meta[e].refs = <<>>
  <2>1. PICK e \in 1..n : /\ i = MessageID(e, Domain)
                          /\ meta[e] = NoMeta \/ meta[e].refs = <<>>
    BY <1>3
  <2>2. e \in 1..n' /\ meta'[e] = meta[e]
    BY DEF Grows
  <2>3. i = MessageID(e, Domain)'
    BY <2>1 DEF MessageID
  <2> QED BY <2>1, <2>2, <2>3 DEF Known
<1> QED BY <1>1, <1>2, <1>3 DEF Known

\* Message-IDs of different kinds, and of different events, are different.
LEMMA IdsDiffer ==
  /\ \A e \in Events, d \in Domains :
       MessageID(e, d) \in Ids /\ MessageID(e, d) \notin Mids \cup Foreign \cup {NoId}
  /\ \A e, f, d : MessageID(e, d) = MessageID(f, d) => e = f
  /\ \A i \in Mids : i \notin Foreign /\ i # NoId /\ i \in Ids
<1>1. \A e \in Events, d \in Domains : MessageID(e, d) \in Ours
  BY DEF MessageID, Ours
<1>2. \A e, f, d : MessageID(e, d) = MessageID(f, d) => e = f
  BY DEF MessageID
<1> QED BY <1>1, <1>2, ThreadsAssumption DEF Ids

\* What may not be referred to: nothing, the mails that are not answered, and
\* the notices, which have references.
LEMMA Unknown ==
  ASSUME TypeInv
  PROVE  /\ ~Known(NoId)
         /\ \A m \in Mids : Known(m) => \E s \in world : s.id = m
         /\ \A e \in Events : Known(MessageID(e, Domain)) =>
              e <= n /\ (meta[e] = NoMeta \/ meta[e].refs = <<>>)
<1>1. \A e \in 1..n : e \in Events
  BY ThreadsAssumption DEF TypeInv, TypeOK
<1>2. \A e \in Events : MessageID(e, Domain) \notin Mids \cup Foreign \cup {NoId}
  BY IdsDiffer, ThreadsAssumption
<1>3. ~Known(NoId)
  BY <1>1, <1>2, ThreadsAssumption DEF Known
<1>4. \A m \in Mids : Known(m) => \E s \in world : s.id = m
  BY <1>1, <1>2, ThreadsAssumption DEF Known
<1>5. \A e \in Events : Known(MessageID(e, Domain)) =>
              e <= n /\ (meta[e] = NoMeta \/ meta[e].refs = <<>>)
  BY <1>2, IdsDiffer DEF Known
<1> QED BY <1>3, <1>4, <1>5

\* What an ID that is new to the world may be.
LEMMA KnownNew ==
  ASSUME Grows, NEW i, Known(i)'
  PROVE  \/ Known(i)
         \/ i \in Mids /\ \E s \in world' \ world : s.id = i
         \/ \E e \in (n + 1)..n' : /\ i = MessageID(e, Domain)
                                   /\ meta'[e] = NoMeta \/ meta'[e].refs = <<>>
<1>1. \/ i \in Foreign
      \/ i \in Mids /\ \E s \in world' : s.id = i
      \/ \E e \in 1..n' : /\ i = MessageID(e, Domain)
                          /\ meta'[e] = NoMeta \/ meta'[e].refs = <<>>
  BY DEF Known, MessageID
<1>2. ASSUME NEW e \in 1..n', i = MessageID(e, Domain),
             meta'[e] = NoMeta \/ meta'[e].refs = <<>>, e \notin (n + 1)..n'
      PROVE  Known(i)
  <2>1. e \in 1..n /\ meta'[e] = meta[e]
    BY <1>2 DEF Grows
  <2> QED BY <1>2, <2>1 DEF Known
<1> QED BY <1>1, <1>2 DEF Known

\* The IDs of a list that is continued.
LEMMA RangeAppend ==
  ASSUME NEW S, NEW refs \in Seq(S), NEW id \in S
  PROVE  Range(Append(refs, id)) = Range(refs) \cup {id}
<1>1. Append(refs, id) \in Seq(S) /\ Len(Append(refs, id)) = Len(refs) + 1 /\ Len(refs) \in Nat
  OBVIOUS
<1>2. /\ DOMAIN refs = 1..Len(refs)
      /\ DOMAIN Append(refs, id) = 1..(Len(refs) + 1)
  BY <1>1
<1>3. \A k \in 1..(Len(refs) + 1) :
        Append(refs, id)[k] = IF k <= Len(refs) THEN refs[k] ELSE id
  OBVIOUS
<1>4. ASSUME NEW x \in Range(Append(refs, id)) PROVE x \in Range(refs) \cup {id}
  BY <1>1, <1>2, <1>3 DEF Range
<1>5. ASSUME NEW x \in Range(refs) PROVE x \in Range(Append(refs, id))
  <2>1. PICK k \in 1..Len(refs) : x = refs[k]
    BY <1>2 DEF Range
  <2>2. k \in 1..(Len(refs) + 1) /\ Append(refs, id)[k] = x
    BY <1>1, <1>3, <2>1
  <2> QED BY <1>2, <2>2 DEF Range
<1>6. id \in Range(Append(refs, id))
  <2>1. Len(refs) + 1 \in 1..(Len(refs) + 1) /\ Append(refs, id)[Len(refs) + 1] = id
    BY <1>1, <1>3
  <2> QED BY <1>2, <2>1 DEF Range
<1> QED BY <1>4, <1>5, <1>6

\* A mail that continues a thread refers to the mails of its parent, or to the
\* event of its parent, and to itself.
LEMMA ContinueRefs ==
  ASSUME TypeInv, NEW p, HasParent(p), NEW id \in Ids
  PROVE  LET refs == IF meta[p].refs = <<>> THEN {MessageID(p, meta[p].domain)}
                     ELSE Range(meta[p].refs)
         IN /\ Continue(p, id).refs \in Seq(Ids) /\ Continue(p, id).refs # <<>>
            /\ Range(Continue(p, id).refs) = refs \cup {id}
<1> DEFINE refs == IF meta[p].refs = <<>> THEN <<MessageID(p, meta[p].domain)>>
                   ELSE meta[p].refs
           S == IF meta[p].refs = <<>> THEN {MessageID(p, meta[p].domain)}
                ELSE Range(meta[p].refs)
<1>1. p \in 1..n /\ meta[p] \in Meta
  BY ContinueType DEF TypeInv
<1>2. p \in Events
  BY <1>1, ThreadsAssumption DEF TypeInv, TypeOK
<1>3. meta[p].refs \in Seq(Ids) /\ MessageID(p, meta[p].domain) \in Ids
  BY <1>1, <1>2, OurIds DEF Meta
<1>4. Continue(p, id).refs = Append(refs, id)
  BY DEF Continue
<1>5. refs \in Seq(Ids) /\ Range(refs) = S
  <2>1. CASE meta[p].refs = <<>>
    <3>1. refs = <<MessageID(p, meta[p].domain)>>
      BY <2>1
    <3>2. refs \in Seq(Ids) /\ DOMAIN refs = {1} /\ refs[1] = MessageID(p, meta[p].domain)
      BY <1>3, <3>1
    <3> QED BY <2>1, <3>2 DEF Range
  <2>2. CASE meta[p].refs # <<>>
    BY <1>3, <2>2
  <2> QED BY <2>1, <2>2
<1> HIDE DEF refs, S
<1>6. Append(refs, id) \in Seq(Ids) /\ Append(refs, id) # <<>>
  <2>1. Len(Append(refs, id)) = Len(refs) + 1 /\ Len(refs) \in Nat
    BY <1>5
  <2> QED BY <1>5, <2>1
<1>7. Range(Append(refs, id)) = S \cup {id}
  BY <1>5, RangeAppend
<1> QED BY <1>4, <1>6, <1>7 DEF S

\* The world is kept by a step that adds only what is known.
LEMMA WorldKept ==
  ASSUME WorldInv, Grows,
         \A s \in world' \ world :
           Known(s.id)' /\ \A i \in Range(s.refs) : Known(i)',
         \A e \in (n + 1)..n' :
           meta'[e] # NoMeta => \A i \in Range(meta'[e].refs) : Known(i)'
  PROVE  WorldInv'
<1>1. ASSUME NEW s \in world'
      PROVE  Known(s.id)' /\ \A i \in Range(s.refs) : Known(i)'
  <2>1. CASE s \in world
    <3>1. Known(s.id) /\ \A i \in Range(s.refs) : Known(i)
      BY <2>1 DEF WorldInv, AllKnown
    <3> QED BY <3>1, KnownStays
  <2> QED BY <2>1
<1>2. ASSUME NEW e \in 1..n', meta'[e] # NoMeta
      PROVE  \A i \in Range(meta'[e].refs) : Known(i)'
  <2>1. CASE e \in 1..n
    <3>1. meta'[e] = meta[e]
      BY <2>1 DEF Grows
    <3>2. \A i \in Range(meta'[e].refs) : Known(i)
      BY <1>2, <2>1, <3>1 DEF WorldInv, AllKnown
    <3> QED BY <3>2, KnownStays
  <2>2. CASE e \notin 1..n
    <3>1. e \in (n + 1)..n'
      BY <2>2 DEF Grows
    <3> QED BY <1>2, <3>1
  <2> QED BY <2>1, <2>2
<1> QED BY <1>1, <1>2 DEF WorldInv, AllKnown

\* The mails that are not answered are kept by a step that adds none.
LEMMA UnansweredKept ==
  ASSUME UnansweredInv, Grows, unanswered' \subseteq unanswered,
         \A u \in unanswered', s \in world' \ world : s.id # u.id
  PROVE  UnansweredInv'
<1> SUFFICES ASSUME NEW u \in unanswered'
             PROVE  /\ u.id \in Mids /\ \A i \in Range(u.refs) : Known(i)'
                    /\ \A s \in world' : s.id # u.id
                    /\ \A v \in unanswered' : v.id = u.id => v = u
                    /\ u.parent # NoId =>
                         /\ Known(u.parent)'
                         /\ \/ u.irt = u.parent
                            \/ u.irt = NoId /\ u.parent \in Range(u.refs)
  BY DEF UnansweredInv, AllKnown
<1>1. u \in unanswered
  OBVIOUS
<1>2. \A i \in Range(u.refs) : Known(i)'
  BY <1>1, KnownStays DEF UnansweredInv, AllKnown
<1>3. u.parent # NoId => Known(u.parent)'
  BY <1>1, KnownStays DEF UnansweredInv
<1>4. \A s \in world' : s.id # u.id
  BY <1>1 DEF UnansweredInv
<1> QED BY <1>1, <1>2, <1>3, <1>4 DEF UnansweredInv

\* The thread of each ID, kept or cached, is one that was noted before.
ThreadsStay ==
  \A i \in Ids : /\ tid'[i] = tid[i] \/ tid'[i] = acTid[i]
                 /\ acTid'[i] = acTid[i]
                 /\ i \in unnoted' <=> i \in unnoted

\* A step that leaves the account data alone.
LEMMA ThreadsSame == ASSUME threads' = threads PROVE ThreadsStay
  BY DEF threads, ThreadsStay

\* The account data are kept by a step that notes nothing.
LEMMA AgreeKept ==
  ASSUME TypeInv, TypeInv', AgreeInv, Grows, ThreadsStay, home' = home,
         \A s \in world' \ world : s.id \notin Mids
  PROVE  AgreeInv'
<1>0. NoId \in Ids /\ \A e \in Events : MessageID(e, Domain) \in Ids
  BY IdsDiffer, ThreadsAssumption DEF Ids
<1>1. ASSUME NEW e \in Events, e > n'
      PROVE  Blank(MessageID(e, Domain))'
  <2>1. e > n
    BY <1>1 DEF Grows
  <2>2. Blank(MessageID(e, Domain)) /\ MessageID(e, Domain) \in Ids
    BY <1>0, <2>1 DEF AgreeInv
  <2>3. MessageID(e, Domain)' = MessageID(e, Domain)
    BY DEF MessageID
  <2> HIDE DEF MessageID
  <2> QED BY <2>2, <2>3 DEF Blank, ThreadsStay
<1>2. ASSUME NEW i \in Ids, Known(i)', i \notin unnoted'
      PROVE  tid'[i] = home'[i] /\ acTid'[i] = home'[i]
  <2>1. CASE Known(i)
    BY <1>2, <2>1 DEF AgreeInv, ThreadsStay
  <2>2. CASE \E e \in (n + 1)..n' : i = MessageID(e, Domain)
    <3>1. PICK e \in (n + 1)..n' : i = MessageID(e, Domain)
      BY <2>2
    <3>2. e \in Events /\ e > n
      BY ThreadsAssumption DEF TypeInv, TypeOK, Grows
    <3> QED BY <3>1, <3>2 DEF AgreeInv, Blank, ThreadsStay
  <2> QED BY <1>2, <2>1, <2>2, KnownNew
<1>3. tid'[NoId] = NoEvent /\ acTid'[NoId] = NoEvent
  BY <1>0 DEF AgreeInv, ThreadsStay
<1> QED BY <1>1, <1>2, <1>3 DEF AgreeInv

\* What is noted of other IDs.
ThreadsElse(ids) ==
  \A i \in Ids \ ids :
    /\ tid'[i] = tid[i] /\ acTid'[i] = acTid[i]
    /\ i \in unnoted' <=> i \in unnoted

\* A mail that nobody refers to yet is noted.
LEMMA AgreeMail ==
  ASSUME TypeInv, AgreeInv, Grows, home' = home, world' = world, n' = n, meta' = meta,
         NEW m \in Mids, ~Known(m), ThreadsElse({m})
  PROVE  AgreeInv'
<1>1. NoId # m /\ NoId \in Ids
  BY IdsDiffer DEF Ids
<1>2. \A e \in Events : MessageID(e, Domain) \in Ids /\ MessageID(e, Domain) # m
  BY IdsDiffer, ThreadsAssumption
<1>3. \A i : Known(i)' => Known(i)
  BY KnownNew DEF Grows
<1>4. tid'[NoId] = NoEvent /\ acTid'[NoId] = NoEvent
  BY <1>1 DEF AgreeInv, ThreadsElse
<1>5. \A i \in Ids : Known(i)' /\ i \notin unnoted' =>
                       tid'[i] = home'[i] /\ acTid'[i] = home'[i]
  BY <1>3 DEF AgreeInv, ThreadsElse
<1>6. ASSUME NEW e \in Events, e > n'
      PROVE  Blank(MessageID(e, Domain))'
  <2>1. Blank(MessageID(e, Domain))
    BY <1>6 DEF AgreeInv
  <2>2. MessageID(e, Domain)' = MessageID(e, Domain)
    BY DEF MessageID
  <2> QED BY <1>2, <2>1, <2>2 DEF Blank, ThreadsElse
<1> QED BY <1>4, <1>5, <1>6 DEF AgreeInv

\* An answer finds its thread.
LEMMA FindsThread ==
  ASSUME TypeInv, AgreeInv, NEW mail \in Mail, AllKnown(mail.refs),
         NEW failed, ~Blind(mail, failed),
         mail.parent # NoId, Known(mail.parent),
         \/ mail.irt = mail.parent
         \/ mail.irt = NoId /\ mail.parent \in Range(mail.refs),
         GetEvent(home[mail.parent])
  PROVE  LET t == getThreadID(mail.irt, mail.refs, failed)
         IN \/ t = home[mail.parent]
            \/ mail.irt = NoId /\ \E i \in Range(mail.refs) : i # NoId /\ t = home[i]
<1> DEFINE ids == Lookups(mail.irt, mail.refs)
           hit(k) == Hit(ids, failed, k)
           t == getThreadID(mail.irt, mail.refs, failed)
<1>1. mail.irt \in Ids /\ mail.refs \in Seq(Ids) /\ mail.parent \in Ids
  BY DEF Mail
<1>2. /\ Len(ids) = Len(mail.refs) + 1 /\ Len(mail.refs) \in Nat
      /\ DOMAIN mail.refs = 1..Len(mail.refs)
      /\ ids[1] = mail.irt
      /\ \A k \in 2..Len(ids) : ids[k] = mail.refs[k - 1]
      /\ \A k \in 1..Len(mail.refs) : ids[k + 1] = mail.refs[k]
  BY <1>1 DEF Lookups
<1>3. \/ t = NoEvent /\ \A k \in 1..Len(ids) : ~hit(k)
      \/ \E k \in 1..Len(ids) : /\ hit(k) /\ \A l \in 1..(k - 1) : ~hit(l)
                                /\ t = tid[ids[k]]
  BY <1>1, ThreadIDFirst
<1> HIDE DEF ids, t
<1>7. \A k : hit(k) <=> ids[k] \notin failed /\ GetEvent(tid[ids[k]])
  BY DEF Hit
<1> HIDE DEF hit
<1>8. mail.parent \notin failed /\ mail.parent \notin unnoted
  BY DEF Blind
<1>4. GetEvent(tid[mail.parent]) /\ tid[mail.parent] = home[mail.parent]
  BY <1>1, <1>8 DEF AgreeInv
<1>5. CASE mail.irt = mail.parent
  <2>1. hit(1) /\ 1 \in 1..Len(ids)
    BY <1>2, <1>4, <1>5, <1>7, <1>8
  <2>2. PICK k \in 1..Len(ids) : (\A l \in 1..(k - 1) : ~hit(l)) /\ t = tid[ids[k]]
    BY <1>3, <2>1
  <2>3. k = 1
    <3>1. ~(1 \in 1..(k - 1))
      BY <2>1, <2>2
    <3> QED BY <3>1, <1>2
  <2> QED BY <1>2, <1>4, <1>5, <2>2, <2>3 DEF t
<1>6. CASE mail.irt = NoId /\ mail.parent \in Range(mail.refs)
  <2>1. PICK j \in 1..Len(mail.refs) : mail.parent = mail.refs[j]
    BY <1>2, <1>6 DEF Range
  <2>2. j + 1 \in 1..Len(ids) /\ hit(j + 1)
    BY <1>2, <1>4, <2>1, <1>7, <1>8
  <2>3. PICK k \in 1..Len(ids) : hit(k) /\ t = tid[ids[k]]
    BY <1>3, <2>2
  <2>4. ~hit(1)
    BY <1>2, <1>6, <1>7 DEF AgreeInv, GetEvent
  <2>5. k \in 2..Len(ids)
    BY <2>3, <2>4, <1>2
  <2>6. k - 1 \in 1..Len(mail.refs) /\ ids[k] = mail.refs[k - 1]
    BY <1>2, <2>5
  <2>7. ids[k] \in Range(mail.refs)
    BY <1>2, <2>6 DEF Range
  <2>8. Known(ids[k]) /\ ids[k] \in Ids
    BY <1>1, <2>6, <2>7 DEF AllKnown
  <2>9. ids[k] # NoId
    BY <2>8, Unknown
  <2>11. ids[k] \notin unnoted
    BY <1>6, <2>7 DEF Blind
  <2>10. t = home[ids[k]]
    BY <2>3, <2>8, <2>11 DEF AgreeInv
  <2> QED BY <1>6, <2>7, <2>9, <2>10 DEF t
<1> QED BY <1>5, <1>6

----------------------------------------------------------------------------
(* Conversations: steps *)

\* A mail that arrives has an ID that nobody refers to, and answers a mail that
\* is out with the headers that name it.
LEMMA ArrivingKnown ==
  ASSUME TypeInv, OneDomain, WorldInv, UnansweredInv, NEW mail \in Arriving
  PROVE  /\ mail.id \in Mids /\ AllKnown(mail.refs)
         /\ \A s \in world : s.id # mail.id
         /\ \A u \in unanswered : u.id = mail.id => u = mail
         /\ mail.parent # NoId => /\ Known(mail.parent)
                                  /\ \/ mail.irt = mail.parent
                                     \/ /\ mail.irt = NoId
                                        /\ mail.parent \in Range(mail.refs)
<1>1. \A m \in NewIds : /\ m \in Mids /\ \A s \in world : s.id # m
                        /\ \A u \in unanswered : u.id # m
  BY DEF NewIds, OneDomain
<1>2. CASE mail \in unanswered
  BY <1>2 DEF UnansweredInv
<1>3. ASSUME NEW m \in NewIds, NEW d \in Domains,
             mail = [id |-> m, irt |-> NoId, refs |-> <<>>, domain |-> d,
                     parent |-> NoId]
      PROVE  mail.id = m /\ AllKnown(mail.refs) /\ mail.parent = NoId
  BY <1>3 DEF AllKnown, Range
<1>4. ASSUME NEW m \in NewIds, NEW p \in world, NEW style \in Styles,
             mail = [id |-> m, irt |-> Headers(p, style).irt,
                     refs |-> Headers(p, style).refs, domain |-> p.domain,
                     parent |-> p.id]
      PROVE  /\ mail.id = m /\ AllKnown(mail.refs) /\ Known(mail.parent)
             /\ \/ mail.irt = mail.parent
                \/ mail.irt = NoId /\ mail.parent \in Range(mail.refs)
  <2>1. p.id \in Ids /\ p.refs \in Seq(Ids) /\ Known(p.id) /\ AllKnown(p.refs)
    BY DEF TypeInv, TypeOK, Sent, WorldInv
  <2>2. /\ mail.id = m /\ mail.parent = p.id
        /\ mail.irt = (IF style = "references" THEN NoId ELSE p.id)
        /\ mail.refs = (IF style = "inReplyTo" THEN <<>> ELSE Append(p.refs, p.id))
    BY <1>4 DEF Headers
  <2>3. Range(Append(p.refs, p.id)) = Range(p.refs) \cup {p.id}
    BY <2>1, RangeAppend
  <2>4. CASE style = "inReplyTo"
    BY <2>1, <2>2, <2>4 DEF AllKnown, Range
  <2>5. CASE style # "inReplyTo"
    BY <2>1, <2>2, <2>3, <2>5 DEF AllKnown
  <2> QED BY <2>4, <2>5
<1>5. \/ mail \in unanswered
      \/ \E m \in NewIds, d \in Domains :
           mail = [id |-> m, irt |-> NoId, refs |-> <<>>, domain |-> d,
                   parent |-> NoId]
      \/ \E m \in NewIds, p \in world, style \in Styles :
           mail = [id |-> m, irt |-> Headers(p, style).irt,
                   refs |-> Headers(p, style).refs, domain |-> p.domain,
                   parent |-> p.id]
  BY DEF Arriving
<1>6. CASE \E m \in NewIds, d \in Domains :
             mail = [id |-> m, irt |-> NoId, refs |-> <<>>, domain |-> d,
                     parent |-> NoId]
  BY <1>1, <1>3, <1>6
<1>7. CASE \E m \in NewIds, p \in world, style \in Styles :
             mail = [id |-> m, irt |-> Headers(p, style).irt,
                     refs |-> Headers(p, style).refs, domain |-> p.domain,
                     parent |-> p.id]
  BY <1>1, <1>4, <1>7
<1> QED BY <1>2, <1>5, <1>6, <1>7

\* A mail comes in, and its thread is looked up.
LEMMA ConversationIncoming ==
  ASSUME TypeInv, TypeInv', OneDomain, ConversationInv, Grows,
         NEW mail \in Arriving, IncomingEmail(mail)
  PROVE  ConversationInv'
<1>1. mail \in Mail
  BY ArrivingType DEF TypeInv
<1>2. mail.id \in Ids /\ mail.irt \in Ids /\ mail.refs \in Seq(Ids) /\ mail.parent \in Ids
  BY <1>1 DEF Mail
<1>3. /\ mail.id \in Mids /\ AllKnown(mail.refs)
      /\ \A s \in world : s.id # mail.id
      /\ \A u \in unanswered : u.id = mail.id => u = mail
      /\ mail.parent # NoId => /\ Known(mail.parent)
                               /\ \/ mail.irt = mail.parent
                                  \/ /\ mail.irt = NoId
                                     /\ mail.parent \in Range(mail.refs)
  BY ArrivingKnown DEF ConversationInv
<1>f. PICK failed, refused, t : Finds(mail, failed, refused, t)
  BY IncomingFinds
<1>4. /\ t = IF mail.irt = NoId /\ mail.refs = <<>> THEN NoEvent
             ELSE getThreadID(mail.irt, mail.refs, failed)
      /\ job' = [Idle EXCEPT !.at = "post", !.mail = mail, !.thread = t,
                             !.new = (t = NoEvent), !.blind = Blind(mail, failed)]
  BY <1>f DEF Finds
<1>t. t \in Events \cup {NoEvent}
  <2>1. n \in Nat /\ t \in 0..n
    BY <1>2, <1>4, ThreadIDType DEF TypeInv, TypeOK
  <2> QED BY <2>1, ThreadsAssumption DEF TypeInv, TypeOK
<1>5. /\ n' = n /\ removed' = removed /\ meta' = meta /\ world' = world /\ home' = home
      /\ unanswered' = unanswered \cup {mail}
  BY DEF IncomingEmail, room
<1>6. /\ job'.at = "post" /\ job'.mail = mail /\ job'.thread = t
      /\ job'.blind = Blind(mail, failed)
  BY <1>4 DEF Idle
<1>7. WorldInv'
  BY <1>5, WorldKept DEF ConversationInv, Grows
<1>8. UnansweredInv'
  <2> SUFFICES ASSUME NEW u \in unanswered'
               PROVE  /\ u.id \in Mids /\ \A i \in Range(u.refs) : Known(i)'
                      /\ \A s \in world' : s.id # u.id
                      /\ \A v \in unanswered' : v.id = u.id => v = u
                      /\ u.parent # NoId =>
                           /\ Known(u.parent)'
                           /\ \/ u.irt = u.parent
                              \/ u.irt = NoId /\ u.parent \in Range(u.refs)
    BY DEF UnansweredInv, AllKnown
  <2>1. /\ u.id \in Mids /\ \A i \in Range(u.refs) : Known(i)
        /\ \A s \in world : s.id # u.id
        /\ u.parent # NoId => /\ Known(u.parent)
                              /\ \/ u.irt = u.parent
                                 \/ u.irt = NoId /\ u.parent \in Range(u.refs)
    BY <1>3, <1>5 DEF ConversationInv, UnansweredInv, AllKnown
  <2>2. \A v \in unanswered' : v.id = u.id => v = u
    BY <1>3, <1>5 DEF ConversationInv, UnansweredInv
  <2> QED BY <1>5, <2>1, <2>2, KnownStays
<1>9. ~Known(mail.id)
  BY <1>3, Unknown
<1>10. ThreadsElse({mail.id})
  BY <1>1, <1>f, <1>t, FoundNoted DEF TypeInv, ThreadsElse
<1>11. AgreeInv'
  BY <1>3, <1>5, <1>9, <1>10, AgreeMail DEF ConversationInv
<1>12. HandInv'
  BY <1>5, <1>6 DEF HandInv
<1>13. MapsThreads'
  <2> SUFFICES ASSUME mail.parent # NoId, GetEvent(home[mail.parent]),
                      ~Blind(mail, failed)
               PROVE  \/ t = home[mail.parent]
                      \/ mail.irt = NoId /\ \E i \in Range(mail.refs) :
                                              i # NoId /\ t = home[i]
    <3>1. mail # NoMail
      BY <1>1, ThreadsAssumption
    <3>2. GetEvent(NoEvent)' = FALSE
      BY DEF GetEvent
    <3>3. \A e : GetEvent(e)' = GetEvent(e)
      BY <1>5 DEF GetEvent
    <3>4. Answers' = IF mail.parent = NoId THEN NoEvent ELSE home[mail.parent]
      BY <1>5, <1>6, <3>1 DEF Answers
    <3>5. CASE mail.parent = NoId
      BY <3>2, <3>4, <3>5 DEF MapsThreads, GetEvent
    <3>6. CASE mail.parent # NoId
      BY <1>5, <1>6, <3>3, <3>4, <3>6 DEF MapsThreads, GetEvent
    <3> QED BY <3>5, <3>6
  <2>1. ~(mail.irt = NoId /\ mail.refs = <<>>)
    BY <1>3 DEF Range
  <2>2. t = getThreadID(mail.irt, mail.refs, failed)
    BY <1>4, <2>1
  <2> QED BY <1>1, <1>3, <2>2, FindsThread DEF ConversationInv
<1> QED BY <1>7, <1>8, <1>11, <1>12, <1>13 DEF ConversationInv

\* The mail in hand, or the notice about one, is posted.
LEMMA ConversationPost ==
  ASSUME TypeInv, TypeInv', ConversationInv, Grows, Post \/ Notice
  PROVE  ConversationInv'
<1> DEFINE refs == meta'[n + 1].refs
<1>1. /\ ThreadsStay /\ home' = home /\ world' = world /\ unanswered' = unanswered
  BY ThreadsSame DEF Post, Notice, notes
<1>2. n \in Nat /\ n + 1 <= MaxEvents /\ MaxEvents \in Nat
  BY ThreadsAssumption DEF TypeInv, TypeOK, FitsInv, Post, Notice
<1>3. CASE Post
  <2> DEFINE h == [thread |-> IF job.thread = NoEvent THEN n + 1 ELSE job.thread,
                   id |-> job.mail.id, refs |-> job.mail.refs,
                   domain |-> job.mail.domain]
  <2>1. /\ job.at = "post" /\ job'.at = "note" /\ job'.mail = job.mail
    BY <1>3 DEF Post, TypeInv, TypeOK, Job
  <2>2. job.mail \in unanswered
    BY <2>1 DEF ConversationInv, HandInv
  <2>3. Add(n + 1, h)
    BY <1>3 DEF Post
  <2>4. h.refs = job.mail.refs
    OBVIOUS
  <2> HIDE DEF h
  <2>5. n' = n + 1 /\ meta'[n + 1] = h
    BY <1>2, <2>3, AddKeeps
  <2>6. \A i \in Range(refs) : Known(i)'
    BY <2>2, <2>4, <2>5, KnownStays DEF ConversationInv, UnansweredInv, AllKnown
  <2>7. WorldInv'
    BY <1>1, <2>5, <2>6, WorldKept DEF ConversationInv, Grows
  <2>8. HandInv'
    BY <1>1, <2>1, <2>2 DEF HandInv
  <2>9. MapsThreads'
    BY <2>1 DEF MapsThreads
  <2> QED BY <1>1, <2>7, <2>8, <2>9, UnansweredKept, AgreeKept DEF ConversationInv
<1>4. CASE Notice
  <2> DEFINE h == [thread |-> job.thread, id |-> job.out.id,
                   refs |-> job.out.refs, domain |-> job.out.domain]
  <2>1. /\ job.at = "notice" /\ job'.at = "save" /\ job'.mail = job.mail
        /\ job'.out = job.out /\ job'.event = job.event
    BY <1>4 DEF Notice, TypeInv, TypeOK, Job
  <2>2. /\ job.mail = NoMail /\ job.out \in world /\ job.out.refs # <<>>
        /\ job.out.id = MessageID(job.event, Domain) /\ meta[job.event] = NoMeta
    BY <2>1 DEF ConversationInv, HandInv
  <2>3. Add(n + 1, h)
    BY <1>4 DEF Notice
  <2>4. h.refs = job.out.refs /\ h \in Meta
    BY <2>1 DEF TypeInv, JobInv, Meta, Sent
  <2> HIDE DEF h
  <2>5. n' = n + 1 /\ meta'[n + 1] = h /\ \A e \in 1..n : meta'[e] = meta[e]
    BY <1>2, <2>3, AddKeeps
  <2>6. \A i \in Range(refs) : Known(i)'
    BY <2>2, <2>4, <2>5, KnownStays DEF ConversationInv, WorldInv, AllKnown
  <2>7. WorldInv'
    BY <1>1, <2>5, <2>6, WorldKept DEF ConversationInv, Grows
  <2>8. HandInv'
    <3>1. meta'[job.event] = NoMeta
      BY <2>1, <2>2, <2>5 DEF TypeInv, JobInv
    <3>2. meta'[n'] # NoMeta /\ meta'[n'].refs # <<>>
      BY <2>2, <2>4, <2>5, ThreadsAssumption
    <3> QED BY <1>1, <2>1, <2>2, <3>1, <3>2 DEF HandInv, MessageID
  <2>9. MapsThreads'
    BY <2>1 DEF MapsThreads
  <2> QED BY <1>1, <2>7, <2>8, <2>9, UnansweredKept, AgreeKept DEF ConversationInv
<1> QED BY <1>3, <1>4

\* A mail is refused or its handler fails, the process stops, the mail has its
\* body posted, the cache drops an entry, an event is removed, or nothing
\* happens.
LEMMA ConversationOthers ==
  ASSUME TypeInv, TypeInv', ConversationInv, Grows,
         \/ PostUnknown \/ PostFailed \/ Body \/ NoticeFailed \/ Restart \/ Evict
         \/ \E e \in Events : Redact(e)
         \/ UNCHANGED vars
  PROVE  ConversationInv'
<1>1. ThreadsStay /\ home' = home /\ world' = world /\ unanswered' = unanswered
  <2>1. CASE NoticeFailed
    BY <2>1, ThreadsSame DEF NoticeFailed, Finish, notes, ConversationInv, HandInv
  <2>2. CASE Restart
    BY <2>2 DEF Restart, ThreadsStay
  <2>3. CASE Evict
    BY <2>3 DEF Evict, ThreadsStay, TypeInv, TypeOK
  <2> QED BY <2>1, <2>2, <2>3, ThreadsSame
          DEF PostUnknown, PostFailed, Body, Redact, vars, notes
<1>2. UnansweredInv' /\ AgreeInv'
  BY <1>1, UnansweredKept, AgreeKept DEF ConversationInv
<1>3. CASE PostUnknown
  <2>1. /\ job.at = "post" /\ job'.at = "note" /\ job'.mail = job.mail
        /\ n' = n /\ meta' = meta
    BY <1>3 DEF PostUnknown, TypeInv, TypeOK, Job, room
  <2>2. WorldInv'
    BY <1>1, <2>1, WorldKept DEF ConversationInv, Grows
  <2>3. HandInv' /\ MapsThreads'
    BY <1>1, <2>1 DEF ConversationInv, HandInv, MapsThreads
  <2> QED BY <1>2, <2>2, <2>3 DEF ConversationInv
<1>4. CASE PostFailed \/ NoticeFailed \/ Restart
  <2>1. job'.at = "idle" /\ n' = n /\ meta' = meta
    BY <1>4 DEF PostFailed, NoticeFailed, Restart, Finish, Idle, room
  <2>2. WorldInv'
    BY <1>1, <2>1, WorldKept DEF ConversationInv, Grows
  <2>3. HandInv' /\ MapsThreads'
    BY <2>1 DEF HandInv, MapsThreads
  <2> QED BY <1>2, <2>2, <2>3 DEF ConversationInv
<1>5. CASE Body
  <2>1. /\ job.at = "body" /\ job'.at = "autoreply" /\ job'.mail = job.mail
        /\ job'.thread = job.thread
    BY <1>5 DEF Body, TypeInv, TypeOK, Job
  <2>2. \A e \in (n + 1)..n' : meta'[e] = NoMeta
    <3>1. n + 1 <= MaxEvents
      BY <2>1, ThreadsAssumption DEF TypeInv, TypeOK, FitsInv
    <3>2. CASE Add(n + 1, NoMeta)
      BY <3>1, <3>2, AddKeeps
    <3>3. CASE n' = n
      BY <3>3 DEF Grows
    <3> QED BY <1>5, <3>2, <3>3 DEF Body
  <2>3. WorldInv'
    BY <1>1, <2>2, WorldKept DEF ConversationInv
  <2>0. job.mail \in unanswered /\ job.mail.id \in Ids
    BY <2>1 DEF ConversationInv, HandInv, TypeInv, TypeOK, Mail
  <2>4. HandInv' /\ MapsThreads'
    <3>1. job.mail.id \notin unnoted' =>
            tid'[job.mail.id] = job.thread /\ acTid'[job.mail.id] = job.thread
      BY <1>1, <2>0, <2>1 DEF ThreadsStay, ConversationInv, HandInv
    <3> QED BY <1>1, <2>0, <2>1, <3>1 DEF HandInv, MapsThreads
  <2> QED BY <1>2, <2>3, <2>4 DEF ConversationInv
<1>6. CASE (\E e \in Events : Redact(e)) \/ Evict \/ UNCHANGED vars
  <2>1. job' = job /\ n' = n /\ meta' = meta /\ removed \subseteq removed'
    BY <1>6 DEF Redact, Evict, vars, room
  <2>2. WorldInv'
    BY <1>1, <2>1, WorldKept DEF ConversationInv, Grows
  <2>3. HandInv'
    <3>1. ASSUME job.at \in {"body", "autoreply"}, job.mail.id \notin unnoted'
          PROVE  tid'[job.mail.id] = job.thread /\ acTid'[job.mail.id] = job.thread
      <4>1. job.mail \in unanswered /\ job.mail.id \in Ids
        BY <3>1 DEF ConversationInv, HandInv, TypeInv, TypeOK, Mail
      <4> QED BY <1>1, <3>1, <4>1 DEF ThreadsStay, ConversationInv, HandInv
    <3> QED BY <1>1, <2>1, <3>1 DEF ConversationInv, HandInv, MessageID
  <2>4. MapsThreads'
    <3>1. Answers' = Answers
      BY <1>1, <2>1 DEF Answers
    <3>2. GetEvent(Answers)' => GetEvent(Answers)
      BY <2>1, <3>1 DEF GetEvent
    <3> QED BY <1>1, <2>1, <3>1, <3>2 DEF ConversationInv, MapsThreads
  <2> QED BY <1>2, <2>2, <2>3, <2>4 DEF ConversationInv
<1> QED BY <1>3, <1>4, <1>5, <1>6

\* The mail in hand is noted, and nobody refers to it yet.
LEMMA ConversationNote ==
  ASSUME TypeInv, TypeInv', ConversationInv, Grows, Note
  PROVE  ConversationInv'
<1>1. /\ home' = home /\ world' = world /\ unanswered' = unanswered
      /\ n' = n /\ meta' = meta
  BY DEF Note, room
<1>2. /\ job.at = "note" /\ job'.at = "body" /\ job'.mail = job.mail
      /\ job'.thread = job.thread
  BY DEF Note, TypeInv, TypeOK, Job
<1>3. job.mail \in unanswered /\ job.mail.id \in Mids /\ \A s \in world : s.id # job.mail.id
  BY <1>2 DEF ConversationInv, HandInv, UnansweredInv
<1>4. ~Known(job.mail.id) /\ job.mail.id \in Ids /\ job.mail.id # NoId
  BY <1>3, Unknown, IdsDiffer
<1>5. PICK refused \in SUBSET {job.mail.id} :
        setThreadID({job.mail.id}, job.thread, refused)
  BY DEF Note
<1>6. /\ ThreadsElse({job.mail.id})
      /\ job.mail.id \notin unnoted' =>
           tid'[job.mail.id] = job.thread /\ acTid'[job.mail.id] = job.thread
  <2>1. {job.mail.id} \in SUBSET Ids /\ job.thread \in Events \cup {NoEvent}
    BY <1>4 DEF TypeInv, TypeOK, Job
  <2>2. /\ \A i \in Ids : i \notin {job.mail.id} =>
             /\ tid'[i] = tid[i] /\ acTid'[i] = acTid[i]
             /\ i \in unnoted' <=> i \in unnoted
        /\ \A i \in {job.mail.id} :
             /\ tid'[i] = job.thread
             /\ i \in unnoted' <=> i \in refused
             /\ acTid'[i] = IF i \in refused THEN acTid[i] ELSE job.thread
    BY <1>5, <2>1, NotedType DEF TypeInv
  <2> QED BY <2>2 DEF ThreadsElse
<1>7. WorldInv' /\ UnansweredInv'
  BY <1>1, WorldKept, UnansweredKept DEF ConversationInv, Grows
<1>8. AgreeInv'
  BY <1>1, <1>3, <1>4, <1>6, AgreeMail DEF ConversationInv
<1>9. HandInv'
  BY <1>1, <1>2, <1>3, <1>6 DEF HandInv
<1>10. MapsThreads'
  BY <1>2 DEF MapsThreads
<1> QED BY <1>7, <1>8, <1>9, <1>10 DEF ConversationInv

\* IncomingEmail returns: from now on the mail may be referred to.
LEMMA ConversationEnd ==
  ASSUME TypeInv, TypeInv', ConversationInv, Grows, EndIncoming
  PROVE  ConversationInv'
<1> DEFINE mail == job.mail
<1>1. /\ n' = n /\ meta' = meta /\ ThreadsElse({}) /\ job'.at = "idle"
      /\ world' = world \cup {AsSent(mail)} /\ unanswered' = unanswered \ {mail}
      /\ mail.id # NoId => home' = [home EXCEPT ![mail.id] = job.thread]
  BY DEF EndIncoming, Answered, Idle, room, notes, threads, ThreadsElse
<1>2. /\ mail \in unanswered /\ job.at = "autoreply"
      /\ mail.id \notin unnoted =>
           tid[mail.id] = job.thread /\ acTid[mail.id] = job.thread
  BY DEF EndIncoming, ConversationInv, HandInv
<1>3. /\ mail.id \in Mids /\ AllKnown(mail.refs)
      /\ \A u \in unanswered : u.id = mail.id => u = mail
  BY <1>2 DEF ConversationInv, UnansweredInv
<1>4. mail.id \in Ids /\ mail.id # NoId
  BY <1>3, IdsDiffer
<1>5. AsSent(mail).id = mail.id /\ AsSent(mail).refs = mail.refs
  BY DEF AsSent
<1> HIDE DEF mail
<1>6. \A i \in {mail.id} : Known(i)'
  BY <1>1, <1>3, <1>5 DEF Known
<1>7. WorldInv'
  <2>1. \A i \in Range(mail.refs) : Known(i)'
    BY <1>3, KnownStays DEF AllKnown
  <2>2. \A s \in world' \ world : Known(s.id)' /\ \A i \in Range(s.refs) : Known(i)'
    BY <1>1, <1>5, <1>6, <2>1
  <2> QED BY <1>1, <2>2, WorldKept DEF ConversationInv, Grows
<1>8. UnansweredInv'
  BY <1>1, <1>3, <1>5, UnansweredKept DEF ConversationInv
<1>9. \A i \in Ids : home'[i] = IF i = mail.id THEN job.thread ELSE home[i]
  BY <1>1, <1>4 DEF TypeInv, TypeOK
<1>10. AgreeInv'
  <2>1. \A i : Known(i)' => Known(i) \/ i = mail.id
    BY <1>1, <1>5, KnownNew DEF Grows
  <2>2. \A e \in Events : MessageID(e, Domain) \in Ids /\ MessageID(e, Domain) # mail.id
    BY <1>3, IdsDiffer, ThreadsAssumption
  <2>3. \A i \in Ids : Known(i)' /\ i \notin unnoted' =>
                        tid'[i] = home'[i] /\ acTid'[i] = home'[i]
    BY <1>1, <1>2, <1>9, <2>1 DEF ConversationInv, AgreeInv, ThreadsElse
  <2>4. ASSUME NEW e \in Events, e > n'
        PROVE  Blank(MessageID(e, Domain))'
    <3>1. Blank(MessageID(e, Domain))
      BY <1>1, <2>4 DEF ConversationInv, AgreeInv
    <3>2. MessageID(e, Domain)' = MessageID(e, Domain)
      BY DEF MessageID
    <3> QED BY <1>1, <1>9, <2>2, <3>1, <3>2 DEF Blank, ThreadsElse
  <2>5. tid'[NoId] = NoEvent /\ acTid'[NoId] = NoEvent
    BY <1>1 DEF ConversationInv, AgreeInv, ThreadsElse, Ids
  <2> QED BY <2>3, <2>4, <2>5 DEF AgreeInv
<1>11. HandInv' /\ MapsThreads'
  BY <1>1 DEF HandInv, MapsThreads
<1> QED BY <1>7, <1>8, <1>10, <1>11 DEF ConversationInv

\* A mail of a user leaves, as event n + 1.
LEMMA ConversationLeaves ==
  ASSUME TypeInv, TypeInv', ConversationInv, Grows, NEW m \in Sent,
         n' = n + 1, meta'[n + 1] = NoMeta, ThreadsStay, home' = home,
         unanswered' = unanswered, world' = world \cup {m},
         m.id = MessageID(n + 1, Domain), m.refs # <<>>,
         \A i \in Range(m.refs) : Known(i) \/ i = m.id,
         job'.at = "notice", job'.mail = NoMail, job'.event = n + 1, job'.out = m
  PROVE  ConversationInv'
<1>1. n \in Nat /\ n + 1 \in Events
  BY ThreadsAssumption DEF Grows, TypeInv, TypeOK
<1>2. m.id \notin Mids
  BY <1>1, IdsDiffer, ThreadsAssumption
<1>3. Known(m.id)'
  <2>1. n + 1 \in 1..n' /\ m.id = MessageID(n + 1, Domain)
    BY <1>1
  <2> QED BY <2>1 DEF Known, MessageID
<1>4. \A i \in Range(m.refs) : Known(i)'
  BY <1>3, KnownStays
<1>5. \A s \in world' \ world : s = m
  OBVIOUS
<1>6. \A e \in (n + 1)..n' : meta'[e] = NoMeta
  BY <1>1
<1>7. WorldInv'
  BY <1>3, <1>4, <1>5, <1>6, WorldKept DEF ConversationInv
<1>8. \A u \in unanswered : u.id \in Mids
  BY DEF ConversationInv, UnansweredInv
<1>9. UnansweredInv'
  BY <1>2, <1>5, <1>8, UnansweredKept DEF ConversationInv
<1>10. AgreeInv'
  BY <1>2, <1>5, AgreeKept DEF ConversationInv
<1>11. HandInv' /\ MapsThreads'
  BY DEF HandInv, MapsThreads, MessageID
<1> QED BY <1>7, <1>9, <1>10, <1>11 DEF ConversationInv

\* Users write.
LEMMA ConversationSend ==
  ASSUME TypeInv, TypeInv', OneDomain, ConversationInv, Grows,
         RunSend \/ \E t \in OpenThreads : SendEmailReply(t)
  PROVE  ConversationInv'
<1>1. n \in Nat /\ n + 1 <= MaxEvents /\ n + 1 \in Events /\ Add(n + 1, NoMeta)
  <2>1. n \in Nat /\ MaxEvents \in Nat
    BY ThreadsAssumption DEF TypeInv, TypeOK
  <2>2. n + 3 <= MaxEvents /\ Add(n + 1, NoMeta)
    BY ReplyLeaves DEF RunSend, Fits
  <2> QED BY <2>1, <2>2
<1>2. n' = n + 1 /\ meta'[n + 1] = NoMeta
  BY <1>1, AddKeeps
<1>3. ThreadsStay /\ home' = home /\ unanswered' = unanswered
  <2>1. CASE RunSend
    BY <2>1, ThreadsSame DEF RunSend, notes
  <2> QED BY <2>1, ReplyLeaves, ThreadsSame DEF notes
<1>4. CASE RunSend
  <2> DEFINE id == MessageID(n + 1, Domain)
             m == [id |-> id, refs |-> <<id>>, domain |-> Domain]
  <2>1. id \in Ids
    BY <1>1, OurIds, ThreadsAssumption
  <2>2. /\ job' = [Idle EXCEPT !.at = "notice", !.thread = n + 1, !.event = n + 1,
                               !.out = m]
        /\ world' = world \cup {m}
    BY <1>4 DEF RunSend
  <2>3. m.refs # <<>> /\ Range(m.refs) = {id} /\ m.id = id
    <3>1. DOMAIN m.refs = {1} /\ m.refs[1] = id /\ Len(m.refs) = 1
      OBVIOUS
    <3> QED BY <3>1 DEF Range
  <2>4. m \in Sent
    BY <2>1, ThreadsAssumption DEF Sent
  <2> HIDE DEF m
  <2>5. /\ job'.at = "notice" /\ job'.mail = NoMail /\ job'.event = n + 1
        /\ job'.out = m
    BY <2>2 DEF Idle
  <2> QED BY <1>2, <1>3, <2>2, <2>3, <2>4, <2>5, ConversationLeaves
<1>5. ASSUME NEW t \in OpenThreads, SendEmailReply(t)
      PROVE  ConversationInv'
  <2>2. CASE job' = job /\ world' = world
    <3>1. job'.at = "idle"
      BY <1>5, <2>2, ReplyLeaves DEF Idle
    <3>2. \A e \in (n + 1)..n' : meta'[e] = NoMeta
      BY <1>1, <1>2
    <3>3. WorldInv' /\ UnansweredInv' /\ AgreeInv'
      BY <1>3, <2>2, <3>2, WorldKept, UnansweredKept, AgreeKept DEF ConversationInv
    <3>4. HandInv' /\ MapsThreads'
      BY <3>1 DEF HandInv, MapsThreads
    <3> QED BY <3>3, <3>4 DEF ConversationInv
  <2>3. ASSUME NEW p \in Events, Leaves(t, p)
        PROVE  ConversationInv'
    <3> DEFINE id == MessageID(n + 1, meta[p].domain)
               m == Continue(p, id)
    <3>1. HasParent(p)
      BY <2>3 DEF Leaves
    <3>2. p \in 1..n /\ meta[p] # NoMeta
      BY <3>1 DEF HasParent, GetEvent
    <3>3. meta[p] \in Meta
      BY <3>2 DEF TypeInv, TypeOK
    <3>4. meta[p].domain = Domain
      BY <3>3 DEF Meta, OneDomain
    <3>5. id = MessageID(n + 1, Domain) /\ id \in Ids
      BY <1>1, <3>4, OurIds, ThreadsAssumption
    <3>11. /\ job'.at = "notice" /\ job'.mail = NoMail /\ job'.event = n + 1
           /\ job'.out = m /\ world' = world \cup {m}
      BY <2>3, LeavesOut
    <3> HIDE DEF id
    <3>6. m \in Sent /\ m.id = id
      BY <3>1, <3>5, ContinueType DEF TypeInv
    <3>7. /\ m.refs # <<>>
          /\ Range(m.refs) = (IF meta[p].refs = <<>> THEN {MessageID(p, meta[p].domain)}
                              ELSE Range(meta[p].refs)) \cup {id}
      BY <3>1, <3>5, ContinueRefs
    <3>8. meta[p].refs = <<>> => Known(MessageID(p, meta[p].domain))
      BY <3>2, <3>4 DEF Known
    <3>9. meta[p].refs # <<>> => \A i \in Range(meta[p].refs) : Known(i)
      BY <3>2 DEF ConversationInv, WorldInv, AllKnown
    <3>10. \A i \in Range(m.refs) : Known(i) \/ i = id
      BY <3>7, <3>8, <3>9
    <3> HIDE DEF m
    <3> QED BY <1>2, <1>3, <3>5, <3>6, <3>7, <3>10, <3>11, ConversationLeaves
  <2> QED BY <1>5, <2>2, <2>3, ReplyLeaves
<1> QED BY <1>4, <1>5

\* The mail of a user is noted, as is the notice about it.
LEMMA ConversationSave ==
  ASSUME TypeInv, TypeInv', ConversationInv, Grows, Save
  PROVE  ConversationInv'
<1>1. /\ job.mail = NoMail /\ job.out.id = MessageID(job.event, Domain)
      /\ meta[n] # NoMeta /\ meta[n].refs # <<>>
  BY DEF Save, ConversationInv, HandInv
<1>2. /\ job.event \in 1..n /\ n \in Events /\ job.event \in Events
  BY ThreadsAssumption DEF Save, TypeInv, TypeOK, JobInv
<1>3. /\ n' = n /\ meta' = meta /\ job'.at = "idle" /\ world' = world
      /\ unanswered' = unanswered /\ home' = [home EXCEPT ![job.out.id] = job.thread]
  BY <1>1 DEF Save, Finish, Idle, room
<1> DEFINE a == MessageID(job.event, Domain)
           b == MessageID(n, Domain)
<1>4. PICK refused \in SUBSET SavedIds : setThreadID({a, b}, job.thread, refused)
  BY SaveSaves DEF Saves, SavedIds
<1>5. a \in Ids /\ b \in Ids /\ a # NoId /\ b # NoId
  BY <1>2, IdsDiffer, ThreadsAssumption
<1>6. \A e \in Events : e > n => /\ MessageID(e, Domain) # a
                                 /\ MessageID(e, Domain) # b
                                 /\ MessageID(e, Domain) \in Ids
  BY <1>2, IdsDiffer, ThreadsAssumption
<1>7. ~Known(b)
  BY <1>1, <1>2, Unknown
<1> HIDE DEF a, b
<1>12. /\ \A i \in Ids : i # a /\ i # b =>
             /\ tid'[i] = tid[i] /\ acTid'[i] = acTid[i]
             /\ i \in unnoted' <=> i \in unnoted
       /\ a \notin unnoted' => tid'[a] = job.thread /\ acTid'[a] = job.thread
  <2> DEFINE ab == {a, b}
  <2>1. SavedIds = ab /\ ab \in SUBSET Ids
    BY <1>5 DEF SavedIds, a, b
  <2>2. job.thread \in Events
    BY DEF Save, TypeInv, JobInv
  <2>3. refused \in SUBSET ab /\ setThreadID(ab, job.thread, refused) /\ TypeOK
    BY <1>4, <2>1 DEF TypeInv
  <2> HIDE DEF ab
  <2>4. /\ \A i \in Ids : i \notin ab =>
             /\ tid'[i] = tid[i] /\ acTid'[i] = acTid[i]
             /\ i \in unnoted' <=> i \in unnoted
        /\ \A i \in ab :
             /\ tid'[i] = job.thread
             /\ i \in unnoted' <=> i \in refused
             /\ acTid'[i] = IF i \in refused THEN acTid[i] ELSE job.thread
    BY <2>1, <2>2, <2>3, NotedType
  <2> QED BY <2>4 DEF ab
<1>8. \A i \in Ids : home'[i] = IF i = a THEN job.thread ELSE home[i]
  BY <1>1, <1>3, <1>5 DEF TypeInv, TypeOK, a
<1>9. AgreeInv'
  <2>1. \A i : Known(i)' => Known(i)
    BY <1>3, KnownNew DEF Grows
  <2>2. tid'[NoId] = NoEvent /\ acTid'[NoId] = NoEvent
    BY <1>5, <1>12 DEF ConversationInv, AgreeInv, Ids
  <2>3. \A i \in Ids : Known(i)' /\ i \notin unnoted' =>
                        tid'[i] = home'[i] /\ acTid'[i] = home'[i]
    BY <1>7, <1>8, <1>12, <2>1 DEF ConversationInv, AgreeInv
  <2>4. ASSUME NEW e \in Events, e > n'
        PROVE  Blank(MessageID(e, Domain))'
    <3>1. Blank(MessageID(e, Domain))
      BY <1>3, <2>4 DEF ConversationInv, AgreeInv
    <3>2. MessageID(e, Domain)' = MessageID(e, Domain)
      BY DEF MessageID
    <3> QED BY <1>3, <1>6, <1>8, <1>12, <2>4, <3>1, <3>2 DEF Blank
  <2> QED BY <2>2, <2>3, <2>4 DEF AgreeInv
<1>10. WorldInv' /\ UnansweredInv'
  BY <1>3, WorldKept, UnansweredKept DEF ConversationInv, Grows
<1>11. HandInv' /\ MapsThreads'
  BY <1>3 DEF HandInv, MapsThreads
<1> QED BY <1>9, <1>10, <1>11 DEF ConversationInv

\* "Map email threads to matrix threads", for a bridge with one domain,
\* correspondents who give their mails Message-IDs, and a room without
\* autoreply: an answer goes to the thread of the mail that it answers, unless
\* that could not be noted or looked up, through other failed calls, restarts,
\* repeated deliveries, refusals and removed events.
THEOREM ThreadsAreMapped ==
  ASSUME OneDomain, ~Autoreply
  PROVE  Spec => []MapsThreads
<1>1. Init => ConversationInv
  <2> SUFFICES ASSUME Init PROVE ConversationInv
    OBVIOUS
  <2>1. WorldInv
    BY DEF Init, WorldInv, Known, AllKnown, Range
  <2>2. AgreeInv
    <3>1. NoId \in Ids /\ \A e \in Events : MessageID(e, Domain) \in Ids
      BY IdsDiffer, ThreadsAssumption DEF Ids
    <3> QED BY <3>1 DEF Init, AgreeInv, Blank
  <2> QED BY <2>1, <2>2
          DEF Init, ConversationInv, UnansweredInv, HandInv, MapsThreads, Idle
<1>2. TypeInv /\ TypeInv' /\ ConversationInv /\ [Next]_vars => ConversationInv'
  <2> SUFFICES ASSUME TypeInv, TypeInv', ConversationInv, [Next]_vars
               PROVE  ConversationInv'
    OBVIOUS
  <2>1. Grows
    BY GrowsStep
  <2>2. ~SendAutoreply
    BY AutoreplyLeaves
  <2> QED BY <2>1, <2>2, ConversationIncoming, ConversationPost, ConversationOthers,
             ConversationNote, ConversationEnd, ConversationSend, ConversationSave
          DEF Next
<1>3. ConversationInv => MapsThreads
  BY DEF ConversationInv
<1> QED BY <1>1, <1>2, <1>3, TypeInit, TypeStep, PTL DEF Spec

----------------------------------------------------------------------------
(* Autoreplies *)

\* Nothing fails or is removed but posts in threads that the homeserver does not
\* know, mail programs write References, and nobody answers a mail that the
\* bridge was not sent.
Undisturbed ==
  /\ MaxFaults = 0 /\ MaxRemoved = 0 /\ ~AnyUnknown
  /\ Foreign = {} /\ "inReplyTo" \notin Styles

\* The homeserver has what the cache has.
Kept == acTid = tid /\ acLast = last /\ unnoted = {}

\* A Message-ID with a thread, which the handler in hand does not write.
Lasting(i) == tid[i] # NoEvent /\ (job.mail # NoMail => i # job.mail.id)
Traced(S)  == \E i \in S : Lasting(i)

\* Threads are events of the room.
BoundInv ==
  /\ removed = {} /\ unanswered \subseteq {job.mail}
  /\ job.thread <= n /\ \A i \in Ids : tid[i] <= n
  /\ \A e \in 1..n : meta[e] # NoMeta => meta[e].thread <= n

\* Every mail that is out leads to a thread, by its references or its own ID,
\* once its handler is done.
TraceInv ==
  /\ \A i \in Mids : tid[i] # NoEvent =>
       (\E s \in world : s.id = i) \/ (job.mail # NoMail /\ job.mail.id = i)
  /\ job.mail # NoMail =>
       job.mail.id \in Mids /\ \A s \in world : s.id # job.mail.id
  /\ \A s \in world : \/ job.at \in {"notice", "save"} /\ s = job.out
                      \/ Traced(Range(s.refs) \cup {s.id})

\* A mail for which a thread is started answers nothing.
StartedInv ==
  /\ job.at = "post" =>
       IF job.thread = NoEvent
       THEN job.new /\ job.mail.parent = NoId /\ job.mail.refs = <<>>
       ELSE ~job.new /\ Traced(Range(job.mail.refs))
  /\ job.at \in {"note", "body", "autoreply"} =>
       /\ job.thread = NoEvent => Traced(Range(job.mail.refs))
       /\ job.thread # NoEvent /\ job.new =>
            /\ job.mail.parent = NoId
            /\ meta[job.thread] # NoMeta /\ meta[job.thread].refs = <<>>
            /\ IF job.at = "note" THEN job.event = job.thread
               ELSE last[job.thread] = job.thread
  /\ job.at \in {"body", "autoreply"} => tid[job.mail.id] = job.thread
  /\ job.at \in {"notice", "save"} =>
       /\ MessageID(job.event, Domain) \in Range(job.out.refs)
       /\ job.mail # NoMail => /\ job.mail.parent = NoId
                               /\ tid[job.mail.id] = job.thread

AutoreplyInv == BoundInv /\ TraceInv /\ StartedInv

\* No call fails.
LEMMA QuietFault ==
  ASSUME TypeInv, Undisturbed, NEW fails, FaultIf(fails)
  PROVE  ~fails
  BY DEF FaultIf, Fault, Undisturbed, TypeInv, TypeOK

\* What is noted is kept.
LEMMA QuietNoted ==
  ASSUME TypeInv, NEW ids \in SUBSET Ids, NEW t \in Events \cup {NoEvent},
         setThreadID(ids, t, {})
  PROVE  /\ tid' = [i \in Ids |-> IF i \in ids THEN t ELSE tid[i]]
         /\ Kept => acTid' = tid' /\ unnoted' = {}
<1>1. /\ tid' = [i \in Ids |-> IF i \in ids THEN t ELSE tid[i]]
      /\ acTid' = [i \in Ids |-> IF i \in ids THEN t ELSE acTid[i]]
      /\ unnoted' = unnoted \ ids
  BY DEF setThreadID
<1>2. CASE Kept
  BY <1>1, <1>2 DEF Kept
<1> QED BY <1>1, <1>2

\* The thread of a mail is looked up, and noted.
LEMMA QuietFinds ==
  ASSUME TypeInv, Undisturbed, NEW mail \in Mail, NEW failed, NEW refused,
         NEW t \in Events \cup {NoEvent}, Finds(mail, failed, refused, t)
  PROVE  /\ failed = {}
         /\ \A i \in Ids : tid'[i] = IF i = mail.id /\ t # NoEvent THEN t ELSE tid[i]
         /\ Kept => acTid' = tid' /\ unnoted' = {}
<1>1. failed = {} /\ refused = {}
  BY QuietFault DEF Finds
<1>2. mail.id \in Ids
  BY DEF Mail
<1>3. CASE t = NoEvent
  <2>1. tid' = tid /\ acTid' = acTid /\ unnoted' = unnoted
    BY <1>3 DEF Finds, threads
  <2> QED BY <1>1, <1>3, <2>1 DEF Kept
<1>4. CASE t # NoEvent
  <2>1. setThreadID({mail.id}, t, {}) /\ {mail.id} \in SUBSET Ids
    BY <1>1, <1>2, <1>4 DEF Finds
  <2>2. /\ tid' = [i \in Ids |-> IF i \in {mail.id} THEN t ELSE tid[i]]
        /\ Kept => acTid' = tid' /\ unnoted' = {}
    BY <2>1, QuietNoted
  <2> QED BY <1>1, <1>4, <2>2
<1> QED BY <1>3, <1>4

\* A mail is noted, and the last event of its thread.
LEMMA QuietNote ==
  ASSUME TypeInv, Undisturbed, Note, job.mail.id \in Ids
  PROVE  /\ \A i \in Ids : tid'[i] = IF i = job.mail.id THEN job.thread ELSE tid[i]
         /\ last' = IF job.thread = NoEvent THEN last
                    ELSE [last EXCEPT ![job.thread] = job.event]
         /\ Kept => Kept'
<1>1. PICK refused \in SUBSET {job.mail.id}, lost \in BOOLEAN :
        /\ FaultIf(refused # {} \/ lost)
        /\ setThreadID({job.mail.id}, job.thread, refused)
        /\ IF job.thread # NoEvent THEN setLastEventID(job.thread, job.event, lost)
           ELSE ~lost /\ UNCHANGED lasts
  BY Zenon DEF Note
<1>2. refused = {} /\ ~lost
  BY <1>1, QuietFault
<1>3. {job.mail.id} \in SUBSET Ids /\ job.thread \in Events \cup {NoEvent}
  BY DEF TypeInv, TypeOK, Job
<1>4. /\ tid' = [i \in Ids |-> IF i \in {job.mail.id} THEN job.thread ELSE tid[i]]
      /\ Kept => acTid' = tid' /\ unnoted' = {}
  BY <1>1, <1>2, <1>3, QuietNoted
<1>5. CASE job.thread = NoEvent
  BY <1>1, <1>4, <1>5 DEF lasts, Kept
<1>6. CASE job.thread # NoEvent
  <2>1. /\ last' = [last EXCEPT ![job.thread] = job.event]
        /\ acLast' = [acLast EXCEPT ![job.thread] = job.event]
    BY <1>1, <1>2, <1>6 DEF setLastEventID
  <2> QED BY <1>4, <1>6, <2>1 DEF Kept
<1> QED BY <1>5, <1>6

\* The mail that left is noted.
LEMMA QuietSave ==
  ASSUME TypeInv, Undisturbed, Save
  PROVE  /\ \A i \in Ids : tid'[i] = IF i \in SavedIds THEN job.thread ELSE tid[i]
         /\ last' = [last EXCEPT ![job.thread] = n]
         /\ Kept => Kept'
<1>1. PICK refused \in SUBSET SavedIds, lost \in BOOLEAN : Saves(refused, lost)
  BY SaveSaves
<1>2. refused = {} /\ ~lost
  BY <1>1, QuietFault DEF Saves
<1>3. SavedIds \in SUBSET Ids /\ job.thread \in Events \cup {NoEvent}
  <2>1. job.event \in Events /\ n \in Events /\ job.thread \in Events
    BY ThreadsAssumption DEF Save, TypeInv, TypeOK, JobInv
  <2> QED BY <2>1, OurIds, ThreadsAssumption DEF SavedIds
<1>4. /\ tid' = [i \in Ids |-> IF i \in SavedIds THEN job.thread ELSE tid[i]]
      /\ Kept => acTid' = tid' /\ unnoted' = {}
  BY <1>1, <1>2, <1>3, QuietNoted DEF Saves
<1>5. /\ last' = [last EXCEPT ![job.thread] = n]
      /\ acLast' = [acLast EXCEPT ![job.thread] = n]
  BY <1>1, <1>2 DEF Saves, setLastEventID
<1> QED BY <1>4, <1>5 DEF Kept

\* A reply continues the last event noted for the thread.
LEMMA QuietReply ==
  ASSUME TypeInv, Undisturbed, NEW t, SendEmailReply(t)
  PROVE  \/ Leaves(t, getLastEventID(t))
         \/ job' = job /\ world' = world /\ ~HasParent(getLastEventID(t))
<1>1. ASSUME NEW p \in Events, Leaves(t, p) PROVE Leaves(t, getLastEventID(t))
  <2>1. p = getLastEventID(t)
    BY <1>1, QuietFault DEF Leaves, ParentIs
  <2> QED BY <1>1, <2>1
<1>2. FaultIf(HasParent(getLastEventID(t))) => ~HasParent(getLastEventID(t))
  BY QuietFault
<1> QED BY <1>1, <1>2, ReplyLeaves

\* So does an autoreply.
LEMMA QuietAutoreply ==
  ASSUME TypeInv, Undisturbed, SendAutoreply
  PROVE  AutoLeaves(getLastEventID(job.thread))
<1>1. PICK p \in Events : AutoLeaves(p)
  BY AutoreplyLeaves
<1>2. p = getLastEventID(job.thread)
  BY <1>1, QuietFault DEF AutoLeaves, ParentIs
<1> QED BY <1>1, <1>2

\* The homeserver has all that is noted, as long as no call fails.
LEMMA KeptStep ==
  ASSUME Undisturbed
  PROVE  TypeInv /\ Kept /\ [Next]_vars => Kept'
<1> SUFFICES ASSUME TypeInv, Kept, [Next]_vars PROVE Kept'
  OBVIOUS
<1>1. ASSUME NEW mail \in Arriving, IncomingEmail(mail) PROVE Kept'
  <2>1. mail \in Mail
    BY ArrivingType DEF TypeInv
  <2>2. mail.irt \in Ids /\ mail.refs \in Seq(Ids)
    BY <2>1 DEF Mail
  <2>3. PICK failed, refused, t : Finds(mail, failed, refused, t)
    BY <1>1, IncomingFinds
  <2>4. t \in Events \cup {NoEvent}
    <3>1. t \in 0..n /\ n \in Events \cup {NoEvent}
      BY <2>2, <2>3, ThreadIDType DEF Finds, TypeInv, TypeOK
    <3> QED BY <3>1, ThreadsAssumption
  <2>5. acTid' = tid' /\ unnoted' = {}
    BY <2>1, <2>3, <2>4, QuietFinds
  <2>6. lasts' = lasts
    BY <1>1 DEF IncomingEmail
  <2> QED BY <2>5, <2>6 DEF Kept, lasts
<1>2. CASE notes' = notes
  BY <1>2 DEF notes, threads, lasts, Kept
<1>3. CASE Note
  <2>1. job.mail.id \in Ids
    BY <1>3 DEF Note, TypeInv, JobInv, Mail
  <2> QED BY <1>3, <2>1, QuietNote
<1>4. CASE Save
  BY <1>4, QuietSave
<1>5. CASE Evict
  BY <1>5 DEF Evict, Kept
<1>6. CASE Restart
  BY <1>6 DEF Restart, Kept
<1>7. CASE SendAutoreply
  BY <1>2, <1>7, AutoreplyLeaves
<1>8. ASSUME NEW t \in OpenThreads, SendEmailReply(t) PROVE Kept'
  BY <1>2, <1>8, ReplyLeaves
<1>9. CASE Post \/ PostUnknown \/ PostFailed \/ Body \/ EndIncoming \/ RunSend
  BY <1>2, <1>9 DEF Post, PostUnknown, PostFailed, Body, EndIncoming, RunSend
<1>10. CASE Notice \/ NoticeFailed \/ (\E e \in Events : Redact(e))
  BY <1>2, <1>10 DEF Notice, NoticeFailed, Redact
<1>11. CASE UNCHANGED vars
  BY <1>2, <1>11 DEF vars
<1> QED BY <1>1, <1>3, <1>4, <1>5, <1>6, <1>7, <1>8, <1>9, <1>10, <1>11 DEF Next

\* Traces that last stay.
LEMMA TracedStays ==
  ASSUME NEW S, S \subseteq Ids, Traced(S),
         \A i \in Ids : Lasting(i) => Lasting(i)'
  PROVE  \E i \in S : Lasting(i)'
  BY DEF Traced

\* The references of a mail are Message-IDs.
LEMMA RefsAreIds ==
  ASSUME NEW refs \in Seq(Ids)
  PROVE  Range(refs) \subseteq Ids
<1>1. DOMAIN refs = 1..Len(refs) /\ \A k \in 1..Len(refs) : refs[k] \in Ids
  OBVIOUS
<1> QED BY <1>1 DEF Range

\* A new mail, or an answer to a mail that leads to a thread.
LEMMA ArrivingTraced ==
  ASSUME TypeInv, OneDomain, Undisturbed, AutoreplyInv, job = Idle,
         NEW mail \in Arriving
  PROVE  /\ mail.id \in Mids /\ \A s \in world : s.id # mail.id
         /\ unanswered = {}
         /\ \/ mail.parent = NoId /\ mail.irt = NoId /\ mail.refs = <<>>
            \/ /\ mail.refs # <<>>
               /\ \E i \in Range(mail.refs) : tid[i] # NoEvent
<1>1. job.mail = NoMail /\ job.at = "idle"
  BY DEF Idle
<1>2. unanswered = {}
  BY <1>1, ThreadsAssumption DEF AutoreplyInv, BoundInv, TypeInv, TypeOK
<1>3. \A m \in NewIds : m \in Mids /\ \A s \in world : s.id # m
  BY DEF NewIds, OneDomain
<1>4. ASSUME NEW m \in NewIds, NEW d \in Domains,
             mail = [id |-> m, irt |-> NoId, refs |-> <<>>, domain |-> d,
                     parent |-> NoId]
      PROVE  mail.id = m /\ mail.parent = NoId /\ mail.irt = NoId /\ mail.refs = <<>>
  BY <1>4
<1>5. ASSUME NEW m \in NewIds, NEW p \in world, NEW style \in Styles,
             mail = [id |-> m, irt |-> Headers(p, style).irt,
                     refs |-> Headers(p, style).refs, domain |-> p.domain,
                     parent |-> p.id]
      PROVE  /\ mail.id = m /\ mail.refs # <<>>
             /\ \E i \in Range(mail.refs) : tid[i] # NoEvent
  <2>1. p.id \in Ids /\ p.refs \in Seq(Ids)
    BY DEF TypeInv, TypeOK, Sent
  <2>2. mail.id = m /\ mail.refs = Append(p.refs, p.id)
    BY <1>5 DEF Headers, Undisturbed
  <2>3. Range(Append(p.refs, p.id)) = Range(p.refs) \cup {p.id}
    BY <2>1, RangeAppend
  <2>5. Append(p.refs, p.id) # <<>>
    BY <2>1
  <2>4. Traced(Range(p.refs) \cup {p.id})
    BY <1>1 DEF AutoreplyInv, TraceInv
  <2> QED BY <2>2, <2>3, <2>4, <2>5 DEF Traced, Lasting
<1>6. \/ mail \in unanswered
      \/ \E m \in NewIds, d \in Domains :
           mail = [id |-> m, irt |-> NoId, refs |-> <<>>, domain |-> d,
                   parent |-> NoId]
      \/ \E m \in NewIds, p \in world, style \in Styles :
           mail = [id |-> m, irt |-> Headers(p, style).irt,
                   refs |-> Headers(p, style).refs, domain |-> p.domain,
                   parent |-> p.id]
  BY DEF Arriving
<1>7. CASE \E m \in NewIds, d \in Domains :
             mail = [id |-> m, irt |-> NoId, refs |-> <<>>, domain |-> d,
                     parent |-> NoId]
  BY <1>2, <1>3, <1>4, <1>7
<1>8. CASE \E m \in NewIds, p \in world, style \in Styles :
             mail = [id |-> m, irt |-> Headers(p, style).irt,
                     refs |-> Headers(p, style).refs, domain |-> p.domain,
                     parent |-> p.id]
  BY <1>2, <1>3, <1>5, <1>8
<1> QED BY <1>2, <1>6, <1>7, <1>8

\* A mail comes in.
LEMMA AutoreplyIncoming ==
  ASSUME TypeInv, TypeInv', OneDomain, Undisturbed, AutoreplyInv,
         NEW mail \in Arriving, IncomingEmail(mail)
  PROVE  AutoreplyInv'
<1>1. mail \in Mail /\ job = Idle
  BY ArrivingType DEF TypeInv, IncomingEmail
<1>2. mail.id \in Ids /\ mail.irt \in Ids /\ mail.refs \in Seq(Ids) /\ mail # NoMail
  BY <1>1, ThreadsAssumption DEF Mail
<1>3. /\ mail.id \in Mids /\ \A s \in world : s.id # mail.id
      /\ unanswered = {}
      /\ \/ mail.parent = NoId /\ mail.irt = NoId /\ mail.refs = <<>>
         \/ /\ mail.refs # <<>>
            /\ \E i \in Range(mail.refs) : tid[i] # NoEvent
  BY <1>1, ArrivingTraced
<1>f. PICK failed, refused, t : Finds(mail, failed, refused, t)
  BY IncomingFinds
<1>4. /\ t = IF mail.irt = NoId /\ mail.refs = <<>> THEN NoEvent
             ELSE getThreadID(mail.irt, mail.refs, failed)
      /\ job' = [Idle EXCEPT !.at = "post", !.mail = mail, !.thread = t,
                             !.new = (t = NoEvent), !.blind = Blind(mail, failed)]
  BY <1>f DEF Finds
<1>t. t \in Events \cup {NoEvent}
  <2>1. n \in Nat /\ t \in 0..n
    BY <1>2, <1>4, ThreadIDType DEF TypeInv, TypeOK
  <2> QED BY <2>1, ThreadsAssumption DEF TypeInv, TypeOK
<1>5. failed = {}
  BY <1>1, <1>f, <1>t, QuietFinds
<1>6. /\ n' = n /\ removed' = removed /\ meta' = meta /\ world' = world
      /\ unanswered' = unanswered \cup {mail}
  BY DEF IncomingEmail, room
<1>7. /\ job'.at = "post" /\ job'.mail = mail /\ job'.thread = t
      /\ job'.new = (t = NoEvent)
  BY <1>4 DEF Idle
<1>8. t \in 0..n /\ n \in Nat
  BY <1>2, <1>4, ThreadIDType DEF TypeInv, TypeOK
<1>9. job.mail = NoMail /\ job.at = "idle"
  BY <1>1 DEF Idle
<1>10. \A i \in Ids : tid'[i] = IF i = mail.id /\ t # NoEvent THEN t ELSE tid[i]
  BY <1>1, <1>f, <1>t, QuietFinds
<1>11. \A i \in Ids : tid[i] # NoEvent => i # mail.id
  BY <1>3, <1>9 DEF AutoreplyInv, TraceInv
<1>12. \A i \in Ids : Lasting(i) => Lasting(i)'
  BY <1>7, <1>10, <1>11 DEF Lasting
<1>13. BoundInv'
  BY <1>3, <1>6, <1>7, <1>8, <1>10 DEF AutoreplyInv, BoundInv
<1>14. TraceInv'
  <2>1. ASSUME NEW i \in Mids, tid'[i] # NoEvent
        PROVE  (\E s \in world : s.id = i) \/ mail.id = i
    <3>1. i \in Ids
      BY IdsDiffer
    <3> QED BY <1>9, <1>10, <2>1, <3>1 DEF AutoreplyInv, TraceInv
  <2>2. ASSUME NEW s \in world
        PROVE  \E i \in Range(s.refs) \cup {s.id} : Lasting(i)'
    <3>1. Range(s.refs) \cup {s.id} \subseteq Ids
      BY RefsAreIds DEF TypeInv, TypeOK, Sent
    <3>2. Traced(Range(s.refs) \cup {s.id})
      BY <1>9 DEF AutoreplyInv, TraceInv
    <3> QED BY <1>12, <3>1, <3>2, TracedStays
  <2> QED BY <1>2, <1>3, <1>6, <1>7, <2>1, <2>2 DEF TraceInv, Traced
<1>15. StartedInv'
  <2>1. CASE mail.parent = NoId /\ mail.irt = NoId /\ mail.refs = <<>>
    BY <1>4, <1>7, <2>1 DEF StartedInv
  <2>2. CASE mail.refs # <<>> /\ \E i \in Range(mail.refs) : tid[i] # NoEvent
    <3> DEFINE ids == Lookups(mail.irt, mail.refs)
    <3>1. /\ Len(ids) = Len(mail.refs) + 1 /\ Len(mail.refs) \in Nat
          /\ DOMAIN mail.refs = 1..Len(mail.refs)
          /\ \A k \in 1..Len(mail.refs) : ids[k + 1] = mail.refs[k]
      BY <1>2 DEF Lookups
    <3>2. t = getThreadID(mail.irt, mail.refs, {})
      BY <1>4, <1>5, <2>2
    <3> HIDE DEF ids
    <3>3. \/ t = NoEvent /\ \A k \in 1..Len(ids) : ~Hit(ids, {}, k)
          \/ \E k \in 1..Len(ids) : Hit(ids, {}, k) /\ t = tid[ids[k]]
      BY <1>2, <3>2, ThreadIDFirst DEF ids
    <3>4. PICK i \in Range(mail.refs) : tid[i] # NoEvent
      BY <2>2
    <3>5. i \in Ids
      BY <1>2, RefsAreIds
    <3>6. PICK k \in 1..Len(mail.refs) : i = mail.refs[k]
      BY <3>1 DEF Range
    <3>7. GetEvent(tid[i])
      BY <3>4, <3>5, <1>8 DEF GetEvent, AutoreplyInv, BoundInv, TypeInv, TypeOK
    <3>8. k + 1 \in 1..Len(ids) /\ Hit(ids, {}, k + 1)
      BY <3>1, <3>6, <3>7 DEF Hit
    <3>9. t # NoEvent
      BY <3>3, <3>8 DEF Hit, GetEvent
    <3>10. Lasting(i)'
      BY <1>9, <1>12, <3>4, <3>5 DEF Lasting
    <3> QED BY <1>7, <3>9, <3>10 DEF StartedInv, Traced
  <2> QED BY <1>3, <2>1, <2>2
<1> QED BY <1>13, <1>14, <1>15 DEF AutoreplyInv

\* A step of the handler in hand that writes no ID but that of its mail.
LEMMA TraceSame ==
  ASSUME TypeInv, TraceInv, world' = world, job'.mail = job.mail,
         \A i \in Ids : (job.mail # NoMail /\ i = job.mail.id) \/ tid'[i] = tid[i],
         job.at \in {"notice", "save"} =>
           job'.at \in {"notice", "save"} /\ job'.out = job.out
  PROVE  TraceInv' /\ \A i \in Ids : Lasting(i) => Lasting(i)'
<1>1. \A i \in Ids : Lasting(i) => Lasting(i)'
  BY DEF Lasting
<1>2. ASSUME NEW s \in world
      PROVE  \/ job'.at \in {"notice", "save"} /\ s = job'.out
             \/ \E i \in Range(s.refs) \cup {s.id} : Lasting(i)'
  <2>1. Range(s.refs) \cup {s.id} \subseteq Ids
    BY RefsAreIds DEF TypeInv, TypeOK, Sent
  <2>2. CASE Traced(Range(s.refs) \cup {s.id})
    BY <1>1, <2>1, <2>2, TracedStays
  <2> QED BY <2>2 DEF TraceInv
<1>3. ASSUME NEW i \in Mids, tid'[i] # NoEvent
      PROVE  (\E s \in world : s.id = i) \/ (job.mail # NoMail /\ job.mail.id = i)
  <2>1. i \in Ids
    BY IdsDiffer
  <2> QED BY <1>3, <2>1 DEF TraceInv
<1>4. job'.mail # NoMail =>
        job'.mail.id \in Mids /\ \A s \in world' : s.id # job'.mail.id
  BY DEF TraceInv
<1> QED BY <1>1, <1>2, <1>3, <1>4 DEF TraceInv, Traced

\* The mail in hand is posted.
LEMMA AutoreplyPost ==
  ASSUME TypeInv, TypeInv', AutoreplyInv, Post
  PROVE  AutoreplyInv'
<1> DEFINE t == IF job.thread = NoEvent THEN n + 1 ELSE job.thread
           h == [thread |-> t, id |-> job.mail.id, refs |-> job.mail.refs,
                 domain |-> job.mail.domain]
<1>1. n \in Nat /\ n + 1 <= MaxEvents /\ n + 1 \in Events /\ job.mail \in Mail
  <2>1. n \in Nat /\ job.at = "post" /\ MaxEvents \in Nat
    BY ThreadsAssumption DEF Post, TypeInv, TypeOK
  <2>2. n + 3 <= MaxEvents /\ job.mail \in Mail
    BY <2>1 DEF TypeInv, FitsInv, JobInv
  <2> QED BY <2>1, <2>2
<1>2. /\ tid' = tid /\ world' = world /\ unanswered' = unanswered /\ removed' = removed
  BY DEF Post, notes, threads, lasts
<1>3. /\ job.at = "post" /\ job'.at = "note" /\ job'.mail = job.mail
      /\ job'.thread = t /\ job'.event = n + 1 /\ job'.new = job.new
      /\ job.thread \in Nat
  BY DEF Post, TypeInv, TypeOK, Job
<1>4. Add(n + 1, h)
  BY DEF Post
<1>5. t \in Events
  BY <1>1, <1>3 DEF TypeInv, TypeOK, Job
<1>6. h \in Meta /\ h.thread = t /\ h.refs = job.mail.refs
  BY <1>1, <1>5 DEF Meta, Mail
<1> HIDE DEF h
<1>7. n' = n + 1 /\ meta'[n + 1] = h /\ \A e \in 1..n : meta'[e] = meta[e]
  BY <1>1, <1>4, AddKeeps
<1>8. TraceInv' /\ \A i \in Ids : Lasting(i) => Lasting(i)'
  BY <1>2, <1>3, TraceSame DEF AutoreplyInv
<1>9. t <= n' /\ job.thread <= n
  BY <1>1, <1>3, <1>7 DEF AutoreplyInv, BoundInv
<1>10. BoundInv'
  <2>1. \A i \in Ids : tid'[i] <= n'
    BY <1>1, <1>2, <1>7 DEF AutoreplyInv, BoundInv, TypeInv, TypeOK
  <2>2. ASSUME NEW e \in 1..n', meta'[e] # NoMeta PROVE meta'[e].thread <= n'
    <3>1. CASE e \in 1..n
      <4>1. meta[e] # NoMeta /\ meta'[e] = meta[e] /\ e \in Events
        BY <1>1, <1>7, <2>2, <3>1, ThreadsAssumption
      <4>2. meta[e].thread \in Nat /\ meta[e].thread <= n
        BY <3>1, <4>1 DEF AutoreplyInv, BoundInv, TypeInv, TypeOK, Meta
      <4> QED BY <1>1, <1>7, <4>1, <4>2
    <3>2. CASE e = n + 1
      BY <1>6, <1>7, <1>9, <3>2
    <3> QED BY <1>1, <1>7, <3>1, <3>2
  <2>3. removed' = {} /\ unanswered' \subseteq {job'.mail}
    BY <1>2, <1>3 DEF AutoreplyInv, BoundInv
  <2> QED BY <1>3, <1>9, <2>1, <2>2, <2>3 DEF BoundInv
<1>11. StartedInv'
  <2>1. CASE job.thread = NoEvent
    <3>1. job.mail.parent = NoId /\ job.mail.refs = <<>>
      BY <1>3, <2>1 DEF AutoreplyInv, StartedInv
    <3>2. t = n + 1 /\ t # NoEvent
      BY <2>1, <1>1
    <3>3. meta'[t] # NoMeta /\ meta'[t].refs = <<>>
      BY <1>6, <1>7, <3>1, <3>2, ThreadsAssumption
    <3> QED BY <1>3, <3>1, <3>2, <3>3 DEF StartedInv
  <2>2. CASE job.thread # NoEvent
    <3>1. ~job.new /\ t # NoEvent
      BY <1>3, <2>2 DEF AutoreplyInv, StartedInv
    <3> QED BY <1>3, <3>1 DEF StartedInv
  <2> QED BY <2>1, <2>2
<1> QED BY <1>8, <1>10, <1>11 DEF AutoreplyInv

\* An event without headers is added to the room.
LEMMA BoundNoHeaders ==
  ASSUME TypeInv, TypeInv', BoundInv, n' = n \/ (n' = n + 1 /\ meta'[n + 1] = NoMeta),
         \A e \in 1..n : meta'[e] = meta[e], tid' = tid,
         removed' = removed, job'.thread <= n', unanswered' \subseteq {job'.mail}
  PROVE  BoundInv'
<1>1. n \in Nat /\ \A e \in 1..n : e \in Events
  BY ThreadsAssumption DEF TypeInv, TypeOK
<1>2. \A i \in Ids : tid'[i] <= n'
  BY <1>1 DEF BoundInv, TypeInv, TypeOK
<1>3. ASSUME NEW e \in 1..n', meta'[e] # NoMeta PROVE meta'[e].thread <= n'
  <2>1. e \in 1..n
    BY <1>1, <1>3
  <2>2. meta[e].thread \in Nat /\ meta[e].thread <= n
    BY <1>1, <1>3, <2>1 DEF BoundInv, TypeInv, TypeOK, Meta
  <2> QED BY <1>1, <2>1, <2>2
<1> QED BY <1>2, <1>3 DEF BoundInv

\* A mail is refused, or its body is posted.
LEMMA AutoreplyBody ==
  ASSUME Undisturbed, TypeInv, TypeInv', AutoreplyInv, PostUnknown \/ Body
  PROVE  AutoreplyInv'
<1>1. tid' = tid /\ last' = last /\ world' = world /\ unanswered' = unanswered /\ removed' = removed
  BY DEF PostUnknown, Body, notes, threads, lasts, room
<1>2. n \in Nat /\ job.thread <= n /\ job.thread \in Nat
  BY DEF TypeInv, TypeOK, Job, AutoreplyInv, BoundInv
<1>3. CASE PostUnknown
  <2>1. /\ job.at = "post" /\ job'.at = "note" /\ job'.mail = job.mail
        /\ job'.thread = NoEvent /\ job.thread # NoEvent /\ n' = n /\ meta' = meta
    BY <1>3 DEF Undisturbed, PostUnknown, TypeInv, TypeOK, Job, room
  <2>2. TraceInv' /\ \A i \in Ids : Lasting(i) => Lasting(i)'
    BY <1>1, <2>1, TraceSame DEF AutoreplyInv
  <2>3. Range(job.mail.refs) \subseteq Ids
    BY <2>1, RefsAreIds DEF TypeInv, JobInv, Mail
  <2>4. Traced(Range(job.mail.refs))
    BY <2>1 DEF AutoreplyInv, StartedInv
  <2>5. Traced(Range(job.mail.refs))'
    BY <2>1, <2>2, <2>3, <2>4, TracedStays DEF Traced
  <2>6. BoundInv'
    BY <1>1, <1>2, <2>1, BoundNoHeaders DEF AutoreplyInv, BoundInv
  <2> QED BY <2>1, <2>2, <2>5, <2>6 DEF AutoreplyInv, StartedInv
<1>4. CASE Body
  <2>1. /\ job.at = "body" /\ job'.at = "autoreply" /\ job'.mail = job.mail
        /\ job'.thread = job.thread /\ job'.new = job.new
    BY <1>4 DEF Body, TypeInv, TypeOK, Job
  <2>2. /\ n' = n \/ (n' = n + 1 /\ meta'[n + 1] = NoMeta)
        /\ \A e \in 1..n : meta'[e] = meta[e]
    <3>1. n + 1 <= MaxEvents
      BY <1>2, <2>1, ThreadsAssumption DEF TypeInv, FitsInv
    <3>2. CASE Add(n + 1, NoMeta)
      BY <3>1, <3>2, AddKeeps
    <3> QED BY <1>4, <3>2 DEF Body
  <2>3. TraceInv' /\ \A i \in Ids : Lasting(i) => Lasting(i)'
    BY <1>1, <2>1, TraceSame DEF AutoreplyInv
  <2>4. BoundInv'
    BY <1>1, <1>2, <2>1, <2>2, BoundNoHeaders DEF AutoreplyInv, BoundInv
  <2>5. job.thread = NoEvent => Traced(Range(job.mail.refs))'
    <3>1. Range(job.mail.refs) \subseteq Ids
      BY <2>1, RefsAreIds DEF TypeInv, JobInv, Mail
    <3>2. job.thread = NoEvent => Traced(Range(job.mail.refs))
      BY <2>1 DEF AutoreplyInv, StartedInv
    <3> QED BY <2>1, <2>3, <3>1, <3>2, TracedStays DEF Traced
  <2>6. job.thread # NoEvent => meta'[job.thread] = meta[job.thread]
    BY <1>2, <2>2
  <2>7. /\ job.thread # NoEvent /\ job.new =>
             /\ job.mail.parent = NoId
             /\ meta[job.thread] # NoMeta /\ meta[job.thread].refs = <<>>
             /\ last[job.thread] = job.thread
        /\ tid[job.mail.id] = job.thread
    BY <2>1 DEF AutoreplyInv, StartedInv
  <2> QED BY <1>1, <2>1, <2>3, <2>4, <2>5, <2>6, <2>7 DEF AutoreplyInv, StartedInv
<1> QED BY <1>3, <1>4

\* The mail in hand is noted.
LEMMA AutoreplyNote ==
  ASSUME Undisturbed, TypeInv, TypeInv', AutoreplyInv, Note
  PROVE  AutoreplyInv'
<1>1. /\ world' = world /\ unanswered' = unanswered /\ removed' = removed
      /\ n' = n /\ meta' = meta
  BY DEF Note, room
<1>2. /\ job.at = "note" /\ job'.at = "body" /\ job'.mail = job.mail
      /\ job'.thread = job.thread /\ job'.new = job.new /\ job.mail \in Mail
      /\ job.thread \in Events \cup {NoEvent}
  BY DEF Note, TypeInv, TypeOK, JobInv, Job
<1>3. job.mail # NoMail /\ job.mail.id \in Ids
  BY <1>2, ThreadsAssumption DEF Mail
<1>4. \A i \in Ids : tid'[i] = IF i = job.mail.id THEN job.thread ELSE tid[i]
  BY <1>3, QuietNote
<1>5. TraceInv' /\ \A i \in Ids : Lasting(i) => Lasting(i)'
  BY <1>1, <1>2, <1>3, <1>4, TraceSame DEF AutoreplyInv
<1>6. BoundInv'
  BY <1>1, <1>2, <1>4 DEF AutoreplyInv, BoundInv
<1>7. job.thread = NoEvent => Traced(Range(job.mail.refs))'
  <2>1. Range(job.mail.refs) \subseteq Ids
    BY <1>2, RefsAreIds DEF Mail
  <2>2. job.thread = NoEvent => Traced(Range(job.mail.refs))
    BY <1>2 DEF AutoreplyInv, StartedInv
  <2> QED BY <1>2, <1>5, <2>1, <2>2, TracedStays DEF Traced
<1>8. job.thread # NoEvent /\ job.new =>
        /\ job.mail.parent = NoId
        /\ meta[job.thread] # NoMeta /\ meta[job.thread].refs = <<>>
        /\ job.event = job.thread
  BY <1>2 DEF AutoreplyInv, StartedInv
<1>9. job.thread # NoEvent => last'[job.thread] = job.event
  BY <1>2, <1>3, QuietNote DEF TypeInv, TypeOK
<1>10. StartedInv'
  BY <1>1, <1>2, <1>3, <1>4, <1>7, <1>8, <1>9 DEF StartedInv
<1> QED BY <1>5, <1>6, <1>10 DEF AutoreplyInv

\* A mail of the bridge leaves.
LEMMA TraceLeaves ==
  ASSUME TypeInv, OneDomain, TraceInv, NEW m, world' = world \cup {m}, tid' = tid,
         job'.mail = job.mail, job'.at = "notice", job'.out = m, m.id \in Ours,
         job.at \notin {"notice", "save"}
  PROVE  TraceInv'
<1>1. \A i \in Ids : Lasting(i) => Lasting(i)'
  BY DEF Lasting
<1>2. ASSUME NEW s \in world
      PROVE  \E i \in Range(s.refs) \cup {s.id} : Lasting(i)'
  <2>1. Range(s.refs) \cup {s.id} \subseteq Ids
    BY RefsAreIds DEF TypeInv, TypeOK, Sent
  <2>2. Traced(Range(s.refs) \cup {s.id})
    BY DEF TraceInv
  <2> QED BY <1>1, <2>1, <2>2, TracedStays
<1>3. \A i \in Mids : i # m.id
  BY ThreadsAssumption
<1>4. /\ \A i \in Mids : tid'[i] # NoEvent =>
           (\E s \in world' : s.id = i) \/ (job'.mail # NoMail /\ job'.mail.id = i)
      /\ job'.mail # NoMail =>
           job'.mail.id \in Mids /\ \A s \in world' : s.id # job'.mail.id
  BY <1>3 DEF TraceInv
<1> QED BY <1>2, <1>4 DEF TraceInv, Traced

\* The autoreply leaves, for a mail that answers nothing.
LEMMA AutoreplySend ==
  ASSUME TypeInv, TypeInv', OneDomain, Undisturbed, AutoreplyInv, SendAutoreply
  PROVE  AutoreplyInv'
<1> DEFINE t == job.thread
           p == getLastEventID(t)
           id == AutoreplyID(t, meta[p].domain)
           m == Continue(p, id)
<1>0. /\ HasParent(p) /\ world' = world \cup {m}
      /\ job' = [job EXCEPT !.at = "notice", !.event = t, !.out = m]
  BY QuietAutoreply DEF AutoLeaves
<1>1. /\ n' = n /\ meta' = meta /\ tid' = tid /\ world' = world \cup {m}
      /\ unanswered' = unanswered /\ removed' = removed
      /\ job' = [job EXCEPT !.at = "notice", !.event = t, !.out = m]
  BY <1>0, AutoreplyLeaves DEF room, notes, threads
<1>2. job.at = "autoreply" /\ job.new /\ t \in 1..n /\ t # NoEvent /\ HasParent(p)
  BY <1>0, AutoreplyLeaves DEF GetEvent, TypeInv, TypeOK
<1>3. /\ job.mail.parent = NoId
      /\ meta[t] # NoMeta /\ meta[t].refs = <<>> /\ last[t] = t
      /\ tid[job.mail.id] = job.thread
  BY <1>2 DEF AutoreplyInv, StartedInv
<1>4. p = t /\ t \in Events
  BY <1>2, <1>3, ThreadsAssumption DEF getLastEventID, TypeInv, TypeOK
<1>5. meta[p] \in Meta /\ meta[p].domain = Domain
  BY <1>3, <1>4 DEF TypeInv, TypeOK, Meta, OneDomain
<1>6. id \in Ids /\ id \in Ours
  BY <1>4, <1>5, ThreadsAssumption DEF AutoreplyID, Ids, Ours
<1>7. Range(m.refs) = {MessageID(p, meta[p].domain)} \cup {id} /\ m.id = id
  <2> HIDE DEF id
  <2>1. meta[p].refs = <<>> /\ HasParent(p)
    BY <1>2, <1>3, <1>4
  <2> HIDE DEF p
  <2>2. Range(m.refs) = (IF meta[p].refs = <<>> THEN {MessageID(p, meta[p].domain)}
                         ELSE Range(meta[p].refs)) \cup {id}
    BY <1>2, <1>6, <2>1, ContinueRefs
  <2>3. m.id = id
    BY <1>2, <1>6, <2>1, ContinueType DEF TypeInv
  <2> QED BY <2>1, <2>2, <2>3
<1>8. MessageID(t, Domain) \in Range(m.refs)
  BY <1>4, <1>5, <1>7
<1> HIDE DEF m, id, p
<1>9. /\ job'.at = "notice" /\ job'.mail = job.mail /\ job'.event = t
      /\ job'.out = m /\ job'.thread = job.thread
  BY <1>1 DEF TypeInv, TypeOK, Job
<1>10. TraceInv'
  BY <1>1, <1>2, <1>6, <1>7, <1>9, TraceLeaves DEF AutoreplyInv
<1>11. BoundInv'
  BY <1>1, <1>9, BoundNoHeaders DEF AutoreplyInv, BoundInv
<1>12. StartedInv'
  <2>1. MessageID(job'.event, Domain) \in Range(job'.out.refs)
    BY <1>8, <1>9
  <2> QED BY <1>1, <1>3, <1>9, <2>1 DEF StartedInv, MessageID
<1> QED BY <1>10, <1>11, <1>12 DEF AutoreplyInv

\* Users write.
LEMMA AutoreplyUser ==
  ASSUME TypeInv, TypeInv', OneDomain, Undisturbed, AutoreplyInv,
         RunSend \/ \E t \in OpenThreads : SendEmailReply(t)
  PROVE  AutoreplyInv'
<1>1. n \in Nat /\ n + 1 <= MaxEvents /\ n + 1 \in Events /\ Add(n + 1, NoMeta)
  <2>1. n \in Nat /\ MaxEvents \in Nat
    BY ThreadsAssumption DEF TypeInv, TypeOK
  <2>2. n + 3 <= MaxEvents /\ Add(n + 1, NoMeta)
    BY ReplyLeaves DEF RunSend, Fits
  <2> QED BY <2>1, <2>2
<1>2. n' = n + 1 /\ meta'[n + 1] = NoMeta /\ \A e \in 1..n : meta'[e] = meta[e]
  BY <1>1, AddKeeps
<1>3. tid' = tid /\ unanswered' = unanswered /\ removed' = removed /\ job = Idle
  <2>1. CASE RunSend
    BY <2>1 DEF RunSend, notes, threads
  <2> QED BY <2>1, ReplyLeaves DEF notes, threads
<1>4. job.mail = NoMail /\ job.at = "idle" /\ unanswered \subseteq {NoMail}
  BY <1>3 DEF Idle, AutoreplyInv, BoundInv
<1>5. ASSUME NEW m, world' = world \cup {m}, m.id = MessageID(n + 1, Domain),
             m.id \in Range(m.refs), NEW t \in Nat, t <= n + 1,
             job'.at = "notice", job'.mail = NoMail, job'.event = n + 1,
             job'.out = m, job'.thread = t
      PROVE  AutoreplyInv'
  <2>1. /\ job'.at = "notice" /\ job'.mail = NoMail /\ job'.event = n + 1
        /\ job'.out = m /\ job'.thread = t
    BY <1>5
  <2>2. m.id \in Ours
    BY <1>1, <1>5, ThreadsAssumption DEF MessageID, Ours
  <2>3. TraceInv'
    BY <1>3, <1>4, <1>5, <2>1, <2>2, TraceLeaves DEF AutoreplyInv
  <2>4. BoundInv'
    BY <1>2, <1>3, <1>4, <1>5, <2>1, BoundNoHeaders DEF AutoreplyInv
  <2>5. StartedInv'
    <3>1. MessageID(job'.event, Domain) \in Range(job'.out.refs)
      BY <1>5, <2>1
    <3> QED BY <2>1, <3>1 DEF StartedInv, MessageID
  <2> QED BY <2>3, <2>4, <2>5 DEF AutoreplyInv
<1>6. CASE RunSend
  <2> DEFINE id == MessageID(n + 1, Domain)
             m == [id |-> id, refs |-> <<id>>, domain |-> Domain]
  <2>1. /\ job' = [Idle EXCEPT !.at = "notice", !.thread = n + 1, !.event = n + 1,
                               !.out = m]
        /\ world' = world \cup {m}
    BY <1>6 DEF RunSend
  <2>2. m.id = id /\ m.id \in Range(m.refs)
    <3>1. DOMAIN m.refs = {1} /\ m.refs[1] = id
      OBVIOUS
    <3> QED BY <3>1 DEF Range
  <2>3. n + 1 \in Nat /\ n + 1 <= n + 1
    BY <1>1
  <2> HIDE DEF m
  <2>4. /\ job'.at = "notice" /\ job'.mail = NoMail /\ job'.event = n + 1
        /\ job'.out = m /\ job'.thread = n + 1 /\ world' = world \cup {m}
    BY <2>1 DEF Idle
  <2> QED BY <1>5, <2>2, <2>3, <2>4
<1>7. ASSUME NEW t \in OpenThreads, SendEmailReply(t)
      PROVE  AutoreplyInv'
  <2> DEFINE p == getLastEventID(t)
             id == MessageID(n + 1, meta[p].domain)
             m == Continue(p, id)
  <2>2. CASE job' = job /\ world' = world
    <3>1. TraceInv'
      BY <1>3, <2>2, TraceSame DEF AutoreplyInv
    <3>2. job.thread = 0 /\ job'.thread <= n'
      BY <1>1, <1>2, <1>3, <2>2 DEF Idle
    <3>3. BoundInv'
      BY <1>2, <1>3, <1>4, <2>2, <3>2, BoundNoHeaders DEF AutoreplyInv
    <3>4. StartedInv'
      BY <1>4, <2>2 DEF StartedInv
    <3> QED BY <3>1, <3>3, <3>4 DEF AutoreplyInv
  <2>3. CASE Leaves(t, p)
    <3>0. HasParent(p)
      BY <2>3 DEF Leaves
    <3>8. /\ job'.at = "notice" /\ job'.mail = NoMail /\ job'.event = n + 1
          /\ job'.out = m /\ job'.thread = t /\ world' = world \cup {m}
      BY <2>3, LeavesOut
    <3>1. t \in Events /\ t <= n + 1
      <4>1. PICK e \in 1..n : meta[e] # NoMeta /\ t = meta[e].thread
        BY DEF OpenThreads
      <4>2. t <= n
        BY <4>1 DEF AutoreplyInv, BoundInv
      <4>3. t \in Events
        BY OpenThreadsType DEF TypeInv
      <4> QED BY <1>1, <4>2, <4>3
    <3>2. p \in 1..n /\ meta[p] \in Meta
      BY <3>0, ParentDomain DEF TypeInv
    <3>3. meta[p].domain = Domain
      BY <3>2 DEF Meta, OneDomain
    <3>4. id = MessageID(n + 1, Domain) /\ id \in Ids
      BY <1>1, <3>3, OurIds, ThreadsAssumption
    <3> HIDE DEF id, p
    <3>5. m.id = id
      BY <3>0, <3>4, ContinueType DEF TypeInv
    <3>6. id \in Range(m.refs)
      <4> DEFINE S == IF meta[p].refs = <<>> THEN {MessageID(p, meta[p].domain)}
                      ELSE Range(meta[p].refs)
      <4>1. Range(m.refs) = S \cup {id}
        BY <3>0, <3>4, ContinueRefs
      <4> HIDE DEF S, m
      <4> QED BY <4>1
    <3> HIDE DEF m
    <3>7. t \in Nat
      BY <3>1
    <3> QED BY <1>5, <3>1, <3>4, <3>5, <3>6, <3>7, <3>8
  <2> QED BY <1>7, <2>2, <2>3, QuietReply
<1> QED BY <1>6, <1>7

\* The notice about a mail is posted.
LEMMA AutoreplyNotice ==
  ASSUME TypeInv, TypeInv', AutoreplyInv, Notice
  PROVE  AutoreplyInv'
<1> DEFINE h == [thread |-> job.thread, id |-> job.out.id,
                 refs |-> job.out.refs, domain |-> job.out.domain]
<1>1. /\ job.at = "notice" /\ job'.at = "save" /\ job'.mail = job.mail
      /\ job'.out = job.out /\ job'.event = job.event /\ job'.thread = job.thread
      /\ job.thread \in Events
  BY DEF Notice, TypeInv, TypeOK, JobInv, Job
<1>2. n \in Nat /\ n + 1 <= MaxEvents
  BY <1>1 DEF TypeInv, TypeOK, FitsInv
<1>3. tid' = tid /\ world' = world /\ unanswered' = unanswered /\ removed' = removed
  BY DEF Notice, notes, threads, lasts
<1>4. Add(n + 1, h) /\ h.thread = job.thread
  BY DEF Notice
<1> HIDE DEF h
<1>5. n' = n + 1 /\ meta'[n + 1] = h /\ \A e \in 1..n : meta'[e] = meta[e]
  BY <1>2, <1>4, AddKeeps
<1>6. TraceInv'
  BY <1>1, <1>3, TraceSame DEF AutoreplyInv
<1>7. job.thread <= n /\ job.thread <= n'
  BY <1>1, <1>2, <1>5 DEF AutoreplyInv, BoundInv
<1>8. BoundInv'
  <2>1. \A i \in Ids : tid'[i] <= n'
    BY <1>2, <1>3, <1>5 DEF AutoreplyInv, BoundInv, TypeInv, TypeOK
  <2>2. ASSUME NEW e \in 1..n', meta'[e] # NoMeta PROVE meta'[e].thread <= n'
    <3>1. CASE e \in 1..n
      <4>1. meta[e] # NoMeta /\ meta'[e] = meta[e] /\ e \in Events
        BY <1>2, <1>5, <2>2, <3>1, ThreadsAssumption
      <4>2. meta[e].thread \in Nat /\ meta[e].thread <= n
        BY <3>1, <4>1 DEF AutoreplyInv, BoundInv, TypeInv, TypeOK, Meta
      <4> QED BY <1>2, <1>5, <4>1, <4>2
    <3>2. CASE e = n + 1
      BY <1>4, <1>5, <1>7, <3>2
    <3> QED BY <1>2, <1>5, <3>1, <3>2
  <2> QED BY <1>1, <1>3, <1>7, <2>1, <2>2 DEF AutoreplyInv, BoundInv
<1>9. StartedInv'
  BY <1>1, <1>3 DEF AutoreplyInv, StartedInv, MessageID
<1> QED BY <1>6, <1>8, <1>9 DEF AutoreplyInv

\* The handler is done with a mail: what it noted leads to the thread.
LEMMA AutoreplyDone ==
  ASSUME TypeInv, TypeInv', OneDomain, Undisturbed, AutoreplyInv, EndIncoming \/ Save
  PROVE  AutoreplyInv'
<1>1. /\ n' = n /\ meta' = meta /\ removed' = removed
      /\ job'.at = "idle" /\ job'.mail = NoMail /\ job'.thread = 0
  <2>1. CASE EndIncoming
    BY <2>1 DEF EndIncoming, Idle, room
  <2>2. CASE Save
    BY <2>2, SaveDone DEF Finish, Idle, room
  <2> QED BY <2>1, <2>2
<1>2. /\ job.mail # NoMail => /\ world' = world \cup {AsSent(job.mail)}
                              /\ unanswered' = unanswered \ {job.mail}
      /\ job.mail = NoMail => world' = world /\ unanswered' = unanswered
  <2>1. CASE EndIncoming
    <3>1. job.mail # NoMail
      BY <2>1, ThreadsAssumption DEF EndIncoming, TypeInv, JobInv
    <3> QED BY <2>1, <3>1 DEF EndIncoming, Answered
  <2>2. CASE Save
    BY <2>2, SaveDone DEF Finish
  <2> QED BY <2>1, <2>2
<1>3. /\ job.at \in {"autoreply", "save"}
      /\ job.at = "save" => /\ job.event \in Events /\ n \in Events
                            /\ job.thread \in 1..n /\ job.out \in Sent
  <2>1. job.at \in {"autoreply", "save"}
    BY SaveDone DEF EndIncoming
  <2> QED BY <2>1, ThreadsAssumption
          DEF TypeInv, TypeOK, JobInv, AutoreplyInv, BoundInv
<1> DEFINE a == MessageID(job.event, Domain)
           b == MessageID(n, Domain)
<1>4. \A i \in Ids :
        tid'[i] = IF job.at = "save" /\ i \in {a, b} THEN job.thread ELSE tid[i]
  <2>1. CASE EndIncoming
    BY <2>1 DEF EndIncoming, notes, threads, lasts
  <2>2. CASE Save
    <3>1. job.at = "save" /\ SavedIds = {a, b}
      BY <2>2 DEF Save, SavedIds
    <3>2. \A i \in Ids : tid'[i] = IF i \in SavedIds THEN job.thread ELSE tid[i]
      BY <2>2, QuietSave
    <3> QED BY <3>1, <3>2
  <2> QED BY <2>1, <2>2
<1>5. job.at = "save" => /\ a \in Ids /\ b \in Ids
                         /\ \A i \in Mids : i # a /\ i # b
  BY <1>3, IdsDiffer, ThreadsAssumption
<1>6. /\ job.at = "save" => a \in Range(job.out.refs)
      /\ job.mail # NoMail => tid[job.mail.id] = job.thread
      /\ job.at = "autoreply" /\ job.thread = NoEvent => Traced(Range(job.mail.refs))
  BY <1>3 DEF AutoreplyInv, StartedInv
<1>7. /\ job.mail # NoMail => /\ job.mail \in Mail /\ job.mail.id \in Mids
                              /\ job.mail.id \in Ids
  BY IdsDiffer DEF TypeInv, TypeOK, Job, AutoreplyInv, TraceInv
<1> HIDE DEF a, b
<1>8. \A i \in Ids : tid[i] # NoEvent => Lasting(i)'
  BY <1>1, <1>3, <1>4 DEF Lasting
<1>9. job.mail # NoMail =>
        \E i \in Range(job.mail.refs) \cup {job.mail.id} : Lasting(i)'
  <2> SUFFICES ASSUME job.mail # NoMail
               PROVE  \E i \in Range(job.mail.refs) \cup {job.mail.id} : Lasting(i)'
    OBVIOUS
  <2>1. CASE job.thread # NoEvent
    BY <1>6, <1>7, <1>8, <2>1
  <2>2. CASE job.thread = NoEvent
    <3>1. Traced(Range(job.mail.refs))
      BY <1>3, <1>6, <2>2
    <3>2. Range(job.mail.refs) \subseteq Ids
      BY <1>7, RefsAreIds DEF Mail
    <3> QED BY <1>8, <3>1, <3>2 DEF Traced, Lasting
  <2> QED BY <2>1, <2>2
<1>10. ASSUME NEW s \in world
       PROVE  \E i \in Range(s.refs) \cup {s.id} : Lasting(i)'
  <2>1. Range(s.refs) \cup {s.id} \subseteq Ids
    BY RefsAreIds DEF TypeInv, TypeOK, Sent
  <2>2. CASE Traced(Range(s.refs) \cup {s.id})
    BY <1>8, <2>1, <2>2 DEF Traced, Lasting
  <2>3. CASE job.at = "save" /\ s = job.out
    <3>1. a \in Range(s.refs) /\ tid'[a] = job.thread /\ job.thread # NoEvent
      BY <1>3, <1>4, <1>5, <1>6, <2>3
    <3>2. \A i \in {a} : Lasting(i)'
      BY <1>1, <3>1 DEF Lasting
    <3> QED BY <3>1, <3>2
  <2> QED BY <1>3, <2>2, <2>3 DEF AutoreplyInv, TraceInv
<1>11. \A s \in world' : \E i \in Range(s.refs) \cup {s.id} : Lasting(i)'
  <2>1. AsSent(job.mail).id = job.mail.id /\ AsSent(job.mail).refs = job.mail.refs
    BY DEF AsSent
  <2> QED BY <1>2, <1>9, <1>10, <2>1
<1>12. TraceInv'
  <2>1. ASSUME NEW i \in Mids, tid'[i] # NoEvent PROVE \E s \in world' : s.id = i
    <3>1. tid[i] # NoEvent
      BY <1>4, <1>5, <2>1, IdsDiffer
    <3>2. AsSent(job.mail).id = job.mail.id
      BY DEF AsSent
    <3> QED BY <1>2, <3>1, <3>2 DEF AutoreplyInv, TraceInv
  <2> QED BY <1>1, <1>11, <2>1 DEF TraceInv, Traced
<1>13. BoundInv'
  <2>1. n \in Nat /\ \A i \in Ids : tid'[i] <= n
    BY <1>3, <1>4 DEF AutoreplyInv, BoundInv, TypeInv, TypeOK
  <2>2. unanswered' \subseteq {NoMail}
    BY <1>2 DEF AutoreplyInv, BoundInv
  <2> QED BY <1>1, <2>1, <2>2 DEF AutoreplyInv, BoundInv
<1>14. StartedInv'
  BY <1>1 DEF StartedInv
<1> QED BY <1>12, <1>13, <1>14 DEF AutoreplyInv

\* No call fails, and no event is removed.
LEMMA NothingFails ==
  ASSUME TypeInv, Undisturbed, Kept, AutoreplyInv
  PROVE  /\ ~(PostFailed \/ NoticeFailed \/ Restart \/ Evict)
         /\ ~\E e \in Events : Redact(e)
<1>1. ~(PostFailed \/ NoticeFailed \/ Restart \/ Evict)
  BY DEF PostFailed, NoticeFailed, Restart, Evict, Fault, Kept, Undisturbed, TypeInv, TypeOK
<1>2. removed = {} /\ MaxRemoved = 0
  BY DEF AutoreplyInv, BoundInv, Undisturbed
<1>3. Cardinality(removed) = 0
  BY <1>2, FS_EmptySet
<1> QED BY <1>1, <1>2, <1>3 DEF Redact

\* The invariant of autoreplies holds at first.
LEMMA AutoreplyInit ==
  ASSUME Undisturbed
  PROVE  Init => AutoreplyInv
<1> SUFFICES ASSUME Init PROVE AutoreplyInv
  OBVIOUS
<1>1. world = {}
  BY DEF Init, Undisturbed
<1>2. \A i \in Ids : tid[i] = NoEvent
  BY DEF Init
<1>3. job.mail = NoMail /\ job.at = "idle" /\ job.thread = NoEvent
  BY DEF Init, Idle
<1>4. BoundInv
  BY <1>2, <1>3 DEF Init, BoundInv
<1>5. TraceInv
  BY <1>1, <1>2, <1>3, IdsDiffer DEF TraceInv
<1>6. StartedInv
  BY <1>3 DEF StartedInv
<1> QED BY <1>4, <1>5, <1>6 DEF AutoreplyInv

\* And it is inductive.
LEMMA AutoreplyStep ==
  ASSUME OneDomain, Undisturbed
  PROVE  TypeInv /\ TypeInv' /\ Kept /\ AutoreplyInv /\ [Next]_vars => AutoreplyInv'
<1> SUFFICES ASSUME TypeInv, TypeInv', Kept, AutoreplyInv, [Next]_vars
             PROVE  AutoreplyInv'
  OBVIOUS
<1>1. CASE UNCHANGED vars
  BY <1>1 DEF vars, room, notes, threads, lasts, AutoreplyInv, BoundInv, TraceInv, StartedInv,
              Traced, Lasting, MessageID
<1> QED BY <1>1, NothingFails, AutoreplyIncoming, AutoreplyPost, AutoreplyBody,
           AutoreplyNote, AutoreplySend, AutoreplyUser, AutoreplyNotice,
           AutoreplyDone DEF Next

\* "Email autoreply / autoresponder for new email threads", when nothing fails
\* or is removed and mail programs write References: nobody who answers in a
\* thread is sent an autoreply, however often the homeserver refuses to post in
\* one, so two responders do not answer each other for ever.
THEOREM NoAutoreplyToAnswers ==
  ASSUME OneDomain, Undisturbed
  PROVE  Spec => []AutoreplyForNewThreads
<1>1. AutoreplyInv => AutoreplyForNewThreads
  BY DEF AutoreplyInv, StartedInv, AutoreplyForNewThreads, Answers, GetEvent
<1>2. Init => Kept
  BY DEF Init, Kept
<1> QED BY <1>1, <1>2, TypeInit, TypeStep, KeptStep, AutoreplyInit, AutoreplyStep, PTL
        DEF Spec

----------------------------------------------------------------------------
(* Conversations in a room with autoreply                                  *)
(*                                                                         *)
(* The Message-ID of an autoreply is never noted, so AgreeInv does not     *)
(* hold any more.  An answer to it is found by its references, and goes to *)
(* the right thread because all that a mail refers to is of one thread.    *)

\* Events whose IDs the handler in hand notes, or is the first to use.
Unsettled ==
  {e \in Events : \/ job.at \in {"note", "body", "autoreply"} /\ job.new /\ e = job.thread
                  \/ job.at \in {"notice", "save"} /\ e = job.event
                  \/ job.at = "save" /\ e = n}

\* IDs that were there before the handler in hand, and that it does not note.
Settled(i) ==
  /\ i \in Mids => \E s \in world : s.id = i
  /\ i \in Ours => i.event <= n /\ i.event \notin Unsettled

AllSettled(S) == \A i \in S : Settled(i)

\* What is noted of the IDs in S is thread t.
NotedFor(S, t) == \A i \in S : tid[i] \in {NoEvent, t}

\* All IDs in a mail.
Cited(s) == Range(s.refs) \cup {s.id}

InFlight(s) == job.at \in {"notice", "save"} /\ s = job.out

\* A mail that is out refers to one thread, and went there.
GoodOut(s) ==
  /\ AllSettled(Cited(s))
  /\ \E t \in Events : home[s.id] \in {NoEvent, t} /\ NotedFor(Cited(s), t)

OutInv == \A s \in world : ~InFlight(s) => GoodOut(s)

\* So do the headers that replies continue.
GoodRefs(e) ==
  /\ AllSettled(Range(meta[e].refs))
  /\ NotedFor(Range(meta[e].refs), meta[e].thread)

MetaInv ==
  \A e \in 1..n : meta[e] # NoMeta =>
    /\ tid[MessageID(e, Domain)] \in {NoEvent, meta[e].thread}
    /\ ~(job.at = "save" /\ e = n) => GoodRefs(e)

\* The mail in hand goes to the one thread that it refers to, or, when that is
\* refused, nowhere.
MailInv ==
  job.mail # NoMail =>
    /\ AllSettled(Range(job.mail.refs))
    /\ \E t \in Events : /\ job.thread \in {NoEvent, t}
                         /\ NotedFor(Range(job.mail.refs) \cup {job.mail.id}, t)
    /\ job.at = "post" /\ job.thread = NoEvent => tid[job.mail.id] = NoEvent
    /\ job.at = "post" /\ job.mail.parent # NoId =>
         home[job.mail.parent] \in {NoEvent, job.thread}

\* The mail that is being sent continues the thread that it is sent from.
SendInv ==
  job.at \in {"notice", "save"} =>
    /\ NotedFor(Cited(job.out), job.thread)
    /\ \A i \in Cited(job.out) :
         /\ i \in Mids => \E s \in world : s.id = i
         /\ i \in Ours => i.event <= n
    /\ job.out.id \in Ours /\ job.out.id.event = job.event
    /\ meta[job.event] = NoMeta \/ meta[job.event].thread = job.thread
    /\ job.at = "save" => meta[n] # NoMeta /\ meta[n].refs = job.out.refs

\* Nothing is noted of autoreplies, of events to come, or of no Message-ID; the
\* threads of all other events have a last event.
NotesInv ==
  /\ tid[NoId] = NoEvent /\ \A e \in Events : tid[AutoreplyID(e, Domain)] = NoEvent
  /\ \A e \in Events : e > n => tid[MessageID(e, Domain)] = NoEvent
  /\ \A e \in 1..n : meta[e] # NoMeta =>
       \/ last[meta[e].thread] # NoEvent
       \/ job.at = "note" /\ job.thread # NoEvent /\ e = job.event
       \/ job.at = "save" /\ e = n

OneThreadInv == OutInv /\ MetaInv /\ MailInv /\ SendInv /\ NotesInv

\* A step leaves settled IDs alone.
Grown ==
  /\ world \subseteq world' /\ n' \in Nat /\ n <= n'
  /\ \A e \in 1..n : e \notin Unsettled => e \notin Unsettled'
  /\ \A i \in Ids : Settled(i) => tid'[i] = tid[i]

Keeps == \A i \in Ids : Settled(i) => Settled(i)' /\ tid'[i] = tid[i]

\* Then they stay settled.
LEMMA GrownKeeps ==
  ASSUME TypeInv, Grown
  PROVE  Keeps
<1> SUFFICES ASSUME NEW i \in Ids, Settled(i)
             PROVE  Settled(i)' /\ tid'[i] = tid[i]
  BY DEF Keeps
<1>1. n \in Nat
  BY DEF TypeInv, TypeOK
<1>2. i \in Mids => \E s \in world' : s.id = i
  BY DEF Settled, Grown
<1>3. i \in Ours => i.event <= n' /\ i.event \notin Unsettled'
  <2> SUFFICES ASSUME i \in Ours PROVE i.event <= n' /\ i.event \notin Unsettled'
    OBVIOUS
  <2>1. i.event \in Events /\ i.event <= n /\ i.event \notin Unsettled
    BY DEF Ours, Settled
  <2> QED BY <1>1, <2>1 DEF Grown
<1> QED BY <1>2, <1>3 DEF Settled, Grown

\* Message-IDs that are not those of mails that come in, or of events.
LEMMA NeverNoted ==
  \A i \in {NoId} \cup {AutoreplyID(e, Domain) : e \in Events} :
    i \in Ids /\ i \notin Mids /\ \A f \in Events : i # MessageID(f, Domain)
<1>1. NoId \in Ids /\ NoId \notin Mids /\ \A f \in Events : NoId # MessageID(f, Domain)
  BY IdsDiffer, ThreadsAssumption DEF Ids
<1>2. ASSUME NEW e \in Events
      PROVE  /\ AutoreplyID(e, Domain) \in Ids /\ AutoreplyID(e, Domain) \in Ours
             /\ \A f \in Events : AutoreplyID(e, Domain) # MessageID(f, Domain)
  BY ThreadsAssumption DEF AutoreplyID, MessageID, Ids, Ours
<1> QED BY <1>1, <1>2, ThreadsAssumption

\* A mail that is out, and that the step does not bring home, is as before.
LEMMA OutStays ==
  ASSUME TypeInv, Keeps, NEW s \in world, GoodOut(s), home'[s.id] = home[s.id]
  PROVE  GoodOut(s)'
<1>1. Cited(s) \subseteq Ids
  BY RefsAreIds DEF TypeInv, TypeOK, Sent, Cited
<1>2. \A i \in Cited(s) : Settled(i)' /\ tid'[i] = tid[i]
  BY <1>1 DEF GoodOut, AllSettled, Keeps
<1> QED BY <1>2 DEF GoodOut, AllSettled, NotedFor, Cited

\* So are the headers of an event.
LEMMA RefsStay ==
  ASSUME TypeInv, Keeps, NEW e \in 1..n, meta[e] # NoMeta, meta'[e] = meta[e],
         GoodRefs(e)
  PROVE  GoodRefs(e)'
<1>1. e \in Events
  BY ThreadsAssumption DEF TypeInv, TypeOK
<1>2. Range(meta[e].refs) \subseteq Ids
  BY <1>1, RefsAreIds DEF TypeInv, TypeOK, Meta
<1>3. \A i \in Range(meta[e].refs) : Settled(i)' /\ tid'[i] = tid[i]
  BY <1>2 DEF GoodRefs, AllSettled, Keeps
<1> QED BY <1>3 DEF GoodRefs, AllSettled, NotedFor

\* And the mail in hand, but for its own ID.
LEMMA MailStays ==
  ASSUME TypeInv, Keeps, job.mail # NoMail, job'.mail = job.mail,
         AllSettled(Range(job.mail.refs))
  PROVE  /\ AllSettled(Range(job.mail.refs))'
         /\ \A i \in Range(job.mail.refs) : tid'[i] = tid[i]
<1>1. Range(job.mail.refs) \subseteq Ids
  BY RefsAreIds DEF TypeInv, TypeOK, Job, Mail
<1> QED BY <1>1 DEF AllSettled, Keeps

\* A mail comes in: it answers a mail that is out, and all that is noted of
\* its references is the thread of that one.
LEMMA OneThreadIncoming ==
  ASSUME TypeInv, TypeInv', OneDomain, Undisturbed, AutoreplyInv, OneThreadInv,
         NEW mail \in Arriving, IncomingEmail(mail)
  PROVE  OneThreadInv'
<1>1. mail \in Mail /\ job = Idle
  BY ArrivingType DEF TypeInv, IncomingEmail
<1>2. mail.id \in Ids /\ mail.irt \in Ids /\ mail.refs \in Seq(Ids) /\ mail # NoMail
  BY <1>1, ThreadsAssumption DEF Mail
<1>3. /\ mail.id \in Mids /\ \A s \in world : s.id # mail.id
      /\ unanswered = {}
      /\ \/ mail.parent = NoId /\ mail.irt = NoId /\ mail.refs = <<>>
         \/ /\ mail.refs # <<>>
            /\ \E i \in Range(mail.refs) : tid[i] # NoEvent
  BY <1>1, ArrivingTraced
<1>f. PICK failed, refused, t : Finds(mail, failed, refused, t)
  BY IncomingFinds
<1>4. /\ t = IF mail.irt = NoId /\ mail.refs = <<>> THEN NoEvent
             ELSE getThreadID(mail.irt, mail.refs, failed)
      /\ job' = [Idle EXCEPT !.at = "post", !.mail = mail, !.thread = t,
                             !.new = (t = NoEvent), !.blind = Blind(mail, failed)]
  BY <1>f DEF Finds
<1>t. t \in Events \cup {NoEvent}
  <2>1. n \in Nat /\ t \in 0..n
    BY <1>2, <1>4, ThreadIDType DEF TypeInv, TypeOK
  <2> QED BY <2>1, ThreadsAssumption DEF TypeInv, TypeOK
<1>5. failed = {}
  BY <1>1, <1>f, <1>t, QuietFinds
<1>6. n' = n /\ meta' = meta /\ world' = world /\ home' = home /\ last' = last
  BY DEF IncomingEmail, room, lasts
<1>7. job'.at = "post" /\ job'.mail = mail /\ job'.thread = t
  BY <1>4 DEF Idle
<1>8. t \in 0..n /\ n \in Nat
  BY <1>2, <1>4, ThreadIDType DEF TypeInv, TypeOK
<1>9. job.mail = NoMail /\ job.at = "idle"
  BY <1>1 DEF Idle
<1>10. \A i \in Ids : tid'[i] = IF i = mail.id /\ t # NoEvent THEN t ELSE tid[i]
  BY <1>1, <1>f, <1>t, QuietFinds
<1>11. ~Settled(mail.id) /\ tid[mail.id] = NoEvent
  BY <1>3, <1>9, IdsDiffer DEF Settled, AutoreplyInv, TraceInv
<1>12. Unsettled' = {}
  BY <1>7 DEF Unsettled
<1>13. Keeps
  BY <1>6, <1>8, <1>10, <1>11, <1>12, GrownKeeps DEF Grown
<1>14. OutInv'
  <2>1. \A s \in world : GoodOut(s)
    BY <1>9 DEF OneThreadInv, OutInv, InFlight
  <2> QED BY <1>6, <1>13, <2>1, OutStays DEF OutInv
<1>15. MetaInv'
  <2> SUFFICES ASSUME NEW e \in 1..n, meta[e] # NoMeta
               PROVE  /\ tid'[MessageID(e, Domain)] \in {NoEvent, meta[e].thread}
                      /\ GoodRefs(e)'
    BY <1>6 DEF MetaInv, MessageID
  <2>1. MessageID(e, Domain) \in Ids /\ MessageID(e, Domain) # mail.id
    BY <1>3, <1>8, IdsDiffer, ThreadsAssumption DEF TypeInv, TypeOK
  <2>2. GoodRefs(e) /\ tid[MessageID(e, Domain)] \in {NoEvent, meta[e].thread}
    BY <1>9 DEF OneThreadInv, MetaInv
  <2> QED BY <1>6, <1>10, <1>13, <2>1, <2>2, RefsStay
<1>16. SendInv'
  BY <1>7 DEF SendInv
<1>17. NotesInv'
  <2>1. \A e \in Events : /\ MessageID(e, Domain) \in Ids
                          /\ MessageID(e, Domain) # mail.id
    BY <1>3, IdsDiffer, ThreadsAssumption
  <2>2. tid'[NoId] = NoEvent /\ \A e \in Events : tid'[AutoreplyID(e, Domain)] = NoEvent
    BY <1>3, <1>10, NeverNoted DEF OneThreadInv, NotesInv
  <2> QED BY <1>6, <1>9, <1>10, <2>1, <2>2
          DEF OneThreadInv, NotesInv, MessageID, AutoreplyID
<1>18. MailInv'
  <2>1. CASE mail.parent = NoId /\ mail.irt = NoId /\ mail.refs = <<>>
    <3>1. t = NoEvent /\ Range(mail.refs) = {}
      BY <1>4, <2>1 DEF Range
    <3>2. \E u \in Events : NotedFor(Range(mail.refs) \cup {mail.id}, u)'
      <4>1. n + 3 <= MaxEvents
        BY DEF IncomingEmail, Fits
      <4>2. 1 \in Events
        BY <1>8, <4>1, ThreadsAssumption
      <4>3. \A i \in Range(mail.refs) \cup {mail.id} : tid'[i] = NoEvent
        BY <1>2, <1>10, <1>11, <3>1
      <4> QED BY <4>2, <4>3 DEF NotedFor
    <3> QED BY <1>2, <1>7, <1>10, <1>11, <2>1, <3>1, <3>2 DEF MailInv, AllSettled
  <2>2. CASE mail.refs # <<>> /\ \E i \in Range(mail.refs) : tid[i] # NoEvent
    <3>1. PICK p \in world : /\ mail.refs = Append(p.refs, p.id)
                             /\ mail.irt \in {NoId, p.id} /\ mail.parent = p.id
      <4>1. mail \notin unanswered
        BY <1>3
      <4>2. \E m \in NewIds, p \in world, style \in Styles :
              mail = [id |-> m, irt |-> Headers(p, style).irt,
                      refs |-> Headers(p, style).refs, domain |-> p.domain,
                      parent |-> p.id]
        BY <2>2, <4>1 DEF Arriving
      <4> QED BY <4>2 DEF Headers, Undisturbed
    <3>2. p.id \in Ids /\ p.refs \in Seq(Ids)
      BY DEF TypeInv, TypeOK, Sent
    <3>3. Range(mail.refs) = Cited(p)
      BY <3>1, <3>2, RangeAppend DEF Cited
    <3>4. GoodOut(p)
      BY <1>9 DEF OneThreadInv, OutInv, InFlight
    <3>5. PICK u \in Events : home[p.id] \in {NoEvent, u} /\ NotedFor(Cited(p), u)
      BY <3>4 DEF GoodOut
    <3>6. \A i \in Cited(p) : i \in Ids /\ Settled(i)
      BY <1>2, <3>3, <3>4, RefsAreIds DEF GoodOut, AllSettled
    <3>7. \A i \in Cited(p) : Settled(i)' /\ tid'[i] \in {NoEvent, u}
      BY <1>13, <3>5, <3>6 DEF Keeps, NotedFor
    <3>8. t = u
      <4> DEFINE ids == Lookups(mail.irt, mail.refs)
      <4>1. /\ Len(ids) = Len(mail.refs) + 1 /\ Len(mail.refs) \in Nat
            /\ DOMAIN mail.refs = 1..Len(mail.refs) /\ ids[1] = mail.irt
            /\ \A k \in 1..Len(mail.refs) : ids[k + 1] = mail.refs[k]
        BY <1>2 DEF Lookups
      <4>2. t = getThreadID(mail.irt, mail.refs, {})
        BY <1>4, <1>5, <2>2
      <4> HIDE DEF ids
      <4>3. \/ t = NoEvent /\ \A k \in 1..Len(ids) : ~Hit(ids, {}, k)
            \/ \E k \in 1..Len(ids) : Hit(ids, {}, k) /\ t = tid[ids[k]]
        BY <1>2, <4>2, ThreadIDFirst DEF ids
      <4>4. \A k \in 1..Len(mail.refs) : mail.refs[k] \in Range(mail.refs)
        BY <4>1 DEF Range
      <4>5. PICK i \in Range(mail.refs) : tid[i] # NoEvent
        BY <2>2
      <4>6. PICK k \in 1..Len(mail.refs) : i = mail.refs[k]
        BY <4>1, <4>5 DEF Range
      <4>7. GetEvent(tid[i])
        BY <1>8, <3>3, <3>6, <4>5
           DEF GetEvent, AutoreplyInv, BoundInv, TypeInv, TypeOK
      <4>8. k + 1 \in 1..Len(ids) /\ Hit(ids, {}, k + 1)
        BY <4>1, <4>6, <4>7 DEF Hit
      <4>9. PICK l \in 1..Len(ids) : Hit(ids, {}, l) /\ t = tid[ids[l]]
        BY <4>3, <4>8
      <4>10. tid[NoId] = NoEvent
        BY DEF OneThreadInv, NotesInv
      <4>11. ids[l] \in Cited(p) \cup {NoId}
        <5>1. CASE l = 1
          BY <3>1, <4>1, <5>1 DEF Cited
        <5>2. CASE l # 1
          <6>1. PICK m \in 1..Len(mail.refs) : l = m + 1
            <7>1. l \in Int /\ 1 <= l /\ l <= Len(mail.refs) + 1
              BY <4>1, <4>9
            <7>2. l - 1 \in 1..Len(mail.refs) /\ l = (l - 1) + 1
              BY <4>1, <5>2, <7>1
            <7> QED BY <7>2
          <6>2. ids[m + 1] = mail.refs[m] /\ mail.refs[m] \in Range(mail.refs)
            BY <4>1, <4>4
          <6> QED BY <3>3, <6>1, <6>2
        <5> QED BY <5>1, <5>2
      <4>12. t # NoEvent
        BY <4>9 DEF Hit, GetEvent
      <4> QED BY <3>5, <4>9, <4>10, <4>11, <4>12 DEF NotedFor
    <3>9. AllSettled(Range(mail.refs))'
      BY <3>3, <3>7 DEF AllSettled
    <3>10. NotedFor(Range(mail.refs) \cup {mail.id}, u)'
      BY <1>2, <1>10, <1>11, <3>3, <3>7, <3>8 DEF NotedFor
    <3>11. home'[mail.parent] \in {NoEvent, t} /\ t # NoEvent
      BY <1>6, <3>1, <3>5, <3>8
    <3> QED BY <1>7, <3>8, <3>9, <3>10, <3>11 DEF MailInv
  <2> QED BY <1>3, <2>1, <2>2
<1> QED BY <1>14, <1>15, <1>16, <1>17, <1>18 DEF OneThreadInv

\* A step of a handler that is not done with sending a mail: it notes nothing
\* but its mail, and adds no headers to the room.
LEMMA OneThreadSame ==
  ASSUME TypeInv, TypeInv', AutoreplyInv, OneThreadInv,
         job.at \notin {"notice", "save"}, job'.at # "save", home' = home,
         world \subseteq world', \A s \in world' \ world : InFlight(s)',
         n' = n \/ (n' = n + 1 /\ meta'[n + 1] = NoMeta),
         \A e \in 1..n : meta'[e] = meta[e],
         \A e \in 1..n : e \notin Unsettled => e \notin Unsettled',
         \A i \in Ids : (job.mail # NoMail /\ i = job.mail.id) \/ tid'[i] = tid[i],
         \A e \in 1..n : meta[e] # NoMeta => last'[meta[e].thread] # NoEvent
  PROVE  Keeps /\ OutInv' /\ MetaInv' /\ NotesInv'
<1>1. n \in Nat /\ n' \in Nat /\ n <= n'
  BY DEF TypeInv, TypeOK
<1>2. job.mail # NoMail => job.mail.id \in Mids /\ ~Settled(job.mail.id)
  BY DEF AutoreplyInv, TraceInv, Settled
<1>3. Keeps
  BY <1>1, <1>2, GrownKeeps DEF Grown
<1>4. \A e \in Events : /\ MessageID(e, Domain) \in Ids
                        /\ tid'[MessageID(e, Domain)] = tid[MessageID(e, Domain)]
  BY <1>2, IdsDiffer, ThreadsAssumption
<1>5. tid'[NoId] = NoEvent /\ \A e \in Events : tid'[AutoreplyID(e, Domain)] = NoEvent
  BY <1>2, NeverNoted DEF OneThreadInv, NotesInv
<1>6. OutInv'
  <2>1. ASSUME NEW s \in world PROVE GoodOut(s)'
    <3>1. GoodOut(s)
      BY DEF OneThreadInv, OutInv, InFlight
    <3> QED BY <1>3, <3>1, OutStays
  <2> QED BY <2>1 DEF OutInv
<1>7. MetaInv'
  <2> SUFFICES ASSUME NEW e \in 1..n', meta'[e] # NoMeta
               PROVE  /\ tid'[MessageID(e, Domain)] \in {NoEvent, meta'[e].thread}
                      /\ GoodRefs(e)'
    BY DEF MetaInv, MessageID
  <2>1. e \in 1..n /\ meta[e] # NoMeta /\ meta'[e] = meta[e]
    BY <1>1
  <2>2. e \in Events
    BY <2>1, ThreadsAssumption DEF TypeInv, TypeOK
  <2>3. GoodRefs(e) /\ tid[MessageID(e, Domain)] \in {NoEvent, meta[e].thread}
    BY <2>1 DEF OneThreadInv, MetaInv
  <2> QED BY <1>3, <1>4, <2>1, <2>2, <2>3, RefsStay
<1>8. NotesInv'
  <2>1. \A e \in Events : e > n' => tid'[MessageID(e, Domain)] = NoEvent
    BY <1>1, <1>4 DEF OneThreadInv, NotesInv
  <2>2. ASSUME NEW e \in 1..n', meta'[e] # NoMeta
        PROVE  last'[meta'[e].thread] # NoEvent
    <3>1. e \in 1..n
      BY <1>1, <2>2
    <3> QED BY <2>2, <3>1
  <2> QED BY <1>5, <2>1, <2>2 DEF NotesInv, MessageID, AutoreplyID
<1> QED BY <1>3, <1>6, <1>7, <1>8

\* A mail is refused, or its body is posted.
LEMMA OneThreadBody ==
  ASSUME TypeInv, TypeInv', AutoreplyInv, OneThreadInv, PostUnknown \/ Body
  PROVE  OneThreadInv'
<1>1. tid' = tid /\ last' = last /\ world' = world /\ home' = home
  BY DEF PostUnknown, Body, notes, threads, lasts
<1>2. /\ job.at \in {"post", "body"} /\ job'.at \in {"note", "autoreply"}
      /\ job'.mail = job.mail /\ job'.thread \in {NoEvent, job.thread}
      /\ job.mail \in Mail /\ job.mail # NoMail
  <2>1. CASE PostUnknown
    BY <2>1, ThreadsAssumption DEF PostUnknown, TypeInv, TypeOK, Job, JobInv
  <2>2. CASE Body
    BY <2>2, ThreadsAssumption DEF Body, TypeInv, TypeOK, Job, JobInv
  <2> QED BY <2>1, <2>2
<1>3. /\ n' = n \/ (n' = n + 1 /\ meta'[n + 1] = NoMeta)
      /\ \A e \in 1..n : meta'[e] = meta[e]
  <2>1. CASE PostUnknown
    BY <2>1 DEF PostUnknown, room
  <2>2. CASE Body
    <3>1. n + 1 <= MaxEvents
      BY <2>2, ThreadsAssumption DEF Body, TypeInv, TypeOK, FitsInv
    <3>2. CASE Add(n + 1, NoMeta)
      BY <3>1, <3>2, AddKeeps
    <3> QED BY <2>2, <3>2 DEF Body
  <2> QED BY <2>1, <2>2
<1>4. \A e \in Events : e \notin Unsettled => e \notin Unsettled'
  <2>1. CASE PostUnknown
    <3>1. job'.at = "note" /\ job'.thread = NoEvent
      BY <2>1 DEF PostUnknown, TypeInv, TypeOK, Job
    <3> QED BY <3>1 DEF Unsettled
  <2>2. CASE Body
    <3>1. /\ job.at = "body" /\ job'.at = "autoreply"
          /\ job'.thread = job.thread /\ job'.new = job.new
      BY <2>2 DEF Body, TypeInv, TypeOK, Job
    <3> QED BY <3>1 DEF Unsettled
  <2> QED BY <2>1, <2>2
<1>5. \A e \in 1..n : e \in Events
  BY ThreadsAssumption DEF TypeInv, TypeOK
<1>6. \A e \in 1..n : meta[e] # NoMeta => last'[meta[e].thread] # NoEvent
  BY <1>1, <1>2 DEF OneThreadInv, NotesInv
<1>7. Keeps /\ OutInv' /\ MetaInv' /\ NotesInv'
  BY <1>1, <1>2, <1>3, <1>4, <1>5, <1>6, OneThreadSame
<1>8. MailInv'
  <2>1. AllSettled(Range(job.mail.refs))'
    BY <1>2, <1>7, MailStays DEF OneThreadInv, MailInv
  <2>2. PICK u \in Events : /\ job.thread \in {NoEvent, u}
                            /\ NotedFor(Range(job.mail.refs) \cup {job.mail.id}, u)
    BY <1>2 DEF OneThreadInv, MailInv
  <2>3. NotedFor(Range(job.mail.refs) \cup {job.mail.id}, u)'
    BY <1>1, <1>2, <2>2 DEF NotedFor
  <2> QED BY <1>2, <2>1, <2>2, <2>3 DEF MailInv
<1>9. SendInv'
  BY <1>2 DEF SendInv
<1> QED BY <1>7, <1>8, <1>9 DEF OneThreadInv

\* The mail in hand is noted.
LEMMA OneThreadNote ==
  ASSUME Undisturbed, TypeInv, TypeInv', HeadersInv, AutoreplyInv, OneThreadInv, Note
  PROVE  OneThreadInv'
<1>1. n' = n /\ meta' = meta /\ world' = world /\ home' = home
  BY DEF Note, room
<1>2. /\ job.at = "note" /\ job'.at = "body" /\ job'.mail = job.mail
      /\ job'.thread = job.thread /\ job'.new = job.new
      /\ job.mail \in Mail /\ job.mail # NoMail /\ job.mail.id \in Ids
      /\ job.thread \in Events \cup {NoEvent}
  BY ThreadsAssumption DEF Note, TypeInv, TypeOK, Job, JobInv, Mail
<1>3. \A i \in Ids : tid'[i] = IF i = job.mail.id THEN job.thread ELSE tid[i]
  BY <1>2, QuietNote
<1>4. Unsettled' = Unsettled
  BY <1>2 DEF Unsettled
<1>5. ASSUME NEW e \in 1..n, meta[e] # NoMeta
      PROVE  last'[meta[e].thread] # NoEvent
  <2>1. e \in Events /\ meta[e].thread \in Events
    BY <1>5, ThreadsAssumption DEF TypeInv, TypeOK, Meta
  <2>2. job.thread # NoEvent =>
          job.event # NoEvent /\ meta[job.event].thread = job.thread
    BY <1>2 DEF HeadersInv, TypeInv, JobInv
  <2>3. last'[meta[e].thread] =
          IF job.thread # NoEvent /\ meta[e].thread = job.thread THEN job.event
          ELSE last[meta[e].thread]
    BY <1>2, <2>1, QuietNote DEF TypeInv, TypeOK
  <2>4. \/ last[meta[e].thread] # NoEvent
        \/ job.thread # NoEvent /\ e = job.event
    BY <1>2, <1>5 DEF OneThreadInv, NotesInv
  <2> QED BY <2>2, <2>3, <2>4
<1>6. Keeps /\ OutInv' /\ MetaInv' /\ NotesInv'
  BY <1>1, <1>2, <1>3, <1>4, <1>5, OneThreadSame
<1>7. MailInv'
  <2>1. /\ AllSettled(Range(job.mail.refs))'
        /\ \A i \in Range(job.mail.refs) : tid'[i] = tid[i]
    BY <1>2, <1>6, MailStays DEF OneThreadInv, MailInv
  <2>2. PICK u \in Events : /\ job.thread \in {NoEvent, u}
                            /\ NotedFor(Range(job.mail.refs) \cup {job.mail.id}, u)
    BY <1>2 DEF OneThreadInv, MailInv
  <2>3. NotedFor(Range(job.mail.refs) \cup {job.mail.id}, u)'
    BY <1>2, <1>3, <2>1, <2>2 DEF NotedFor
  <2> QED BY <1>2, <2>1, <2>2, <2>3 DEF MailInv
<1>8. SendInv'
  BY <1>2 DEF SendInv
<1> QED BY <1>6, <1>7, <1>8 DEF OneThreadInv

\* The mail in hand is posted, in the thread that it refers to.
LEMMA OneThreadPost ==
  ASSUME TypeInv, TypeInv', AutoreplyInv, OneThreadInv, Post
  PROVE  OneThreadInv'
<1> DEFINE t == IF job.thread = NoEvent THEN n + 1 ELSE job.thread
           h == [thread |-> t, id |-> job.mail.id, refs |-> job.mail.refs,
                 domain |-> job.mail.domain]
<1>1. /\ n \in Nat /\ n + 1 <= MaxEvents /\ n + 1 \in Events /\ job.mail \in Mail
      /\ job.mail # NoMail
  <2>1. n \in Nat /\ job.at = "post" /\ MaxEvents \in Nat
    BY ThreadsAssumption DEF Post, TypeInv, TypeOK
  <2>2. n + 3 <= MaxEvents /\ job.mail \in Mail /\ job.mail # NoMail
    BY <2>1, ThreadsAssumption DEF TypeInv, FitsInv, JobInv
  <2> QED BY <2>1, <2>2
<1>2. tid' = tid /\ world' = world /\ home' = home /\ last' = last
  BY DEF Post, notes, threads, lasts
<1>3. /\ job.at = "post" /\ job'.at = "note" /\ job'.mail = job.mail
      /\ job'.thread = t /\ job'.event = n + 1 /\ job'.new = job.new
      /\ job.thread \in Events \cup {NoEvent}
  BY DEF Post, TypeInv, TypeOK, Job
<1>4. Add(n + 1, h) /\ t \in Events
  BY <1>1, <1>3 DEF Post
<1>5. h.thread = t /\ h.refs = job.mail.refs
  OBVIOUS
<1> HIDE DEF h
<1>6. n' = n + 1 /\ meta'[n + 1] = h /\ \A e \in 1..n : meta'[e] = meta[e]
  BY <1>1, <1>4, AddKeeps
<1>7. \A e \in 1..n : e \notin Unsettled'
  <2>1. CASE job.thread = NoEvent
    <3>1. \A e \in 1..n : e # t
      BY <1>1, <2>1
    <3> QED BY <1>3, <3>1 DEF Unsettled
  <2>2. CASE job.thread # NoEvent
    <3>1. ~job'.new
      BY <1>3, <2>2 DEF AutoreplyInv, StartedInv
    <3> QED BY <1>3, <3>1 DEF Unsettled
  <2> QED BY <2>1, <2>2
<1>8. Keeps
  BY <1>1, <1>2, <1>6, <1>7, GrownKeeps DEF Grown
<1>9. NotedFor(Range(job.mail.refs) \cup {job.mail.id}, t)
  <2>1. CASE job.thread = NoEvent
    <3>1. Range(job.mail.refs) = {}
      BY <1>3, <2>1 DEF AutoreplyInv, StartedInv, Range
    <3>2. tid[job.mail.id] = NoEvent
      BY <1>1, <1>3, <2>1 DEF OneThreadInv, MailInv
    <3> QED BY <3>1, <3>2 DEF NotedFor
  <2>2. CASE job.thread # NoEvent
    BY <1>1, <2>2 DEF OneThreadInv, MailInv
  <2> QED BY <2>1, <2>2
<1>a. PICK u \in Events : u = t
  BY <1>4
<1>10. /\ AllSettled(Range(job.mail.refs))'
       /\ NotedFor(Range(job.mail.refs) \cup {job.mail.id}, u)'
  <2>1. AllSettled(Range(job.mail.refs))'
    BY <1>1, <1>3, <1>8, MailStays DEF OneThreadInv, MailInv
  <2>2. NotedFor(Range(job.mail.refs) \cup {job.mail.id}, u)
    BY <1>9, <1>a
  <2> HIDE DEF t
  <2> QED BY <1>2, <1>3, <2>1, <2>2 DEF NotedFor
<1>11. OutInv'
  <2>1. \A s \in world : GoodOut(s)
    BY <1>3 DEF OneThreadInv, OutInv, InFlight
  <2> QED BY <1>2, <1>8, <2>1, OutStays DEF OutInv
<1>12. MetaInv'
  <2> SUFFICES ASSUME NEW e \in 1..n', meta'[e] # NoMeta
               PROVE  /\ tid'[MessageID(e, Domain)] \in {NoEvent, meta'[e].thread}
                      /\ GoodRefs(e)'
    BY DEF MetaInv, MessageID
  <2>1. CASE e \in 1..n
    <3>1. meta[e] # NoMeta /\ meta'[e] = meta[e]
      BY <1>6, <2>1
    <3>2. GoodRefs(e) /\ tid[MessageID(e, Domain)] \in {NoEvent, meta[e].thread}
      BY <1>3, <2>1, <3>1 DEF OneThreadInv, MetaInv
    <3> QED BY <1>2, <1>8, <2>1, <3>1, <3>2, RefsStay
  <2>2. CASE e = n + 1
    <3>1. tid'[MessageID(e, Domain)] = NoEvent
      BY <1>1, <1>2, <2>2 DEF OneThreadInv, NotesInv
    <3>2. /\ AllSettled(Range(job.mail.refs))'
          /\ \A i \in Range(job.mail.refs) : tid'[i] \in {NoEvent, u}
      BY <1>3, <1>10 DEF NotedFor
    <3>3. meta'[e].refs = job.mail.refs /\ meta'[e].thread = u
      BY <1>5, <1>6, <1>a, <2>2
    <3> HIDE DEF t
    <3>4. GoodRefs(e)'
      BY <1>3, <3>2, <3>3 DEF GoodRefs, AllSettled, NotedFor
    <3> QED BY <3>1, <3>4
  <2> QED BY <1>1, <1>6, <2>1, <2>2
<1>13. MailInv'
  <2>1. job'.thread = u
    BY <1>3, <1>a
  <2> HIDE DEF t
  <2> QED BY <1>3, <1>10, <2>1 DEF MailInv
<1>14. SendInv'
  BY <1>3 DEF SendInv
<1>15. NotesInv'
  <2>1. \A e \in Events : e > n' => tid'[MessageID(e, Domain)] = NoEvent
    BY <1>1, <1>2, <1>6 DEF OneThreadInv, NotesInv
  <2>2. ASSUME NEW e \in 1..n', meta'[e] # NoMeta, e # n + 1
        PROVE  last'[meta'[e].thread] # NoEvent
    <3>1. e \in 1..n
      BY <1>1, <1>6, <2>2
    <3> QED BY <1>2, <1>3, <1>6, <2>2, <3>1 DEF OneThreadInv, NotesInv
  <2>3. t # NoEvent
    BY <1>4
  <2>4. tid'[NoId] = NoEvent /\ \A e \in Events : tid'[AutoreplyID(e, Domain)] = NoEvent
    BY <1>2 DEF OneThreadInv, NotesInv
  <2> QED BY <1>3, <2>1, <2>2, <2>3, <2>4 DEF NotesInv, MessageID, AutoreplyID
<1> QED BY <1>11, <1>12, <1>13, <1>14, <1>15 DEF OneThreadInv

\* The autoreply leaves: it refers to the first event of the thread.
LEMMA OneThreadSend ==
  ASSUME TypeInv, TypeInv', OneDomain, Undisturbed, HeadersInv, AutoreplyInv,
         OneThreadInv, SendAutoreply
  PROVE  OneThreadInv'
<1> DEFINE p == getLastEventID(job.thread)
           id == AutoreplyID(job.thread, meta[p].domain)
           m == Continue(p, id)
<1>0. /\ HasParent(p) /\ world' = world \cup {m}
      /\ job' = [job EXCEPT !.at = "notice", !.event = job.thread, !.out = m]
  BY QuietAutoreply DEF AutoLeaves
<1>1. PICK t : t = job.thread
  OBVIOUS
<1>2. /\ n' = n /\ meta' = meta /\ tid' = tid /\ last' = last /\ home' = home
      /\ world' = world \cup {m}
      /\ job' = [job EXCEPT !.at = "notice", !.event = t, !.out = m]
  BY <1>0, <1>1, AutoreplyLeaves DEF room, notes, threads, lasts
<1>3. job.at = "autoreply" /\ job.new /\ t \in 1..n /\ t # NoEvent
  BY <1>1, AutoreplyLeaves DEF GetEvent, TypeInv, TypeOK
<1>4. meta[t] # NoMeta /\ meta[t].refs = <<>> /\ last[t] = t
  BY <1>1, <1>3 DEF AutoreplyInv, StartedInv
<1>5. t \in Events /\ p = t /\ meta[t].thread = t
  BY <1>1, <1>3, <1>4, ThreadsAssumption
     DEF getLastEventID, TypeInv, TypeOK, HeadersInv, LastIn
<1>6. meta[t] \in Meta /\ meta[t].domain = Domain
  BY <1>4, <1>5 DEF TypeInv, TypeOK, Meta, OneDomain
<1>7. id = AutoreplyID(t, Domain) /\ id \in Ids /\ id \in Ours /\ id.event = t
  BY <1>1, <1>5, <1>6, ThreadsAssumption DEF AutoreplyID, Ids, Ours
<1>8. m.id = id /\ Cited(m) = {MessageID(t, Domain), id}
  <2> HIDE DEF id, p
  <2>1. Range(m.refs) = (IF meta[p].refs = <<>> THEN {MessageID(p, meta[p].domain)}
                         ELSE Range(meta[p].refs)) \cup {id}
    BY <1>0, <1>7, ContinueRefs
  <2>2. m.id = id
    BY <1>0, <1>7, ContinueType DEF TypeInv
  <2> HIDE DEF m
  <2>3. Range(m.refs) = {MessageID(t, Domain)} \cup {id}
    BY <1>4, <1>5, <1>6, <2>1
  <2> QED BY <2>2, <2>3 DEF Cited
<1>9. \A i \in Cited(m) : tid[i] \in {NoEvent, t} /\ i \in Ours /\ i.event <= n
  <2>1. MessageID(t, Domain) \in Ours /\ MessageID(t, Domain).event = t
    BY <1>5, ThreadsAssumption DEF MessageID, Ours
  <2>2. tid[MessageID(t, Domain)] \in {NoEvent, t}
    BY <1>3, <1>4, <1>5 DEF OneThreadInv, MetaInv
  <2>3. tid[id] = NoEvent
    BY <1>5, <1>7 DEF OneThreadInv, NotesInv
  <2> QED BY <1>3, <1>7, <1>8, <2>1, <2>2, <2>3
<1> HIDE DEF m, id, p
<1>10. PICK out : out = m
  OBVIOUS
<1>11. /\ job'.at = "notice" /\ job'.mail = job.mail /\ job'.event = t
       /\ job'.out = out /\ job'.thread = t
  BY <1>1, <1>2, <1>10 DEF TypeInv, TypeOK, Job
<1>12. Unsettled' = Unsettled
  BY <1>1, <1>3, <1>11 DEF Unsettled
<1>13. \A s \in world' \ world : InFlight(s)'
  BY <1>2, <1>10, <1>11 DEF InFlight
<1>14. \A e \in 1..n : meta[e] # NoMeta => last'[meta[e].thread] # NoEvent
  BY <1>2, <1>3 DEF OneThreadInv, NotesInv
<1>15. Keeps /\ OutInv' /\ MetaInv' /\ NotesInv'
  BY <1>2, <1>3, <1>11, <1>12, <1>13, <1>14, OneThreadSame
<1>16. MailInv'
  <2>1. job.mail # NoMail
    BY <1>3, ThreadsAssumption DEF TypeInv, JobInv
  <2>2. AllSettled(Range(job.mail.refs))'
    BY <1>11, <1>15, <2>1, MailStays DEF OneThreadInv, MailInv
  <2>3. PICK u \in Events : /\ job.thread \in {NoEvent, u}
                            /\ NotedFor(Range(job.mail.refs) \cup {job.mail.id}, u)
    BY <2>1 DEF OneThreadInv, MailInv
  <2>4. NotedFor(Range(job.mail.refs) \cup {job.mail.id}, u)'
    BY <1>2, <1>11, <2>3 DEF NotedFor
  <2> QED BY <1>1, <1>11, <2>2, <2>3, <2>4 DEF MailInv
<1>17. SendInv'
  <2>1. \A i \in Cited(out) : tid'[i] \in {NoEvent, t} /\ i \in Ours /\ i.event <= n'
    BY <1>2, <1>9, <1>10
  <2>2. \A i \in Ours : i \notin Mids
    BY ThreadsAssumption
  <2>3. out.id \in Ours /\ out.id.event = t
    BY <1>7, <1>8, <1>10
  <2>4. meta'[t].thread = t
    BY <1>2, <1>5
  <2> QED BY <1>11, <2>1, <2>2, <2>3, <2>4 DEF SendInv, NotedFor, Cited
<1> QED BY <1>15, <1>16, <1>17 DEF OneThreadInv

\* Users write: the mail refers to what the last event of the thread does.
LEMMA OneThreadUser ==
  ASSUME TypeInv, TypeInv', OneDomain, Undisturbed, HeadersInv, AutoreplyInv,
         OneThreadInv, RunSend \/ \E t \in OpenThreads : SendEmailReply(t)
  PROVE  OneThreadInv'
<1>1. n \in Nat /\ n + 1 <= MaxEvents /\ n + 1 \in Events /\ Add(n + 1, NoMeta)
  <2>1. n \in Nat /\ MaxEvents \in Nat
    BY ThreadsAssumption DEF TypeInv, TypeOK
  <2>2. n + 3 <= MaxEvents /\ Add(n + 1, NoMeta)
    BY ReplyLeaves DEF RunSend, Fits
  <2> QED BY <2>1, <2>2
<1>2. n' = n + 1 /\ meta'[n + 1] = NoMeta /\ \A e \in 1..n : meta'[e] = meta[e]
  BY <1>1, AddKeeps
<1>3. tid' = tid /\ last' = last /\ home' = home /\ job = Idle
  <2>1. CASE RunSend
    BY <2>1 DEF RunSend, notes, threads, lasts
  <2> QED BY <2>1, ReplyLeaves DEF notes, threads, lasts
<1>4. job.mail = NoMail /\ job.at = "idle"
  BY <1>3 DEF Idle
<1>5. \A e \in 1..n : meta[e] # NoMeta => last[meta[e].thread] # NoEvent
  BY <1>4 DEF OneThreadInv, NotesInv
<1>6. ASSUME NEW m, world' = world \cup {m}, m.id = MessageID(n + 1, Domain),
             NEW t \in Events,
             \A i \in Cited(m) \ {m.id} :
               tid[i] \in {NoEvent, t} /\ Settled(i),
             job'.at = "notice", job'.mail = NoMail, job'.event = n + 1,
             job'.out = m, job'.thread = t
      PROVE  OneThreadInv'
  <2>1. /\ job'.at = "notice" /\ job'.mail = NoMail /\ job'.event = n + 1
        /\ job'.out = m /\ job'.thread = t
    BY <1>6
  <2>2. m.id \in Ours /\ m.id.event = n + 1
    BY <1>1, <1>6, ThreadsAssumption DEF MessageID, Ours
  <2>3. \A e \in 1..n : e \notin Unsettled'
    BY <1>1, <2>1 DEF Unsettled
  <2>4. \A s \in world' \ world : InFlight(s)'
    BY <1>6, <2>1 DEF InFlight
  <2>5. OutInv' /\ MetaInv' /\ NotesInv'
    BY <1>2, <1>3, <1>4, <1>5, <1>6, <2>1, <2>3, <2>4, OneThreadSame
  <2>6. MailInv'
    BY <2>1 DEF MailInv
  <2>7. SendInv'
    <3>1. ASSUME NEW i \in Cited(m)
          PROVE  /\ tid'[i] \in {NoEvent, t}
                 /\ i \in Mids => \E s \in world' : s.id = i
                 /\ i \in Ours => i.event <= n'
      <4>1. CASE i = m.id
        <5>1. tid[i] = NoEvent
          BY <1>1, <1>6, <4>1 DEF OneThreadInv, NotesInv
        <5>2. i \notin Mids
          BY <2>2, <4>1, ThreadsAssumption
        <5> QED BY <1>1, <1>2, <1>3, <2>2, <4>1, <5>1, <5>2
      <4>2. CASE i # m.id
        <5>1. tid[i] \in {NoEvent, t} /\ Settled(i)
          BY <1>6, <4>2
        <5>2. i \in Ours => i.event \in Nat
          BY DEF Ours
        <5> QED BY <1>1, <1>2, <1>3, <1>6, <5>1, <5>2 DEF Settled
      <4> QED BY <4>1, <4>2
    <3>2. meta'[n + 1] = NoMeta
      BY <1>2
    <3> QED BY <2>1, <2>2, <3>1, <3>2 DEF SendInv, NotedFor, Cited
  <2> QED BY <2>5, <2>6, <2>7 DEF OneThreadInv
<1>7. CASE RunSend
  <2> DEFINE id == MessageID(n + 1, Domain)
             m == [id |-> id, refs |-> <<id>>, domain |-> Domain]
  <2>1. /\ job' = [Idle EXCEPT !.at = "notice", !.thread = n + 1, !.event = n + 1,
                               !.out = m]
        /\ world' = world \cup {m}
    BY <1>7 DEF RunSend
  <2>2. m.id = id /\ Cited(m) = {m.id}
    <3>1. DOMAIN m.refs = {1} /\ m.refs[1] = id
      OBVIOUS
    <3> QED BY <3>1 DEF Cited, Range
  <2> HIDE DEF m
  <2>3. /\ job'.at = "notice" /\ job'.mail = NoMail /\ job'.event = n + 1
        /\ job'.out = m /\ job'.thread = n + 1 /\ world' = world \cup {m}
    BY <2>1 DEF Idle
  <2> QED BY <1>1, <1>6, <2>2, <2>3
<1>8. ASSUME NEW t \in OpenThreads, SendEmailReply(t)
      PROVE  OneThreadInv'
  <2> DEFINE p == getLastEventID(t)
             id == MessageID(n + 1, meta[p].domain)
             m == Continue(p, id)
  <2>2. CASE job' = job /\ world' = world
    <3>1. Unsettled' = {}
      BY <1>4, <2>2 DEF Unsettled
    <3>2. OutInv' /\ MetaInv' /\ NotesInv'
      BY <1>2, <1>3, <1>4, <1>5, <2>2, <3>1, OneThreadSame
    <3>3. MailInv' /\ SendInv'
      BY <1>4, <2>2 DEF MailInv, SendInv
    <3> QED BY <3>2, <3>3 DEF OneThreadInv
  <2>3. CASE Leaves(t, p)
    <3>0. HasParent(p)
      BY <2>3 DEF Leaves
    <3>a. /\ job'.at = "notice" /\ job'.mail = NoMail /\ job'.event = n + 1
          /\ job'.out = m /\ job'.thread = t /\ world' = world \cup {m}
      BY <2>3, LeavesOut
    <3>1. t \in Events
      BY OpenThreadsType DEF TypeInv
    <3>2. p \in 1..n /\ meta[p] \in Meta
      BY <3>0, ParentDomain DEF TypeInv
    <3>3. meta[p] # NoMeta /\ meta[p].thread = t
      <4>1. last[t] # NoEvent
        BY <1>5 DEF OpenThreads
      <4> QED BY <3>1, <4>1 DEF getLastEventID, HeadersInv, LastIn
    <3>4. meta[p].domain = Domain
      BY <3>2 DEF Meta, OneDomain
    <3>5. id = MessageID(n + 1, Domain) /\ id \in Ids
      BY <1>1, <3>4, OurIds, ThreadsAssumption
    <3>6. GoodRefs(p) /\ tid[MessageID(p, Domain)] \in {NoEvent, t}
      BY <1>4, <3>2, <3>3 DEF OneThreadInv, MetaInv
    <3>7. Settled(MessageID(p, Domain))
      <4>1. MessageID(p, Domain).event = p /\ MessageID(p, Domain) \in Ours
        BY <3>2, ThreadsAssumption DEF MessageID, Ours, TypeInv, TypeOK
      <4>2. Unsettled = {}
        BY <1>4 DEF Unsettled
      <4> QED BY <3>2, <4>1, <4>2, ThreadsAssumption DEF Settled
    <3> HIDE DEF id, p
    <3>8. m.id = id
      BY <3>0, <3>5, ContinueType DEF TypeInv
    <3> DEFINE S == IF meta[p].refs = <<>> THEN {MessageID(p, meta[p].domain)}
                    ELSE Range(meta[p].refs)
    <3>9. Range(m.refs) = S \cup {id}
      BY <3>0, <3>5, ContinueRefs
    <3>b. \A i \in S : tid[i] \in {NoEvent, t} /\ Settled(i)
      BY <3>3, <3>4, <3>6, <3>7 DEF GoodRefs, AllSettled, NotedFor
    <3> HIDE DEF m, S
    <3>10. \A i \in Cited(m) \ {m.id} : tid[i] \in {NoEvent, t} /\ Settled(i)
      BY <3>8, <3>9, <3>b DEF Cited
    <3> QED BY <1>6, <3>a, <3>1, <3>5, <3>8, <3>10
  <2> QED BY <1>8, <2>2, <2>3, QuietReply
<1> QED BY <1>7, <1>8

\* The notice about a mail is posted.
LEMMA OneThreadNotice ==
  ASSUME TypeInv, TypeInv', AutoreplyInv, OneThreadInv, Notice
  PROVE  OneThreadInv'
<1> DEFINE h == [thread |-> job.thread, id |-> job.out.id,
                 refs |-> job.out.refs, domain |-> job.out.domain]
<1>1. /\ job.at = "notice" /\ job'.at = "save" /\ job'.mail = job.mail
      /\ job'.out = job.out /\ job'.event = job.event /\ job'.thread = job.thread
      /\ job.thread \in Events /\ job.out \in Sent /\ job.event \in 1..n
  BY DEF Notice, TypeInv, TypeOK, JobInv, Job
<1>2. n \in Nat /\ n + 1 <= MaxEvents /\ n + 1 \in Events
  BY <1>1, ThreadsAssumption DEF TypeInv, TypeOK, FitsInv
<1>3. tid' = tid /\ last' = last /\ world' = world /\ home' = home
  BY DEF Notice, notes, threads, lasts
<1>4. Add(n + 1, h) /\ h.refs = job.out.refs /\ h \in Meta /\ h # NoMeta
  BY <1>1, ThreadsAssumption DEF Notice, Sent, Meta
<1> HIDE DEF h
<1>5. n' = n + 1 /\ meta'[n + 1] = h /\ \A e \in 1..n : meta'[e] = meta[e]
  BY <1>2, <1>4, AddKeeps
<1>6. \A e \in 1..n : e \notin Unsettled => e \notin Unsettled'
  BY <1>1, <1>2, <1>5 DEF Unsettled
<1>7. Keeps
  BY <1>2, <1>3, <1>5, <1>6, GrownKeeps DEF Grown
<1>8. OutInv'
  <2>1. ASSUME NEW s \in world, s # job.out PROVE GoodOut(s)'
    <3>1. GoodOut(s)
      BY <2>1 DEF OneThreadInv, OutInv, InFlight
    <3> QED BY <1>3, <1>7, <3>1, OutStays
  <2> QED BY <1>1, <1>3, <2>1 DEF OutInv, InFlight
<1>9. MetaInv'
  <2>1. tid'[MessageID(n + 1, Domain)] = NoEvent
    BY <1>2, <1>3 DEF OneThreadInv, NotesInv
  <2>2. ASSUME NEW e \in 1..n, meta'[e] # NoMeta
        PROVE  /\ tid'[MessageID(e, Domain)] \in {NoEvent, meta'[e].thread}
               /\ GoodRefs(e)'
    <3>1. meta[e] # NoMeta /\ meta'[e] = meta[e]
      BY <1>5, <2>2
    <3>2. GoodRefs(e) /\ tid[MessageID(e, Domain)] \in {NoEvent, meta[e].thread}
      BY <1>1, <3>1 DEF OneThreadInv, MetaInv
    <3> QED BY <1>3, <1>7, <3>1, <3>2, RefsStay
  <2>3. \A e \in 1..n' : e \in 1..n \/ e = n + 1
    BY <1>2, <1>5
  <2> QED BY <1>1, <1>5, <2>1, <2>2, <2>3 DEF MetaInv, MessageID
<1>10. MailInv'
  <2> SUFFICES ASSUME job.mail # NoMail PROVE MailInv'
    BY <1>1 DEF MailInv
  <2>1. AllSettled(Range(job.mail.refs))'
    BY <1>1, <1>7, MailStays DEF OneThreadInv, MailInv
  <2>2. PICK u \in Events : /\ job.thread \in {NoEvent, u}
                            /\ NotedFor(Range(job.mail.refs) \cup {job.mail.id}, u)
    BY DEF OneThreadInv, MailInv
  <2>3. NotedFor(Range(job.mail.refs) \cup {job.mail.id}, u)'
    BY <1>1, <1>3, <2>2 DEF NotedFor
  <2> QED BY <1>1, <2>1, <2>2, <2>3 DEF MailInv
<1>11. SendInv'
  <2>1. \A i \in Ours : i.event \in Nat
    BY DEF Ours
  <2>2. /\ \A i \in Cited(job.out) : /\ tid'[i] \in {NoEvent, job.thread}
                                     /\ i \in Mids => \E s \in world' : s.id = i
                                     /\ i \in Ours => i.event <= n'
        /\ job.out.id \in Ours /\ job.out.id.event = job.event
        /\ meta'[job.event] = NoMeta \/ meta'[job.event].thread = job.thread
    BY <1>1, <1>2, <1>3, <1>5, <2>1 DEF OneThreadInv, SendInv, NotedFor
  <2>3. meta'[n'] # NoMeta /\ meta'[n'].refs = job.out.refs
    BY <1>4, <1>5
  <2> QED BY <1>1, <2>2, <2>3 DEF SendInv, NotedFor, Cited
<1>12. NotesInv'
  <2>1. \A e \in Events : e > n' => tid'[MessageID(e, Domain)] = NoEvent
    BY <1>2, <1>3, <1>5 DEF OneThreadInv, NotesInv
  <2>2. \A e \in 1..n' : e \in 1..n \/ e = n'
    BY <1>2, <1>5
  <2>3. \A e \in 1..n : meta[e] # NoMeta => last[meta[e].thread] # NoEvent
    BY <1>1 DEF OneThreadInv, NotesInv
  <2>4. tid'[NoId] = NoEvent /\ \A e \in Events : tid'[AutoreplyID(e, Domain)] = NoEvent
    BY <1>3 DEF OneThreadInv, NotesInv
  <2> QED BY <1>1, <1>3, <1>5, <2>1, <2>2, <2>3, <2>4
          DEF NotesInv, MessageID, AutoreplyID
<1> QED BY <1>8, <1>9, <1>10, <1>11, <1>12 DEF OneThreadInv

\* The mail that was in hand is out, in the thread where it was posted.
LEMMA MailIsOut ==
  ASSUME TypeInv, AutoreplyInv, OneThreadInv, Keeps, job.mail # NoMail,
         job.mail \in Mail, NEW s \in world', s = AsSent(job.mail),
         tid'[job.mail.id] = tid[job.mail.id], home'[job.mail.id] = job.thread
  PROVE  GoodOut(s)'
<1>1. s.id = job.mail.id /\ s.refs = job.mail.refs
  BY DEF AsSent
<1>2. Range(s.refs) \subseteq Ids
  BY <1>1, RefsAreIds DEF Mail
<1>3. \A i \in Range(s.refs) : Settled(i)' /\ tid'[i] = tid[i]
  BY <1>1, <1>2 DEF OneThreadInv, MailInv, AllSettled, Keeps
<1>4. s.id \in Mids /\ s.id \notin Ours
  BY <1>1, ThreadsAssumption DEF AutoreplyInv, TraceInv
<1>5. Settled(s.id)'
  BY <1>4 DEF Settled
<1>6. PICK u \in Events : /\ job.thread \in {NoEvent, u}
                          /\ NotedFor(Range(job.mail.refs) \cup {job.mail.id}, u)
  BY DEF OneThreadInv, MailInv
<1>7. NotedFor(Cited(s), u)'
  BY <1>1, <1>3, <1>6 DEF NotedFor, Cited
<1> QED BY <1>1, <1>3, <1>5, <1>6, <1>7 DEF GoodOut, AllSettled, Cited

\* The handler is done with a mail that has no autoreply.
LEMMA OneThreadEnd ==
  ASSUME TypeInv, TypeInv', AutoreplyInv, OneThreadInv, EndIncoming
  PROVE  OneThreadInv'
<1>1. /\ n' = n /\ meta' = meta /\ tid' = tid /\ last' = last
      /\ job.at = "autoreply" /\ job'.at = "idle" /\ job'.mail = NoMail
      /\ world' = world \cup {AsSent(job.mail)}
  BY DEF EndIncoming, Idle, room, notes, threads, lasts
<1>2. job.mail \in Mail /\ job.mail # NoMail /\ job.mail.id \in Ids /\ job.mail.id # NoId
  BY <1>1, IdsDiffer, ThreadsAssumption
     DEF TypeInv, JobInv, Mail, AutoreplyInv, TraceInv
<1>3. \A i \in Ids : home'[i] = IF i = job.mail.id THEN job.thread ELSE home[i]
  BY <1>2 DEF EndIncoming, Answered, TypeInv, TypeOK
<1>4. n \in Nat /\ Unsettled' = {}
  BY <1>1 DEF Unsettled, TypeInv, TypeOK
<1>5. Keeps
  BY <1>1, <1>4, GrownKeeps DEF Grown
<1>6. OutInv'
  <2>1. ASSUME NEW s \in world PROVE GoodOut(s)'
    <3>1. GoodOut(s)
      BY <1>1 DEF OneThreadInv, OutInv, InFlight
    <3>2. s.id \in Ids /\ s.id # job.mail.id
      BY <1>2 DEF AutoreplyInv, TraceInv, TypeInv, TypeOK, Sent
    <3> QED BY <1>3, <1>5, <3>1, <3>2, OutStays
  <2>2. ASSUME NEW s \in world', s = AsSent(job.mail) PROVE GoodOut(s)'
    BY <1>1, <1>2, <1>3, <1>5, <2>2, MailIsOut
  <2> QED BY <1>1, <2>1, <2>2 DEF OutInv
<1>7. MetaInv'
  <2> SUFFICES ASSUME NEW e \in 1..n, meta[e] # NoMeta
               PROVE  /\ tid'[MessageID(e, Domain)] \in {NoEvent, meta[e].thread}
                      /\ GoodRefs(e)'
    BY <1>1 DEF MetaInv, MessageID
  <2>1. GoodRefs(e) /\ tid[MessageID(e, Domain)] \in {NoEvent, meta[e].thread}
    BY <1>1 DEF OneThreadInv, MetaInv
  <2> QED BY <1>1, <1>5, <2>1, RefsStay
<1>8. MailInv' /\ SendInv'
  BY <1>1 DEF MailInv, SendInv
<1>9. NotesInv'
  BY <1>1 DEF OneThreadInv, NotesInv, MessageID, AutoreplyID
<1> QED BY <1>6, <1>7, <1>8, <1>9 DEF OneThreadInv

\* The handler is done with a mail that it sent: what it notes is its thread.
LEMMA OneThreadSave ==
  ASSUME Undisturbed, TypeInv, TypeInv', HeadersInv, AutoreplyInv, OneThreadInv, Save
  PROVE  OneThreadInv'
<1> DEFINE a == MessageID(job.event, Domain)
           b == MessageID(n, Domain)
<1>1. /\ n' = n /\ meta' = meta /\ job.at = "save"
      /\ job'.at = "idle" /\ job'.mail = NoMail
      /\ world' = IF job.mail = NoMail THEN world ELSE world \cup {AsSent(job.mail)}
  BY SaveDone DEF Finish, Idle, room
<1>2. PICK t \in Events : t = job.thread
  BY <1>1 DEF TypeInv, JobInv
<1>3. /\ n \in Nat /\ n \in Events /\ job.event \in Events /\ job.event \in 1..n
      /\ job.out \in Sent /\ job.out.id \in Ids /\ job.out.refs \in Seq(Ids)
  BY <1>1, ThreadsAssumption DEF TypeInv, TypeOK, JobInv, Sent
<1>4. job.mail # NoMail => /\ job.mail \in Mail /\ job.mail.id \in Ids
                           /\ job.mail.id \in Mids /\ job.mail.id # NoId
  BY IdsDiffer DEF TypeInv, TypeOK, Job, AutoreplyInv, TraceInv
<1>5. /\ NotedFor(Cited(job.out), t)
      /\ \A i \in Cited(job.out) : /\ i \in Mids => \E s \in world : s.id = i
                                   /\ i \in Ours => i.event <= n
      /\ job.out.id \in Ours /\ job.out.id.event = job.event
      /\ meta[job.event] = NoMeta \/ meta[job.event].thread = t
      /\ meta[n] # NoMeta /\ meta[n].refs = job.out.refs /\ meta[n].thread = t
  BY <1>1, <1>2 DEF OneThreadInv, SendInv, HeadersInv
<1>6. \A i \in Ids : tid'[i] = IF i \in {a, b} THEN t ELSE tid[i]
  <2>1. SavedIds = {a, b}
    BY DEF SavedIds
  <2> QED BY <1>2, <2>1, QuietSave
<1>7. /\ a \in Ours /\ b \in Ours /\ a.event = job.event /\ b.event = n
      /\ a \in Ids /\ b \in Ids
  BY <1>3, ThreadsAssumption DEF MessageID, Ours, Ids
<1>8. job.event \in Unsettled /\ n \in Unsettled /\ Unsettled' = {}
  BY <1>1, <1>3 DEF Unsettled
<1>9. ~Settled(a) /\ ~Settled(b) /\ ~Settled(job.out.id)
  BY <1>5, <1>7, <1>8 DEF Settled
<1>10. \A i \in Ids : Settled(i) => tid'[i] = tid[i]
  BY <1>6, <1>9
<1>11. Keeps
  BY <1>1, <1>3, <1>8, <1>10, GrownKeeps DEF Grown
<1>12. \A i \in Ids : home'[i] = IF job.mail # NoMail /\ i = job.mail.id THEN t
                                 ELSE IF i = job.out.id THEN t ELSE home[i]
  BY <1>2, <1>3, <1>4, SaveDone DEF Finish, TypeInv, TypeOK
<1>13. \A i \in Mids : i \notin Ours
  BY ThreadsAssumption
<1>14. /\ \A i \in Cited(job.out) : Settled(i)' /\ tid'[i] \in {NoEvent, t}
       /\ Range(job.out.refs) \subseteq Cited(job.out)
  <2>1. Cited(job.out) \subseteq Ids
    BY <1>3, RefsAreIds DEF Cited
  <2>2. ASSUME NEW i \in Cited(job.out) PROVE tid'[i] \in {NoEvent, t}
    BY <1>5, <1>6, <2>1 DEF NotedFor
  <2>3. ASSUME NEW i \in Cited(job.out) PROVE Settled(i)'
    <3>1. i \in Mids => \E s \in world' : s.id = i
      BY <1>1, <1>5
    <3>2. i \in Ours => i.event <= n' /\ i.event \notin Unsettled'
      BY <1>1, <1>5, <1>8
    <3> QED BY <3>1, <3>2 DEF Settled
  <2> QED BY <2>2, <2>3 DEF Cited
<1> HIDE DEF a, b
<1>15. OutInv'
  <2>1. ASSUME NEW s \in world, s # job.out PROVE GoodOut(s)'
    <3>1. GoodOut(s)
      BY <2>1 DEF OneThreadInv, OutInv, InFlight
    <3>2. s.id \in Ids /\ Settled(s.id) /\ (job.mail # NoMail => s.id # job.mail.id)
      BY <3>1 DEF GoodOut, AllSettled, Cited, AutoreplyInv, TraceInv, TypeInv, TypeOK, Sent
    <3>3. home'[s.id] = home[s.id]
      BY <1>9, <1>12, <3>2
    <3> QED BY <1>11, <3>1, <3>3, OutStays
  <2>2. ASSUME NEW s \in world, s = job.out PROVE GoodOut(s)'
    <3>1. \A i \in Cited(s) : Settled(i)' /\ tid'[i] \in {NoEvent, t}
      BY <1>14, <2>2
    <3>2. home'[s.id] = t
      BY <1>3, <1>12, <2>2
    <3> QED BY <3>1, <3>2 DEF GoodOut, AllSettled, NotedFor, Cited
  <2>3. ASSUME NEW s \in world', job.mail # NoMail, s = AsSent(job.mail)
        PROVE  GoodOut(s)'
    <3>1. tid'[job.mail.id] = tid[job.mail.id]
      BY <1>4, <1>6, <1>7, <1>13, <2>3
    <3>2. home'[job.mail.id] = job.thread
      BY <1>2, <1>4, <1>12, <2>3
    <3> QED BY <1>4, <1>11, <2>3, <3>1, <3>2, MailIsOut
  <2> QED BY <1>1, <2>1, <2>2, <2>3 DEF OutInv
<1>16. MetaInv'
  <2> SUFFICES ASSUME NEW e \in 1..n, meta[e] # NoMeta
               PROVE  /\ tid'[MessageID(e, Domain)] \in {NoEvent, meta[e].thread}
                      /\ GoodRefs(e)'
    BY <1>1 DEF MetaInv, MessageID
  <2>1. tid[MessageID(e, Domain)] \in {NoEvent, meta[e].thread}
    BY DEF OneThreadInv, MetaInv
  <2>2. MessageID(e, Domain) \in Ids
    BY <1>3, IdsDiffer, ThreadsAssumption
  <2>3. MessageID(e, Domain) \in {a, b} => meta[e].thread = t
    <3>1. MessageID(e, Domain).event = e
      BY DEF MessageID
    <3> QED BY <1>5, <1>7, <3>1
  <2>4. tid'[MessageID(e, Domain)] \in {NoEvent, meta[e].thread}
    BY <1>6, <2>1, <2>2, <2>3
  <2>5. CASE e = n
    <3>1. \A i \in Range(meta[e].refs) : Settled(i)' /\ tid'[i] \in {NoEvent, meta[e].thread}
      BY <1>5, <1>14, <2>5
    <3>2. GoodRefs(e)'
      BY <1>1, <3>1 DEF GoodRefs, AllSettled, NotedFor
    <3> QED BY <2>4, <3>2
  <2>6. CASE e # n
    <3>1. GoodRefs(e)
      BY <2>6 DEF OneThreadInv, MetaInv
    <3> QED BY <1>1, <1>11, <2>4, <3>1, RefsStay
  <2> QED BY <2>5, <2>6
<1>17. MailInv' /\ SendInv'
  BY <1>1 DEF MailInv, SendInv
<1>18. NotesInv'
  <2>1. ASSUME NEW e \in Events, e > n PROVE tid'[MessageID(e, Domain)] = NoEvent
    <3>1. MessageID(e, Domain).event = e /\ MessageID(e, Domain) \in Ids
      BY OurIds, ThreadsAssumption DEF MessageID
    <3>2. MessageID(e, Domain) \notin {a, b}
      BY <1>3, <1>7, <2>1, <3>1
    <3> QED BY <1>6, <2>1, <3>1, <3>2 DEF OneThreadInv, NotesInv
  <2>2. ASSUME NEW e \in 1..n, meta[e] # NoMeta
        PROVE  last'[meta[e].thread] # NoEvent
    <3>0. e \in Events
      BY ThreadsAssumption DEF TypeInv, TypeOK
    <3>a. meta[e] \in Meta
      BY <2>2, <3>0 DEF TypeInv, TypeOK
    <3>1. meta[e].thread \in Events
      BY <3>a DEF Meta
    <3>2. last'[meta[e].thread] = IF meta[e].thread = t THEN n ELSE last[meta[e].thread]
      BY <1>2, <3>1, QuietSave DEF TypeInv, TypeOK
    <3>3. last[meta[e].thread] # NoEvent \/ e = n
      BY <1>1, <2>2 DEF OneThreadInv, NotesInv
    <3> QED BY <1>3, <1>5, <3>2, <3>3
  <2>3. tid'[NoId] = NoEvent /\ \A e \in Events : tid'[AutoreplyID(e, Domain)] = NoEvent
    <3>1. ASSUME NEW i \in {NoId} \cup {AutoreplyID(e, Domain) : e \in Events}
          PROVE  tid'[i] = tid[i]
      <4>1. i \in Ids /\ i # a /\ i # b
        BY <1>3, NeverNoted DEF a, b
      <4> QED BY <1>6, <4>1
    <3> QED BY <3>1 DEF OneThreadInv, NotesInv
  <2> QED BY <1>1, <2>1, <2>2, <2>3 DEF NotesInv, MessageID, AutoreplyID
<1> QED BY <1>15, <1>16, <1>17, <1>18 DEF OneThreadInv

\* "Map email threads to matrix threads", in a room with or without autoreply,
\* when nothing fails or is removed, mail programs write References and nobody
\* answers a mail that the bridge was not sent: an answer to any mail, be it
\* posted, sent from the room or an autoreply, goes to the thread of that mail.
THEOREM AnswersAreMapped ==
  ASSUME OneDomain, Undisturbed
  PROVE  Spec => []MapsThreads
<1>1. Init => AutoreplyInv /\ HeadersInv /\ OneThreadInv
  <2> SUFFICES ASSUME Init PROVE AutoreplyInv /\ HeadersInv /\ OneThreadInv
    OBVIOUS
  <2>1. world = {} /\ n = 0
    BY DEF Init, Undisturbed
  <2>2. \A i \in Ids : tid[i] = NoEvent
    BY DEF Init
  <2>3. job.mail = NoMail /\ job.at = "idle"
    BY DEF Init, Idle
  <2>4. NotesInv
    BY <2>1, <2>2, OurIds, ThreadsAssumption DEF NotesInv, Ids
  <2>5. OutInv /\ MetaInv /\ MailInv /\ SendInv
    BY <2>1, <2>3 DEF OutInv, MetaInv, MailInv, SendInv
  <2>6. HeadersInv
    BY <2>1, <2>3 DEF Init, HeadersInv, LastIn
  <2> QED BY <2>4, <2>5, <2>6, AutoreplyInit DEF OneThreadInv
<1>2. TypeInv /\ TypeInv' /\ Kept /\ HeadersInv /\ AutoreplyInv /\ OneThreadInv
        /\ [Next]_vars => OneThreadInv'
  <2> SUFFICES ASSUME TypeInv, TypeInv', Kept, HeadersInv, AutoreplyInv,
                      OneThreadInv, [Next]_vars
               PROVE  OneThreadInv'
    OBVIOUS
  <2>1. CASE UNCHANGED vars
    BY <2>1 DEF vars, room, notes, threads, lasts, OneThreadInv, OutInv, MetaInv, MailInv, SendInv,
                NotesInv, GoodOut, GoodRefs, AllSettled, Settled, Unsettled,
                NotedFor, Cited, InFlight, MessageID, AutoreplyID
  <2> QED BY <2>1, NothingFails, OneThreadIncoming, OneThreadPost, OneThreadBody,
             OneThreadNote, OneThreadSend, OneThreadEnd, OneThreadUser,
             OneThreadNotice, OneThreadSave DEF Next
<1>3. TypeInv /\ OneThreadInv => MapsThreads
  <2> SUFFICES ASSUME TypeInv, OneThreadInv, job.at = "post", GetEvent(Answers)
               PROVE  job.thread = Answers
    BY DEF MapsThreads
  <2>1. Answers # NoEvent
    BY DEF GetEvent
  <2>2. job.mail # NoMail /\ job.mail.parent # NoId /\ Answers = home[job.mail.parent]
    BY <2>1 DEF Answers
  <2> QED BY <2>1, <2>2 DEF OneThreadInv, MailInv
<1>4. Init => Kept
  BY DEF Init, Kept
<1> QED BY <1>1, <1>2, <1>3, <1>4, TypeInit, TypeStep, KeptStep, HeadersStep,
           AutoreplyStep, PTL DEF Spec

----------------------------------------------------------------------------
(* Mails that are answered and lost *)

\* The mail in hand was refused, and is going to be answered.
Refused ==
  /\ job.at \in {"note", "body", "autoreply", "notice", "save"}
  /\ job.mail # NoMail /\ job.mail.id \in Mids /\ ~Posted(job.mail.id)

\* Each M_UNKNOWN accounts for one mail: lost already, or in hand.
LostInv ==
  /\ IsFiniteSet(Lost)
  /\ Cardinality(Lost) + (IF Refused THEN 1 ELSE 0) <= unknown

\* A mail that is in an event stays there.
LEMMA PostedStays ==
  ASSUME Grows, NEW i, Posted(i)
  PROVE  Posted(i)'
<1>1. PICK e \in 1..n : meta[e] # NoMeta /\ meta[e].id = i
  BY DEF Posted
<1>2. e \in 1..n' /\ meta'[e] = meta[e]
  BY DEF Grows
<1> QED BY <1>1, <1>2 DEF Posted

\* Nothing is lost by a step after which no other mail of a correspondent is out,
\* and which refuses none.
LEMMA LostSame ==
  ASSUME TypeInv, Grows, LostInv, Refused' => Refused, unknown' = unknown,
         \A s \in world' : s \in world \/ s.id \notin Mids
  PROVE  LostInv'
<1>1. Lost' \subseteq Lost
  BY PostedStays DEF Lost
<1>2. /\ IsFiniteSet(Lost') /\ Cardinality(Lost') <= Cardinality(Lost)
      /\ Cardinality(Lost) \in Nat /\ Cardinality(Lost') \in Nat
  BY <1>1, FS_Subset, FS_CardinalityType DEF LostInv
<1>3. unknown \in Nat
  BY ThreadsAssumption DEF TypeInv, TypeOK
<1> QED BY <1>2, <1>3 DEF LostInv

\* The mail in hand is answered: it is lost if it was refused.
LEMMA LostAnswered ==
  ASSUME TypeInv, Grows, LostInv, unknown' = unknown, n' = n, meta' = meta, job'.at = "idle",
         job.at \in {"autoreply", "notice", "save"}, job.mail # NoMail,
         world' = world \cup {AsSent(job.mail)}
  PROVE  LostInv'
<1> DEFINE s == AsSent(job.mail)
<1>0. unknown \in Nat /\ s.id = job.mail.id
  BY ThreadsAssumption DEF TypeInv, TypeOK, AsSent
<1>1. ~Refused' /\ \A i : Posted(i)' <=> Posted(i)
  BY DEF Refused, Posted
<1>2. CASE Refused
  <2>1. Lost' \subseteq Lost \cup {s}
    BY <1>1 DEF Lost
  <2>2. /\ IsFiniteSet(Lost \cup {s}) /\ Cardinality(Lost) \in Nat
        /\ Cardinality(Lost \cup {s}) <= Cardinality(Lost) + 1
    <3>1. IsFiniteSet(Lost)
      BY DEF LostInv
    <3>2. /\ IsFiniteSet(Lost \cup {s})
          /\ Cardinality(Lost \cup {s}) = IF s \in Lost THEN Cardinality(Lost)
                                          ELSE Cardinality(Lost) + 1
      BY <3>1, FS_AddElement
    <3>3. Cardinality(Lost) \in Nat
      BY <3>1, FS_CardinalityType
    <3> QED BY <3>2, <3>3
  <2>3. /\ IsFiniteSet(Lost') /\ Cardinality(Lost') <= Cardinality(Lost \cup {s})
        /\ Cardinality(Lost') \in Nat /\ Cardinality(Lost \cup {s}) \in Nat
    BY <2>1, <2>2, FS_Subset, FS_CardinalityType
  <2>4. Cardinality(Lost) + 1 <= unknown
    BY <1>2 DEF LostInv
  <2>5. Cardinality(Lost') + 0 <= unknown'
    BY <1>0, <2>2, <2>3, <2>4
  <2> QED BY <1>1, <2>3, <2>5 DEF LostInv
<1>3. CASE ~Refused
  <2>1. s.id \notin Mids \/ Posted(s.id)
    BY <1>0, <1>3 DEF Refused
  <2>2. Lost' = Lost
    BY <1>1, <2>1 DEF Lost
  <2> QED BY <1>1, <1>3, <2>2 DEF LostInv
<1> QED BY <1>2, <1>3

\* The invariant of lost mails is inductive.
LEMMA LostStep == TypeInv /\ TypeInv' /\ LostInv /\ [Next]_vars => LostInv'
<1> SUFFICES ASSUME TypeInv, TypeInv', LostInv, [Next]_vars PROVE LostInv'
  OBVIOUS
<1>g. Grows
  BY GrowsStep
<1>o. ASSUME NEW i \in Ours PROVE i \notin Mids
  BY ThreadsAssumption
<1>1. ASSUME NEW mail \in Arriving, IncomingEmail(mail) PROVE LostInv'
  <2>1. world' = world /\ unknown' = unknown
    BY <1>1 DEF IncomingEmail
  <2>2. PICK failed, refused, t : Finds(mail, failed, refused, t)
    BY <1>1, IncomingFinds
  <2>3. job'.at = "post"
    BY <2>2 DEF Finds, Idle
  <2> QED BY <1>g, <2>1, <2>3, LostSame DEF Refused
<1>2. CASE Post
  <2> DEFINE t == IF job.thread = NoEvent THEN n + 1 ELSE job.thread
             h == [thread |-> t, id |-> job.mail.id, refs |-> job.mail.refs,
                   domain |-> job.mail.domain]
  <2>1. n + 1 <= MaxEvents /\ job.mail \in Mail
    BY <1>2, ThreadsAssumption DEF Post, TypeInv, TypeOK, FitsInv, JobInv
  <2>2. h \in Meta /\ h.id = job.mail.id
    <3>1. t \in Events
      BY <2>1, ThreadsAssumption DEF TypeInv, TypeOK, Job
    <3> QED BY <2>1, <3>1 DEF Meta, Mail
  <2>3. Add(n + 1, h) /\ job'.mail = job.mail /\ world' = world /\ unknown' = unknown
    BY <1>2 DEF Post, TypeInv, TypeOK, Job, bounds
  <2> HIDE DEF h
  <2>4. n' = n + 1 /\ n \in Nat /\ meta'[n + 1] = h
    BY <2>1, <2>3, AddKeeps
  <2>5. h # NoMeta /\ n + 1 \in 1..n'
    BY <2>2, <2>4, ThreadsAssumption
  <2>6. Posted(job.mail.id)'
    BY <2>2, <2>3, <2>4, <2>5 DEF Posted
  <2>7. ~Refused'
    BY <2>3, <2>6 DEF Refused
  <2> QED BY <1>g, <2>3, <2>7, LostSame
<1>3. CASE PostUnknown
  <2>1. /\ job.at = "post" /\ n' = n /\ meta' = meta /\ world' = world
        /\ unknown' = unknown + 1
    BY <1>3 DEF PostUnknown, room
  <2>2. ~Refused /\ Lost' = Lost
    BY <2>1 DEF Refused, Lost, Posted
  <2>3. unknown \in Nat /\ Cardinality(Lost) \in Nat /\ Cardinality(Lost) + 0 <= unknown
    BY <2>2, ThreadsAssumption, FS_CardinalityType DEF TypeInv, TypeOK, LostInv
  <2>4. Cardinality(Lost') + (IF Refused' THEN 1 ELSE 0) <= unknown'
    BY <2>1, <2>2, <2>3
  <2> QED BY <2>2, <2>4 DEF LostInv
<1>4. CASE Note \/ Body \/ SendAutoreply \/ Notice
  <2>1. /\ job.at \in {"note", "body", "autoreply", "notice", "save"}
        /\ job'.mail = job.mail /\ unknown' = unknown
    <3>1. CASE Note \/ Body \/ Notice
      BY <3>1 DEF Note, Body, Notice, TypeInv, TypeOK, Job, bounds
    <3>2. CASE SendAutoreply
      BY <3>2, AutoreplyLeaves, AutoreplyOut DEF TypeInv, TypeOK
    <3> QED BY <1>4, <3>1, <3>2
  <2>2. Refused' => Refused
    BY <1>g, <2>1, PostedStays DEF Refused
  <2>3. \A s \in world' : s \in world \/ s.id \notin Mids
    <3>1. CASE Note \/ Body \/ Notice
      BY <3>1 DEF Note, Body, Notice
    <3>2. CASE SendAutoreply
      <4>1. PICK p \in Events : AutoLeaves(p)
        BY <3>2, AutoreplyLeaves
      <4> DEFINE i == AutoreplyID(job.thread, meta[p].domain)
      <4>2. job.thread \in Events /\ HasParent(p)
        <5>1. GetEvent(job.thread) /\ HasParent(p)
          BY <3>2, <4>1, AutoreplyLeaves DEF AutoLeaves
        <5> QED BY <5>1, ThreadsAssumption DEF GetEvent, TypeInv, TypeOK
      <4>3. meta[p] \in Meta
        BY <4>2, ParentDomain DEF TypeInv
      <4>4. i \in Ours
        BY <4>2, <4>3 DEF AutoreplyID, Ours, Meta
      <4>5. Continue(p, i).id = i
        BY DEF Continue
      <4>6. world' = world \cup {Continue(p, i)}
        BY <4>1 DEF AutoLeaves
      <4> QED BY <1>o, <4>4, <4>5, <4>6
    <3> QED BY <1>4, <3>1, <3>2
  <2> QED BY <1>g, <2>1, <2>2, <2>3, LostSame
<1>5. ASSUME NEW t \in OpenThreads, SendEmailReply(t) PROVE LostInv'
  <2>a. t \in Events
    BY OpenThreadsType DEF TypeInv
  <2>b. n + 1 \in Events /\ unknown' = unknown /\ job = Idle
    BY <1>5, ReplyLeaves, ThreadsAssumption DEF TypeInv, TypeOK, Fits
  <2>1. CASE job' = job /\ world' = world
    <3>1. ~Refused'
      BY <2>b, <2>1 DEF Refused, Idle
    <3> QED BY <1>g, <2>b, <2>1, <3>1, LostSame
  <2>2. ASSUME NEW p \in Events, Leaves(t, p) PROVE LostInv'
    <3> DEFINE i == MessageID(n + 1, meta[p].domain)
    <3>1. /\ job'.mail = NoMail /\ job'.out = Continue(p, i)
          /\ world' = world \cup {job'.out}
      BY <2>2, LeavesOut
    <3>2. HasParent(p)
      BY <2>2 DEF Leaves
    <3>3. meta[p].domain \in Domains
      BY <3>2, ParentDomain DEF TypeInv
    <3>4. i \in Ours /\ Continue(p, i).id = i
      BY <2>b, <3>3 DEF MessageID, Ours, Continue
    <3> HIDE DEF i
    <3>5. \A s \in world' : s \in world \/ s.id \notin Mids
      BY <1>o, <3>1, <3>4
    <3>6. ~Refused'
      BY <3>1 DEF Refused
    <3> QED BY <1>g, <2>b, <3>5, <3>6, LostSame
  <2> QED BY <1>5, <2>1, <2>2, ReplyLeaves
<1>6. CASE RunSend
  <2> DEFINE i == MessageID(n + 1, Domain)
             m == [id |-> i, refs |-> <<i>>, domain |-> Domain]
  <2>1. n + 1 \in Events /\ unknown' = unknown /\ job'.mail = NoMail /\ world' = world \cup {m}
    BY <1>6, ThreadsAssumption DEF RunSend, Fits, TypeInv, TypeOK, Idle, bounds
  <2>2. i \in Ours
    BY <2>1, ThreadsAssumption DEF MessageID, Ours
  <2>3. m.id = i
    OBVIOUS
  <2> HIDE DEF i, m
  <2>4. \A s \in world' : s \in world \/ s.id \notin Mids
    BY <1>o, <2>1, <2>2, <2>3
  <2> QED BY <1>g, <2>1, <2>4, LostSame DEF Refused
<1>7. CASE PostFailed \/ Restart
  BY <1>7, <1>g, LostSame DEF PostFailed, Restart, Idle, Refused
<1>8. CASE EndIncoming
  <2>1. /\ job.at = "autoreply" /\ job'.at = "idle" /\ n' = n /\ meta' = meta
        /\ unknown' = unknown /\ world' = world \cup {AsSent(job.mail)}
    BY <1>8 DEF EndIncoming, room, Idle
  <2>2. job.mail # NoMail
    BY <2>1, ThreadsAssumption DEF TypeInv, JobInv
  <2> QED BY <1>g, <2>1, <2>2, LostAnswered
<1>e. CASE Evict
  <2>1. job' = job /\ n' = n /\ meta' = meta /\ world' = world /\ unknown' = unknown
    BY <1>e DEF Evict, room, bounds
  <2> QED BY <1>g, <2>1, LostSame DEF Refused, Posted
<1>9. CASE NoticeFailed \/ Save
  <2>1. /\ job.at \in {"notice", "save"} /\ job'.at = "idle" /\ n' = n /\ meta' = meta
        /\ unknown' = unknown
        /\ IF job.mail = NoMail THEN world' = world
           ELSE world' = world \cup {AsSent(job.mail)}
    <3>1. CASE NoticeFailed
      BY <3>1 DEF NoticeFailed, Finish, room, Idle
    <3>2. CASE Save
      BY <3>2, SaveDone DEF Finish, room, Idle
    <3> QED BY <1>9, <3>1, <3>2
  <2>2. CASE job.mail = NoMail
    BY <1>g, <2>1, <2>2, LostSame DEF Refused
  <2>3. CASE job.mail # NoMail
    BY <1>g, <2>1, <2>3, LostAnswered
  <2> QED BY <2>2, <2>3
<1>10. ASSUME NEW e \in Events, Redact(e) PROVE LostInv'
  <2>1. job' = job /\ n' = n /\ meta' = meta /\ world' = world /\ unknown' = unknown
    BY <1>10 DEF Redact, bounds
  <2> QED BY <1>g, <2>1, LostSame DEF Refused, Posted
<1>11. CASE UNCHANGED vars
  <2>1. job' = job /\ n' = n /\ meta' = meta /\ world' = world /\ unknown' = unknown
    BY <1>11 DEF vars, room, bounds
  <2> QED BY <1>g, <2>1, LostSame DEF Refused, Posted
<1> QED BY <1>1, <1>2, <1>3, <1>4, <1>5, <1>6, <1>7, <1>8, <1>9,
           <1>10, <1>11, <1>e DEF Next

\* A mail is answered 250 and lost only by an M_UNKNOWN, one mail by each: for any
\* mails, whatever else fails, is delivered again or is removed, and whenever the
\* process stops, IncomingEmail answers for no other mail that it did not post.
THEOREM LostOnlyByUnknown == Spec => []LostNeedUnknown
<1>1. Init => LostInv
  <2> SUFFICES ASSUME Init PROVE LostInv
    OBVIOUS
  <2>1. \A s \in world : s.id \in Foreign
    BY DEF Init
  <2>2. Lost = {}
    BY <2>1, ThreadsAssumption DEF Lost
  <2>3. ~Refused /\ unknown = 0
    BY DEF Init, Refused, Idle
  <2> QED BY <2>2, <2>3, FS_EmptySet DEF LostInv
<1>2. TypeInv /\ LostInv => LostNeedUnknown
  <2> SUFFICES ASSUME TypeInv, LostInv PROVE Cardinality(Lost) <= unknown
    BY DEF LostNeedUnknown
  <2>1. Cardinality(Lost) \in Nat /\ unknown \in Nat
    BY ThreadsAssumption, FS_CardinalityType DEF LostInv, TypeInv, TypeOK
  <2> QED BY <2>1 DEF LostInv
<1> QED BY <1>1, <1>2, TypeInit, TypeStep, LostStep, PTL DEF Spec
=============================================================================
