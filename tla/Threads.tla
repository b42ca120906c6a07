------------------------------ MODULE Threads ------------------------------
(***************************************************************************)
(* Email threads and Matrix threads, in one mailbox room.                  *)
(*                                                                         *)
(* IncomingEmail posts a mail in the thread of the mails that it refers to *)
(* or starts a thread, and may answer it with the room's autoreply;        *)
(* SendEmailReply and runSend mail what users write.  Which thread a mail  *)
(* belongs to, and which event of a thread a reply continues, is kept in   *)
(* the account data of the room under Message-IDs and thread IDs.  Each    *)
(* handler holds the lock of the room (b.mu) from beginning to end, so one *)
(* of them runs at a time; the process may stop between any two of its     *)
(* steps, calls may fail, and events may be removed meanwhile.  What is     *)
(* kept goes to the cache and to the homeserver; when the homeserver        *)
(* refuses it, it is read until the cache drops it or the process stops.    *)
(*                                                                         *)
(* A mail is its Message-ID, its In-Reply-To and References headers and    *)
(* the domain of ours that the correspondent writes to.  The room has      *)
(* nothreads unset; files are left out (they are events without headers).  *)
(***************************************************************************)
EXTENDS Integers, Sequences, FiniteSets, Functions

CONSTANTS
  Mids,        \* Message-IDs of the correspondents
  Foreign,     \* Message-IDs of mails that the bridge was not sent
  Domains,     \* domains of the bridge
  Domain,      \* the domain of the room: SanitizeDomain(cfg.Domain())
  Styles,      \* headers of an answer: "both", "inReplyTo", "references"
  IdsMissing,  \* correspondents may leave out Message-ID
  AnyUnknown,  \* M_UNKNOWN may be the answer to any post, not only in a thread
  Threadify, Autoreply,  \* options of the room
  MaxEvents,   \* bound: events of the room
  MaxFaults,   \* bound: failed calls and restarts
  MaxUnknown,  \* bound: M_UNKNOWN answers of the homeserver
  MaxRemoved,  \* bound: removed events
  NoId, NoMeta, NoMail

Events  == 1..MaxEvents
NoEvent == 0

\* Mutant: an ID without domain.
MessageIDNoDomain(e, d) == [event |-> e, auto |-> FALSE, domain |-> NoId]

\* email.MessageID of an event, and of the autoreply in a thread.
MessageID(e, d)   == [event |-> e, auto |-> FALSE, domain |-> d]
AutoreplyID(e, d) == [event |-> e, auto |-> TRUE, domain |-> d]

Ours == [event : Events, auto : BOOLEAN, domain : Domains]
Ids  == Mids \cup Foreign \cup {NoId} \cup Ours

\* What the outside knows of a mail; `parent` is the mail that it answers.
Sent == [id : Ids, refs : Seq(Ids), domain : Domains]
Mail == [id : Ids, irt : Ids, refs : Seq(Ids), domain : Domains, parent : Ids]

\* The headers in an event, and the thread that the event is in.
Meta == [thread : Events, id : Ids, refs : Seq(Ids), domain : Domains]

ASSUME ThreadsAssumption ==
  /\ Domain \in Domains
  /\ Styles \subseteq {"both", "inReplyTo", "references"}
  /\ IdsMissing \in BOOLEAN /\ AnyUnknown \in BOOLEAN
  /\ Threadify \in BOOLEAN /\ Autoreply \in BOOLEAN
  /\ MaxEvents \in Nat /\ MaxFaults \in Nat /\ MaxUnknown \in Nat
  /\ MaxRemoved \in Nat
  /\ Mids \cap Foreign = {} /\ NoId \notin Mids \cup Foreign
  /\ \A i \in Mids \cup Foreign \cup {NoId} : i \notin Ours
  /\ NoMail \notin Mail \cup Sent /\ NoMeta \notin Meta

VARIABLES
  n,           \* the last event of the room
  removed,     \* events that GetEvent does not find any more
  meta,        \* meta[e]: the headers in event e
  tid, last,   \* account data as it is read: the thread of a Message-ID and
               \* the last event of a thread
  acTid, acLast,  \* and as the homeserver has it
  unnoted,     \* history: Message-IDs whose last thread was refused
  job,         \* the handler that holds the lock
  faults, unknown,
  unanswered,  \* mails that the bridge was given and has not answered 250
  world,       \* mails that correspondents have and may answer
  home         \* history: the thread of a mail, once its handler is done

room   == <<n, removed, meta>>
threads == <<tid, acTid, unnoted>>
lasts  == <<last, acLast>>
notes  == <<threads, lasts>>
bounds == <<faults, unknown>>
vars   == <<room, notes, job, bounds, unanswered, world, home>>

\* event: the event the handler is about; out: the mail it is sending; blind:
\* the Message-IDs that name the mail it answers could not be looked up, or the
\* homeserver had refused to note one of them.
Idle == [at |-> "idle", mail |-> NoMail, thread |-> NoEvent,
         event |-> NoEvent, new |-> FALSE, out |-> NoMail, blind |-> FALSE]
Job  == [at : {"idle", "post", "note", "body", "autoreply", "notice", "save"},
         mail : Mail \cup {NoMail}, thread : Events \cup {NoEvent},
         event : Events \cup {NoEvent}, new : BOOLEAN,
         out : Sent \cup {NoMail}, blind : BOOLEAN]

TypeOK ==
  /\ n \in Events \cup {NoEvent} /\ removed \subseteq 1..n
  /\ meta \in [Events -> Meta \cup {NoMeta}]
  /\ tid \in [Ids -> Events \cup {NoEvent}]
  /\ last \in [Events -> Events \cup {NoEvent}]
  /\ acTid \in [Ids -> Events \cup {NoEvent}]
  /\ acLast \in [Events -> Events \cup {NoEvent}]
  /\ unnoted \subseteq Ids
  /\ job \in Job
  /\ faults \in 0..MaxFaults /\ unknown \in 0..MaxUnknown
  /\ unanswered \subseteq Mail /\ world \subseteq Sent
  /\ home \in [Ids -> Events \cup {NoEvent}]

Init ==
  /\ n = 0 /\ removed = {} /\ meta = [e \in Events |-> NoMeta]
  /\ tid = [i \in Ids |-> NoEvent] /\ last = [e \in Events |-> NoEvent]
  /\ acTid = tid /\ acLast = last /\ unnoted = {}
  /\ job = Idle
  /\ faults = 0 /\ unknown = 0
  /\ unanswered = {} /\ home = [i \in Ids |-> NoEvent]
  /\ world = [id : Foreign, refs : {<<>>}, domain : Domains]

----------------------------------------------------------------------------
(* Helpers *)

GetEvent(e) == e \in 1..n /\ e \notin removed

\* getThreadID: In-Reply-To, which may be empty, then each of References.
\* Message-IDs in `failed` could not be looked up.
getThreadID(irt, refs, failed) ==
  LET ids  == <<irt>> \o refs
      hits == {k \in 1..Len(ids) : ids[k] \notin failed /\ GetEvent(tid[ids[k]])}
  IN IF hits = {} THEN NoEvent
     ELSE tid[ids[CHOOSE k \in hits : \A l \in hits : k <= l]]

getLastEventID(t) == IF last[t] = NoEvent THEN t ELSE last[t]

\* The event with headers that getParentEvent finds.
HasParent(p) == GetEvent(p) /\ meta[p] # NoMeta

\* getParentEmail, and what its callers add: References of the parent, or an
\* ID made of the parent event when it has none, and the new Message-ID.  The
\* mail comes from the domain that the parent was sent to or from.
Continue(p, id) ==
  LET refs == IF meta[p].refs = <<>> THEN <<MessageID(p, meta[p].domain)>>
              ELSE meta[p].refs
  IN [id |-> id, refs |-> Append(refs, id), domain |-> meta[p].domain]

\* A fault, which may be several calls in a row that fail, happens while the
\* bound allows one.
Fault == faults < MaxFaults /\ faults' = faults + 1
FaultIf(fails) == IF fails THEN Fault ELSE UNCHANGED faults

\* The parent of a reply in thread t: the last event noted; when that cannot be
\* read, the thread's own event.
ParentIs(t, p) ==
  /\ p \in {getLastEventID(t), t}
  /\ FaultIf(p # getLastEventID(t))

\* setThreadID and setLastEventID: the cache has the thread of the IDs at once,
\* the homeserver has it unless it refuses, which is only logged.
setThreadID(ids, t, refused) ==
  /\ tid' = [i \in Ids |-> IF i \in ids THEN t ELSE tid[i]]
  /\ acTid' = [i \in Ids |-> IF i \in ids \ refused THEN t ELSE acTid[i]]
  /\ unnoted' = (unnoted \ ids) \cup refused

setLastEventID(t, e, refused) ==
  /\ last' = [last EXCEPT ![t] = e]
  /\ acLast' = IF refused THEN acLast ELSE [acLast EXCEPT ![t] = e]

\* An event with headers, or none, is added to the room.
Add(e, headers) == n' = e /\ meta' = [meta EXCEPT ![e] = headers]

\* Bound: the events of a handler fit in the room (header, body, notice).
Fits == n + 3 <= MaxEvents

----------------------------------------------------------------------------
(* IncomingEmail *)

\* A mail of a correspondent: a new one, an answer, or one that is sent again
\* because it was not answered 250.
NewIds == {m \in Mids : /\ \A s \in world : s.id # m
                        /\ \A u \in unanswered : u.id # m}
          \cup (IF IdsMissing THEN {NoId} ELSE {})
Headers(p, style) ==
  [irt  |-> IF style = "references" THEN NoId ELSE p.id,
   refs |-> IF style = "inReplyTo" THEN <<>> ELSE Append(p.refs, p.id)]
Arriving ==
  unanswered
  \cup {[id |-> m, irt |-> NoId, refs |-> <<>>, domain |-> d, parent |-> NoId] :
          m \in NewIds, d \in Domains}
  \cup {[id |-> m, irt |-> Headers(p, style).irt,
         refs |-> Headers(p, style).refs, domain |-> p.domain,
         parent |-> p.id] :
          m \in NewIds, p \in world, style \in Styles}

\* What names the mail that is answered cannot be relied on: In-Reply-To or,
\* without it, one of References could not be looked up or was not noted.
Blind(mail, failed) ==
  \/ mail.irt # NoId /\ mail.irt \in failed \cup unnoted
  \/ mail.irt = NoId /\ Range(mail.refs) \cap (failed \cup unnoted) # {}

\* Mutant: a thread is looked up for In-Reply-To only.
IncomingEmailNoReferences(mail) ==
  /\ job = Idle /\ Fits
  /\ \E failed \in SUBSET ({mail.irt} \cup Range(mail.refs)), refused \in SUBSET {mail.id} :
       /\ FaultIf(failed # {} \/ refused # {})
       /\ LET t == IF mail.irt = NoId THEN NoEvent
                   ELSE getThreadID(mail.irt, <<>>, failed)
          IN /\ IF t # NoEvent THEN setThreadID({mail.id}, t, refused)
                ELSE refused = {} /\ UNCHANGED threads
             /\ job' = [Idle EXCEPT !.at = "post", !.mail = mail,
                                    !.thread = t, !.new = (t = NoEvent),
                                    !.blind = Blind(mail, failed)]
  /\ unanswered' = unanswered \cup {mail}
  /\ UNCHANGED <<room, lasts, unknown, world, home>>

IncomingEmail(mail) ==
  /\ job = Idle /\ Fits
  /\ \E failed \in SUBSET ({mail.irt} \cup Range(mail.refs)), refused \in SUBSET {mail.id} :
       /\ FaultIf(failed # {} \/ refused # {})
       /\ LET t == IF mail.irt = NoId /\ mail.refs = <<>> THEN NoEvent
                   ELSE getThreadID(mail.irt, mail.refs, failed)
          IN /\ IF t # NoEvent THEN setThreadID({mail.id}, t, refused)
                ELSE refused = {} /\ UNCHANGED threads
             /\ job' = [Idle EXCEPT !.at = "post", !.mail = mail,
                                    !.thread = t, !.new = (t = NoEvent),
                                    !.blind = Blind(mail, failed)]
  /\ unanswered' = unanswered \cup {mail}
  /\ UNCHANGED <<room, lasts, unknown, world, home>>

\* The mail is posted; without a thread it starts one.
Post ==
  /\ job.at = "post"
  /\ LET e == n + 1
         t == IF job.thread = NoEvent THEN e ELSE job.thread
     IN /\ Add(e, [thread |-> t, id |-> job.mail.id, refs |-> job.mail.refs,
                   domain |-> job.mail.domain])
        /\ job' = [job EXCEPT !.at = "note", !.thread = t, !.event = e]
  /\ UNCHANGED <<removed, notes, bounds, unanswered, world, home>>

\* M_UNKNOWN: the thread is forgotten and the handler goes on without event.
PostUnknown ==
  /\ job.at = "post" /\ (job.thread # NoEvent \/ AnyUnknown)
  /\ unknown < MaxUnknown /\ unknown' = unknown + 1
  /\ job' = [job EXCEPT !.at = "note", !.thread = NoEvent, !.new = TRUE]
  /\ UNCHANGED <<room, notes, faults, unanswered, world, home>>

\* Mutant: any error makes the handler go on.
PostFailedGoesOn ==
  /\ job.at \in {"post", "body"}
  /\ Fault
  /\ job' = IF job.at = "post" THEN [job EXCEPT !.at = "note", !.thread = NoEvent]
            ELSE [job EXCEPT !.at = "autoreply"]
  /\ UNCHANGED <<room, notes, unknown, unanswered, world, home>>

\* Any other error, of this call or of that for the body, is returned: the
\* mail is not answered 250.
PostFailed ==
  /\ job.at \in {"post", "body"}
  /\ Fault
  /\ job' = Idle
  /\ UNCHANGED <<room, notes, unknown, unanswered, world, home>>

\* Mutant: the event of the mail is noted as a thread of its own.
NoteLastOfEvent ==
  /\ job.at = "note"
  /\ \E refused \in SUBSET {job.mail.id}, lost \in BOOLEAN :
       /\ FaultIf(refused # {} \/ lost)
       /\ setThreadID({job.mail.id}, job.thread, refused)
       /\ IF job.thread # NoEvent THEN setLastEventID(job.event, job.thread, lost)
          ELSE ~lost /\ UNCHANGED lasts
  /\ job' = [job EXCEPT !.at = "body"]
  /\ UNCHANGED <<room, unknown, unanswered, world, home>>

\* The mail is noted; without event the empty ID is, which reads as none.
Note ==
  /\ job.at = "note"
  /\ \E refused \in SUBSET {job.mail.id}, lost \in BOOLEAN :
       /\ FaultIf(refused # {} \/ lost)
       /\ setThreadID({job.mail.id}, job.thread, refused)
       /\ IF job.thread # NoEvent THEN setLastEventID(job.thread, job.event, lost)
          ELSE ~lost /\ UNCHANGED lasts
  /\ job' = [job EXCEPT !.at = "body"]
  /\ UNCHANGED <<room, unknown, unanswered, world, home>>

\* The body of a new thread's mail, for a room with threadify.
Body ==
  /\ job.at = "body"
  /\ IF job.new /\ Threadify THEN Add(n + 1, NoMeta) ELSE UNCHANGED <<n, meta>>
  /\ job' = [job EXCEPT !.at = "autoreply"]
  /\ UNCHANGED <<removed, notes, bounds, unanswered, world, home>>

\* IncomingEmail returns nil: 250 (the correspondent has one recipient here).
Answered ==
  /\ unanswered' = unanswered \ {job.mail}
  /\ home' = IF job.mail.id = NoId THEN home
             ELSE [home EXCEPT ![job.mail.id] = job.thread]

\* The mail itself, as the outside knows it.
AsSent(mail) == [id |-> mail.id, refs |-> mail.refs, domain |-> mail.domain]

\* sendAutoreply: the autoreply leaves.
SendAutoreply ==
  /\ job.at = "autoreply"
  /\ job.new /\ Autoreply /\ GetEvent(job.thread)
  /\ \E p \in Events :
       /\ ParentIs(job.thread, p) /\ HasParent(p)
       /\ LET m == Continue(p, AutoreplyID(job.thread, meta[p].domain))
          IN /\ job' = [job EXCEPT !.at = "notice", !.event = job.thread, !.out = m]
             /\ world' = world \cup {m}
  /\ UNCHANGED <<room, notes, unknown, unanswered, home>>

\* No autoreply, or one that could not be sent.
EndIncoming ==
  /\ job.at = "autoreply"
  /\ FaultIf(/\ job.new /\ Autoreply /\ GetEvent(job.thread)
             /\ HasParent(getLastEventID(job.thread)))
  /\ Answered
  /\ world' = world \cup {AsSent(job.mail)}
  /\ job' = Idle
  /\ UNCHANGED <<room, notes, unknown>>

----------------------------------------------------------------------------
(* SendEmailReply, runSend, saveSentMetadata *)

\* Threads that a user can write in.
OpenThreads == {meta[e].thread : e \in {x \in 1..n : meta[x] # NoMeta}}

\* A user writes in thread t: the reply leaves, or cannot.
SendEmailReply(t) ==
  /\ job = Idle /\ Fits
  /\ LET e == n + 1
     IN /\ Add(e, NoMeta)
        /\ \/ \E p \in Events :
                /\ ParentIs(t, p) /\ HasParent(p)
                /\ LET m == Continue(p, MessageID(e, meta[p].domain))
                   IN /\ job' = [Idle EXCEPT !.at = "notice", !.thread = t,
                                             !.event = e, !.out = m]
                      /\ world' = world \cup {m}
           \/ /\ FaultIf(HasParent(getLastEventID(t)))
              /\ UNCHANGED <<job, world>>
  /\ UNCHANGED <<removed, notes, unknown, unanswered, home>>

\* !pm send: the command is the root of the thread.
RunSend ==
  /\ job = Idle /\ Fits
  /\ LET e == n + 1
         id == MessageID(e, Domain)
         m == [id |-> id, refs |-> <<id>>, domain |-> Domain]
     IN /\ Add(e, NoMeta)
        /\ job' = [Idle EXCEPT !.at = "notice", !.thread = e, !.event = e,
                               !.out = m]
        /\ world' = world \cup {m}
  /\ UNCHANGED <<removed, notes, bounds, unanswered, home>>

\* The notice that keeps the headers of the mail.
Notice ==
  /\ job.at = "notice"
  /\ Add(n + 1, [thread |-> job.thread, id |-> job.out.id,
                 refs |-> job.out.refs, domain |-> job.out.domain])
  /\ job' = [job EXCEPT !.at = "save"]
  /\ UNCHANGED <<removed, notes, bounds, unanswered, world, home>>

\* After the handler: an autoreply was part of IncomingEmail.
Finish(h) ==
  /\ job' = Idle
  /\ IF job.mail = NoMail
     THEN home' = h /\ UNCHANGED <<unanswered, world>>
     ELSE /\ unanswered' = unanswered \ {job.mail}
          /\ world' = world \cup {AsSent(job.mail)}
          /\ home' = IF job.mail.id = NoId THEN h
                     ELSE [h EXCEPT ![job.mail.id] = job.thread]

\* The notice could not be sent: nothing is noted about the mail.
NoticeFailed ==
  /\ job.at = "notice"
  /\ Fault
  /\ Finish(home)
  /\ UNCHANGED <<room, notes, unknown>>

\* Mutant: the thread is noted for the ID of the notice only.
SaveNoticeOnly ==
  /\ job.at = "save"
  /\ LET ids == {MessageID(n, Domain)}
     IN \E refused \in SUBSET ids, lost \in BOOLEAN :
          /\ FaultIf(refused # {} \/ lost)
          /\ setThreadID(ids, job.thread, refused)
          /\ setLastEventID(job.thread, n, lost)
  /\ Finish([home EXCEPT ![job.out.id] = job.thread])
  /\ UNCHANGED <<room, unknown>>

\* The thread is noted for the IDs that the event and the notice would have
\* in the room's domain, the notice as the last event of the thread.
Save ==
  /\ job.at = "save"
  /\ LET ids == {MessageID(job.event, Domain), MessageID(n, Domain)}
     IN \E refused \in SUBSET ids, lost \in BOOLEAN :
          /\ FaultIf(refused # {} \/ lost)
          /\ setThreadID(ids, job.thread, refused)
          /\ setLastEventID(job.thread, n, lost)
  /\ Finish([home EXCEPT ![job.out.id] = job.thread])
  /\ UNCHANGED <<room, unknown>>

----------------------------------------------------------------------------
(* The homeserver and the process *)

Redact(e) ==
  /\ GetEvent(e) /\ Cardinality(removed) < MaxRemoved
  /\ removed' = removed \cup {e}
  /\ UNCHANGED <<n, meta, notes, job, bounds, unanswered, world, home>>

\* The cache drops an entry that the homeserver does not have.
Evict ==
  /\ \/ \E i \in Ids : /\ tid[i] # acTid[i]
                       /\ tid' = [tid EXCEPT ![i] = acTid[i]]
                       /\ UNCHANGED last
     \/ \E t \in Events : /\ last[t] # acLast[t]
                          /\ last' = [last EXCEPT ![t] = acLast[t]]
                          /\ UNCHANGED tid
  /\ UNCHANGED <<room, acTid, acLast, unnoted, job, bounds, unanswered, world,
                 home>>

\* The process stops and starts.  (For one that is idle, see Evict.)
Restart ==
  /\ job # Idle
  /\ Fault
  /\ job' = Idle
  /\ tid' = acTid /\ last' = acLast
  /\ UNCHANGED <<room, acTid, acLast, unnoted, unknown, unanswered, world, home>>

----------------------------------------------------------------------------
Next ==
  \/ \E mail \in Arriving : IncomingEmail(mail)
  \/ Post
  \/ PostUnknown
  \/ PostFailed
  \/ Note
  \/ Body
  \/ SendAutoreply
  \/ EndIncoming
  \/ \E t \in OpenThreads : SendEmailReply(t)
  \/ RunSend
  \/ Notice
  \/ NoticeFailed
  \/ Save
  \/ \E e \in Events : Redact(e)
  \/ Evict
  \/ Restart

Spec == Init /\ [][Next]_vars

----------------------------------------------------------------------------
(* Properties *)

\* The thread that the mail in hand answers, when its event is still there.
Answers ==
  IF job.mail = NoMail \/ job.mail.parent = NoId THEN NoEvent
  ELSE home[job.mail.parent]

\* "Map email threads to matrix threads": an answer to a mail that was posted
\* in, or sent from, a thread goes to that thread, through restarts, repeated
\* deliveries, removed events and threads that were started anew, and when the
\* homeserver refused to note other mails.  Not so when the mail that it
\* answers was not noted or cannot be looked up: job.blind.  (When the
\* answer has no In-Reply-To and a failure has split the conversation, it may
\* go to the thread of another mail that it refers to.)
MapsThreads ==
  job.at = "post" /\ GetEvent(Answers) /\ ~job.blind =>
    \/ job.thread = Answers
    \/ job.mail.irt = NoId /\ \E i \in Range(job.mail.refs) :
                                i # NoId /\ job.thread = home[i]

\* A reply has something to continue: the last event noted for a thread is an
\* event of that thread that carries the headers of a mail.
LastHasHeaders ==
  \A t \in Events : last[t] # NoEvent =>
    meta[last[t]] # NoMeta /\ meta[last[t]].thread = t

\* Some event carries the headers of the mail with this Message-ID.
Posted(i) == \E e \in 1..n : meta[e] # NoMeta /\ meta[e].id = i

\* Mails that were answered 250 and are in no event.
Lost == {s \in world : s.id \in Mids /\ ~Posted(s.id)}

\* A mail is answered 250 and lost only by an M_UNKNOWN of the homeserver, and
\* each of them loses one mail at most: no other error, restart, repeated
\* delivery or removed event makes the bridge answer for a mail that it did not
\* post.
LostNeedUnknown == Cardinality(Lost) <= unknown

\* "Email autoreply / autoresponder for new email threads": nobody who answers
\* in a thread is sent an autoreply, so two responders do not answer each
\* other for ever.
AutoreplyForNewThreads ==
  job.at = "notice" /\ job.mail # NoMail /\ ~job.blind
    => ~GetEvent(Answers)
=============================================================================
