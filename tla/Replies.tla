------------------------------ MODULE Replies ------------------------------
(***************************************************************************)
(* Who is sent what users write in a thread, and from which address.       *)
(*                                                                         *)
(* A reply takes its headers from the last event of the thread:            *)
(* getParentEmail reads them, fixtofrom turns them round and               *)
(* calculateRecipients makes the list of recipients.  The headers of a     *)
(* reply are kept in an event of the thread too, so the next reply starts  *)
(* from those.  Mail of any kind may come in at any time.                  *)
(*                                                                         *)
(* Addresses are values that are equal or not, and headers sets of them.   *)
(* Which thread a mail belongs to is the matter of Threads, what comes of  *)
(* a delivery that of Queue.                                               *)
(***************************************************************************)
CONSTANTS
  Own,        \* mailbox@domain of the room, for each of b.domains
  Default,    \* the one with the room's domain: cfg.Mailbox()@cfg.Domain()
  Others,     \* what is routed to the room too: aliases, subaddresses, catch-all
  People,     \* addresses elsewhere
  Forwarded,  \* POSTMOOGLE_MAILBOXES_FORWARDED
  Mails,      \* the headers of the mails that come in
  None        \* the empty address

Addrs   == Own \cup Others \cup People
Headers == [from : Own \cup People, to : SUBSET Addrs, cc : SUBSET Addrs, rcptTo : Addrs]
NoMail  == [from |-> None, to |-> {}, cc |-> {}, rcptTo |-> None]

ASSUME RepliesAssumption ==
  /\ Default \in Own /\ Forwarded \subseteq People
  /\ Own \cap Others = {} /\ (Own \cup Others) \cap People = {}
  /\ None \notin Addrs
  /\ Mails \subseteq [from : People, to : SUBSET Addrs, cc : SUBSET Addrs,
                      rcptTo : Own \cup Others]

VARIABLES
  mail,     \* the headers in the last event of the thread
  last,     \* history: those of the last mail that came in, or of !pm send
  got,      \* whom the last mail of the room was sent to
  replied,  \* history: the last thing that happened is a reply
  known     \* history: addresses of the room that the conversation has had

vars == <<mail, last, got, replied, known>>

TypeOK ==
  /\ mail \in Headers \cup {NoMail} /\ last \in Headers \cup {NoMail}
  /\ got \subseteq Addrs /\ replied \in BOOLEAN /\ known \subseteq Own

Init ==
  mail = NoMail /\ last = NoMail /\ got = {} /\ replied = FALSE /\ known = {}

----------------------------------------------------------------------------
(* getParentEmail *)

Everybody(m) == {m.from} \cup m.to \cup m.cc

\* newSenders[...] of RCPT TO, of To as a whole and of From.
RcptToSender(e) == IF e.rcptTo \in Own THEN e.rcptTo ELSE None
ToSender(e)     == IF \E s \in Own : e.to = {s} THEN CHOOSE s \in Own : e.to = {s}
                   ELSE None
FromSender(e)   == IF e.from \in Own THEN e.from ELSE None

\* Mutant: the address in the domain of the room.
PreviousSenderDefault(e) == Default

\* The address of the room that the parent was sent to or from.
PreviousSender(e) ==
  IF FromSender(e) # None THEN FromSender(e)
  ELSE IF ToSender(e) # None THEN ToSender(e) ELSE RcptToSender(e)

\* Mutant: Cc is left as it is.
fixtofromKeepsCC(e) ==
  [from   |-> PreviousSender(e),
   to     |-> IF ToSender(e) # None THEN {e.from} ELSE e.to,
   cc     |-> e.cc,
   rcptTo |-> e.rcptTo]

fixtofrom(e) ==
  [from   |-> PreviousSender(e),
   to     |-> IF ToSender(e) # None THEN {e.from} ELSE e.to,
   cc     |-> {IF c \in Own THEN e.from ELSE c : c \in e.cc},
   rcptTo |-> e.rcptTo]

\* Of the parent as fixtofrom has left it.
calculateRecipients(e, from) == (Everybody(e) \ Forwarded) \ {from}

\* Mutant: mail is composed without a sender.
ComposedUnsent(e) == e.to # {}

\* There is a parent with a To, and Compose, which fails without a sender,
\* returns a mail.
Composed(e) == e.to # {} /\ e.from # None

----------------------------------------------------------------------------
(* The thread *)

\* IncomingEmail: the mail is posted.
Incoming(m) ==
  /\ mail' = m /\ last' = m
  /\ got' = {} /\ replied' = FALSE
  /\ known' = known \cup (Own \cap (m.to \cup m.cc \cup {m.rcptTo}))

\* !pm send begins a thread; it sends a mail of its own to each recipient, and
\* the thread goes on with that to the last, p.
RunSend(p) ==
  /\ mail = NoMail
  /\ mail' = [from |-> Default, to |-> {p}, cc |-> {}, rcptTo |-> p]
  /\ last' = mail'
  /\ got' = {p} /\ replied' = FALSE
  /\ known' = {Default}

\* SendEmailReply, or the autoreply; the headers are kept (saveSentMetadata)
\* if some recipient could be sent to and the notice could be posted.
Reply ==
  /\ mail # NoMail
  /\ LET e  == fixtofrom(mail)
         rs == IF Composed(e) THEN calculateRecipients(e, PreviousSender(mail)) ELSE {}
     IN /\ got' = rs
        /\ mail' \in {mail} \cup IF rs = {} THEN {} ELSE {e}
  /\ replied' = TRUE
  /\ UNCHANGED <<last, known>>

Next ==
  \/ \E m \in Mails : Incoming(m)
  \/ \E p \in People : RunSend(p)
  \/ Reply

Spec == Init /\ [][Next]_vars

----------------------------------------------------------------------------
(* Properties *)

\* Mail that is to an address of the room alone, or that has one in Cc and none
\* in To; no other name of the room is in it.
Plain(m) ==
  /\ m.from \in People /\ m.cc \cap Others = {} /\ m.rcptTo \in Own
  /\ \/ \E s \in Own : m.to = {s}
     \/ m.to # {} /\ m.to \subseteq People /\ m.cc \cap Own # {}

\* However many replies there are to plain mail, each is sent to the author and to
\* everybody the mail names, those of POSTMOOGLE_MAILBOXES_FORWARDED left out, and
\* to nobody else: not to the room itself.
EverybodyGetsReplies ==
  replied /\ Plain(last) => got = Everybody(last) \ (Own \cup Forwarded)

\* "Because of possible multi-domain setup and we won't leak information": no
\* reply has an address of the room that the conversation did not have before.
NothingLeaks ==
  (Everybody(mail) \cup got) \cap Own \subseteq known

----------------------------------------------------------------------------
(* What documents say, and the code does not do *)

\* "Reply to matrix thread sends reply into email thread": whoever wrote the mail
\* that is replied to is sent the reply.
AuthorGetsReply ==
  replied /\ last.from \in People => last.from \in got \cup Forwarded
=============================================================================
