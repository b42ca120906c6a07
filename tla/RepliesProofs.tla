--------------------------- MODULE RepliesProofs ---------------------------
(***************************************************************************)
(* Proofs about Replies for every set of addresses and every mail that may *)
(* come in.                                                                *)
(***************************************************************************)
EXTENDS Replies, TLAPS

----------------------------------------------------------------------------
(* What fixtofrom does *)

\* To as a whole is an address of the room, or it counts for nothing.
LEMMA ToSenderIs ==
  ASSUME NEW e
  PROVE  /\ ToSender(e) # None => ToSender(e) \in Own /\ e.to = {ToSender(e)}
         /\ \A s \in Own : e.to = {s} => ToSender(e) = s
  <1>1. ASSUME NEW s \in Own, e.to = {s}
        PROVE  ToSender(e) = s
    <2>1. \E t \in Own : e.to = {t}
      BY <1>1
    <2>2. /\ (CHOOSE t \in Own : e.to = {t}) \in Own
          /\ e.to = {CHOOSE t \in Own : e.to = {t}}
      BY <2>1
    <2> QED
      BY <1>1, <2>1, <2>2 DEF ToSender
  <1>2. ASSUME ToSender(e) # None
        PROVE  ToSender(e) \in Own /\ e.to = {ToSender(e)}
    <2>1. PICK s \in Own : e.to = {s}
      BY <1>2 DEF ToSender
    <2> QED
      BY <1>1, <2>1
  <1> QED
    BY <1>1, <1>2

\* The sender of a reply is an address of the room that the parent has in From,
\* To or RCPT TO, or there is none.
LEMMA PreviousSenderIs ==
  ASSUME NEW e
  PROVE  \/ PreviousSender(e) = None
         \/ PreviousSender(e) \in Own \cap ({e.from, e.rcptTo} \cup e.to)
  BY ToSenderIs DEF PreviousSender, FromSender, RcptToSender

\* What comes out of fixtofrom are headers, if there is a sender.
LEMMA FixType ==
  ASSUME NEW e \in Headers, PreviousSender(e) # None
  PROVE  fixtofrom(e) \in Headers
  <1>1. PreviousSender(e) \in Own
    BY PreviousSenderIs
  <1>2. e.from \in Addrs /\ e.to \subseteq Addrs /\ e.cc \subseteq Addrs /\ e.rcptTo \in Addrs
    BY DEF Headers, Addrs
  <1>3. {IF c \in Own THEN e.from ELSE c : c \in e.cc} \subseteq Addrs
    BY <1>2
  <1> QED
    BY <1>1, <1>2, <1>3 DEF fixtofrom, Headers

\* fixtofrom brings in no address that the parent did not have.
LEMMA FixHas ==
  ASSUME NEW e
  PROVE  Everybody(fixtofrom(e)) \subseteq Everybody(e) \cup {e.rcptTo, None}
  <1>1. {IF c \in Own THEN e.from ELSE c : c \in e.cc} \subseteq {e.from} \cup e.cc
    OBVIOUS
  <1> QED
    BY <1>1, PreviousSenderIs DEF fixtofrom, Everybody

\* Of a mail from elsewhere, fixtofrom leaves no address of the room in Cc.
LEMMA FixCC ==
  ASSUME NEW e, e.from \in People
  PROVE  fixtofrom(e).cc = (e.cc \ Own) \cup (IF e.cc \cap Own = {} THEN {} ELSE {e.from})
  BY RepliesAssumption DEF fixtofrom

\* A reply to a reply has the headers of the first: what fixtofrom has turned
\* round once it leaves as it is.
LEMMA FixTwice ==
  ASSUME NEW e, e.from \in People, PreviousSender(e) # None
  PROVE  /\ PreviousSender(fixtofrom(e)) = PreviousSender(e)
         /\ fixtofrom(fixtofrom(e)) = fixtofrom(e)
  <1> DEFINE f == fixtofrom(e)
  <1>1. PreviousSender(e) \in Own
    BY PreviousSenderIs
  <1>2. f.from = PreviousSender(e)
    BY DEF fixtofrom
  <1>3. PreviousSender(f) = f.from
    BY <1>1, <1>2, RepliesAssumption DEF PreviousSender, FromSender, Addrs
  <1>4. f.to = IF ToSender(e) # None THEN {e.from} ELSE e.to
    BY DEF fixtofrom
  <1>5. e.from \notin Own
    BY RepliesAssumption
  <1>6. ToSender(f) = None
    <2>1. SUFFICES ASSUME ToSender(f) # None
                   PROVE  FALSE
      OBVIOUS
    <2>2. ToSender(f) \in Own /\ f.to = {ToSender(f)}
      BY <2>1, ToSenderIs
    <2>3. CASE ToSender(e) # None
      BY <2>2, <2>3, <1>4, <1>5
    <2>4. CASE ToSender(e) = None
      BY <2>2, <2>4, <1>4, <2>1, ToSenderIs
    <2> QED
      BY <2>3, <2>4
  <1>7. f.cc \cap Own = {}
    BY <1>5, FixCC
  <1>8. {IF c \in Own THEN f.from ELSE c : c \in f.cc} = f.cc
    BY <1>7
  <1>9. f.rcptTo = e.rcptTo
    BY DEF fixtofrom
  <1>10. f = [from |-> f.from, to |-> f.to, cc |-> f.cc, rcptTo |-> f.rcptTo]
    BY DEF fixtofrom
  <1>11. fixtofrom(f) = [from |-> f.from, to |-> f.to, cc |-> f.cc, rcptTo |-> f.rcptTo]
    <2> HIDE DEF f
    <2> QED
      BY <1>3, <1>6, <1>8 DEF fixtofrom
  <1> QED
    BY <1>2, <1>3, <1>10, <1>11

\* The recipients of a reply to plain mail.
LEMMA PlainRecipients ==
  ASSUME NEW e \in Headers, Plain(e)
  PROVE  /\ PreviousSender(e) # None
         /\ Composed(fixtofrom(e))
         /\ calculateRecipients(fixtofrom(e), PreviousSender(e))
              = Everybody(e) \ (Own \cup Forwarded)
  <1> DEFINE f == fixtofrom(e)
             s == PreviousSender(e)
  <1>1. e.from \in People /\ e.from \notin Own /\ e.rcptTo \in Own
    BY RepliesAssumption DEF Plain
  <1>2. s \in Own /\ s # None
    <2>1. s # None
      BY <1>1, ToSenderIs, RepliesAssumption
         DEF PreviousSender, FromSender, RcptToSender, Addrs
    <2> QED
      BY <2>1, PreviousSenderIs
  <1>3. f.from = s /\ f.to = IF ToSender(e) # None THEN {e.from} ELSE e.to
    BY DEF fixtofrom
  <1>4. f.cc = (e.cc \ Own) \cup (IF e.cc \cap Own = {} THEN {} ELSE {e.from})
    BY <1>1, FixCC
  <1>5. CASE \E t \in Own : e.to = {t}
    <2>1. PICK t \in Own : e.to = {t}
      BY <1>5
    <2>2. ToSender(e) = t /\ t # None
      BY <2>1, ToSenderIs, RepliesAssumption DEF Addrs
    <2>3. f.to = {e.from}
      BY <2>2, <1>3
    <2>4. Everybody(f) = {s, e.from} \cup (e.cc \ Own)
      BY <1>3, <1>4, <2>3 DEF Everybody
    <2>5. Everybody(e) \ Own = {e.from} \cup (e.cc \ Own)
      BY <1>1, <2>1 DEF Everybody
    <2>6. calculateRecipients(f, s) = Everybody(e) \ (Own \cup Forwarded)
      BY <1>1, <1>2, <2>4, <2>5 DEF calculateRecipients
    <2> QED
      BY <1>2, <1>3, <2>3, <2>6 DEF Composed
  <1>6. CASE e.to # {} /\ e.to \subseteq People /\ e.cc \cap Own # {}
    <2>1. e.to \cap Own = {}
      BY <1>6, RepliesAssumption
    <2>2. ToSender(e) = None
      BY <2>1, ToSenderIs
    <2>3. f.to = e.to
      BY <2>2, <1>3
    <2>4. Everybody(f) = {s, e.from} \cup e.to \cup (e.cc \ Own)
      BY <1>3, <1>4, <1>6, <2>3 DEF Everybody
    <2>5. Everybody(e) \ Own = {e.from} \cup e.to \cup (e.cc \ Own)
      BY <1>1, <2>1 DEF Everybody
    <2>6. calculateRecipients(f, s) = Everybody(e) \ (Own \cup Forwarded)
      BY <1>1, <1>2, <2>1, <2>4, <2>5 DEF calculateRecipients
    <2> QED
      BY <1>2, <1>3, <1>6, <2>3, <2>6 DEF Composed
  <1> QED
    BY <1>5, <1>6 DEF Plain

----------------------------------------------------------------------------
(* Types *)

\* Mails that come in have headers of the type of the model.
LEMMA MailsType == Mails \subseteq Headers
  BY RepliesAssumption DEF Headers, Addrs

\* NoMail is what no mail has.
LEMMA NoMailIs == NoMail \notin Headers
  BY RepliesAssumption DEF NoMail, Headers, Addrs

\* What Reply does, with the two outcomes of keeping the headers apart.
LEMMA ReplyDoes ==
  ASSUME TypeOK, Reply
  PROVE  /\ mail \in Headers
         /\ \/ got' = {} /\ mail' = mail
            \/ /\ PreviousSender(mail) # None
               /\ got' = calculateRecipients(fixtofrom(mail), PreviousSender(mail))
               /\ mail' = mail \/ mail' = fixtofrom(mail)
         /\ Composed(fixtofrom(mail))
              => got' = calculateRecipients(fixtofrom(mail), PreviousSender(mail))
         /\ mail' = mail \/ mail' = fixtofrom(mail)
         /\ replied' = TRUE /\ last' = last /\ known' = known
  <1>1. mail \in Headers
    BY DEF TypeOK, Reply
  <1>2. Composed(fixtofrom(mail)) => PreviousSender(mail) # None
    BY DEF Composed, fixtofrom
  <1> QED
    BY <1>1, <1>2 DEF Reply

\* A step keeps the types; with a sender, what Reply keeps are headers.
LEMMA TypeNext == TypeOK /\ [Next]_vars => TypeOK'
  <1> SUFFICES ASSUME TypeOK, [Next]_vars
               PROVE  TypeOK'
    OBVIOUS
  <1>1. ASSUME NEW m \in Mails, Incoming(m)
        PROVE  TypeOK'
    <2>1. m \in Headers
      BY MailsType
    <2> QED
      BY <1>1, <2>1 DEF TypeOK, Incoming
  <1>2. ASSUME NEW p \in People, RunSend(p)
        PROVE  TypeOK'
    <2>1. mail' \in Headers /\ last' = mail'
      BY <1>2, RepliesAssumption DEF RunSend, Headers, Addrs
    <2>2. got' \subseteq Addrs /\ replied' = FALSE /\ known' \subseteq Own
      BY <1>2, RepliesAssumption DEF RunSend, Addrs
    <2> QED
      BY <2>1, <2>2 DEF TypeOK
  <1>3. CASE Reply
    <2>1. PICK m \in Headers : m = mail
      BY <1>3, ReplyDoes
    <2>2. PreviousSender(m) # None =>
            /\ fixtofrom(m) \in Headers
            /\ calculateRecipients(fixtofrom(m), PreviousSender(m)) \subseteq Addrs
      <3>1. SUFFICES ASSUME PreviousSender(m) # None
                     PROVE  /\ fixtofrom(m) \in Headers
                            /\ calculateRecipients(fixtofrom(m), PreviousSender(m)) \subseteq Addrs
        OBVIOUS
      <3>2. fixtofrom(m) \in Headers
        BY <3>1, FixType
      <3>3. Everybody(fixtofrom(m)) \subseteq Addrs
        BY <3>2 DEF Everybody, Headers, Addrs
      <3> QED
        BY <3>2, <3>3 DEF calculateRecipients
    <2>3. got' \subseteq Addrs /\ mail' \in Headers
      BY <1>3, <2>1, <2>2, ReplyDoes
    <2> QED
      BY <1>3, <2>3, ReplyDoes DEF TypeOK
  <1>4. CASE UNCHANGED vars
    BY <1>4 DEF vars, TypeOK
  <1> QED
    BY <1>1, <1>2, <1>3, <1>4 DEF Next

\* The headers kept in a thread always have a sender, an address of the room or of
\* the person who wrote, however mails and replies follow each other.
THEOREM TypeCorrect == Spec => []TypeOK
  <1>1. Init => TypeOK
    BY DEF Init, TypeOK
  <1> QED
    BY <1>1, TypeNext, PTL DEF Spec

----------------------------------------------------------------------------
(* No address is disclosed *)

\* All addresses of the room in the headers, RCPT TO included, are known.
LeaksInv ==
  /\ TypeOK /\ NothingLeaks
  /\ mail # NoMail => Own \cap {mail.rcptTo} \subseteq known

\* A step discloses nothing.
LEMMA LeaksNext == LeaksInv /\ [Next]_vars => LeaksInv'
  <1> SUFFICES ASSUME LeaksInv, [Next]_vars
               PROVE  LeaksInv'
    OBVIOUS
  <1>0. TypeOK /\ TypeOK'
    BY TypeNext DEF LeaksInv
  <1>1. ASSUME NEW m \in Mails, Incoming(m)
        PROVE  LeaksInv'
    <2>1. m.from \notin Own
      BY RepliesAssumption
    <2> QED
      BY <1>0, <1>1, <2>1 DEF LeaksInv, NothingLeaks, Everybody, Incoming
  <1>2. ASSUME NEW p \in People, RunSend(p)
        PROVE  LeaksInv'
    <2>1. p \notin Own
      BY RepliesAssumption
    <2>2. /\ mail'.from = Default /\ mail'.to = {p} /\ mail'.cc = {} /\ mail'.rcptTo = p
          /\ got' = {p} /\ known' = {Default}
      BY <1>2 DEF RunSend
    <2>3. NothingLeaks'
      BY <2>1, <2>2 DEF NothingLeaks, Everybody
    <2> QED
      BY <1>0, <2>1, <2>2, <2>3 DEF LeaksInv
  <1>3. CASE Reply
    <2>1. PICK m \in Headers : m = mail
      BY <1>0, <1>3, ReplyDoes
    <2>2. Own \cap (Everybody(m) \cup {m.rcptTo}) \subseteq known
      BY <2>1, NoMailIs DEF LeaksInv, NothingLeaks
    <2>3. Own \cap Everybody(fixtofrom(m)) \subseteq known
      BY <2>2, FixHas, RepliesAssumption DEF Addrs
    <2>4. fixtofrom(m).rcptTo = m.rcptTo
      BY DEF fixtofrom
    <2>5. calculateRecipients(fixtofrom(m), PreviousSender(m)) \subseteq Everybody(fixtofrom(m))
      BY DEF calculateRecipients
    <2>6. Own \cap got' \subseteq known /\ known' = known
      BY <1>0, <1>3, <2>1, <2>3, <2>5, ReplyDoes
    <2>7. PICK n \in {m, fixtofrom(m)} : mail' = n
      BY <1>0, <1>3, <2>1, ReplyDoes
    <2>8. Own \cap (Everybody(n) \cup {n.rcptTo}) \subseteq known
      BY <2>2, <2>3, <2>4
    <2>9. NothingLeaks'
      BY <2>6, <2>7, <2>8 DEF NothingLeaks, Everybody
    <2> QED
      BY <1>0, <2>6, <2>7, <2>8, <2>9 DEF LeaksInv
  <1>4. CASE UNCHANGED vars
    BY <1>0, <1>4 DEF vars, LeaksInv, NothingLeaks, Everybody
  <1> QED
    BY <1>1, <1>2, <1>3, <1>4 DEF Next

\* Of any mail, and however replies and mails follow each other: a reply shows no
\* address of the room, in another of its domains, that the conversation has not
\* had.  Nothing is assumed of the mails.
THEOREM NoAddressLeaks == Spec => []NothingLeaks
  <1>1. Init => LeaksInv
    <2> SUFFICES ASSUME Init
                 PROVE  LeaksInv
      OBVIOUS
    <2>1. mail = NoMail /\ got = {} /\ TypeOK
      BY DEF Init, TypeOK
    <2>2. Everybody(NoMail) = {None}
      BY DEF Everybody, NoMail
    <2>3. NothingLeaks
      BY <2>1, <2>2, RepliesAssumption DEF NothingLeaks, Addrs
    <2> QED
      BY <2>1, <2>3 DEF LeaksInv
  <1>2. LeaksInv => NothingLeaks
    BY DEF LeaksInv
  <1> QED
    BY <1>1, <1>2, LeaksNext, PTL DEF Spec

----------------------------------------------------------------------------
(* Everybody is sent the replies *)

\* The thread ends with the plain mail itself, or with what fixtofrom made of it.
EverybodyInv ==
  /\ TypeOK /\ EverybodyGetsReplies
  /\ Plain(last) => last \in Headers /\ mail \in {last, fixtofrom(last)}

\* A reply to either is sent to everybody.
LEMMA EverybodyNext == EverybodyInv /\ [Next]_vars => EverybodyInv'
  <1> SUFFICES ASSUME EverybodyInv, [Next]_vars
               PROVE  EverybodyInv'
    OBVIOUS
  <1>0. TypeOK /\ TypeOK'
    BY TypeNext DEF EverybodyInv
  <1>1. ASSUME NEW m \in Mails, Incoming(m)
        PROVE  EverybodyInv'
    <2>1. m \in Headers /\ mail' = m /\ last' = m /\ replied' = FALSE
      BY <1>1, MailsType DEF Incoming
    <2>2. EverybodyGetsReplies'
      BY <2>1 DEF EverybodyGetsReplies
    <2> QED
      BY <1>0, <2>1, <2>2 DEF EverybodyInv
  <1>2. ASSUME NEW p \in People, RunSend(p)
        PROVE  EverybodyInv'
    <2>1. last'.from = Default /\ replied' = FALSE
      BY <1>2 DEF RunSend
    <2>2. ~Plain(last)'
      BY <2>1, RepliesAssumption DEF Plain
    <2>3. EverybodyGetsReplies'
      BY <2>1 DEF EverybodyGetsReplies
    <2> QED
      BY <1>0, <2>2, <2>3 DEF EverybodyInv
  <1>3. CASE Reply
    <2>1. PICK l : l = last
      OBVIOUS
    <2>2. last' = l /\ replied' = TRUE
      BY <1>0, <1>3, <2>1, ReplyDoes
    <2>3. CASE ~Plain(l)
      <3>1. ~Plain(last)'
        BY <2>2, <2>3 DEF Plain
      <3> QED
        BY <1>0, <3>1 DEF EverybodyInv, EverybodyGetsReplies
    <2>4. CASE Plain(l)
      <3>1. l \in Headers /\ mail \in {l, fixtofrom(l)}
        BY <2>1, <2>4 DEF EverybodyInv
      <3>2. l.from \in People
        BY <2>4 DEF Plain
      <3>3. /\ PreviousSender(l) # None /\ Composed(fixtofrom(l))
            /\ calculateRecipients(fixtofrom(l), PreviousSender(l))
                 = Everybody(l) \ (Own \cup Forwarded)
        BY <2>4, <3>1, PlainRecipients
      <3>4. PreviousSender(mail) = PreviousSender(l) /\ fixtofrom(mail) = fixtofrom(l)
        BY <3>1, <3>2, <3>3, FixTwice
      <3>5. got' = Everybody(l) \ (Own \cup Forwarded)
        BY <1>0, <1>3, <3>3, <3>4, ReplyDoes
      <3>6. mail' \in {l, fixtofrom(l)}
        BY <1>0, <1>3, <3>1, <3>4, ReplyDoes
      <3>7. EverybodyGetsReplies'
        BY <2>2, <3>5 DEF EverybodyGetsReplies, Everybody
      <3>8. fixtofrom(last)' = fixtofrom(l)
        BY <2>2 DEF fixtofrom, PreviousSender, FromSender, ToSender, RcptToSender
      <3> QED
        BY <1>0, <2>2, <3>1, <3>6, <3>7, <3>8 DEF EverybodyInv
    <2> QED
      BY <2>3, <2>4
  <1>4. CASE UNCHANGED vars
    <2>1. PICK l : l = last
      OBVIOUS
    <2>2. last' = l /\ mail' = mail /\ got' = got /\ replied' = replied
      BY <1>4, <2>1 DEF vars
    <2>3. fixtofrom(last)' = fixtofrom(l)
      BY <2>2 DEF fixtofrom, PreviousSender, FromSender, ToSender, RcptToSender
    <2>4. Plain(last)' => Plain(last)
      BY <2>1, <2>2 DEF Plain
    <2>5. EverybodyGetsReplies'
      BY <2>1, <2>2, <2>4 DEF EverybodyInv, EverybodyGetsReplies, Everybody
    <2> QED
      BY <1>0, <2>1, <2>2, <2>3, <2>4, <2>5 DEF EverybodyInv
  <1> QED
    BY <1>1, <1>2, <1>3, <1>4 DEF Next

\* Initially there is no mail, and none that is plain.
LEMMA EverybodyInit == Init => EverybodyInv
  <1> SUFFICES ASSUME Init
               PROVE  EverybodyInv
    OBVIOUS
  <1>1. TypeOK /\ replied = FALSE
    BY DEF Init, TypeOK
  <1>2. ~Plain(last)
    BY RepliesAssumption DEF Init, Plain, NoMail, Addrs
  <1> QED
    BY <1>1, <1>2 DEF EverybodyInv, EverybodyGetsReplies

\* Each of any number of replies to plain mail is sent to its author and to everybody
\* else it names, and to nobody else.
THEOREM RepliesReachEverybody == Spec => []EverybodyGetsReplies
  <1>1. EverybodyInv => EverybodyGetsReplies
    BY DEF EverybodyInv
  <1> QED
    BY <1>1, EverybodyInit, EverybodyNext, PTL DEF Spec

\* The failures of AuthorGetsReply that TLC finds need mail that is not plain:
\* to several addresses, with the room in neither To nor Cc, or by another name.
THEOREM AuthorOfPlainGetsReply == Spec => [](Plain(last) => AuthorGetsReply)
  <1>1. EverybodyGetsReplies => (Plain(last) => AuthorGetsReply)
    BY RepliesAssumption DEF EverybodyGetsReplies, AuthorGetsReply, Plain, Everybody
  <1> QED
    BY <1>1, RepliesReachEverybody, PTL
=============================================================================
