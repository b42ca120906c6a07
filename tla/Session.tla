------------------------------ MODULE Session ------------------------------
(***************************************************************************)
(* One SMTP connection: the session that postmoogle gives to go-smtp       *)
(* (Auth, Mail, Rcpt, Data, Reset), the two SASL servers, and the state    *)
(* go-smtp keeps beside it (the greeting, the transaction, whether the     *)
(* client has authenticated), which decides what the session is asked.     *)
(*                                                                         *)
(* DATA hands the mail to one recipient after the other; owners may give   *)
(* and take mailboxes at any time, between two recipients too.  What the   *)
(* checks find (RBL, SPF, MX, SMTP, spamlist, greylist, DKIM), whether a   *)
(* password is right and whether a delivery fails are choices.  s.from     *)
(* only feeds those checks and is not kept.                                *)
(***************************************************************************)
EXTENDS Naturals, Sequences, Functions

CONSTANTS
  Addrs,        \* well-formed mail addresses
  Locals,       \* those whose hostname is one of ours (s.domains)
  Invalid,      \* an address that is not well-formed
  Mailbox,      \* Mailbox[a]: utils.Mailbox(a), the part before @
  CatchAll,     \* the bot option catch-all, NoName when unset
  Rooms,
  BanlistAuto,  \* banlist and banlist:auto are on, the peer is not trusted
  BanlistAuth,  \* banlist and banlist:auth are on, the peer is not trusted
  Greylist,     \* the bot option greylist is not 0
  MaxRcpts,     \* bound: RCPT commands of a session
  NoRoom, NoName

Names == {Mailbox[a] : a \in Addrs}

ASSUME SessionAssumption ==
  /\ Locals \subseteq Addrs /\ Invalid \notin Addrs
  /\ NoRoom \notin Rooms /\ NoName \notin Names
  /\ CatchAll \in Names \cup {NoName}
  /\ BanlistAuto \in BOOLEAN /\ BanlistAuth \in BOOLEAN
  /\ Greylist \in BOOLEAN
  /\ MaxRcpts \in Nat

VARIABLES
  \* go-smtp's Conn
  helo,      \* greeted
  didAuth,
  mail,      \* fromReceived
  rcpts,     \* recipients: those answered 250
  sasl,      \* what the SASL server waits for, or "none"
  \* the session
  dir, tos, roomID, fromRoom,  \* dir is "incoming" while the code has ""
  at,        \* number of the recipient that DATA has come to, 0 outside it
  \* the bot
  mapping,   \* b.rooms
  banned,    \* which options have put the peer on the banlist
  greylisted,
  \* history
  named,     \* addresses that RCPT named in this transaction
  got,       \* recipients that this DATA has delivered to
  unknown,   \* those whose mail the homeserver refused with M_UNKNOWN
  refused,   \* those whose server refused the mail after DATA
  out,       \* addresses that the session sent to by SMTP
  answer     \* the answer to the last DATA

conn    == <<helo, didAuth, mail, rcpts, sasl>>
session == <<dir, tos, roomID, fromRoom, at>>
bot     == <<mapping, banned, greylisted>>
taken   == <<got, unknown, refused>>
hist    == <<named, taken, out, answer>>
vars    == <<conn, session, bot, hist>>

TypeOK ==
  /\ helo \in BOOLEAN /\ didAuth \in BOOLEAN /\ mail \in BOOLEAN
  /\ rcpts \subseteq Addrs
  /\ sasl \in {"none", "plain", "username", "password"}
  /\ dir \in {"incoming", "outgoing"}
  /\ tos \in Seq(Addrs)
  /\ roomID \in Rooms \cup {NoRoom} /\ fromRoom \in Rooms \cup {NoRoom}
  /\ at \in 0..Len(tos) + 1
  /\ mapping \in [Names -> Rooms \cup {NoRoom}]
  /\ banned \subseteq {"auto", "auth"} /\ greylisted \in BOOLEAN
  /\ named \subseteq Addrs /\ out \subseteq Addrs
  /\ got \subseteq Addrs /\ unknown \subseteq Addrs /\ refused \subseteq Addrs
  /\ answer \in {"none", "ok", "error", "noroom"}

\* A connection, and the session that NewSession makes for it.
Init ==
  /\ helo = FALSE /\ didAuth = FALSE /\ mail = FALSE /\ rcpts = {}
  /\ sasl = "none"
  /\ dir = "incoming" /\ tos = <<>> /\ roomID = NoRoom /\ fromRoom = NoRoom /\ at = 0
  /\ named = {} /\ got = {} /\ unknown = {} /\ refused = {} /\ out = {} /\ answer = "none"
  /\ mapping \in [Names -> Rooms \cup {NoRoom}]
  /\ banned = {} /\ greylisted = FALSE

----------------------------------------------------------------------------
(* The bot *)

getMapping(n) == mapping[n]

\* Mutant: the name of the catch-all mailbox is returned, not its room.
GetMappingName(n) ==
  IF mapping[n] # NoRoom \/ CatchAll = NoName THEN mapping[n]
  ELSE CatchAll

GetMapping(n) ==
  IF mapping[n] # NoRoom \/ CatchAll = NoName THEN mapping[n]
  ELSE mapping[CatchAll]

\* BanAuto and BanAuth do nothing unless their option is on.
BanAuto == banned' = IF BanlistAuto THEN banned \cup {"auto"} ELSE banned
BanAuth == banned' = IF BanlistAuth THEN banned \cup {"auth"} ELSE banned

\* An owner sets, moves or removes a mailbox.
Remap(n, r) ==
  /\ mapping' = [mapping EXCEPT ![n] = r]
  /\ UNCHANGED <<conn, session, banned, greylisted, hist>>

----------------------------------------------------------------------------
(* Greeting and reset *)

\* A connection or a DATA begins: nobody has been handed this mail.
NoneTaken == got' = {} /\ unknown' = {} /\ refused' = {}

Ready == sasl = "none" /\ at = 0

\* session.Reset: nothing.
Reset == UNCHANGED <<dir, tos, roomID, fromRoom>>

\* Conn.reset
ConnReset ==
  /\ Reset
  /\ mail' = FALSE /\ rcpts' = {} /\ named' = {}

\* EHLO, HELO or RSET.
Greet ==
  /\ Ready
  /\ helo' \in {helo, TRUE}
  /\ ConnReset
  /\ UNCHANGED <<didAuth, sasl, at, bot, taken, out, answer>>

\* A new connection, or STARTTLS: go-smtp drops the session.
NewSession ==
  /\ Ready
  /\ helo' = FALSE /\ didAuth' = FALSE /\ mail' = FALSE /\ rcpts' = {}
  /\ dir' = "incoming" /\ tos' = <<>> /\ roomID' = NoRoom /\ fromRoom' = NoRoom
  /\ named' = {} /\ NoneTaken /\ out' = {} /\ answer' = "none"
  /\ UNCHANGED <<sasl, at>>
  /\ UNCHANGED bot

----------------------------------------------------------------------------
(* AUTH *)

\* Mutant: the session is outgoing before the password is checked.
authPlainEarly(a, password) ==
  /\ dir' = "outgoing"
  /\ IF a \in Locals /\ getMapping(Mailbox[a]) # NoRoom /\ password
     THEN /\ fromRoom' = getMapping(Mailbox[a])
          /\ didAuth' = TRUE
          /\ UNCHANGED banned
     ELSE /\ BanAuth
          /\ UNCHANGED <<fromRoom, didAuth>>

\* authPlain and AllowAuth: the username is an address of ours with a room of
\* its own that may send, and the password is that of the room.  Anything else
\* is banned.  go-smtp sets didAuth when no error comes back.
authPlain(a, password) ==
  IF a \in Locals /\ getMapping(Mailbox[a]) # NoRoom /\ password
  THEN /\ dir' = "outgoing"
       /\ fromRoom' = getMapping(Mailbox[a])
       /\ didAuth' = TRUE
       /\ UNCHANGED banned
  ELSE /\ BanAuth
       /\ UNCHANGED <<dir, fromRoom, didAuth>>

Authenticate ==
  \E a \in Addrs \cup {Invalid}, password \in BOOLEAN : authPlain(a, password)

\* An unknown mechanism is banned; PLAIN may come with its response; LOGIN
\* asks for the username whatever comes with it.
Auth ==
  /\ Ready /\ helo /\ ~didAuth
  /\ \/ BanAuth /\ UNCHANGED <<sasl, dir, fromRoom, didAuth>>
     \/ Authenticate /\ UNCHANGED sasl
     \/ sasl' \in {"plain", "username"}
        /\ UNCHANGED <<dir, fromRoom, didAuth, banned>>
  /\ UNCHANGED <<helo, mail, rcpts, tos, roomID, at, mapping, greylisted,
                 hist>>

\* PlainAuthServer.Next with the response: three parts, or a ban.
PlainNext ==
  /\ sasl = "plain"
  /\ sasl' = "none"
  /\ Authenticate \/ (BanAuth /\ UNCHANGED <<dir, fromRoom, didAuth>>)
  /\ UNCHANGED <<helo, mail, rcpts, tos, roomID, at, mapping, greylisted,
                 hist>>

\* LoginAuthServer.Next: the username, then the password.
LoginNext ==
  /\ \/ /\ sasl = "username" /\ sasl' = "password"
        /\ UNCHANGED <<dir, fromRoom, didAuth, banned>>
     \/ /\ sasl = "password" /\ sasl' = "none"
        /\ Authenticate
  /\ UNCHANGED <<helo, mail, rcpts, tos, roomID, at, mapping, greylisted,
                 hist>>

\* "*", or a line that is not base64.
AuthCancel ==
  /\ sasl # "none"
  /\ sasl' = "none"
  /\ UNCHANGED <<helo, didAuth, mail, rcpts, session, bot, hist>>

----------------------------------------------------------------------------
(* MAIL and RCPT *)

\* validateOutgoingMail, or the checks of incoming mail.
MailAccepted(a) ==
  IF dir = "outgoing"
  THEN a \in Locals /\ GetMapping(Mailbox[a]) # NoRoom
       /\ GetMapping(Mailbox[a]) = fromRoom
  ELSE a \in Addrs \ Locals

\* Mutant: recipients are cleared when a mail begins.
MailClears(a) ==
  /\ Ready /\ helo
  /\ IF dir # "outgoing" /\ a = Invalid THEN BanAuto ELSE UNCHANGED banned
  /\ mail' = (mail \/ MailAccepted(a))
  /\ tos' = IF MailAccepted(a) THEN <<>> ELSE tos
  /\ UNCHANGED <<helo, didAuth, rcpts, sasl, dir, roomID, fromRoom, at,
                 mapping, greylisted, hist>>

\* A second MAIL is not refused, and one that is refused does not end the
\* transaction of one that was not.
Mail(a) ==
  /\ Ready /\ helo
  /\ IF dir # "outgoing" /\ a = Invalid THEN BanAuto ELSE UNCHANGED banned
  /\ mail' = (mail \/ MailAccepted(a))
  /\ UNCHANGED <<helo, didAuth, rcpts, sasl, session, mapping, greylisted, hist>>

validateIncomingRcpt(a) ==
  a \in Locals /\ GetMapping(Mailbox[a]) # NoRoom

\* The recipient is noted first and looked up then.  The room of the last
\* recipient that has one of our hostnames, which may be no room, is the
\* session's.
Rcpt(a) ==
  /\ Ready /\ mail /\ Len(tos) < MaxRcpts
  /\ tos' = Append(tos, a)
  /\ named' = named \cup {a}
  /\ LET incoming == dir # "outgoing"
         known == validateIncomingRcpt(a)
     IN /\ roomID' = IF incoming /\ a \in Locals THEN GetMapping(Mailbox[a])
                     ELSE roomID
        /\ \E listed \in {FALSE, incoming /\ known} :
             rcpts' = IF incoming => known /\ ~listed THEN rcpts \cup {a}
                      ELSE rcpts
  /\ UNCHANGED <<helo, didAuth, mail, sasl, dir, fromRoom, at, bot, taken,
                 out, answer>>

----------------------------------------------------------------------------
(* DATA *)

\* Data returns: go-smtp answers and resets.
Answer(a) ==
  /\ at' = 0
  /\ answer' = a
  /\ ConnReset
  /\ UNCHANGED <<helo, didAuth, sasl>>

DataReady == Ready /\ mail /\ rcpts # {}

\* getAddr and validateIncoming: what the checks of the room find is a choice,
\* and mail that fails them is a ban.
FailsValidation == dir # "outgoing" /\ BanAuth

\* The mail cannot be read or parsed, or is not valid.
DataRefused ==
  /\ DataReady
  /\ NoneTaken
  /\ Answer("error")
  /\ UNCHANGED banned \/ FailsValidation
  /\ UNCHANGED <<mapping, greylisted, out>>

\* IsGreylisted: the peer is new, and put on the list, or its time is not over.
DataGreylisted ==
  /\ DataReady
  /\ dir # "outgoing" /\ Greylist
  /\ greylisted' = TRUE
  /\ NoneTaken
  /\ Answer("error")
  /\ UNCHANGED <<mapping, banned, out>>

\* DKIM is verified last; a failure needs no action of its own (the answer is
\* that of DataRefused).
DataStart ==
  /\ DataReady
  /\ dir = "outgoing" \/ (Greylist => greylisted)
  /\ NoneTaken
  /\ at' = 1
  /\ UNCHANGED <<conn, dir, tos, roomID, fromRoom, bot, named, out, answer>>

\* The recipient is served by IncomingEmail, which looks at the part before
\* the @ only; or by sendmail, in an outgoing session and outside our domains.
Remote(a) == dir = "outgoing" /\ a \notin Locals

DataNext ==
  /\ at \in 1..Len(tos)
  /\ LET a == tos[at]
     IN /\ Remote(a) \/ GetMapping(Mailbox[a]) # NoRoom
        /\ got' = got \cup {a}
        /\ out' = IF Remote(a) THEN out \cup {a} ELSE out
  /\ at' = at + 1
  /\ UNCHANGED <<conn, dir, tos, roomID, fromRoom, bot, named, unknown, refused,
                 answer>>

\* No error, and no mail either: the homeserver refuses to post with M_UNKNOWN
\* and IncomingEmail goes on without an event; or the remote server refuses the
\* mail after DATA, where Client.Send does not look at the error of w.Close.
DataDropped ==
  /\ at \in 1..Len(tos)
  /\ LET a == tos[at]
     IN \/ /\ Remote(a)
           /\ refused' = refused \cup {a} /\ out' = out \cup {a}
           /\ UNCHANGED unknown
        \/ /\ ~Remote(a) /\ GetMapping(Mailbox[a]) # NoRoom
           /\ unknown' = unknown \cup {a}
           /\ UNCHANGED <<refused, out>>
  /\ at' = at + 1
  /\ UNCHANGED <<conn, dir, tos, roomID, fromRoom, bot, named, got, answer>>

\* Mutant: the loop goes on when a delivery has failed.
DataFailedGoesOn ==
  /\ at \in 1..Len(tos)
  /\ Remote(tos[at]) \/ GetMapping(Mailbox[tos[at]]) # NoRoom
  /\ at' = at + 1
  /\ UNCHANGED <<conn, dir, tos, roomID, fromRoom, bot, hist>>

\* The first delivery that fails ends DATA with its error.
DataFailed ==
  /\ at \in 1..Len(tos)
  /\ Remote(tos[at]) \/ GetMapping(Mailbox[tos[at]]) # NoRoom
  /\ Answer("error")
  /\ UNCHANGED <<bot, taken, out>>

\* IncomingEmail finds no room: ErrNoRoom.
DataNoRoom ==
  /\ at \in 1..Len(tos)
  /\ ~Remote(tos[at]) /\ GetMapping(Mailbox[tos[at]]) = NoRoom
  /\ Answer("noroom")
  /\ UNCHANGED <<bot, taken, out>>

DataEnd ==
  /\ at = Len(tos) + 1
  /\ Answer("ok")
  /\ UNCHANGED <<bot, taken, out>>

----------------------------------------------------------------------------
Next ==
  \/ \E n \in Names, r \in Rooms \cup {NoRoom} : Remap(n, r)
  \/ Greet
  \/ NewSession
  \/ Auth
  \/ PlainNext
  \/ LoginNext
  \/ AuthCancel
  \/ \E a \in Addrs \cup {Invalid} : Mail(a)
  \/ \E a \in Addrs : Rcpt(a)
  \/ DataRefused
  \/ DataGreylisted
  \/ DataStart
  \/ DataNext
  \/ DataDropped
  \/ DataFailed
  \/ DataNoRoom
  \/ DataEnd

Spec == Init /\ [][Next]_vars

----------------------------------------------------------------------------
(* Properties *)

\* The lists of go-smtp and of the session never part: whoever was answered
\* 250 is among s.tos, and DATA is never run without a recipient (it reads
\* s.tos[0]), whatever commands came before: refused ones, a second MAIL, a
\* change of direction by AUTH inside a transaction.
AcceptedAreNoted ==
  /\ rcpts \subseteq Range(tos)
  /\ at > 0 => tos # <<>>

EndOfData == at > 0 /\ at' = 0

\* The mail went to the recipient's room or server, and was kept or lost there.
HandedOver(a) ==
  \/ a \in got
  \/ a \in unknown /\ ~Remote(a)
  \/ a \in refused /\ Remote(a) /\ didAuth

\* 250 to DATA means that nobody was passed over: for every recipient that was
\* accepted for this mail the mail went to the room or to the remote server,
\* even when mailboxes moved meanwhile and other recipients of the list had no
\* room or an error.  It may still be lost there, in two ways only: the
\* homeserver answered M_UNKNOWN, or a remote server, in a session that
\* authenticated, refused the mail after DATA.
OkMeansHandedOver ==
  [][EndOfData /\ answer' = "ok" => \A a \in rcpts : HandedOver(a)]_vars

\* Mail is sent on by SMTP only in a session that has authenticated, and the
\* session takes the direction "outgoing" exactly when go-smtp has answered
\* 235: a cancelled or failed exchange leaves nothing behind.
OutgoingIsAuthenticated ==
  /\ dir = "outgoing" <=> didAuth
  /\ out # {} => didAuth
  /\ didAuth => fromRoom # NoRoom

----------------------------------------------------------------------------
(* The inductive invariant behind them *)

\* Every recipient that DATA has passed was handed over.
PassedAreServed ==
  \A i \in 1..Len(tos) : i < at => HandedOver(tos[i])

IInv ==
  /\ TypeOK
  /\ \A a \in rcpts : \E i \in 1..Len(tos) : tos[i] = a
  /\ at > 0 => rcpts # {} /\ sasl = "none"
  /\ PassedAreServed
  /\ OutgoingIsAuthenticated

----------------------------------------------------------------------------
(* What comments and documents say, and the code does not do *)

\* Reset: "Discard currently processed message."  DATA delivers a mail only
\* to recipients that were named for it.
ResetDiscards ==
  at > 0 => got \subseteq named

\* What a client takes 250 for: every accepted recipient has the mail.  It does
\* not hold, see DataDropped.
OkMeansDelivered ==
  [][EndOfData /\ answer' = "ok" => rcpts \subseteq got]_vars
=============================================================================
