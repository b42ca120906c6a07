--------------------------- MODULE SessionProofs ---------------------------
(***************************************************************************)
(* What TLAPS proves about Session, for any addresses, rooms and settings  *)
(* and for sessions of any length.                                         *)
(***************************************************************************)
EXTENDS Session, TLAPS

\* Appending a recipient keeps the recipients there were.
LEMMA AppendKeeps ==
  ASSUME NEW s \in Seq(Addrs), NEW a \in Addrs
  PROVE  /\ Append(s, a) \in Seq(Addrs)
         /\ Len(Append(s, a)) = Len(s) + 1
         /\ \A i \in 1..Len(s) : Append(s, a)[i] = s[i]
         /\ Append(s, a)[Len(s) + 1] = a
  OBVIOUS

\* What GetMapping returns is a room or no room.
LEMMA MappingType ==
  ASSUME TypeOK, NEW n \in Names
  PROVE  GetMapping(n) \in Rooms \cup {NoRoom}
  BY SessionAssumption DEF TypeOK, GetMapping

\* A session begins in the invariant.
LEMMA IInvInit == Init => IInv
  <1> SUFFICES ASSUME Init PROVE IInv
    OBVIOUS
  <1>1. tos \in Seq(Addrs) /\ Len(tos) = 0 /\ at \in 0..Len(tos) + 1
    BY DEF Init
  <1>2. TypeOK
    BY <1>1 DEF Init, TypeOK, taken
  <1>3. PassedAreServed
    BY <1>1 DEF PassedAreServed
  <1>4. OutgoingIsAuthenticated
    BY Zenon DEF Init, OutgoingIsAuthenticated
  <1>5. rcpts = {} /\ at = 0
    BY DEF Init
  <1> QED BY <1>2, <1>3, <1>4, <1>5 DEF IInv

\* Any exchange of AUTH keeps it: the direction and didAuth change together.
LEMMA IInvAuth ==
  ASSUME IInv, Auth \/ PlainNext \/ LoginNext \/ AuthCancel
  PROVE  IInv'
  <1>1. ASSUME Authenticate
        PROVE  /\ dir' \in {"incoming", "outgoing"} /\ didAuth' \in BOOLEAN
               /\ fromRoom' \in Rooms \cup {NoRoom}
               /\ banned' \subseteq {"auto", "auth"}
               /\ dir' = "outgoing" <=> didAuth'
               /\ didAuth => didAuth'
               /\ didAuth' => fromRoom' # NoRoom
    <2>1. PICK a \in Addrs \cup {Invalid}, password \in BOOLEAN :
            authPlain(a, password)
      BY <1>1 DEF Authenticate
    <2>2. CASE a \in Locals /\ getMapping(Mailbox[a]) # NoRoom /\ password
      <3>1. getMapping(Mailbox[a]) \in Rooms
        BY <2>2, SessionAssumption DEF getMapping, IInv, TypeOK, Names
      <3> QED BY <2>1, <2>2, <3>1, SessionAssumption
              DEF authPlain, IInv, TypeOK
    <2>3. CASE ~(a \in Locals /\ getMapping(Mailbox[a]) # NoRoom /\ password)
      BY <2>1, <2>3 DEF authPlain, BanAuth, IInv, TypeOK, OutgoingIsAuthenticated
    <2> QED BY <2>2, <2>3
  <1>2. UNCHANGED <<helo, mail, rcpts, tos, roomID, at, mapping, greylisted,
                    hist>>
    BY DEF Auth, PlainNext, LoginNext, AuthCancel, session, bot, hist
  <1>3. /\ sasl' \in {"none", "plain", "username", "password"}
        /\ \/ Authenticate
           \/ BanAuth /\ UNCHANGED <<dir, fromRoom, didAuth>>
           \/ UNCHANGED <<dir, fromRoom, didAuth, banned>>
    BY DEF Auth, PlainNext, LoginNext, AuthCancel, session, bot, IInv, TypeOK
  <1>4. /\ dir' \in {"incoming", "outgoing"} /\ didAuth' \in BOOLEAN
        /\ fromRoom' \in Rooms \cup {NoRoom}
        /\ banned' \subseteq {"auto", "auth"}
        /\ dir' = "outgoing" <=> didAuth'
        /\ didAuth => didAuth'
        /\ didAuth' => fromRoom' # NoRoom
    <2>1. CASE Authenticate
      BY <1>1, <2>1
    <2>2. CASE UNCHANGED <<dir, fromRoom, didAuth>>
      <3>1. banned' \subseteq {"auto", "auth"}
        BY <1>1, <1>3 DEF BanAuth, IInv, TypeOK
      <3> QED BY <2>2, <3>1, Zenon DEF IInv, TypeOK, OutgoingIsAuthenticated
    <2> QED BY <1>3, <2>1, <2>2
  <1>5. at = 0 \/ UNCHANGED <<dir, didAuth, sasl>>
    BY DEF Auth, PlainNext, LoginNext, AuthCancel, Ready, IInv, TypeOK
  <1>6. at \in 0..Len(tos) + 1 /\ Len(tos) \in Nat
    BY DEF IInv, TypeOK
  <1>7. PassedAreServed'
    <2>1. CASE at = 0
      BY <1>2, <1>6, <2>1 DEF PassedAreServed
    <2>2. CASE UNCHANGED <<dir, didAuth, sasl>>
      BY <1>2, <2>2 DEF PassedAreServed, HandedOver, Remote, IInv, hist, taken
    <2> QED BY <1>5, <2>1, <2>2
  <1>8. (at > 0 => rcpts # {} /\ sasl = "none")'
    BY <1>2, <1>5, <1>6 DEF IInv
  <1> QED BY <1>2, <1>3, <1>4, <1>7, <1>8
          DEF IInv, TypeOK, OutgoingIsAuthenticated, hist, taken

\* RCPT: the new recipient is noted whether it is accepted or not.
LEMMA IInvRcpt ==
  ASSUME IInv, NEW a \in Addrs, Rcpt(a)
  PROVE  IInv'
  <1>1. /\ tos \in Seq(Addrs) /\ tos' = Append(tos, a) /\ at = 0
        /\ at' = at /\ Len(tos) \in Nat
    BY DEF IInv, TypeOK, Rcpt, Ready
  <1>2. /\ tos' \in Seq(Addrs)
        /\ Len(tos') = Len(tos) + 1
        /\ \A i \in 1..Len(tos) : tos'[i] = tos[i]
        /\ tos'[Len(tos) + 1] = a
    BY <1>1, AppendKeeps
  <1>3. rcpts' \subseteq rcpts \cup {a}
    BY DEF Rcpt
  <1>4. \A b \in rcpts' : \E i \in 1..Len(tos') : tos'[i] = b
    BY <1>1, <1>2, <1>3 DEF IInv
  <1>5. roomID' \in Rooms \cup {NoRoom}
    BY MappingType, SessionAssumption DEF Rcpt, IInv, TypeOK, Names
  <1>6. TypeOK'
    BY <1>1, <1>2, <1>3, <1>5 DEF Rcpt, IInv, TypeOK, bot, taken
  <1>7. PassedAreServed'
    BY <1>1, <1>2 DEF PassedAreServed
  <1> QED BY <1>1, <1>4, <1>6, <1>7
          DEF Rcpt, IInv, OutgoingIsAuthenticated, bot

\* The end of DATA, whatever the answer.
LEMMA IInvAnswer ==
  ASSUME IInv, NEW w \in {"ok", "error", "noroom"}, Answer(w),
         UNCHANGED <<mapping, out>>, greylisted' \in BOOLEAN,
         got' \subseteq Addrs, unknown' \subseteq Addrs, refused' \subseteq Addrs,
         banned' \subseteq {"auto", "auth"}
  PROVE  IInv'
  <1>1. Len(tos) \in Nat
    BY DEF IInv, TypeOK
  <1>2. TypeOK'
    <2>1. mail' \in BOOLEAN
      BY Zenon DEF Answer, ConnReset
    <2>2. /\ at' = 0 /\ answer' = w /\ rcpts' = {} /\ named' = {}
          /\ UNCHANGED <<helo, didAuth, sasl, dir, tos, roomID, fromRoom>>
      BY Zenon DEF Answer, ConnReset, Reset
    <2> QED BY <1>1, <2>1, <2>2 DEF IInv, TypeOK
  <1>3. PassedAreServed'
    BY <1>1 DEF PassedAreServed, Answer
  <1>4. OutgoingIsAuthenticated'
    BY DEF IInv, OutgoingIsAuthenticated, Answer, ConnReset, Reset
  <1> QED BY <1>2, <1>3, <1>4 DEF IInv, Answer, ConnReset

\* Every step keeps the invariant.
LEMMA IInvNext == IInv /\ [Next]_vars => IInv'
  <1> SUFFICES ASSUME IInv, [Next]_vars PROVE IInv'
    OBVIOUS
  <1> USE DEF IInv, TypeOK, PassedAreServed, HandedOver, Remote, NoneTaken,
              OutgoingIsAuthenticated, bot, hist, taken
  <1>1. CASE UNCHANGED vars
    BY <1>1 DEF vars, conn, session
  <1>2. CASE \E n \in Names, r \in Rooms \cup {NoRoom} : Remap(n, r)
    BY <1>2 DEF Remap, conn, session
  <1>3. CASE Greet
    <2>1. mail' \in BOOLEAN /\ helo' \in BOOLEAN
      BY <1>3, Zenon DEF Greet, ConnReset
    <2>2. /\ at = 0 /\ rcpts' = {} /\ named' = {}
          /\ UNCHANGED <<didAuth, sasl, at, bot, taken, out, answer, dir, tos,
                         roomID, fromRoom>>
      BY <1>3, Zenon DEF Greet, ConnReset, Reset, Ready
    <2> QED BY <2>1, <2>2
  <1>4. CASE NewSession
    <2>1. mail' \in BOOLEAN /\ helo' \in BOOLEAN /\ didAuth' \in BOOLEAN
          /\ ~didAuth'
      BY <1>4, Zenon DEF NewSession
    <2>2. /\ at = 0 /\ sasl = "none" /\ rcpts' = {} /\ named' = {}
          /\ NoneTaken /\ out' = {} /\ answer' = "none"
          /\ dir' = "incoming" /\ tos' = <<>> /\ roomID' = NoRoom
          /\ fromRoom' = NoRoom
          /\ UNCHANGED <<at, sasl, bot>>
      BY <1>4, Zenon DEF NewSession, Ready
    <2>3. tos' \in Seq(Addrs) /\ Len(tos') = 0
      BY <2>2
    <2> QED BY <2>1, <2>2, <2>3
  <1>5. CASE Auth \/ PlainNext \/ LoginNext \/ AuthCancel
    BY <1>5, IInvAuth
  <1>6. CASE \E a \in Addrs \cup {Invalid} : Mail(a)
    <2>1. PICK a \in Addrs \cup {Invalid} : Mail(a)
      BY <1>6
    <2>2. mail' \in BOOLEAN
      BY <2>1, Zenon DEF Mail
    <2>3. /\ UNCHANGED <<helo, didAuth, rcpts, sasl, session, mapping,
                         greylisted, hist>>
          /\ banned' = banned \/ BanAuto
      BY <2>1, Zenon DEF Mail
    <2>4. banned' \subseteq {"auto", "auth"}
      BY <2>3 DEF BanAuto
    <2> QED BY <2>2, <2>3, <2>4 DEF session
  <1>7. CASE \E a \in Addrs : Rcpt(a)
    BY <1>7, IInvRcpt
  <1>8. CASE DataRefused
    BY <1>8, IInvAnswer DEF DataRefused, FailsValidation, BanAuth
  <1>9. CASE DataGreylisted
    BY <1>9, IInvAnswer DEF DataGreylisted
  <1>10. CASE DataStart
    <2>1. Len(tos) \in Nat
      OBVIOUS
    <2>2. /\ at' = 1 /\ rcpts # {} /\ sasl = "none" /\ NoneTaken
          /\ UNCHANGED <<conn, dir, tos, roomID, fromRoom, bot, named, out, answer>>
      BY <1>10, Zenon DEF DataStart, DataReady, Ready
    <2> QED BY <2>1, <2>2 DEF conn
  <1>11. CASE DataNext
    <2>1. /\ at \in 1..Len(tos) /\ Len(tos) \in Nat /\ tos[at] \in Addrs
      BY <1>11 DEF DataNext
    <2>2. Remote(tos[at]) => didAuth
      OBVIOUS
    <2> QED BY <1>11, <2>1, <2>2 DEF DataNext, conn
  <1>15. CASE DataDropped
    <2>1. /\ at \in 1..Len(tos) /\ Len(tos) \in Nat /\ tos[at] \in Addrs
      BY <1>15 DEF DataDropped
    <2>2. Remote(tos[at]) => didAuth
      OBVIOUS
    <2> QED BY <1>15, <2>1, <2>2 DEF DataDropped, conn
  <1>12. CASE DataFailed
    BY <1>12, IInvAnswer DEF DataFailed
  <1>13. CASE DataNoRoom
    BY <1>13, IInvAnswer DEF DataNoRoom
  <1>14. CASE DataEnd
    BY <1>14, IInvAnswer DEF DataEnd
  <1> QED BY <1>1, <1>2, <1>3, <1>4, <1>5, <1>6, <1>7, <1>8, <1>9, <1>10,
             <1>11, <1>12, <1>13, <1>14, <1>15 DEF Next

\* The inductive invariant holds in every session.
THEOREM Inductive == Spec => []IInv
  BY IInvInit, IInvNext, PTL DEF Spec

\* Type correctness.
THEOREM TypeCorrect == Spec => []TypeOK
  <1>1. IInv => TypeOK
    BY DEF IInv
  <1> QED BY <1>1, Inductive, PTL

\* Whoever was answered 250 is among s.tos, and DATA never runs without a
\* recipient.
THEOREM RecipientsAgree == Spec => []AcceptedAreNoted
  <1>1. IInv => AcceptedAreNoted
    BY DEF IInv, TypeOK, AcceptedAreNoted, Range
  <1> QED BY <1>1, Inductive, PTL

\* Mail is sent on only in a session that has authenticated.
THEOREM OutgoingNeedsAuth == Spec => []OutgoingIsAuthenticated
  <1>1. IInv => OutgoingIsAuthenticated
    BY DEF IInv
  <1> QED BY <1>1, Inductive, PTL

\* A mail that was answered 250 was handed over to every accepted recipient, and
\* lost in the two ways only that OkMeansHandedOver names.
THEOREM OkIsHandedOver == Spec => OkMeansHandedOver
  <1>1. IInv /\ [Next]_vars
          => [EndOfData /\ answer' = "ok" => \A a \in rcpts : HandedOver(a)]_vars
    <2> SUFFICES ASSUME IInv, Next, EndOfData, answer' = "ok"
                 PROVE  \A a \in rcpts : HandedOver(a)
      OBVIOUS
    <2>1. at \in Nat /\ at > 0 /\ at' = 0 /\ Len(tos) \in Nat
      BY DEF EndOfData, IInv, TypeOK
    <2>2. CASE DataEnd
      <3>1. at = Len(tos) + 1
        BY <2>2 DEF DataEnd
      <3> QED BY <2>1, <3>1 DEF IInv, PassedAreServed
    <2>3. CASE DataFailed \/ DataNoRoom
      BY <2>3 DEF DataFailed, DataNoRoom, Answer
    <2>4. CASE DataNext \/ DataDropped
      BY <2>1, <2>4 DEF DataNext, DataDropped
    <2>5. CASE \E n \in Names, r \in Rooms \cup {NoRoom} : Remap(n, r)
      BY <2>1, <2>5 DEF Remap, session
    <2>6. CASE Auth \/ PlainNext \/ LoginNext \/ AuthCancel
      BY <2>1, <2>6 DEF Auth, PlainNext, LoginNext, AuthCancel, session, Ready
    <2>7. ASSUME Ready PROVE FALSE
      BY <2>1, <2>7 DEF Ready
    <2> QED BY <2>2, <2>3, <2>4, <2>5, <2>6, <2>7, Zenon
            DEF Next, Greet, NewSession, Mail, Rcpt, DataRefused,
                DataGreylisted, DataStart, DataReady
  <1> QED BY <1>1, Inductive, PTL DEF Spec, OkMeansHandedOver
=============================================================================
