-------------------------- MODULE MailboxesProofs --------------------------
(***************************************************************************)
(* What TLAPS proves about Mailboxes, for any rooms, names and lists of    *)
(* aliases, goroutines, failed calls and restarts: which rooms may have a  *)
(* name, and, for a name that is not disputed, which room has it.          *)
(***************************************************************************)
EXTENDS Mailboxes, TLAPS

USE MailboxesAssumption

\* What a room may have it may have for ever: nothing is unclaimed.
LEMMA MayHaveStays ==
  ASSUME claimed \subseteq claimed', NEW r, NEW c
  PROVE  Justified(r, c) => Justified(r, c)'
  BY DEF Justified, MayHave

\* A goroutine that is as it should be stays so when names are claimed.
LEMMA JobStays ==
  ASSUME claimed \subseteq claimed', NEW j, JobOK(j)
  PROVE  JobOK(j)'
  BY MayHaveStays DEF JobOK, MayHave

\* The idle goroutine.
LEMMA IdleOK == Idle \in Job /\ JobOK(Idle) /\ JobOK(Idle)'
  BY DEF Idle, Job, JobOK, Steps

\* A step of goroutine s that leaves it as it should be.
LEMMA JobStep ==
  ASSUME IInv, claimed \subseteq claimed', NEW s \in Slots, NEW j \in Job,
         JobOK(j)', job' = [job EXCEPT ![s] = j]
  PROVE  job' \in [Slots -> Job] /\ JobInv'
  <1>1. job \in [Slots -> Job] /\ \A t \in Slots : JobOK(job[t])
    BY DEF IInv, TypeOK, JobInv
  <1>2. \A t \in Slots : JobOK(job[t])'
    <2> TAKE t \in Slots
    <2>1. CASE t = s
      <3>1. job'[t] = j
        BY <1>1, <2>1
      <3> QED BY <3>1 DEF JobOK
    <2>2. CASE t # s
      <3>1. job'[t] = job[t]
        BY <1>1, <2>2
      <3>2. JobOK(job[t])
        BY <1>1
      <3> QED BY <3>1, <3>2, MayHaveStays DEF JobOK, MayHave
    <2> QED BY <2>1, <2>2
  <1> QED BY <1>1, <1>2 DEF JobInv

\* Whoever holds a map that the cache replaces keeps justified names.
LEMMA DetachedOK ==
  ASSUME IInv, NEW r \in Rooms
  PROVE  /\ Detached(r) \in [Slots -> Job]
         /\ \A s \in Slots : JobOK(Detached(r)[s])
  <1>1. job \in [Slots -> Job] /\ mem[r] \in Config /\ Justified(r, mem[r])
    BY DEF IInv, TypeOK, ClaimInv
  <1>2. ASSUME NEW s \in Slots
        PROVE  Detached(r)[s] \in Job /\ JobOK(Detached(r)[s])
    <2>1. JobOK(job[s]) /\ job[s] \in Job
      BY <1>1 DEF IInv, JobInv
    <2>2. CASE s \in Holders(r)
      <3>1. Detached(r)[s] = [job[s] EXCEPT !.cfg = mem[r]]
        BY <2>2 DEF Detached
      <3>2. /\ job[s].room = r
            /\ job[s].at \in {"mailboxActivate", "aliasesActivate", "save",
                              "syncAdd"}
        BY <2>2 DEF Holders
      <3>3. PICK j \in Job : j = [job[s] EXCEPT !.cfg = mem[r]]
        BY <1>1, <2>1 DEF Job
      <3>4. /\ j.at = job[s].at /\ j.room = r /\ j.want = job[s].want
            /\ j.cfg = mem[r]
        BY <2>1, <3>2, <3>3 DEF Job
      <3>5. JobOK(j)
        BY <1>1, <2>1, <3>2, <3>4 DEF JobOK
      <3> QED BY <3>1, <3>3, <3>5
    <2>3. CASE s \notin Holders(r)
      BY <2>1, <2>3 DEF Detached
    <2> QED BY <2>2, <2>3
  <1> QED BY <1>2 DEF Detached

\* The map a goroutine holds is justified.
LEMMA HeldOK ==
  ASSUME IInv, NEW s \in Slots, job[s].room \in Rooms
  PROVE  Held(s) \in Config /\ Justified(job[s].room, Held(s))
  BY DEF IInv, TypeOK, JobInv, JobOK, ClaimInv, Job, Held

\* Key gives a key of b.rooms; the key of a list is a name only when the list
\* is that one name.
LEMMA KeyOK ==
  ASSUME NEW A \in AliasLists
  PROVE  /\ Key(A) \in Keys
         /\ \A n \in Names : Key(A) = n => n \in A
  <1>1. CASE A \in Lists
    BY <1>1 DEF Key, Keys, Lists
  <1>2. CASE A \notin Lists
    <2>1. \E n \in Names : A = {n}
      BY <1>2 DEF Lists
    <2>2. Key(A) \in Names /\ A = {Key(A)}
      BY <1>2, <2>1 DEF Key
    <2> QED BY <2>2 DEF Keys
  <1> QED BY <1>1, <1>2

----------------------------------------------------------------------------
(* Commands *)

\* The checks of a command make its names claimed by its room.
LEMMA StepCommand ==
  ASSUME IInv, disputed' \subseteq Names, NEW s \in Slots, NEW r \in Rooms, NEW A \in SUBSET Names,
         NEW j \in Job, j.at \in {"mailboxGet", "aliasesGet"},
         j.at = "aliasesGet" => A \in AliasLists,
         j.room = r, j.want = A, j.cfg = Shared,
         \A n \in A : ~Taken(n, r),
         job' = [job EXCEPT ![s] = j],
         claimed' = claimed \cup {<<r, n>> : n \in A},
         UNCHANGED <<rooms, store, catchAll, up, count>>
  PROVE  IInv'
  <1>1. claimed \subseteq claimed' /\ claimed' \subseteq Rooms \X Names
    BY DEF IInv, TypeOK
  <1>4. \A n \in A : MayHave(r, n)'
    BY DEF MayHave, Taken
  <1>5. JobOK(j)'
    BY <1>4 DEF JobOK
  <1>6. job' \in [Slots -> Job] /\ JobInv'
    BY <1>1, <1>5, JobStep
  <1>7. TypeOK'
    BY <1>1, <1>6 DEF IInv, TypeOK, store, count
  <1>8. ClaimInv'
    BY <1>1 DEF IInv, ClaimInv, Justified, MayHave, store
  <1> QED BY <1>6, <1>7, <1>8 DEF IInv

\* setMailbox and setAliases once the configuration has been read.
LEMMA StepGet ==
  ASSUME IInv, disputed' \subseteq Names, NEW s \in Slots, MailboxGet(s) \/ AliasesGet(s)
  PROVE  IInv'
  <1> DEFINE r == job[s].room
  <1>1. /\ job[s] \in Job /\ JobOK(job[s]) /\ r \in Rooms
        /\ mem \in [Rooms -> Config] /\ mem[r] \in Config
        /\ rooms \in [Keys -> Rooms \cup {NoRoom}]
        /\ job[s].want \subseteq Names
    BY DEF IInv, TypeOK, JobInv, JobOK, Job, MailboxGet, AliasesGet, Running
  <1>2. /\ \E step \in {"mailboxActivate", "aliasesActivate", "save"} :
             /\ step # "aliasesActivate" \/ job[s].at = "aliasesGet"
             /\ job' = [job EXCEPT ![s].at = step]
        /\ claimed' = claimed
        /\ UNCHANGED <<srv, catchAll, up, count>>
    BY DEF MailboxGet, AliasesGet, Goto, Running, Steps
  <1>3. job' \in [Slots -> Job] /\ JobInv'
    <2>1. PICK step \in {"mailboxActivate", "aliasesActivate", "save"} :
             /\ step # "aliasesActivate" \/ job[s].at = "aliasesGet"
             /\ job' = [job EXCEPT ![s].at = step]
      BY <1>2
    <2>2. PICK j \in Job : j = [job[s] EXCEPT !.at = step]
      BY <1>1 DEF Job, Steps
    <2>3. /\ j.at = step /\ j.room = r /\ j.want = job[s].want
          /\ j.cfg = job[s].cfg
          /\ job' = [job EXCEPT ![s] = j]
      BY <1>1, <2>1, <2>2 DEF Job
    <2>4. JobOK(j)
      BY <1>1, <2>1, <2>3 DEF JobOK
    <2>5. JobOK(j)'
      BY <1>2, <2>4, JobStays
    <2> QED BY <1>2, <2>3, <2>5, JobStep
  <1>4. /\ rooms' \in [Keys -> Rooms \cup {NoRoom}]
        /\ \A n \in Names : rooms'[n] \in {rooms[n], NoRoom}
    <2>1. CASE MailboxGet(s)
      <3>1. \/ rooms' = rooms
            \/ rooms' = [rooms EXCEPT ![mem[r].mailbox] = NoRoom]
        BY <2>1 DEF MailboxGet
      <3> QED BY <1>1, <3>1 DEF Keys
    <2>2. CASE AliasesGet(s)
      <3>1. \/ rooms' = rooms
            \/ rooms' = [rooms EXCEPT ![Key(mem[r].aliases)] = NoRoom]
        BY <2>2 DEF AliasesGet
      <3> QED BY <1>1, <3>1 DEF Keys
    <2> QED BY <2>1, <2>2
  <1>5. /\ mem' \in [Rooms -> Config]
        /\ \A q \in Rooms : Justified(q, mem'[q])
    <2>1. \A q \in Rooms : Justified(q, mem[q])
      BY DEF IInv, ClaimInv
    <2>2. CASE MailboxGet(s)
      <3>1. PICK n \in job[s].want : mem' = [mem EXCEPT ![r].mailbox = n]
        BY <2>2 DEF MailboxGet
      <3>2. n \in Names /\ MayHave(r, n)
        BY <1>1 DEF JobOK
      <3>3. [mem[r] EXCEPT !.mailbox = n] \in Config
            /\ Justified(r, [mem[r] EXCEPT !.mailbox = n])
        BY <1>1, <2>1, <3>2 DEF Config, Justified
      <3> QED BY <1>1, <2>1, <3>1, <3>3
    <2>3. CASE AliasesGet(s)
      <3>1. mem' = [mem EXCEPT ![r].aliases = job[s].want]
        BY <2>3 DEF AliasesGet
      <3>2. job[s].want \in AliasLists
        BY <1>1, <2>3 DEF AliasesGet, Running, JobOK
      <3>3. [mem[r] EXCEPT !.aliases = job[s].want] \in Config
            /\ Justified(r, [mem[r] EXCEPT !.aliases = job[s].want])
        BY <1>1, <2>1, <3>2 DEF Config, Justified, JobOK
      <3> QED BY <1>1, <2>1, <3>1, <3>3
    <2> QED BY <2>2, <2>3
  <1>6. TypeOK'
    BY <1>2, <1>3, <1>4, <1>5 DEF IInv, TypeOK, count
  <1>7. ClaimInv'
    BY <1>2, <1>4, <1>5 DEF IInv, ClaimInv, Justified, MayHave
  <1> QED BY <1>3, <1>6, <1>7 DEF IInv

\* The activation stores a name that the room may have.
LEMMA StepActivate ==
  ASSUME IInv, disputed' \subseteq Names, NEW s \in Slots, MailboxActivate(s) \/ AliasesActivate(s)
  PROVE  IInv'
  <1> DEFINE r == job[s].room
  <1>1. /\ job[s] \in Job /\ JobOK(job[s]) /\ r \in Rooms
        /\ rooms \in [Keys -> Rooms \cup {NoRoom}]
        /\ job[s].want \subseteq Names
    BY DEF IInv, TypeOK, JobInv, JobOK, Job, MailboxActivate, AliasesActivate,
           Running
  <1>2. /\ job' = [job EXCEPT ![s].at = "save"]
        /\ claimed' = claimed
        /\ UNCHANGED <<store, catchAll, up, count>>
    BY DEF MailboxActivate, AliasesActivate, Goto
  <1>3. job' \in [Slots -> Job] /\ JobInv'
    <2>0. PICK j \in Job : j = [job[s] EXCEPT !.at = "save"]
      BY <1>1 DEF Job, Steps
    <2>1. /\ j.at = "save" /\ j.room = r /\ j.want = job[s].want
          /\ j.cfg = job[s].cfg
          /\ job' = [job EXCEPT ![s] = j]
      BY <1>1, <1>2, <2>0 DEF Job
    <2>2. JobOK(j)
      BY <1>1, <2>1 DEF JobOK
    <2>3. JobOK(j)'
      BY <1>2, <2>2, JobStays
    <2> QED BY <1>2, <2>1, <2>3, JobStep
  <1>4. /\ rooms' \in [Keys -> Rooms \cup {NoRoom}]
        /\ \A n \in Names : rooms'[n] # rooms[n] =>
             n \in job[s].want /\ rooms'[n] = r
    <2>1. CASE MailboxActivate(s)
      BY <1>1, <2>1 DEF MailboxActivate, Keys
    <2>2. CASE AliasesActivate(s)
      <3>1. job[s].want \in AliasLists
        BY <1>1, <2>2 DEF AliasesActivate, Running, JobOK
      <3> QED BY <1>1, <2>2, <3>1, KeyOK DEF AliasesActivate, Keys
    <2> QED BY <2>1, <2>2
  <1>5. \A n \in job[s].want : MayHave(r, n)
    BY <1>1 DEF JobOK
  <1>6. TypeOK'
    BY <1>2, <1>3, <1>4 DEF IInv, TypeOK, store, count
  <1>7. ClaimInv'
    BY <1>2, <1>4, <1>5 DEF IInv, ClaimInv, Justified, MayHave, store
  <1> QED BY <1>3, <1>6, <1>7 DEF IInv

----------------------------------------------------------------------------
(* Writes of configurations, the cache and the process *)

\* SetRoom with a justified configuration.
LEMMA SetRoomOK ==
  ASSUME IInv, NEW r \in Rooms, NEW c \in Config, Justified(r, c),
         SetRoom(r, c), claimed' = claimed
  PROVE  /\ mem' \in [Rooms -> Config] /\ srv' \in [Rooms -> Config]
         /\ faults' \in Nat
         /\ \A q \in Rooms : Justified(q, mem[q])' /\ Justified(q, srv[q])'
  <1>1. PICK refused \in BOOLEAN :
          /\ mem' = [mem EXCEPT ![r] = c]
          /\ srv' = IF refused THEN srv ELSE [srv EXCEPT ![r] = c]
          /\ Fault(refused)
    BY DEF SetRoom
  <1>2. /\ mem \in [Rooms -> Config] /\ srv \in [Rooms -> Config]
        /\ \A q \in Rooms : Justified(q, mem[q]) /\ Justified(q, srv[q])
        /\ faults \in Nat
    BY DEF IInv, TypeOK, ClaimInv
  <1>3. \A q \in Rooms : Justified(q, mem'[q]) /\ Justified(q, srv'[q])
    BY <1>1, <1>2
  <1> QED BY <1>1, <1>2, <1>3 DEF Fault, Justified, MayHave

\* Commands end by writing a justified configuration.
LEMMA StepWrite ==
  ASSUME IInv, disputed' \subseteq Names, NEW s \in Slots, Save(s) \/ Clear(s)
  PROVE  IInv'
  <1>1. /\ job \in [Slots -> Job] /\ JobOK(job[s]) /\ job[s].room \in Rooms
    BY DEF IInv, TypeOK, JobInv, JobOK, Save, Clear, Running
  <1>2. PICK r \in Rooms : r = job[s].room
    BY <1>1
  <1>3. Empty \in Config /\ Justified(r, Empty)
    BY DEF Empty, Config, Justified
  <1>4. PICK c \in Config : Justified(r, c) /\ SetRoom(r, c)
    <2>1. CASE Save(s)
      BY <1>1, <1>2, <2>1, HeldOK DEF Save
    <2>2. CASE Clear(s)
      BY <1>2, <1>3, <2>2 DEF Clear
    <2> QED BY <2>1, <2>2
  <1>5. /\ claimed' = claimed
        /\ UNCHANGED <<rooms, catchAll, up, crashes>>
        /\ job' \in {[job EXCEPT ![s] = Idle], [Detached(r) EXCEPT ![s] = Idle]}
    BY <1>2 DEF Save, Clear
  <1>6. /\ mem' \in [Rooms -> Config] /\ srv' \in [Rooms -> Config]
        /\ faults' \in Nat
        /\ \A q \in Rooms : Justified(q, mem[q])' /\ Justified(q, srv[q])'
    BY <1>4, <1>5, SetRoomOK
  <1>7. job' \in [Slots -> Job] /\ \A t \in Slots : JobOK(job'[t])
    BY <1>1, <1>5, DetachedOK, IdleOK DEF IInv, JobInv
  <1>8. JobInv'
    BY <1>5, <1>7 DEF JobInv, JobOK, Justified, MayHave
  <1>9. TypeOK'
    BY <1>5, <1>6, <1>7 DEF IInv, TypeOK
  <1>10. ClaimInv'
    BY <1>5, <1>6 DEF IInv, ClaimInv, MayHave
  <1> QED BY <1>8, <1>9, <1>10 DEF IInv

\* The cache drops a configuration.
LEMMA StepEvict ==
  ASSUME IInv, disputed' \subseteq Names, NEW r \in Rooms, Evict(r)
  PROVE  IInv'
  <1>1. /\ mem' = [mem EXCEPT ![r] = srv[r]] /\ job' = Detached(r)
        /\ UNCHANGED <<rooms, srv, catchAll, up, count, claimed>>
    BY DEF Evict
  <1>2. TypeOK'
    BY <1>1, DetachedOK DEF IInv, TypeOK, count
  <1>3. JobInv'
    BY <1>1, DetachedOK DEF JobInv, JobOK, Justified, MayHave
  <1>4. \A q \in Rooms : Justified(q, mem'[q])
    BY <1>1 DEF IInv, TypeOK, ClaimInv
  <1>5. ClaimInv'
    BY <1>1, <1>4 DEF IInv, ClaimInv, Justified, MayHave
  <1> QED BY <1>2, <1>3, <1>5 DEF IInv

\* A restart reads what the homeserver has.
LEMMA StepRestart ==
  ASSUME IInv, disputed' \subseteq Names, Restart
  PROVE  IInv'
  <1>1. /\ rooms' = [k \in Keys |-> NoRoom] /\ mem' = srv
        /\ job' = [t \in Slots |-> Idle]
        /\ crashes' = crashes + 1
        /\ UNCHANGED <<srv, catchAll, faults, claimed>>
    BY DEF Restart
  <1>2. up' \in BOOLEAN
    BY Zenon DEF Restart
  <1>3. TypeOK'
    BY <1>1, <1>2, IdleOK DEF IInv, TypeOK
  <1>4. JobInv'
    BY <1>1, IdleOK DEF JobInv
  <1>5. ClaimInv'
    BY <1>1 DEF IInv, ClaimInv, Justified, MayHave, Keys
  <1> QED BY <1>3, <1>4, <1>5 DEF IInv

\* stop and delete take a name out of b.rooms and go on to clear a room.
LEMMA StepStop ==
  ASSUME IInv, disputed' \subseteq Names, NEW s \in Slots,
         \/ \E r \in Rooms : RunStop(s, r)
         \/ \E n \in Names : RunDelete(s, n)
  PROVE  IInv'
  <1>1. /\ rooms \in [Keys -> Rooms \cup {NoRoom}] /\ mem \in [Rooms -> Config]
        /\ Names \subseteq Keys
    BY DEF IInv, TypeOK, Keys
  <1>2. PICK k \in Names, r \in Rooms :
          /\ rooms' = [rooms EXCEPT ![k] = NoRoom]
          /\ job' = [job EXCEPT ![s] = [Idle EXCEPT !.at = "clear", !.room = r]]
    <2>1. CASE \E r \in Rooms : RunStop(s, r)
      <3>1. PICK r \in Rooms : RunStop(s, r)
        BY <2>1
      <3>2. mem[r].mailbox \in Names
        BY <1>1, <3>1 DEF RunStop, Config
      <3> QED BY <3>1, <3>2 DEF RunStop
    <2>2. CASE \E n \in Names : RunDelete(s, n)
      <3>1. PICK n \in Names : RunDelete(s, n)
        BY <2>2
      <3>2. rooms[n] \in Rooms
        BY <1>1, <3>1 DEF RunDelete
      <3> QED BY <3>1, <3>2 DEF RunDelete
    <2> QED BY <2>1, <2>2
  <1>3. UNCHANGED <<store, catchAll, up, count, claimed>>
    BY DEF RunStop, RunDelete
  <1>4. PICK j \in Job : j = [Idle EXCEPT !.at = "clear", !.room = r]
    BY DEF Idle, Job, Steps
  <1>5. j.at = "clear" /\ j.room = r /\ j.want = {} /\ j.cfg = Shared
    BY <1>4 DEF Idle
  <1>6. JobOK(j)'
    BY <1>5 DEF JobOK
  <1>7. job' \in [Slots -> Job] /\ JobInv'
    BY <1>2, <1>3, <1>4, <1>6, JobStep
  <1>8. TypeOK'
    BY <1>1, <1>2, <1>3, <1>7 DEF IInv, TypeOK, store, count
  <1>9. ClaimInv'
    BY <1>1, <1>2, <1>3 DEF IInv, ClaimInv, Justified, MayHave, store
  <1> QED BY <1>7, <1>8, <1>9 DEF IInv

\* A step of a goroutine that changes nothing but its own state.
LEMMA StepOwn ==
  ASSUME IInv, disputed' \subseteq Names, NEW s \in Slots, NEW j \in Job, JobOK(j),
         job' = [job EXCEPT ![s] = j],
         UNCHANGED <<rooms, store, catchAll, crashes, claimed>>,
         up' \in BOOLEAN, faults' \in Nat
  PROVE  IInv'
  <1>1. JobOK(j)'
    BY JobStays
  <1>2. job' \in [Slots -> Job] /\ JobInv'
    BY <1>1, JobStep
  <1>3. TypeOK'
    BY <1>2 DEF IInv, TypeOK, store
  <1>4. ClaimInv'
    BY DEF IInv, ClaimInv, Justified, MayHave, store
  <1> QED BY <1>2, <1>3, <1>4 DEF IInv

\* The sync of the rooms, but for addRoom; and a command that reads nothing.
LEMMA StepSync ==
  ASSUME IInv, disputed' \subseteq Names, NEW s \in Slots,
         \/ SyncStart(s) \/ SyncEnd(s) \/ GetFailed(s)
         \/ \E r \in Rooms : SyncGet(s, r) \/ SyncSkip(s, r)
  PROVE  IInv'
  <1>1. /\ UNCHANGED <<rooms, store, catchAll, crashes, claimed>>
        /\ faults' \in {faults, faults + 1} /\ faults \in Nat
    BY DEF SyncStart, SyncEnd, GetFailed, SyncGet, SyncSkip, Fault, count,
           IInv, TypeOK
  <1>2. up' \in BOOLEAN
    <2>1. up \in BOOLEAN
      BY DEF IInv, TypeOK
    <2> QED BY <2>1, Zenon
            DEF SyncStart, SyncEnd, GetFailed, SyncGet, SyncSkip
  <1>3. job \in [Slots -> Job] /\ job[s] \in Job /\ JobOK(job[s])
    BY DEF IInv, TypeOK, JobInv
  <1>4. ASSUME NEW j \in Job, JobOK(j), job' = [job EXCEPT ![s] = j]
        PROVE  IInv'
    <2>1. faults' \in Nat
      BY <1>1
    <2> QED BY <1>1, <1>2, <1>4, <2>1, StepOwn, Zenon
  <1>5. CASE SyncStart(s)
    <2>1. PICK j \in Job : j = [Idle EXCEPT !.at = "sync", !.left = Rooms]
      BY DEF Idle, Job, Steps
    <2>2. j.at = "sync" /\ j.want = {} /\ j.cfg = Shared
      BY <2>1 DEF Idle
    <2> QED BY <1>4, <1>5, <2>1, <2>2 DEF SyncStart, JobOK
  <1>6. CASE SyncEnd(s) \/ GetFailed(s)
    BY <1>4, <1>6, IdleOK DEF SyncEnd, GetFailed, Done
  <1>7. CASE \E r \in Rooms : SyncGet(s, r) \/ SyncSkip(s, r)
    <2>1. PICK r \in Rooms : SyncGet(s, r) \/ SyncSkip(s, r)
      BY <1>7
    <2>2. job[s].at = "sync"
      BY <2>1 DEF SyncGet, SyncSkip, Running
    <2>3. CASE job' = [job EXCEPT ![s].left = @ \ {r}]
      <3>1. PICK j \in Job : j = [job[s] EXCEPT !.left = @ \ {r}]
        BY <1>3 DEF Job
      <3>2. JobOK(j) /\ job' = [job EXCEPT ![s] = j]
        BY <1>3, <2>3, <3>1 DEF Job, JobOK
      <3> QED BY <1>4, <3>2
    <2>4. CASE job' = [job EXCEPT ![s].at = "syncAdd", ![s].room = r]
      <3>1. PICK j \in Job : j = [job[s] EXCEPT !.at = "syncAdd", !.room = r]
        BY <1>3 DEF Job, Steps
      <3>2. j.want = {} /\ j.cfg = Shared
        BY <1>3, <2>2, <3>1 DEF Job, JobOK
      <3>3. j.at = "syncAdd" /\ j.room = r
        BY <1>3, <3>1 DEF Job
      <3>4. JobOK(j)
        BY <3>2, <3>3 DEF JobOK
      <3>5. job' = [job EXCEPT ![s] = j]
        BY <1>3, <2>4, <3>1 DEF Job
      <3> QED BY <1>4, <3>4, <3>5
    <2> QED BY <2>1, <2>3, <2>4 DEF SyncGet, SyncSkip
  <1> QED BY <1>5, <1>6, <1>7

\* addRoom stores the names of a justified configuration.
LEMMA StepSyncAdd ==
  ASSUME IInv, disputed' \subseteq Names, NEW s \in Slots, SyncAdd(s)
  PROVE  IInv'
  <1>1. /\ job[s] \in Job /\ JobOK(job[s]) /\ job[s].room \in Rooms
        /\ job[s].want = {}
    BY DEF IInv, TypeOK, JobInv, JobOK, SyncAdd, Running
  <1>2. PICK r \in Rooms, c \in Config :
          r = job[s].room /\ c = Held(s) /\ Justified(r, c)
    BY <1>1, HeldOK
  <1>3. rooms' = [k \in Keys |-> IF k \in {c.mailbox} \cup c.aliases
                                 THEN r ELSE rooms[k]]
    BY <1>2 DEF SyncAdd
  <1>4. UNCHANGED <<store, catchAll, up, count, claimed>>
    BY DEF SyncAdd
  <1>5. PICK j \in Job : j = [job[s] EXCEPT !.at = "sync", !.left = @ \ {r},
                                            !.room = NoRoom, !.cfg = Shared]
    BY <1>1 DEF Job, Steps
  <1>6. /\ job' = [job EXCEPT ![s] = j]
        /\ j.at = "sync" /\ j.want = {} /\ j.cfg = Shared
    <2>1. job' = [job EXCEPT ![s].at = "sync", ![s].left = @ \ {r},
                             ![s].room = NoRoom, ![s].cfg = Shared]
      BY <1>2 DEF SyncAdd
    <2>2. job \in [Slots -> Job]
      BY DEF IInv, TypeOK
    <2>3. /\ j.at = "sync" /\ j.want = {} /\ j.cfg = Shared
          /\ j.room = NoRoom /\ j.left = job[s].left \ {r}
      BY <1>1, <1>5 DEF Job
    <2>4. job' = [job EXCEPT ![s] = j]
      BY <1>1, <1>5, <2>1, <2>2 DEF Job
    <2> QED BY <2>3, <2>4
  <1>7. JobOK(j)'
    BY <1>6 DEF JobOK
  <1>8. job' \in [Slots -> Job] /\ JobInv'
    BY <1>4, <1>6, <1>7, JobStep
  <1>9. TypeOK'
    BY <1>2, <1>3, <1>4, <1>8 DEF IInv, TypeOK, store, count
  <1>10. \A n \in Names : rooms'[n] # NoRoom => MayHave(rooms'[n], n)
    BY <1>2, <1>3 DEF IInv, ClaimInv, Justified, Keys
  <1>11. ClaimInv'
    BY <1>4, <1>10 DEF IInv, ClaimInv, Justified, MayHave, store
  <1> QED BY <1>8, <1>9, <1>11 DEF IInv

\* catch-all changes a bot option only.
LEMMA StepCatchAll ==
  ASSUME IInv, disputed' \subseteq Names, NEW n \in Names, RunCatchAll(n)
  PROVE  IInv'
  <1>1. catchAll' = n /\ UNCHANGED <<rooms, store, job, up, count, claimed>>
    BY DEF RunCatchAll
  <1>2. TypeOK'
    BY <1>1 DEF IInv, TypeOK, store, count
  <1>3. JobInv' /\ ClaimInv'
    BY <1>1 DEF IInv, JobInv, JobOK, ClaimInv, Justified, MayHave, store
  <1> QED BY <1>2, <1>3 DEF IInv

----------------------------------------------------------------------------

\* A new installation is in the invariant.
LEMMA IInvInit == Init => IInv
  <1> SUFFICES ASSUME Init PROVE IInv
    OBVIOUS
  <1>1. up \in BOOLEAN
    BY Zenon DEF Init
  <1>2. /\ rooms = [k \in Keys |-> NoRoom]
        /\ mem = [r \in Rooms |-> Empty] /\ srv = [r \in Rooms |-> Empty]
        /\ catchAll = NoName /\ job = [s \in Slots |-> Idle]
        /\ faults = 0 /\ crashes = 0 /\ claimed = {} /\ disputed = {}
    BY DEF Init
  <1>3. Empty \in Config /\ Empty.mailbox = NoName /\ Empty.aliases = {}
    BY DEF Empty, Config
  <1>4. TypeOK
    BY <1>1, <1>2, <1>3, IdleOK DEF TypeOK
  <1>5. JobInv
    BY <1>2, IdleOK DEF JobInv
  <1>6. ClaimInv
    BY <1>2, <1>3 DEF ClaimInv, Justified, Keys
  <1> QED BY <1>4, <1>5, <1>6 DEF IInv

\* Every step keeps the invariant.
LEMMA IInvNext == IInv /\ [Next]_vars => IInv'
  <1> SUFFICES ASSUME IInv, [Next]_vars PROVE IInv'
    OBVIOUS
  <1>0. disputed' \subseteq Names
    BY DEF Next, Record, vars, IInv, TypeOK
  <1>1. CASE UNCHANGED vars
    BY <1>1 DEF vars, store, count, IInv, TypeOK, JobInv, JobOK, ClaimInv,
                Justified, MayHave
  <1>2. ASSUME NEW s \in Slots, Command(s) PROVE IInv'
    <2>1. ASSUME NEW r \in Rooms, NEW n \in Names, SetMailbox(s, r, n)
          PROVE  IInv'
      <3>0. PICK A \in SUBSET Names : A = {n}
        OBVIOUS
      <3>1. PICK j \in Job : j = [Idle EXCEPT !.at = "mailboxGet", !.room = r,
                                               !.want = A]
        BY DEF Job, Idle, Steps
      <3>2. /\ j.at = "mailboxGet" /\ j.room = r /\ j.want = A
            /\ j.cfg = Shared
        BY <3>1 DEF Idle
      <3>3. /\ \A m \in A : ~Taken(m, r)
            /\ job' = [job EXCEPT ![s] = j]
            /\ claimed' = claimed \cup {<<r, m>> : m \in A}
            /\ UNCHANGED <<rooms, store, catchAll, up, count>>
        BY <2>1, <3>0, <3>1 DEF SetMailbox
      <3> QED BY <1>0, <3>2, <3>3, StepCommand
    <2>2. ASSUME NEW r \in Rooms, NEW A \in AliasLists, SetAliases(s, r, A)
          PROVE  IInv'
      <3>1. PICK j \in Job : j = [Idle EXCEPT !.at = "aliasesGet", !.room = r,
                                               !.want = A]
        BY DEF Job, Idle, Steps
      <3>2. /\ j.at = "aliasesGet" /\ j.room = r /\ j.want = A
            /\ j.cfg = Shared
        BY <3>1 DEF Idle
      <3>3. /\ A \in SUBSET Names /\ \A m \in A : ~Taken(m, r)
            /\ job' = [job EXCEPT ![s] = j]
            /\ claimed' = claimed \cup {<<r, m>> : m \in A}
            /\ UNCHANGED <<rooms, store, catchAll, up, count>>
        BY <2>2, <3>1 DEF SetAliases
      <3> QED BY <1>0, <3>2, <3>3, StepCommand
    <2> QED BY <1>0, <1>2, <2>1, <2>2, StepStop DEF Command
  <1>3. ASSUME NEW s \in Slots, Continue(s) PROVE IInv'
    BY <1>0, <1>3, StepGet, StepActivate, StepWrite, StepSync DEF Continue
  <1>4. ASSUME NEW s \in Slots, Sync(s) PROVE IInv'
    BY <1>0, <1>4, StepSync, StepSyncAdd DEF Sync
  <1> QED BY <1>0, <1>1, <1>2, <1>3, <1>4, StepCatchAll, StepEvict, StepRestart
          DEF Next, Step

\* The inductive invariant holds always.
THEOREM Inductive == Spec => []IInv
  BY IInvInit, IInvNext, PTL DEF Spec

\* Type correctness.
THEOREM TypeCorrect == Spec => []TypeOK
  <1>1. IInv => TypeOK
    BY DEF IInv
  <1> QED BY <1>1, Inductive, PTL

\* Whatever commands, syncs, evictions, failed calls and restarts interleave,
\* b.rooms sends the mail for a name only to a room in which the name passed
\* the checks of setMailbox or setAliases, and never for a reserved name.
THEOREM OnlyClaimed == Spec => []OnlyClaimedNames
  <1>1. IInv => OnlyClaimedNames
    BY DEF IInv, ClaimInv, MayHave, OnlyClaimedNames
  <1> QED BY <1>1, Inductive, PTL

----------------------------------------------------------------------------
(* The names that are not disputed                                         *)
(*                                                                         *)
(* OneRoomPerMailbox, RoutedAsConfigured and GivesMailboxes need that      *)
(* b.rooms says at every check what the homeserver has, although a rename  *)
(* changes both in three steps between which another command may begin,    *)
(* the map may be evicted or the process end, and a restart fills b.rooms  *)
(* room by room.  The invariant says of each name that is not disputed     *)
(* which room it belongs to, and how far the goroutine that works in that  *)
(* room has come.                                                          *)

Undisputed == Names \ disputed

\* The goroutines that work in room r.
In(r) == {s \in Slots : job[s].room = r}

\* What is disputed has been recorded.
Recorded == \A n \in Names : Disputes(n) => n \in disputed

\* Where a goroutine may be, and with which map.
PlaceInv ==
  \A s \in Slots :
    /\ job[s].at \in {"mailboxGet", "mailboxActivate"} =>
         \E w \in Names : job[s].want = {w}
    /\ job[s].at \in {"idle", "sync", "mailboxGet", "aliasesGet", "clear"} =>
         job[s].cfg = Shared
    /\ job[s].at \in {"idle", "sync"} => job[s].room = NoRoom
    /\ ~up => job[s].at \in {"idle", "sync", "syncAdd"}

\* No list of aliases has the name.
AliasInv ==
  \A n \in Undisputed :
    /\ \A r \in Rooms : n \notin mem[r].aliases /\ n \notin srv[r].aliases
    /\ \A s \in Slots :
         /\ job[s].cfg # Shared => n \notin job[s].cfg.aliases
         /\ job[s].at = "aliasesActivate" => n \notin job[s].want

\* A goroutine would have room r keep or get the mailbox n.
Wishes(s, n) == n \in job[s].want \/ Held(s).mailbox = n

Owns(r, n) ==
  \/ mem[r].mailbox = n \/ srv[r].mailbox = n
  \/ \E s \in In(r) : Wishes(s, n)

\* The name belongs to one room.
Unique ==
  \A n \in Undisputed : \A r, q \in Rooms : Owns(r, n) /\ Owns(q, n) => r = q

\* Both copies of the configuration of r and b.rooms agree on the name; while
\* the bot starts, b.rooms may miss it.
Settled(r, n) ==
  /\ mem[r].mailbox = n <=> srv[r].mailbox = n
  /\ rooms[n] = r => srv[r].mailbox = n
  /\ up /\ srv[r].mailbox = n => rooms[n] = r

\* How they differ while a goroutine works in the room.
Tended(s, r, n) ==
  /\ job[s].at \in {"mailboxGet", "aliasesGet", "aliasesActivate", "syncAdd"} =>
       Settled(r, n) /\ (Held(s).mailbox = n <=> srv[r].mailbox = n)
  /\ job[s].at \in {"mailboxActivate", "save"} =>
       /\ mem[r].mailbox = n => srv[r].mailbox = n \/ Held(s).mailbox = n
       /\ n \in job[s].want => Held(s).mailbox = n
  /\ job[s].at = "mailboxActivate" =>
       rooms[n] # r /\ (Held(s).mailbox = n => n \in job[s].want)
  /\ job[s].at = "save" => (rooms[n] = r <=> Held(s).mailbox = n)
  /\ job[s].at = "clear" =>
       rooms[n] # r /\ (mem[r].mailbox = n <=> srv[r].mailbox = n)

Route(r, n) ==
  /\ In(r) = {} => Settled(r, n)
  /\ \A s \in In(r) : Tended(s, r, n)

RouteInv == \A n \in Undisputed, r \in Rooms : Route(r, n)

\* While the bot starts, a sync has routed the rooms that it has done.
StartInv ==
  ~up => \A s \in Slots : job[s].at \in {"sync", "syncAdd"} =>
           \A n \in Undisputed, r \in Rooms :
             r \notin job[s].left /\ srv[r].mailbox = n => rooms[n] = r

NameInv == Recorded /\ PlaceInv /\ AliasInv /\ Unique /\ RouteInv /\ StartInv

\* A goroutine in a room is not idle and not between two rooms of a sync.
LEMMA Place ==
  ASSUME IInv, NameInv, NEW r \in Rooms, NEW s \in In(r)
  PROVE  /\ s \in Slots /\ job[s] \in Job /\ job[s].room = r
         /\ job[s].at \in {"mailboxGet", "mailboxActivate", "aliasesGet",
                           "aliasesActivate", "save", "clear", "syncAdd"}
  BY DEF In, IInv, TypeOK, NameInv, PlaceInv, Job, Steps

\* A room with two goroutines has no name that is not disputed.
LEMMA Alone ==
  ASSUME IInv, Recorded, NEW r \in Rooms, NEW n \in Undisputed, Owns(r, n),
         NEW s \in In(r), NEW t \in In(r)
  PROVE  s = t
  <1> SUFFICES ASSUME s # t PROVE FALSE
    OBVIOUS
  <1>1. n \in Names /\ ~Met(n)
    BY DEF Undisputed, Recorded, Disputes
  <1>2. \A a, b \in In(r) : a # b => n \notin About(a)
    BY <1>1 DEF Met, In
  <1>3. \A a \in In(r) : About(a) = job[a].want \cup
          {mem[r].mailbox, srv[r].mailbox, Held(a).mailbox}
    BY DEF About, In
  <1>4. \E a \in In(r) : n \in About(a)
    BY <1>3 DEF Owns, Wishes
  <1> QED BY <1>2, <1>4

\* The room that a name is routed to owns it.
LEMMA RoutedOwner ==
  ASSUME IInv, NameInv, NEW r \in Rooms, NEW n \in Undisputed, rooms[n] = r
  PROVE  Owns(r, n)
  <1>1. Route(r, n)
    BY DEF NameInv, RouteInv
  <1>2. CASE In(r) = {}
    BY <1>1, <1>2 DEF Route, Settled, Owns
  <1>3. CASE In(r) # {}
    <2>1. PICK s \in In(r) : Tended(s, r, n)
      BY <1>1, <1>3 DEF Route
    <2>2. srv[r].mailbox = n \/ Held(s).mailbox = n
      BY <2>1, Place DEF Tended, Settled
    <2> QED BY <2>2 DEF Owns, Wishes
  <1> QED BY <1>2, <1>3

\* A room that neither owns the name nor is sent its mail is as it should be.
LEMMA Unowned ==
  ASSUME NEW r \in Rooms, NEW n \in Names, ~Owns(r, n), rooms[n] # r
  PROVE  Route(r, n)
  BY DEF Owns, Wishes, Route, Settled, Tended

----------------------------------------------------------------------------
(* A step in one room *)

\* Nothing changes in other rooms.
Local(r) ==
  /\ \A q \in Rooms \ {r} : mem'[q] = mem[q] /\ srv'[q] = srv[q]
  /\ \A t \in Slots : \/ job'[t] = job[t]
                      \/ /\ job[t].room \in {r, NoRoom}
                         /\ job'[t].room \in {r, NoRoom}
  /\ up' = up

\* In another room the same goroutines own the same names, which are routed
\* there as they were.
LEMMA Elsewhere ==
  ASSUME NEW r, NEW q \in Rooms, q # r, NEW n \in Names, Local(r)
  PROVE  /\ Owns(q, n)' <=> Owns(q, n)
         /\ Route(q, n) /\ (rooms'[n] = q <=> rooms[n] = q) => Route(q, n)'
  <1>1. In(q)' = In(q) /\ \A t \in In(q) : job'[t] = job[t]
    BY DEF Local, In
  <1>2. mem'[q] = mem[q] /\ srv'[q] = srv[q] /\ up' = up
    BY DEF Local
  <1>3. \A t \in In(q) : Held(t)' = Held(t)
    BY <1>1, <1>2 DEF Held, In
  <1>4. Owns(q, n)' <=> Owns(q, n)
    BY <1>1, <1>2, <1>3 DEF Owns, Wishes
  <1>5. ASSUME rooms'[n] = q <=> rooms[n] = q
        PROVE  Settled(q, n)' <=> Settled(q, n)
    BY <1>2, <1>5 DEF Settled
  <1>6. ASSUME rooms'[n] = q <=> rooms[n] = q, NEW t \in In(q),
               Tended(t, q, n)
        PROVE  Tended(t, q, n)'
    BY <1>1, <1>2, <1>3, <1>5, <1>6 DEF Tended
  <1> QED BY <1>1, <1>4, <1>5, <1>6 DEF Route

\* The names that are not disputed after a step were not before, and neither
\* state nor step disputes them.
LEMMA StillUndisputed ==
  ASSUME Record, NameInv
  PROVE  /\ Recorded'
         /\ \A n \in Undisputed' : /\ n \in Undisputed /\ n \in Names
                                   /\ ~Disputes(n) /\ ~Disputes(n)'
                                   /\ ~Skipped(n)
  <1>1. disputed' = disputed \cup {n \in Names : Disputes(n)' \/ Skipped(n)}
    BY DEF Record
  <1>2. Recorded'
    BY <1>1 DEF Recorded
  <1> QED BY <1>1, <1>2 DEF Undisputed, NameInv, Recorded

\* What a step in room r has to show: it routes only names of r anew, it
\* gives r no name that another room has, and it leaves r as it should be.
LEMMA LocalStep ==
  ASSUME IInv, NameInv, Record, NEW r \in Rooms, Local(r),
         PlaceInv', AliasInv', StartInv',
         ASSUME NEW n \in Undisputed'
         PROVE  /\ rooms'[n] = rooms[n]
                     \/ (Owns(r, n) /\ rooms'[n] \in {r, NoRoom})
                /\ Owns(r, n)' =>
                     Owns(r, n) \/ \A q \in Rooms \ {r} : ~Owns(q, n)
                /\ Route(r, n)'
  PROVE  NameInv'
  <1>1. Recorded' /\ Undisputed' \subseteq Undisputed
        /\ Undisputed' \subseteq Names
    BY StillUndisputed
  <1>2. ASSUME NEW n \in Undisputed', NEW q \in Rooms, q # r
        PROVE  /\ Owns(q, n)' <=> Owns(q, n)
               /\ Route(q, n)'
    <2>1. n \in Undisputed /\ n \in Names
      BY <1>1
    <2>2. Owns(r, n) => rooms[n] # q
      BY <1>2, <2>1, RoutedOwner DEF NameInv, Unique
    <2>3. rooms'[n] = q <=> rooms[n] = q
      BY <1>2, <2>2
    <2>4. Route(q, n)
      BY <2>1 DEF NameInv, RouteInv
    <2> QED BY <1>2, <2>1, <2>3, <2>4, Elsewhere
  <1>3. ASSUME NEW n \in Undisputed', NEW p \in Rooms, NEW q \in Rooms,
               Owns(p, n)', Owns(q, n)'
        PROVE  p = q
    <2>1. n \in Undisputed
      BY <1>1
    <2>2. \A a, b \in Rooms : Owns(a, n) /\ Owns(b, n) => a = b
      BY <2>1 DEF NameInv, Unique
    <2> QED BY <1>2, <1>3, <2>2
  <1>4. Unique'
    BY <1>3 DEF Unique
  <1>5. RouteInv'
    BY <1>2 DEF RouteInv
  <1> QED BY <1>1, <1>4, <1>5 DEF NameInv

\* A step in room r that gives it no name.  A room that does not own the name
\* is not sent its mail, so only a room that owns it is looked at, and in that
\* one there is at most one goroutine.
LEMMA RoomStep ==
  ASSUME IInv, NameInv, Record, NEW r \in Rooms, Local(r),
         PlaceInv', AliasInv', StartInv',
         ASSUME NEW n \in Undisputed'
         PROVE  /\ rooms'[n] = rooms[n]
                     \/ (Owns(r, n) /\ rooms'[n] \in {r, NoRoom})
                /\ Owns(r, n)' => Owns(r, n),
         ASSUME NEW n \in Undisputed', Owns(r, n), Route(r, n),
                \A a, b \in In(r) : a = b
         PROVE  Route(r, n)'
  PROVE  NameInv'
  <1>1. ASSUME NEW n \in Undisputed'
        PROVE  Route(r, n)'
    <2>1. n \in Undisputed /\ n \in Names
      BY StillUndisputed
    <2>2. CASE Owns(r, n)
      <3>1. \A a, b \in In(r) : a = b
        BY <2>1, <2>2, Alone DEF NameInv
      <3>2. Route(r, n)
        BY <2>1 DEF NameInv, RouteInv
      <3> QED BY <2>2, <3>1, <3>2
    <2>3. CASE ~Owns(r, n)
      <3>1. rooms[n] # r
        BY <2>1, <2>3, RoutedOwner
      <3>2. ~Owns(r, n)' /\ rooms'[n] # r
        BY <2>3, <3>1
      <3> QED BY <3>2 DEF Owns, Wishes, Route, Settled, Tended
    <2> QED BY <2>2, <2>3
  <1> QED BY <1>1, LocalStep

\* A goroutine that begins in a room with a name finds nobody there: otherwise
\* the name is disputed.
LEMMA JoinAlone ==
  ASSUME NEW r \in Rooms, NEW s \in Slots, NEW n \in Names,
         job[s].room = NoRoom, job'[s].room = r,
         \A t \in Slots \ {s} : job'[t] = job[t],
         UNCHANGED <<mem, srv>>, Owns(r, n), ~Disputes(n)'
  PROVE  In(r) = {}
  <1> SUFFICES ASSUME NEW t \in In(r) PROVE FALSE
    OBVIOUS
  <1>1. t \in Slots /\ t # s /\ job'[t].room = r
    BY DEF In
  <1>2. PICK u \in Slots : job[u].room = r /\ n \in About(u)
    <2>1. About(t) = job[t].want \cup
            {mem[r].mailbox, srv[r].mailbox, Held(t).mailbox}
      BY <1>1 DEF About, In
    <2>2. \A u \in In(r) : Wishes(u, n) => n \in About(u)
      BY DEF About, In, Wishes
    <2> QED BY <2>1, <2>2 DEF Owns, In
  <1>3. u # s /\ job'[u] = job[u] /\ About(u)' = About(u)
    <2>1. u # s /\ job'[u] = job[u]
      BY <1>2
    <2> QED BY <2>1 DEF About, Held
  <1>4. Met(n)'
    BY <1>1, <1>2, <1>3 DEF Met
  <1> QED BY <1>4 DEF Disputes

\* A step that changes nothing but a goroutine that works in no room.
LEMMA OutsideStep ==
  ASSUME IInv, NameInv, Record, NEW s \in Slots,
         job[s].room = NoRoom, job'[s].room = NoRoom,
         \A t \in Slots \ {s} : job'[t] = job[t],
         UNCHANGED <<rooms, mem, srv, up>>,
         PlaceInv', AliasInv', StartInv'
  PROVE  NameInv'
  <1>1. Recorded' /\ Undisputed' \subseteq Undisputed
        /\ Undisputed' \subseteq Names
    BY StillUndisputed
  <1>2. Local(NoRoom)
    BY DEF Local
  <1>3. ASSUME NEW n \in Names, NEW q \in Rooms
        PROVE  /\ Owns(q, n)' <=> Owns(q, n)
               /\ Route(q, n) => Route(q, n)'
    BY <1>2, Elsewhere
  <1>4. Unique'
    <2>1. ASSUME NEW n \in Undisputed', NEW p \in Rooms, NEW q \in Rooms,
                 Owns(p, n)', Owns(q, n)'
          PROVE  p = q
      <3>1. n \in Undisputed /\ n \in Names
        BY <1>1
      <3> QED BY <1>3, <2>1, <3>1 DEF NameInv, Unique
    <2> QED BY <2>1 DEF Unique
  <1>5. RouteInv'
    <2>1. ASSUME NEW n \in Undisputed', NEW q \in Rooms
          PROVE  Route(q, n)'
      <3>1. n \in Undisputed /\ n \in Names
        BY <1>1
      <3> QED BY <1>3, <3>1 DEF NameInv, RouteInv
    <2> QED BY <2>1 DEF RouteInv
  <1> QED BY <1>1, <1>4, <1>5 DEF NameInv

----------------------------------------------------------------------------
(* The actions *)

\* Goroutine s, which worked in no room, begins to work in room r.
Joins(s, r) ==
  /\ job[s].room = NoRoom /\ job'[s].room = r /\ job'[s].cfg = Shared
  /\ \A t \in Slots \ {s} : job'[t] = job[t]
  /\ UNCHANGED <<mem, srv, up>>

\* It owns what it wants and what the room owned.
LEMMA JoinOwns ==
  ASSUME NEW s \in Slots, NEW r \in Rooms, Joins(s, r), NEW n \in Names
  PROVE  /\ Local(r) /\ In(r)' = In(r) \cup {s} /\ s \notin In(r)
         /\ Held(s)' = mem[r]
         /\ Owns(r, n)' <=> Owns(r, n) \/ n \in job'[s].want
  <1>1. Local(r) /\ In(r)' = In(r) \cup {s} /\ s \notin In(r)
    BY DEF Joins, Local, In
  <1>2. Held(s)' = mem[r]
    BY DEF Joins, Held
  <1>3. \A t \in In(r) : t # s /\ job'[t] = job[t] /\ Held(t)' = Held(t)
    BY <1>1 DEF Joins, Held, In
  <1>4. \A t \in In(r) : Wishes(t, n)' <=> Wishes(t, n)
    BY <1>3 DEF Wishes
  <1>5. Wishes(s, n)' <=> n \in job'[s].want \/ mem[r].mailbox = n
    BY <1>2 DEF Wishes
  <1>6. mem'[r] = mem[r] /\ srv'[r] = srv[r]
    BY DEF Joins
  <1>7. Owns(r, n)' <=> \/ mem[r].mailbox = n \/ srv[r].mailbox = n
                        \/ \E t \in In(r) \cup {s} : Wishes(t, n)'
    BY <1>1, <1>6 DEF Owns
  <1>8. Owns(r, n) <=> \/ mem[r].mailbox = n \/ srv[r].mailbox = n
                       \/ \E t \in In(r) : Wishes(t, n)
    BY DEF Owns
  <1> QED BY <1>1, <1>2, <1>4, <1>5, <1>7, <1>8

\* The check of a command: the names are free, and a goroutine that works in a
\* room that owns one of them makes it disputed.
LEMMA NameCommand ==
  ASSUME IInv, NameInv, Record, NEW s \in Slots, NEW r \in Rooms, Joins(s, r),
         job'[s].at \in {"mailboxGet", "aliasesGet"}, up, rooms' = rooms,
         job'[s].at = "mailboxGet" => \E w \in Names : job'[s].want = {w},
         \A n \in job'[s].want : ~Taken(n, r)
  PROVE  NameInv'
  <1>1. PlaceInv'
    BY DEF Joins, NameInv, PlaceInv
  <1>2. AliasInv'
    <2>1. ASSUME NEW n \in Undisputed'
          PROVE  /\ \A q \in Rooms : n \notin mem'[q].aliases
                                       /\ n \notin srv'[q].aliases
                 /\ \A t \in Slots :
                      /\ job'[t].cfg # Shared => n \notin job'[t].cfg.aliases
                      /\ job'[t].at = "aliasesActivate" => n \notin job'[t].want
      <3>1. n \in Undisputed
        BY StillUndisputed
      <3> QED BY <3>1 DEF Joins, NameInv, AliasInv
    <2> QED BY <2>1 DEF AliasInv
  <1>3. StartInv'
    BY DEF Joins, StartInv
  <1>4. ASSUME NEW n \in Undisputed', n \in job'[s].want,
               NEW q \in Rooms, q # r, Owns(q, n)
        PROVE  FALSE
    <2>1. n \in Undisputed /\ n \in Names /\ ~Disputes(n)'
      BY StillUndisputed
    <2>2. rooms[n] # q
      BY <1>4 DEF Taken, getMapping
    <2>3. In(q) # {}
      BY <1>4, <2>1, <2>2 DEF NameInv, RouteInv, Route, Settled, Owns
    <2>4. PICK t \in In(q) : n \in About(t)
      BY <1>4, <2>3 DEF Owns, Wishes, About, In
    <2>5. t \in Slots /\ t # s /\ job[t].room = q /\ job'[t] = job[t]
      BY <1>4, <2>4 DEF In, Joins
    <2>6. About(t)' = About(t)
      BY <2>5 DEF About, Held, Joins
    <2>7. n \in About(s)'
      BY <1>4 DEF About, Joins
    <2>8. Met(n)'
      BY <2>4, <2>5, <2>6, <2>7 DEF Met, Joins
    <2> QED BY <2>1, <2>8 DEF Disputes
  <1>5. ASSUME NEW n \in Undisputed'
        PROVE  Route(r, n)'
    <2>1. n \in Undisputed /\ n \in Names /\ ~Disputes(n)'
      BY StillUndisputed
    <2>2. CASE Owns(r, n)
      <3>1. In(r) = {}
        BY <2>1, <2>2, JoinAlone DEF Joins
      <3>2. Settled(r, n) /\ In(r)' = {s} /\ Held(s)' = mem[r]
        BY <2>1, <3>1, JoinOwns DEF NameInv, RouteInv, Route
      <3>3. Settled(r, n)'
        BY <3>2 DEF Settled, Joins
      <3> QED BY <3>2, <3>3 DEF Route, Tended, Settled, Joins
    <2>3. CASE ~Owns(r, n)
      <3>1. rooms[n] # r
        BY <2>1, <2>3, RoutedOwner
      <3>2. \A t \in In(r) : job'[t] = job[t] /\ Tended(t, r, n)
        BY <2>1 DEF Joins, In, NameInv, RouteInv, Route
      <3>3. CASE n \notin job'[s].want
        <4>1. ~Owns(r, n)'
          BY <2>1, <2>3, <3>3, JoinOwns
        <4> QED BY <3>1, <4>1 DEF Owns, Wishes, Route, Settled, Tended
      <3>4. CASE n \in job'[s].want
        <4>1. job'[s].at = "mailboxGet"
          BY <2>1, <3>4 DEF Disputes, Aliased
        <4>2. mem[r].mailbox # n /\ srv[r].mailbox # n
          BY <2>3 DEF Owns
        <4>3. Settled(r, n)'
          BY <3>1, <4>2 DEF Settled, Joins
        <4>4. Tended(s, r, n)'
          BY <2>1, <4>1, <4>2, <4>3, JoinOwns DEF Tended, Joins
        <4>5. ASSUME NEW t \in In(r) PROVE Tended(t, r, n)'
          <5>1. job'[t] = job[t] /\ Held(t)' = Held(t) /\ ~Wishes(t, n)
            BY <2>3, <4>5, <3>2 DEF Held, In, Joins, Owns
          <5> QED BY <3>1, <4>2, <4>3, <5>1 DEF Tended, Wishes, Joins
        <4> QED BY <2>1, <4>4, <4>5, JoinOwns DEF Route
      <3> QED BY <3>3, <3>4
    <2> QED BY <2>2, <2>3
  <1>6. ASSUME NEW n \in Undisputed'
        PROVE  Owns(r, n)' => Owns(r, n) \/ \A q \in Rooms \ {r} : ~Owns(q, n)
    <2>1. n \in Names
      BY StillUndisputed
    <2> QED BY <1>4, <2>1, JoinOwns
  <1>7. Local(r)
    BY DEF Joins, Local
  <1> QED BY <1>1, <1>2, <1>3, <1>5, <1>6, <1>7, LocalStep

\* stop and delete: the room is found by a name that it has, or the room is
\* swept and its mailbox is disputed.
LEMMA NameStop ==
  ASSUME IInv, NameInv, Record, NEW s \in Slots, NEW r \in Rooms, Joins(s, r),
         job'[s].at = "clear", job'[s].want = {}, up, NEW k \in Names,
         rooms' = [rooms EXCEPT ![k] = NoRoom],
         mem[r].mailbox = k \/ rooms[k] = r
  PROVE  NameInv'
  <1>1. PlaceInv'
    BY DEF Joins, NameInv, PlaceInv
  <1>2. AliasInv'
    <2>1. ASSUME NEW n \in Undisputed'
          PROVE  /\ \A q \in Rooms : n \notin mem'[q].aliases
                                       /\ n \notin srv'[q].aliases
                 /\ \A t \in Slots :
                      /\ job'[t].cfg # Shared => n \notin job'[t].cfg.aliases
                      /\ job'[t].at = "aliasesActivate" => n \notin job'[t].want
      <3>1. n \in Undisputed
        BY StillUndisputed
      <3> QED BY <3>1 DEF Joins, NameInv, AliasInv
    <2> QED BY <2>1 DEF AliasInv
  <1>3. StartInv'
    BY DEF Joins, StartInv
  <1>4. rooms' \in [Keys -> Rooms \cup {NoRoom}] /\ Names \subseteq Keys
        /\ rooms'[k] = NoRoom
        /\ \A n \in Names \ {k} : rooms'[n] = rooms[n]
    BY DEF IInv, TypeOK, Keys
  <1>5. ASSUME NEW n \in Undisputed'
        PROVE  /\ rooms'[n] = rooms[n]
                     \/ (Owns(r, n) /\ rooms'[n] \in {r, NoRoom})
               /\ Owns(r, n)' => Owns(r, n)
    <2>1. n \in Undisputed /\ n \in Names
      BY StillUndisputed
    <2>2. Owns(r, n)' => Owns(r, n)
      BY <2>1, JoinOwns
    <2>3. n = k => Owns(r, n)
      BY <2>1, RoutedOwner DEF Owns
    <2> QED BY <1>4, <2>1, <2>2, <2>3
  <1>6. ASSUME NEW n \in Undisputed', Owns(r, n), Route(r, n)
        PROVE  Route(r, n)'
    <2>1. n \in Names /\ ~Disputes(n)'
      BY StillUndisputed
    <2>2. In(r) = {}
      BY <1>6, <2>1, JoinAlone DEF Joins
    <2>3. Settled(r, n) /\ In(r)' = {s} /\ Held(s)' = mem[r]
      BY <1>6, <2>1, <2>2, JoinOwns DEF Route
    <2>4. rooms'[n] = r => mem[r].mailbox # n
      BY <2>1 DEF Disputes, Swept, Joins
    <2>5. rooms'[n] # r
      BY <1>4, <2>1, <2>3, <2>4 DEF Settled
    <2>6. Tended(s, r, n)'
      BY <2>3, <2>5 DEF Tended, Settled, Joins
    <2> QED BY <2>3, <2>6 DEF Route
  <1>7. Local(r)
    BY DEF Joins, Local
  <1> QED BY <1>1, <1>2, <1>3, <1>5, <1>6, <1>7, RoomStep

----------------------------------------------------------------------------
(* The sync *)

\* While the bot starts nobody but a sync works in a room.
LEMMA StartSettled ==
  ASSUME IInv, NameInv, ~up, NEW r \in Rooms, NEW n \in Undisputed
  PROVE  Settled(r, n)
  <1>1. Route(r, n)
    BY DEF NameInv, RouteInv
  <1>2. CASE In(r) = {}
    BY <1>1, <1>2 DEF Route
  <1>3. CASE In(r) # {}
    <2>1. PICK t \in In(r) : Tended(t, r, n)
      BY <1>1, <1>3 DEF Route
    <2>2. job[t].at = "syncAdd"
      BY <2>1, Place DEF NameInv, PlaceInv
    <2> QED BY <2>1, <2>2 DEF Tended
  <1> QED BY <1>2, <1>3

\* No alias list changes.
LEMMA SameAliases ==
  ASSUME NameInv, Record, UNCHANGED <<mem, srv>>, NEW s \in Slots,
         job'[s].cfg = Shared, job'[s].at # "aliasesActivate",
         \A t \in Slots \ {s} : job'[t] = job[t]
  PROVE  AliasInv'
  <1>1. ASSUME NEW n \in Undisputed'
        PROVE  /\ \A q \in Rooms : n \notin mem'[q].aliases
                                     /\ n \notin srv'[q].aliases
               /\ \A t \in Slots :
                    /\ job'[t].cfg # Shared => n \notin job'[t].cfg.aliases
                    /\ job'[t].at = "aliasesActivate" => n \notin job'[t].want
    <2>1. n \in Undisputed
      BY StillUndisputed
    <2> QED BY <2>1 DEF NameInv, AliasInv
  <1> QED BY <1>1 DEF AliasInv

\* A sync begins, or is done with a room that has no mailbox or that it has
\* to skip.
LEMMA NameSync ==
  ASSUME IInv, NameInv, Record, NEW s \in Slots,
         UNCHANGED <<rooms, mem, srv, up>>,
         job[s].at \in {"idle", "sync"}, job'[s].at = "sync",
         job'[s].room = NoRoom, job'[s].cfg = Shared,
         \A t \in Slots \ {s} : job'[t] = job[t],
         ASSUME ~up, NEW n \in Undisputed', NEW r \in Rooms,
                r \notin job'[s].left, srv[r].mailbox = n
         PROVE  job[s].at = "sync" /\ r \notin job[s].left
  PROVE  NameInv'
  <1>1. job[s].room = NoRoom
    BY DEF NameInv, PlaceInv
  <1>2. PlaceInv'
    BY DEF NameInv, PlaceInv
  <1>3. AliasInv'
    BY SameAliases
  <1>4. StartInv'
    <2>1. ASSUME ~up, NEW t \in Slots, job'[t].at \in {"sync", "syncAdd"},
                 NEW n \in Undisputed', NEW r \in Rooms,
                 r \notin job'[t].left, srv[r].mailbox = n
          PROVE  rooms[n] = r
      <3>1. job[t].at \in {"sync", "syncAdd"} /\ r \notin job[t].left
        BY <2>1
      <3>2. n \in Undisputed
        BY StillUndisputed
      <3> QED BY <2>1, <3>1, <3>2 DEF NameInv, StartInv
    <2> QED BY <2>1 DEF StartInv
  <1> QED BY <1>1, <1>2, <1>3, <1>4, OutsideStep

\* The actions of a sync outside addRoom, but for its end.
LEMMA NameSyncRead ==
  ASSUME IInv, NameInv, Record, NEW s \in Slots,
         \/ SyncStart(s)
         \/ \E r \in Rooms : SyncGet(s, r) \/ SyncSkip(s, r)
  PROVE  NameInv'
  <1>1. job \in [Slots -> Job] /\ job[s] \in Job /\ JobOK(job[s])
        /\ UNCHANGED <<rooms, mem, srv, up>>
    BY DEF IInv, TypeOK, JobInv, SyncStart, SyncGet, SyncSkip, store
  <1>2. CASE SyncStart(s)
    <2>1. /\ job[s].at = "idle" /\ job'[s].at = "sync"
          /\ job'[s].room = NoRoom /\ job'[s].cfg = Shared
          /\ job'[s].left = Rooms
          /\ \A t \in Slots \ {s} : job'[t] = job[t]
      BY <1>1, <1>2 DEF SyncStart, Idle
    <2> QED BY <1>1, <2>1, NameSync
  <1>3. ASSUME NEW r \in Rooms, SyncGet(s, r) \/ SyncSkip(s, r)
        PROVE  NameInv'
    <2>1. /\ job[s].at = "sync" /\ job[s].cfg = Shared
          /\ job[s].room = NoRoom /\ job[s].want = {}
      BY <1>1, <1>3
         DEF SyncGet, SyncSkip, Running, JobOK, NameInv, PlaceInv
    <2>2. CASE job' = [job EXCEPT ![s].left = @ \ {r}]
      <3>1. /\ job'[s].at = "sync" /\ job'[s].cfg = Shared
            /\ job'[s].room = NoRoom /\ job'[s].left = job[s].left \ {r}
            /\ \A t \in Slots \ {s} : job'[t] = job[t]
        BY <1>1, <2>1, <2>2 DEF Job
      <3>2. ASSUME ~up, NEW n \in Undisputed', NEW q \in Rooms,
                   q \notin job'[s].left, srv[q].mailbox = n
            PROVE  q \notin job[s].left
        <4>1. n \in Undisputed /\ n \in Names /\ ~Skipped(n)
          BY StillUndisputed
        <4>2. mem[q].mailbox = n
          BY <3>2, <4>1, StartSettled DEF Settled
        <4>3. ~SyncSkip(s, q)
          BY <3>2, <4>1, <4>2 DEF Skipped
        <4>4. ASSUME q = r PROVE FALSE
          <5>1. SyncGet(s, r) /\ mem[r].mailbox # NoName
            BY <1>3, <4>1, <4>2, <4>3, <4>4
          <5>2. job' = [job EXCEPT ![s].at = "syncAdd", ![s].room = r]
            BY <5>1 DEF SyncGet
          <5> QED BY <1>1, <3>1, <5>2 DEF Job
        <4> QED BY <3>1, <3>2, <4>4
      <3> QED BY <1>1, <2>1, <3>1, <3>2, NameSync
    <2>3. CASE job' = [job EXCEPT ![s].at = "syncAdd", ![s].room = r]
      <3>1. /\ job'[s].at = "syncAdd" /\ job'[s].left = job[s].left
            /\ job'[s].want = {} /\ Joins(s, r)
        BY <1>1, <2>1, <2>3 DEF Job, Joins
      <3>2. PlaceInv'
        BY <3>1 DEF Joins, NameInv, PlaceInv
      <3>3. AliasInv'
        BY <3>1, SameAliases DEF Joins
      <3>4. StartInv'
        <4>1. ASSUME ~up, NEW t \in Slots, job'[t].at \in {"sync", "syncAdd"},
                     NEW n \in Undisputed', NEW q \in Rooms,
                     q \notin job'[t].left, srv[q].mailbox = n
              PROVE  rooms[n] = q
          <5>1. job[t].at \in {"sync", "syncAdd"} /\ q \notin job[t].left
            BY <2>1, <3>1, <4>1 DEF Joins
          <5>2. n \in Undisputed
            BY StillUndisputed
          <5> QED BY <4>1, <5>1, <5>2 DEF NameInv, StartInv
        <4> QED BY <1>1, <4>1 DEF StartInv
      <3>5. ASSUME NEW n \in Undisputed'
            PROVE  Owns(r, n)' => Owns(r, n)
        <4>1. n \in Names
          BY StillUndisputed
        <4> QED BY <3>1, <4>1, JoinOwns
      <3>6. ASSUME NEW n \in Undisputed', Owns(r, n), Route(r, n)
            PROVE  Route(r, n)'
        <4>1. n \in Names /\ ~Disputes(n)'
          BY StillUndisputed
        <4>2. In(r) = {}
          BY <3>1, <3>6, <4>1, JoinAlone DEF Joins
        <4>3. Settled(r, n) /\ In(r)' = {s} /\ Held(s)' = mem[r]
          BY <3>1, <3>6, <4>1, <4>2, JoinOwns DEF Route
        <4>4. Settled(r, n)' /\ mem'[r] = mem[r] /\ srv'[r] = srv[r]
          BY <1>1, <4>3 DEF Settled
        <4>5. Tended(s, r, n)'
          BY <3>1, <4>3, <4>4 DEF Tended, Settled
        <4> QED BY <4>3, <4>5 DEF Route
      <3>7. Local(r)
        BY <3>1 DEF Joins, Local
      <3> QED BY <1>1, <3>2, <3>3, <3>4, <3>5, <3>6, <3>7, RoomStep
    <2> QED BY <1>3, <2>2, <2>3 DEF SyncGet, SyncSkip
  <1> QED BY <1>2, <1>3

\* addRoom routes the mailbox of the map it was given, which the room owns.
LEMMA NameSyncAdd ==
  ASSUME IInv, NameInv, Record, NEW s \in Slots, SyncAdd(s)
  PROVE  NameInv'
  <1>1. /\ job \in [Slots -> Job] /\ job[s] \in Job /\ JobOK(job[s])
        /\ job[s].at = "syncAdd" /\ job[s].room \in Rooms
        /\ UNCHANGED <<mem, srv, up>>
    BY DEF IInv, TypeOK, JobInv, JobOK, SyncAdd, Running, store
  <1>2. PICK r \in Rooms : r = job[s].room
    BY <1>1
  <1>3. /\ job'[s].at = "sync" /\ job'[s].left = job[s].left \ {r}
        /\ job'[s].room = NoRoom /\ job'[s].cfg = Shared
        /\ \A t \in Slots \ {s} : job'[t] = job[t]
    BY <1>1, <1>2 DEF SyncAdd, Job
  <1>4. /\ s \in In(r) /\ In(r)' = In(r) \ {s} /\ Local(r)
    BY <1>1, <1>2, <1>3 DEF In, Local
  <1>5. \A t \in In(r)' : Held(t)' = Held(t) /\ job'[t] = job[t]
    BY <1>1, <1>3, <1>4 DEF Held, In
  <1>6. ASSUME NEW n \in Undisputed'
        PROVE  /\ Held(s).mailbox = n => rooms'[n] = r
               /\ Held(s).mailbox # n => rooms'[n] = rooms[n]
    <2>1. n \in Undisputed /\ n \in Keys
      BY StillUndisputed DEF Undisputed, Keys
    <2>2. n \notin Held(s).aliases
      BY <1>1, <1>2, <2>1 DEF NameInv, AliasInv, Held
    <2> QED BY <1>2, <2>1, <2>2 DEF SyncAdd
  <1>7. ASSUME NEW n \in Undisputed'
        PROVE  /\ rooms'[n] = rooms[n]
                     \/ (Owns(r, n) /\ rooms'[n] \in {r, NoRoom})
               /\ Owns(r, n)' => Owns(r, n)
    <2>1. Held(s).mailbox = n => Owns(r, n)
      BY <1>4 DEF Owns, Wishes
    <2>2. Owns(r, n)' => Owns(r, n)
      BY <1>1, <1>4, <1>5 DEF Owns, Wishes
    <2> QED BY <1>6, <2>1, <2>2
  <1>8. ASSUME NEW n \in Undisputed', Owns(r, n), Route(r, n),
               \A a, b \in In(r) : a = b
        PROVE  Route(r, n)'
    <2>1. In(r)' = {}
      BY <1>4, <1>8
    <2>2. Settled(r, n) /\ (Held(s).mailbox = n <=> srv[r].mailbox = n)
      BY <1>1, <1>4, <1>8 DEF Route, Tended
    <2>3. Settled(r, n)'
      BY <1>1, <1>6, <2>2 DEF Settled
    <2> QED BY <2>1, <2>3 DEF Route
  <1>9. StartInv'
    <2>1. ASSUME ~up, NEW t \in Slots, job'[t].at \in {"sync", "syncAdd"},
                 NEW n \in Undisputed', NEW q \in Rooms,
                 q \notin job'[t].left, srv[q].mailbox = n
          PROVE  rooms'[n] = q
      <3>1. n \in Undisputed
        BY StillUndisputed
      <3>2. q # r /\ Held(s).mailbox = n => FALSE
        <4>1. q # r /\ Held(s).mailbox = n => Owns(q, n) /\ Owns(r, n)
          BY <1>4, <2>1 DEF Owns, Wishes
        <4> QED BY <3>1, <4>1 DEF NameInv, Unique
      <3>3. CASE q = r
        <4>1. Tended(s, r, n)
          BY <1>4, <3>1 DEF NameInv, RouteInv, Route
        <4> QED BY <1>1, <1>6, <2>1, <3>3, <4>1 DEF Tended
      <3>4. CASE q # r
        <4>1. job[t].at \in {"sync", "syncAdd"} /\ q \notin job[t].left
          BY <1>1, <1>3, <2>1, <3>4
        <4>2. rooms[n] = q
          BY <2>1, <3>1, <4>1 DEF NameInv, StartInv
        <4> QED BY <1>6, <3>2, <3>4, <4>2
      <3> QED BY <3>3, <3>4
    <2> QED BY <1>1, <2>1 DEF StartInv
  <1>10. PlaceInv'
    BY <1>1, <1>3 DEF NameInv, PlaceInv
  <1>11. AliasInv'
    BY <1>1, <1>3, SameAliases
  <1> QED BY <1>4, <1>7, <1>8, <1>9, <1>10, <1>11, RoomStep

\* When all rooms are done b.rooms misses no name, and events are handled.
LEMMA NameSyncEnd ==
  ASSUME IInv, NameInv, Record, NEW s \in Slots, SyncEnd(s)
  PROVE  NameInv'
  <1>1. /\ job \in [Slots -> Job] /\ job[s].at = "sync"
        /\ job[s].left = {} /\ job[s].room = NoRoom
        /\ job'[s] = Idle /\ \A t \in Slots \ {s} : job'[t] = job[t]
        /\ UNCHANGED <<rooms, mem, srv>>
    BY DEF IInv, TypeOK, SyncEnd, Running, Done, store, NameInv, PlaceInv
  <1>2. up'
    BY Zenon DEF SyncEnd
  <1>3. job'[s].at = "idle" /\ job'[s].room = NoRoom /\ job'[s].cfg = Shared
    BY <1>1 DEF Idle
  <1>4. PlaceInv'
    BY <1>1, <1>2, <1>3 DEF NameInv, PlaceInv
  <1>5. AliasInv'
    BY <1>1, <1>3, SameAliases
  <1>6. StartInv'
    BY <1>2 DEF StartInv
  <1>7. Recorded' /\ Undisputed' \subseteq Undisputed
    BY StillUndisputed
  <1>8. ASSUME NEW q \in Rooms
        PROVE  In(q)' = In(q) /\ \A t \in In(q) : job'[t] = job[t]
    BY <1>1, <1>3 DEF In
  <1>9. ASSUME NEW q \in Rooms, NEW t \in In(q)
        PROVE  Held(t)' = Held(t)
    BY <1>1, <1>8, <1>9 DEF Held, In
  <1>10. Unique'
    <2>1. ASSUME NEW n, NEW q \in Rooms
          PROVE  Owns(q, n)' <=> Owns(q, n)
      BY <1>1, <1>8, <1>9 DEF Owns, Wishes
    <2> QED BY <1>7, <2>1 DEF NameInv, Unique
  <1>11. ASSUME NEW n \in Undisputed', NEW q \in Rooms
         PROVE  Route(q, n)'
    <2>1. n \in Undisputed /\ Route(q, n)
      BY <1>7 DEF NameInv, RouteInv
    <2>2. ASSUME Settled(q, n) PROVE Settled(q, n)'
      <3>1. srv[q].mailbox = n => rooms[n] = q
        <4>1. CASE up
          BY <2>2, <4>1 DEF Settled
        <4>2. CASE ~up
          BY <1>1, <2>1, <4>2 DEF NameInv, StartInv
        <4> QED BY <4>1, <4>2
      <3> QED BY <1>1, <2>2, <3>1 DEF Settled
    <2>3. ASSUME NEW t \in In(q), Tended(t, q, n) PROVE Tended(t, q, n)'
      BY <1>1, <1>8, <1>9, <2>2, <2>3 DEF Tended
    <2> QED BY <1>8, <2>1, <2>2, <2>3 DEF Route
  <1>12. RouteInv'
    BY <1>11 DEF RouteInv
  <1> QED BY <1>4, <1>5, <1>6, <1>7, <1>10, <1>12 DEF NameInv

----------------------------------------------------------------------------
(* A command at work *)

\* A command that could not read the configuration leaves the room as it was.
LEMMA NameGetFailed ==
  ASSUME IInv, NameInv, Record, NEW s \in Slots, GetFailed(s)
  PROVE  NameInv'
  <1>1. /\ job \in [Slots -> Job] /\ JobOK(job[s])
        /\ job[s].at \in {"mailboxGet", "aliasesGet"} /\ job[s].room \in Rooms
        /\ UNCHANGED <<rooms, mem, srv, up>>
    BY DEF IInv, TypeOK, JobInv, JobOK, GetFailed, store
  <1>2. PICK r \in Rooms : r = job[s].room
    BY <1>1
  <1>3. /\ job'[s].at = "idle" /\ job'[s].room = NoRoom
        /\ job'[s].cfg = Shared
        /\ \A t \in Slots \ {s} : job'[t] = job[t]
    BY <1>1 DEF GetFailed, Done, Idle
  <1>4. /\ s \in In(r) /\ In(r)' = In(r) \ {s} /\ Local(r)
    BY <1>1, <1>2, <1>3 DEF In, Local
  <1>5. \A t \in In(r)' : Held(t)' = Held(t) /\ job'[t] = job[t]
    BY <1>1, <1>3, <1>4 DEF Held, In
  <1>6. ASSUME NEW n \in Undisputed'
        PROVE  Owns(r, n)' => Owns(r, n)
    BY <1>1, <1>4, <1>5 DEF Owns, Wishes
  <1>7. ASSUME NEW n \in Undisputed', Owns(r, n), Route(r, n),
               \A a, b \in In(r) : a = b
        PROVE  Route(r, n)'
    <2>1. In(r)' = {}
      BY <1>4, <1>7
    <2>2. Settled(r, n)
      BY <1>1, <1>4, <1>7 DEF Route, Tended
    <2> QED BY <1>1, <2>1, <2>2 DEF Route, Settled
  <1>8. up
    BY <1>1 DEF NameInv, PlaceInv
  <1>9. PlaceInv' /\ StartInv'
    BY <1>1, <1>3, <1>8 DEF NameInv, PlaceInv, StartInv
  <1>10. AliasInv'
    BY <1>1, <1>3, SameAliases
  <1> QED BY <1>1, <1>4, <1>6, <1>7, <1>9, <1>10, RoomStep

\* The cached map of r becomes c.
Caches(r, c) == mem' = [mem EXCEPT ![r] = c]

\* A command that goes on to another step.
LEMMA Goes ==
  ASSUME IInv, NameInv, NEW s \in Slots, NEW step \in Steps,
         job[s].at \in {"mailboxGet", "mailboxActivate", "aliasesGet",
                        "aliasesActivate"},
         Goto(s, step), up' = up, srv' = srv,
         NEW r \in Rooms, r = job[s].room, NEW c \in Config, Caches(r, c)
  PROVE  /\ up /\ Local(r) /\ mem'[r] = c
         /\ In(r)' = In(r) /\ s \in In(r)
         /\ job'[s].at = step /\ job'[s].want = job[s].want
         /\ job'[s].cfg = job[s].cfg /\ job'[s].room = r
         /\ \A t \in Slots \ {s} : job'[t] = job[t]
         /\ \A t \in In(r) :
              Held(t)' = IF job[t].cfg = Shared THEN c ELSE Held(t)
  <1>1. /\ job \in [Slots -> Job] /\ job[s] \in Job
        /\ mem \in [Rooms -> Config] /\ up
    BY DEF IInv, TypeOK, NameInv, PlaceInv
  <1>2. /\ job'[s].at = step /\ job'[s].want = job[s].want
        /\ job'[s].cfg = job[s].cfg /\ job'[s].room = r
        /\ \A t \in Slots \ {s} : job'[t] = job[t]
    BY <1>1 DEF Job, Goto
  <1>3. mem'[r] = c /\ \A q \in Rooms \ {r} : mem'[q] = mem[q]
    BY <1>1 DEF Caches
  <1>4. \A t \in Slots : job'[t].room = job[t].room /\ job'[t].cfg = job[t].cfg
    BY <1>2
  <1>5. In(r)' = In(r) /\ s \in In(r)
    BY <1>2, <1>4 DEF In
  <1>6. Local(r)
    BY <1>2, <1>3 DEF Local
  <1>7. \A t \in In(r) :
          Held(t)' = IF job[t].cfg = Shared THEN c ELSE Held(t)
    BY <1>3, <1>4 DEF Held, In
  <1> QED BY <1>1, <1>2, <1>3, <1>5, <1>6, <1>7

\* The new name in the cached map, the old one out of b.rooms.
LEMMA NameMailboxGet ==
  ASSUME IInv, NameInv, Record, NEW s \in Slots, MailboxGet(s)
  PROVE  NameInv'
  <1>1. /\ job[s].at = "mailboxGet" /\ job[s].room \in Rooms
        /\ mem \in [Rooms -> Config] /\ srv' = srv /\ up' = up
        /\ Goto(s, "mailboxActivate")
        /\ rooms \in [Keys -> Rooms \cup {NoRoom}] /\ Names \subseteq Keys
        /\ job[s].cfg = Shared
    BY DEF IInv, TypeOK, JobInv, JobOK, MailboxGet, Running, Keys,
           NameInv, PlaceInv
  <1>2. PICK r \in Rooms : r = job[s].room
    BY <1>1
  <1>3. PICK w \in Names : job[s].want = {w}
    BY <1>1 DEF NameInv, PlaceInv
  <1>4. PICK c \in Config : /\ c.mailbox = w /\ c.aliases = mem[r].aliases
                            /\ Caches(r, c)
    <2>1. mem' = [mem EXCEPT ![r].mailbox = w]
      BY <1>2, <1>3 DEF MailboxGet
    <2>2. [mem[r] EXCEPT !.mailbox = w] \in Config
      BY <1>1 DEF Config
    <2> QED BY <1>1, <2>1, <2>2 DEF Config, Caches
  <1>5. \A n \in Names :
          rooms'[n] = IF n = mem[r].mailbox THEN NoRoom ELSE rooms[n]
    BY <1>1, <1>2, <1>3 DEF MailboxGet
  <1>6. /\ up /\ Local(r) /\ mem'[r] = c
        /\ In(r)' = In(r) /\ s \in In(r)
        /\ job'[s].at = "mailboxActivate" /\ job'[s].want = {w}
        /\ job'[s].cfg = Shared /\ job'[s].room = r
        /\ \A t \in Slots \ {s} : job'[t] = job[t]
        /\ \A t \in In(r) :
             Held(t)' = IF job[t].cfg = Shared THEN c ELSE Held(t)
    <2>1. "mailboxActivate" \in Steps
      BY DEF Steps
    <2> QED BY <1>1, <1>2, <1>3, <1>4, <2>1, Goes
  <1>7. PlaceInv' /\ StartInv'
    BY <1>1, <1>3, <1>6 DEF NameInv, PlaceInv, StartInv
  <1>8. AliasInv'
    <2>1. ASSUME NEW n \in Undisputed'
          PROVE  /\ \A q \in Rooms : n \notin mem'[q].aliases
                                       /\ n \notin srv'[q].aliases
                 /\ \A t \in Slots :
                      /\ job'[t].cfg # Shared => n \notin job'[t].cfg.aliases
                      /\ job'[t].at = "aliasesActivate" => n \notin job'[t].want
      <3>1. n \in Undisputed
        BY StillUndisputed
      <3> QED BY <1>1, <1>4, <1>6, <3>1 DEF NameInv, AliasInv, Local
    <2> QED BY <2>1 DEF AliasInv
  <1>9. ASSUME NEW n \in Undisputed'
        PROVE  /\ rooms'[n] = rooms[n]
                     \/ (Owns(r, n) /\ rooms'[n] \in {r, NoRoom})
               /\ Owns(r, n)' => Owns(r, n)
    <2>1. n \in Names
      BY StillUndisputed
    <2>2. n = w => Owns(r, n)
      BY <1>3, <1>6 DEF Owns, Wishes
    <2>3. Owns(r, n)' => Owns(r, n)
      <3>1. ASSUME NEW t \in In(r), Wishes(t, n)' PROVE Owns(r, n)
        <4>1. job'[t].want = job[t].want /\ Held(t)' \in {c, Held(t)}
          BY <1>3, <1>6 DEF In
        <4> QED BY <1>4, <2>2, <3>1, <4>1 DEF Owns, Wishes
      <3>2. mem'[r].mailbox = n => Owns(r, n)
        BY <1>4, <1>6, <2>2
      <3>3. srv'[r].mailbox = n => Owns(r, n)
        BY <1>1 DEF Owns
      <3>4. Owns(r, n)' => \/ mem'[r].mailbox = n \/ srv'[r].mailbox = n
                          \/ \E t \in In(r) : Wishes(t, n)'
        BY <1>6 DEF Owns
      <3> QED BY <3>1, <3>2, <3>3, <3>4
    <2> QED BY <1>5, <2>1, <2>3 DEF Owns
  <1>10. ASSUME NEW n \in Undisputed', Owns(r, n), Route(r, n),
                \A a, b \in In(r) : a = b
         PROVE  Route(r, n)'
    <2>1. In(r)' = {s} /\ Held(s)' = c
      BY <1>1, <1>6, <1>10
    <2>2. Settled(r, n)
      BY <1>1, <1>6, <1>10 DEF Route, Tended
    <2>3. rooms'[n] # r
      BY <1>5, <2>2, StillUndisputed DEF Settled
    <2>4. Tended(s, r, n)'
      BY <1>4, <1>6, <2>1, <2>3 DEF Tended
    <2> QED BY <2>1, <2>4 DEF Route
  <1> QED BY <1>6, <1>7, <1>8, <1>9, <1>10, RoomStep

\* The new name in b.rooms.
LEMMA NameMailboxActivate ==
  ASSUME IInv, NameInv, Record, NEW s \in Slots, MailboxActivate(s)
  PROVE  NameInv'
  <1>1. /\ job[s].at = "mailboxActivate" /\ job[s].room \in Rooms
        /\ mem \in [Rooms -> Config] /\ srv' = srv /\ up' = up /\ mem' = mem
        /\ Goto(s, "save")
        /\ rooms \in [Keys -> Rooms \cup {NoRoom}] /\ Names \subseteq Keys
    BY DEF IInv, TypeOK, JobInv, JobOK, MailboxActivate, Running, Keys,
           store
  <1>2. PICK r \in Rooms : r = job[s].room
    BY <1>1
  <1>3. PICK w \in Names : job[s].want = {w}
    BY <1>1 DEF NameInv, PlaceInv
  <1>4. PICK c \in Config : c = mem[r] /\ Caches(r, c)
    BY <1>1 DEF Caches
  <1>5. \A n \in Names : rooms'[n] = IF n = w THEN r ELSE rooms[n]
    BY <1>1, <1>2, <1>3 DEF MailboxActivate
  <1>6. /\ up /\ Local(r)
        /\ In(r)' = In(r) /\ s \in In(r)
        /\ job'[s].at = "save" /\ job'[s].want = {w}
        /\ job'[s].cfg = job[s].cfg /\ job'[s].room = r
        /\ \A t \in Slots \ {s} : job'[t] = job[t]
        /\ \A t \in In(r) : Held(t)' = Held(t)
    <2>1. "save" \in Steps
      BY DEF Steps
    <2>2. \A t \in In(r) : Held(t)' = IF job[t].cfg = Shared THEN c ELSE Held(t)
      BY <1>1, <1>2, <1>4, <2>1, Goes
    <2>3. \A t \in In(r) : job[t].cfg = Shared => Held(t) = c
      BY <1>4 DEF Held, In
    <2> QED BY <1>1, <1>2, <1>3, <1>4, <2>1, <2>2, <2>3, Goes
  <1>7. PlaceInv' /\ StartInv'
    BY <1>1, <1>3, <1>6 DEF NameInv, PlaceInv, StartInv
  <1>8. AliasInv'
    <2>1. ASSUME NEW n \in Undisputed'
          PROVE  /\ \A q \in Rooms : n \notin mem'[q].aliases
                                       /\ n \notin srv'[q].aliases
                 /\ \A t \in Slots :
                      /\ job'[t].cfg # Shared => n \notin job'[t].cfg.aliases
                      /\ job'[t].at = "aliasesActivate" => n \notin job'[t].want
      <3>1. n \in Undisputed
        BY StillUndisputed
      <3> QED BY <1>1, <1>6, <3>1 DEF NameInv, AliasInv
    <2> QED BY <2>1 DEF AliasInv
  <1>9. ASSUME NEW n \in Undisputed'
        PROVE  /\ rooms'[n] = rooms[n]
                     \/ (Owns(r, n) /\ rooms'[n] \in {r, NoRoom})
               /\ Owns(r, n)' => Owns(r, n)
    <2>1. n \in Names
      BY StillUndisputed
    <2>2. n = w => Owns(r, n)
      BY <1>3, <1>6 DEF Owns, Wishes
    <2>3. \A t \in In(r) : Wishes(t, n)' <=> Wishes(t, n)
      BY <1>3, <1>6 DEF Wishes, In
    <2>4. Owns(r, n)' => \/ mem[r].mailbox = n \/ srv[r].mailbox = n
                        \/ \E t \in In(r) : Wishes(t, n)'
      BY <1>1, <1>6 DEF Owns
    <2>5. Owns(r, n)' => Owns(r, n)
      BY <2>3, <2>4 DEF Owns
    <2> QED BY <1>5, <2>1, <2>2, <2>5
  <1>10. ASSUME NEW n \in Undisputed', Owns(r, n), Route(r, n),
                \A a, b \in In(r) : a = b
         PROVE  Route(r, n)'
    <2>1. In(r)' = {s} /\ Held(s)' = Held(s) /\ n \in Names
      BY <1>6, <1>10, StillUndisputed
    <2>2. /\ mem[r].mailbox = n => srv[r].mailbox = n \/ Held(s).mailbox = n
          /\ n = w <=> Held(s).mailbox = n
          /\ rooms[n] # r
      BY <1>1, <1>3, <1>6, <1>10 DEF Route, Tended
    <2>3. Tended(s, r, n)'
      BY <1>1, <1>5, <1>6, <2>1, <2>2 DEF Tended
    <2> QED BY <2>1, <2>3 DEF Route
  <1> QED BY <1>6, <1>7, <1>8, <1>9, <1>10, RoomStep

\* Commands about aliases leave the routes of other names alone.
LEMMA NameAliases ==
  ASSUME IInv, NameInv, Record, NEW s \in Slots,
         AliasesGet(s) \/ AliasesActivate(s)
  PROVE  NameInv'
  <1>1. /\ job[s].at \in {"aliasesGet", "aliasesActivate"}
        /\ job[s].room \in Rooms /\ job[s].want \in AliasLists
        /\ job[s].at = "aliasesGet" => job[s].cfg = Shared
        /\ mem \in [Rooms -> Config] /\ srv' = srv /\ up' = up
        /\ rooms \in [Keys -> Rooms \cup {NoRoom}] /\ Names \subseteq Keys
    BY DEF IInv, TypeOK, JobInv, JobOK, AliasesGet, AliasesActivate, Running,
           Keys, store, NameInv, PlaceInv
  <1>2. PICK r \in Rooms : r = job[s].room
    BY <1>1
  <1>3. PICK step \in {"aliasesActivate", "save"} :
          Goto(s, step)
    BY <1>1, <1>2 DEF AliasesGet, AliasesActivate
  <1>4. PICK c \in Config :
          /\ Caches(r, c) /\ c.mailbox = mem[r].mailbox
          /\ c.aliases \in {mem[r].aliases, job[s].want}
    <2>1. CASE AliasesGet(s)
      <3>1. [mem[r] EXCEPT !.aliases = job[s].want] \in Config
        BY <1>1 DEF Config
      <3>2. mem' = [mem EXCEPT ![r].aliases = job[s].want]
        BY <1>2, <2>1 DEF AliasesGet
      <3> QED BY <1>1, <3>1, <3>2 DEF Config, Caches
    <2>2. CASE AliasesActivate(s)
      <3>1. mem' = mem
        BY <2>2 DEF AliasesActivate, store
      <3>2. mem[r] \in Config /\ Caches(r, mem[r])
        BY <1>1, <3>1 DEF Caches
      <3> QED BY <3>2
    <2> QED BY <2>1, <2>2
  <1>5. ASSUME NEW n \in Undisputed'
        PROVE  n \notin job[s].want /\ rooms'[n] = rooms[n]
    <2>1. n \in Undisputed /\ n \in Names /\ n \notin mem[r].aliases
      BY StillUndisputed DEF NameInv, AliasInv
    <2>2. n \notin job[s].want
      BY <1>1, <2>1, StillUndisputed DEF NameInv, AliasInv, Disputes, Aliased
    <2>3. Key(job[s].want) # n
      BY <1>1, <2>1, <2>2, KeyOK
    <2>4. mem[r].aliases # {} => Key(mem[r].aliases) # n
      BY <1>1, <2>1, KeyOK DEF Config
    <2>5. \/ rooms' = rooms
          \/ mem[r].aliases # {}
               /\ rooms' = [rooms EXCEPT ![Key(mem[r].aliases)] = NoRoom]
          \/ rooms' = [rooms EXCEPT ![Key(job[s].want)] = r]
      BY <1>2 DEF AliasesGet, AliasesActivate
    <2> QED BY <1>1, <2>1, <2>2, <2>3, <2>4, <2>5
  <1>6. /\ up /\ Local(r) /\ mem'[r] = c
        /\ In(r)' = In(r) /\ s \in In(r)
        /\ job'[s].at = step /\ job'[s].want = job[s].want
        /\ job'[s].cfg = job[s].cfg /\ job'[s].room = r
        /\ \A t \in Slots \ {s} : job'[t] = job[t]
        /\ \A t \in In(r) :
             Held(t)' = IF job[t].cfg = Shared THEN c ELSE Held(t)
    <2>1. step \in Steps
      BY DEF Steps
    <2> QED BY <1>1, <1>2, <1>3, <1>4, <2>1, Goes
  <1>7. \A t \in In(r) : Held(t)'.mailbox = Held(t).mailbox
    BY <1>4, <1>6 DEF Held, In
  <1>8. PlaceInv' /\ StartInv'
    BY <1>1, <1>6 DEF NameInv, PlaceInv, StartInv
  <1>9. AliasInv'
    <2>1. ASSUME NEW n \in Undisputed'
          PROVE  /\ \A q \in Rooms : n \notin mem'[q].aliases
                                       /\ n \notin srv'[q].aliases
                 /\ \A t \in Slots :
                      /\ job'[t].cfg # Shared => n \notin job'[t].cfg.aliases
                      /\ job'[t].at = "aliasesActivate" => n \notin job'[t].want
      <3>1. n \in Undisputed
        BY StillUndisputed
      <3> QED BY <1>1, <1>4, <1>5, <1>6, <3>1 DEF NameInv, AliasInv, Local
    <2> QED BY <2>1 DEF AliasInv
  <1>10. ASSUME NEW n \in Undisputed'
         PROVE  Owns(r, n)' => Owns(r, n)
    <2>1. \A t \in In(r) : Wishes(t, n)' <=> Wishes(t, n)
      BY <1>6, <1>7 DEF Wishes, In
    <2>2. Owns(r, n)' => \/ mem[r].mailbox = n \/ srv[r].mailbox = n
                        \/ \E t \in In(r) : Wishes(t, n)'
      BY <1>1, <1>4, <1>6 DEF Owns
    <2> QED BY <2>1, <2>2 DEF Owns
  <1>11. ASSUME NEW n \in Undisputed', Owns(r, n), Route(r, n),
                \A a, b \in In(r) : a = b
         PROVE  Route(r, n)'
    <2>1. In(r)' = {s} /\ Held(s)'.mailbox = Held(s).mailbox
      BY <1>6, <1>7, <1>11
    <2>2. Settled(r, n) /\ (Held(s).mailbox = n <=> srv[r].mailbox = n)
      BY <1>1, <1>6, <1>11 DEF Route, Tended
    <2>3. Settled(r, n)'
      BY <1>1, <1>4, <1>5, <1>6, <2>2 DEF Settled
    <2>4. Tended(s, r, n)'
      BY <1>1, <1>4, <1>5, <1>6, <2>1, <2>2, <2>3 DEF Tended, Settled
    <2> QED BY <2>1, <2>4 DEF Route
  <1>12. ASSUME NEW n \in Undisputed'
         PROVE  /\ rooms'[n] = rooms[n]
                      \/ (Owns(r, n) /\ rooms'[n] \in {r, NoRoom})
                /\ Owns(r, n)' => Owns(r, n)
    BY <1>5, <1>10
  <1>13. Local(r) /\ PlaceInv' /\ AliasInv' /\ StartInv'
    BY <1>6, <1>8, <1>9
  <1> QED BY <1>11, <1>12, <1>13, RoomStep

----------------------------------------------------------------------------
(* Writes of configurations, the cache and the process *)

\* Whoever holds the map that the cache replaces keeps it, whoever is about to
\* read the configuration finds the new one.
LEMMA DetachedIs ==
  ASSUME IInv, NameInv, NEW r \in Rooms, NEW t \in Slots,
         job'[t] = Detached(r)[t]
  PROVE  /\ job'[t].at = job[t].at /\ job'[t].room = job[t].room
         /\ job'[t].want = job[t].want /\ job'[t].left = job[t].left
         /\ job'[t].cfg = job[t].cfg \/ job'[t].cfg = mem[r]
         /\ job[t].at \in {"idle", "sync", "mailboxGet", "aliasesGet", "clear"}
              => job'[t].cfg = job[t].cfg
         /\ t \notin In(r) => job'[t] = job[t]
         /\ t \in In(r) =>
              Held(t)' = IF job[t].at \in {"mailboxGet", "aliasesGet", "clear"}
                         THEN mem'[r] ELSE Held(t)
  <1>1. job[t] \in Job /\ mem[r] \in Config /\ Shared \notin Config
    BY DEF IInv, TypeOK, Config
  <1>2. CASE t \in Holders(r)
    <2>1. job'[t] = [job[t] EXCEPT !.cfg = mem[r]]
      BY <1>2 DEF Detached
    <2>2. /\ job'[t].at = job[t].at /\ job'[t].room = job[t].room
          /\ job'[t].want = job[t].want /\ job'[t].left = job[t].left
          /\ job'[t].cfg = mem[r]
      BY <1>1, <2>1 DEF Job
    <2>3. /\ t \in In(r) /\ job[t].cfg = Shared
          /\ job[t].at \in {"mailboxActivate", "aliasesActivate", "save",
                            "syncAdd"}
      BY <1>2 DEF Holders, In
    <2>4. Held(t)' = mem[r] /\ Held(t) = mem[r]
      BY <1>1, <2>2, <2>3 DEF Held, In
    <2> QED BY <2>2, <2>3, <2>4
  <1>3. CASE t \notin Holders(r)
    <2>1. job'[t] = job[t]
      BY <1>3 DEF Detached
    <2>2. ASSUME t \in In(r)
          PROVE  Held(t)' =
                   IF job[t].at \in {"mailboxGet", "aliasesGet", "clear"}
                   THEN mem'[r] ELSE Held(t)
      <3>1. /\ job[t].room = r
            /\ job[t].at \in {"mailboxGet", "mailboxActivate", "aliasesGet",
                              "aliasesActivate", "save", "clear", "syncAdd"}
        BY <2>2, Place
      <3>2. CASE job[t].at \in {"mailboxGet", "aliasesGet", "clear"}
        <4>1. job[t].cfg = Shared
          BY <3>2 DEF NameInv, PlaceInv
        <4> QED BY <2>1, <3>1, <3>2, <4>1 DEF Held
      <3>3. CASE job[t].at \notin {"mailboxGet", "aliasesGet", "clear"}
        <4>1. job[t].cfg # Shared
          BY <1>3, <3>1, <3>3 DEF Holders
        <4> QED BY <2>1, <3>3, <4>1 DEF Held
      <3> QED BY <3>2, <3>3
    <2> QED BY <2>1, <2>2
  <1> QED BY <1>2, <1>3

\* Goroutine s ends, and the others keep the map that c replaces.
Leaves(s, r, c) ==
  /\ job'[s] = Idle
  /\ \/ \A t \in Slots \ {s} : job'[t] = Detached(r)[t]
     \/ c = mem[r] /\ \A t \in Slots \ {s} : job'[t] = job[t]

\* The write of a configuration, with which a command ends.
LEMMA NameWrites ==
  ASSUME IInv, NameInv, Record, NEW s \in Slots, NEW r \in Rooms, s \in In(r),
         NEW c \in Config, SetRoom(r, c), up, up' = up, rooms' = rooms,
         Leaves(s, r, c), c.mailbox \in Names => Owns(r, c.mailbox),
         \A n \in Undisputed : n \notin c.aliases,
         \A n \in Undisputed :
           Tended(s, r, n) => (rooms[n] = r <=> c.mailbox = n)
  PROVE  NameInv'
  <1>1. /\ mem \in [Rooms -> Config] /\ srv \in [Rooms -> Config]
        /\ mem' = [mem EXCEPT ![r] = c]
        /\ srv' = [srv EXCEPT ![r] = c] \/ srv' = srv
    BY DEF IInv, TypeOK, SetRoom
  <1>2. /\ mem'[r] = c /\ (srv'[r] = c \/ srv'[r] = srv[r])
        /\ \A q \in Rooms \ {r} : mem'[q] = mem[q] /\ srv'[q] = srv[q]
    BY <1>1
  <1>3. job'[s].at = "idle" /\ job'[s].room = NoRoom /\ job'[s].cfg = Shared
    BY DEF Idle, Leaves
  <1>4. ASSUME NEW t \in Slots \ {s}
        PROVE  /\ job'[t].at = job[t].at /\ job'[t].room = job[t].room
               /\ job'[t].want = job[t].want
               /\ job'[t].cfg = job[t].cfg \/ job'[t].cfg = mem[r]
               /\ job[t].at \in {"idle", "sync", "mailboxGet", "aliasesGet",
                                 "clear"} => job'[t].cfg = job[t].cfg
               /\ t \notin In(r) => job'[t] = job[t]
               /\ t \in In(r) => Held(t)' \in {Held(t), c}
    <2>1. CASE job'[t] = Detached(r)[t]
      <3>1. Held(t)' \in {Held(t), c} \/ t \notin In(r)
        BY <1>2, <2>1, DetachedIs
      <3> QED BY <2>1, <3>1, DetachedIs
    <2>2. CASE c = mem[r] /\ job'[t] = job[t]
      <3>1. t \in In(r) => Held(t)' = Held(t)
        BY <1>2, <2>2 DEF Held, In
      <3> QED BY <2>2, <3>1
    <2> QED BY <2>1, <2>2 DEF Leaves
  <1>5. In(r)' = In(r) \ {s} /\ Local(r)
    <2>1. In(r)' = In(r) \ {s}
      BY <1>3, <1>4 DEF In
    <2>2. \A t \in Slots : \/ job'[t] = job[t]
                           \/ /\ job[t].room \in {r, NoRoom}
                              /\ job'[t].room \in {r, NoRoom}
      BY <1>3, <1>4 DEF In
    <2> QED BY <1>2, <2>1, <2>2 DEF Local
  <1>6. PlaceInv' /\ StartInv'
    BY <1>3, <1>4 DEF NameInv, PlaceInv, StartInv
  <1>7. AliasInv'
    <2>1. ASSUME NEW n \in Undisputed'
          PROVE  /\ \A q \in Rooms : n \notin mem'[q].aliases
                                       /\ n \notin srv'[q].aliases
                 /\ \A t \in Slots :
                      /\ job'[t].cfg # Shared => n \notin job'[t].cfg.aliases
                      /\ job'[t].at = "aliasesActivate" => n \notin job'[t].want
      <3>1. n \in Undisputed
        BY StillUndisputed
      <3>2. /\ \A q \in Rooms : n \notin mem[q].aliases /\ n \notin srv[q].aliases
            /\ \A t \in Slots :
                 /\ job[t].cfg # Shared => n \notin job[t].cfg.aliases
                 /\ job[t].at = "aliasesActivate" => n \notin job[t].want
        BY <3>1 DEF NameInv, AliasInv
      <3>3. \A q \in Rooms : n \notin mem'[q].aliases /\ n \notin srv'[q].aliases
        BY <1>2, <3>1, <3>2
      <3> QED BY <1>3, <1>4, <3>2, <3>3
    <2> QED BY <2>1 DEF AliasInv
  <1>8. ASSUME NEW n \in Undisputed'
        PROVE  Owns(r, n)' => Owns(r, n)
    <2>1. n \in Names
      BY StillUndisputed
    <2>2. ASSUME NEW t \in In(r) \ {s}, Wishes(t, n)' PROVE Owns(r, n)
      <3>1. t \in Slots \ {s}
        BY DEF In
      <3>2. n \in job[t].want \/ Held(t).mailbox = n \/ c.mailbox = n
        BY <1>4, <2>2, <3>1 DEF Wishes
      <3> QED BY <2>1, <3>2 DEF Owns, Wishes
    <2>3. Owns(r, n)' => \/ mem'[r].mailbox = n \/ srv'[r].mailbox = n
                        \/ \E t \in In(r) \ {s} : Wishes(t, n)'
      BY <1>5 DEF Owns
    <2>4. mem'[r].mailbox = n \/ srv'[r].mailbox = n => Owns(r, n)
      BY <1>2, <2>1 DEF Owns
    <2> QED BY <2>2, <2>3, <2>4
  <1>9. ASSUME NEW n \in Undisputed', Route(r, n), \A a, b \in In(r) : a = b
        PROVE  Route(r, n)'
    <2>1. n \in Undisputed /\ n \in Names /\ ~Disputes(n)'
      BY StillUndisputed
    <2>2. rooms[n] = r <=> c.mailbox = n
      BY <1>9, <2>1 DEF Route
    <2>3. In(r)' = {}
      BY <1>5, <1>9
    <2>4. mem'[r].mailbox # srv'[r].mailbox
            => mem'[r].mailbox # n /\ srv'[r].mailbox # n
      BY <2>1, <2>3 DEF Disputes, Unsaved, In
    <2>5. Settled(r, n)'
      BY <1>2, <2>2, <2>4 DEF Settled
    <2> QED BY <2>3, <2>5 DEF Route
  <1> QED BY <1>5, <1>6, <1>7, <1>8, <1>9, RoomStep

\* Commands end with a write: of the map with the new name, or of an empty one.
LEMMA NameWrite ==
  ASSUME IInv, NameInv, Record, NEW s \in Slots, Save(s) \/ Clear(s)
  PROVE  NameInv'
  <1>1. /\ job \in [Slots -> Job] /\ job[s] \in Job /\ JobOK(job[s])
        /\ job[s].room \in Rooms /\ job[s].at \in {"save", "clear"}
        /\ up /\ up' = up /\ rooms' = rooms
    BY DEF IInv, TypeOK, JobInv, JobOK, Save, Clear, Running, NameInv, PlaceInv
  <1>2. PICK r \in Rooms : r = job[s].room
    BY <1>1
  <1>3. s \in In(r) /\ Held(s) \in Config
    BY <1>1, <1>2, HeldOK DEF In
  <1>4. CASE Save(s)
    <2>1. PICK c \in Config : c = Held(s)
      BY <1>3
    <2>2. SetRoom(r, c) /\ job[s].at = "save"
      BY <1>2, <1>4, <2>1 DEF Save, Running
    <2>3. job'[s] = Idle
      BY <1>1, <1>2, <1>4, DetachedOK DEF Save
    <2>4. \/ \A t \in Slots \ {s} : job'[t] = Detached(r)[t]
          \/ c = mem[r] /\ \A t \in Slots \ {s} : job'[t] = job[t]
      <3>1. CASE job[s].cfg = Shared
        <4>1. c = mem[r]
          BY <1>2, <2>1, <3>1 DEF Held
        <4>2. job' = [job EXCEPT ![s] = Idle]
          BY <1>4, <3>1 DEF Save
        <4> QED BY <1>1, <4>1, <4>2
      <3>2. CASE job[s].cfg # Shared
        <4>1. job' = [Detached(r) EXCEPT ![s] = Idle]
          BY <1>2, <1>4, <3>2 DEF Save
        <4> QED BY <1>2, <4>1, DetachedOK
      <3> QED BY <3>1, <3>2
    <2>5. c.mailbox \in Names => Owns(r, c.mailbox)
      BY <1>3, <2>1 DEF Owns, Wishes
    <2>6. \A n \in Undisputed : n \notin c.aliases
      BY <1>2, <2>1 DEF NameInv, AliasInv, Held
    <2>7. \A n \in Undisputed :
            Tended(s, r, n) => (rooms[n] = r <=> c.mailbox = n)
      BY <2>1, <2>2 DEF Tended
    <2>8. Leaves(s, r, c)
      BY <2>3, <2>4 DEF Leaves
    <2> QED BY <1>1, <1>3, <2>2, <2>5, <2>6, <2>7, <2>8, NameWrites
  <1>5. CASE Clear(s)
    <2>1. PICK c \in Config : c = Empty
      BY DEF Empty, Config
    <2>2. SetRoom(r, c) /\ job[s].at = "clear"
      BY <1>2, <1>5, <2>1 DEF Clear, Running
    <2>3. c.mailbox = NoName /\ c.aliases = {}
      BY <2>1 DEF Empty
    <2>4. job' = [Detached(r) EXCEPT ![s] = Idle]
      BY <1>2, <1>5 DEF Clear
    <2>5. job'[s] = Idle /\ \A t \in Slots \ {s} : job'[t] = Detached(r)[t]
      BY <2>4, DetachedOK
    <2>6. \A n \in Undisputed :
            Tended(s, r, n) => (rooms[n] = r <=> c.mailbox = n)
      BY <2>2, <2>3 DEF Tended, Undisputed
    <2>7. Leaves(s, r, c)
      BY <2>5 DEF Leaves
    <2> QED BY <1>1, <1>3, <2>2, <2>3, <2>6, <2>7, NameWrites
  <1> QED BY <1>4, <1>5

\* The cache reads a configuration again.
LEMMA NameEvict ==
  ASSUME IInv, NameInv, Record, NEW r \in Rooms, Evict(r)
  PROVE  NameInv'
  <1>1. /\ mem \in [Rooms -> Config] /\ mem' = [mem EXCEPT ![r] = srv[r]]
        /\ job' = Detached(r) /\ UNCHANGED <<rooms, srv, up>>
    BY DEF IInv, TypeOK, Evict
  <1>2. mem'[r] = srv[r] /\ \A q \in Rooms \ {r} : mem'[q] = mem[q]
    BY <1>1
  <1>3. ASSUME NEW t \in Slots
        PROVE  /\ job'[t].at = job[t].at /\ job'[t].room = job[t].room
               /\ job'[t].want = job[t].want /\ job'[t].left = job[t].left
               /\ job'[t].cfg = job[t].cfg \/ job'[t].cfg = mem[r]
               /\ job[t].at \in {"idle", "sync", "mailboxGet", "aliasesGet",
                                 "clear"} => job'[t].cfg = job[t].cfg
               /\ t \notin In(r) => job'[t] = job[t]
               /\ t \in In(r) => Held(t)' =
                    IF job[t].at \in {"mailboxGet", "aliasesGet", "clear"}
                    THEN srv[r] ELSE Held(t)
    BY <1>1, <1>2, DetachedIs
  <1>4. In(r)' = In(r)
    BY <1>3 DEF In
  <1>5. Local(r)
    BY <1>1, <1>2, <1>3 DEF Local, In
  <1>6. PlaceInv'
    BY <1>1, <1>3 DEF NameInv, PlaceInv
  <1>7. AliasInv'
    <2>1. ASSUME NEW n \in Undisputed'
          PROVE  /\ \A q \in Rooms : n \notin mem'[q].aliases
                                       /\ n \notin srv'[q].aliases
                 /\ \A t \in Slots :
                      /\ job'[t].cfg # Shared => n \notin job'[t].cfg.aliases
                      /\ job'[t].at = "aliasesActivate" => n \notin job'[t].want
      <3>1. n \in Undisputed
        BY StillUndisputed
      <3>2. /\ \A q \in Rooms : n \notin mem[q].aliases /\ n \notin srv[q].aliases
            /\ \A t \in Slots :
                 /\ job[t].cfg # Shared => n \notin job[t].cfg.aliases
                 /\ job[t].at = "aliasesActivate" => n \notin job[t].want
        BY <3>1 DEF NameInv, AliasInv
      <3> QED BY <1>1, <1>2, <1>3, <3>2
    <2> QED BY <2>1 DEF AliasInv
  <1>8. StartInv'
    <2>1. ASSUME ~up, NEW t \in Slots, job'[t].at \in {"sync", "syncAdd"},
                 NEW n \in Undisputed', NEW q \in Rooms,
                 q \notin job'[t].left, srv[q].mailbox = n
          PROVE  rooms[n] = q
      <3>1. job[t].at \in {"sync", "syncAdd"} /\ q \notin job[t].left
        BY <1>3, <2>1
      <3>2. n \in Undisputed
        BY StillUndisputed
      <3> QED BY <2>1, <3>1, <3>2 DEF NameInv, StartInv
    <2> QED BY <1>1, <2>1 DEF StartInv
  <1>9. ASSUME NEW n \in Undisputed'
        PROVE  Owns(r, n)' => Owns(r, n)
    <2>1. ASSUME NEW t \in In(r), Wishes(t, n)' PROVE Owns(r, n)
      <3>1. t \in Slots
        BY DEF In
      <3>2. n \in job[t].want \/ Held(t).mailbox = n \/ srv[r].mailbox = n
        BY <1>3, <2>1, <3>1 DEF Wishes
      <3> QED BY <3>2 DEF Owns, Wishes
    <2>2. Owns(r, n)' => \/ srv[r].mailbox = n
                        \/ \E t \in In(r) : Wishes(t, n)'
      BY <1>1, <1>2, <1>4 DEF Owns
    <2> QED BY <2>1, <2>2 DEF Owns
  <1>10. ASSUME NEW n \in Undisputed', Route(r, n)
         PROVE  Route(r, n)'
    <2>1. ASSUME Settled(r, n) PROVE Settled(r, n)'
      BY <1>1, <1>2, <2>1 DEF Settled
    <2>2. ASSUME NEW t \in In(r), Tended(t, r, n) PROVE Tended(t, r, n)'
      <3>1. t \in Slots
        BY DEF In
      <3>2. /\ job'[t].at = job[t].at /\ job'[t].want = job[t].want
            /\ Held(t)' = IF job[t].at \in {"mailboxGet", "aliasesGet", "clear"}
                          THEN srv[r] ELSE Held(t)
        BY <1>3, <2>2, <3>1
      <3> QED BY <1>1, <1>2, <2>1, <2>2, <3>2 DEF Tended
    <2> QED BY <1>4, <1>10, <2>1, <2>2 DEF Route
  <1> QED BY <1>1, <1>5, <1>6, <1>7, <1>8, <1>9, <1>10, RoomStep

\* A restart reads what is stored and routes nothing yet.
LEMMA NameRestart ==
  ASSUME IInv, NameInv, Record, Restart
  PROVE  NameInv'
  <1>1. /\ rooms' = [k \in Keys |-> NoRoom] /\ mem' = srv /\ srv' = srv
        /\ job' = [t \in Slots |-> Idle]
    BY DEF Restart
  <1>2. ~up'
    BY Zenon DEF Restart
  <1>3. \A t \in Slots : /\ job'[t].at = "idle" /\ job'[t].room = NoRoom
                         /\ job'[t].want = {} /\ job'[t].cfg = Shared
    BY <1>1 DEF Idle
  <1>4. \A n \in Undisputed' : n \in Undisputed /\ n \in Names
    BY StillUndisputed
  <1>5. \A n \in Names, r \in Rooms : rooms'[n] # r
    BY <1>1 DEF Keys
  <1>6. \A r \in Rooms : In(r)' = {}
    BY <1>3 DEF In
  <1>7. PlaceInv' /\ StartInv'
    BY <1>3 DEF PlaceInv, StartInv
  <1>8. AliasInv'
    <2>1. ASSUME NEW n \in Undisputed'
          PROVE  \A q \in Rooms : n \notin srv[q].aliases
      BY <1>4 DEF NameInv, AliasInv
    <2> QED BY <1>1, <1>3, <2>1 DEF AliasInv
  <1>9. ASSUME NEW n, NEW r \in Rooms, Owns(r, n)' PROVE Owns(r, n)
    BY <1>1, <1>6, <1>9 DEF Owns
  <1>10. Unique'
    BY <1>4, <1>9 DEF NameInv, Unique
  <1>11. ASSUME NEW n \in Undisputed', NEW r \in Rooms PROVE Route(r, n)'
    BY <1>1, <1>2, <1>4, <1>5, <1>6 DEF Route, Settled
  <1>12. RouteInv'
    BY <1>11 DEF RouteInv
  <1> QED BY <1>7, <1>8, <1>10, <1>12, StillUndisputed DEF NameInv

\* A step that changes none of what the invariant is about.
LEMMA NameSame ==
  ASSUME IInv, NameInv, UNCHANGED <<rooms, mem, srv, job, up>>,
         Recorded', disputed \subseteq disputed'
  PROVE  NameInv'
  <1>1. Undisputed' \subseteq Undisputed
    BY DEF Undisputed
  <1>2. \A r \in Rooms : In(r)' = In(r)
    BY DEF In
  <1>3. \A t \in Slots : Held(t)' = Held(t)
    BY DEF Held
  <1>4. ASSUME NEW n, NEW r \in Rooms
        PROVE  Owns(r, n)' <=> Owns(r, n)
    BY <1>2, <1>3 DEF Owns, Wishes, In
  <1>5. ASSUME NEW n, NEW r \in Rooms
        PROVE  Route(r, n)' <=> Route(r, n)
    BY <1>2, <1>3 DEF Route, Tended, Settled, In
  <1>6. PlaceInv'
    BY DEF NameInv, PlaceInv
  <1>7. AliasInv'
    BY <1>1 DEF NameInv, AliasInv
  <1>8. StartInv'
    BY <1>1 DEF NameInv, StartInv
  <1>9. Unique'
    BY <1>1, <1>4 DEF NameInv, Unique
  <1>10. RouteInv'
    BY <1>1, <1>5 DEF NameInv, RouteInv
  <1> QED BY <1>6, <1>7, <1>8, <1>9, <1>10 DEF NameInv

\* The checks of the commands, and the names by which stop and delete find a
\* room.
LEMMA NameCommands ==
  ASSUME IInv, NameInv, Record, NEW s \in Slots, Command(s)
  PROVE  NameInv'
  <1>1. job \in [Slots -> Job] /\ rooms \in [Keys -> Rooms \cup {NoRoom}]
        /\ mem \in [Rooms -> Config] /\ Names \subseteq Keys
    BY DEF IInv, TypeOK, Keys
  <1>2. ASSUME NEW r \in Rooms, NEW n \in Names, SetMailbox(s, r, n)
        PROVE  NameInv'
    <2>1. /\ job[s] = Idle /\ ~Taken(n, r)
          /\ UNCHANGED <<rooms, mem, srv, up>>
          /\ job' = [job EXCEPT ![s] = [Idle EXCEPT !.at = "mailboxGet",
                                                    !.room = r, !.want = {n}]]
      BY <1>2 DEF SetMailbox, store
    <2>2. up
      BY <1>2, Zenon DEF SetMailbox
    <2>3. /\ job'[s].at = "mailboxGet" /\ job'[s].want = {n}
          /\ job'[s].room = r /\ job'[s].cfg = Shared
          /\ \A t \in Slots \ {s} : job'[t] = job[t]
      BY <1>1, <2>1 DEF Idle
    <2>4. Joins(s, r)
      BY <2>1, <2>3 DEF Joins, Idle
    <2> QED BY <2>1, <2>2, <2>3, <2>4, NameCommand
  <1>3. ASSUME NEW r \in Rooms, NEW A \in AliasLists, SetAliases(s, r, A)
        PROVE  NameInv'
    <2>1. /\ job[s] = Idle /\ \A n \in A : ~Taken(n, r)
          /\ UNCHANGED <<rooms, mem, srv, up>>
          /\ job' = [job EXCEPT ![s] = [Idle EXCEPT !.at = "aliasesGet",
                                                    !.room = r, !.want = A]]
      BY <1>3 DEF SetAliases, store
    <2>2. up
      BY <1>3, Zenon DEF SetAliases
    <2>3. /\ job'[s].at = "aliasesGet" /\ job'[s].want = A
          /\ job'[s].room = r /\ job'[s].cfg = Shared
          /\ \A t \in Slots \ {s} : job'[t] = job[t]
      BY <1>1, <2>1 DEF Idle
    <2>4. Joins(s, r)
      BY <2>1, <2>3 DEF Joins, Idle
    <2> QED BY <2>1, <2>2, <2>3, <2>4, NameCommand
  <1>4. ASSUME NEW r \in Rooms, NEW k \in Names, up, job[s] = Idle,
               UNCHANGED <<mem, srv, up>>,
               rooms' = [rooms EXCEPT ![k] = NoRoom],
               mem[r].mailbox = k \/ rooms[k] = r,
               job' = [job EXCEPT ![s] = [Idle EXCEPT !.at = "clear",
                                                      !.room = r]]
        PROVE  NameInv'
    <2>1. /\ job'[s].at = "clear" /\ job'[s].want = {}
          /\ job'[s].room = r /\ job'[s].cfg = Shared
          /\ \A t \in Slots \ {s} : job'[t] = job[t]
      BY <1>1, <1>4 DEF Idle
    <2>2. Joins(s, r)
      BY <1>4, <2>1 DEF Joins, Idle
    <2> QED BY <1>4, <2>1, <2>2, NameStop
  <1>5. ASSUME NEW r \in Rooms, RunStop(s, r) PROVE NameInv'
    <2>1. PICK k \in Names : k = mem[r].mailbox
      BY <1>1, <1>5 DEF RunStop, Config
    <2>2. up
      BY <1>5, Zenon DEF RunStop
    <2> QED BY <1>4, <1>5, <2>1, <2>2 DEF RunStop, store
  <1>6. ASSUME NEW k \in Names, RunDelete(s, k) PROVE NameInv'
    <2>1. PICK r \in Rooms : r = rooms[k]
      BY <1>1, <1>6 DEF RunDelete
    <2>2. up
      BY <1>6, Zenon DEF RunDelete
    <2> QED BY <1>4, <1>6, <2>1, <2>2 DEF RunDelete, store
  <1> QED BY <1>2, <1>3, <1>5, <1>6 DEF Command

\* Every step keeps the invariant.
LEMMA NameNext == IInv /\ NameInv /\ [Next]_vars => NameInv'
  <1> SUFFICES ASSUME IInv, NameInv, [Next]_vars PROVE NameInv'
    OBVIOUS
  <1>1. CASE UNCHANGED vars
    <2>1. UNCHANGED <<rooms, mem, srv, job, up, disputed>>
      BY <1>1 DEF vars, store
    <2>2. \A s \in Slots : About(s)' = About(s)
      BY <2>1 DEF About, Held
    <2>3. \A n \in Names : Disputes(n)' <=> Disputes(n)
      BY <2>1, <2>2 DEF Disputes, Met, Unsaved, Aliased, Swept
    <2>4. Recorded'
      BY <2>1, <2>3 DEF NameInv, Recorded
    <2> QED BY <2>1, <2>4, NameSame
  <1>2. CASE Next
    <2>1. Record /\ Step
      BY <1>2 DEF Next
    <2>2. ASSUME NEW n \in Names, RunCatchAll(n) PROVE NameInv'
      <3>1. Recorded' /\ disputed \subseteq disputed'
        BY <2>1, StillUndisputed DEF Record
      <3> QED BY <2>2, <3>1, NameSame DEF RunCatchAll, store
    <2>3. ASSUME NEW s \in Slots, Continue(s) PROVE NameInv'
      BY <2>1, <2>3, NameMailboxGet, NameGetFailed, NameMailboxActivate,
         NameAliases, NameWrite
         DEF Continue
    <2>4. ASSUME NEW s \in Slots, Sync(s) PROVE NameInv'
      BY <2>1, <2>4, NameSyncRead, NameSyncAdd, NameSyncEnd DEF Sync
    <2> QED BY <2>1, <2>2, <2>3, <2>4, NameCommands, NameEvict, NameRestart
            DEF Step
  <1> QED BY <1>1, <1>2

\* A new installation: nothing is stored, routed or disputed.
LEMMA NameInit == Init => NameInv
  <1> SUFFICES ASSUME Init PROVE NameInv
    OBVIOUS
  <1>1. /\ rooms = [k \in Keys |-> NoRoom]
        /\ mem = [r \in Rooms |-> Empty] /\ srv = [r \in Rooms |-> Empty]
        /\ job = [s \in Slots |-> Idle]
    BY DEF Init
  <1>2. up
    BY Zenon DEF Init
  <1>3. \A s \in Slots : /\ job[s].at = "idle" /\ job[s].room = NoRoom
                         /\ job[s].cfg = Shared
    BY <1>1 DEF Idle
  <1>4. \A r \in Rooms : /\ mem[r].mailbox = NoName /\ mem[r].aliases = {}
                         /\ srv[r].mailbox = NoName /\ srv[r].aliases = {}
    BY <1>1 DEF Empty
  <1>5. \A r \in Rooms : In(r) = {}
    BY <1>3 DEF In
  <1>6. \A n \in Names, r \in Rooms : rooms[n] # r
    BY <1>1 DEF Keys
  <1>7. Recorded
    BY <1>3, <1>4 DEF Recorded, Disputes, Met, About, Unsaved, Aliased, Swept
  <1>8. PlaceInv /\ StartInv
    BY <1>2, <1>3 DEF PlaceInv, StartInv
  <1>9. AliasInv
    BY <1>3, <1>4 DEF AliasInv
  <1>10. Unique
    BY <1>4, <1>5 DEF Unique, Owns, Undisputed
  <1>11. RouteInv
    BY <1>4, <1>5, <1>6 DEF RouteInv, Route, Settled, Undisputed
  <1> QED BY <1>7, <1>8, <1>9, <1>10, <1>11 DEF NameInv

\* Each name that is not disputed belongs to one room at most, and b.rooms and
\* the configurations of that room differ only by what the goroutine that
\* works there has not done yet.
THEOREM InStep == Spec => []NameInv
  BY NameInit, IInvNext, NameNext, Inductive, PTL DEF Spec

\* "1 room = 1 mailbox": for any rooms, names and lists of aliases, and however
\* commands, syncs, evictions, failed calls and restarts interleave, two rooms
\* are only configured with the same mailbox when the name is disputed.
THEOREM OneRoomEach == Spec => []OneRoomPerMailbox
  <1>1. IInv /\ NameInv => OneRoomPerMailbox
    <2> SUFFICES ASSUME IInv, NameInv, NEW r1 \in Rooms, NEW r2 \in Rooms,
                        Clash(r1, r2), mem[r1].mailbox \notin disputed
                 PROVE  FALSE
      BY DEF OneRoomPerMailbox
    <2>1. /\ r1 # r2 /\ mem[r1].mailbox = mem[r2].mailbox
          /\ mem[r1].mailbox \in Undisputed
      BY DEF Clash, IInv, TypeOK, Config, Undisputed
    <2> QED BY <2>1 DEF NameInv, Unique, Owns
  <1> QED BY <1>1, InStep, Inductive, PTL

\* While no goroutine is at work, mail for the names that are not disputed is
\* routed exactly as the rooms are configured: b.rooms and the cached
\* configurations agree, also after a rename or a sync that a restart broke
\* off, and after syncs that ran beside the commands of other rooms.
THEOREM RoutedAsSet == Spec => []RoutedAsConfigured
  <1>1. NameInv => RoutedAsConfigured
    <2> SUFFICES ASSUME NameInv, Quiet, NEW n \in Undisputed, NEW r \in Rooms
                 PROVE  rooms[n] = r <=> mem[r].mailbox = n
      BY DEF RoutedAsConfigured, Undisputed
    <2>1. up /\ In(r) = {}
      BY DEF Quiet, In, Idle
    <2> QED BY <2>1 DEF NameInv, RouteInv, Route, Settled
  <1> QED BY <1>1, InStep, PTL

----------------------------------------------------------------------------
(* The directory that is stored *)

\* What a command saves is one step of the directory: the name was checked when
\* the command began, and is still free unless it is disputed.
LEMMA DirectoryWrite ==
  ASSUME IInv, NameInv, Record, NEW s \in Slots, Save(s) \/ Clear(s)
  PROVE  boxes' = boxes \/ \E r \in Rooms :
           Dir!Free(r) \/ \E n \in Names : Dir!Give(r, n)
  <1>1. /\ job[s].room \in Rooms /\ srv \in [Rooms -> Config]
    BY DEF IInv, TypeOK, JobInv, JobOK, Save, Clear, Running
  <1>2. PICK r \in Rooms : r = job[s].room
    BY <1>1
  <1>3. ASSUME NEW c, SetRoom(r, c)
        PROVE  boxes' = boxes \/ boxes' = [boxes EXCEPT ![r] = c.mailbox]
    <2>1. srv' = srv \/ srv' = [srv EXCEPT ![r] = c]
      BY <1>3 DEF SetRoom
    <2> QED BY <1>1, <2>1 DEF boxes
  <1>4. CASE Save(s)
    <2>1. SetRoom(r, Held(s)) /\ Held(s) \in Config /\ Justified(r, Held(s))
          /\ s \in In(r)
      BY <1>1, <1>2, <1>4, HeldOK DEF Save, In
    <2>2. CASE Held(s).mailbox = NoName
      BY <1>3, <2>1, <2>2 DEF Dir!Free
    <2>3. CASE Held(s).mailbox # NoName
      <3>1. PICK n \in Names : n = Held(s).mailbox
        BY <2>1, <2>3 DEF Config
      <3>2. n \notin Reserved
        BY <2>1, <2>3, <3>1 DEF Justified, MayHave
      <3>3. n \in disputed' \/ \A q \in Rooms \ {r} : boxes[q] # n
        <4>1. n \notin disputed' => n \in Undisputed
          BY DEF Record, Undisputed
        <4>2. Owns(r, n)
          BY <2>1, <3>1 DEF Owns, Wishes
        <4>3. \A q \in Rooms : boxes[q] = n => Owns(q, n)
          BY DEF boxes, Owns
        <4> QED BY <4>1, <4>2, <4>3 DEF NameInv, Unique
      <3> QED BY <1>3, <2>1, <3>1, <3>2, <3>3 DEF Dir!Give
    <2> QED BY <2>2, <2>3
  <1>5. CASE Clear(s)
    <2>1. SetRoom(r, Empty) /\ Empty.mailbox = NoName
      BY <1>2, <1>5 DEF Clear, Empty
    <2> QED BY <1>3, <2>1 DEF Dir!Free
  <1> QED BY <1>4, <1>5

\* No other step changes what is stored.
LEMMA DirectoryNext ==
  IInv /\ NameInv /\ [Next]_vars => [Dir!Next]_<<boxes, disputed>>
  <1> SUFFICES ASSUME IInv, NameInv, [Next]_vars
               PROVE  [Dir!Next]_<<boxes, disputed>>
    OBVIOUS
  <1>1. CASE UNCHANGED vars
    BY <1>1 DEF vars, store, boxes
  <1>2. CASE Next
    <2>1. Record /\ Step
      BY <1>2 DEF Next
    <2>2. disputed \subseteq disputed' /\ disputed' \subseteq Names
      BY <2>1 DEF Record, IInv, TypeOK
    <2>3. ASSUME NEW s \in Slots, Command(s) PROVE srv' = srv
      BY <2>3 DEF Command, SetMailbox, SetAliases, RunStop, RunDelete, store
    <2>4. ASSUME NEW s \in Slots, Sync(s) PROVE srv' = srv
      BY <2>4 DEF Sync, SyncStart, SyncGet, SyncSkip, SyncAdd, SyncEnd, store
    <2>5. ASSUME NEW s \in Slots, Continue(s)
          PROVE  srv' = srv \/ Save(s) \/ Clear(s)
      BY <2>5 DEF Continue, MailboxGet, GetFailed, MailboxActivate,
                  AliasesGet, AliasesActivate, store
    <2>6. srv' = srv \/ \E s \in Slots : Save(s) \/ Clear(s)
      BY <2>1, <2>3, <2>4, <2>5 DEF Step, Restart, Evict, RunCatchAll, store
    <2>7. boxes' = boxes \/ \E r \in Rooms :
            Dir!Free(r) \/ \E n \in Names : Dir!Give(r, n)
      BY <2>1, <2>6, DirectoryWrite DEF boxes
    <2> QED BY <2>2, <2>7 DEF Dir!Next
  <1> QED BY <1>1, <1>2

\* The registry implements Directory: what is stored changes for one room at a
\* time, to no name or to one that is not reserved and that, unless it is
\* disputed, no other room is stored with; for any rooms, names and aliases,
\* through overlapping commands, failed calls, evictions in the middle of a
\* rename and restarts.
THEOREM ImplementsDirectory == Spec => GivesMailboxes
  <1>1. Init => Dir!Init
    BY DEF Init, Dir!Init, boxes, Empty
  <1> QED BY <1>1, DirectoryNext, InStep, Inductive, PTL
          DEF Spec, GivesMailboxes, Dir!Spec, Dir!dir
=============================================================================
