-------------------------- MODULE SettingsProofs ---------------------------
(***************************************************************************)
(* Proofs about Settings for any people, admins, patterns, senders and     *)
(* addresses, any number of goroutines, commands and faults.               *)
(***************************************************************************)
EXTENDS Settings, FiniteSetTheorems, TLAPS

----------------------------------------------------------------------------
(* Facts and commands *)

USE DEF Docs

\* Facts of different kinds, and about different people, are different.
LEMMA FactsDiffer ==
  /\ \A p, s, a : /\ User(p) # Spam(s) /\ User(p) # Old(s) /\ User(p) # Owner(s)
                  /\ User(p) # Banned(a) /\ Spam(s) # Old(a) /\ Spam(s) # Owner(a)
                  /\ Spam(s) # Banned(a) /\ Old(s) # Owner(a) /\ Old(s) # Banned(a)
  /\ \A x : /\ User(x) \notin {Banlist, AutoBan, Migrated, Option, Mailbox}
            /\ Spam(x) \notin {Banlist, AutoBan, Migrated, Option, Mailbox}
            /\ Old(x) \notin {Banlist, AutoBan, Migrated, Option, Mailbox}
            /\ Owner(x) \notin {Banlist, AutoBan, Migrated, Option, Mailbox}
            /\ Banned(x) \notin {Banlist, AutoBan, Migrated, Option, Mailbox}
  /\ Migrated \notin {Banlist, AutoBan, Option, Mailbox}
  /\ \A p, q : /\ User(p) = User(q) => p = q
               /\ Spam(p) = Spam(q) => p = q
               /\ Old(p) = Old(q) => p = q
  BY DEF User, Spam, Old, Owner, Banned, Banlist, AutoBan, Migrated, Option, Mailbox

\* The facts of the documents.
LEMMA FactsOf ==
  /\ Facts["bot"] = Users \cup {Banlist, AutoBan, Migrated, Option}
  /\ Facts["room"] = Owners \cup Spams \cup Olds \cup {Mailbox, Option}
  /\ Facts["ban"] = {Banned(a) : a \in Addrs}
  /\ \A d \in Docs : Facts[d] \subseteq AllFacts
  BY DEF Facts, AllFacts

\* What the documents have apart.
LEMMA FactsApart ==
  /\ Users \cap Facts["room"] = {} /\ Users \cap Facts["ban"] = {}
  /\ Users \cap Spams = {} /\ Olds \cap Spams = {}
  /\ Olds \cap Facts["bot"] = {} /\ Olds \cap Facts["ban"] = {}
  /\ Olds \cap Owners = {} /\ Olds \cap {Mailbox, Option} = {}
  /\ Migrated \notin Users \cup Facts["room"] \cup Facts["ban"]
  /\ Users \cap {Banlist, AutoBan, Migrated, Option} = {}
  BY FactsDiffer, FactsOf DEF Users, Spams, Olds, Owners

\* What the proofs use of a command: it changes facts of its document; the
\* lists of old versions are dropped with the whole document only; only `users`
\* and the first start are about users.
CmdOK(cmd) ==
  /\ cmd.doc \in Docs /\ cmd.add \subseteq Facts[cmd.doc]
  /\ cmd.drop \subseteq Facts[cmd.doc]
  /\ cmd.add \cap Olds = {} /\ Migrated \notin cmd.drop
  /\ cmd.name \in {"spamlist", "sync", "stop"} => cmd.doc = "room"
  /\ cmd.name = "clear" => cmd.doc # "bot"
  /\ cmd.name = "spamlist" => cmd.drop \subseteq Spams /\ cmd.add \subseteq Spams
  /\ cmd.name = "sync" => cmd.drop = {} /\ cmd.add = {}
  /\ cmd.name = "migrate" => cmd.doc = "bot" /\ cmd.drop = {} /\ cmd.add = {Migrated}
  /\ cmd.name = "initUsers" =>
       cmd.doc = "bot" /\ cmd.drop = {} /\ cmd.add \in (SUBSET Users) \ {{}}
  /\ cmd.name = "users" =>
       cmd.doc = "bot" /\ cmd.drop = Users /\ cmd.add \in (SUBSET Users) \ {{}}
  /\ cmd.name \in {"stop", "clear"} => cmd.add = {}
  /\ cmd.name \notin {"stop", "clear"} => cmd.drop \cap Olds = {}
  /\ cmd.name \notin {"users", "initUsers"} => (cmd.drop \cup cmd.add) \cap Users = {}

\* A command by its parts.
LEMMA CmdFields ==
  ASSUME NEW name, NEW doc, NEW drop, NEW add
  PROVE  /\ Cmd(name, doc, drop, add).name = name
         /\ Cmd(name, doc, drop, add).doc = doc
         /\ Cmd(name, doc, drop, add).drop = drop
         /\ Cmd(name, doc, drop, add).add = add
  BY DEF Cmd

\* Owners change facts of the room.
LEMMA OwnerCommandsOK ==
  ASSUME NEW p \in People, NEW cmd \in OwnerCommands(p)
  PROVE  CmdOK(cmd) /\ cmd.name \in {"set", "setOption", "stop", "spamlist"}
<1> USE FactsOf, FactsApart
<1>1. CASE cmd \in setOption \cup setRelay
  <2>1. \/ cmd = Cmd("setOption", "room", {Option}, {})
        \/ cmd = Cmd("setOption", "room", {Option}, {Option})
        \/ cmd = Cmd("set", "room", {Option}, {})
        \/ cmd = Cmd("set", "room", {Option}, {Option})
    BY <1>1 DEF setOption, setRelay, Switches
  <2> QED BY <2>1, CmdFields, FactsDiffer DEF CmdOK
<1>2. CASE cmd \in setOwner
  <2>1. PICK new \in {{}} \cup {{Owner(q)} : q \in People} :
          cmd = Cmd("setOption", "room", Owners, new)
    BY <1>2 DEF setOwner
  <2>2. new \subseteq Owners
    BY DEF Owners
  <2> QED BY <2>1, <2>2, CmdFields DEF CmdOK
<1>3. CASE cmd \in {setPassword, setMailbox(p), setAliases(p)}
  <2>1. \/ cmd = Cmd("set", "room", {Option}, {Option})
        \/ cmd = Cmd("set", "room", Owners, {Owner(p), Mailbox})
        \/ cmd = Cmd("set", "room", Owners, {Owner(p)})
    BY <1>3 DEF setPassword, setMailbox, setAliases
  <2>2. Owner(p) \in Owners
    BY DEF Owners
  <2> QED BY <2>1, <2>2, CmdFields, FactsDiffer DEF CmdOK
<1>4. CASE cmd \in {runStop, runSpamlistReset}
  <2>1. \/ cmd = Cmd("stop", "room", Facts["room"], {})
        \/ cmd = Cmd("spamlist", "room", Spams, {})
    BY <1>4 DEF runStop, runSpamlistReset
  <2> QED BY <2>1, CmdFields DEF CmdOK
<1>5. ASSUME NEW s \in Senders, cmd = runSpamlistAdd(s) \/ cmd = runSpamlistRemove(s)
      PROVE  CmdOK(cmd) /\ cmd.name = "spamlist"
  <2>1. \/ cmd = Cmd("spamlist", "room", {}, {Spam(s)})
        \/ cmd = Cmd("spamlist", "room", {Spam(s)}, {})
    BY <1>5 DEF runSpamlistAdd, runSpamlistRemove
  <2>2. Spam(s) \in Spams
    BY DEF Spams
  <2> QED BY <2>1, <2>2, CmdFields DEF CmdOK
<1> QED BY <1>1, <1>2, <1>3, <1>4, <1>5 DEF OwnerCommands

\* Admins change any document.
LEMMA AdminCommandsOK ==
  ASSUME NEW cmd \in AdminCommands
  PROVE  CmdOK(cmd) /\ cmd.name \notin {"initUsers", "migrate", "sync"}
<1> USE FactsOf, FactsApart
<1>1. CASE cmd \in runBanlist \cup runBanlistAuto \cup runBanlistAuth \cup runGreylist
  <2>1. PICK fact \in {Banlist, AutoBan, Option} :
          cmd = Cmd("set", "bot", {fact}, {}) \/ cmd = Cmd("set", "bot", {fact}, {fact})
    BY <1>1 DEF runBanlist, runBanlistAuto, runBanlistAuth, runGreylist, Switches
  <2> QED BY <2>1, CmdFields, FactsDiffer DEF CmdOK
<1>2. CASE cmd \in runDKIM \cup {runAdminRoom, runCatchAll}
  <2>1. \/ cmd = Cmd("dkim", "bot", {}, {Option})
        \/ cmd = Cmd("dkim", "bot", {Option}, {Option})
        \/ cmd = Cmd("set", "bot", {Option}, {Option})
    BY <1>2 DEF runDKIM, runAdminRoom, runCatchAll
  <2> QED BY <2>1, CmdFields, FactsDiffer DEF CmdOK
<1>3. CASE cmd \in setOption
  <2>1. \/ cmd = Cmd("setOption", "room", {Option}, {})
        \/ cmd = Cmd("setOption", "room", {Option}, {Option})
    BY <1>3 DEF setOption, Switches
  <2> QED BY <2>1, CmdFields, FactsDiffer DEF CmdOK
<1>4. ASSUME NEW P \in Patterns, cmd = runUsers(P)
      PROVE  CmdOK(cmd) /\ cmd.name = "users"
  <2> DEFINE U == {User(p) : p \in P}
  <2>1. cmd = Cmd("users", "bot", Users, U)
    BY <1>4 DEF runUsers
  <2>2. P \subseteq People /\ P # {}
    BY SettingsAssumption
  <2>3. U \subseteq Users /\ U # {}
    BY <2>2 DEF Users
  <2> HIDE DEF U
  <2> QED BY <2>1, <2>3, CmdFields DEF CmdOK
<1>5. CASE cmd \in {runDelete, runBanlistReset}
  <2>1. \/ cmd = Cmd("clear", "room", Facts["room"], {})
        \/ cmd = Cmd("clear", "ban", Facts["ban"], {})
    BY <1>5 DEF runDelete, runBanlistReset
  <2> QED BY <2>1, CmdFields DEF CmdOK
<1>6. ASSUME NEW a \in Addrs, cmd = runBanlistAdd(a) \/ cmd = runBanlistRemove(a)
      PROVE  CmdOK(cmd) /\ cmd.name = "change"
  <2>1. \/ cmd = Cmd("change", "ban", {}, {Banned(a)})
        \/ cmd = Cmd("change", "ban", {Banned(a)}, {})
    BY <1>6 DEF runBanlistAdd, runBanlistRemove
  <2> QED BY <2>1, CmdFields DEF CmdOK
<1>7. cmd.name \notin {"initUsers", "migrate", "sync"}
  BY <1>4, <1>6, CmdFields
     DEF AdminCommands, runBanlist, runBanlistAuto, runBanlistAuth, runGreylist,
         Switches, runDKIM, setOption, runAdminRoom, runCatchAll, runDelete,
         runBanlistReset
<1> QED BY <1>1, <1>2, <1>3, <1>4, <1>5, <1>6, <1>7 DEF AdminCommands

\* All commands.
LEMMA CommandsOK == \A cmd \in AllCommands \cup {Nothing} : CmdOK(cmd)
<1> SUFFICES ASSUME NEW cmd \in AllCommands \cup {Nothing} PROVE CmdOK(cmd)
  OBVIOUS
<1> USE FactsOf, FactsApart
<1>1. ASSUME NEW a \in Addrs, cmd = BanAuto(a) \/ cmd = BanAuth(a) PROVE CmdOK(cmd)
  <2>1. cmd = Cmd("auto", "ban", {}, {Banned(a)})
    BY <1>1 DEF BanAuto, BanAuth
  <2> QED BY <2>1, CmdFields DEF CmdOK
<1>2. CASE cmd = initBotUsers
  <2> DEFINE U == {User(p) : p \in Local}
  <2>1. cmd = Cmd("initUsers", "bot", {}, U)
    BY <1>2 DEF initBotUsers
  <2>2. U \subseteq Users /\ U # {}
    BY SettingsAssumption DEF Users
  <2> HIDE DEF U
  <2> QED BY <2>1, <2>2, CmdFields DEF CmdOK
<1>3. CASE cmd \in {migrateMautrix015, migrateRoomSettings, Nothing}
  <2>1. \/ cmd = Cmd("migrate", "bot", {}, {Migrated})
        \/ cmd = Cmd("sync", "room", {}, {})
        \/ cmd = Cmd("none", "bot", {}, {})
    BY <1>3 DEF migrateMautrix015, migrateRoomSettings, Nothing
  <2> QED BY <2>1, CmdFields DEF CmdOK
<1> QED BY <1>1, <1>2, <1>3, OwnerCommandsOK, AdminCommandsOK DEF AllCommands

----------------------------------------------------------------------------
(* The invariants *)

\* Facts by document.
Content == {f \in [Docs -> SUBSET AllFacts] : \A d \in Docs : f[d] \subseteq Facts[d]}

\* Document d is in map m, for the cache or for a goroutine.
Holds(m, d) == cache[d] = m \/ \E j \in Jobs : job[j].map = m /\ job[j].cmd.doc = d

\* A map is in use for one document, of which it holds facts.
MapsInv ==
  /\ cache \in [Docs -> Maps \cup {NoMap}]
  /\ heap \in [Maps -> SUBSET AllFacts]
  /\ \A m \in Maps, c, d \in Docs : Holds(m, c) /\ Holds(m, d) => c = d
  /\ \A m \in Maps, d \in Docs : Holds(m, d) => heap[m] \subseteq Facts[d]

\* What a goroutine has in hand, by where it is.
Sound(x) ==
  /\ x \in Job
  /\ x.at = "idle" => x = Idle
  /\ x.map # NoMap => x.at \in {"change", "save"}
  /\ x.at = "change" /\ x.cmd.name # "clear" => x.map # NoMap
  /\ x.at = "save" => x.map # NoMap
  /\ x.at = "get" => x.cmd.name # "clear"
  /\ x.at = "allow" => x.cmd.name = "users"
  /\ x.seen \subseteq Spams
  /\ x.sure \subseteq Meant(x.cmd)
  /\ x.at \notin {"save", "allow"} => x.sure = {}

JobsInv == job \in [Jobs -> Job] /\ \A j \in Jobs : Sound(job[j])

\* The start of the process is alone, until the users are known.
PhaseInv ==
  /\ phase \in {"down", "new", "users", "migrated", "up"}
  /\ phase = "down" => \A j \in Jobs : job[j].at = "idle"
  /\ \A j \in Jobs : job[j].cmd.name = "initUsers" => phase = "new"
  /\ phase = "new" =>
       \A j, k \in Jobs : job[j].at # "idle" =>
         job[j].cmd.name = "initUsers" /\ (job[k].at # "idle" => j = k)

CountInv ==
  /\ allowed \subseteq People
  /\ commands \in 0..MaxCommands /\ faults \in 0..MaxFaults

TypeInv ==
  /\ srv \in Content /\ kept \in Content /\ gone \in Content
  /\ MapsInv /\ JobsInv /\ PhaseInv /\ CountInv

----------------------------------------------------------------------------
(* Memory *)

\* There is always a map to be made: those in use are one per goroutine and one
\* per document.
LEMMA FreshMap == Fresh \in Maps /\ Fresh \notin Live
<1> DEFINE used == {job[j].map : j \in Jobs}
           cached == {cache[d] : d \in Docs}
           n == Cardinality(Jobs)
<1>1. n \in Nat
  BY SettingsAssumption, FS_CardinalityType
<1>2. IsFiniteSet(used) /\ Cardinality(used) <= n /\ Cardinality(used) \in Nat
  <2> DEFINE f == [j \in Jobs |-> job[j].map]
  <2>1. f \in Surjection(Jobs, used)
    BY DEF Surjection
  <2> HIDE DEF f
  <2> QED BY <2>1, SettingsAssumption, FS_Surjection, FS_CardinalityType
<1>3. IsFiniteSet(cached) /\ Cardinality(cached) <= 3 /\ Cardinality(cached) \in Nat
  <2>1. IsFiniteSet({cache["bot"]}) /\ Cardinality({cache["bot"]}) = 1
    BY FS_Singleton
  <2> DEFINE two == {cache["bot"]} \cup {cache["room"]}
             three == two \cup {cache["ban"]}
  <2>2. IsFiniteSet(two) /\ (Cardinality(two) = 1 \/ Cardinality(two) = 2)
    BY <2>1, FS_AddElement
  <2> HIDE DEF two
  <2>3. IsFiniteSet(three) /\ Cardinality(three) \in {1, 2, 3}
    BY <2>2, FS_AddElement
  <2>4. cached = three
    BY DEF two
  <2> QED BY <2>3, <2>4
<1>4. Live = used \cup cached
  BY DEF Live
<1>5. IsFiniteSet(Live) /\ Cardinality(Live) \in Nat /\ Cardinality(Live) <= n + 3
  <2>1. IsFiniteSet(used \cup cached)
    BY <1>2, <1>3, FS_Union
  <2>2. IsFiniteSet(used \cap cached) /\ Cardinality(used \cap cached) \in Nat
    BY <1>2, FS_Intersection, FS_CardinalityType
  <2>3. Cardinality(used \cup cached)
          = Cardinality(used) + Cardinality(cached) - Cardinality(used \cap cached)
    BY <1>2, <1>3, FS_Union
  <2>4. Cardinality(used \cup cached) \in Nat
    BY <2>1, FS_CardinalityType
  <2> HIDE DEF used, cached, n
  <2> QED BY <1>1, <1>2, <1>3, <1>4, <2>1, <2>2, <2>3, <2>4
<1>6. Cardinality(Maps) = n + 4
  <2>1. n + 4 \in Int /\ 1 \in Int /\ ~(1 > n + 4) /\ n + 4 - 1 + 1 = n + 4
    BY <1>1
  <2> HIDE DEF n
  <2>2. Cardinality(1..n + 4) = n + 4
    BY <2>1, FS_Interval
  <2> QED BY <2>2 DEF Maps, n
<1>7. ~(Maps \subseteq Live)
  <2> SUFFICES ASSUME Maps \subseteq Live PROVE FALSE
    OBVIOUS
  <2>1. Cardinality(Maps) <= Cardinality(Live)
    BY <1>5, FS_Subset
  <2> HIDE DEF n
  <2> QED BY <1>1, <1>5, <1>6, <2>1
<1> QED BY <1>7 DEF Fresh

\* NoMap is not a map.
LEMMA NoMapApart == NoMap \notin Maps
<1>1. Cardinality(Jobs) \in Nat
  BY SettingsAssumption, FS_CardinalityType
<1> QED BY <1>1, SettingsAssumption DEF Maps

\* The maps in use are those that some document holds.
LEMMA LiveHolds ==
  ASSUME JobsInv, NEW m \in Maps
  PROVE  m \in Live <=> \E d \in Docs : Holds(m, d)
<1>1. \A j \in Jobs : job[j].cmd.doc \in Docs
  BY CommandsOK DEF JobsInv, Job, CmdOK
<1> QED BY <1>1 DEF Live, Holds

\* The same after a step.
LEMMA LiveHoldsNext ==
  ASSUME JobsInv'
  PROVE  \A m \in Maps : m \in Live' <=> \E d \in Docs : Holds(m, d)'
<1>1. \A j \in Jobs : job'[j].cmd.doc \in Docs
  BY CommandsOK DEF JobsInv, Job, CmdOK
<1> QED BY <1>1 DEF Live, Holds

\* No map passes from a document to another: only m0 is newly in use, for d0.
OnlyNew(m0, d0) ==
  /\ \A m \in Maps, d \in Docs : Holds(m, d)' => Holds(m, d) \/ (m = m0 /\ d = d0)
  /\ \A d \in Docs : Holds(m0, d) => d = d0

\* The maps in use have the content they had, but for m0.
Rewritten(m0, c) ==
  \A m \in Maps, d \in Docs :
    Holds(m, d)' => heap'[m] = IF m = m0 THEN c ELSE heap[m]

\* A new content for one map.
LEMMA MemoryKeeps ==
  ASSUME MapsInv, JobsInv', cache' \in [Docs -> Maps \cup {NoMap}],
         NEW m0 \in Maps, NEW d0 \in Docs, NEW c \in SUBSET Facts[d0],
         NEW h, h = [heap EXCEPT ![m0] = c], Memory(h), OnlyNew(m0, d0)
  PROVE  MapsInv' /\ Rewritten(m0, c)
<1>1. \A m \in Maps : m \in Live' <=> \E d \in Docs : Holds(m, d)'
  BY LiveHoldsNext
<1>2. c \in SUBSET AllFacts
  BY FactsOf
<1>3. heap' \in [Maps -> SUBSET AllFacts]
  BY <1>2 DEF Memory, MapsInv
<1>4. \A m \in Maps, d \in Docs :
        Holds(m, d)' => heap'[m] = IF m = m0 THEN c ELSE heap[m]
  BY <1>1 DEF Memory, MapsInv
<1>5. \A m \in Maps, a, d \in Docs : Holds(m, a)' /\ Holds(m, d)' => a = d
  BY DEF MapsInv, OnlyNew
<1>6. \A m \in Maps, d \in Docs : Holds(m, d)' => heap'[m] \subseteq Facts[d]
  BY <1>4 DEF MapsInv, OnlyNew
<1> QED BY <1>3, <1>4, <1>5, <1>6 DEF MapsInv, Rewritten

\* The same when no content changes.
LEMMA MemoryStays ==
  ASSUME MapsInv, JobsInv, JobsInv', cache' \in [Docs -> Maps \cup {NoMap}],
         Memory(heap),
         \A m \in Maps, d \in Docs : Holds(m, d)' => Holds(m, d)
  PROVE  /\ MapsInv'
         /\ \A m \in Maps, d \in Docs : Holds(m, d)' => heap'[m] = heap[m]
<1>1. \A m \in Maps : m \in Live' <=> \E d \in Docs : Holds(m, d)'
  BY LiveHoldsNext
<1>2. heap' \in [Maps -> SUBSET AllFacts]
  BY DEF Memory, MapsInv
<1>3. \A m \in Maps, d \in Docs : Holds(m, d)' => heap'[m] = heap[m]
  BY <1>1 DEF Memory, MapsInv
<1> QED BY <1>2, <1>3 DEF MapsInv

----------------------------------------------------------------------------
(* Types *)

\* A goroutine that does nothing is sound.
LEMMA IdleSound == Sound(Idle) /\ Idle.at = "idle" /\ Idle.map = NoMap /\ Idle.cmd = Nothing
<1>1. Idle \in Job
  BY DEF Idle, Job
<1> QED BY <1>1, CmdFields DEF Sound, Idle, Nothing

\* The goroutines, when one of them goes on.
LEMMA JobsKeep ==
  ASSUME JobsInv, NEW j \in Jobs, NEW x, Sound(x), job' = [job EXCEPT ![j] = x]
  PROVE  JobsInv' /\ job'[j] = x /\ \A k \in Jobs \ {j} : job'[k] = job[k]
<1>1. x \in Job
  BY DEF Sound
<1> QED BY <1>1 DEF JobsInv

\* The content of one document.
LEMMA ContentKeeps ==
  ASSUME NEW f \in Content, NEW d \in Docs, NEW s \in SUBSET Facts[d]
  PROVE  [f EXCEPT ![d] = s] \in Content
<1>1. s \subseteq AllFacts
  BY FactsOf
<1> QED BY <1>1 DEF Content

\* What a reader gets are facts of the document.
LEMMA ViewFacts ==
  ASSUME srv \in Content, MapsInv, NEW d \in Docs
  PROVE  View(d) \in SUBSET Facts[d]
<1>1. srv[d] \subseteq Facts[d]
  BY DEF Content
<1>2. CASE cache[d] # NoMap
  <2>1. cache[d] \in Maps /\ Holds(cache[d], d)
    BY <1>2 DEF MapsInv, Holds
  <2> QED BY <1>2, <2>1 DEF MapsInv, View
<1> QED BY <1>1, <1>2 DEF View

\* The map of a goroutine holds facts of the document it works on.
LEMMA MapFacts ==
  ASSUME MapsInv, JobsInv, NEW j \in Jobs, job[j].map # NoMap
  PROVE  /\ job[j].map \in Maps /\ job[j].cmd.doc \in Docs /\ CmdOK(job[j].cmd)
         /\ Holds(job[j].map, job[j].cmd.doc)
         /\ heap[job[j].map] \in SUBSET Facts[job[j].cmd.doc]
<1>1. job[j].map \in Maps /\ job[j].cmd \in AllCommands \cup {Nothing}
  BY DEF JobsInv, Job
<1>2. CmdOK(job[j].cmd) /\ job[j].cmd.doc \in Docs
  BY <1>1, CommandsOK DEF CmdOK
<1>3. Holds(job[j].map, job[j].cmd.doc)
  BY DEF Holds
<1> QED BY <1>1, <1>2, <1>3 DEF MapsInv

\* A goroutine starts.
LEMMA BeginKeeps ==
  ASSUME MapsInv, JobsInv, NEW j \in Jobs, NEW cmd \in AllCommands,
         Begin(j, cmd), UNCHANGED memory
  PROVE  /\ MapsInv' /\ JobsInv'
         /\ job[j].at = "idle" /\ job'[j].at # "idle" /\ job'[j].cmd = cmd
         /\ \A k \in Jobs \ {j} : job'[k] = job[k]
         /\ job'[j].at \in {"get", "change"} /\ job'[j].map = NoMap /\ job'[j].sure = {}
<1> DEFINE first == IF cmd.name = "clear" THEN "change" ELSE "get"
           x == [Idle EXCEPT !.at = first, !.cmd = cmd]
<1>1. job[j] = Idle /\ job' = [job EXCEPT ![j] = x]
  BY DEF Begin
<1>2. /\ x.at = first /\ x.cmd = cmd /\ x.map = NoMap /\ x.seen = {} /\ x.sure = {}
      /\ x \in Job
  BY DEF Idle, Job
<1>3. Sound(x)
  BY <1>2 DEF Sound
<1> HIDE DEF x
<1>4. JobsInv' /\ job'[j] = x /\ \A k \in Jobs \ {j} : job'[k] = job[k]
  BY <1>1, <1>3, JobsKeep
<1>5. \A m \in Maps, d \in Docs : Holds(m, d)' => Holds(m, d)
  BY <1>2, <1>4, NoMapApart DEF Holds, memory
<1>6. MapsInv'
  BY <1>5 DEF MapsInv, memory
<1> QED BY <1>1, <1>2, <1>4, <1>6, IdleSound

\* The commands by their names.
LEMMA CommandNames ==
  /\ \A s \in Senders : runSpamlistAdd(s) \in AllCommands /\ runSpamlistAdd(s).name = "spamlist"
  /\ \A a \in Addrs : /\ BanAuto(a) \in AllCommands /\ BanAuto(a).name = "auto"
                      /\ BanAuth(a) \in AllCommands /\ BanAuth(a).name = "auto"
  /\ migrateRoomSettings \in AllCommands /\ migrateRoomSettings.name = "sync"
  /\ migrateMautrix015 \in AllCommands /\ migrateMautrix015.name = "migrate"
  /\ initBotUsers \in AllCommands /\ initBotUsers.name = "initUsers"
  /\ Nothing.name = "none"
<1>1. ASSUME NEW s \in Senders PROVE runSpamlistAdd(s) \in AllCommands
  <2>1. People # {}
    BY SettingsAssumption
  <2> QED BY <2>1 DEF AllCommands, OwnerCommands
<1>2. \A s \in Senders : runSpamlistAdd(s).name = "spamlist"
  BY CmdFields DEF runSpamlistAdd
<1>3. \A a \in Addrs : BanAuto(a).name = "auto" /\ BanAuth(a).name = "auto"
  BY CmdFields DEF BanAuto, BanAuth
<1>4. /\ migrateRoomSettings.name = "sync" /\ migrateMautrix015.name = "migrate"
      /\ initBotUsers.name = "initUsers" /\ Nothing.name = "none"
  BY CmdFields DEF migrateRoomSettings, migrateMautrix015, initBotUsers, Nothing
<1> QED BY <1>1, <1>2, <1>3, <1>4 DEF AllCommands

\* The first start is one command, about the options of the bot.
LEMMA InitUsersOnly ==
  ASSUME NEW cmd \in AllCommands \cup {Nothing}
  PROVE  /\ cmd.name = "initUsers" <=> cmd = initBotUsers
         /\ cmd = initBotUsers => cmd.doc = "bot"
<1>1. initBotUsers.doc = "bot" /\ initBotUsers.name = "initUsers"
  BY CmdFields DEF initBotUsers
<1>2. CASE cmd \in AdminCommands
  BY <1>1, <1>2, AdminCommandsOK
<1>3. ASSUME NEW p \in People, cmd \in OwnerCommands(p) PROVE cmd.name # "initUsers"
  BY <1>3, OwnerCommandsOK
<1> QED BY <1>1, <1>2, <1>3, CommandNames DEF AllCommands

\* A start of a goroutine, whatever starts it: only the start of the process
\* begins with the users, and nothing else runs then.
LEMMA StartStep ==
  ASSUME TypeInv, NEW j \in Jobs, Start(j)
  PROVE  /\ UNCHANGED <<srv, memory, allowed, faults, history>>
         /\ commands' \in 0..MaxCommands
         /\ \E cmd \in AllCommands :
              /\ Begin(j, cmd)
              /\ \/ phase = "down" /\ phase' = "new" /\ cmd.name = "initUsers"
                 \/ phase \notin {"down", "new"} /\ phase' = phase /\ cmd.name # "initUsers"
<1> USE SettingsAssumption DEF TypeInv, CountInv, Counted
<1>1. ASSUME NEW p \in People, Handle(j, p)
      PROVE  \E cmd \in AllCommands : Begin(j, cmd) /\ cmd.name # "initUsers"
  <2>1. PICK cmd \in AdminCommands \cup OwnerCommands(p) : Begin(j, cmd)
    BY <1>1 DEF Handle
  <2>2. cmd \in AllCommands
    BY DEF AllCommands
  <2>3. cmd.name # "initUsers"
    BY OwnerCommandsOK, AdminCommandsOK
  <2> QED BY <2>1, <2>2, <2>3
<1>2. CASE \E p \in People : Handle(j, p)
  BY <1>1, <1>2 DEF Handle
<1>3. CASE HandleReaction(j)
  BY <1>3, CommandNames DEF HandleReaction
<1>4. CASE SessionBans(j)
  BY <1>4, CommandNames DEF SessionBans
<1>5. CASE CronSync(j)
  BY <1>5, CommandNames DEF CronSync
<1>6. CASE Boot(j)
  BY <1>6, CommandNames DEF Boot
<1> QED BY <1>2, <1>3, <1>4, <1>5, <1>6 DEF Start

\* A goroutine that works knows its command.
LEMMA Working ==
  ASSUME JobsInv, NEW j \in Jobs
  PROVE  /\ job[j] \in Job /\ Sound(job[j]) /\ CmdOK(job[j].cmd)
         /\ job[j].cmd.doc \in Docs
  BY CommandsOK DEF JobsInv, Job, CmdOK

\* Starts keep the types.
LEMMA StartTypes ==
  ASSUME TypeInv, NEW j \in Jobs, Start(j)
  PROVE  TypeInv'
<1>1. PICK cmd \in AllCommands :
        /\ Begin(j, cmd)
        /\ \/ phase = "down" /\ phase' = "new" /\ cmd.name = "initUsers"
           \/ phase \notin {"down", "new"} /\ phase' = phase /\ cmd.name # "initUsers"
  BY StartStep
<1>2. /\ UNCHANGED <<srv, memory, allowed, faults, history>>
      /\ commands' \in 0..MaxCommands
  BY StartStep
<1>3. /\ MapsInv' /\ JobsInv' /\ job'[j].at # "idle" /\ job'[j].cmd = cmd
      /\ \A k \in Jobs \ {j} : job'[k] = job[k]
  BY <1>1, <1>2, BeginKeeps DEF TypeInv
<1>4. PhaseInv'
  BY <1>1, <1>3 DEF TypeInv, PhaseInv
<1> QED BY <1>2, <1>3, <1>4 DEF TypeInv, CountInv, history

\* The start of the process goes on as it did.
LEMMA PhaseStays ==
  ASSUME PhaseInv, UNCHANGED phase,
         \A k \in Jobs : job'[k].cmd = job[k].cmd /\ (job'[k].at = "idle" <=> job[k].at = "idle")
  PROVE  PhaseInv'
  BY DEF PhaseInv

\* A handler returns.
LEMMA FinishKeeps ==
  ASSUME JobsInv, PhaseInv, NEW j \in Jobs, job[j].at # "idle", Finish(j)
  PROVE  /\ JobsInv' /\ PhaseInv'
         /\ job'[j] = Idle /\ \A k \in Jobs \ {j} : job'[k] = job[k]
         /\ \/ job[j].cmd.name = "initUsers" /\ phase = "new" /\ phase' = "users"
            \/ job[j].cmd.name # "initUsers" /\ phase \notin {"down", "new"}
                 /\ phase' \notin {"down", "new"}
<1>1. JobsInv' /\ job'[j] = Idle /\ \A k \in Jobs \ {j} : job'[k] = job[k]
  BY IdleSound, JobsKeep DEF Finish
<1>2. Idle.at = "idle" /\ Idle.cmd.name # "initUsers"
  BY IdleSound, CommandNames
<1>3. \/ job[j].cmd.name = "initUsers" /\ phase = "new" /\ phase' = "users"
      \/ job[j].cmd.name # "initUsers" /\ phase \notin {"down", "new"}
           /\ phase' \in {"users", "migrated", "up"}
  BY DEF Finish, PhaseInv
<1>4. \A k \in Jobs : job[k].at = "idle" => job[k].cmd.name # "initUsers"
  BY <1>2 DEF JobsInv, Sound
<1>5. PhaseInv'
  BY <1>1, <1>2, <1>3, <1>4 DEF PhaseInv
<1> QED BY <1>1, <1>3, <1>5

\* Nobody uses a fresh map.
LEMMA FreshFree ==
  ASSUME JobsInv
  PROVE  Fresh \in Maps /\ \A d \in Docs : ~Holds(Fresh, d)
  BY FreshMap, LiveHolds

\* Nobody sees another content than before.
Unseen ==
  /\ \A d \in Docs : View(d)' = View(d)
  /\ \A m \in Maps, d \in Docs : Holds(m, d) /\ Holds(m, d)' => heap'[m] = heap[m]

\* A goroutine has the document.
LEMMA GetTypes ==
  ASSUME TypeInv, NEW j \in Jobs, Get(j)
  PROVE  /\ TypeInv' /\ Unseen /\ UNCHANGED <<srv, history>>
         /\ \A d \in Docs : cache[d] = NoMap \/ cache'[d] = cache[d]
         /\ \A k \in Jobs \ {j} : job'[k] = job[k]
         /\ job[j].at = "get"
         /\ \/ /\ Finish(j) /\ job'[j] = Idle
               /\ \/ job[j].cmd.name = "initUsers" /\ allowed' = UsersOf(View("bot"))
                  \/ job[j].cmd.name # "initUsers" /\ allowed' = allowed
            \/ /\ job'[j].at = "change" /\ job'[j].cmd = job[j].cmd
               /\ job'[j].map = cache'[job[j].cmd.doc] /\ UNCHANGED <<phase, allowed>>
               /\ job[j].cmd.name = "initUsers" => View("bot") \cap Users = {}
<1> DEFINE d0 == job[j].cmd.doc
           m0 == IF cache[d0] = NoMap THEN Fresh ELSE cache[d0]
           x == [job[j] EXCEPT !.at = "change", !.map = m0, !.seen = View(d0) \cap Spams]
<1>1. /\ MapsInv /\ JobsInv /\ PhaseInv /\ CountInv /\ job[j].at = "get"
      /\ job[j] \in Job /\ d0 \in Docs /\ Sound(job[j])
  BY Working DEF TypeInv, Get
<1>2. m0 \in Maps /\ \A d \in Docs : Holds(m0, d) => d = d0
  BY <1>1, FreshFree DEF MapsInv, Holds
<1>3. View(d0) \in SUBSET Facts[d0]
  BY <1>1, ViewFacts DEF TypeInv
<1>4. /\ JobsInv' /\ PhaseInv' /\ allowed' \subseteq People
      /\ \A k \in Jobs \ {j} : job'[k] = job[k]
      /\ \/ /\ Finish(j) /\ job'[j] = Idle
            /\ \/ job[j].cmd.name = "initUsers" /\ allowed' = UsersOf(View("bot"))
               \/ job[j].cmd.name # "initUsers" /\ allowed' = allowed
         \/ /\ job'[j].at = "change" /\ job'[j].cmd = job[j].cmd
            /\ job'[j].map = m0 /\ UNCHANGED <<phase, allowed>>
            /\ job[j].cmd.name = "initUsers" => View("bot") \cap Users = {}
  <2>1. CASE NothingToDo(job[j].cmd, View(d0))
    <3>1. /\ Finish(j)
          /\ allowed' = IF job[j].cmd = initBotUsers THEN UsersOf(View(d0)) ELSE allowed
      BY <2>1 DEF Get
    <3>2. allowed' \subseteq People
      BY <1>1, <3>1 DEF UsersOf, CountInv
    <3>3. \/ job[j].cmd.name = "initUsers" /\ allowed' = UsersOf(View("bot"))
          \/ job[j].cmd.name # "initUsers" /\ allowed' = allowed
      BY <1>1, <3>1, InitUsersOnly DEF Job
    <3>4. /\ JobsInv' /\ PhaseInv' /\ job'[j] = Idle
          /\ \A k \in Jobs \ {j} : job'[k] = job[k]
      BY <1>1, <3>1, FinishKeeps
    <3> QED BY <3>1, <3>2, <3>3, <3>4
  <2>2. CASE ~NothingToDo(job[j].cmd, View(d0))
    <3>1. job' = [job EXCEPT ![j] = x] /\ UNCHANGED <<phase, allowed>>
      BY <1>1, <2>2 DEF Get, JobsInv
    <3>2. /\ x.at = "change" /\ x.map = m0 /\ x.seen = View(d0) \cap Spams
          /\ x.cmd = job[j].cmd /\ x.sure = job[j].sure
      BY <1>1 DEF Job
    <3>3. View(d0) \cap Spams \in SUBSET AllFacts
      BY <1>1, <1>3, FactsOf
    <3>4. x \in Job
      <4> HIDE DEF m0, d0
      <4> QED BY <1>1, <1>2, <3>3 DEF Job
    <3> HIDE DEF x
    <3>5. Sound(x)
      BY <1>1, <1>2, <3>2, <3>4, NoMapApart DEF Sound
    <3>6. JobsInv' /\ job'[j] = x /\ \A k \in Jobs \ {j} : job'[k] = job[k]
      BY <1>1, <3>1, <3>5, JobsKeep
    <3>7. PhaseInv'
      BY <1>1, <3>1, <3>2, <3>6, PhaseStays
    <3>8. job[j].cmd.name = "initUsers" => View("bot") \cap Users = {}
      BY <1>1, <2>2, InitUsersOnly DEF Job, NothingToDo
    <3> QED BY <1>1, <3>1, <3>2, <3>6, <3>7, <3>8 DEF CountInv
  <2> QED BY <2>1, <2>2
<1>5. /\ cache' = [cache EXCEPT ![d0] = m0]
      /\ Memory([heap EXCEPT ![m0] = View(d0)])
      /\ UNCHANGED <<srv, commands, faults, history>>
  BY DEF Get
<1> HIDE DEF x, d0
<1>6. /\ cache' \in [Docs -> Maps \cup {NoMap}] /\ cache'[d0] = m0
      /\ \A d \in Docs \ {d0} : cache'[d] = cache[d]
  BY <1>1, <1>2, <1>5 DEF MapsInv
<1>7. OnlyNew(m0, d0)
  <2> SUFFICES ASSUME NEW m \in Maps, NEW d \in Docs, Holds(m, d)'
               PROVE  Holds(m, d) \/ (m = m0 /\ d = d0)
    BY <1>2 DEF OnlyNew
  <2> HIDE DEF m0
  <2>1. CASE cache'[d] = m
    BY <1>6, <2>1 DEF Holds
  <2>2. ASSUME NEW k \in Jobs \ {j}, job'[k].map = m, job'[k].cmd.doc = d
        PROVE  Holds(m, d)
    BY <1>4, <2>2 DEF Holds
  <2>3. CASE job'[j].map = m /\ job'[j].cmd.doc = d
    <3>1. job'[j].map # NoMap
      BY <2>3, NoMapApart
    <3>2. job'[j].map = m0 /\ job'[j].cmd = job[j].cmd
      BY <1>4, <3>1, IdleSound
    <3> QED BY <2>3, <3>2 DEF d0
  <2> QED BY <2>1, <2>2, <2>3 DEF Holds
<1>8. MapsInv' /\ Rewritten(m0, View(d0))
  <2> DEFINE h == [heap EXCEPT ![m0] = View(d0)]
  <2>1. Memory(h) /\ h = [heap EXCEPT ![m0] = View(d0)]
    BY <1>5
  <2> HIDE DEF m0, h
  <2> QED BY <1>1, <1>2, <1>3, <1>4, <1>6, <1>7, <2>1, MemoryKeeps
<1>9. ASSUME NEW d \in Docs PROVE View(d)' = View(d)
  <2>1. CASE d = d0
    BY <1>1, <1>2, <1>6, <1>8, <2>1, NoMapApart DEF View, Holds, Rewritten
  <2>2. CASE d # d0 /\ cache[d] = NoMap
    BY <1>5, <1>6, <2>2 DEF View
  <2>3. CASE d # d0 /\ cache[d] # NoMap
    <3>1. cache[d] \in Maps /\ Holds(cache[d], d) /\ cache'[d] = cache[d] /\ m0 # cache[d]
      BY <1>1, <1>2, <1>6, <2>3 DEF MapsInv, Holds
    <3>2. \A m \in {cache[d]} : Holds(m, d)'
      BY <1>6, <2>3 DEF Holds
    <3> QED BY <1>8, <2>3, <3>1, <3>2 DEF View, Rewritten
  <2> QED BY <2>1, <2>2, <2>3
<1>10. \A m \in Maps, d \in Docs : Holds(m, d) /\ Holds(m, d)' => heap'[m] = heap[m]
  BY <1>1, <1>2, <1>8, FreshFree DEF View, MapsInv, Rewritten
<1>11. TypeInv' /\ Unseen
  BY <1>1, <1>4, <1>5, <1>8, <1>9, <1>10 DEF TypeInv, CountInv, history, Unseen
<1> QED BY <1>1, <1>4, <1>5, <1>6, <1>11 DEF d0

\* A goroutine gets a new map of its own.
LEMMA NewMapKeeps ==
  ASSUME srv \in Content, MapsInv, JobsInv, NEW j \in Jobs, NEW x, Sound(x),
         job' = [job EXCEPT ![j] = x], x.cmd = job[j].cmd, x.map = Fresh,
         UNCHANGED <<srv, cache>>, Memory([heap EXCEPT ![Fresh] = {}])
  PROVE  /\ MapsInv' /\ JobsInv' /\ Unseen
         /\ job'[j] = x /\ \A k \in Jobs \ {j} : job'[k] = job[k]
         /\ heap'[Fresh] = {}
<1> DEFINE d0 == job[j].cmd.doc
           h == [heap EXCEPT ![Fresh] = {}]
<1>1. JobsInv' /\ job'[j] = x /\ \A k \in Jobs \ {j} : job'[k] = job[k]
  BY JobsKeep
<1>2. d0 \in Docs
  BY Working
<1>3. Fresh \in Maps /\ \A d \in Docs : ~Holds(Fresh, d)
  BY FreshFree
<1>4. OnlyNew(Fresh, d0)
  BY <1>1, <1>3 DEF OnlyNew, Holds
<1>5. Memory(h) /\ h = [heap EXCEPT ![Fresh] = {}] /\ {} \in SUBSET Facts[d0]
  OBVIOUS
<1>6. cache' \in [Docs -> Maps \cup {NoMap}]
  BY DEF MapsInv
<1> HIDE DEF d0, h
<1>7. MapsInv' /\ Rewritten(Fresh, {})
  BY <1>1, <1>2, <1>3, <1>4, <1>5, <1>6, MemoryKeeps
<1>8. \A m \in Maps, d \in Docs : Holds(m, d) /\ Holds(m, d)' => heap'[m] = heap[m]
  BY <1>3, <1>7 DEF Rewritten
<1>9. ASSUME NEW d \in Docs PROVE View(d)' = View(d)
  <2>1. CASE cache[d] = NoMap
    BY <2>1 DEF View
  <2>2. CASE cache[d] # NoMap
    <3>1. \A m \in {cache[d]} : m \in Maps /\ Holds(m, d) /\ Holds(m, d)'
      BY <2>2 DEF Holds, MapsInv
    <3> QED BY <1>8, <2>2, <3>1 DEF View
  <2> QED BY <2>1, <2>2
<1>10. \A m \in {Fresh}, d \in {d0} : Holds(m, d)'
  BY <1>1, <1>2 DEF Holds, d0
<1>11. heap'[Fresh] = {}
  BY <1>2, <1>3, <1>7, <1>10 DEF Rewritten
<1> QED BY <1>1, <1>7, <1>8, <1>9, <1>11 DEF Unseen

\* Goroutines let their maps go.
LEMMA OldMapsKeep ==
  ASSUME srv \in Content, MapsInv, JobsInv, JobsInv', UNCHANGED <<srv, cache>>,
         Memory(heap),
         \A k \in Jobs : \/ job'[k].map = NoMap
                         \/ job'[k].map = job[k].map /\ job'[k].cmd = job[k].cmd
  PROVE  MapsInv' /\ Unseen
<1>1. \A m \in Maps, d \in Docs : Holds(m, d)' => Holds(m, d)
  BY NoMapApart DEF Holds
<1>2. cache' \in [Docs -> Maps \cup {NoMap}]
  BY DEF MapsInv
<1>3. MapsInv' /\ \A m \in Maps, d \in Docs : Holds(m, d)' => heap'[m] = heap[m]
  BY <1>1, <1>2, MemoryStays
<1>4. ASSUME NEW d \in Docs PROVE View(d)' = View(d)
  <2>1. CASE cache[d] = NoMap
    BY <2>1 DEF View
  <2>2. CASE cache[d] # NoMap
    <3>1. \A m \in {cache[d]} : m \in Maps /\ Holds(m, d)'
      BY <2>2 DEF Holds, MapsInv
    <3> QED BY <1>3, <2>2, <3>1 DEF View
  <2> QED BY <2>1, <2>2
<1> QED BY <1>3, <1>4 DEF Unseen

\* Faults are counted.
LEMMA FaultKeeps ==
  ASSUME CountInv, NEW b \in BOOLEAN, Fault(b)
  PROVE  faults' \in 0..MaxFaults
  BY SettingsAssumption DEF CountInv, Fault

\* The document cannot be read, or seems not to be there: the handler ends, or
\* goes on with an empty map.
LEMMA WithoutTypes ==
  ASSUME TypeInv, NEW j \in Jobs, GetFailed(j) \/ GetBanlistDisabled(j)
  PROVE  /\ TypeInv' /\ Unseen
         /\ \A k \in Jobs \ {j} : job'[k] = job[k]
         /\ UNCHANGED <<srv, cache, allowed, history>>
         /\ \/ Finish(j) /\ job[j].at = "get" /\ job[j].cmd.doc = "room"
            \/ job[j].at = "get" /\ job'[j].at = "change" /\ job'[j].apart
                 /\ job'[j].cmd = job[j].cmd /\ job'[j].sure = {} /\ UNCHANGED phase
                 /\ (cache[job[j].cmd.doc] = NoMap \/ job[j].cmd.doc = "ban")
<1>1. /\ MapsInv /\ JobsInv /\ PhaseInv /\ CountInv /\ job[j].at = "get"
      /\ job[j] \in Job /\ Sound(job[j]) /\ CmdOK(job[j].cmd)
  BY Working DEF TypeInv, GetFailed, GetBanlistDisabled
<1>2. UNCHANGED <<srv, allowed, commands, history>> /\ faults' \in 0..MaxFaults
  BY <1>1, FaultKeeps DEF GetFailed, GetBanlistDisabled
<1>3. CASE Finish(j) /\ UNCHANGED memory /\ job[j].cmd.doc = "room"
  <2>1. /\ JobsInv' /\ PhaseInv' /\ job'[j] = Idle
        /\ \A k \in Jobs \ {j} : job'[k] = job[k]
    BY <1>1, <1>3, FinishKeeps
  <2>2. \A m \in Maps, d \in Docs : Holds(m, d)' => Holds(m, d)
    BY <1>3, <2>1, IdleSound, NoMapApart DEF Holds, memory
  <2>3. MapsInv' /\ Unseen
    BY <1>1, <1>2, <1>3, <2>2 DEF MapsInv, Unseen, memory, View
  <2> QED BY <1>1, <1>2, <1>3, <2>1, <2>3 DEF TypeInv, CountInv, history, memory
<1>4. CASE WithEmptyMap(j) /\ UNCHANGED phase
             /\ (cache[job[j].cmd.doc] = NoMap \/ job[j].cmd.doc = "ban")
  <2> DEFINE x == [job[j] EXCEPT !.at = "change", !.map = Fresh, !.apart = TRUE]
  <2>1. job' = [job EXCEPT ![j] = x]
    BY <1>1, <1>4 DEF WithEmptyMap, JobsInv
  <2>2. Fresh \in Maps
    BY FreshMap
  <2>3. /\ x.at = "change" /\ x.map = Fresh /\ x.apart /\ x.cmd = job[j].cmd
        /\ x.sure = job[j].sure /\ x.seen = job[j].seen /\ x \in Job
    BY <1>1, <2>2 DEF Job
  <2> HIDE DEF x
  <2>4. Sound(x) /\ x.sure = {}
    BY <1>1, <2>2, <2>3, NoMapApart DEF Sound
  <2>5. UNCHANGED <<srv, cache>> /\ Memory([heap EXCEPT ![Fresh] = {}])
    BY <1>2, <1>4 DEF WithEmptyMap
  <2>6. /\ MapsInv' /\ JobsInv' /\ Unseen /\ job'[j] = x
        /\ \A k \in Jobs \ {j} : job'[k] = job[k]
    BY <1>1, <2>1, <2>3, <2>4, <2>5, NewMapKeeps DEF TypeInv
  <2>7. PhaseInv'
    BY <1>1, <1>4, <2>3, <2>6, PhaseStays
  <2> QED BY <1>1, <1>2, <1>4, <2>3, <2>4, <2>5, <2>6, <2>7 DEF TypeInv, CountInv, history
<1>5. \/ Finish(j) /\ UNCHANGED memory /\ job[j].cmd.doc = "room"
      \/ /\ WithEmptyMap(j) /\ UNCHANGED phase
         /\ (cache[job[j].cmd.doc] = NoMap \/ job[j].cmd.doc = "ban")
  BY DEF GetFailed, GetBanlistDisabled
<1> QED BY <1>3, <1>4, <1>5

\* What a change touches of a map with the content c.
Touched(cmd, seen, c) ==
  Meant(cmd) \cup (IF cmd.name = "spamlist" /\ seen # c \cap Spams THEN Spams ELSE {})

\* A change by kind of handler.
LEMMA ChangedCases ==
  ASSUME NEW cmd, CmdOK(cmd), NEW seen, NEW c
  PROVE  /\ cmd.name = "spamlist" =>
              Changed(cmd, seen, c) = (c \ Spams) \cup (seen \ cmd.drop) \cup cmd.add
         /\ cmd.name = "sync" =>
              Changed(cmd, seen, c)
                = (c \ Olds) \cup {Spam(s) : s \in {l \in Legacy : Old(l) \in c}}
         /\ cmd.name \notin {"spamlist", "sync"} =>
              Changed(cmd, seen, c) = (c \ cmd.drop) \cup cmd.add
  BY DEF Changed

\* A change leaves a map with facts of its document, and with what it adds.
LEMMA ChangedFacts ==
  ASSUME NEW cmd, CmdOK(cmd), NEW seen \in SUBSET Spams, NEW c \in SUBSET Facts[cmd.doc]
  PROVE  /\ Changed(cmd, seen, c) \in SUBSET Facts[cmd.doc]
         /\ cmd.add \subseteq Changed(cmd, seen, c)
<1>1. {Spam(s) : s \in {l \in Legacy : Old(l) \in c}} \subseteq Spams
  BY SettingsAssumption DEF Spams
<1>2. Spams \subseteq Facts["room"]
  BY FactsOf
<1>3. CASE cmd.name = "spamlist"
  BY <1>2, <1>3, ChangedCases DEF CmdOK
<1>4. CASE cmd.name = "sync"
  BY <1>1, <1>2, <1>4, ChangedCases DEF CmdOK
<1>5. CASE cmd.name \notin {"spamlist", "sync"}
  BY <1>5, ChangedCases DEF CmdOK
<1> QED BY <1>3, <1>4, <1>5

\* What is meant by a handler is about its document.
LEMMA MeantFacts ==
  ASSUME NEW cmd, CmdOK(cmd)
  PROVE  /\ Meant(cmd) \in SUBSET Facts[cmd.doc] /\ Meant(cmd) \in SUBSET AllFacts
         /\ cmd.name = "users" => Meant(cmd) = Users
         /\ cmd.name # "users" => Meant(cmd) \cap Users = {}
<1>1. Facts[cmd.doc] \subseteq AllFacts
  BY FactsOf DEF CmdOK
<1> QED BY <1>1 DEF Meant, CmdOK

\* A handler changes its map: what it does to the goroutines.
LEMMA TouchJobs ==
  ASSUME JobsInv, NEW j \in Jobs, job[j].at = "change", job[j].cmd.name \notin {"stop", "clear"},
         NEW touched, Touch(j, touched)
  PROVE  /\ JobsInv'
         /\ \A k \in Jobs : /\ job'[k].cmd = job[k].cmd /\ job'[k].map = job[k].map
                            /\ job'[k].apart = job[k].apart
         /\ job'[j].at = "save"
         /\ job'[j].sure = Meant(job[j].cmd)
              \ UNION {Meant(job[k].cmd) : k \in {k \in Jobs \ {j} : job[k].at \in {"save", "allow"}}}
         /\ \A k \in Jobs \ {j} : job'[k].at = job[k].at /\ job'[k].sure = job[k].sure \ touched
<1> DEFINE S == Meant(job[j].cmd)
              \ UNION {Meant(job[k].cmd) : k \in {k \in Jobs \ {j} : job[k].at \in {"save", "allow"}}}
           x == [job[j] EXCEPT !.at = "save", !.sure = S]
           y(k) == [job[k] EXCEPT !.sure = @ \ touched]
<1>1. job' = [k \in Jobs |-> IF k = j THEN x ELSE y(k)]
  BY DEF Touch
<1>2. S \in SUBSET AllFacts /\ S \subseteq Meant(job[j].cmd)
  BY Working, MeantFacts
<1>3. ASSUME NEW k \in Jobs PROVE job[k] \in Job /\ Sound(job[k])
  BY Working
<1> HIDE DEF S
<1>4. /\ x \in Job /\ x.at = "save" /\ x.sure = S /\ x.cmd = job[j].cmd
      /\ x.map = job[j].map /\ x.seen = job[j].seen /\ x.apart = job[j].apart
  BY <1>2, <1>3 DEF Job
<1>5. Sound(x)
  <2> HIDE DEF x
  <2> QED BY <1>2, <1>3, <1>4 DEF Sound
<1>6. ASSUME NEW k \in Jobs
      PROVE  /\ Sound(y(k)) /\ y(k).at = job[k].at /\ y(k).sure = job[k].sure \ touched
             /\ y(k).cmd = job[k].cmd /\ y(k).map = job[k].map /\ y(k).apart = job[k].apart
  <2>1. /\ y(k) \in Job /\ y(k).at = job[k].at /\ y(k).sure = job[k].sure \ touched
        /\ y(k).cmd = job[k].cmd /\ y(k).map = job[k].map /\ y(k).seen = job[k].seen
        /\ y(k).apart = job[k].apart
    BY <1>3 DEF Job
  <2>2. job[k].sure = {} => y(k) = job[k]
    BY <1>3 DEF Job
  <2>3. job[k] = Idle => job[k].sure = {}
    BY DEF Idle
  <2> HIDE DEF y
  <2>4. Sound(y(k))
    BY <1>3, <2>1, <2>2, <2>3 DEF Sound
  <2> QED BY <2>1, <2>4
<1> HIDE DEF x, y
<1>7. job'[j] = x /\ \A k \in Jobs \ {j} : job'[k] = y(k)
  BY <1>1
<1>8. JobsInv'
  BY <1>1, <1>5, <1>6 DEF JobsInv, Sound
<1> QED BY <1>4, <1>6, <1>7, <1>8 DEF S

\* A handler changes its map.
LEMMA ChangeTypes ==
  ASSUME TypeInv, NEW j \in Jobs, Change(j)
  PROVE  /\ TypeInv' /\ UNCHANGED <<srv, cache, phase, allowed>>
         /\ Touch(j, Touched(job[j].cmd, job[j].seen, heap[job[j].map]))
         /\ Rewritten(job[j].map, Changed(job[j].cmd, job[j].seen, heap[job[j].map]))
<1> DEFINE cmd == job[j].cmd
           m == job[j].map
           c == Changed(cmd, job[j].seen, heap[m])
           h == [heap EXCEPT ![m] = c]
           touched == Touched(cmd, job[j].seen, heap[m])
<1>1. /\ job[j].at = "change" /\ cmd.name \notin {"stop", "clear"}
      /\ Touch(j, touched) /\ UNCHANGED <<srv, cache, phase, allowed, commands, faults>>
      /\ Memory(h)
  BY DEF Change, Touched
<1>2. MapsInv /\ JobsInv /\ PhaseInv /\ CountInv /\ Sound(job[j])
  BY Working DEF TypeInv
<1>3. m # NoMap
  BY <1>1, <1>2 DEF Sound
<1>4. /\ m \in Maps /\ cmd.doc \in Docs /\ CmdOK(cmd) /\ Holds(m, cmd.doc)
      /\ heap[m] \in SUBSET Facts[cmd.doc]
  BY <1>2, <1>3, MapFacts
<1>5. c \in SUBSET Facts[cmd.doc]
  BY <1>2, <1>4, ChangedFacts DEF Sound
<1>6. JobsInv' /\ \A k \in Jobs : job'[k].cmd = job[k].cmd /\ job'[k].map = job[k].map
  BY <1>1, <1>2, TouchJobs
<1>7. PhaseInv'
  <2>1. \A k \in Jobs : job'[k].at = "idle" <=> job[k].at = "idle"
    BY <1>1, <1>2, TouchJobs
  <2> QED BY <1>1, <1>2, <1>6, <2>1, PhaseStays
<1>8. OnlyNew(m, cmd.doc)
  <2>1. \A d \in Docs : Holds(m, d) => d = cmd.doc
    BY <1>2, <1>4 DEF MapsInv
  <2>2. ASSUME NEW p \in Maps, NEW d \in Docs, Holds(p, d)' PROVE Holds(p, d)
    BY <1>1, <1>6, <2>2 DEF Holds
  <2> QED BY <2>1, <2>2 DEF OnlyNew
<1>9. cache' \in [Docs -> Maps \cup {NoMap}] /\ h = [heap EXCEPT ![m] = c]
  BY <1>1, <1>2 DEF MapsInv
<1>10. MapsInv' /\ Rewritten(m, c)
  <2> DEFINE d0 == cmd.doc
  <2> HIDE DEF c, m, h, d0
  <2> QED BY <1>1, <1>2, <1>4, <1>5, <1>6, <1>8, <1>9, MemoryKeeps DEF d0
<1>11. kept' \in Content /\ gone' \in Content
  <2>1. kept[cmd.doc] \subseteq Facts[cmd.doc] /\ gone[cmd.doc] \subseteq Facts[cmd.doc]
    BY <1>4 DEF TypeInv, Content
  <2>2. /\ kept' = [kept EXCEPT ![cmd.doc] = kept[cmd.doc] \ touched]
        /\ gone' = [gone EXCEPT ![cmd.doc] = gone[cmd.doc] \ touched]
    BY <1>1 DEF Touch
  <2> QED BY <1>4, <2>1, <2>2, ContentKeeps DEF TypeInv
<1> QED BY <1>1, <1>2, <1>6, <1>7, <1>10, <1>11 DEF TypeInv, CountInv

\* stop, delete and banlist:reset go on with a new map.
LEMMA RenewTypes ==
  ASSUME TypeInv, NEW j \in Jobs, Renew(j)
  PROVE  /\ TypeInv' /\ Unseen /\ UNCHANGED <<srv, cache, phase, allowed, history>>
         /\ \A k \in Jobs \ {j} : job'[k] = job[k]
         /\ job[j].at = "change" /\ job[j].cmd.name \in {"stop", "clear"}
         /\ job'[j].at = "save" /\ job'[j].cmd = job[j].cmd
<1> DEFINE x == [job[j] EXCEPT !.at = "save", !.map = Fresh, !.sure = Meant(job[j].cmd)]
<1>1. /\ MapsInv /\ JobsInv /\ PhaseInv /\ CountInv
      /\ job[j] \in Job /\ Sound(job[j]) /\ CmdOK(job[j].cmd)
  BY Working DEF TypeInv
<1>2. /\ job[j].at = "change" /\ job[j].cmd.name \in {"stop", "clear"}
      /\ UNCHANGED <<srv, cache, phase, allowed, commands, faults, history>>
      /\ Memory([heap EXCEPT ![Fresh] = {}])
  BY DEF Renew
<1>3. job' = [job EXCEPT ![j] = x]
  BY <1>1 DEF Renew, JobsInv
<1>4. Fresh \in Maps /\ Meant(job[j].cmd) \in SUBSET AllFacts
  BY <1>1, FreshMap, MeantFacts
<1>5. /\ x.at = "save" /\ x.map = Fresh /\ x.sure = Meant(job[j].cmd)
      /\ x.cmd = job[j].cmd /\ x.seen = job[j].seen /\ x \in Job
  BY <1>1, <1>4 DEF Job
<1> HIDE DEF x
<1>6. Sound(x)
  BY <1>1, <1>4, <1>5, NoMapApart DEF Sound
<1>7. /\ MapsInv' /\ JobsInv' /\ Unseen /\ job'[j] = x
      /\ \A k \in Jobs \ {j} : job'[k] = job[k]
  BY <1>1, <1>2, <1>3, <1>5, <1>6, NewMapKeeps DEF TypeInv
<1>8. PhaseInv'
  BY <1>1, <1>2, <1>5, <1>7, PhaseStays
<1> QED BY <1>1, <1>2, <1>5, <1>7, <1>8 DEF TypeInv, CountInv, history

\* A handler ends without saving, or at the end of `users`.
LEMMA EndTypes ==
  ASSUME TypeInv, NEW j \in Jobs, BanlistAbandoned(j) \/ SetBanlistDisabled(j) \/ Allow(j)
  PROVE  /\ TypeInv' /\ Unseen /\ UNCHANGED <<srv, cache>> /\ Finish(j)
         /\ job[j].at # "idle" /\ job[j].cmd.name # "initUsers"
         /\ job'[j] = Idle /\ \A k \in Jobs \ {j} : job'[k] = job[k]
<1>1. /\ MapsInv /\ JobsInv /\ PhaseInv /\ CountInv
      /\ job[j] \in Job /\ Sound(job[j]) /\ CmdOK(job[j].cmd)
  BY Working DEF TypeInv
<1>2. /\ job[j].at \in {"save", "allow"} /\ Finish(j)
      /\ UNCHANGED <<srv, cache, commands>>
  BY DEF BanlistAbandoned, SetBanlistDisabled, Allow, memory
<1>3. /\ JobsInv' /\ PhaseInv' /\ job'[j] = Idle
      /\ \A k \in Jobs \ {j} : job'[k] = job[k]
  BY <1>1, <1>2, FinishKeeps
<1>4. faults' \in 0..MaxFaults
  BY <1>1, FaultKeeps DEF BanlistAbandoned, SetBanlistDisabled, Allow, CountInv
<1>5. MapsInv' /\ Unseen
  <2>1. CASE Memory(heap)
    <3>1. \A k \in Jobs : \/ job'[k].map = NoMap
                          \/ job'[k].map = job[k].map /\ job'[k].cmd = job[k].cmd
      BY <1>3, IdleSound
    <3> QED BY <1>1, <1>2, <1>3, <2>1, <3>1, OldMapsKeep DEF TypeInv
  <2>2. CASE UNCHANGED memory
    <3>1. \A m \in Maps, d \in Docs : Holds(m, d)' => Holds(m, d)
      BY <1>2, <1>3, IdleSound, NoMapApart DEF Holds
    <3> QED BY <1>1, <1>2, <2>2, <3>1 DEF MapsInv, Unseen, memory, View
  <2> QED BY <2>1, <2>2 DEF BanlistAbandoned, SetBanlistDisabled, Allow
<1>6. /\ kept' \in Content /\ gone' \in Content /\ allowed' \subseteq People
      /\ job[j].cmd.name # "initUsers"
  <2>1. CASE BanlistAbandoned(j) \/ SetBanlistDisabled(j)
    BY <1>1, <2>1 DEF BanlistAbandoned, SetBanlistDisabled, TypeInv, CountInv, history, CmdOK
  <2>2. CASE Allow(j)
    <3> DEFINE cmd == job[j].cmd
               sure == IF job[j].apart THEN {} ELSE job[j].sure
    <3>1. cmd.name = "users" /\ cmd.doc = "bot"
      BY <1>1, <2>2 DEF Allow, Sound, CmdOK
    <3>2. Confirm("bot", cmd, sure, kept["bot"], gone["bot"]) /\ allowed' = UsersOf(cmd.add)
      BY <2>2 DEF Allow
    <3>3. /\ kept["bot"] \cup (sure \cap cmd.add) \in SUBSET Facts["bot"]
          /\ gone["bot"] \cup (sure \cap (cmd.drop \ cmd.add)) \in SUBSET Facts["bot"]
      BY <1>1, <3>1 DEF CmdOK, TypeInv, Content
    <3> HIDE DEF cmd, sure
    <3>4. kept' \in Content /\ gone' \in Content
      BY <3>2, <3>3, ContentKeeps DEF Confirm, TypeInv
    <3> QED BY <3>1, <3>2, <3>4 DEF UsersOf, cmd
  <2> QED BY <2>1, <2>2
<1> QED BY <1>1, <1>2, <1>3, <1>4, <1>5, <1>6 DEF TypeInv, CountInv

\* The process ends.
LEMMA StoppedKeeps ==
  ASSUME Stopped
  PROVE  /\ MapsInv' /\ JobsInv' /\ PhaseInv'
         /\ \A d \in Docs : View(d)' = srv'[d] /\ cache'[d] = NoMap
         /\ \A j \in Jobs : job'[j] = Idle
<1>1. /\ job' = [j \in Jobs |-> Idle] /\ heap' = [m \in Maps |-> {}]
      /\ cache' = [d \in Docs |-> NoMap] /\ phase' = "down"
  BY DEF Stopped
<1>2. JobsInv' /\ \A j \in Jobs : job'[j] = Idle
  BY <1>1, IdleSound DEF JobsInv, Sound
<1>3. PhaseInv'
  BY <1>1, <1>2, IdleSound, CommandNames DEF PhaseInv
<1>4. \A m \in Maps, d \in Docs : ~Holds(m, d)'
  BY <1>1, <1>2, IdleSound, NoMapApart DEF Holds
<1>5. MapsInv'
  BY <1>1, <1>4 DEF MapsInv
<1> QED BY <1>1, <1>2, <1>3, <1>5 DEF View

\* Goroutines that are now apart.
LEMMA PartedKeeps ==
  ASSUME JobsInv, NEW P, \A k \in P \cap Jobs : job[k].at # "idle"
  PROVE  /\ Parted(P) \in [Jobs -> Job]
         /\ \A k \in Jobs :
              /\ Sound(Parted(P)[k]) /\ Parted(P)[k].at = job[k].at
              /\ Parted(P)[k].cmd = job[k].cmd /\ Parted(P)[k].map = job[k].map
              /\ Parted(P)[k].sure = job[k].sure
              /\ k \in P => Parted(P)[k].apart
              /\ k \notin P => Parted(P)[k] = job[k]
<1> DEFINE y(k) == [job[k] EXCEPT !.apart = TRUE]
<1>1. ASSUME NEW k \in Jobs
      PROVE  /\ y(k) \in Job /\ y(k).at = job[k].at /\ y(k).sure = job[k].sure
             /\ y(k).cmd = job[k].cmd /\ y(k).map = job[k].map /\ y(k).seen = job[k].seen
             /\ y(k).apart
  <2>1. job[k] \in Job
    BY DEF JobsInv
  <2> QED BY <2>1 DEF Job
<1>2. Parted(P) = [k \in Jobs |-> IF k \in P THEN y(k) ELSE job[k]]
  BY DEF Parted
<1> HIDE DEF y
<1>3. ASSUME NEW k \in Jobs, k \in P
      PROVE  Sound(y(k))
  BY <1>1, <1>3 DEF JobsInv, Sound
<1> QED BY <1>1, <1>2, <1>3 DEF JobsInv

\* The cache loses a document, or the process ends.
LEMMA LossTypes ==
  ASSUME TypeInv, Crash \/ \E d \in Docs : Evict(d)
  PROVE  /\ TypeInv' /\ UNCHANGED <<srv, allowed, history>>
         /\ \A d \in Docs : \/ cache'[d] = NoMap /\ View(d)' = srv[d]
                            \/ cache'[d] = cache[d] /\ View(d)' = View(d)
         /\ \A m \in Maps, d \in Docs : Holds(m, d)' => heap'[m] = heap[m]
         /\ \/ phase' = "down" /\ \A k \in Jobs : job'[k] = Idle
            \/ /\ UNCHANGED phase
               /\ \A k \in Jobs :
                    /\ job'[k].at = job[k].at /\ job'[k].cmd = job[k].cmd
                    /\ job'[k].map = job[k].map /\ job'[k].sure = job[k].sure
                    /\ job'[k].apart \/ job'[k] = job[k]
                    /\ job[k].map # NoMap =>
                         job'[k].apart \/ cache'[job[k].cmd.doc] = cache[job[k].cmd.doc]
<1>1. /\ MapsInv /\ JobsInv /\ PhaseInv /\ CountInv
  BY DEF TypeInv
<1>2. CASE Crash
  <2>1. Stopped /\ UNCHANGED <<srv, allowed, commands, history>> /\ faults' \in 0..MaxFaults
    BY <1>1, <1>2, FaultKeeps DEF Crash, Stopped
  <2>2. /\ MapsInv' /\ JobsInv' /\ PhaseInv' /\ phase' = "down"
        /\ \A d \in Docs : View(d)' = srv'[d] /\ cache'[d] = NoMap
        /\ \A j \in Jobs : job'[j] = Idle
    BY <2>1, StoppedKeeps DEF Stopped
  <2>3. \A m \in Maps, d \in Docs : ~Holds(m, d)'
    BY <2>2, IdleSound, NoMapApart DEF Holds
  <2> QED BY <1>1, <2>1, <2>2, <2>3 DEF TypeInv, CountInv, history
<1>3. ASSUME NEW d0 \in Docs, Evict(d0)
      PROVE  /\ TypeInv' /\ UNCHANGED <<srv, allowed, history, phase>>
             /\ \A d \in Docs : \/ cache'[d] = NoMap /\ View(d)' = srv[d]
                                \/ cache'[d] = cache[d] /\ View(d)' = View(d)
             /\ \A m \in Maps, d \in Docs : Holds(m, d)' => heap'[m] = heap[m]
             /\ \A k \in Jobs :
                  /\ job'[k].at = job[k].at /\ job'[k].cmd = job[k].cmd
                  /\ job'[k].map = job[k].map /\ job'[k].sure = job[k].sure
                  /\ job'[k].apart \/ job'[k] = job[k]
                  /\ job[k].map # NoMap =>
                       job'[k].apart \/ cache'[job[k].cmd.doc] = cache[job[k].cmd.doc]
  <2> DEFINE P == {j \in Holders(d0) : job[j].at # "allow"}
  <2>1. /\ cache' = [cache EXCEPT ![d0] = NoMap] /\ Memory(heap)
        /\ UNCHANGED <<srv, phase, allowed, commands, history>> /\ faults' \in 0..MaxFaults
        /\ job' = Parted(P)
    BY <1>1, <1>3, FaultKeeps DEF Evict
  <2>2. /\ \A k \in P \cap Jobs : job[k].at # "idle"
        /\ \A k \in Jobs : job[k].map # NoMap /\ job[k].cmd.doc = d0 => k \in P
    BY <1>1 DEF Holders, JobsInv, Sound
  <2> HIDE DEF P
  <2>3. /\ job' \in [Jobs -> Job]
        /\ \A k \in Jobs : /\ Sound(job'[k]) /\ job'[k].at = job[k].at
                           /\ job'[k].cmd = job[k].cmd /\ job'[k].map = job[k].map
                           /\ job'[k].sure = job[k].sure
                           /\ k \in P => job'[k].apart
                           /\ k \notin P => job'[k] = job[k]
    BY <1>1, <2>1, <2>2, PartedKeeps
  <2>4. JobsInv' /\ PhaseInv'
    BY <1>1, <2>1, <2>3, PhaseStays DEF JobsInv
  <2>5. /\ cache' \in [Docs -> Maps \cup {NoMap}] /\ cache'[d0] = NoMap
        /\ \A d \in Docs \ {d0} : cache'[d] = cache[d]
    BY <1>1, <2>1 DEF MapsInv
  <2>6. \A m \in Maps, d \in Docs : Holds(m, d)' => Holds(m, d)
    BY <2>3, <2>5, NoMapApart DEF Holds
  <2>7. MapsInv' /\ \A m \in Maps, d \in Docs : Holds(m, d)' => heap'[m] = heap[m]
    BY <1>1, <2>1, <2>4, <2>5, <2>6, MemoryStays
  <2>8. ASSUME NEW d \in Docs
        PROVE  \/ cache'[d] = NoMap /\ View(d)' = srv[d]
               \/ cache'[d] = cache[d] /\ View(d)' = View(d)
    <3>1. CASE cache'[d] = NoMap
      BY <2>1, <3>1 DEF View
    <3>2. CASE cache'[d] # NoMap
      <4>1. \A m \in {cache[d]} : m \in Maps /\ Holds(m, d)'
        BY <1>1, <2>5, <3>2 DEF Holds, MapsInv
      <4> QED BY <2>5, <2>7, <3>2, <4>1 DEF View
    <3> QED BY <3>1, <3>2
  <2>9. \A k \in Jobs : job[k].map # NoMap =>
          job'[k].apart \/ cache'[job[k].cmd.doc] = cache[job[k].cmd.doc]
    BY <1>1, <2>2, <2>3, <2>5, Working
  <2> QED BY <1>1, <2>1, <2>3, <2>4, <2>7, <2>8, <2>9 DEF TypeInv, CountInv, history
<1> QED BY <1>2, <1>3

\* The parts of a set: whether the others lose the document that they see, who
\* is apart then, what the answer confirms, and what stays confirmed.
Lost(j) == job[j].apart \/ job[j].cmd.name \in {"stop", "clear"}

Partners(j) == IF Lost(j) THEN Parted(Holders(job[j].cmd.doc) \ {j}) ELSE job

Confirmed(j, failed) ==
  IF failed \/ job[j].cmd.name = "users" THEN {}
  ELSE {f \in job[j].sure : f \in job[j].cmd.add \/ f \notin Norm(heap[job[j].map])}

StillKept(j) ==
  IF Lost(j) THEN kept[job[j].cmd.doc] \cap Norm(heap[job[j].map])
             ELSE kept[job[j].cmd.doc]

StillGone(j) ==
  IF Lost(j)
  THEN gone[job[j].cmd.doc]
         \ (Norm(heap[job[j].map])
              \cup (IF Users \cap heap[job[j].map] = {} THEN Users ELSE {}))
  ELSE gone[job[j].cmd.doc]

Answer(j, applied, failed) ==
  /\ applied \/ failed
  /\ Fault(failed)
  /\ srv' = IF applied THEN [srv EXCEPT ![job[j].cmd.doc] = heap[job[j].map]] ELSE srv
  /\ AfterSet(j, failed, Partners(j))
  /\ Confirm(job[j].cmd.doc, job[j].cmd, Confirmed(j, failed), StillKept(j), StillGone(j))

\* A set is one of its answers.
LEMMA SetAnswer ==
  ASSUME NEW j \in Jobs, Set(j)
  PROVE  /\ job[j].at = "save" /\ UNCHANGED commands
         /\ \E applied, failed \in BOOLEAN : Answer(j, applied, failed)
  BY DEF Set, Answer, Partners, Confirmed, StillKept, StillGone, Lost

\* The goroutines after a set that does not end the process.
LEMMA PartnersKeep ==
  ASSUME JobsInv, NEW j \in Jobs
  PROVE  /\ Partners(j) \in [Jobs -> Job]
         /\ Partners(j)[j] = job[j]
         /\ \A k \in Jobs :
              /\ Sound(Partners(j)[k]) /\ Partners(j)[k].at = job[k].at
              /\ Partners(j)[k].cmd = job[k].cmd /\ Partners(j)[k].map = job[k].map
              /\ Partners(j)[k].sure = job[k].sure
              /\ Partners(j)[k].apart \/ Partners(j)[k] = job[k]
              /\ Lost(j) /\ k # j /\ k \in Holders(job[j].cmd.doc) => Partners(j)[k].apart
<1> DEFINE P == Holders(job[j].cmd.doc) \ {j}
<1>1. CASE Lost(j)
  <2>1. \A k \in P \cap Jobs : job[k].at # "idle"
    BY DEF Holders
  <2>2. Partners(j) = Parted(P) /\ j \notin P
    BY <1>1 DEF Partners
  <2>3. \A k \in Jobs : k # j /\ k \in Holders(job[j].cmd.doc) => k \in P
    OBVIOUS
  <2> HIDE DEF P
  <2> QED BY <2>1, <2>2, <2>3, PartedKeeps
<1>2. CASE ~Lost(j)
  BY <1>2 DEF Partners, JobsInv
<1> QED BY <1>1, <1>2

\* What the others have after a set of goroutine j, and what everybody sees.
Replaced(j) ==
  /\ cache'[job[j].cmd.doc] = job[j].map
  /\ \A d \in Docs \ {job[j].cmd.doc} : cache'[d] = cache[d] /\ View(d)' = View(d)
  /\ \A d \in {job[j].cmd.doc} : View(d)' = heap[job[j].map]
  /\ \A m \in Maps, d \in Docs : Holds(m, d) /\ Holds(m, d)' => heap'[m] = heap[m]
  /\ \A k \in Jobs \ {j} :
       /\ job'[k].at = job[k].at /\ job'[k].cmd = job[k].cmd
       /\ job'[k].map = job[k].map /\ job'[k].sure = job[k].sure
       /\ job'[k].apart \/ job'[k] = job[k]
       /\ Lost(j) /\ k \in Holders(job[j].cmd.doc) => job'[k].apart

\* The content on the homeserver and the history after a set.
LEMMA AnswerContent ==
  ASSUME TypeInv, NEW j \in Jobs, job[j].at = "save",
         NEW applied, NEW failed, Answer(j, applied, failed)
  PROVE  srv' \in Content /\ kept' \in Content /\ gone' \in Content
<1> DEFINE cmd == job[j].cmd
           sure == Confirmed(j, failed)
<1>1. /\ cmd.doc \in Docs /\ CmdOK(cmd) /\ heap[job[j].map] \in SUBSET Facts[cmd.doc]
  BY Working, MapFacts DEF TypeInv, Sound
<1>2. srv' \in Content
  BY <1>1, ContentKeeps DEF Answer, TypeInv
<1>3. StillKept(j) \subseteq kept[cmd.doc] /\ StillGone(j) \subseteq gone[cmd.doc]
  BY DEF StillKept, StillGone
<1>4. kept[cmd.doc] \subseteq Facts[cmd.doc] /\ gone[cmd.doc] \subseteq Facts[cmd.doc]
  BY <1>1 DEF TypeInv, Content
<1>5. Confirm(cmd.doc, cmd, sure, StillKept(j), StillGone(j))
  BY DEF Answer
<1> HIDE DEF sure
<1>6. /\ StillKept(j) \cup (sure \cap cmd.add) \in SUBSET Facts[cmd.doc]
      /\ StillGone(j) \cup (sure \cap (cmd.drop \ cmd.add)) \in SUBSET Facts[cmd.doc]
  BY <1>1, <1>3, <1>4 DEF CmdOK
<1> HIDE DEF cmd
<1>7. kept' \in Content /\ gone' \in Content
  BY <1>1, <1>5, <1>6, ContentKeeps DEF Confirm, TypeInv
<1> QED BY <1>2, <1>7

\* After a set the process has ended, or `users` goes on, or the handler returns.
LEMMA AnswerCases ==
  ASSUME TypeInv, NEW j \in Jobs, job[j].at = "save",
         NEW applied, NEW failed, Answer(j, applied, failed)
  PROVE  \/ Stopped
         \/ /\ JobsInv' /\ PhaseInv' /\ allowed' \subseteq People
            /\ cache' = [cache EXCEPT ![job[j].cmd.doc] = job[j].map] /\ Memory(heap)
            /\ \A k \in Jobs \ {j} : job'[k] = Partners(j)[k]
            /\ job'[j].map = NoMap /\ ~job'[j].apart
            /\ \/ /\ job[j].cmd.name = "users" /\ job'[j].at = "allow"
                  /\ job'[j].cmd = job[j].cmd
                  /\ job'[j].sure = IF failed THEN {} ELSE job[j].sure
                  /\ UNCHANGED <<phase, allowed>>
               \/ /\ job[j].cmd.name # "users" /\ job'[j] = Idle
                  /\ \/ /\ job[j].cmd.name = "initUsers" /\ phase = "new" /\ phase' = "users"
                        /\ allowed' = UsersOf(heap[job[j].map])
                     \/ /\ job[j].cmd.name # "initUsers" /\ phase \notin {"down", "new"}
                        /\ phase' \notin {"down", "new"} /\ allowed' = allowed
<1> DEFINE cmd == job[j].cmd
           jobs == Partners(j)
           x == [job[j] EXCEPT !.at = "allow", !.map = NoMap,
                               !.sure = IF failed THEN {} ELSE @, !.apart = FALSE]
<1>1. /\ JobsInv /\ PhaseInv /\ CountInv /\ job[j] \in Job /\ Sound(job[j]) /\ CmdOK(cmd)
  BY Working DEF TypeInv
<1>2. /\ jobs \in [Jobs -> Job] /\ jobs[j] = job[j]
      /\ \A k \in Jobs : /\ Sound(jobs[k]) /\ jobs[k].at = job[k].at /\ jobs[k].cmd = job[k].cmd
  BY <1>1, PartnersKeep
<1>3. AfterSet(j, failed, jobs)
  BY DEF Answer
<1> HIDE DEF jobs
<1>4. CASE failed /\ cmd.name \in {"initUsers", "migrate"}
  BY <1>3, <1>4 DEF AfterSet
<1>5. CASE cmd.name = "users"
  <2>1. /\ job' = [jobs EXCEPT ![j] = x] /\ UNCHANGED <<phase, allowed>> /\ Memory(heap)
        /\ cache' = [cache EXCEPT !["bot"] = job[j].map] /\ cmd.doc = "bot"
    <3>1. cmd.doc = "bot"
      BY <1>1, <1>5 DEF CmdOK
    <3>2. /\ job' = [jobs EXCEPT ![j].at = "allow", ![j].map = NoMap,
                                 ![j].sure = IF failed THEN {} ELSE @,
                                 ![j].apart = FALSE]
          /\ cache' = [cache EXCEPT !["bot"] = job[j].map] /\ Memory(heap)
          /\ UNCHANGED <<phase, allowed>>
      BY <1>3, <1>5 DEF AfterSet
    <3>3. job' = [jobs EXCEPT ![j] = x]
      BY <1>2, <3>2
    <3> QED BY <3>1, <3>2, <3>3
  <2>2. /\ x \in Job /\ x.at = "allow" /\ x.map = NoMap /\ x.cmd = cmd /\ ~x.apart
        /\ x.sure = (IF failed THEN {} ELSE job[j].sure) /\ x.seen = job[j].seen
    BY <1>1 DEF Job
  <2> HIDE DEF x
  <2>3. Sound(x)
    BY <1>1, <1>5, <2>2 DEF Sound
  <2>4. job'[j] = x /\ \A k \in Jobs \ {j} : job'[k] = jobs[k]
    BY <1>2, <2>1
  <2>5. JobsInv'
    BY <1>2, <2>1, <2>2, <2>3, <2>4 DEF JobsInv
  <2>6. PhaseInv'
    <3>1. \A k \in Jobs : job'[k].cmd = job[k].cmd /\ (job'[k].at = "idle" <=> job[k].at = "idle")
      BY <1>2, <2>2, <2>4
    <3> QED BY <1>1, <2>1, <3>1, PhaseStays
  <2> QED BY <1>1, <1>5, <2>1, <2>2, <2>4, <2>5, <2>6 DEF CountInv, jobs
<1>6. CASE cmd.name # "users" /\ ~(failed /\ cmd.name \in {"initUsers", "migrate"})
  <2>1. /\ job' = [jobs EXCEPT ![j] = Idle] /\ Memory(heap)
        /\ cache' = [cache EXCEPT ![cmd.doc] = job[j].map]
        /\ phase' = (IF cmd.name = "initUsers" THEN "users"
                     ELSE IF cmd.name = "migrate" THEN "migrated"
                     ELSE IF cmd.name = "sync" THEN "up" ELSE phase)
        /\ allowed' = IF cmd.name = "initUsers" THEN UsersOf(heap[job[j].map]) ELSE allowed
    BY <1>3, <1>6 DEF AfterSet
  <2>2. job'[j] = Idle /\ \A k \in Jobs \ {j} : job'[k] = jobs[k]
    BY <1>2, <2>1
  <2>3. JobsInv'
    BY <1>2, <2>1, <2>2, IdleSound DEF JobsInv, Sound
  <2>4. \/ cmd.name = "initUsers" /\ phase = "new" /\ phase' = "users"
        \/ cmd.name # "initUsers" /\ phase \notin {"down", "new"}
             /\ phase' \in {"users", "migrated", "up"}
    BY <1>1, <2>1 DEF PhaseInv
  <2>5. /\ Idle.at = "idle" /\ Idle.cmd.name # "initUsers" /\ Idle.map = NoMap /\ ~Idle.apart
        /\ \A k \in Jobs : job[k].at = "idle" => job[k].cmd.name # "initUsers"
    BY <1>1, IdleSound, CommandNames DEF JobsInv, Sound, Idle
  <2>6. PhaseInv'
    BY <1>1, <1>2, <2>2, <2>4, <2>5 DEF PhaseInv
  <2>7. allowed' \subseteq People
    BY <1>1, <2>1 DEF UsersOf, CountInv
  <2> QED BY <1>6, <2>1, <2>2, <2>3, <2>4, <2>5, <2>6, <2>7 DEF jobs
<1> QED BY <1>4, <1>5, <1>6

\* A set keeps the types, and puts the map of the goroutine in the cache.
LEMMA SetTypes ==
  ASSUME TypeInv, NEW j \in Jobs, job[j].at = "save", UNCHANGED commands,
         NEW applied \in BOOLEAN, NEW failed \in BOOLEAN, Answer(j, applied, failed)
  PROVE  TypeInv' /\ (Stopped \/ Replaced(j))
<1> DEFINE d0 == job[j].cmd.doc
           m0 == job[j].map
<1>1. /\ MapsInv /\ JobsInv /\ PhaseInv /\ CountInv
      /\ m0 \in Maps /\ d0 \in Docs /\ Holds(m0, d0)
  BY Working, MapFacts DEF TypeInv, Sound
<1>2. srv' \in Content /\ kept' \in Content /\ gone' \in Content
  BY AnswerContent
<1>3. faults' \in 0..MaxFaults
  BY <1>1, FaultKeeps DEF Answer
<1>4. CASE Stopped
  <2>1. MapsInv' /\ JobsInv' /\ PhaseInv' /\ UNCHANGED allowed
    BY <1>4, StoppedKeeps DEF Stopped
  <2> QED BY <1>1, <1>2, <1>3, <1>4, <2>1 DEF TypeInv, CountInv
<1>5. CASE ~Stopped
  <2>1. /\ JobsInv' /\ PhaseInv' /\ allowed' \subseteq People
        /\ cache' = [cache EXCEPT ![d0] = m0] /\ Memory(heap)
        /\ \A k \in Jobs \ {j} : job'[k] = Partners(j)[k]
        /\ job'[j].map = NoMap
    BY <1>5, AnswerCases
  <2>2. \A k \in Jobs \ {j} :
          /\ job'[k].at = job[k].at /\ job'[k].cmd = job[k].cmd
          /\ job'[k].map = job[k].map /\ job'[k].sure = job[k].sure
          /\ job'[k].apart \/ job'[k] = job[k]
          /\ Lost(j) /\ k \in Holders(d0) => job'[k].apart
    BY <1>1, <2>1, PartnersKeep
  <2>3. srv' = (IF applied THEN [srv EXCEPT ![d0] = heap[m0]] ELSE srv)
    BY DEF Answer
  <2> HIDE DEF d0, m0
  <2>4. /\ cache' \in [Docs -> Maps \cup {NoMap}] /\ cache'[d0] = m0
        /\ \A d \in Docs \ {d0} : cache'[d] = cache[d] /\ srv'[d] = srv[d]
    BY <1>1, <2>1, <2>3 DEF MapsInv, TypeInv, Content
  <2>5. \A m \in Maps, d \in Docs : Holds(m, d)' => Holds(m, d)
    BY <1>1, <2>1, <2>2, <2>4, NoMapApart DEF Holds
  <2>6. MapsInv' /\ \A m \in Maps, d \in Docs : Holds(m, d)' => heap'[m] = heap[m]
    BY <1>1, <2>1, <2>4, <2>5, MemoryStays
  <2>7. ASSUME NEW d \in Docs, d # d0 PROVE View(d)' = View(d)
    <3>1. CASE cache[d] = NoMap
      BY <2>4, <2>7, <3>1 DEF View
    <3>2. CASE cache[d] # NoMap
      <4>1. \A m \in {cache[d]} : m \in Maps /\ Holds(m, d)'
        BY <1>1, <2>4, <2>7, <3>2 DEF Holds, MapsInv
      <4> QED BY <2>4, <2>6, <2>7, <3>2, <4>1 DEF View
    <3> QED BY <3>1, <3>2
  <2>8. \A d \in {d0} : View(d)' = heap[m0]
    <3>1. \A m \in {m0}, d \in {d0} : Holds(m, d)'
      BY <2>4 DEF Holds
    <3> QED BY <1>1, <2>4, <2>6, <3>1, NoMapApart DEF View
  <2>9. Replaced(j)
    BY <2>2, <2>4, <2>6, <2>7, <2>8 DEF Replaced, d0, m0
  <2> QED BY <1>1, <1>2, <1>3, <2>1, <2>6, <2>9 DEF TypeInv, CountInv
<1> QED BY <1>4, <1>5

\* The first state.
LEMMA InitTypes == Init => TypeInv
<1> SUFFICES ASSUME Init PROVE TypeInv
  OBVIOUS
<1>1. JobsInv /\ \A j \in Jobs : job[j] = Idle
  BY IdleSound DEF Init, JobsInv, Sound
<1>2. \A m \in Maps, d \in Docs : ~Holds(m, d)
  BY <1>1, IdleSound, NoMapApart DEF Holds, Init
<1>3. MapsInv
  BY <1>2 DEF Init, MapsInv
<1>4. PhaseInv
  BY <1>1, IdleSound, CommandNames DEF PhaseInv, Init
<1>5. CountInv
  BY SettingsAssumption DEF CountInv, Init
<1>6. /\ {Banlist, AutoBan} \in SUBSET Facts["bot"]
      /\ {Old(s) : s \in Legacy} \in SUBSET Facts["room"]
      /\ {Spam(s) : s \in Legacy} \in SUBSET Facts["room"]
      /\ {Banned(a) : a \in BannedBefore} \in SUBSET Facts["ban"]
  BY FactsOf, SettingsAssumption DEF Olds, Spams
<1>7. srv \in Content
  <2>1. /\ srv["bot"] = {Banlist, AutoBan} /\ srv["room"] = {Old(s) : s \in Legacy}
        /\ srv["ban"] = {Banned(a) : a \in BannedBefore}
        /\ srv = [d \in Docs |-> srv[d]]
    BY DEF Init
  <2>2. \A d \in Docs : srv[d] \subseteq Facts[d]
    BY <1>6, <2>1
  <2>3. \A d \in Docs : srv[d] \subseteq AllFacts
    BY <2>2, FactsOf
  <2> QED BY <2>1, <2>2, <2>3 DEF Content
<1>8. kept \in Content
  BY <1>6, <1>7, ContentKeeps DEF Init
<1>9. gone \in Content
  BY DEF Init, Content
<1> QED BY <1>1, <1>3, <1>4, <1>5, <1>7, <1>8, <1>9 DEF TypeInv

\* What was confirmed without being saved is of the banlist.
UnsavedInv == unsaved \subseteq Facts["ban"]

\* Only a handler of the banlist adds to it.
LEMMA UnsavedKeeps == TypeInv /\ UnsavedInv /\ [Next]_vars => UnsavedInv'
<1> SUFFICES ASSUME TypeInv, UnsavedInv, [Next]_vars PROVE UnsavedInv'
  OBVIOUS
<1>1. ASSUME NEW j \in Jobs, SetBanlistDisabled(j) PROVE UnsavedInv'
  <2>1. CmdOK(job[j].cmd) /\ job[j].cmd.doc = "ban"
    BY <1>1, Working DEF TypeInv, SetBanlistDisabled
  <2>2. Meant(job[j].cmd) \subseteq Facts["ban"]
    BY <2>1 DEF CmdOK, Meant
  <2> QED BY <1>1, <2>2 DEF SetBanlistDisabled, UnsavedInv
<1>2. ASSUME NEW j \in Jobs, Start(j) PROVE UNCHANGED unsaved
  BY <1>2 DEF Start, Handle, HandleReaction, SessionBans, CronSync, Boot, history
<1>3. ASSUME NEW j \in Jobs, Continue(j), ~SetBanlistDisabled(j)
      PROVE  UNCHANGED unsaved
  BY <1>3 DEF Continue, Get, GetFailed, GetBanlistDisabled, Change, Touch, Renew,
              BanlistAbandoned, Set, Allow, Confirm, history
<1>4. ASSUME Crash \/ \E d \in Docs : Evict(d) PROVE UNCHANGED unsaved
  BY <1>4 DEF Crash, Evict, history
<1> QED BY <1>1, <1>2, <1>3, <1>4 DEF Next, vars, history, UnsavedInv

\* The types give the type invariant.
LEMMA TypesOK == TypeInv /\ UnsavedInv => TypeOK
<1> SUFFICES ASSUME TypeInv, UnsavedInv PROVE TypeOK
  OBVIOUS
<1>1. \A d \in Docs : cache[d] # NoMap => heap[cache[d]] \subseteq Facts[d]
  BY DEF TypeInv, MapsInv, Holds
<1>2. \A j \in Jobs : job[j].map # NoMap => heap[job[j].map] \subseteq Facts[job[j].cmd.doc]
  BY MapFacts DEF TypeInv
<1> QED BY <1>1, <1>2
        DEF TypeInv, UnsavedInv, TypeOK, Content, MapsInv, JobsInv, PhaseInv, CountInv

\* Every step keeps the types.
LEMMA NextTypes == TypeInv /\ [Next]_vars => TypeInv'
<1> SUFFICES ASSUME TypeInv, [Next]_vars PROVE TypeInv'
  OBVIOUS
<1>1. ASSUME NEW j \in Jobs, Set(j) PROVE TypeInv'
  BY <1>1, SetAnswer, SetTypes
<1>2. ASSUME NEW j \in Jobs, Continue(j) PROVE TypeInv'
  BY <1>1, <1>2, GetTypes, WithoutTypes, ChangeTypes, RenewTypes, EndTypes DEF Continue
<1>3. CASE UNCHANGED vars
  BY <1>3 DEF vars, memory, history, TypeInv, MapsInv, JobsInv, PhaseInv, CountInv, Holds
<1> QED BY <1>2, <1>3, StartTypes, LossTypes DEF Next

\* The settings are well typed: whatever the goroutines, the cache and the
\* failures do, a map in use holds facts of its own document only.
THEOREM TypeCorrect == Spec => []TypeOK
<1>1. Init => TypeInv /\ UnsavedInv
  BY InitTypes DEF Init, UnsavedInv
<1>2. (TypeInv /\ UnsavedInv) /\ [Next]_vars => (TypeInv /\ UnsavedInv)'
  BY NextTypes, UnsavedKeeps
<1> QED BY <1>1, <1>2, TypesOK, PTL DEF Spec

----------------------------------------------------------------------------
(* What is confirmed, and who may use the bot *)

\* The goroutine saves a map that was made for that.
Renewed(x) == x.at = "save" /\ x.cmd.name \in {"stop", "clear"}

\* A `users` between its change and its end.
Pending(x) == x.cmd.name = "users" /\ x.at \in {"save", "allow"}

\* Who is not apart works on the map that is cached.
SharedInv ==
  \A j \in Jobs : ~job[j].apart /\ job[j].map # NoMap /\ ~Renewed(job[j])
                    => job[j].map = cache[job[j].cmd.doc]

\* What a handler is sure to have added is in its map.  A `users` is sure of all
\* users or of none, and then they are those that it set.
SureInv ==
  \A j \in Jobs :
    /\ job[j].at = "save" => job[j].sure \cap job[j].cmd.add \subseteq heap[job[j].map]
    /\ job[j].cmd.name = "users" => job[j].sure \in {{}, Users}
    /\ job[j].cmd.name = "users" /\ job[j].at = "save" /\ job[j].sure # {}
         => heap[job[j].map] \cap Users = job[j].cmd.add
    /\ job[j].at = "allow" /\ ~job[j].apart /\ job[j].sure # {} =>
         /\ srv["bot"] \cap Users = job[j].cmd.add
         /\ View("bot") \cap Users = job[j].cmd.add

\* The lists of old versions are never confirmed, nor is the end of the mark of
\* the migration.  Users are confirmed to be gone only where others stay, so
\* that no start opens the bot again.
HistoryInv ==
  /\ kept["room"] \cap Olds = {} /\ Migrated \notin gone["bot"]
  /\ gone["bot"] \cap Users # {} =>
       srv["bot"] \cap Users # {} /\ View("bot") \cap Users # {}

\* Of two `users` at a time none is sure; while there is one, no users are
\* confirmed.
UsersInv ==
  /\ \A j, k \in Jobs : Pending(job[j]) /\ Pending(job[k]) /\ j # k => job[j].sure = {}
  /\ (\E j \in Jobs : Pending(job[j])) =>
       kept["bot"] \cap Users = {} /\ gone["bot"] \cap Users = {}

\* AccessIsKept, also while a `users` has only read the options.
AccessInv ==
  phase \notin {"down", "new"} /\ (\A j \in Jobs : ~Pending(job[j]))
  => \A p \in People :
       /\ User(p) \in kept["bot"] => p \in allowed
       /\ User(p) \in gone["bot"] => p \notin allowed

\* The first start adds users to options that have none, or that are not cached.
FirstInv ==
  \A j \in Jobs : job[j].cmd.name = "initUsers" /\ job[j].at = "change"
                    => cache["bot"] = NoMap \/ View("bot") \cap Users = {}

KeptInv == SharedInv /\ SureInv /\ HistoryInv /\ UsersInv /\ FirstInv /\ ConfirmedStay

\* What is in a document with its lists of old versions taken for the spamlist.
LEMMA NormFacts ==
  ASSUME NEW c
  PROVE  /\ c \subseteq Norm(c) /\ Norm(c) \subseteq c \cup Spams
         /\ Norm(c) \cap Users = c \cap Users
         /\ \A d \in {"bot", "ban"} : c \subseteq Facts[d] => Norm(c) = c
         /\ \A f : f \in Norm(c) <=> (f \in c \/ \E l \in Legacy : Old(l) \in c /\ f = Spam(l))
<1>1. \A f : f \in Norm(c) <=> (f \in c \/ \E l \in Legacy : Old(l) \in c /\ f = Spam(l))
  BY DEF Norm
<1>2. c \subseteq Norm(c) /\ Norm(c) \subseteq c \cup Spams
  BY <1>1, SettingsAssumption DEF Spams
<1>3. Norm(c) \cap Users = c \cap Users
  BY <1>2, FactsApart
<1>4. ASSUME NEW d \in {"bot", "ban"}, c \subseteq Facts[d] PROVE Norm(c) = c
  <2>1. \A l \in Legacy : Old(l) \notin c
    BY <1>4, FactsApart DEF Olds
  <2> QED BY <1>1, <2>1
<1> QED BY <1>1, <1>2, <1>3, <1>4

\* A change keeps the facts it does not touch, in the map and as a reader takes
\* it, and brings none.
LEMMA ChangedKeeps ==
  ASSUME NEW cmd, CmdOK(cmd), cmd.name \notin {"stop", "clear"},
         NEW seen \in SUBSET Spams, NEW c \in SUBSET Facts[cmd.doc]
  PROVE  LET t == Touched(cmd, seen, c)
             n == Changed(cmd, seen, c)
         IN /\ \A f \in c : f \in n \/ f \in t \/ f \in Olds
            /\ \A f \in Norm(c) : f \in Norm(n) \/ f \in t \/ f \in Olds
            /\ \A f \in Norm(n) :
                 \/ f \in Norm(c) \/ f \in t
                 \/ cmd.name = "initUsers" /\ f \in Users
                 \/ cmd.name = "migrate" /\ f = Migrated
<1> DEFINE t == Touched(cmd, seen, c)
           n == Changed(cmd, seen, c)
           T == {Spam(s) : s \in {l \in Legacy : Old(l) \in c}}
<1>1. CASE cmd.name = "spamlist"
  <2>1. n = (c \ Spams) \cup (seen \ cmd.drop) \cup cmd.add
    BY <1>1, ChangedCases
  <2>2. cmd.drop \subseteq t /\ cmd.add \subseteq t /\ (seen = c \cap Spams \/ Spams \subseteq t)
    BY <1>1 DEF Touched, Meant
  <2>3. cmd.drop \subseteq Spams /\ cmd.add \subseteq Spams
    BY <1>1 DEF CmdOK
  <2> HIDE DEF n, t
  <2>4. \A l \in Legacy : Old(l) \in c <=> Old(l) \in n
    BY <2>1, <2>3, FactsApart DEF Olds
  <2>5. \A f \in c : f \in n \/ f \in t
    BY <2>1, <2>2
  <2>6. \A f \in n : f \in c \/ f \in t
    BY <2>1, <2>2
  <2> QED BY <2>4, <2>5, <2>6, NormFacts DEF n, t
<1>2. CASE cmd.name = "sync"
  <2>1. n = (c \ Olds) \cup T
    BY <1>2, ChangedCases
  <2>2. \A f : f \in T <=> \E l \in Legacy : Old(l) \in c /\ f = Spam(l)
    OBVIOUS
  <2> HIDE DEF n, t, T
  <2>3. \A l \in Legacy : Old(l) \in Olds /\ Spam(l) \in Spams
    BY SettingsAssumption DEF Olds, Spams
  <2>4. \A l \in Legacy : Old(l) \notin n
    BY <2>1, <2>2, <2>3, FactsApart
  <2>5. \A f \in Norm(c) : f \in n \/ f \in Olds
    BY <2>1, <2>2, NormFacts
  <2>6. \A f \in Norm(n) : f \in n
    BY <2>4, NormFacts
  <2>7. \A f \in n : f \in Norm(c)
    BY <2>1, <2>2, NormFacts
  <2> QED BY <2>5, <2>6, <2>7, NormFacts DEF n, t
<1>3. CASE cmd.name \notin {"spamlist", "sync"}
  <2>1. n = (c \ cmd.drop) \cup cmd.add
    BY <1>3, ChangedCases
  <2>2. \/ cmd.name = "initUsers" /\ cmd.drop = {} /\ cmd.add \subseteq Users
        \/ cmd.name = "migrate" /\ cmd.drop = {} /\ cmd.add = {Migrated}
        \/ cmd.drop \subseteq t /\ cmd.add \subseteq t
    BY <1>3 DEF CmdOK, Touched, Meant
  <2>3. cmd.drop \cap Olds = {} /\ cmd.add \cap Olds = {}
    BY DEF CmdOK
  <2> HIDE DEF n, t
  <2>4. \A l \in Legacy : Old(l) \in c <=> Old(l) \in n
    BY <2>1, <2>3 DEF Olds
  <2>5. \A f \in c : f \in n \/ f \in t
    BY <2>1, <2>2
  <2>6. \A f \in n : \/ f \in c \/ f \in t
                     \/ cmd.name = "initUsers" /\ f \in Users
                     \/ cmd.name = "migrate" /\ f = Migrated
    BY <2>1, <2>2
  <2> QED BY <2>4, <2>5, <2>6, NormFacts DEF n, t
<1> QED BY <1>1, <1>2, <1>3

\* What a change does to the users of a map.
LEMMA ChangedUsers ==
  ASSUME NEW cmd, CmdOK(cmd), cmd.name \notin {"stop", "clear"},
         NEW seen \in SUBSET Spams, NEW c
  PROVE  /\ cmd.name = "users" => Changed(cmd, seen, c) \cap Users = cmd.add
         /\ cmd.name = "initUsers" => c \cap Users \subseteq Changed(cmd, seen, c)
         /\ cmd.name \notin {"users", "initUsers"} =>
              Changed(cmd, seen, c) \cap Users = c \cap Users
<1>1. CASE cmd.name = "spamlist"
  BY <1>1, ChangedCases, FactsApart DEF CmdOK
<1>2. CASE cmd.name = "sync"
  <2>1. {Spam(s) : s \in {l \in Legacy : Old(l) \in c}} \subseteq Spams
    BY SettingsAssumption DEF Spams
  <2>2. Olds \cap Users = {}
    BY FactsApart, FactsOf
  <2> QED BY <1>2, <2>1, <2>2, ChangedCases, FactsApart
<1>3. CASE cmd.name \notin {"spamlist", "sync"}
  BY <1>3, ChangedCases DEF CmdOK
<1> QED BY <1>1, <1>2, <1>3

\* What goroutine k does of no consequence for what is sure: it is not yet to
\* save, or goes on as it was, or is to save a map that adds nothing.
Quiet(k) ==
  \/ job'[k].at \notin {"save", "allow"}
  \/ Renewed(job[k])'
  \/ /\ job'[k].at = job[k].at /\ job'[k].cmd = job[k].cmd
     /\ job'[k].map = job[k].map /\ job'[k].sure = job[k].sure
     /\ job'[k].apart \/ job'[k] = job[k]

\* What is confirmed after a step, document by document.
LEMMA ConfirmedNext ==
  ASSUME \A d \in Docs :
           /\ kept'[d] \subseteq Norm(srv'[d]) /\ kept'[d] \subseteq Norm(View(d)')
           /\ gone'[d] \cap Norm(srv'[d]) = {} /\ gone'[d] \cap Norm(View(d)') = {}
  PROVE  ConfirmedStay'
<1>1. \A d \in Docs : Norm(srv[d])' = Norm(srv'[d]) /\ Norm(View(d))' = Norm(View(d)')
  BY DEF Norm
<1> QED BY <1>1 DEF ConfirmedStay

\* Steps that save nothing keep what is sure.
LEMMA QuietSure ==
  ASSUME TypeInv, TypeInv', SureInv, UNCHANGED srv,
         \A d \in Docs : View(d)' \in {View(d), srv[d]},
         \A m \in Maps, d \in Docs : Holds(m, d) /\ Holds(m, d)' => heap'[m] = heap[m],
         \A k \in Jobs : Quiet(k)
  PROVE  /\ SureInv'
         /\ \A k \in Jobs : Pending(job[k])' => Pending(job[k]) /\ job'[k].sure = job[k].sure
<1>1. ASSUME NEW k \in Jobs, job'[k].at \in {"save", "allow"}, ~Renewed(job[k])'
      PROVE  /\ job'[k].at = job[k].at /\ job'[k].cmd = job[k].cmd
             /\ job'[k].map = job[k].map /\ job'[k].sure = job[k].sure
             /\ job'[k].apart \/ job'[k] = job[k]
  BY <1>1 DEF Quiet
<1>2. \A k \in Jobs : /\ CmdOK(job'[k].cmd) /\ Sound(job[k])
                      /\ Sound(job'[k]) /\ job'[k].cmd.doc \in Docs
  BY Working, CommandsOK DEF TypeInv, JobsInv, Job, CmdOK
<1>3. \A k \in Jobs : Pending(job[k])' => Pending(job[k]) /\ job'[k].sure = job[k].sure
  BY <1>1 DEF Pending, Renewed
<1>4. ASSUME NEW k \in Jobs
      PROVE  /\ job'[k].at = "save" => job'[k].sure \cap job'[k].cmd.add \subseteq heap'[job'[k].map]
             /\ job'[k].cmd.name = "users" => job'[k].sure \in {{}, Users}
             /\ job'[k].cmd.name = "users" /\ job'[k].at = "save" /\ job'[k].sure # {}
                  => heap'[job'[k].map] \cap Users = job'[k].cmd.add
             /\ job'[k].at = "allow" /\ ~job'[k].apart /\ job'[k].sure # {} =>
                  /\ srv'["bot"] \cap Users = job'[k].cmd.add
                  /\ View("bot")' \cap Users = job'[k].cmd.add
  <2>1. CASE job'[k].at \notin {"save", "allow"}
    BY <1>2, <2>1 DEF Sound
  <2>2. CASE Renewed(job[k])'
    <3>1. job'[k].at = "save" /\ job'[k].cmd.name \in {"stop", "clear"}
      BY <2>2 DEF Renewed
    <3> QED BY <1>2, <3>1 DEF CmdOK
  <2>3. CASE job'[k].at = "save" /\ ~Renewed(job[k])'
    <3>1. /\ job[k].at = "save" /\ job'[k].cmd = job[k].cmd
          /\ job'[k].map = job[k].map /\ job'[k].sure = job[k].sure
      BY <1>1, <2>3
    <3>2. job[k].map \in Maps /\ job[k].cmd.doc \in Docs
      BY <1>2, <3>1, MapFacts DEF Sound, TypeInv
    <3>3. \A m \in {job[k].map}, d \in {job[k].cmd.doc} : Holds(m, d) /\ Holds(m, d)'
      BY <3>1 DEF Holds
    <3>4. heap'[job'[k].map] = heap[job[k].map]
      BY <3>1, <3>2, <3>3
    <3> QED BY <2>3, <3>1, <3>4 DEF SureInv
  <2>4. CASE job'[k].at = "allow"
    <3>1. ~Renewed(job[k])'
      BY <2>4 DEF Renewed
    <3>2. /\ job[k].at = "allow" /\ job'[k].cmd = job[k].cmd
          /\ job'[k].sure = job[k].sure /\ (job'[k].apart \/ ~job[k].apart)
      BY <1>1, <2>4, <3>1
    <3>3. View("bot")' \in {View("bot"), srv["bot"]}
      OBVIOUS
    <3> QED BY <2>4, <3>2, <3>3 DEF SureInv
  <2> QED BY <1>2, <2>1, <2>2, <2>3, <2>4
<1>5. SureInv'
  BY <1>4 DEF SureInv
<1> QED BY <1>3, <1>5

\* Steps that save and confirm nothing.
LEMMA QuietKeeps ==
  ASSUME TypeInv, TypeInv', SureInv, HistoryInv, UsersInv, ConfirmedStay,
         UNCHANGED <<srv, kept, gone>>,
         \A d \in Docs : View(d)' \in {View(d), srv[d]},
         \A m \in Maps, d \in Docs : Holds(m, d) /\ Holds(m, d)' => heap'[m] = heap[m],
         \A k \in Jobs : Quiet(k)
  PROVE  SureInv' /\ HistoryInv' /\ UsersInv' /\ ConfirmedStay'
<1>1. kept' = kept /\ gone' = gone /\ srv' = srv
  OBVIOUS
<1>2. HistoryInv'
  BY <1>1 DEF HistoryInv
<1>3. ConfirmedStay'
  <2>1. ASSUME NEW d \in Docs
        PROVE  /\ kept'[d] \subseteq Norm(srv'[d]) /\ kept'[d] \subseteq Norm(View(d)')
               /\ gone'[d] \cap Norm(srv'[d]) = {} /\ gone'[d] \cap Norm(View(d)') = {}
    BY <1>1 DEF ConfirmedStay
  <2> QED BY <2>1, ConfirmedNext
<1>4. /\ SureInv'
      /\ \A k \in Jobs : Pending(job[k])' => Pending(job[k]) /\ job'[k].sure = job[k].sure
  BY <1>1, QuietSure
<1>5. UsersInv'
  BY <1>1, <1>4 DEF UsersInv
<1> QED BY <1>2, <1>3, <1>4, <1>5

\* The maps that are shared, when the cache keeps what it has.
LEMMA SharedStays ==
  ASSUME SharedInv, \A d \in Docs : cache[d] = NoMap \/ cache'[d] = cache[d], JobsInv,
         \A k \in Jobs :
           \/ job'[k].map = NoMap \/ job'[k].apart \/ Renewed(job[k])'
           \/ job'[k].map = cache'[job'[k].cmd.doc]
           \/ /\ job'[k].map = job[k].map /\ job'[k].cmd = job[k].cmd
              /\ job'[k].apart = job[k].apart /\ ~Renewed(job[k])
  PROVE  SharedInv'
<1>1. \A k \in Jobs : job[k].cmd.doc \in Docs
  BY Working
<1> QED BY <1>1 DEF SharedInv

\* The first start is alone.
LEMMA FirstAlone ==
  ASSUME TypeInv, NEW j \in Jobs, NEW k \in Jobs, job[j].cmd.name = "initUsers",
         job[k].at # "idle"
  PROVE  j = k /\ phase = "new"
<1>1. job[j].at # "idle"
  BY IdleSound, CommandNames DEF TypeInv, JobsInv, Sound
<1> QED BY <1>1 DEF TypeInv, PhaseInv

\* Access, when what is confirmed stays and no `users` ends.
LEMMA AccessStays ==
  ASSUME AccessInv, kept' = kept, gone' = gone,
         \A k \in Jobs : Pending(job[k]) => Pending(job[k])',
         phase' \in {"down", "new"} \/ (phase \notin {"down", "new"} /\ allowed' = allowed)
  PROVE  AccessInv'
  BY DEF AccessInv

\* Access, when a start has taken the users from the options that all read.
LEMMA AccessRead ==
  ASSUME ConfirmedStay', allowed' = UsersOf(View("bot")')
  PROVE  AccessInv'
<1>1. \A p \in People : User(p) \in Users
  BY DEF Users
<1>2. /\ kept'["bot"] \subseteq Norm(View("bot")') /\ gone'["bot"] \cap Norm(View("bot")') = {}
  <2>1. Norm(View("bot"))' = Norm(View("bot")')
    BY DEF Norm
  <2> QED BY <2>1 DEF ConfirmedStay
<1>3. \A p \in People : User(p) \in Norm(View("bot")') <=> User(p) \in View("bot")'
  BY <1>1, NormFacts
<1>4. \A p \in People : p \in allowed' <=> User(p) \in View("bot")'
  BY DEF UsersOf
<1> QED BY <1>2, <1>3, <1>4 DEF AccessInv

\* A goroutine starts.
LEMMA StartKeeps ==
  ASSUME TypeInv, KeptInv, AccessInv, NEW j \in Jobs, Start(j)
  PROVE  KeptInv' /\ AccessInv'
<1>1. PICK cmd \in AllCommands :
        /\ Begin(j, cmd)
        /\ \/ phase = "down" /\ phase' = "new" /\ cmd.name = "initUsers"
           \/ phase \notin {"down", "new"} /\ phase' = phase /\ cmd.name # "initUsers"
  BY StartStep
<1>2. UNCHANGED <<srv, memory, allowed, history>>
  BY StartStep
<1>3. TypeInv'
  BY StartTypes
<1>4. /\ job[j].at = "idle" /\ job'[j].at \in {"get", "change"} /\ job'[j].map = NoMap
      /\ job'[j].cmd = cmd /\ \A k \in Jobs \ {j} : job'[k] = job[k]
  BY <1>1, <1>2, BeginKeeps DEF TypeInv
<1>5. SureInv' /\ HistoryInv' /\ UsersInv' /\ ConfirmedStay'
  <2>1. \A k \in Jobs : Quiet(k)
    BY <1>4 DEF Quiet
  <2>2. \A d \in Docs : View(d)' \in {View(d), srv[d]}
    BY <1>2 DEF View, memory
  <2>3. \A m \in Maps, d \in Docs : Holds(m, d) /\ Holds(m, d)' => heap'[m] = heap[m]
    BY <1>2 DEF memory
  <2> QED BY <1>2, <1>3, <2>1, <2>2, <2>3, QuietKeeps DEF history, KeptInv
<1>6. SharedInv'
  <2>1. cache' = cache
    BY <1>2 DEF memory
  <2> QED BY <1>4, <2>1 DEF KeptInv, SharedInv, Renewed
<1>7. FirstInv'
  <2>1. job'[j].at = "change" => cmd.name = "clear"
    BY <1>1, <1>3, <1>4, NoMapApart DEF TypeInv, JobsInv, Sound
  <2> QED BY <1>2, <1>4, <2>1 DEF KeptInv, FirstInv, memory, View
<1>8. AccessInv'
  <2>1. \A k \in Jobs : Pending(job[k]) => Pending(job[k])'
    BY <1>4 DEF Pending
  <2> QED BY <1>1, <1>2, <2>1, AccessStays DEF history
<1> QED BY <1>5, <1>6, <1>7, <1>8 DEF KeptInv

\* The document is read.
LEMMA GetKeeps ==
  ASSUME TypeInv, KeptInv, AccessInv, NEW j \in Jobs, Get(j)
  PROVE  KeptInv' /\ AccessInv'
<1>1. /\ TypeInv' /\ UNCHANGED <<srv, history>> /\ job[j].at = "get"
      /\ \A d \in Docs : cache[d] = NoMap \/ cache'[d] = cache[d]
      /\ \A k \in Jobs \ {j} : job'[k] = job[k]
  BY GetTypes
<1>2. /\ \A d \in Docs : View(d)' = View(d)
      /\ \A m \in Maps, d \in Docs : Holds(m, d) /\ Holds(m, d)' => heap'[m] = heap[m]
  BY GetTypes DEF Unseen
<1>3. \/ /\ Finish(j) /\ job'[j] = Idle
         /\ \/ job[j].cmd.name = "initUsers" /\ allowed' = UsersOf(View("bot"))
            \/ job[j].cmd.name # "initUsers" /\ allowed' = allowed
      \/ /\ job'[j].at = "change" /\ job'[j].cmd = job[j].cmd
         /\ job'[j].map = cache'[job[j].cmd.doc] /\ UNCHANGED <<phase, allowed>>
         /\ job[j].cmd.name = "initUsers" => View("bot") \cap Users = {}
  BY GetTypes
<1>4. SureInv' /\ HistoryInv' /\ UsersInv' /\ ConfirmedStay'
  <2>1. \A k \in Jobs : Quiet(k)
    BY <1>1, <1>3, IdleSound DEF Quiet
  <2> QED BY <1>1, <1>2, <2>1, QuietKeeps DEF history, KeptInv
<1>5. SharedInv'
  <2>1. \A k \in Jobs :
           \/ job'[k].map = NoMap \/ job'[k].apart \/ Renewed(job[k])'
           \/ job'[k].map = cache'[job'[k].cmd.doc]
           \/ /\ job'[k].map = job[k].map /\ job'[k].cmd = job[k].cmd
              /\ job'[k].apart = job[k].apart /\ ~Renewed(job[k])
    BY <1>1, <1>3, IdleSound DEF Renewed
  <2> QED BY <1>1, <2>1, SharedStays DEF KeptInv, TypeInv
<1>6. FirstInv'
  <2> SUFFICES ASSUME NEW k \in Jobs, job'[k].cmd.name = "initUsers", job'[k].at = "change"
               PROVE  View("bot")' \cap Users = {}
    BY DEF FirstInv
  <2>1. k = j
    BY <1>1, FirstAlone
  <2> QED BY <1>2, <1>3, <2>1, IdleSound
<1>7. AccessInv'
  <2>1. CASE allowed' = UsersOf(View("bot"))
    <3>1. View("bot")' = View("bot")
      BY <1>2
    <3> QED BY <1>4, <2>1, <3>1, AccessRead
  <2>2. CASE allowed' # UsersOf(View("bot"))
    <3>1. allowed' = allowed /\ (phase \notin {"down", "new"} \/ phase' \in {"down", "new"})
      BY <1>1, <1>3, <2>2, FinishKeeps DEF TypeInv
    <3>2. \A k \in Jobs : Pending(job[k]) => Pending(job[k])'
      BY <1>1 DEF Pending
    <3> QED BY <1>1, <3>1, <3>2, AccessStays DEF history
  <2> QED BY <2>1, <2>2
<1> QED BY <1>4, <1>5, <1>6, <1>7 DEF KeptInv

\* The document cannot be read, or seems not to be there.
LEMMA WithoutKeeps ==
  ASSUME TypeInv, KeptInv, AccessInv, NEW j \in Jobs, GetFailed(j) \/ GetBanlistDisabled(j)
  PROVE  KeptInv' /\ AccessInv'
<1>1. /\ TypeInv' /\ \A k \in Jobs \ {j} : job'[k] = job[k]
      /\ UNCHANGED <<srv, cache, allowed, history>> /\ job[j].at = "get"
  BY WithoutTypes
<1>2. /\ \A d \in Docs : View(d)' = View(d)
      /\ \A m \in Maps, d \in Docs : Holds(m, d) /\ Holds(m, d)' => heap'[m] = heap[m]
  BY WithoutTypes DEF Unseen
<1>3. \/ Finish(j) /\ job[j].cmd.doc = "room"
      \/ job'[j].at = "change" /\ job'[j].apart
           /\ job'[j].cmd = job[j].cmd /\ UNCHANGED phase
           /\ (cache[job[j].cmd.doc] = NoMap \/ job[j].cmd.doc = "ban")
  BY WithoutTypes
<1>4. CmdOK(job[j].cmd) /\ JobsInv /\ PhaseInv
  BY Working DEF TypeInv
<1>5. Finish(j) => phase \notin {"down", "new"} \/ job[j].cmd.name = "initUsers"
  BY <1>1, <1>4, FinishKeeps
<1>6. Finish(j) => job'[j].at = "idle" /\ job'[j].map = NoMap
  BY <1>1, <1>4, FinishKeeps, IdleSound
<1>7. SureInv' /\ HistoryInv' /\ UsersInv' /\ ConfirmedStay'
  <2>1. \A k \in Jobs : Quiet(k)
    BY <1>1, <1>3, <1>6 DEF Quiet
  <2> QED BY <1>1, <1>2, <2>1, QuietKeeps DEF history, KeptInv
<1>8. SharedInv'
  <2>1. \A k \in Jobs :
           \/ job'[k].map = NoMap \/ job'[k].apart \/ Renewed(job[k])'
           \/ job'[k].map = cache'[job'[k].cmd.doc]
           \/ /\ job'[k].map = job[k].map /\ job'[k].cmd = job[k].cmd
              /\ job'[k].apart = job[k].apart /\ ~Renewed(job[k])
    BY <1>1, <1>3, <1>6 DEF Renewed
  <2> QED BY <1>1, <1>4, <2>1, SharedStays DEF KeptInv
<1>9. FirstInv'
  <2> SUFFICES ASSUME NEW k \in Jobs, job'[k].cmd.name = "initUsers", job'[k].at = "change"
               PROVE  cache'["bot"] = NoMap
    BY DEF FirstInv
  <2>1. k = j
    BY <1>1, FirstAlone
  <2> QED BY <1>1, <1>3, <1>4, <1>6, <2>1 DEF CmdOK
<1>10. AccessInv'
  <2>1. phase' \in {"down", "new"} \/ phase \notin {"down", "new"}
    <3>1. job[j].cmd.name = "initUsers" => job[j].cmd.doc = "bot"
      BY <1>4 DEF CmdOK
    <3> QED BY <1>3, <1>5, <3>1
  <2>2. \A k \in Jobs : Pending(job[k]) => Pending(job[k])'
    BY <1>1 DEF Pending
  <2> QED BY <1>1, <2>1, <2>2, AccessStays DEF history
<1> QED BY <1>7, <1>8, <1>9, <1>10 DEF KeptInv

\* A map is renewed, or a handler of the banlist ends without saving.
LEMMA AsideKeeps ==
  ASSUME TypeInv, KeptInv, AccessInv, NEW j \in Jobs,
         Renew(j) \/ BanlistAbandoned(j) \/ SetBanlistDisabled(j)
  PROVE  KeptInv' /\ AccessInv'
<1>1. /\ TypeInv' /\ Unseen /\ UNCHANGED <<srv, cache, allowed, kept, gone>>
      /\ \A k \in Jobs \ {j} : job'[k] = job[k]
      /\ job'[j] = Idle \/ (job'[j].at = "save" /\ job'[j].cmd = job[j].cmd
                              /\ job[j].cmd.name \in {"stop", "clear"})
  BY RenewTypes, EndTypes DEF BanlistAbandoned, SetBanlistDisabled, memory, history
<1>2. job[j].at # "idle" /\ JobsInv /\ PhaseInv /\ CmdOK(job[j].cmd)
  BY Working DEF Renew, BanlistAbandoned, SetBanlistDisabled, TypeInv
<1>3. job[j].cmd.name \notin {"users", "initUsers"}
  BY <1>2 DEF Renew, BanlistAbandoned, SetBanlistDisabled, CmdOK
<1>4. phase \notin {"down", "new"}
  BY <1>2, <1>3 DEF PhaseInv
<1>5. SureInv' /\ HistoryInv' /\ UsersInv' /\ ConfirmedStay'
  <2>1. \A k \in Jobs : Quiet(k)
    BY <1>1, IdleSound DEF Quiet, Renewed
  <2>2. /\ \A d \in Docs : View(d)' \in {View(d), srv[d]}
        /\ \A m \in Maps, d \in Docs : Holds(m, d) /\ Holds(m, d)' => heap'[m] = heap[m]
    BY <1>1 DEF Unseen
  <2> QED BY <1>1, <2>1, <2>2, QuietKeeps DEF KeptInv
<1>6. SharedInv'
  BY <1>1, IdleSound DEF KeptInv, SharedInv, Renewed
<1>7. FirstInv'
  <2> SUFFICES ASSUME NEW k \in Jobs, job'[k].cmd.name = "initUsers", job'[k].at = "change"
               PROVE  FALSE
    BY DEF FirstInv
  <2>1. k # j
    BY <1>1, IdleSound
  <2> QED BY <1>1, <1>2, <2>1, FirstAlone
<1>8. AccessInv'
  <2>1. \A k \in Jobs : Pending(job[k]) => Pending(job[k])'
    BY <1>1, <1>3 DEF Pending
  <2> QED BY <1>1, <1>4, <2>1, AccessStays DEF history
<1> QED BY <1>5, <1>6, <1>7, <1>8 DEF KeptInv

\* The cache loses a document, or the process ends.
LEMMA LossKeeps ==
  ASSUME TypeInv, KeptInv, AccessInv, Crash \/ \E d \in Docs : Evict(d)
  PROVE  KeptInv' /\ AccessInv'
<1>1. /\ TypeInv' /\ UNCHANGED <<srv, allowed, history>>
      /\ \A d \in Docs : \/ cache'[d] = NoMap /\ View(d)' = srv[d]
                         \/ cache'[d] = cache[d] /\ View(d)' = View(d)
      /\ \A m \in Maps, d \in Docs : Holds(m, d)' => heap'[m] = heap[m]
  BY LossTypes
<1>2. \/ phase' = "down" /\ \A k \in Jobs : job'[k] = Idle
      \/ /\ UNCHANGED phase
         /\ \A k \in Jobs :
              /\ job'[k].at = job[k].at /\ job'[k].cmd = job[k].cmd
              /\ job'[k].map = job[k].map /\ job'[k].sure = job[k].sure
              /\ job'[k].apart \/ job'[k] = job[k]
              /\ job[k].map # NoMap =>
                   job'[k].apart \/ cache'[job[k].cmd.doc] = cache[job[k].cmd.doc]
  BY LossTypes
<1>3. SureInv' /\ HistoryInv' /\ UsersInv' /\ ConfirmedStay'
  <2>1. \A k \in Jobs : Quiet(k)
    BY <1>2, IdleSound DEF Quiet
  <2> QED BY <1>1, <2>1, QuietKeeps DEF history, KeptInv
<1>4. SharedInv'
  BY <1>2, IdleSound DEF KeptInv, SharedInv, Renewed
<1>5. FirstInv'
  BY <1>1, <1>2, IdleSound DEF KeptInv, FirstInv
<1>6. AccessInv'
  <2>1. CASE phase' = "down"
    BY <2>1 DEF AccessInv
  <2>2. CASE phase' # "down"
    <3>1. \A k \in Jobs : Pending(job[k]) => Pending(job[k])'
      BY <1>2, <2>2 DEF Pending
    <3> QED BY <1>1, <1>2, <2>2, <3>1, AccessStays DEF history
  <2> QED BY <2>1, <2>2
<1> QED BY <1>3, <1>4, <1>5, <1>6 DEF KeptInv

\* A handler changes its map: readers of its document see the new content, if
\* the map is the one in the cache.
LEMMA ChangeViews ==
  ASSUME TypeInv, NEW j \in Jobs, Change(j)
  PROVE  /\ \A d \in Docs :
              \/ View(d)' = View(d)
              \/ /\ d = job[j].cmd.doc /\ cache[d] = job[j].map
                 /\ View(d) = heap[job[j].map]
                 /\ View(d)' = Changed(job[j].cmd, job[j].seen, heap[job[j].map])
         /\ \A k \in Jobs : job[k].map # NoMap =>
              \/ heap'[job[k].map] = heap[job[k].map] /\ job[k].map # job[j].map
              \/ /\ job[k].map = job[j].map /\ job[k].cmd.doc = job[j].cmd.doc
                 /\ heap'[job[k].map] = Changed(job[j].cmd, job[j].seen, heap[job[j].map])
<1> DEFINE m0 == job[j].map
           d0 == job[j].cmd.doc
           n == Changed(job[j].cmd, job[j].seen, heap[m0])
<1>1. UNCHANGED <<srv, cache>> /\ Rewritten(m0, n)
  BY ChangeTypes
<1>2. /\ MapsInv /\ JobsInv /\ job[j].at = "change" /\ m0 # NoMap
  BY Working DEF Change, TypeInv, Sound
<1>3. m0 \in Maps /\ d0 \in Docs /\ Holds(m0, d0)
  BY <1>2, MapFacts
<1>4. \A k \in Jobs : job'[k].map = job[k].map /\ job'[k].cmd = job[k].cmd
  BY <1>2, ChangeTypes, TouchJobs DEF Change
<1> HIDE DEF n
<1>5. ASSUME NEW d \in Docs
      PROVE  \/ View(d)' = View(d)
             \/ d = d0 /\ cache[d] = m0 /\ View(d) = heap[m0] /\ View(d)' = n
  <2>1. CASE cache[d] = NoMap
    BY <1>1, <2>1 DEF View
  <2>2. CASE cache[d] # NoMap
    <3>1. \A m \in {cache[d]} : m \in Maps /\ Holds(m, d) /\ Holds(m, d)'
      BY <1>1, <1>2, <2>2 DEF Holds, MapsInv
    <3>2. heap'[cache[d]] = IF cache[d] = m0 THEN n ELSE heap[cache[d]]
      BY <1>1, <3>1 DEF Rewritten
    <3>3. cache[d] = m0 => d = d0
      BY <1>2, <1>3, <3>1 DEF MapsInv
    <3> QED BY <1>1, <2>2, <3>2, <3>3 DEF View
  <2> QED BY <2>1, <2>2
<1>6. ASSUME NEW k \in Jobs, job[k].map # NoMap
      PROVE  \/ heap'[job[k].map] = heap[job[k].map] /\ job[k].map # m0
             \/ job[k].map = m0 /\ job[k].cmd.doc = d0 /\ heap'[job[k].map] = n
  <2>1. job[k].map \in Maps /\ job[k].cmd.doc \in Docs /\ Holds(job[k].map, job[k].cmd.doc)
    BY <1>2, <1>6, MapFacts
  <2>2. \A m \in {job[k].map}, d \in {job[k].cmd.doc} : Holds(m, d)'
    BY <1>4 DEF Holds
  <2>3. heap'[job[k].map] = IF job[k].map = m0 THEN n ELSE heap[job[k].map]
    BY <1>1, <2>1, <2>2 DEF Rewritten
  <2>4. job[k].map = m0 => job[k].cmd.doc = d0
    BY <1>2, <1>3, <2>1 DEF MapsInv
  <2> QED BY <2>3, <2>4
<1> QED BY <1>5, <1>6 DEF n

\* A change leaves what is confirmed, without what it touches.
LEMMA ChangeConfirmed ==
  ASSUME TypeInv, KeptInv, NEW j \in Jobs, Change(j)
  PROVE  ConfirmedStay' /\ HistoryInv'
<1> DEFINE cmd == job[j].cmd
           c == heap[job[j].map]
           n == Changed(cmd, job[j].seen, c)
           t == Touched(cmd, job[j].seen, c)
<1>1. /\ CmdOK(cmd) /\ cmd.name \notin {"stop", "clear"} /\ job[j].seen \in SUBSET Spams
      /\ job[j].map # NoMap /\ job[j].at = "change" /\ MapsInv /\ JobsInv
  BY Working DEF Change, TypeInv, Sound
<1>2. cmd.doc \in Docs /\ c \in SUBSET Facts[cmd.doc]
  BY <1>1, MapFacts
<1>3. /\ UNCHANGED <<srv, cache>>
      /\ kept' = [kept EXCEPT ![cmd.doc] = @ \ t] /\ gone' = [gone EXCEPT ![cmd.doc] = @ \ t]
  BY ChangeTypes DEF Touch
<1>4. /\ \A f \in Norm(c) : f \in Norm(n) \/ f \in t \/ f \in Olds
      /\ \A f \in Norm(n) :
           \/ f \in Norm(c) \/ f \in t
           \/ cmd.name = "initUsers" /\ f \in Users
           \/ cmd.name = "migrate" /\ f = Migrated
  BY <1>1, <1>2, ChangedKeeps
<1>5. /\ cmd.name = "users" => n \cap Users = cmd.add
      /\ cmd.name = "initUsers" => c \cap Users \subseteq n
      /\ cmd.name \notin {"users", "initUsers"} => n \cap Users = c \cap Users
  BY <1>1, ChangedUsers
<1>6. \A d \in Docs : \/ View(d)' = View(d)
                      \/ d = cmd.doc /\ cache[d] = job[j].map /\ View(d) = c /\ View(d)' = n
  BY ChangeViews
<1>7. cmd.name = "users" => Users \subseteq t
  BY <1>1, MeantFacts DEF Touched
<1>8. cmd.name = "initUsers" /\ cache["bot"] = job[j].map => View("bot") \cap Users = {}
  BY <1>1 DEF KeptInv, FirstInv
<1> HIDE DEF cmd, c, n, t
<1>9. /\ \A d \in Docs \ {cmd.doc} : kept'[d] = kept[d] /\ gone'[d] = gone[d]
      /\ kept'[cmd.doc] = kept[cmd.doc] \ t /\ gone'[cmd.doc] = gone[cmd.doc] \ t
  BY <1>2, <1>3 DEF TypeInv, Content
<1>10. HistoryInv'
  <2>1. kept'["room"] \cap Olds = {} /\ Migrated \notin gone'["bot"]
    BY <1>9 DEF KeptInv, HistoryInv
  <2> SUFFICES ASSUME gone'["bot"] \cap Users # {}
               PROVE  srv'["bot"] \cap Users # {} /\ View("bot")' \cap Users # {}
    BY <2>1 DEF HistoryInv
  <2>2. gone["bot"] \cap Users # {} /\ (cmd.doc = "bot" => cmd.name # "users")
    BY <1>7, <1>9
  <2>3. srv["bot"] \cap Users # {} /\ View("bot") \cap Users # {}
    BY <2>2 DEF KeptInv, HistoryInv
  <2>4. View("bot")' \cap Users # {}
    BY <1>5, <1>6, <2>2, <2>3
  <2> QED BY <1>3, <2>3, <2>4
<1>11. ASSUME NEW d \in Docs
       PROVE  /\ kept'[d] \subseteq Norm(srv'[d]) /\ kept'[d] \subseteq Norm(View(d)')
              /\ gone'[d] \cap Norm(srv'[d]) = {} /\ gone'[d] \cap Norm(View(d)') = {}
  <2>1. /\ kept[d] \subseteq Norm(srv[d]) /\ kept[d] \subseteq Norm(View(d))
        /\ gone[d] \cap Norm(srv[d]) = {} /\ gone[d] \cap Norm(View(d)) = {}
    BY DEF KeptInv, ConfirmedStay
  <2>2. kept'[d] \subseteq kept[d] /\ gone'[d] \subseteq gone[d]
    BY <1>9
  <2>3. CASE View(d)' = View(d)
    BY <1>3, <2>1, <2>2, <2>3
  <2>4. CASE d = cmd.doc /\ cache[d] = job[j].map /\ View(d) = c /\ View(d)' = n
    <3>1. kept[d] \cap Olds = {}
      <4>1. CASE d = "room"
        BY <4>1 DEF KeptInv, HistoryInv
      <4>2. CASE d # "room"
        BY <4>2, FactsApart DEF TypeInv, Content
      <4> QED BY <4>1, <4>2
    <3>2. kept'[d] \subseteq Norm(n)
      BY <1>4, <1>9, <2>1, <2>4, <3>1
    <3>3. ASSUME cmd.name = "initUsers" PROVE gone[d] \cap Users = {}
      <4>1. d = "bot"
        BY <1>1, <2>4, <3>3 DEF CmdOK, cmd
      <4>2. View("bot") \cap Users = {}
        BY <1>8, <2>4, <3>3, <4>1
      <4> QED BY <4>1, <4>2 DEF KeptInv, HistoryInv
    <3>4. ASSUME cmd.name = "migrate" PROVE Migrated \notin gone[d]
      <4>1. d = "bot"
        BY <1>1, <2>4, <3>4 DEF CmdOK, cmd
      <4> QED BY <4>1 DEF KeptInv, HistoryInv
    <3>5. gone'[d] \cap Norm(n) = {}
      BY <1>4, <1>9, <2>1, <2>4, <3>3, <3>4
    <3> QED BY <1>3, <2>1, <2>2, <2>4, <3>2, <3>5
  <2> QED BY <1>6, <2>3, <2>4
<1>12. ConfirmedStay'
  BY <1>11, ConfirmedNext
<1> QED BY <1>10, <1>12

\* A handler changes its map.
LEMMA ChangeKeeps ==
  ASSUME TypeInv, KeptInv, AccessInv, NEW j \in Jobs, Change(j)
  PROVE  KeptInv' /\ AccessInv'
<1> DEFINE cmd == job[j].cmd
           c == heap[job[j].map]
           n == Changed(cmd, job[j].seen, c)
           t == Touched(cmd, job[j].seen, c)
           U == UNION {Meant(job[k].cmd) :
                         k \in {k \in Jobs \ {j} : job[k].at \in {"save", "allow"}}}
<1>1. /\ CmdOK(cmd) /\ cmd.name \notin {"stop", "clear"} /\ job[j].seen \in SUBSET Spams
      /\ job[j].map # NoMap /\ job[j].at = "change" /\ MapsInv /\ JobsInv
  BY Working DEF Change, TypeInv, Sound
<1>2. cmd.doc \in Docs /\ c \in SUBSET Facts[cmd.doc]
  BY <1>1, MapFacts
<1>3. TypeInv' /\ UNCHANGED <<srv, cache, phase, allowed>> /\ Touch(j, t)
  BY ChangeTypes
<1>4. /\ \A k \in Jobs : /\ job'[k].cmd = job[k].cmd /\ job'[k].map = job[k].map
                         /\ job'[k].apart = job[k].apart
      /\ job'[j].at = "save" /\ job'[j].sure = Meant(cmd) \ U
      /\ \A k \in Jobs \ {j} : job'[k].at = job[k].at /\ job'[k].sure = job[k].sure \ t
  <2> HIDE DEF t
  <2> QED BY <1>1, <1>3, TouchJobs
<1>5. /\ cmd.add \subseteq n
      /\ \A f \in c : f \in n \/ f \in t \/ f \in Olds
  BY <1>1, <1>2, ChangedFacts, ChangedKeeps
<1>6. /\ cmd.name = "users" => n \cap Users = cmd.add
      /\ cmd.name \notin {"users", "initUsers"} => n \cap Users = c \cap Users
  BY <1>1, ChangedUsers
<1>7. /\ \A k \in Jobs : CmdOK(job[k].cmd) /\ Sound(job[k])
      /\ \A k \in Jobs : job[k].cmd.name = "users" => Meant(job[k].cmd) = Users
      /\ \A k \in Jobs : job[k].cmd.name # "users" => Meant(job[k].cmd) \cap Users = {}
  BY <1>1, Working, MeantFacts
<1>8. /\ cmd.name = "users" => Users \subseteq t
      /\ cmd.name # "users" => Users \cap t = {}
  BY <1>7, FactsApart DEF Touched
<1>9. U \cap Users \in {{}, Users}
  BY <1>7
<1>10. \A k \in Jobs \ {j} : job[k].at \in {"save", "allow"} /\ job[k].cmd.name = "users"
         => Users \subseteq U
  BY <1>7
<1>11. \A k \in Jobs : job[k].map # NoMap =>
         \/ heap'[job[k].map] = heap[job[k].map] /\ job[k].map # job[j].map
         \/ /\ job[k].map = job[j].map /\ job[k].cmd.doc = cmd.doc
            /\ heap'[job[k].map] = n
  BY ChangeViews
<1>12. \/ View("bot")' = View("bot")
       \/ cmd.doc = "bot" /\ View("bot") = c /\ View("bot")' = n
  BY ChangeViews
<1>13. /\ kept' = [kept EXCEPT ![cmd.doc] = @ \ t] /\ gone' = [gone EXCEPT ![cmd.doc] = @ \ t]
  BY <1>3 DEF Touch
<1> HIDE DEF c, n, t, U
<1>14. SureInv'
  <2> SUFFICES ASSUME NEW k \in Jobs
               PROVE  /\ job'[k].at = "save" => job'[k].sure \cap job'[k].cmd.add \subseteq heap'[job'[k].map]
                      /\ job'[k].cmd.name = "users" => job'[k].sure \in {{}, Users}
                      /\ job'[k].cmd.name = "users" /\ job'[k].at = "save" /\ job'[k].sure # {}
                           => heap'[job'[k].map] \cap Users = job'[k].cmd.add
                      /\ job'[k].at = "allow" /\ ~job'[k].apart /\ job'[k].sure # {} =>
                           /\ srv'["bot"] \cap Users = job'[k].cmd.add
                           /\ View("bot")' \cap Users = job'[k].cmd.add
    BY DEF SureInv
  <2>1. CASE k = j
    <3>1. heap'[job[j].map] = n
      BY <1>1, <1>11
    <3>2. cmd.name = "users" => Meant(cmd) = Users
      BY <1>7
    <3> QED BY <1>4, <1>5, <1>6, <1>9, <2>1, <3>1, <3>2
  <2>2. CASE k # j
    <3>1. /\ job'[k].cmd = job[k].cmd /\ job'[k].map = job[k].map /\ job'[k].at = job[k].at
          /\ job'[k].sure = job[k].sure \ t /\ job'[k].apart = job[k].apart
      BY <1>4, <2>2
    <3>2. /\ job[k].at = "save" => job[k].sure \cap job[k].cmd.add \subseteq heap[job[k].map]
          /\ job[k].cmd.name = "users" => job[k].sure \in {{}, Users}
          /\ job[k].cmd.name = "users" /\ job[k].at = "save" /\ job[k].sure # {}
               => heap[job[k].map] \cap Users = job[k].cmd.add
          /\ job[k].at = "allow" /\ ~job[k].apart /\ job[k].sure # {} =>
               /\ srv["bot"] \cap Users = job[k].cmd.add
               /\ View("bot") \cap Users = job[k].cmd.add
      BY DEF KeptInv, SureInv
    <3>3. job[k].at = "save" => job[k].map # NoMap /\ job[k].cmd.add \cap Olds = {}
      BY <1>7 DEF Sound, CmdOK
    <3>4. job'[k].at = "save" => job'[k].sure \cap job'[k].cmd.add \subseteq heap'[job'[k].map]
      BY <1>5, <1>11, <3>1, <3>2, <3>3 DEF c
    <3>5. job'[k].cmd.name = "users" => job'[k].sure \in {{}, Users}
      BY <1>8, <3>1, <3>2
    <3>6. job[k].at # "idle" => cmd.name # "initUsers"
      BY <2>2, FirstAlone
    <3>7. ASSUME job[k].cmd.name = "users", job'[k].sure # {}
          PROVE  cmd.name # "users" /\ job[k].sure # {}
      BY <1>8, <3>1, <3>2, <3>7
    <3>8. job'[k].cmd.name = "users" /\ job'[k].at = "save" /\ job'[k].sure # {}
            => heap'[job'[k].map] \cap Users = job'[k].cmd.add
      BY <1>6, <1>11, <3>1, <3>2, <3>3, <3>6, <3>7 DEF c
    <3>9. job'[k].at = "allow" /\ ~job'[k].apart /\ job'[k].sure # {} =>
            /\ srv'["bot"] \cap Users = job'[k].cmd.add
            /\ View("bot")' \cap Users = job'[k].cmd.add
      <4>1. job[k].at = "allow" => job[k].cmd.name = "users"
        BY <1>7 DEF Sound
      <4> QED BY <1>3, <1>6, <1>12, <3>1, <3>2, <3>6, <3>7, <4>1
    <3> QED BY <3>4, <3>5, <3>8, <3>9
  <2> QED BY <2>1, <2>2
<1>15. /\ kept'["bot"] \subseteq kept["bot"] /\ gone'["bot"] \subseteq gone["bot"]
       /\ cmd.name = "users" => kept'["bot"] \cap Users = {} /\ gone'["bot"] \cap Users = {}
  <2>1. cmd.name = "users" => cmd.doc = "bot"
    BY <1>1 DEF CmdOK
  <2> QED BY <1>2, <1>8, <1>13, <2>1 DEF TypeInv, Content
<1>16. \A k \in Jobs \ {j} : Pending(job[k])' <=> Pending(job[k])
  BY <1>4 DEF Pending
<1>17. Pending(job[j])' <=> cmd.name = "users"
  BY <1>4 DEF Pending
<1>18. UsersInv'
  <2>1. ASSUME NEW a \in Jobs, NEW b \in Jobs, Pending(job[a])', Pending(job[b])', a # b
        PROVE  job'[a].sure = {}
    <3>1. CASE a = j
      <4>1. job[b].at \in {"save", "allow"} /\ job[b].cmd.name = "users"
        BY <1>16, <2>1, <3>1 DEF Pending
      <4>2. Meant(cmd) = Users
        BY <1>7, <1>17, <2>1, <3>1
      <4> QED BY <1>4, <1>10, <2>1, <3>1, <4>1, <4>2
    <3>2. CASE b = j
      <4>1. job[a].cmd.name = "users" /\ cmd.name = "users"
        BY <1>16, <1>17, <2>1, <3>2 DEF Pending
      <4>2. job[a].sure \subseteq Users
        BY <1>7, <4>1 DEF Sound
      <4> QED BY <1>4, <1>8, <2>1, <3>2, <4>1, <4>2
    <3>3. CASE a # j /\ b # j
      BY <1>4, <1>16, <2>1, <3>3 DEF KeptInv, UsersInv
    <3> QED BY <3>1, <3>2, <3>3
  <2>2. (\E k \in Jobs : Pending(job[k])') => kept'["bot"] \cap Users = {} /\ gone'["bot"] \cap Users = {}
    BY <1>15, <1>16, <1>17 DEF KeptInv, UsersInv
  <2> QED BY <2>1, <2>2 DEF UsersInv
<1>19. SharedInv'
  <2>1. \A k \in Jobs : Renewed(job[k])' <=> Renewed(job[k])
    BY <1>1, <1>4 DEF Renewed
  <2> QED BY <1>3, <1>4, <2>1 DEF KeptInv, SharedInv
<1>20. FirstInv'
  <2> SUFFICES ASSUME NEW k \in Jobs, job'[k].cmd.name = "initUsers", job'[k].at = "change"
               PROVE  FALSE
    BY DEF FirstInv
  <2>1. k # j
    BY <1>4
  <2> QED BY <1>1, <1>4, <2>1, FirstAlone
<1>21. AccessInv'
  <2> SUFFICES ASSUME phase' \notin {"down", "new"}, \A k \in Jobs : ~Pending(job[k])',
                      NEW p \in People
               PROVE  /\ User(p) \in kept'["bot"] => p \in allowed'
                      /\ User(p) \in gone'["bot"] => p \notin allowed'
    BY DEF AccessInv
  <2>1. \A k \in Jobs : ~Pending(job[k])
    BY <1>1, <1>16 DEF Pending
  <2> QED BY <1>3, <1>15, <2>1 DEF AccessInv
<1> QED BY <1>14, <1>18, <1>19, <1>20, <1>21, ChangeConfirmed DEF KeptInv

\* The end of `users`.
LEMMA AllowKeeps ==
  ASSUME TypeInv, KeptInv, AccessInv, NEW j \in Jobs, Allow(j)
  PROVE  KeptInv' /\ AccessInv'
<1> DEFINE cmd == job[j].cmd
           sure == IF job[j].apart THEN {} ELSE job[j].sure
<1>1. /\ TypeInv' /\ Unseen /\ UNCHANGED <<srv, cache>>
      /\ job'[j] = Idle /\ \A k \in Jobs \ {j} : job'[k] = job[k]
  BY EndTypes
<1>2. /\ job[j].at = "allow" /\ allowed' = UsersOf(cmd.add)
      /\ Confirm("bot", cmd, sure, kept["bot"], gone["bot"])
  BY DEF Allow
<1>3. CmdOK(cmd) /\ Sound(job[j])
  BY Working DEF TypeInv
<1>4. /\ cmd.name = "users" /\ cmd.drop = Users /\ cmd.add \subseteq Users /\ cmd.add # {}
      /\ Pending(job[j])
  BY <1>2, <1>3 DEF Sound, CmdOK, Pending
<1>5. \/ sure = {}
      \/ /\ sure = Users /\ sure = job[j].sure
         /\ srv["bot"] \cap Users = cmd.add /\ View("bot") \cap Users = cmd.add
  BY <1>2, <1>4 DEF KeptInv, SureInv
<1>6. /\ kept["bot"] \cap Users = {} /\ gone["bot"] \cap Users = {}
      /\ \A k \in Jobs \ {j} : Pending(job[k]) => sure = {}
  BY <1>4 DEF KeptInv, UsersInv
<1> HIDE DEF sure, cmd
<1>7. /\ \A d \in Docs \ {"bot"} : kept'[d] = kept[d] /\ gone'[d] = gone[d]
      /\ kept'["bot"] = kept["bot"] \cup (sure \cap cmd.add)
      /\ gone'["bot"] = gone["bot"] \cup (sure \cap (Users \ cmd.add))
  BY <1>2, <1>4 DEF Confirm, TypeInv, Content
<1>8. /\ \A d \in Docs : View(d)' = View(d)
      /\ \A m \in Maps, d \in Docs : Holds(m, d) /\ Holds(m, d)' => heap'[m] = heap[m]
  BY <1>1 DEF Unseen
<1>9. /\ SureInv'
      /\ \A k \in Jobs : Pending(job[k])' => Pending(job[k]) /\ job'[k].sure = job[k].sure
  <2>1. \A k \in Jobs : Quiet(k)
    BY <1>1, IdleSound DEF Quiet
  <2> QED BY <1>1, <1>8, <2>1, QuietSure DEF KeptInv
<1>10. ~Pending(job[j])'
  BY <1>1, IdleSound DEF Pending
<1>11. ConfirmedStay'
  <2> SUFFICES ASSUME NEW d \in Docs
               PROVE  /\ kept'[d] \subseteq Norm(srv[d]) /\ kept'[d] \subseteq Norm(View(d))
                      /\ gone'[d] \cap Norm(srv[d]) = {} /\ gone'[d] \cap Norm(View(d)) = {}
    BY <1>1, <1>8, ConfirmedNext
  <2>1. /\ kept[d] \subseteq Norm(srv[d]) /\ kept[d] \subseteq Norm(View(d))
        /\ gone[d] \cap Norm(srv[d]) = {} /\ gone[d] \cap Norm(View(d)) = {}
    BY DEF KeptInv, ConfirmedStay
  <2>2. Norm(srv[d]) \cap Users = srv[d] \cap Users /\ Norm(View(d)) \cap Users = View(d) \cap Users
    BY NormFacts
  <2> QED BY <1>4, <1>5, <1>7, <2>1, <2>2
<1>12. HistoryInv'
  <2>1. Migrated \notin Users
    BY FactsApart
  <2> QED BY <1>1, <1>4, <1>5, <1>7, <1>8, <2>1 DEF KeptInv, HistoryInv
<1>13. UsersInv'
  <2>1. (\E k \in Jobs : Pending(job[k])') => kept'["bot"] \cap Users = {} /\ gone'["bot"] \cap Users = {}
    BY <1>6, <1>7, <1>9, <1>10
  <2> QED BY <1>9, <2>1 DEF KeptInv, UsersInv
<1>14. SharedInv'
  BY <1>1, IdleSound DEF KeptInv, SharedInv, Renewed
<1>15. FirstInv'
  <2> SUFFICES ASSUME NEW k \in Jobs, job'[k].cmd.name = "initUsers", job'[k].at = "change"
               PROVE  FALSE
    BY DEF FirstInv
  <2>1. k # j
    BY <1>1, IdleSound
  <2> QED BY <1>1, <1>2, <2>1, FirstAlone
<1>16. AccessInv'
  <2> SUFFICES ASSUME NEW p \in People
               PROVE  /\ User(p) \in kept'["bot"] => p \in allowed'
                      /\ User(p) \in gone'["bot"] => p \notin allowed'
    BY DEF AccessInv
  <2>1. User(p) \in Users
    BY DEF Users
  <2> QED BY <1>2, <1>6, <1>7, <2>1 DEF UsersOf, cmd
<1> QED BY <1>9, <1>11, <1>12, <1>13, <1>14, <1>15, <1>16 DEF KeptInv

\* What a set confirms, and what stays confirmed: of the map that is saved.
LEMMA SetHistory ==
  ASSUME TypeInv, KeptInv, NEW j \in Jobs, job[j].at = "save",
         NEW applied \in BOOLEAN, NEW failed \in BOOLEAN, Answer(j, applied, failed)
  PROVE  LET d0 == job[j].cmd.doc
             c == heap[job[j].map]
         IN /\ \A d \in Docs \ {d0} : kept'[d] = kept[d] /\ gone'[d] = gone[d] /\ srv'[d] = srv[d]
            /\ kept'[d0] \subseteq Norm(c) /\ gone'[d0] \cap Norm(c) = {}
            /\ \/ srv'[d0] = c
               \/ srv'[d0] = srv[d0] /\ kept'[d0] \subseteq kept[d0] /\ gone'[d0] \subseteq gone[d0]
            /\ kept'["bot"] \cap Users \subseteq kept["bot"]
            /\ gone'["bot"] \cap Users \subseteq gone["bot"]
            /\ kept'["room"] \cap Olds = {} /\ Migrated \notin gone'["bot"]
            /\ d0 = "bot" /\ gone'["bot"] \cap Users # {} => c \cap Users # {}
            /\ ~Lost(j) => c = View(d0) /\ cache[d0] = job[j].map
<1> DEFINE cmd == job[j].cmd
           d0 == job[j].cmd.doc
           c == heap[job[j].map]
           conf == Confirmed(j, failed)
<1>1. /\ CmdOK(cmd) /\ Sound(job[j]) /\ d0 \in Docs /\ c \in SUBSET Facts[d0]
      /\ job[j].map \in Maps /\ NoMap \notin Maps
  BY Working, MapFacts, NoMapApart DEF TypeInv, Sound
<1>2. ~Lost(j) => c = View(d0) /\ cache[d0] = job[j].map
  BY <1>1 DEF Lost, KeptInv, SharedInv, Renewed, View
<1>3. /\ Confirm(d0, cmd, conf, StillKept(j), StillGone(j)) /\ (applied \/ failed)
      /\ srv' = IF applied THEN [srv EXCEPT ![d0] = c] ELSE srv
  BY DEF Answer
<1>4. /\ conf \subseteq job[j].sure /\ conf \cap cmd.add \subseteq c
      /\ (conf \ cmd.add) \cap Norm(c) = {} /\ (failed => conf = {})
      /\ (cmd.name = "users" => conf = {})
  BY DEF Confirmed, KeptInv, SureInv
<1>5. /\ StillKept(j) \subseteq kept[d0] /\ StillGone(j) \subseteq gone[d0]
      /\ Lost(j) => /\ StillKept(j) \subseteq Norm(c) /\ StillGone(j) \cap Norm(c) = {}
                    /\ (StillGone(j) \cap Users # {} => c \cap Users # {})
  BY DEF StillKept, StillGone
<1>6. /\ kept[d0] \subseteq Norm(View(d0)) /\ gone[d0] \cap Norm(View(d0)) = {}
      /\ kept["room"] \cap Olds = {} /\ Migrated \notin gone["bot"]
      /\ gone["bot"] \cap Users # {} => View("bot") \cap Users # {}
  BY <1>1 DEF KeptInv, ConfirmedStay, HistoryInv
<1>7. conf \cap (cmd.drop \cup cmd.add) \cap Users = {}
  <2>1. job[j].sure \subseteq Meant(cmd)
    BY <1>1 DEF Sound
  <2>2. CASE cmd.name = "initUsers"
    BY <1>4, <2>1, <2>2 DEF Meant
  <2>3. CASE cmd.name # "initUsers"
    BY <1>1, <1>4, <2>3 DEF CmdOK
  <2> QED BY <2>2, <2>3
<1>8. cmd.add \cap Olds = {} /\ Migrated \notin cmd.drop
  BY <1>1 DEF CmdOK
<1>9. c \subseteq Norm(c)
  BY NormFacts
<1> HIDE DEF cmd, d0, c, conf
<1>10. /\ \A d \in Docs \ {d0} : kept'[d] = kept[d] /\ gone'[d] = gone[d] /\ srv'[d] = srv[d]
       /\ kept'[d0] = StillKept(j) \cup (conf \cap cmd.add)
       /\ gone'[d0] = StillGone(j) \cup (conf \cap (cmd.drop \ cmd.add))
       /\ srv'[d0] = IF applied THEN c ELSE srv[d0]
  BY <1>1, <1>3 DEF Confirm, TypeInv, Content
<1>11. kept'[d0] \subseteq Norm(c) /\ gone'[d0] \cap Norm(c) = {}
  BY <1>2, <1>4, <1>5, <1>6, <1>9, <1>10
<1>12. \/ srv'[d0] = c
       \/ srv'[d0] = srv[d0] /\ kept'[d0] \subseteq kept[d0] /\ gone'[d0] \subseteq gone[d0]
  BY <1>3, <1>4, <1>5, <1>10
<1>13. /\ kept'["bot"] \cap Users \subseteq kept["bot"]
       /\ gone'["bot"] \cap Users \subseteq gone["bot"]
  BY <1>5, <1>7, <1>10
<1>14. kept'["room"] \cap Olds = {} /\ Migrated \notin gone'["bot"]
  BY <1>5, <1>6, <1>8, <1>10
<1>15. d0 = "bot" /\ gone'["bot"] \cap Users # {} => c \cap Users # {}
  BY <1>2, <1>5, <1>6, <1>7, <1>10
<1> QED BY <1>2, <1>10, <1>11, <1>12, <1>13, <1>14, <1>15 DEF d0, c

\* A set leaves what is confirmed on the homeserver and for the readers.
LEMMA SetConfirmed ==
  ASSUME TypeInv, KeptInv, NEW j \in Jobs, job[j].at = "save", UNCHANGED commands,
         NEW applied \in BOOLEAN, NEW failed \in BOOLEAN, Answer(j, applied, failed)
  PROVE  ConfirmedStay' /\ HistoryInv'
<1> DEFINE d0 == job[j].cmd.doc
           c == heap[job[j].map]
<1>1. /\ \A d \in Docs \ {d0} : kept'[d] = kept[d] /\ gone'[d] = gone[d] /\ srv'[d] = srv[d]
      /\ kept'[d0] \subseteq Norm(c) /\ gone'[d0] \cap Norm(c) = {}
      /\ \/ srv'[d0] = c
         \/ srv'[d0] = srv[d0] /\ kept'[d0] \subseteq kept[d0] /\ gone'[d0] \subseteq gone[d0]
      /\ gone'["bot"] \cap Users \subseteq gone["bot"]
      /\ kept'["room"] \cap Olds = {} /\ Migrated \notin gone'["bot"]
      /\ d0 = "bot" /\ gone'["bot"] \cap Users # {} => c \cap Users # {}
  BY SetHistory
<1>2. \A d \in Docs : \/ View(d)' = srv'[d]
                      \/ d = d0 /\ View(d)' = c
                      \/ d # d0 /\ View(d)' = View(d)
  <2>1. CASE Stopped
    BY <2>1, StoppedKeeps
  <2>2. CASE ~Stopped
    <3>1. Replaced(j)
      BY <2>2, SetTypes
    <3> QED BY <3>1 DEF Replaced
  <2> QED BY <2>1, <2>2
<1>3. d0 \in Docs
  BY Working DEF TypeInv
<1> HIDE DEF d0, c
<1>4. ASSUME NEW d \in Docs
      PROVE  /\ kept'[d] \subseteq Norm(srv'[d]) /\ kept'[d] \subseteq Norm(View(d)')
             /\ gone'[d] \cap Norm(srv'[d]) = {} /\ gone'[d] \cap Norm(View(d)') = {}
  <2>1. /\ kept[d] \subseteq Norm(srv[d]) /\ kept[d] \subseteq Norm(View(d))
        /\ gone[d] \cap Norm(srv[d]) = {} /\ gone[d] \cap Norm(View(d)) = {}
    BY DEF KeptInv, ConfirmedStay
  <2>2. kept'[d] \subseteq Norm(srv'[d]) /\ gone'[d] \cap Norm(srv'[d]) = {}
    BY <1>1, <2>1
  <2> QED BY <1>1, <1>2, <2>1, <2>2
<1>5. ConfirmedStay'
  BY <1>4, ConfirmedNext
<1>6. HistoryInv'
  <2> SUFFICES ASSUME gone'["bot"] \cap Users # {}
               PROVE  srv'["bot"] \cap Users # {} /\ View("bot")' \cap Users # {}
    BY <1>1 DEF HistoryInv
  <2>1. srv["bot"] \cap Users # {} /\ View("bot") \cap Users # {}
    BY <1>1 DEF KeptInv, HistoryInv
  <2>2. srv'["bot"] \cap Users # {}
    BY <1>1, <2>1
  <2> QED BY <1>1, <1>2, <2>1, <2>2
<1> QED BY <1>5, <1>6

\* A set that does not end the process.
LEMMA SavedKeeps ==
  ASSUME TypeInv, KeptInv, AccessInv, NEW j \in Jobs, job[j].at = "save", UNCHANGED commands,
         NEW applied \in BOOLEAN, NEW failed \in BOOLEAN, Answer(j, applied, failed), ~Stopped
  PROVE  SharedInv' /\ SureInv' /\ UsersInv' /\ FirstInv' /\ AccessInv'
<1> DEFINE cmd == job[j].cmd
           d0 == job[j].cmd.doc
           c == heap[job[j].map]
<1>1. /\ CmdOK(cmd) /\ Sound(job[j]) /\ d0 \in Docs
      /\ \A k \in Jobs : CmdOK(job[k].cmd) /\ Sound(job[k]) /\ job[k].cmd.doc \in Docs
  BY Working DEF TypeInv
<1>2. TypeInv' /\ Replaced(j)
  BY SetTypes
<1>3. /\ job'[j].map = NoMap /\ ~job'[j].apart
      /\ \/ /\ cmd.name = "users" /\ job'[j].at = "allow" /\ job'[j].cmd = cmd
            /\ job'[j].sure = IF failed THEN {} ELSE job[j].sure
            /\ UNCHANGED <<phase, allowed>>
         \/ /\ cmd.name # "users" /\ job'[j] = Idle
            /\ \/ /\ cmd.name = "initUsers" /\ allowed' = UsersOf(c)
               \/ /\ cmd.name # "initUsers" /\ phase \notin {"down", "new"}
                  /\ allowed' = allowed
  BY AnswerCases
<1>4. /\ \A d \in Docs \ {d0} : srv'[d] = srv[d]
      /\ srv'[d0] = c \/ srv'[d0] = srv[d0]
      /\ kept'["bot"] \cap Users \subseteq kept["bot"]
      /\ gone'["bot"] \cap Users \subseteq gone["bot"]
      /\ ~Lost(j) => c = View(d0) /\ cache[d0] = job[j].map
  BY SetHistory
<1>5. /\ cache'[d0] = job[j].map
      /\ \A d \in Docs \ {d0} : cache'[d] = cache[d] /\ View(d)' = View(d)
      /\ d0 = "bot" => View("bot")' = c
      /\ \A m \in Maps, d \in Docs : Holds(m, d) /\ Holds(m, d)' => heap'[m] = heap[m]
  BY <1>2 DEF Replaced
<1>6. \A k \in Jobs \ {j} :
        /\ job'[k].at = job[k].at /\ job'[k].cmd = job[k].cmd
        /\ job'[k].map = job[k].map /\ job'[k].sure = job[k].sure
        /\ job'[k].apart \/ job'[k] = job[k]
        /\ Lost(j) /\ k \in Holders(d0) => job'[k].apart
  BY <1>2 DEF Replaced
<1>7. ~failed => srv'[d0] = c
  BY <1>1 DEF Answer, TypeInv, Content
<1> HIDE DEF cmd, d0, c
<1>8. SharedInv'
  <2> SUFFICES ASSUME NEW k \in Jobs, ~job'[k].apart, job'[k].map # NoMap, ~Renewed(job[k])'
               PROVE  job'[k].map = cache'[job'[k].cmd.doc]
    BY DEF SharedInv
  <2>1. k # j
    BY <1>3
  <2>2. /\ job'[k] = job[k] /\ (Lost(j) => k \notin Holders(d0))
        /\ ~Renewed(job[k])
    BY <1>6, <2>1 DEF Renewed
  <2>3. job[k].map = cache[job[k].cmd.doc] /\ job[k].cmd.doc \in Docs
    BY <1>1, <2>2 DEF KeptInv, SharedInv
  <2>4. job[k].cmd.doc = d0 => k \in Holders(d0)
    BY <1>1, <2>2 DEF Holders, Sound
  <2> QED BY <1>4, <1>5, <2>2, <2>3, <2>4
<1>9. SureInv'
  <2> SUFFICES ASSUME NEW k \in Jobs
               PROVE  /\ job'[k].at = "save" => job'[k].sure \cap job'[k].cmd.add \subseteq heap'[job'[k].map]
                      /\ job'[k].cmd.name = "users" => job'[k].sure \in {{}, Users}
                      /\ job'[k].cmd.name = "users" /\ job'[k].at = "save" /\ job'[k].sure # {}
                           => heap'[job'[k].map] \cap Users = job'[k].cmd.add
                      /\ job'[k].at = "allow" /\ ~job'[k].apart /\ job'[k].sure # {} =>
                           /\ srv'["bot"] \cap Users = job'[k].cmd.add
                           /\ View("bot")' \cap Users = job'[k].cmd.add
    BY DEF SureInv
  <2>0. /\ job[k].at = "save" => job[k].sure \cap job[k].cmd.add \subseteq heap[job[k].map]
        /\ job[k].cmd.name = "users" => job[k].sure \in {{}, Users}
        /\ job[k].cmd.name = "users" /\ job[k].at = "save" /\ job[k].sure # {}
             => heap[job[k].map] \cap Users = job[k].cmd.add
        /\ job[k].at = "allow" /\ ~job[k].apart /\ job[k].sure # {} =>
             /\ srv["bot"] \cap Users = job[k].cmd.add
             /\ View("bot") \cap Users = job[k].cmd.add
    BY DEF KeptInv, SureInv
  <2>1. CASE k = j /\ cmd.name = "users"
    <3>1. /\ job'[j].at = "allow" /\ job'[j].cmd = cmd /\ d0 = "bot"
          /\ job'[j].sure = IF failed THEN {} ELSE job[j].sure
      BY <1>1, <1>3, <2>1 DEF CmdOK, cmd, d0
    <3> QED BY <1>5, <1>7, <2>0, <2>1, <3>1 DEF cmd, c
  <2>2. CASE k = j /\ cmd.name # "users"
    <3>1. job'[k] = Idle
      BY <1>3, <2>2
    <3> QED BY <3>1, IdleSound, CommandNames
  <2>3. CASE k # j
    <3>1. /\ job'[k].at = job[k].at /\ job'[k].cmd = job[k].cmd
          /\ job'[k].map = job[k].map /\ job'[k].sure = job[k].sure
          /\ job'[k].apart \/ job'[k] = job[k]
          /\ Lost(j) /\ k \in Holders(d0) => job'[k].apart
      BY <1>6, <2>3
    <3>2. CASE job[k].at = "save"
      <4>1. job[k].map \in Maps /\ job[k].cmd.doc \in Docs
        BY <1>1, <3>2, MapFacts DEF Sound, TypeInv
      <4>2. \A m \in {job[k].map}, d \in {job[k].cmd.doc} : Holds(m, d) /\ Holds(m, d)'
        BY <3>1 DEF Holds
      <4>3. heap'[job'[k].map] = heap[job[k].map]
        BY <1>5, <3>1, <4>1, <4>2
      <4> QED BY <2>0, <3>1, <3>2, <4>3
    <3>3. CASE job[k].at = "allow"
      <4> SUFFICES ASSUME ~job'[k].apart, job[k].sure # {}
                   PROVE  /\ srv'["bot"] \cap Users = job[k].cmd.add
                          /\ View("bot")' \cap Users = job[k].cmd.add
        BY <2>0, <3>1, <3>3
      <4>1. job[k].cmd.doc = "bot" /\ ~job[k].apart
        BY <1>1, <3>1, <3>3 DEF Sound, CmdOK
      <4>2. /\ srv["bot"] \cap Users = job[k].cmd.add
            /\ View("bot") \cap Users = job[k].cmd.add
        BY <2>0, <3>3, <4>1
      <4>3. CASE d0 = "bot"
        <5>1. k \in Holders(d0)
          BY <3>3, <4>1, <4>3 DEF Holders
        <5>2. ~Lost(j)
          BY <3>1, <5>1
        <5> QED BY <1>4, <1>5, <4>2, <4>3, <5>2
      <4>4. CASE d0 # "bot"
        BY <1>4, <1>5, <4>2, <4>4
      <4> QED BY <4>3, <4>4
    <3>4. CASE job[k].at \notin {"save", "allow"}
      BY <2>0, <3>1, <3>4
    <3> QED BY <3>2, <3>3, <3>4
  <2> QED BY <2>1, <2>2, <2>3
<1>10. \A k \in Jobs : Pending(job[k])' => Pending(job[k]) /\ job'[k].sure \in {{}, job[k].sure}
  <2>1. ~Pending(Idle)
    BY IdleSound DEF Pending
  <2>2. Pending(job[j])' => Pending(job[j]) /\ job'[j].sure \in {{}, job[j].sure}
    BY <1>3, <2>1 DEF Pending, cmd
  <2> QED BY <1>6, <2>2 DEF Pending
<1>11. UsersInv'
  BY <1>4, <1>10 DEF KeptInv, UsersInv
<1>12. FirstInv'
  <2> SUFFICES ASSUME NEW k \in Jobs, job'[k].cmd.name = "initUsers", job'[k].at = "change"
               PROVE  FALSE
    BY DEF FirstInv
  <2>1. k # j
    BY <1>3, IdleSound
  <2> QED BY <1>6, <2>1, FirstAlone
<1>13. AccessInv'
  <2>1. CASE cmd.name = "users"
    <3>1. Pending(job[j])'
      BY <1>3, <2>1 DEF Pending
    <3> QED BY <3>1 DEF AccessInv
  <2>2. CASE cmd.name = "initUsers"
    <3>1. d0 = "bot"
      BY <1>1, <2>2 DEF CmdOK, cmd, d0
    <3>2. allowed' = UsersOf(View("bot")')
      BY <1>3, <1>5, <2>2, <3>1
    <3> QED BY <3>2, SetConfirmed, AccessRead
  <2>3. CASE cmd.name \notin {"users", "initUsers"}
    <3> SUFFICES ASSUME \A k \in Jobs : ~Pending(job[k])', NEW p \in People
                 PROVE  /\ User(p) \in kept'["bot"] => p \in allowed'
                        /\ User(p) \in gone'["bot"] => p \notin allowed'
      BY DEF AccessInv
    <3>1. \A k \in Jobs : ~Pending(job[k])
      BY <1>6, <2>3 DEF Pending, cmd
    <3>2. User(p) \in Users
      BY DEF Users
    <3> QED BY <1>3, <1>4, <2>3, <3>1, <3>2 DEF AccessInv
  <2> QED BY <2>1, <2>2, <2>3
<1> QED BY <1>8, <1>9, <1>11, <1>12, <1>13

\* A set.
LEMMA SetKeeps ==
  ASSUME TypeInv, KeptInv, AccessInv, NEW j \in Jobs, Set(j)
  PROVE  KeptInv' /\ AccessInv'
<1>1. PICK applied, failed \in BOOLEAN : Answer(j, applied, failed)
  BY SetAnswer
<1>2. job[j].at = "save" /\ UNCHANGED commands
  BY SetAnswer
<1>3. ConfirmedStay' /\ HistoryInv'
  BY <1>1, <1>2, SetConfirmed
<1>4. CASE Stopped
  <2>1. \A k \in Jobs : job'[k] = Idle /\ ~Pending(Idle) /\ Idle.sure = {}
    BY <1>4, StoppedKeeps, IdleSound DEF Pending, Idle
  <2>2. SharedInv' /\ SureInv' /\ FirstInv'
    BY <2>1, IdleSound, CommandNames DEF SharedInv, SureInv, FirstInv
  <2>3. UsersInv'
    BY <2>1 DEF UsersInv
  <2>4. AccessInv'
    BY <1>4 DEF Stopped, AccessInv
  <2> QED BY <1>3, <2>2, <2>3, <2>4 DEF KeptInv
<1>5. CASE ~Stopped
  BY <1>1, <1>2, <1>3, <1>5, SavedKeeps DEF KeptInv
<1> QED BY <1>4, <1>5

\* The first state.
LEMMA InitKept == Init => KeptInv /\ AccessInv
<1> SUFFICES ASSUME Init PROVE KeptInv /\ AccessInv
  OBVIOUS
<1>1. \A j \in Jobs : job[j] = Idle /\ ~Pending(Idle) /\ Idle.sure = {}
  BY IdleSound DEF Init, Pending, Idle
<1>2. SharedInv /\ SureInv /\ FirstInv
  BY <1>1, IdleSound, CommandNames DEF SharedInv, SureInv, FirstInv
<1>3. UsersInv
  BY <1>1 DEF UsersInv
<1>4. AccessInv
  BY DEF Init, AccessInv
<1>5. /\ \A d \in Docs : View(d) = srv[d] /\ gone[d] = {}
      /\ kept["room"] = {Spam(s) : s \in Legacy} /\ kept["bot"] = srv["bot"]
      /\ kept["ban"] = srv["ban"] /\ srv["room"] = {Old(s) : s \in Legacy}
  BY DEF Init, View
<1>6. HistoryInv
  <2>1. kept["room"] \subseteq Spams
    BY <1>5, SettingsAssumption DEF Spams
  <2> QED BY <1>5, <2>1, FactsApart DEF HistoryInv
<1>7. ConfirmedStay
  <2>1. kept["room"] \subseteq Norm(srv["room"])
    BY <1>5, NormFacts
  <2>2. \A d \in Docs : kept[d] \subseteq Norm(srv[d])
    BY <1>5, <2>1, NormFacts
  <2> QED BY <1>5, <2>2 DEF ConfirmedStay
<1> QED BY <1>2, <1>3, <1>4, <1>6, <1>7 DEF KeptInv

\* Every step keeps what is confirmed, and access.
LEMMA NextKept == TypeInv /\ KeptInv /\ AccessInv /\ [Next]_vars => KeptInv' /\ AccessInv'
<1> SUFFICES ASSUME TypeInv, KeptInv, AccessInv, [Next]_vars PROVE KeptInv' /\ AccessInv'
  OBVIOUS
<1>1. ASSUME NEW j \in Jobs, Continue(j) PROVE KeptInv' /\ AccessInv'
  BY <1>1, GetKeeps, WithoutKeeps, ChangeKeeps, AsideKeeps, AllowKeeps, SetKeeps DEF Continue
<1>2. CASE UNCHANGED vars
  BY <1>2 DEF vars, memory, history, KeptInv, SharedInv, SureInv, HistoryInv, UsersInv,
     FirstInv, ConfirmedStay, AccessInv, Renewed, Pending, View, Norm
<1> QED BY <1>1, <1>2, StartKeeps, LossKeeps DEF Next

\* What a handler saved and confirmed stays, on the homeserver and for everybody
\* who reads it, until another handler is told to change it: for any number of
\* goroutines that share maps, refused saves, lost answers, evictions and crashes.
THEOREM ConfirmedSettingsStay == Spec => []ConfirmedStay
<1>1. Init => TypeInv /\ KeptInv /\ AccessInv
  BY InitTypes, InitKept
<1>2. (TypeInv /\ KeptInv /\ AccessInv) /\ [Next]_vars => (TypeInv /\ KeptInv /\ AccessInv)'
  BY NextTypes, NextKept
<1>3. KeptInv => ConfirmedStay
  BY DEF KeptInv
<1> QED BY <1>1, <1>2, <1>3, PTL DEF Spec

\* Who may use the bot is what the last `users` that was saved says, across
\* commands at the same time, failures and restarts.
THEOREM AccessStaysAsSet == Spec => []AccessIsKept
<1>1. Init => TypeInv /\ KeptInv /\ AccessInv
  BY InitTypes, InitKept
<1>2. (TypeInv /\ KeptInv /\ AccessInv) /\ [Next]_vars => (TypeInv /\ KeptInv /\ AccessInv)'
  BY NextTypes, NextKept
<1>3. AccessInv => AccessIsKept
  BY DEF AccessInv, AccessIsKept, Pending
<1> QED BY <1>1, <1>2, <1>3, PTL DEF Spec
=============================================================================
