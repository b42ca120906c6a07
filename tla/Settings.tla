------------------------------ MODULE Settings ------------------------------
(***************************************************************************)
(* The settings of the bridge: the options of the bot, the options of a    *)
(* room with its spamlist, and the banlist.  Each is one Go map, kept in   *)
(* the account data on the homeserver and in linkpearl's cache.            *)
(*                                                                         *)
(* Every command, reaction and SMTP session runs in a goroutine of its     *)
(* own: it gets the map, changes it, and saves it.  Get and set hold the   *)
(* lock of the document, so each is one step here; nothing is held between *)
(* them.  Get returns the cached map itself, so that goroutines share it,  *)
(* until the cache loses it or a set replaces it: Maps are the Go maps in  *)
(* memory, to which the goroutines and the cache refer.  What a handler    *)
(* does to its map is given as the facts that it drops and adds.           *)
(*                                                                         *)
(* Writing to a Go map that another goroutine writes to or saves may end   *)
(* the process (Crash).                                                    *)
(***************************************************************************)
EXTENDS Integers, FiniteSets

CONSTANTS
  People,        \* Matrix users in the room
  Admins,        \* those who match POSTMOOGLE_ADMINS
  Local,         \* those who match @*:homeserver
  Patterns,      \* what admins give to `users`, as the people who match
  Senders,       \* entries of the spamlist
  Legacy,        \* entries that the room has in the lists of old versions
  Addrs,         \* addresses of peers
  BannedBefore,  \* addresses on the banlist at first
  Jobs,          \* goroutines at a time
  MaxCommands,   \* bound: commands, bans and syncs by cron
  MaxFaults,     \* bound: failed API calls, evictions and crashes
  NoMap

ASSUME SettingsAssumption ==
  /\ Admins \subseteq People /\ Local \in (SUBSET People) \ {{}}
  /\ Patterns \subseteq (SUBSET People) \ {{}}
  /\ Legacy \subseteq Senders /\ BannedBefore \subseteq Addrs
  /\ IsFiniteSet(Jobs) /\ MaxCommands \in Nat /\ MaxFaults \in Nat
  /\ NoMap \notin Nat

Docs == {"bot", "room", "ban"}

\* The facts that a document may hold.
User(p)   == <<"user", p>>
Banlist   == <<"banlist:enabled", "true">>
AutoBan   == <<"banlist:auto", "true">>    \* or banlist:auth
Migrated  == <<"mautrix015migration", "timestamp">>
Owner(p)  == <<"owner", p>>
Mailbox   == <<"mailbox", "name">>
Option    == <<"option", "value">>         \* any other option, of a room or the bot
Spam(s)   == <<"spamlist", s>>
Old(s)    == <<"spamlist:emails", s>>      \* or spamlist:localparts, :hosts
Banned(a) == <<"address", a>>

Users  == {User(p) : p \in People}
Owners == {Owner(p) : p \in People}
Spams  == {Spam(s) : s \in Senders}
Olds   == {Old(s) : s \in Legacy}
Facts  == [bot  |-> Users \cup {Banlist, AutoBan, Migrated, Option},
           room |-> Owners \cup Spams \cup Olds \cup {Mailbox, Option},
           ban  |-> {Banned(a) : a \in Addrs}]
AllFacts == UNION {Facts[d] : d \in Docs}

\* One map for each document in the cache, one for each goroutine, one more.
Maps == 1..Cardinality(Jobs) + 4

VARIABLES
  srv,       \* the documents on the homeserver
  heap,      \* the maps
  cache,     \* the map cached for each document
  job,       \* the goroutines
  phase,     \* of the start of the process; "up": events are handled
  allowed,   \* b.allowedUsers
  commands, faults,
  kept,      \* history: facts of a document that were confirmed
  gone,      \* history: facts whose removal was confirmed
  unsaved    \* history: facts of the banlist confirmed without being saved

memory  == <<heap, cache>>
history == <<kept, gone, unsaved>>
vars    == <<srv, memory, job, phase, allowed, commands, faults, history>>

----------------------------------------------------------------------------
(* Handlers: the document they change, and the facts they drop and add.    *)

Cmd(name, doc, drop, add) ==
  [name |-> name, doc |-> doc, drop |-> drop, add |-> add]

\* An option that is on or off.
Switches(name, doc, fact) ==
  {Cmd(name, doc, {fact}, {}), Cmd(name, doc, {fact}, {fact})}

setOption      == Switches("setOption", "room", Option)
setOwner       == {Cmd("setOption", "room", Owners, new) :
                     new \in {{}} \cup {{Owner(p)} : p \in People}}
setPassword    == Cmd("set", "room", {Option}, {Option})
setRelay       == Switches("set", "room", Option)
setMailbox(p)  == Cmd("set", "room", Owners, {Owner(p), Mailbox})
setAliases(p)  == Cmd("set", "room", Owners, {Owner(p)})
runStop        == Cmd("stop", "room", Facts["room"], {})

runSpamlistAdd(s)    == Cmd("spamlist", "room", {}, {Spam(s)})
runSpamlistRemove(s) == Cmd("spamlist", "room", {Spam(s)}, {})
runSpamlistReset     == Cmd("spamlist", "room", Spams, {})
migrateRoomSettings  == Cmd("sync", "room", {}, {})

runUsers(P)          == Cmd("users", "bot", Users, {User(p) : p \in P})
runBanlist           == Switches("set", "bot", Banlist)
runGreylist          == Switches("set", "bot", Option)
runAdminRoom         == Cmd("set", "bot", {Option}, {Option})
runCatchAll          == Cmd("set", "bot", {Option}, {Option})
runDKIM              == {Cmd("dkim", "bot", drop, {Option}) : drop \in {{}, {Option}}}
\* Mutant: the option is stored with the banlist.
runBanlistAutoInList == Switches("set", "ban", AutoBan)
runBanlistAuto       == Switches("set", "bot", AutoBan)
runBanlistAuth       == Switches("set", "bot", AutoBan)
runDelete            == Cmd("clear", "room", Facts["room"], {})
initBotUsers         == Cmd("initUsers", "bot", {}, {User(p) : p \in Local})
migrateMautrix015    == Cmd("migrate", "bot", {}, {Migrated})

runBanlistAdd(a)     == Cmd("change", "ban", {}, {Banned(a)})
runBanlistRemove(a)  == Cmd("change", "ban", {Banned(a)}, {})
runBanlistReset      == Cmd("clear", "ban", Facts["ban"], {})
BanAuto(a)           == Cmd("auto", "ban", {}, {Banned(a)})
BanAuth(a)           == Cmd("auto", "ban", {}, {Banned(a)})

\* The commands that owners may give, and those for admins.
OwnerCommands(p) ==
  setOption \cup setRelay \cup setOwner
  \cup {setPassword, setMailbox(p), setAliases(p), runStop, runSpamlistReset}
  \cup {runSpamlistAdd(s) : s \in Senders}
  \cup {runSpamlistRemove(s) : s \in Senders}

AdminCommands ==
  runBanlist \cup runBanlistAuto \cup runBanlistAuth \cup runGreylist
  \cup runDKIM \cup setOption    \* queue:batch, queue:retries
  \cup {runAdminRoom, runCatchAll}
  \cup {runUsers(P) : P \in Patterns}
  \cup {runDelete, runBanlistReset}
  \cup {runBanlistAdd(a) : a \in Addrs} \cup {runBanlistRemove(a) : a \in Addrs}

AllCommands ==
  AdminCommands \cup (UNION {OwnerCommands(p) : p \in People})
  \cup {BanAuto(a) : a \in Addrs} \cup {BanAuth(a) : a \in Addrs}
  \cup {initBotUsers, migrateMautrix015, migrateRoomSettings}

Nothing == Cmd("none", "bot", {}, {})
Idle == [at |-> "idle", cmd |-> Nothing, map |-> NoMap, seen |-> {},
         sure |-> {}, apart |-> FALSE]
Job  == [at : {"idle", "get", "change", "save", "allow"},
         cmd : AllCommands \cup {Nothing}, map : Maps \cup {NoMap},
         seen : SUBSET AllFacts, sure : SUBSET AllFacts, apart : BOOLEAN]

TypeOK ==
  /\ \A d \in Docs : srv[d] \subseteq Facts[d]
  /\ \A d \in Docs : cache[d] # NoMap => heap[cache[d]] \subseteq Facts[d]
  /\ cache \in [Docs -> Maps \cup {NoMap}]
  /\ job \in [Jobs -> Job]
  /\ \A j \in Jobs : job[j].map # NoMap =>
                       heap[job[j].map] \subseteq Facts[job[j].cmd.doc]
  /\ phase \in {"down", "new", "users", "migrated", "up"}
  /\ allowed \subseteq People
  /\ commands \in 0..MaxCommands /\ faults \in 0..MaxFaults
  /\ \A d \in Docs : kept[d] \subseteq Facts[d] /\ gone[d] \subseteq Facts[d]
  /\ unsaved \subseteq Facts["ban"]

\* An installation of an older version, with a banlist and a legacy spamlist,
\* before its first start.
Init ==
  /\ srv = [bot  |-> {Banlist, AutoBan},
            room |-> {Old(s) : s \in Legacy},
            ban  |-> {Banned(a) : a \in BannedBefore}]
  /\ heap = [m \in Maps |-> {}] /\ cache = [d \in Docs |-> NoMap]
  /\ job = [j \in Jobs |-> Idle]
  /\ phase = "down" /\ allowed = {}
  /\ commands = 0 /\ faults = 0
  /\ kept = [srv EXCEPT !["room"] = {Spam(s) : s \in Legacy}]
  /\ gone = [d \in Docs |-> {}] /\ unsaved = {}

----------------------------------------------------------------------------
(* Memory and faults *)

Live  == {cache[d] : d \in Docs} \cup {job[j].map : j \in Jobs}
Fresh == CHOOSE m \in Maps : m \notin Live

\* The maps become h; the garbage collector clears those nothing refers to.
Memory(h) == heap' = [m \in Maps |-> IF m \in Live' THEN h[m] ELSE {}]

Fault(happens) ==
  IF happens THEN faults < MaxFaults /\ faults' = faults + 1
             ELSE faults' = faults

\* What a reader gets: the cached map, or what the homeserver has (reading it
\* caches it; here the next Get does).
View(d) == IF cache[d] = NoMap THEN srv[d] ELSE heap[cache[d]]

BanlistEnabled == Banlist \in View("bot")

\* History: the goroutines of P have a map, or have saved one, that is not the
\* one the others see.
Parted(P) ==
  [j \in Jobs |-> IF j \in P THEN [job[j] EXCEPT !.apart = TRUE] ELSE job[j]]

\* The goroutines that work on document d.
Holders(d) ==
  {j \in Jobs : job[j].cmd.doc = d /\ job[j].at \in {"change", "save", "allow"}}

----------------------------------------------------------------------------
(* Permissions *)

allowUsers(p) == p \in allowed \/ p \in Admins \/ Owner(p) \in View("room")

allowOwner(p) ==
  /\ allowUsers(p)
  /\ \/ Owners \cap View("room") = {}
     \/ Owner(p) \in View("room")
     \/ p \in Admins

----------------------------------------------------------------------------
(* Goroutines start *)

Begin(j, cmd) ==
  /\ job[j] = Idle
  /\ LET first == IF cmd.name = "clear" THEN "change" ELSE "get"
     IN job' = [job EXCEPT ![j] = [Idle EXCEPT !.at = first, !.cmd = cmd]]

Counted == commands < MaxCommands /\ commands' = commands + 1

\* A message with a command; those about the banlist need it to be enabled,
\* and a mailbox that is deleted must be there.
Handle(j, p) ==
  /\ phase = "up" /\ Counted
  /\ \E cmd \in AdminCommands \cup OwnerCommands(p) :
       /\ \/ cmd \in AdminCommands /\ p \in Admins
          \/ cmd \in OwnerCommands(p) /\ allowOwner(p)
       /\ cmd.doc = "ban" => BanlistEnabled
       /\ cmd = runDelete => Mailbox \in View("room")
       /\ Begin(j, cmd)
  /\ UNCHANGED <<srv, memory, phase, allowed, faults, history>>

\* A reaction to a mail adds its sender to the spamlist, whoever reacts.
HandleReaction(j) ==
  /\ phase = "up" /\ Counted
  /\ \E s \in Senders : Begin(j, runSpamlistAdd(s))
  /\ UNCHANGED <<srv, memory, phase, allowed, faults, history>>

\* An SMTP session bans its peer, which is not one of the trusted proxies.
SessionBans(j) ==
  /\ phase \in {"users", "migrated", "up"} /\ Counted
  /\ {Banlist, AutoBan} \subseteq View("bot")
  /\ \E a \in Addrs : \E ban \in {BanAuto(a), BanAuth(a)} : Begin(j, ban)
  /\ UNCHANGED <<srv, memory, phase, allowed, faults, history>>

\* syncRooms by cron, one at a time.
CronSync(j) ==
  /\ phase = "up" /\ Counted
  /\ \A k \in Jobs : job[k].cmd.name # "sync"
  /\ Begin(j, migrateRoomSettings)
  /\ UNCHANGED <<srv, memory, phase, allowed, faults, history>>

\* The process starts: the users, then the migration, then the rooms, and
\* only then the events.
Boot(j) ==
  \/ /\ phase = "down" /\ phase' = "new"
     /\ Begin(j, initBotUsers)
     /\ UNCHANGED <<srv, memory, allowed, commands, faults, history>>
  \/ /\ phase = "users" /\ \A k \in Jobs : job[k].cmd.name # "migrate"
     /\ Begin(j, migrateMautrix015)
     /\ UNCHANGED <<srv, memory, phase, allowed, commands, faults, history>>
  \/ /\ phase = "migrated" /\ \A k \in Jobs : job[k].cmd.name # "sync"
     /\ Begin(j, migrateRoomSettings)
     /\ UNCHANGED <<srv, memory, phase, allowed, commands, faults, history>>

----------------------------------------------------------------------------
(* Get *)

\* The handler returns; the start of the process goes on.
Finish(j) ==
  /\ job' = [job EXCEPT ![j] = Idle]
  /\ phase' = CASE job[j].cmd.name = "initUsers" -> "users"
                [] job[j].cmd.name = "migrate" -> "migrated"
                [] job[j].cmd.name = "sync" -> "up"
                [] OTHER -> phase

\* The handler has nothing to change in a map with the content c.
NothingToDo(cmd, c) ==
  CASE cmd.name = "setOption" -> (c \ cmd.drop) \cup cmd.add = c
    [] cmd.name = "spamlist"  -> cmd.add = {} /\ cmd.drop \cap c = {}
    [] cmd.name = "dkim"      -> cmd.drop = {} /\ Option \in c
    [] cmd.name = "stop"      -> Mailbox \notin c
    [] cmd.name = "sync"      -> Olds \cap c = {}
    [] cmd.name = "initUsers" -> Users \cap c # {}
    [] cmd.name = "migrate"   -> Migrated \in c
    [] OTHER -> FALSE

UsersOf(c) == {p \in People : User(p) \in c}

\* Mutant: the cached document is copied.
GetCopies(j) ==
  /\ job[j].at = "get" /\ (job[j].cmd.doc = "ban" => BanlistEnabled)
  /\ LET d == job[j].cmd.doc
         c == View(d)
     IN /\ cache' = cache
        /\ IF NothingToDo(job[j].cmd, c)
           THEN /\ Finish(j)
                /\ allowed' = IF job[j].cmd = initBotUsers THEN UsersOf(c)
                              ELSE allowed
           ELSE /\ job' = [job EXCEPT ![j].at = "change", ![j].map = Fresh,
                                      ![j].seen = c \cap Spams]
                /\ UNCHANGED <<phase, allowed>>
        /\ Memory([heap EXCEPT ![Fresh] = c])
  /\ UNCHANGED <<srv, commands, faults, history>>

\* The document is read: the cached map itself, or a new one that is cached.
\* The spamlist is taken out of it at once.
Get(j) ==
  /\ job[j].at = "get" /\ (job[j].cmd.doc = "ban" => BanlistEnabled)
  /\ LET d == job[j].cmd.doc
         m == IF cache[d] = NoMap THEN Fresh ELSE cache[d]
         c == View(d)
     IN /\ cache' = [cache EXCEPT ![d] = m]
        /\ IF NothingToDo(job[j].cmd, c)
           THEN /\ Finish(j)
                /\ allowed' = IF job[j].cmd = initBotUsers THEN UsersOf(c)
                              ELSE allowed
           ELSE /\ job' = [job EXCEPT ![j].at = "change", ![j].map = m,
                                      ![j].seen = c \cap Spams]
                /\ UNCHANGED <<phase, allowed>>
        /\ Memory([heap EXCEPT ![m] = c])
  /\ UNCHANGED <<srv, commands, faults, history>>

\* The goroutine goes on with an empty map that is not cached.
WithEmptyMap(j) ==
  /\ job' = [job EXCEPT ![j].at = "change", ![j].map = Fresh, ![j].apart = TRUE]
  /\ UNCHANGED cache /\ Memory([heap EXCEPT ![Fresh] = {}])

\* The homeserver does not answer: GetRoom returns the error, which ends the
\* handler; GetBot and GetBanlist log it.
GetFailed(j) ==
  /\ job[j].at = "get" /\ cache[job[j].cmd.doc] = NoMap
  /\ Fault(TRUE)
  /\ IF job[j].cmd.doc = "room"
     THEN Finish(j) /\ UNCHANGED memory
     ELSE WithEmptyMap(j) /\ UNCHANGED phase
  /\ UNCHANGED <<srv, allowed, commands, history>>

\* GetBanlist when the banlist has been disabled meanwhile, or seems to be
\* because the options of the bot cannot be read.
GetBanlistDisabled(j) ==
  /\ job[j].at = "get" /\ job[j].cmd.doc = "ban"
  /\ \/ ~BanlistEnabled /\ Fault(FALSE)
     \/ BanlistEnabled /\ cache["bot"] = NoMap /\ Fault(TRUE)
  /\ WithEmptyMap(j)
  /\ UNCHANGED <<srv, phase, allowed, commands, history>>

----------------------------------------------------------------------------
(* Change *)

\* History: what a handler for people means to change.
Meant(cmd) ==
  IF cmd.name \in {"initUsers", "migrate", "sync"} THEN {}
  ELSE cmd.drop \cup cmd.add

\* The content of the map after the handler, which set the spamlist to what
\* it had read and made of it.
Changed(cmd, seen, c) ==
  CASE cmd.name = "spamlist" ->
         (c \ Spams) \cup (seen \ cmd.drop) \cup cmd.add
    [] cmd.name = "sync" ->
         (c \ Olds) \cup {Spam(s) : s \in {l \in Legacy : Old(l) \in c}}
    [] OTHER -> (c \ cmd.drop) \cup cmd.add

\* History: facts that are being changed are not confirmed until they are
\* saved, and not at all when two goroutines change them at a time.
Touch(j, touched) ==
  LET others == {k \in Jobs \ {j} : job[k].at \in {"save", "allow"}}
  IN /\ kept' = [kept EXCEPT ![job[j].cmd.doc] = @ \ touched]
     /\ gone' = [gone EXCEPT ![job[j].cmd.doc] = @ \ touched]
     /\ job' = [k \in Jobs |->
                  IF k = j
                  THEN [job[j] EXCEPT !.at = "save",
                          !.sure = Meant(job[j].cmd)
                                     \ UNION {Meant(job[k2].cmd) : k2 \in others}]
                  ELSE [job[k] EXCEPT !.sure = @ \ touched]]
     /\ UNCHANGED unsaved

Change(j) ==
  /\ job[j].at = "change" /\ job[j].cmd.name \notin {"stop", "clear"}
  /\ LET m == job[j].map
         overlapped == job[j].cmd.name = "spamlist"
                         /\ job[j].seen # heap[m] \cap Spams
     IN /\ Touch(j, Meant(job[j].cmd) \cup (IF overlapped THEN Spams ELSE {}))
        /\ UNCHANGED cache
        /\ Memory([heap EXCEPT ![m] =
                     Changed(job[j].cmd, job[j].seen, heap[m])])
  /\ UNCHANGED <<srv, phase, allowed, commands, faults>>

\* stop, delete and banlist:reset save a new empty map.
Renew(j) ==
  /\ job[j].at = "change" /\ job[j].cmd.name \in {"stop", "clear"}
  /\ job' = [job EXCEPT ![j].at = "save", ![j].map = Fresh,
                        ![j].sure = Meant(job[j].cmd)]
  /\ UNCHANGED cache /\ Memory([heap EXCEPT ![Fresh] = {}])
  /\ UNCHANGED <<srv, phase, allowed, commands, faults, history>>

\* banlist:add and banlist:remove take several addresses: the first are in
\* the map when a later one does not resolve, which ends the command.
BanlistAbandoned(j) ==
  /\ job[j].at = "save" /\ job[j].cmd.name = "change"
  /\ Finish(j)
  /\ UNCHANGED cache /\ Memory(heap)
  /\ UNCHANGED <<srv, allowed, commands, faults, history>>

----------------------------------------------------------------------------
(* Set *)

\* The legacy lists of a room become its spamlist.
Norm(c) == c \cup {Spam(s) : s \in {l \in Legacy : Old(l) \in c}}

\* History: the answer confirms what the handler changed.
Confirm(d, cmd, sure, k, g) ==
  /\ kept' = [kept EXCEPT ![d] = k \cup (sure \cap cmd.add)]
  /\ gone' = [gone EXCEPT ![d] = g \cup (sure \cap (cmd.drop \ cmd.add))]
  /\ UNCHANGED unsaved

\* The process ends, and is started again.
Stopped ==
  /\ job' = [j \in Jobs |-> Idle]
  /\ heap' = [m \in Maps |-> {}] /\ cache' = [d \in Docs |-> NoMap]
  /\ phase' = "down"
  /\ UNCHANGED allowed

\* After the set.  A start that cannot save ends the process; `users` goes on
\* whether the set failed or not.
AfterSet(j, failed, jobs) ==
  LET cmd == job[j].cmd
      c == heap[job[j].map]
  IN CASE failed /\ cmd.name \in {"initUsers", "migrate"} -> Stopped
       [] cmd.name = "users" ->
            /\ job' = [jobs EXCEPT ![j].at = "allow", ![j].map = NoMap,
                                   ![j].sure = IF failed THEN {} ELSE @,
                                   ![j].apart = FALSE]
            /\ cache' = [cache EXCEPT !["bot"] = job[j].map] /\ Memory(heap)
            /\ UNCHANGED <<phase, allowed>>
       [] OTHER ->
            /\ job' = [jobs EXCEPT ![j] = Idle]
            /\ phase' = IF cmd.name = "initUsers" THEN "users"
                        ELSE IF cmd.name = "migrate" THEN "migrated"
                        ELSE IF cmd.name = "sync" THEN "up" ELSE phase
            /\ allowed' = IF cmd.name = "initUsers" THEN UsersOf(c) ELSE allowed
            /\ cache' = [cache EXCEPT ![cmd.doc] = job[j].map] /\ Memory(heap)

\* The map is cached, then the homeserver is asked to store it: it does, or
\* refuses, or does and the answer is lost.  (History: of a map apart, only
\* what it holds counts on; without users the next start opens the bot.)
Set(j) ==
  /\ job[j].at = "save" /\ (job[j].cmd.doc = "ban" => BanlistEnabled)
  /\ LET cmd == job[j].cmd
         d == cmd.doc
         c == heap[job[j].map]
         renews == cmd.name \in {"stop", "clear"}
         lost == job[j].apart \/ renews
         jobs == IF lost THEN Parted(Holders(d) \ {j}) ELSE job
         reopened == IF Users \cap c = {} THEN Users ELSE {}
         k == IF lost THEN kept[d] \cap Norm(c) ELSE kept[d]
         g == IF lost THEN gone[d] \ (Norm(c) \cup reopened) ELSE gone[d]
     IN \E applied, failed \in BOOLEAN :
          /\ applied \/ failed
          /\ Fault(failed)
          /\ srv' = IF applied THEN [srv EXCEPT ![d] = c] ELSE srv
          /\ AfterSet(j, failed, jobs)
          /\ Confirm(d, cmd,
                     IF failed \/ cmd.name = "users" THEN {}
                     ELSE {f \in job[j].sure :
                             f \in cmd.add \/ f \notin Norm(c)}, k, g)
  /\ UNCHANGED commands

\* SetBanlist does nothing, and has no error, when the banlist is disabled or
\* the options of the bot cannot be read.  The room is told that the banlist
\* "has been updated" or "has been reset", as after a save.
SetBanlistDisabled(j) ==
  /\ job[j].at = "save" /\ job[j].cmd.doc = "ban"
  /\ \/ ~BanlistEnabled /\ Fault(FALSE)
     \/ BanlistEnabled /\ cache["bot"] = NoMap /\ Fault(TRUE)
  /\ Finish(j)
  /\ unsaved' = IF job[j].cmd.name = "auto" THEN unsaved
                ELSE unsaved \cup Meant(job[j].cmd)
  /\ UNCHANGED cache /\ Memory(heap)
  /\ UNCHANGED <<srv, allowed, commands, kept, gone>>

\* Mutant: the new patterns are added to the old ones.
AllowMore(j) ==
  /\ job[j].at = "allow"
  /\ allowed' = allowed \cup UsersOf(job[j].cmd.add)
  /\ Finish(j)
  /\ Confirm("bot", job[j].cmd, IF job[j].apart THEN {} ELSE job[j].sure,
             kept["bot"], gone["bot"])
  /\ UNCHANGED <<srv, memory, commands, faults>>

\* The end of runUsers: the patterns in use are the new ones.
Allow(j) ==
  /\ job[j].at = "allow"
  /\ allowed' = UsersOf(job[j].cmd.add)
  /\ Finish(j)
  /\ Confirm("bot", job[j].cmd, IF job[j].apart THEN {} ELSE job[j].sure,
             kept["bot"], gone["bot"])
  /\ UNCHANGED <<srv, memory, commands, faults>>

----------------------------------------------------------------------------
(* The environment *)

Evict(d) ==
  /\ cache[d] # NoMap
  /\ Fault(TRUE)
  /\ cache' = [cache EXCEPT ![d] = NoMap]
  /\ job' = Parted({j \in Holders(d) : job[j].at # "allow"})
  /\ Memory(heap)
  /\ UNCHANGED <<srv, phase, allowed, commands, history>>

Crash ==
  /\ phase # "down" /\ Fault(TRUE)
  /\ Stopped
  /\ UNCHANGED <<srv, commands, history>>

----------------------------------------------------------------------------
Start(j) ==
  \/ \E p \in People : Handle(j, p)
  \/ HandleReaction(j)
  \/ SessionBans(j)
  \/ CronSync(j)
  \/ Boot(j)

Continue(j) ==
  \/ Get(j)
  \/ GetFailed(j)
  \/ GetBanlistDisabled(j)
  \/ Change(j)
  \/ Renew(j)
  \/ BanlistAbandoned(j)
  \/ Set(j)
  \/ SetBanlistDisabled(j)
  \/ Allow(j)

Next ==
  \/ \E j \in Jobs : Start(j) \/ Continue(j)
  \/ \E d \in Docs : Evict(d)
  \/ Crash

Spec == Init /\ [][Next]_vars

----------------------------------------------------------------------------
(* Properties *)

\* What a handler saved and confirmed is on the homeserver and is what
\* everybody reads, until another handler is told to change it: goroutines
\* that share a map, refused saves, crashes and restarts lose nothing and
\* bring nothing back.  The exceptions are the goroutines that work on a map
\* of their own: the cache lost theirs, a set replaced it, or the document
\* could not be read.  Nor does it speak of the changes in unsaved, which were
\* confirmed though the set stored nothing.
ConfirmedStay ==
  \A d \in Docs :
    /\ kept[d] \subseteq Norm(srv[d]) \cap Norm(View(d))
    /\ gone[d] \cap (Norm(srv[d]) \cup Norm(View(d))) = {}

\* Who may use the bot is what the last `users` that was saved says, also
\* after restarts: a user who was taken off the list stays out, and one who
\* is on it is let in.
AccessIsKept ==
  (/\ phase \notin {"down", "new"}
   /\ \A j \in Jobs : job[j].cmd.name # "users")
  => \A p \in People :
       /\ User(p) \in kept["bot"] => p \in allowed
       /\ User(p) \in gone["bot"] => p \notin allowed

----------------------------------------------------------------------------
(* What a reader expects, and the code does not do *)

\* "allowed users updated": those who may use the bot are those on record.
AccessIsStored ==
  phase = "up" /\ (\A j \in Jobs : job[j] = Idle)
    => allowed = UsersOf(srv["bot"])

\* "banlist has been updated": what the room is told of has been saved.
ConfirmedIsSaved == unsaved = {}

\* A handler that changes a document saves the map that everybody reads.
SavesWhatOthersSee ==
  \A j \in Jobs :
    job[j].at = "save" /\ job[j].cmd.name \notin {"stop", "clear"}
      => job[j].map = cache[job[j].cmd.doc]
=============================================================================
