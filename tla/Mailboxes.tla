----------------------------- MODULE Mailboxes -----------------------------
(***************************************************************************)
(* The registry of mailboxes: which Matrix room a mail address belongs to. *)
(*                                                                         *)
(* The truth is the configuration of each room, kept in its account data   *)
(* on the homeserver and cached by linkpearl.  The bot routes mail by a    *)
(* second copy, the sync.Map b.rooms, which the commands (mailbox,         *)
(* aliases, stop, delete) edit as they go and which syncRooms fills from   *)
(* the configurations at start and every five minutes.  Every command runs *)
(* in a goroutine of its own and nothing orders them.                      *)
(*                                                                         *)
(* GetRoom returns the cached Go map itself, not a copy: a command that    *)
(* sets an option changes what everybody reads before it saves it.  The    *)
(* model lets a goroutine hold the cached map, and leaves it with a map of *)
(* its own once the cache has replaced that one.                           *)
(***************************************************************************)
EXTENDS Integers

CONSTANTS
  Rooms,        \* rooms the bot has joined
  Names,        \* mailbox names (local parts)
  Reserved,     \* POSTMOOGLE_MAILBOXES_RESERVED
  AliasLists,   \* comma separated lists that owners give to `aliases`, as sets
  MaxInFlight,  \* bound: commands and syncs running at the same time
  MaxFaults,    \* bound: account data calls that fail
  MaxCrashes,   \* bound: restarts of the process
  NoRoom, NoName,
  Shared        \* in place of a configuration: the map in the cache

ASSUME MailboxesAssumption ==
  /\ NoRoom \notin Rooms /\ NoName \notin Names
  /\ Reserved \subseteq Names
  /\ AliasLists \subseteq (SUBSET Names) \ {{}} /\ Names \cap AliasLists = {}
  /\ Shared \notin [mailbox : Names \cup {NoName}, aliases : AliasLists \cup {{}}]
  /\ MaxInFlight \in Nat /\ MaxFaults \in Nat /\ MaxCrashes \in Nat

Slots == 1..MaxInFlight

\* The options of a room that the registry is about.  `.active` is not kept:
\* every activation flow answers true and migrateRoomSettings sets it when it
\* is missing, so a room with a mailbox is active.
Config == [mailbox : Names \cup {NoName}, aliases : AliasLists \cup {{}}]
Empty  == [mailbox |-> NoName, aliases |-> {}]

\* A key of b.rooms is a name or, because ActivateAlias is given the whole
\* value, a list of two or more names that no mail is addressed to.
Lists  == {A \in AliasLists : \A n \in Names : A # {n}}
Keys   == Names \cup Lists
Key(A) == IF A \in Lists THEN A ELSE CHOOSE n \in Names : A = {n}

VARIABLES
  rooms,     \* b.rooms
  mem,       \* mem[r]: the map linkpearl has cached for room r
  srv,       \* srv[r]: the configuration on the homeserver
  catchAll,  \* the bot option catch-all
  job,       \* the goroutines
  up,        \* Start has synced the rooms, events are handled
  faults, crashes,
  claimed,   \* history: <<r, n>> when n passed the checks of a command in r
  disputed   \* history: names of which the code promises less, see Record

store == <<mem, srv>>
count == <<faults, crashes>>
vars  == <<rooms, store, catchAll, job, up, count, claimed, disputed>>

Steps == {"idle", "mailboxGet", "mailboxActivate", "aliasesGet",
          "aliasesActivate", "save", "clear", "sync", "syncAdd"}
Job   == [at : Steps, room : Rooms \cup {NoRoom}, want : SUBSET Names,
          cfg : Config \cup {Shared}, left : SUBSET Rooms]
Idle  == [at |-> "idle", room |-> NoRoom, want |-> {}, cfg |-> Shared,
          left |-> {}]

TypeOK ==
  /\ rooms \in [Keys -> Rooms \cup {NoRoom}]
  /\ mem \in [Rooms -> Config]
  /\ srv \in [Rooms -> Config]
  /\ catchAll \in Names \cup {NoName}
  /\ job \in [Slots -> Job]
  /\ up \in BOOLEAN
  /\ faults \in Nat /\ crashes \in Nat
  /\ claimed \subseteq Rooms \X Names
  /\ disputed \subseteq Names

\* A new installation: no room has a mailbox.
Init ==
  /\ rooms = [k \in Keys |-> NoRoom]
  /\ mem = [r \in Rooms |-> Empty]
  /\ srv = [r \in Rooms |-> Empty]
  /\ catchAll = NoName
  /\ job = [s \in Slots |-> Idle]
  /\ up = TRUE
  /\ faults = 0 /\ crashes = 0
  /\ claimed = {}
  /\ disputed = {}

----------------------------------------------------------------------------
(* Helpers *)

\* b.getMapping and b.GetMapping.
getMapping(n) == rooms[n]
GetMapping(n) ==
  IF rooms[n] # NoRoom THEN rooms[n]
  ELSE IF catchAll = NoName THEN NoRoom ELSE rooms[catchAll]

\* Mutant: reserved names are not looked up.
TakenUnreserved(n, r) ==
  getMapping(n) \notin {NoRoom, r}

\* Another room has the name, or nobody may.
Taken(n, r) ==
  \/ getMapping(n) \notin {NoRoom, r}
  \/ n \in Reserved

\* The goroutines that hold the cached map of room r.
Holders(r) ==
  {s \in Slots : /\ job[s].room = r /\ job[s].cfg = Shared
                 /\ job[s].at \in {"mailboxActivate", "aliasesActivate",
                                   "save", "syncAdd"}}

\* The jobs when the cache replaces the map of r: its holders keep the old
\* one.  (After its Get a command only reads its map, so a kept map does not
\* change again; two goroutines that keep the same map keep equal copies.)
Detached(r) ==
  [s \in Slots |-> IF s \in Holders(r) THEN [job[s] EXCEPT !.cfg = mem[r]]
                   ELSE job[s]]

\* A fault happens (or not) while the bound allows one.
Fault(happens) ==
  IF happens THEN faults < MaxFaults /\ faults' = faults + 1
             ELSE faults' = faults

\* Manager.SetRoom: the map becomes the cached one, then the API is called.
SetRoom(r, config) ==
  \E refused \in BOOLEAN :
    /\ mem' = [mem EXCEPT ![r] = config]
    /\ srv' = IF refused THEN srv ELSE [srv EXCEPT ![r] = config]
    /\ Fault(refused)

\* The map a goroutine works with.
Held(s) == IF job[s].cfg = Shared THEN mem[job[s].room] ELSE job[s].cfg

Running(s, step) == job[s].at = step
Goto(s, step) == job' = [job EXCEPT ![s].at = step]
Done(s) == job' = [job EXCEPT ![s] = Idle]

----------------------------------------------------------------------------
(* setMailbox *)

\* The check, which nothing holds true until the name is stored.
SetMailbox(s, r, n) ==
  /\ up /\ job[s] = Idle
  /\ ~Taken(n, r)
  /\ job' = [job EXCEPT ![s] = [Idle EXCEPT !.at = "mailboxGet",
                                            !.room = r, !.want = {n}]]
  /\ claimed' = claimed \cup {<<r, n>>}
  /\ UNCHANGED <<rooms, store, catchAll, up, count>>

\* Mutant: the old name is not deleted.
MailboxGetKeepsOld(s) ==
  /\ Running(s, "mailboxGet")
  /\ \E n \in job[s].want : mem' = [mem EXCEPT ![job[s].room].mailbox = n]
  /\ Goto(s, "mailboxActivate")
  /\ UNCHANGED <<rooms, srv, catchAll, up, count, claimed>>

\* GetRoom, the new option set in the cached map, the old name deleted.
MailboxGet(s) ==
  /\ Running(s, "mailboxGet")
  /\ \E n \in job[s].want :
       LET r == job[s].room
           old == mem[r].mailbox
       IN /\ mem' = [mem EXCEPT ![r].mailbox = n]
          /\ rooms' = IF old = NoName THEN rooms
                      ELSE [rooms EXCEPT ![old] = NoRoom]
  /\ Goto(s, "mailboxActivate")
  /\ UNCHANGED <<srv, catchAll, up, count, claimed>>

\* Mutant: the name is activated all the same.
GetFailedActivates(s) ==
  /\ job[s].at \in {"mailboxGet", "aliasesGet"}
  /\ Fault(TRUE)
  /\ rooms' = [k \in Keys |-> IF k \in job[s].want THEN job[s].room
                             ELSE rooms[k]]
  /\ Done(s)
  /\ UNCHANGED <<store, catchAll, up, crashes, claimed>>

\* GetRoom fails, here or in setAliases: the configuration of the room was
\* not cached and could not be read.  The command ends.
GetFailed(s) ==
  /\ job[s].at \in {"mailboxGet", "aliasesGet"}
  /\ Fault(TRUE)
  /\ Done(s)
  /\ UNCHANGED <<rooms, store, catchAll, up, crashes, claimed>>

\* ActivateMailbox, in either flow, stores the name.
MailboxActivate(s) ==
  /\ Running(s, "mailboxActivate")
  /\ \E n \in job[s].want : rooms' = [rooms EXCEPT ![n] = job[s].room]
  /\ Goto(s, "save")
  /\ UNCHANGED <<store, catchAll, up, count, claimed>>

\* SetRoom, of whatever the map holds by now.
Save(s) ==
  /\ Running(s, "save")
  /\ SetRoom(job[s].room, Held(s))
  /\ job' = [(IF job[s].cfg = Shared THEN job ELSE Detached(job[s].room))
               EXCEPT ![s] = Idle]
  /\ UNCHANGED <<rooms, catchAll, up, crashes, claimed>>

----------------------------------------------------------------------------
(* setAliases *)

SetAliases(s, r, A) ==
  /\ up /\ job[s] = Idle
  /\ \A n \in A : ~Taken(n, r)
  /\ job' = [job EXCEPT ![s] = [Idle EXCEPT !.at = "aliasesGet",
                                            !.room = r, !.want = A]]
  /\ claimed' = claimed \cup {<<r, n>> : n \in A}
  /\ UNCHANGED <<rooms, store, catchAll, up, count>>

\* The whole old value is deleted as if it were one name; the new value is
\* activated once for each alias that is new.
AliasesGet(s) ==
  /\ Running(s, "aliasesGet")
  /\ LET r == job[s].room
         old == mem[r].aliases
     IN /\ mem' = [mem EXCEPT ![r].aliases = job[s].want]
        /\ rooms' = IF old = {} THEN rooms
                    ELSE [rooms EXCEPT ![Key(old)] = NoRoom]
        /\ Goto(s, IF job[s].want \subseteq old THEN "save"
                   ELSE "aliasesActivate")
  /\ UNCHANGED <<srv, catchAll, up, count, claimed>>

\* ActivateAlias is given the whole value too.
AliasesActivate(s) ==
  /\ Running(s, "aliasesActivate")
  /\ rooms' = [rooms EXCEPT ![Key(job[s].want)] = job[s].room]
  /\ Goto(s, "save")
  /\ UNCHANGED <<store, catchAll, up, count, claimed>>

----------------------------------------------------------------------------
(* stop, delete, catch-all *)

\* runStop, also run when the last user leaves the room.
RunStop(s, r) ==
  /\ up /\ job[s] = Idle
  /\ mem[r].mailbox # NoName
  /\ rooms' = [rooms EXCEPT ![mem[r].mailbox] = NoRoom]
  /\ job' = [job EXCEPT ![s] = [Idle EXCEPT !.at = "clear", !.room = r]]
  /\ UNCHANGED <<store, catchAll, up, count, claimed>>

RunDelete(s, n) ==
  /\ up /\ job[s] = Idle
  /\ rooms[n] # NoRoom
  /\ rooms' = [rooms EXCEPT ![n] = NoRoom]
  /\ job' = [job EXCEPT ![s] = [Idle EXCEPT !.at = "clear",
                                            !.room = rooms[n]]]
  /\ UNCHANGED <<store, catchAll, up, count, claimed>>

\* Both end with an empty configuration.
Clear(s) ==
  /\ Running(s, "clear")
  /\ SetRoom(job[s].room, Empty)
  /\ job' = [Detached(job[s].room) EXCEPT ![s] = Idle]
  /\ UNCHANGED <<rooms, catchAll, up, crashes, claimed>>

\* Mutant: the room is stored in place of the name.
RunCatchAllStoresRoom(n) ==
  /\ up /\ GetMapping(n) # NoRoom
  /\ catchAll' = GetMapping(n)
  /\ UNCHANGED <<rooms, store, job, up, count, claimed>>

RunCatchAll(n) ==
  /\ up /\ GetMapping(n) # NoRoom
  /\ catchAll' = n
  /\ UNCHANGED <<rooms, store, job, up, count, claimed>>

----------------------------------------------------------------------------
(* syncRooms: at start, then by cron, which never runs it twice at a time.  *)
(* When the joined rooms cannot be listed it does nothing; at start, the     *)
(* process then ends, as in Restart.                                         *)

SyncStart(s) ==
  /\ job[s] = Idle
  /\ \A t \in Slots : job[t].at \notin {"sync", "syncAdd"}
  /\ job' = [job EXCEPT ![s] = [Idle EXCEPT !.at = "sync", !.left = Rooms]]
  /\ UNCHANGED <<rooms, store, catchAll, up, count, claimed>>

SyncGet(s, r) ==
  /\ Running(s, "sync") /\ r \in job[s].left
  /\ job' = IF mem[r].mailbox = NoName
            THEN [job EXCEPT ![s].left = @ \ {r}]
            ELSE [job EXCEPT ![s].at = "syncAdd", ![s].room = r]
  /\ UNCHANGED <<rooms, store, catchAll, up, count, claimed>>

\* The configuration of r was not cached and could not be read.
SyncSkip(s, r) ==
  /\ Running(s, "sync") /\ r \in job[s].left
  /\ Fault(TRUE)
  /\ job' = [job EXCEPT ![s].left = @ \ {r}]
  /\ UNCHANGED <<rooms, store, catchAll, up, crashes, claimed>>

\* Mutant: the aliases are not stored.
SyncAddMailboxOnly(s) ==
  /\ Running(s, "syncAdd")
  /\ rooms' = [k \in Keys |-> IF k = Held(s).mailbox THEN job[s].room
                              ELSE rooms[k]]
  /\ job' = [job EXCEPT ![s].at = "sync", ![s].left = @ \ {job[s].room},
                        ![s].room = NoRoom, ![s].cfg = Shared]
  /\ UNCHANGED <<store, catchAll, up, count, claimed>>

\* addRoom stores the mailbox and each alias.
SyncAdd(s) ==
  /\ Running(s, "syncAdd")
  /\ LET c == Held(s)
     IN rooms' = [k \in Keys |-> IF k \in {c.mailbox} \cup c.aliases
                                 THEN job[s].room ELSE rooms[k]]
  /\ job' = [job EXCEPT ![s].at = "sync", ![s].left = @ \ {job[s].room},
                        ![s].room = NoRoom, ![s].cfg = Shared]
  /\ UNCHANGED <<store, catchAll, up, count, claimed>>

SyncEnd(s) ==
  /\ Running(s, "sync") /\ job[s].left = {}
  /\ Done(s)
  /\ up' = TRUE
  /\ UNCHANGED <<rooms, store, catchAll, count, claimed>>

----------------------------------------------------------------------------
(* The cache and the process *)

\* The entry of r is dropped and read again.  (Nothing is changed when nobody
\* holds the map and the homeserver has the same: that case is left out.)
Evict(r) ==
  /\ mem[r] # srv[r] \/ Holders(r) # {}
  /\ mem' = [mem EXCEPT ![r] = srv[r]]
  /\ job' = Detached(r)
  /\ UNCHANGED <<rooms, srv, catchAll, up, count, claimed>>

\* Mutant: events are handled before the rooms are synced.
RestartReady ==
  /\ crashes < MaxCrashes /\ crashes' = crashes + 1
  /\ rooms' = [k \in Keys |-> NoRoom]
  /\ mem' = srv
  /\ job' = [s \in Slots |-> Idle]
  /\ up' = TRUE
  /\ UNCHANGED <<srv, catchAll, faults, claimed>>

\* The process starts again with what the homeserver has, and syncs the rooms
\* before it handles events.
Restart ==
  /\ crashes < MaxCrashes /\ crashes' = crashes + 1
  /\ rooms' = [k \in Keys |-> NoRoom]
  /\ mem' = srv
  /\ job' = [s \in Slots |-> Idle]
  /\ up' = FALSE
  /\ UNCHANGED <<srv, catchAll, faults, claimed>>

----------------------------------------------------------------------------
(* Disputed names.  What the code promises of a mailbox it promises while     *)
(* nothing comes between its steps.  The history `disputed` has the names of  *)
(* which that is not so: one definition for each way, and none of them is in  *)
(* the guard of an action.                                                    *)

\* The mailboxes that a goroutine is about: the ones it sets, and the one that
\* its room has, on either side or in the map that the goroutine holds.
About(s) ==
  IF job[s].room = NoRoom THEN {}
  ELSE job[s].want \cup {mem[job[s].room].mailbox, srv[job[s].room].mailbox,
                         Held(s).mailbox}

\* Two goroutines are about it at the same time, or one is while another is in
\* the same room: the check of one does not see what the other is doing.
Met(n) ==
  \E s, t \in Slots :
    /\ s # t /\ job[t].room # NoRoom
    /\ n \in About(s)
    /\ job[s].room = job[t].room \/ n \in About(t)

\* The homeserver refused a command's configuration, the cache has it.
Unsaved(n) ==
  \E r \in Rooms :
    /\ mem[r].mailbox # srv[r].mailbox
    /\ n \in {mem[r].mailbox, srv[r].mailbox}
    /\ \A s \in Slots : job[s].room = r => job[s].at = "syncAdd"

\* It is set as an alias: these are stored in b.rooms by the sync alone, and
\* a mailbox of that name is not told from them.
Aliased(n) == \E s \in Slots : job[s].at = "aliasesGet" /\ n \in job[s].want

\* A room is cleared that is still routed by its mailbox: it was found by a
\* name that it no longer has.
Swept(n) ==
  \E s \in Slots :
    /\ job[s].at = "clear"
    /\ mem[job[s].room].mailbox = n /\ rooms[n] = job[s].room

\* The sync at start passes its room over: a step, not a state.
Skipped(n) ==
  \E s \in Slots, r \in Rooms :
    ~up /\ SyncSkip(s, r) /\ mem[r].mailbox = n

Disputes(n) == Met(n) \/ Unsaved(n) \/ Aliased(n) \/ Swept(n)

Record == disputed' = disputed \cup {n \in Names : Disputes(n)' \/ Skipped(n)}

----------------------------------------------------------------------------
Command(s) ==
  \/ \E r \in Rooms, n \in Names : SetMailbox(s, r, n)
  \/ \E r \in Rooms, A \in AliasLists : SetAliases(s, r, A)
  \/ \E r \in Rooms : RunStop(s, r)
  \/ \E n \in Names : RunDelete(s, n)

Continue(s) ==
  \/ MailboxGet(s)
  \/ GetFailed(s)
  \/ MailboxActivate(s)
  \/ AliasesGet(s)
  \/ AliasesActivate(s)
  \/ Save(s)
  \/ Clear(s)

Sync(s) ==
  \/ SyncStart(s)
  \/ \E r \in Rooms : SyncGet(s, r) \/ SyncSkip(s, r)
  \/ SyncAdd(s)
  \/ SyncEnd(s)

Step ==
  \/ \E s \in Slots : Command(s) \/ Continue(s) \/ Sync(s)
  \/ \E n \in Names : RunCatchAll(n)
  \/ \E r \in Rooms : Evict(r)
  \/ Restart

Next == Step /\ Record

Spec == Init /\ [][Next]_vars

\* Goroutines run on and cron keeps starting syncs; a sync that the bound on
\* goroutines holds back gets its turn.  Owners promise nothing.
FairSpec ==
  /\ Spec
  /\ \A s \in Slots : WF_vars(Continue(s)) /\ SF_vars(Sync(s))

----------------------------------------------------------------------------
(* Properties *)

Quiet == up /\ \A s \in Slots : job[s] = Idle

Clash(r1, r2) ==
  r1 # r2 /\ mem[r1].mailbox = mem[r2].mailbox /\ mem[r1].mailbox # NoName

\* "1 room = 1 mailbox": no two rooms are configured with the same mailbox,
\* unless that name is disputed.  setMailbox checks b.rooms, so this needs
\* b.rooms to be complete whenever a check is made: after renames, stops,
\* deletes, restarts and evictions, and while other goroutines are at work.
OneRoomPerMailbox ==
  \A r1, r2 \in Rooms : Clash(r1, r2) => mem[r1].mailbox \in disputed

\* While no goroutine is at work, mail for a name that is not disputed is
\* routed by b.rooms exactly as the rooms are configured: no mailbox is
\* unreachable and no name is kept by a room that gave it up, whatever
\* commands of other rooms and names the syncs and commands overlapped.
RoutedAsConfigured ==
  Quiet => \A n \in Names \ disputed, r \in Rooms :
             rooms[n] = r <=> mem[r].mailbox = n

\* The mailboxes that are stored.
boxes == [r \in Rooms |-> srv[r].mailbox]

Dir == INSTANCE Directory WITH box <- boxes

\* The steps of a rename, the copies in b.rooms and in the cache, evictions and
\* restarts implement a directory in which every change is one step: what is
\* stored changes for one room at a time, to no name or to one that is not
\* reserved and that is stored for no other room or disputed.
GivesMailboxes == Dir!Spec

\* Whatever runs at the same time, fails or is restarted, mail for a name
\* only goes to a room in which an owner asked for that name and passed the
\* checks, or by catch-all; and a reserved name is never routed.
OnlyClaimedNames ==
  \A n \in Names : rooms[n] # NoRoom =>
    <<rooms[n], n>> \in claimed /\ n \notin Reserved

\* An alias that an owner has set is routed to the room in the end, by the
\* next sync, unless it is taken back.
AliasesRouted ==
  \A r \in Rooms, n \in Names :
    LET set == n \in mem[r].aliases /\ mem[r].mailbox # NoName
    IN set ~> (rooms[n] = r \/ ~set)

----------------------------------------------------------------------------
(* The inductive invariant behind OnlyClaimedNames *)

MayHave(r, n) == <<r, n>> \in claimed /\ n \notin Reserved

Justified(r, c) ==
  /\ c.mailbox # NoName => MayHave(r, c.mailbox)
  /\ \A n \in c.aliases : MayHave(r, n)

\* A goroutine in the middle of a command has a room and names it may have.
JobOK(j) ==
  /\ j.at \notin {"idle", "sync"} => j.room \in Rooms
  /\ j.at \in {"aliasesGet", "aliasesActivate"} => j.want \in AliasLists
  /\ j.at \in {"idle", "sync", "syncAdd"} => j.want = {}
  /\ j.at \in {"idle", "sync"} => j.cfg = Shared
  /\ \A n \in j.want : MayHave(j.room, n)
  /\ j.cfg # Shared => Justified(j.room, j.cfg)

JobInv == \A s \in Slots : JobOK(job[s])

\* Every copy of a configuration, and b.rooms, only has justified names.
ClaimInv ==
  /\ \A r \in Rooms : Justified(r, mem[r]) /\ Justified(r, srv[r])
  /\ \A n \in Names : rooms[n] # NoRoom => MayHave(rooms[n], n)

IInv == TypeOK /\ JobInv /\ ClaimInv
=============================================================================
