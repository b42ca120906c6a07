# Postmoogle in TLA+

Postmoogle is a bridge between SMTP and Matrix: a mailbox is a Matrix room, mail
to the mailbox is posted in the room, and what users write there is mailed.
This directory holds TLA+ models of the parts of the bridge in which order,
failure and concurrency matter, the TLC configurations that check them on small
instances, and TLAPS proofs of the main safety properties for every instance.

```
tlc -workers 2 -config QueueFaults.cfg MCQueue     # one run
tlapm QueueProofs.tla                              # the proofs of one module
```

`PROJECT.json` lists the runs, the lines of code behind every definition, the
hazards that the properties are for, and for each property a mutant of the
model (a plausible slip in the code) under which TLC finds it violated.

## 1. The system

| Component | Code | State | Operations |
|---|---|---|---|
| Outgoing mail, retry queue | `internal/bot/email.go`, `internal/bot/queue/`, `internal/smtp/client.go` | account data: an index and one item per event ID; keyed mutexes | Sendmail, Add, Process, try, Remove |
| Mailbox registry | `internal/bot/command_owner.go`, `command_admin.go`, `activation.go`, `data.go`, `bot.go` | room configurations (account data), `b.rooms` (a `sync.Map`), the option catch-all | mailbox, aliases, stop, delete, catch-all, syncRooms |
| SMTP session | `internal/smtp/session.go`, `authserver.go`, go-smtp's `Conn` | direction, recipients, room of the session; greeting, transaction, didAuth | AUTH, MAIL, RCPT, DATA, RSET |
| Threads and replies | `internal/bot/email.go`, `command.go`, `internal/email/` | account data: thread of a Message-ID, last event of a thread; headers in events | IncomingEmail, autoreply, thread reply, `!pm send` |
| Access, banlist, greylist | `internal/bot/access.go`, `config/lists.go` | lists in account data, `b.allowedUsers` | bans, trust, greylisting, permissions |
| Settings, spamlist | `command*.go`, `reaction.go`, `data.go`, `config/` | options of the bot and of rooms in account data | commands and reactions that set options, migrations |
| DNS blacklists | `internal/smtp/dnsbl.go` | results of one request | concurrent lookups, decision |
| Listeners and manager | `internal/smtp/manager.go`, `listener.go` | listeners, TLS configuration, an error channel | start, stop, reload |
| Matrix client | vendored linkpearl and mautrix | an LRU cache over account data | GetAccountData, SetAccountData, events |
| Process, cron | `cmd/postmoogle/main.go` | its goroutines | start, jobs, shutdown |

How they meet:

* Every Matrix event is handled in a goroutine of its own (`sync.go`). Handlers
  of one room that post or send mail hold the room's lock; owner commands hold
  none.
* Cron runs `Queue.Process` every minute and `syncRooms` every five; a job is
  not started while it still runs.
* SMTP sessions ask the bot for rooms (`GetMapping`), for bans and greylisting,
  and hand it mail (`IncomingEmail`), one recipient after the other.
* Everything that must survive a restart is account data on the homeserver,
  reached through linkpearl: a write changes the cache **first** and then calls
  the API, a read returns the cached Go map **itself**, and entries may be
  evicted at any time. So a failed call leaves the process with data that the
  homeserver does not have, and an unsaved change can be seen by others.

What is hard here, and what correctness means:

* *Queue*: two writes per Add and per Remove, with crashes, lost answers and
  evictions between them; two locks. No index entry without item, no confirmed
  mail lost, no mail sent again without a fault, the queue drains.
* *Registry*: two copies of the truth (`b.rooms` and the configurations) edited
  in several unsynchronised steps, also by a sync beside the commands. One room
  per mailbox and routing as configured for every name that nothing came between,
  mail only to a room whose owner was allowed the name, aliases reached in the end.
* *Session*: two state machines side by side (go-smtp's and the bridge's), while
  mailboxes move. No recipient lost between them, 250 means that no accepted
  recipient was passed over, mail leaves only after AUTH.
* *Threads*: bookkeeping under IDs that are made in several places. Answers
  reach the thread of the mail they answer unless it was not noted, replies have
  headers to continue, autoreplies do not answer answers, a mail is answered 250
  and dropped only by an `M_UNKNOWN` of the homeserver.
* *Replies*: headers that are turned round from mail to reply and from reply to
  reply. Replies reach everybody in the conversation, not the room itself, and
  disclose no other address of it.
* *Checks of peers*: unsynchronised appends of lookup results, and a greylist
  that sessions read, change and save without a lock. No decision against what
  all blacklists said, nobody past the greylist before the time, everybody in who
  retries.
* *Settings*: every handler gets a shared Go map, changes it and saves it later.
  What was saved and confirmed stays; who may use the bot is what was saved last.
* *Listeners*: reloads race the start and half-written files. The TLS port has
  the newest certificates that load, never none; failures end the process.

## 2. Modules

| Module | Contents |
|---|---|
| `Queue`, `MCQueue`, `QueueProofs` | outgoing mail and the retry queue |
| `Delivery` | what the retry queue promises; `Queue` implements it |
| `Mailboxes`, `MCMailboxes`, `MailboxesProofs` | the registry of mailboxes |
| `Directory` | what the registry promises of what is stored; `Mailboxes` implements it |
| `Session`, `MCSession`, `SessionProofs` | one SMTP connection |
| `Threads`, `MCThreads`, `ThreadsProofs` | mail threads and Matrix threads in one room |
| `Replies`, `MCReplies`, `RepliesProofs` | to whom replies go, and from which address |
| `DNSBL` | one check of a peer in the DNS blacklists |
| `Greylist` | `IsGreylisted`, asked by several sessions at once |
| `Antispam`, `MCAntispam`, `AntispamProofs` | mail servers that retry, composed of `DNSBL` and `Greylist` |
| `Settings`, `MCSettings`, `SettingsProofs` | options, spamlist, banlist, permissions, the bot's start |
| `Listeners`, `MCListeners`, `ListenersProofs` | the SMTP manager, certificate reload, start and end of the process |

### Queue

One goroutine per event (`pc`, `todo`, `cur`) runs the recipient loop around
`Sendmail`; one goroutine is the cron job (`cpc`, `ctodo`, `cid`, `ci`). Their
steps are the lock operations and account data calls of `Add`, `Process`, `try`
and `Remove`; what happens under the lock of the index is one step up to the
next call that another goroutine could see. `mIndex`, `mItem` with `cached` are
linkpearl's cache, `sIndex`, `sItem` the homeserver; a write comes to "ok",
"refused" (only the cache changed) or "lost" (done, but the caller sees an
error). `delivered`, `told`, `acked` and `tries` are history. Events are taken
from different rooms, as the lock of a room orders events of the same one.
The results of an SMTP delivery are those that the code tells apart (accepted,
refused after DATA, deferred, other error), and a server may stop answering: the
client has no deadline, so the goroutine is `"stalled"`, Process with both its
locks. A deferred mail in a room without relay is a panic
(`relayOverride[0].String()` on nil): it ends the process, or, in an autoreply,
only the goroutine, where go-smtp recovers it.
Mails carry a recipient and attempts only. `HasRelay` are the events of rooms
whose relay is never unset, `Stored` those an earlier process left in the queue.

`Delivery` has a set of mails that the queue answers for and, for each, the sends
it is still due. A mail leaves the set by a send, or when none is due any more.
`Queue` implements it (`Delivers`) with `queue <- acked` and
`left <- [e \in Events |-> Due(e)]`, `maxRetries + 1` less the sends made. So
neither a crash between the writes of Remove, nor an item that is read stale, nor
a counter that was not saved takes a mail out early.

### Mailboxes

`rooms` is `b.rooms`, `mem` the cached and `srv` the stored configurations.
`job` are the goroutines of commands and syncs; a command is check (`SetMailbox`,
`SetAliases`), read and change (`MailboxGet`, `AliasesGet`), activation, and
save. A goroutine may hold the cached map itself (`cfg = Shared`) or, once the
cache has replaced it, a map of its own (`Detached`). Alias lists of two or more
names are keys of `rooms` of their own, because the code activates the whole
comma-separated value as one name. Both activation flows store the name and
answer true, so they are one action. `claimed` is history: the names that passed
the checks, and where.

`disputed` is history, too: the names of which the code promises less, because
something came between the steps of a command. There are five ways, one definition
each, and none is in the guard of an action, so that all of them happen in the runs
or the proofs: two goroutines were about the name at the same time or in the same room
(`Met`), the homeserver refused a configuration that the cache has (`Unsaved`), the
name was set as an alias (`Aliased`), a room was cleared that was found by a name it
no longer had (`Swept`), the sync at start passed the room over (`Skipped`). The
properties `OneRoomPerMailbox`, `RoutedAsConfigured` and `GivesMailboxes` speak of the
other names. Section 4 has what happens to the disputed ones.

`Directory` has the mailbox of each room, given and taken back in one step; a name
is given to a room when no other has it, or when it is disputed. `Mailboxes`
implements it (`GivesMailboxes`) with `box <- boxes`, the mailboxes on the homeserver:
neither the commands and syncs of other rooms and names, nor an eviction that leaves a
command with a map of its own, nor a restart in the middle of a rename or of a sync
makes two rooms be stored with one name that is not disputed.

### Session

go-smtp's connection (`helo`, `didAuth`, `mail`, `rcpts`, `sasl`), the session
(`dir`, `tos`, `roomID`, `fromRoom`) and the position `at` of DATA in its loop
over recipients. `Remap` lets owners move mailboxes between any two steps. What
the checks of mails find (SPF, MX, blacklists, DKIM, spamlist) and whether a
password matches are choices. DATA goes on after a recipient in two cases in which
the mail is lost (`DataDropped`): `IncomingEmail` returns nil after `M_UNKNOWN`
(`unknown`), and the SMTP client drops a refusal at the end of DATA (`refused`). go-smtp is vendored, and modelled for the order
in which it calls the session.

### Threads

One room. Events are numbered; `meta` are the headers an event carries, `tid`
and `last` the cached account data, `acTid` and `acLast` the same on the homeserver.
`job` is the handler that holds the room's lock, with one step per call that posts,
sends or notes; it may stop after any of them. `world` is what correspondents have
and may answer, `unanswered` what they will deliver again because it was not answered
250, `home` the history of where mails went. Every write of `Note` and `Save` may be
refused, which the code only logs: the cache has it until `Evict` or `Restart`, the
homeserver never, and `unnoted` is the history of such Message-IDs. A last event that
cannot be read is replaced by the thread's own event (`ParentIs`). The writes of
`Note` (and of `Save`) are one step: a stop between them leaves a mail that is
delivered again, or one whose `home` is not set and about which nothing is claimed.
Files (events without headers) and the option `nothreads` are left out. When what
names the answered mail could not be looked up, or had not been noted, the mail is
marked `blind`, and `MapsThreads` and `AutoreplyForNewThreads` do not apply to it
(section 4). `AnyUnknown` says whether the homeserver answers `M_UNKNOWN` to any post
(the code does not look further) or, as the comment at that line has it, only in a
thread it does not know.

### Replies

One thread of one room. `mail` are the address headers in the last event of the
thread, from which `getParentEmail` makes those of a reply: `PreviousSender`,
`fixtofrom` and `calculateRecipients` are operators that bear the code's names.
The headers of a reply replace `mail` when they are kept, which fails with the
delivery or with the notice. `To` is the set of its addresses, and `newSenders[e.To]`
finds it only when it has no other than the room's; `Cc` has the room's addresses
replaced by the author's, as `ReplaceAll` does. `Own` is the room's mailbox in each of
the bridge's domains, `Others` the other names that lead to the room. Mail may come in
at any time, from anybody and with any headers; `last` is the last that did. Sets stand
for the lists and for the maps of the code, whose order does not matter here. The last
event of the thread can always be read: a failed read (email.go:494, 634), after which
the reply has the headers of another event or none, is in `Threads` only.

### DNSBL, Greylist and Antispam

`DNSBL`: one goroutine per blacklist. Go's `append` without a lock is three
steps: load the length, write the slot behind it, store the length (the compiler may
swap the two stores; nobody reads the results before `wg.Wait`). The
slice was made with room for all results, so it never moves; results overwrite
one another and the length may go back, both of which happen in the model.

`Greylist`: `heap` are the Go maps in memory, to which sessions (`mine`) and the
cache refer; a fetched map may replace a newer one in the cache, and what is
written is the map at the moment of the call. The age of an entry is in ticks up
to `Duration`. A read that fails gives an empty map, as in `GetBot` and
`GetGreylist`; when it was the options that could not be read, the greylist is
off for that answer (`excused`).

`Antispam`: peers go from RCPT (blacklists, for the peer `Checked`, whose mail is
for a room with `spamcheck:rbl`) to DATA (greylist) and start over when they are
turned away. `ErrRBL` refuses one recipient only: the peer may go on to DATA by naming
another, of a room that does not ask the lists. It is the composition of the other
two: each of its actions is one of theirs with the session moved on.

### Settings

The three documents (options of the bot, options of a room with its spamlist, the
banlist) are sets of facts; options that no guard tells apart are the one fact
`Option`. A handler is a record `Cmd`: the document, and what it drops and adds;
`Changed` has the two that depend on what they read (the spamlist commands set
what they read and changed, the sync migrates the legacy lists). A goroutine
gets the map (`Get`, by reference), changes it, and saves it, with nothing held in
between. `Handle` has the permissions and the guards of the commands, `Boot` the
order of the start (`initBotUsers`, `migrateMautrix015`, `syncRooms`, then
events). A start that cannot save panics, and the process is started again.

History: `kept` are facts whose setting was saved and confirmed, `gone` those whose
removal was; a fact is in neither while it is being changed, and in neither after two
handlers changed it at the same time. `unsaved` are the changes of the banlist that
the room was told and `SetBanlist` did not store, as it was disabled meanwhile. The properties except what the code cannot
keep, and section 4 lists it: a goroutine that works on a map of its own
(`apart`: the cache evicted the shared one, a `stop`, `delete` or reset replaced
it, or a read failed) saves over the others' changes. They say nothing of what is
lost then, nor of `unsaved`.

The cron job's sync while the bot is still starting is taken to wait for the
start's own; `setMailbox` and `setAliases` are here only for the options they
set, the names are in `Mailboxes`.

### Listeners

The file watcher (`due`: running timers), `loadTLSConfig` pair by pair under
`m.tls.Mu`, the callback's `SetTLSConfig`, `Start` and the two `listen` goroutines
that do not take that lock, the error channel of one slot, signals, and `shutdown`
in its steps. A configuration is the set of loaded (pair, version). go-smtp's
`Serve` and `Close` and the watcher are vendored and modelled as used; the watcher
sees every write. (It watches the directories. `fswatcher.go` never reads fsnotify's
`Errors`, which has no buffer: after an error there, an overflow say, the watcher
would block and see nothing more, and `FilesAreLoaded` would not hold.) A nil
`m.fsw` or `m.tls.Listener` is a panic, as in the code. `recovery` is deferred in
`main` and reached by no panic of the goroutines.

## 3. Runs

| Run | Shows | Bounds |
|---|---|---|
| `QueueFaults` | `TypeOK`, `IndexedIdsHaveItems`, `AckedIsDurable`, `AttemptsAreTries`, `DuplicatesNeedFaults`, `QueuedMailIsKept`, `Delivers` | 2 events, one with 2 recipients and without relay; batch 1, retries 1; 1 fault |
| `QueueDrain` | `QueueDrains` | 3 events with 1 recipient, 2 of them a backlog, 1 without relay; servers that stall; 1 fault |
| `QueueLockOrder` | `QueueDrains` is **violated** with two recipients | as `QueueFaults`, no faults |
| `MailboxesOverlap` | `TypeOK`, `OneRoomPerMailbox`, `RoutedAsConfigured`, `GivesMailboxes` | 2 rooms, 3 names (1 reserved), 2 goroutines of commands or syncs, 1 restart |
| `MailboxesFaults` | `OnlyClaimedNames`, `RoutedAsConfigured` | 2 rooms, 2 names (1 reserved), an alias, 2 goroutines, 1 failed call, 1 restart |
| `SessionCommands` | `TypeOK`, `AcceptedAreNoted`, `OutgoingIsAuthenticated`, `OkMeansHandedOver` | 3 addresses (2 local), 2 rooms, a catch-all, 3 RCPTs |
| `ThreadsConversation` | `TypeOK`, `MapsThreads`, `LastHasHeaders`, `LostNeedUnknown` | 3 mails, an unknown one that they may refer to, 7 events, 1 fault (a failed read, post or send, a refused write, a restart), 1 `M_UNKNOWN`, 1 removed event |
| `ThreadsAutoreply` | `MapsThreads`, `AutoreplyForNewThreads` | 3 mails, 9 events, 1 `M_UNKNOWN`, no fault |
| `Replies` | `TypeOK`, `EverybodyGetsReplies`, `NothingLeaks` | 2 addresses of the room, an alias, 3 people, 1 of them forwarded; up to 2 addresses in each of To and Cc |
| `Antispam` | `TypeOK`, `ResultsAreReal`, `DecisionIsGrounded`, `NotBeforeItsTime`, `RetriesGetIn` | 2 blacklists (none or both list the peer), 2 peers, greylist of 1 tick, 1 fault |
| `Listeners` | `TypeOK`, `ListenerIsCurrent`, `FilesAreLoaded`, `TLSPortHasCertificates`, `FailureEnds` | 2 pairs of files, 2 writes |
| `Settings` | `TypeOK`, `ConfirmedStay`, `AccessIsKept` | an owner and an admin, 2 senders, 2 addresses, 2 goroutines, 2 commands, 3 faults |

Three more instances are not among the runs of `PROJECT.json`:

| Instance | Shows | Bounds |
|---|---|---|
| `MailboxesAliases.cfg` of `MCMailboxes` | `AliasesRouted` | 2 rooms, 2 names, lists of one and two aliases |
| `RepliesToMany.cfg` of `MCReplies` | `AuthorGetsReply` is **violated** by mail to the room and another | as `Replies`, such mails only |
| `RepliesToAlias.cfg` of `MCReplies` | `AuthorGetsReply` is **violated** by mail to an alias | as `Replies`, such mails only |

Why these bounds:

* *Queue.* Batch 1 lets a pass try two of three mails, so the third has to wait
  for a later pass; two recipients of one event meet on one item; one fault can
  be anywhere between two writes. Attempts go to `maxRetries + 1 = 2`, past the
  limit. History counters are capped one past what the properties tell apart
  (`MaxDelivered`, `MaxTries`).
* *Mailboxes.* A name is contested by two rooms, a third is never needed since
  every property is about a name and at most two rooms. Two goroutines are a
  command beside a command, or beside the sync of cron; two free names let one be
  disputed while the other is not. `Perms` makes rooms symmetric in the runs without
  liveness.
* *Session.* Three RCPTs are enough for a list with recipients of an earlier
  transaction, a refused one and an accepted one.
* *Threads.* A mail, its answer and the answer to that, with replies of users
  between them; a handler posts at most three events. `ThreadsAutoreply` has no
  faults: what it shows of `MapsThreads` is about autoreplies and new threads after
  an `M_UNKNOWN`, and nothing about restarts or refused writes.
* *Replies.* Two addresses are enough for the room to be beside another of its
  own, an alias, or a person, in each header. The number of mails and replies is
  not bounded. People who are not forwarded are symmetric.
* *Antispam.* Two appends are enough for every overlap of an append with another;
  two peers for every overlap of a read, a change and a save with another. One
  tick tells an entry whose time is over from one whose is not.
* *Listeners.* One write can break a pair and the next mend it, or another pair
  be written during the load of the first. Versions are the numbers of writes.
* *Settings.* Two goroutines share, part and replace a map; three faults are a
  failed read, an eviction and a crash, or a start that fails three times. Three
  commands with one fault give nothing else. The goroutines are symmetric.

Deadlock is checked except in the runs of `Queue`, where the two locks of the
queue really can block all goroutines (that is what `QueueLockOrder` shows), and
where all of them may wait for servers that have stopped answering; in the runs of `Threads`, where nobody has to send
another mail and the numbered events run out; in `Listeners`, where the process
ends; and in `Settings`, where the commands are bounded.

Fairness. `Queue!FairSpec`: goroutines of events run on (weak fairness of
`Send`), `sync.Mutex` hands itself to a waiter that has starved, so a lock that
keeps becoming free is had in the end (strong fairness of `Add` and `Process`),
and the cron ticker fires every minute. Remote servers, faults and evictions
promise nothing: a mail may be deferred every time, and a server may stop
answering for good (`SendStalls`, `TryStalls`), which `QueueDrains` names as the one
thing that holds the queue up. `Mailboxes!FairSpec`:
goroutines run on (weak fairness of `Continue`) and cron keeps starting syncs;
strong fairness of `Sync`, because commands compete with it for the bounded
number of goroutines, which is a bound of the model and not of the program.
`Antispam!Fairness`: mail servers retry (that is what greylisting counts on),
goroutines run, a lookup ends after its 5 seconds, time passes; faults promise
nothing. `Listeners!Fairness`: the goroutines of the process run; files, ports,
signals and the homeserver promise nothing.

The run `QueueDrain` is of one-recipient events; `QueueLockOrder` shows that this
condition is needed.

## 4. Where the code and what is said of it part

With a run or an instance of its own:

* `QueueLockOrder`: `Add` locks the item and then the index, `Process` the index
  and then the item. With two recipients of one event they wait for each other
  for ever, and every later Add too.
* `RepliesToMany.cfg`: a reply to mail that is to the room and to somebody else is not
  sent to its author, because `fixtofrom` looks for the room's address in To as a
  whole. The same happens to mail that names the room in neither To nor Cc.
* `RepliesToAlias.cfg`: a reply to mail that came by an alias, a subaddress or the
  catch-all has no sender; it cannot be composed, and the user is told "email body
  is empty".

The models behave like the code in the following points too. They have no run
of their own; each formula below, added to the module, is violated.

| What is said | What the code does | Formula |
|---|---|---|
| "1 room = 1 mailbox" (README.md:31) | two rooms that ask for one name at the same time both get it: the check and the store are not atomic (command_owner.go:103) | `\A r1, r2 \in Rooms : ~Clash(r1, r2)` in `MailboxesOverlap` |
| rooms are synced from their configurations (data.go:45) | a sync beside a rename, a `stop` or another sync stores the name that it read before: mail goes to a room that gave the name up | `RoutedAsConfigured` for all of `Names` in `MailboxesOverlap` |
| "Discard currently processed message" (go-smtp's backend.go:52 on Reset) | `Reset` is empty and `tos` is never cleared: recipients of an earlier transaction get the next mail as well (session.go:150) | `ResetDiscards` of `Session` |
| Deferred mail is queued (email.go:62) | a room without relay: nil dereference, the process dies, or the goroutine of an autoreply (queue.go:14) | `\A e \in Events \ Stored : pc[e] # "dead"` with `HasRelay` smaller than `Events` and `MaxFaults = 0` |
| "retried several times after that" (email.go:63) | a server that stops answering holds Process, and the lock of the queue, for ever: the client has no deadline (client.go:99, 192) | `[]<>(acked = {})` under `FairSpec` |
| same | the second recipient of an event overwrites the first one's item (email.go:71) | `QueuedMailIsKept` without `To[m[1]] = {m[2]}` |
| "has been queued" (email.go:556) | said even when Add failed (email.go:71) | `QueuedMailIsKept` without `faults = 0` |
| "Email has been sent" (email.go:554) | the answer to the end of DATA is dropped (client.go:83) | `\A m \in Mails : told[m] = "sent" => delivered[m] > 0` |
| queue:batch is the maximum (README.md:252) | one more (manager.go:69) | `ci <= batchSize` with three events |
| queue:retries is the maximum (README.md:253) | one more (queue.go:89) | `\A e \in Events : tries[e] <= maxRetries` |
| "1 room = 1 mailbox" (README.md:31) | a refused write is undone by a restart after the name was given away (command_owner.go:118) | `\A r1, r2 \in Rooms : ~Clash(r1, r2)` with a fault and a restart, also with `MaxInFlight = 1` |
| stop clears everything (README.md:182) | aliases go on being routed (command_owner.go:31) | `[][\A r \in Rooms, n \in Names : srv[r] # Empty /\ srv'[r] = Empty => rooms'[n] # r]_vars` |
| aliases of the room (README.md:192) | a list is stored under one key, its names can be taken (command_owner.go:160) | `Quiet => \A r1, r2 \in Rooms : r1 # r2 => mem[r2].mailbox \notin mem[r1].aliases` |
| "1 room = 1 mailbox" (README.md:31) | an alias that is set again is deleted from `b.rooms` and, not being new, not stored again: until the next sync another room can take the name (command_owner.go:156) | `\A r1, r2 \in Rooms : ~Clash(r1, r2)` with an alias, also with `MaxInFlight = 1` |
| catch-all is an existing mailbox (command_admin.go:202) | checked with `GetMapping`, which falls back to the catch-all (command_admin.go:210) | `[][catchAll' # catchAll => getMapping(catchAll') # NoRoom]_vars` |
| 250 to DATA: every accepted recipient has the mail | `IncomingEmail` is nil after `M_UNKNOWN` (email.go:178), and the client drops a refusal at the end of DATA (client.go:83) | `OkMeansDelivered` of `Session` |
| "reject incoming emails from hosts listed in DNS blocklists" (README.md:227) | `ErrRBL` leaves the session open with the refused recipient in `tos`: after another recipient, of a room without the check, DATA delivers to both (session.go:120, 131) | `ListedStayOut` of `Antispam` |
| accepted recipients get the mail | one that RCPT refused makes DATA fail (session.go:120) | `[][answer' = "noroom" /\ EndOfData => tos[at] \in rcpts]_vars` |
| banlist:auth is for credentials (README.md:265) | invalid mail is banned by it too (session.go:197) | `[][mail /\ ~mail' => "auth" \notin banned' \ banned]_vars` |
| "Map email threads to matrix threads" (README.md:51) | IDs of replies in a second domain are noted under the room's (email.go:581) | `MapsThreads` with two `Domains` |
| same | the write that notes a mail may be refused, which is only logged (email.go:625): the mail is answered 250, and after an eviction or a restart its answer starts a new thread | `MapsThreads` with `failed` in place of `failed \cup unnoted` in `Blind` |
| same | mail without Message-ID is noted under the empty ID (email.go:597) | `MapsThreads` with `IdsMissing` |
| autoreply for new threads (README.md:70) | an answer to an autoreply whose thread began elsewhere gets one again (email.go:294) | `AutoreplyForNewThreads` with `Foreign` |
| same | so does an answer with In-Reply-To but no References: the autoreply's own Message-ID is not noted, only that of the thread's event (email.go:581) | `AutoreplyForNewThreads` with `"inReplyTo"` in `Styles` |
| incoming mail is sent to the room (email.go:134) | after `M_UNKNOWN` it is answered 250 and dropped (email.go:178) | `[][\A mail \in unanswered \ unanswered' : \E e \in Events : meta[e] # NoMeta /\ meta[e].id = mail.id]_vars` |
| all blacklists decide (dnsbl.go:54) | results that overwrite each other are not counted (dnsbl.go:129) | `DecisionIsComplete` of `DNSBL` with `Listings = {{r1}}` |
| a reload updates the TLS listener (manager.go:142) | it is nil until `listen` has set it, and stays nil when the port is taken or no certificate loaded at the start: panic | `ReloadFindsListener` of `Listeners` |
| "live reload of SSL certs" (README.md:42) | a pair of which one file is written before the other is left out of the new configuration, and its old certificate with it, while another pair loads (manager.go:205) | `[][\A c \in Pairs : Has(config, c) => Has(config', c)]_vars` of `Listeners`, `Has(S, c) == S # NoConfig /\ \E v \in 0..MaxUpdates : <<c, v>> \in S` |
| Stop closes the server (manager.go:160) | a `listen` that had not reached `Serve` goes on accepting | `ClosedServerIsSilent` of `Listeners` |
| "allowed users updated" (command_admin.go:144) | also after a failed save, and overlapping commands may save and apply in different orders | `AccessIsStored` of `Settings` |
| "banlist has been updated, kupo", "has been reset" (command_admin.go:451, 505) | also when the banlist was disabled after the command's check, or the options cannot be read: `SetBanlist` stores nothing and returns nil (manager.go:107) | `ConfirmedIsSaved` of `Settings` |
| "No data loss, tho." (data.go:82) | options that could not be read look empty, and the migration saves them with its own entry only; the same in every handler of the bot's options and the banlist | `SavesWhatOthersSee` of `Settings` |
| spamlist commands are for owners (command.go:279) | a reaction runs `runSpamlistAdd` without asking for permission (reaction.go:47) | `HandleReaction` has no guard |
| queue:batch and queue:retries are options of the server (README.md:252) | the commands fall through to `setOption` and store them in the room's options (command.go:462), where the queue does not look | `AdminCommands` has `setOption` |

## 5. Proofs

All theorems hold for every value of the constants that satisfies the `ASSUME`
of the component's module: types of the constants, that the special values (no
map, no room, no mail, no configuration) differ from the others, that there is a
blacklist, that peers and goroutines are finitely many, and that the Message-IDs
of correspondents, of strangers and of the bridge are different. Three theorems
have hypotheses of their own, given below; section 4 has behaviours without
them. Invariants that a proof adds were checked by TLC, on the instances of the
runs, before they were proved.

*QueueProofs.* `TypeCorrect`; `IndexIsBacked` (`IndexedIdsHaveItems`),
`AckedSurvives` (`AckedIsDurable`), `AttemptsAreHonest` (`AttemptsAreTries`).
The first two safety properties are not inductive: whether `RemoveItem` may
empty an item depends on no Add being between its item and its index write for
the same id. `IInv` adds who holds which lock (`LockInv`), that an id about to be
indexed is backed on both sides of the cache and an id about to lose its item is
indexed nowhere (`StoreInv`), and that what is being dequeued is no longer
acknowledged (`AckedInv`). `AttemptsInv` does the same for the counters.
`Refinement` (`Delivers`): the initial states of `Queue` are initial states of
`Delivery`, and by `DeliveryNext` each action is `Put`, `Try`, `GiveUp` or a
stutter of it. That giving up is allowed (`left = 0`) rests on `AttemptsInv`: what
is charged was sent; the rest is that no other action touches `acked` or `tries`
(`SendAndAddSteps`, `OtherSteps`) and the arithmetic of `Due` (`OneLessDue`).

The last part of the module is about single mails: `DuplicatesAreFaults`
(`DuplicatesNeedFaults`) and `QueuedIsKept` (`QueuedMailIsKept`). A mail can only
be delivered again while it is pending: its event has not come to the recipient,
it is being queued, or the cron job may still find its item. `RecipientsInv` says
whose mail an item is and that it is in one of these places only, `DuplicatesInv`
that a pending mail was delivered no more often than there were faults, and
`ToldInv` that a mail of which "queued" was told is acknowledged, without faults,
until its first try.

*MailboxesProofs.* `TypeCorrect`, `OnlyClaimed` (`OnlyClaimedNames`). A name gets
into `b.rooms` from a command that passed the checks, but also by a sync from a
configuration, which may be cached, stored, or an old map that a goroutine still
holds. `IInv` says that every one of these copies, and every wish of a command in
flight, only has names that passed the checks (`JobInv`, `ClaimInv`).
`OneRoomEach` (`OneRoomPerMailbox`), `RoutedAsSet` (`RoutedAsConfigured`) and
`ImplementsDirectory` (`GivesMailboxes`) are about the names that are not disputed.
They hold for any number of goroutines, faults, restarts and lists of aliases. Their
invariant `NameInv` says of each such name that at most one room has it: configured,
stored, or in the map or the wish of a goroutine in that room (`Unique`); that it is
in no list of aliases (`AliasInv`); and how far `b.rooms`, the cache and the
homeserver differ by what the goroutine in that room has not done yet (`RouteInv`).
With none there they agree (`Settled`); in the middle of a rename the new name is
first in the map of the goroutine, then in `b.rooms`, then stored (`Tended`). After a
restart `b.rooms` lacks those rooms only that the sync has still to do (`StartInv`).
`PlaceInv` has the steps at which a goroutine may hold a map of its own, `Recorded`
that what is disputed now has been recorded. The check of `setMailbox` asks `b.rooms`;
that it finds the owner of an undisputed name follows from `RouteInv`, and that no
other goroutine is about to have it from `Recorded`.

*SessionProofs.* `TypeCorrect`, `RecipientsAgree` (`AcceptedAreNoted`),
`OutgoingNeedsAuth` (`OutgoingIsAuthenticated`), and the action property
`OkIsHandedOver` (`OkMeansHandedOver`). `IInv` adds that every recipient that DATA
has passed was handed over (`PassedAreServed`) and that it only runs when someone was
accepted.

*ThreadsProofs.* `TypeCorrect`, where `TypeInv` adds that the numbers of events
suffice for what the handler has still to post (`FitsInv`) and what its job holds
at each step (`JobInv`). `LastEventHasHeaders` (`LastHasHeaders`): the last event
is noted after it was posted, so `HeadersInv` says that the event which the job is
about to note has the headers and is in the thread; the same of what the homeserver
has, to which the cache may fall back (`LastsStay`). `ThreadsAreMapped`
(`MapsThreads`) holds under `OneDomain` (one domain, and no mail without
Message-ID) and without autoreply, for any faults, refused writes and removed events, except
for answers to mails that were not noted or could not be looked up. The proof is
about the IDs that correspondents may refer to (`Known`: of strangers' mails, of
mails answered 250, of what users wrote): mails that are out and mails yet to be
delivered refer to these only (`WorldInv`, `UnansweredInv`), for each of them the
account data, cached and stored, and `home` agree unless it is `unnoted`
(`AgreeInv`), and the mail in hand is one that nobody
refers to yet (`HandInv`). `NoAutoreplyToAnswers` (`AutoreplyForNewThreads`) holds
under `OneDomain` and `Undisturbed` (no faults, no removed events, `M_UNKNOWN` in
threads only, no IDs of strangers, References in every answer). Nothing is refused
then, so the homeserver has what the cache has (`Kept`). `AutoreplyInv` says that every mail that is
out leads to a thread by its own ID or one of its references (`TraceInv`; threads
do not lose their events, `BoundInv`), so that a mail for which a thread is started
answers nothing (`StartedInv`). Without any one of the five conditions TLC finds an
answer that gets an autoreply. `AnswersAreMapped` (`MapsThreads`) has the same
hypotheses and any autoreply. The Message-ID of an autoreply is never noted, so
`AgreeInv` is lost and an answer to it is found by its references: `OneThreadInv`
says that what the account data has of all IDs in a mail that is out (`OutInv`), in
the headers of an event (`MetaInv`), in the mail in hand (`MailInv`) and in the one
being sent (`SendInv`) is one thread, which is `home` of the mail. This lasts
because a handler notes only IDs that nothing but its own mail refers to
(`Settled`), and nothing is noted of autoreplies or of events to come
(`NotesInv`). In a room with autoreply, too, `MapsThreads` needs each of the five
conditions. `LostOnlyByUnknown` (`LostNeedUnknown`) needs none: `LostInv` counts the
mail in hand that was refused and is yet to be answered (`Refused`) with those that
are lost already, and says that the lost ones are finitely many.

*RepliesProofs.* `TypeCorrect`; `NoAddressLeaks` (`NothingLeaks`), which assumes
nothing of the mails: `LeaksInv` adds RCPT TO, from which the sender of the next reply
may come, and `FixHas` says that `fixtofrom` brings in no address that is not in the
headers. `RepliesReachEverybody` (`EverybodyGetsReplies`): a series of replies starts
from the mail and goes on from the reply before, so `EverybodyInv` says that the thread
ends with the mail or with `fixtofrom` of it, `FixTwice` that `fixtofrom` leaves alone
what it has turned round, and `PlainRecipients` whom it is sent to.
`AuthorOfPlainGetsReply` is its consequence that `AuthorGetsReply` (section 4) fails only for mail
that is not `Plain`: mail to the room and others, mail that has the room in neither To
nor Cc, and mail by another name of the room.

*AntispamProofs.* `TypeCorrect`; `RealResults` (`ResultsAreReal`),
`GroundedDecision` (`DecisionIsGrounded`) and `GreylistKeepsTime`
(`NotBeforeItsTime`). The length of the slice may go back, so that the slots up to
it are written has to be known for every length that a goroutine has loaded:
`Counted` bounds these by the number of goroutines that are done, so that there is
a slot for each, `Written` says that the slots below each of them are written, and
`Answered` what the lookups came to and what the decision rests on. `GreylistInv` says that no copy of
the list, in memory, in the cache or stored, has an entry older than the time
since its peer was first put on one; the same for what is being saved. That a new map is always one that nobody
refers to (`FreshMap`) is by counting: there are two more maps than peers.

*SettingsProofs.* `TypeCorrect`, `ConfirmedSettingsStay` (`ConfirmedStay`),
`AccessStaysAsSet` (`AccessIsKept`). `TypeInv` has that a map is used for one
document (`MapsInv`), that a start is alone until the users are known
(`PhaseInv`), and again `FreshMap`. What was confirmed is kept because handlers
share the cached map (of `unsaved` nothing is said): `KeptInv` says that who is not `apart` works on it
(`SharedInv`), that what a handler is sure to have added is in its map (`SureInv`),
that of two overlapping `users` neither is sure of anything and while there is one
no users are confirmed (`UsersInv`), that users are confirmed to be gone only where
others stay, so that no start opens the bot again (`HistoryInv`), and that a first
start adds users only to options that have none or are not cached (`FirstInv`).
`AccessInv` is `AccessIsKept` also while a `users` has only read the options.

*ListenersProofs.* `TypeCorrect`; `CurrentListener` (`ListenerIsCurrent`),
`CertificatesOnTLSPort` (`TLSPortHasCertificates`), `AllFilesLoaded`
(`FilesAreLoaded`). `Current` says at each step of `Start` and `listen` that the
configuration they have read is still the manager's, unless a reload is about to
find that there is no listener yet (and panics), and that it is never empty. For
the files, `NoWriteIsMissed` says of each pair that its timer runs, that the load
under way has still to read it, or that it is loaded as on disk; after a load the
configuration holds every pair without a running timer, or none of these loads.

Only model-checked: liveness (`QueueDrains`, `AliasesRouted`, `RetriesGetIn`,
`FailureEnds`), which needs fairness and `ENABLED` and is out of the prover's
reach.

## 6. What is not modelled

* Files, HTML, formatting, DKIM, SPF and the like: conversions and libraries.
* The options of the room whose checks DATA applies (session.go:195; the results
  are choices in `Session`).
* Addresses as texts. `ReplaceAll` in Cc (email.go:450) also replaces the room's
  address where it is the end of a longer one, and `Compose` (email/email.go:227)
  writes a To of several addresses as one; in `Replies` addresses are values, and
  what a mail program makes of such a To is one of the mails that may come in.
* Commands that only print (help, mailboxes, banlist totals), `BanManually`,
  which nothing calls, and the DKIM keys that `GetBot` fills in.
* Connections of the SMTP client: relay, MX hosts and ports are tried in turn,
  and `Queue` has what comes of it.
* Environment, logging, healthchecks: no state of interest.

## 7. What is left

Rooms with options in `Session`: the checks of DATA are those of the room of the
last recipient that RCPT looked up, for all recipients, and of no room when that
one was not found.
