----------------------------- MODULE Listeners -----------------------------
(***************************************************************************)
(* The SMTP manager and the life of the process around it: NewManager      *)
(* loads the certificates and starts the file watcher, Start opens the     *)
(* plain and the TLS port, the callback of the watcher loads the           *)
(* certificates again, and shutdown stops it all.                          *)
(*                                                                         *)
(* A configuration is the set of the certificates in it, each a pair of    *)
(* files and the version of them that was loaded.  m.tls.Config is read by *)
(* Start and m.tls.Listener written by listen without m.tls.Mu.            *)
(***************************************************************************)
EXTENDS Naturals

CONSTANTS
  Pairs,       \* pairs of a certificate file and a key file
  MaxUpdates,  \* bound: writes of such files
  Broken,      \* version of a pair that does not load
  NoConfig,    \* a nil *tls.Config
  NoListener   \* a nil *Listener

Ports == {"plain", "tls"}

VARIABLES
  \* the files
  disk,      \* disk[c]: version of pair c
  updates,   \* writes so far
  due,       \* pairs whose timer in the watcher runs
  watcher,   \* m.fsw: "none", "on" or "closed"
  \* loadTLSConfig and its callers, under m.tls.Mu
  rpc,       \* "idle", "load" or "set"
  unread,    \* pairs it has not come to
  loaded,    \* certificates it has loaded
  \* the manager
  config,    \* m.tls.Config, and m.smtp.TLSConfig for STARTTLS
  listener,  \* m.tls.Listener, as its field tls
  errs,      \* how many errors are in m.errs
  \* the goroutines
  mpc,       \* main
  lpc,       \* lpc[p]: listen for port p
  arg,       \* the tlsConfig that listen was given for the TLS port
  spc,       \* shutdown
  proc       \* how the process is

files   == <<disk, updates, due, watcher>>
reload  == <<rpc, unread, loaded>>
manager == <<config, listener, errs>>
threads == <<mpc, lpc, arg, spc>>
vars    == <<files, reload, manager, threads, proc>>

Certificates == Pairs \X (0..MaxUpdates)
Configs      == (SUBSET Certificates) \cup {NoConfig}

ASSUME ListenersAssumption ==
  /\ MaxUpdates \in Nat
  /\ Broken \notin Nat
  /\ \A S \in SUBSET Certificates : S # NoConfig
  /\ \A S \in Configs : S # NoListener

TypeOK ==
  /\ disk \in [Pairs -> 0..MaxUpdates \cup {Broken}]
  /\ updates \in 0..MaxUpdates
  /\ due \subseteq Pairs
  /\ watcher \in {"none", "on", "closed"}
  /\ rpc \in {"idle", "load", "set"}
  /\ unread \subseteq Pairs /\ loaded \subseteq Certificates
  /\ config \in Configs  /\ arg \in Configs
  /\ listener \in Configs \cup {NoListener}
  /\ errs \in 0..1
  /\ mpc \in {"new", "start", "wait"}
  /\ lpc \in [Ports -> {"off", "bind", "assign", "error", "serve", "accept",
                        "failed", "closed"}]
  /\ spc \in {"run", "cron", "watcher", "server", "bot"}
  /\ proc \in {"up", "exit", "fatal", "panic"}

\* initSMTP is about to load the certificates; the watcher exists or failed.
Init ==
  /\ disk \in [Pairs -> {0, Broken}] /\ updates = 0
  /\ due = {} /\ watcher \in {"none", "on"}
  /\ rpc = "load" /\ unread = Pairs /\ loaded = {}
  /\ config = NoConfig /\ listener = NoListener
  /\ errs = 0
  /\ mpc = "new" /\ lpc = [p \in Ports |-> "off"] /\ arg = NoConfig
  /\ spc = "run"
  /\ proc = "up"

Up == proc = "up"

----------------------------------------------------------------------------
(* The files and loadTLSConfig *)

\* Somebody writes one file of pair c: the two match again, or not yet.
Update(c) ==
  /\ Up /\ updates < MaxUpdates
  /\ updates' = updates + 1
  /\ disk' = [disk EXCEPT ![c] = updates'] \/ disk' = [disk EXCEPT ![c] = Broken]
  /\ due' = IF watcher = "on" THEN due \cup {c} ELSE due
  /\ UNCHANGED <<watcher, reload, manager, threads, proc>>

\* The timer of a file of c runs out; the callback has m.tls.Mu and calls
\* loadTLSConfig.  The watcher is started last in NewManager.
Reload(c) ==
  /\ Up /\ mpc # "new" /\ rpc = "idle" /\ c \in due
  /\ due' = due \ {c}
  /\ rpc' = "load" /\ unread' = Pairs /\ loaded' = {}
  /\ UNCHANGED <<disk, updates, watcher, manager, threads, proc>>

\* LoadX509KeyPair: a pair that does not load is skipped.
LoadPair(c) ==
  /\ Up /\ rpc = "load" /\ c \in unread
  /\ unread' = unread \ {c}
  /\ loaded' = IF disk[c] = Broken THEN loaded ELSE loaded \cup {<<c, disk[c]>>}
  /\ UNCHANGED <<files, rpc, manager, threads, proc>>

\* Mutant: a configuration without certificates is set, too.
LoadEndAlways ==
  /\ Up /\ rpc = "load" /\ unread = {}
  /\ config' = loaded
  /\ rpc' = IF mpc = "new" THEN "idle" ELSE "set"
  /\ mpc' = IF mpc = "new" THEN "start" ELSE mpc
  /\ loaded' = {}
  /\ UNCHANGED <<files, unread, listener, errs, lpc, arg, spc, proc>>

\* Mutant: what was written during the load is taken for loaded.
LoadEndForgets ==
  /\ Up /\ rpc = "load" /\ unread = {}
  /\ LET ok == loaded # {}
     IN /\ config' = IF ok THEN loaded ELSE config
        /\ rpc' = IF ok /\ mpc # "new" THEN "set" ELSE "idle"
  /\ mpc' = IF mpc = "new" THEN "start" ELSE mpc
  /\ loaded' = {} /\ due' = {}
  /\ UNCHANGED <<disk, updates, watcher, unread, listener, errs, lpc, arg,
                 spc, proc>>

\* loadTLSConfig returns, to NewManager or to the callback.
LoadEnd ==
  /\ Up /\ rpc = "load" /\ unread = {}
  /\ LET ok == loaded # {}
     IN /\ config' = IF ok THEN loaded ELSE config
        /\ rpc' = IF ok /\ mpc # "new" THEN "set" ELSE "idle"
  /\ mpc' = IF mpc = "new" THEN "start" ELSE mpc
  /\ loaded' = {}
  /\ UNCHANGED <<files, unread, listener, errs, lpc, arg, spc, proc>>

\* Mutant: a listener that is not there yet is skipped.
SetTLSConfigIfThere ==
  /\ Up /\ rpc = "set"
  /\ rpc' = "idle"
  /\ listener' = IF listener = NoListener THEN NoListener ELSE config
  /\ UNCHANGED <<files, unread, loaded, config, errs, threads, proc>>

\* m.tls.Listener.SetTLSConfig: with a nil Listener this is a panic, which
\* nothing recovers in the goroutine of the timer.
SetTLSConfig ==
  /\ Up /\ rpc = "set"
  /\ rpc' = "idle"
  /\ listener' = IF listener = NoListener THEN NoListener ELSE config
  /\ proc' = IF listener = NoListener THEN "panic" ELSE "up"
  /\ UNCHANGED <<files, unread, loaded, config, errs, threads>>

----------------------------------------------------------------------------
(* Start and listen *)

\* The TLS port is opened if there is a configuration by now.
Start ==
  /\ Up /\ mpc = "start"
  /\ mpc' = "wait"
  /\ lpc' = [p \in Ports |-> IF p = "plain" \/ config # NoConfig
                             THEN "bind" ELSE "off"]
  /\ arg' = config
  /\ UNCHANGED <<files, reload, manager, spc, proc>>

To(p, where) == lpc' = [lpc EXCEPT ![p] = where]

\* The port is opened, or another process has it.
NewListener(p) ==
  /\ Up /\ lpc[p] = "bind"
  /\ To(p, "error") \/ To(p, IF p = "tls" THEN "assign" ELSE "serve")
  /\ UNCHANGED <<files, reload, manager, mpc, arg, spc, proc>>

\* Mutant: the error of a port that cannot be opened is only logged.
ListenFailedQuietly(p) ==
  /\ Up /\ lpc[p] = "error"
  /\ To(p, "failed")
  /\ UNCHANGED <<files, reload, manager, mpc, arg, spc, proc>>

\* Mutant: the channel takes every error.
ListenFailedUnbounded(p) ==
  /\ Up /\ lpc[p] = "error"
  /\ errs' = errs + 1
  /\ To(p, "failed")
  /\ UNCHANGED <<files, reload, config, listener, mpc, arg, spc, proc>>

\* m.errs <- err: the channel has room for one.
ListenFailed(p) ==
  /\ Up /\ lpc[p] = "error" /\ errs = 0
  /\ errs' = 1
  /\ To(p, "failed")
  /\ UNCHANGED <<files, reload, config, listener, mpc, arg, spc, proc>>

\* m.tls.Listener = lwrapper
AssignListener ==
  /\ Up /\ lpc["tls"] = "assign"
  /\ listener' = arg
  /\ To("tls", "serve")
  /\ UNCHANGED <<files, reload, config, errs, mpc, arg, spc, proc>>

\* Serve notes the listener and begins to accept, even after smtp.Close.
Serve(p) ==
  /\ Up /\ lpc[p] = "serve"
  /\ To(p, "accept")
  /\ UNCHANGED <<files, reload, manager, mpc, arg, spc, proc>>

\* What Accept puts around a connection to port p that it hands over; those of
\* banned peers it closes.
Accepted(p) == IF p = "tls" THEN listener ELSE NoConfig

\* Start returns the error: log.Fatal.
StartFailed ==
  /\ Up /\ mpc = "wait" /\ errs > 0
  /\ proc' = "fatal"
  /\ UNCHANGED <<files, reload, manager, threads>>

\* startBot: log.Panic when the bot does not start.
BotFailed ==
  /\ Up /\ mpc = "wait"
  /\ proc' = "panic"
  /\ UNCHANGED <<files, reload, manager, threads>>

----------------------------------------------------------------------------
(* shutdown *)

\* A signal; initShutdown is called after initSMTP.
Signal ==
  /\ Up /\ mpc # "new" /\ spc = "run"
  /\ spc' = "cron"
  /\ UNCHANGED <<files, reload, manager, mpc, lpc, arg, proc>>

\* cron.Shutdown waits for running jobs, 5 seconds at most.
CronShutdown ==
  /\ Up /\ spc = "cron"
  /\ spc' = "watcher"
  /\ UNCHANGED <<files, reload, manager, mpc, lpc, arg, proc>>

\* Manager.Stop: the watcher first, which may not exist.  Its timers go on.
StopWatcher ==
  /\ Up /\ spc = "watcher"
  /\ spc' = "server"
  /\ watcher' = IF watcher = "none" THEN "none" ELSE "closed"
  /\ proc' = IF watcher = "none" THEN "panic" ELSE "up"
  /\ UNCHANGED <<disk, updates, due, reload, manager, mpc, lpc, arg>>

\* smtp.Close closes the listeners that Serve has noted.
CloseServer ==
  /\ Up /\ spc = "server"
  /\ spc' = "bot"
  /\ lpc' = [p \in Ports |-> IF lpc[p] = "accept" THEN "closed" ELSE lpc[p]]
  /\ UNCHANGED <<files, reload, manager, mpc, arg, proc>>

\* mxb.Stop and os.Exit(0).
Exit ==
  /\ Up /\ spc = "bot"
  /\ proc' = "exit"
  /\ UNCHANGED <<files, reload, manager, threads>>

shutdown == CronShutdown \/ StopWatcher \/ CloseServer \/ Exit

loadTLSConfig == LoadEnd \/ \E c \in Pairs : LoadPair(c)

listen(p) ==
  \/ NewListener(p)
  \/ ListenFailed(p)
  \/ p = "tls" /\ AssignListener
  \/ Serve(p)

main == Start \/ StartFailed

Next ==
  \/ \E c \in Pairs : Update(c) \/ Reload(c)
  \/ loadTLSConfig
  \/ SetTLSConfig
  \/ \E p \in Ports : listen(p)
  \/ main
  \/ BotFailed
  \/ Signal
  \/ shutdown

\* Goroutines run; nothing is promised about files, connections and signals.
Fairness ==
  /\ WF_vars(loadTLSConfig) /\ WF_vars(SetTLSConfig)
  /\ \A p \in Ports : WF_vars(listen(p))
  /\ WF_vars(main) /\ WF_vars(shutdown)

Spec == Init /\ [][Next]_vars /\ Fairness

----------------------------------------------------------------------------
(* Properties *)

\* The TLS port never falls behind: between reloads it serves the manager's
\* configuration, although Start reads m.tls.Config, and listen sets
\* m.tls.Listener, without the lock that a reload holds.
ListenerIsCurrent ==
  Up /\ rpc # "set" /\ listener # NoListener => listener = config

Loadable == {cert \in Certificates : disk[cert[1]] = cert[2]}

\* No write of a certificate is missed: once the timers have run out and
\* nothing is being loaded, the configuration holds what is on disk, also when
\* files were written while NewManager or an earlier callback was loading; if
\* nothing on disk loads, the old certificates stay.
FilesAreLoaded ==
  Up /\ watcher = "on" /\ mpc # "new" /\ rpc = "idle" /\ due = {} /\ Loadable # {}
    => config = Loadable

\* A connection to the TLS port is never served without a certificate: no
\* sequence of half-written files takes the last good ones away.
TLSPortHasCertificates ==
  Up /\ lpc["tls"] = "accept" => Accepted("tls") \notin {NoConfig, {}, NoListener}

\* A port that cannot be opened ends the process, also when both cannot, or
\* while it is being stopped; and a signal always ends it.
FailureEnds ==
  (spc # "run" \/ \E p \in Ports : lpc[p] \in {"error", "failed"}) ~> ~Up

----------------------------------------------------------------------------
(* What a reader expects, and the code does not do *)

\* A reload finds the TLS listener that it is to update.
ReloadFindsListener == rpc = "set" => listener # NoListener

\* Once the server is closed no connection is accepted.
ClosedServerIsSilent == spc = "bot" => \A p \in Ports : lpc[p] # "accept"
=============================================================================
