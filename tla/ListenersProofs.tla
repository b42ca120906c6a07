-------------------------- MODULE ListenersProofs --------------------------
(***************************************************************************)
(* Proofs about Listeners for any pairs of certificate files and any       *)
(* number of writes of them.                                               *)
(***************************************************************************)
EXTENDS Listeners, TLAPS

USE DEF Ports, Up

----------------------------------------------------------------------------
(* Type correctness *)

\* A step keeps the types.
LEMMA TypeStep == TypeOK /\ [Next]_vars => TypeOK'
<1> SUFFICES ASSUME TypeOK, [Next]_vars PROVE TypeOK'
  OBVIOUS
<1> USE ListenersAssumption DEF TypeOK, files, reload, manager, threads
<1>1. ASSUME NEW c \in Pairs, Update(c) PROVE TypeOK'
  BY <1>1 DEF Update
<1>2. ASSUME NEW c \in Pairs, Reload(c) PROVE TypeOK'
  BY <1>2 DEF Reload
<1>3. ASSUME NEW c \in Pairs, LoadPair(c) PROVE TypeOK'
  <2>1. disk[c] # Broken => <<c, disk[c]>> \in Certificates
    BY DEF Certificates
  <2>2. loaded' \subseteq Certificates
    BY <1>3, <2>1 DEF LoadPair
  <2> QED BY <1>3, <2>2 DEF LoadPair
<1>4. CASE LoadEnd
  <2>1. config' \in Configs
    BY <1>4 DEF LoadEnd, Configs
  <2> QED BY <1>4, <2>1 DEF LoadEnd
<1>5. CASE SetTLSConfig
  BY <1>5 DEF SetTLSConfig
<1>6. ASSUME NEW p \in Ports, NewListener(p) PROVE TypeOK'
  BY <1>6 DEF NewListener, To
<1>7. ASSUME NEW p \in Ports, ListenFailed(p) PROVE TypeOK'
  BY <1>7 DEF ListenFailed, To
<1>8. CASE AssignListener
  BY <1>8 DEF AssignListener, To
<1>9. ASSUME NEW p \in Ports, Serve(p) PROVE TypeOK'
  BY <1>9 DEF Serve, To
<1>10. CASE Start
  BY <1>10 DEF Start
<1>11. CASE StartFailed \/ BotFailed \/ Exit
  BY <1>11 DEF StartFailed, BotFailed, Exit
<1>12. CASE Signal \/ CronShutdown \/ StopWatcher
  BY <1>12 DEF Signal, CronShutdown, StopWatcher
<1>13. CASE CloseServer
  BY <1>13 DEF CloseServer
<1>14. CASE UNCHANGED vars
  BY <1>14 DEF vars
<1> QED
  BY <1>1, <1>2, <1>3, <1>4, <1>5, <1>6, <1>7, <1>8, <1>9, <1>10, <1>11,
     <1>12, <1>13, <1>14
     DEF Next, loadTLSConfig, listen, main, shutdown

\* Every variable of the manager and of the goroutines around it keeps its
\* type.
THEOREM TypeCorrect == Spec => []TypeOK
<1>1. Init => TypeOK
  <2> SUFFICES ASSUME Init PROVE TypeOK
    OBVIOUS
  <2>1. 0 \in 0..MaxUpdates
    BY ListenersAssumption
  <2>2. disk \in [Pairs -> 0..MaxUpdates \cup {Broken}]
    BY <2>1 DEF Init
  <2>3. {} \subseteq Certificates /\ NoConfig \in Configs
    BY DEF Configs
  <2> QED BY <2>1, <2>2, <2>3 DEF Init, TypeOK
<1> QED BY <1>1, TypeStep, PTL DEF Spec

----------------------------------------------------------------------------
(* The configuration and the listener *)

\* Until Start the ports are closed; the TLS port has no listener before
\* AssignListener and one from there on, for a certificate that loaded.  A
\* listener that listen is about to set is for the manager's configuration
\* unless a reload is about to find out that there is none yet.
Current ==
  /\ mpc # "wait" => lpc["tls"] = "off"
  /\ lpc["tls"] \in {"off", "bind", "assign"} => listener = NoListener
  /\ lpc["tls"] \in {"bind", "assign"} => arg \notin {NoConfig, {}}
  /\ lpc["tls"] \in {"serve", "accept"} => listener \notin {NoListener, NoConfig, {}}
  /\ config # {}
  /\ rpc = "set" => config # NoConfig
  /\ Up /\ rpc # "set" /\ lpc["tls"] \in {"bind", "assign"} => arg = config
  /\ ListenerIsCurrent

\* The certificates in S are those of pair c as it is on disk.
HoldsPair(S, c) == \A v \in 0..MaxUpdates : <<c, v>> \in S <=> disk[c] = v

\* What is loaded of the pairs that were read and not written since is what is
\* on disk; nothing is loaded of those that were not read.
LoadedPairs ==
  /\ \A c \in unread : \A v \in 0..MaxUpdates : <<c, v>> \notin loaded
  /\ \A c \in Pairs \ (unread \cup due) : HoldsPair(loaded, c)

\* After a load the configuration holds the pairs not written since, or none
\* of these loads.
ConfigHoldsPairs ==
  \/ config # NoConfig /\ \A c \in Pairs \ due : HoldsPair(config, c)
  \/ \A c \in Pairs \ due : disk[c] = Broken

NoWriteIsMissed ==
  watcher = "on" =>
    /\ rpc = "load" => LoadedPairs
    /\ rpc # "load" => ConfigHoldsPairs

\* A step keeps the listener and the configuration together.
LEMMA CurrentStep == TypeOK /\ Current /\ [Next]_vars => Current'
<1> SUFFICES ASSUME TypeOK, Current, [Next]_vars PROVE Current'
  OBVIOUS
<1>0. /\ \A S \in Configs : S # NoListener
      /\ config \in Configs /\ arg \in Configs
      /\ loaded # NoConfig
      /\ lpc = [p \in Ports |-> lpc[p]]
  BY ListenersAssumption DEF TypeOK
<1> USE <1>0 DEF Current, ListenerIsCurrent, files, reload, manager, threads
<1>1. ASSUME NEW c \in Pairs, Update(c) PROVE Current'
  BY <1>1 DEF Update
<1>2. ASSUME NEW c \in Pairs, Reload(c) PROVE Current'
  BY <1>2 DEF Reload
<1>3. ASSUME NEW c \in Pairs, LoadPair(c) PROVE Current'
  BY <1>3 DEF LoadPair
<1>4. CASE LoadEnd
  BY <1>4 DEF LoadEnd
<1>5. CASE SetTLSConfig
  BY <1>5 DEF SetTLSConfig
<1>6. ASSUME NEW p \in Ports, NewListener(p) PROVE Current'
  BY <1>6 DEF NewListener, To
<1>7. ASSUME NEW p \in Ports, ListenFailed(p) PROVE Current'
  BY <1>7 DEF ListenFailed, To
<1>8. CASE AssignListener
  BY <1>8 DEF AssignListener, To
<1>9. ASSUME NEW p \in Ports, Serve(p) PROVE Current'
  BY <1>9 DEF Serve, To
<1>10. CASE Start
  BY <1>10 DEF Start
<1>11. CASE StartFailed \/ BotFailed \/ Exit
  BY <1>11 DEF StartFailed, BotFailed, Exit
<1>12. CASE Signal \/ CronShutdown \/ StopWatcher
  BY <1>12 DEF Signal, CronShutdown, StopWatcher
<1>13. CASE CloseServer
  BY <1>13 DEF CloseServer
<1>14. CASE UNCHANGED vars
  BY <1>14 DEF vars
<1> QED
  BY <1>1, <1>2, <1>3, <1>4, <1>5, <1>6, <1>7, <1>8, <1>9, <1>10, <1>11,
     <1>12, <1>13, <1>14
     DEF Next, loadTLSConfig, listen, main, shutdown

\* Nothing is open before NewManager returns.
LEMMA CurrentInit == Init => Current
  BY ListenersAssumption DEF Init, Current, ListenerIsCurrent

\* Between reloads the TLS port serves the manager's configuration, although
\* Start and listen do not take the lock that a reload holds.
THEOREM CurrentListener == Spec => []ListenerIsCurrent
<1>1. Current => ListenerIsCurrent
  BY DEF Current
<1> QED BY <1>1, TypeCorrect, CurrentInit, CurrentStep, PTL DEF Spec

\* A connection to the TLS port is never served without a certificate,
\* whatever is written to the files.
THEOREM CertificatesOnTLSPort == Spec => []TLSPortHasCertificates
<1>1. Current => TLSPortHasCertificates
  BY DEF Current, TLSPortHasCertificates, Accepted
<1> QED BY <1>1, TypeCorrect, CurrentInit, CurrentStep, PTL DEF Spec

----------------------------------------------------------------------------
(* The files *)

\* A step keeps what is loaded in line with what is on disk, but for the pairs
\* whose timer runs.
LEMMA NoWriteIsMissedStep ==
  TypeOK /\ NoWriteIsMissed /\ [Next]_vars => NoWriteIsMissed'
<1> SUFFICES ASSUME TypeOK, NoWriteIsMissed, [Next]_vars PROVE NoWriteIsMissed'
  OBVIOUS
<1> USE DEF NoWriteIsMissed, LoadedPairs, ConfigHoldsPairs, HoldsPair,
            files, reload, manager
<1>1. ASSUME NEW c \in Pairs, Update(c) PROVE NoWriteIsMissed'
  <2>1. watcher' = "on" => /\ watcher = "on" /\ due' = due \cup {c}
                           /\ \A d \in Pairs \ due' : disk'[d] = disk[d]
    BY <1>1 DEF Update, TypeOK
  <2>2. UNCHANGED <<rpc, unread, loaded, config>>
    BY <1>1 DEF Update
  <2> QED BY <2>1, <2>2
<1>2. ASSUME NEW c \in Pairs, Reload(c) PROVE NoWriteIsMissed'
  BY <1>2 DEF Reload
<1>3. ASSUME NEW c \in Pairs, LoadPair(c) PROVE NoWriteIsMissed'
  <2>1. /\ rpc = "load" /\ c \in unread /\ unread' = unread \ {c}
        /\ loaded' = IF disk[c] = Broken THEN loaded ELSE loaded \cup {<<c, disk[c]>>}
        /\ UNCHANGED <<files, rpc, config>>
    BY <1>3 DEF LoadPair
  <2>2. \A d \in Pairs : d # c =>
          \A v \in 0..MaxUpdates : <<d, v>> \in loaded' <=> <<d, v>> \in loaded
    BY <2>1
  <2>3. watcher = "on" => HoldsPair(loaded, c)'
    BY <2>1, ListenersAssumption DEF TypeOK
  <2> QED BY <2>1, <2>2, <2>3 DEF TypeOK
<1>4. CASE LoadEnd
  <2>1. /\ rpc = "load" /\ unread = {} /\ rpc' # "load"
        /\ config' = IF loaded # {} THEN loaded ELSE config
        /\ UNCHANGED files
    BY <1>4 DEF LoadEnd
  <2>2. CASE loaded # {}
    BY <2>1, <2>2, ListenersAssumption DEF TypeOK
  <2>3. CASE loaded = {}
    <3>1. watcher = "on" => \A c \in Pairs \ due : disk[c] = Broken
      BY <2>1, <2>3 DEF TypeOK
    <3> QED BY <2>1, <3>1
  <2> QED BY <2>2, <2>3
<1>5. CASE SetTLSConfig
  BY <1>5 DEF SetTLSConfig
<1>6. ASSUME NEW p \in Ports, listen(p) PROVE NoWriteIsMissed'
  BY <1>6 DEF listen, NewListener, ListenFailed, AssignListener, Serve
<1>7. CASE main \/ BotFailed \/ Signal \/ CronShutdown \/ CloseServer \/ Exit
  BY <1>7 DEF main, Start, StartFailed, BotFailed, Signal, CronShutdown,
              CloseServer, Exit
<1>8. CASE StopWatcher
  BY <1>8 DEF StopWatcher
<1>9. CASE UNCHANGED vars
  BY <1>9 DEF vars
<1> QED
  BY <1>1, <1>2, <1>3, <1>4, <1>5, <1>6, <1>7, <1>8, <1>9
     DEF Next, loadTLSConfig, shutdown

\* Before the first load nothing is read and nothing is loaded.
LEMMA NoWriteIsMissedInit == Init => NoWriteIsMissed
  BY DEF Init, NoWriteIsMissed, LoadedPairs

\* When no timer runs the configuration is what is on disk.
LEMMA QuietConfig == TypeOK /\ NoWriteIsMissed => FilesAreLoaded
<1> SUFFICES ASSUME TypeOK, NoWriteIsMissed, watcher = "on", rpc = "idle",
                    due = {}, Loadable # {}
             PROVE  config = Loadable
  BY DEF FilesAreLoaded
<1>1. PICK cert \in Certificates : disk[cert[1]] = cert[2]
  BY DEF Loadable
<1>2. cert[1] \in Pairs /\ disk[cert[1]] # Broken
  BY <1>1, ListenersAssumption DEF Certificates
<1>3. config # NoConfig /\ \A c \in Pairs : HoldsPair(config, c)
  BY <1>2 DEF NoWriteIsMissed, ConfigHoldsPairs
<1>4. config \subseteq Certificates
  BY <1>3 DEF TypeOK, Configs
<1>5. \A x \in Certificates : x \in config <=> disk[x[1]] = x[2]
  BY <1>3 DEF HoldsPair, Certificates
<1> QED BY <1>4, <1>5 DEF Loadable

\* No write of a certificate is missed, also one during a load.
THEOREM AllFilesLoaded == Spec => []FilesAreLoaded
  BY QuietConfig, TypeCorrect, NoWriteIsMissedInit, NoWriteIsMissedStep, PTL
     DEF Spec
=============================================================================
