---------------------------- MODULE ServerStartup ----------------------------
(***************************************************************************)
(* How the system daemon comes up and keeps its certificate current        *)
(* (daemon/host/src/server.rs: run_system_server_with_readiness and the    *)
(* reload task; cert.rs; core/src/config.rs).                              *)
(*                                                                         *)
(* Three parties share files: the operator edits the config and the PEM    *)
(* files, the start loop tries to come up from them, and the reload task   *)
(* of a running server follows them through filesystem events. An event    *)
(* names the paths that changed, never what they hold; the task debounces  *)
(* events, reads the config again and decides from the paths.              *)
(*                                                                         *)
(* A config is named by where its certificate comes from. A PEM file is a  *)
(* version number, 0 for none; a pair is whole when its versions agree.    *)
(***************************************************************************)
EXTENDS Integers, Sequences

CONSTANTS
    TlsConfigs,  \* configs that name a certificate and a key file
    OtherConfigs,\* "unset" and some of "managed" (a .ts.net domain), "broken", "badAddr"
    MaxVersion,  \* bound on the renewals of a PEM file
    MaxEdits,    \* bound on the operator's edits of the config
    MaxFaults    \* bound on failures of what the daemon calls, and on events of other files

Configs == TlsConfigs \cup OtherConfigs
Sources == Configs \cap (TlsConfigs \cup {"managed"})
Paths == {"config", "other"} \cup Sources
NoCert == [of |-> "none", cert |-> 0, key |-> 0]
Scheduled == {"scheduled"}

StartupAssumption ==
    /\ TlsConfigs \cap {"managed", "unset", "broken", "badAddr"} = {}
    /\ "unset" \in OtherConfigs /\ OtherConfigs \subseteq {"managed", "unset", "broken", "badAddr"}
    /\ MaxVersion \in Nat /\ MaxEdits \in Nat /\ MaxFaults \in Nat

VARIABLES
    file,      \* the config file: a config, or "absent"
    pem,       \* [cert, key] versions of the files of every source
    boot,      \* step of the start loop
    bootConfig,\* the config run_system_server_once loaded
    ready,     \* ever_ready
    served,    \* ReloadingCertResolver.current
    status,    \* the daemon.status file
    task,      \* step of the reload task
    events,    \* the trigger channel: sets of paths, or Scheduled
    watched,   \* CertificateWatchState.watched_dirs, by what lies in them
    key,       \* CertificateWatchState.reload_key and certificate_files: the config they are of
    trigger,   \* the trigger being collected or served
    read,      \* what the step under way has read: config, certificate version
    edits, faults,
    watching,  \* whether the platform gives the daemon a watcher
    override   \* whether a listen address is given on the command line

bootVars == <<boot, bootConfig, ready>>
taskVars == <<task, key, trigger>>
files == <<file, pem>>
setup == <<watching, override>>
vars == <<files, bootVars, served, status, taskVars, events, watched, read, edits, faults, setup>>

TypeOK ==
    /\ file \in Configs \cup {"absent"}
    /\ pem \in [Sources -> [cert : 0..MaxVersion, key : 0..MaxVersion]]
    /\ boot \in {"start", "certificate", "open", "bind", "ready", "failed", "wait", "serving", "drained"}
    /\ bootConfig \in Configs \cup {"none"} /\ ready \in BOOLEAN
    /\ served \in [of : Sources \cup {"none"}, cert : 0..MaxVersion, key : 0..MaxVersion]
    /\ status \in {"ready", "not-ready"}
    /\ task \in {"off", "setup", "idle", "debounce", "config", "prepare", "key", "save"}
    /\ events \in Seq(SUBSET Paths \cup {Scheduled})
    /\ watched \in SUBSET Paths
    /\ key \in Configs \cup {"none"}
    /\ trigger \in SUBSET Paths \cup {Scheduled}
    /\ read \in [config : Configs \cup {"none"}, cert : 0..MaxVersion, key : 0..MaxVersion]
    /\ edits \in 0..MaxEdits /\ faults \in 0..MaxFaults
    /\ watching \in BOOLEAN /\ override \in BOOLEAN

Nothing == [config |-> "none", cert |-> 0, key |-> 0]

Init ==
    /\ file \in Configs \cup {"absent"}
    /\ pem \in [Sources -> {[cert |-> 0, key |-> 0], [cert |-> 1, key |-> 1]}]
    /\ boot = "start" /\ bootConfig = "none" /\ ready = FALSE
    /\ served = NoCert /\ status = "not-ready"
    /\ task = "off" /\ events = <<>> /\ watched = {} /\ key = "none" /\ trigger = {}
    /\ read = Nothing /\ edits = 0 /\ faults = 0
    /\ watching \in BOOLEAN /\ override \in BOOLEAN

-----------------------------------------------------------------------------
(* Files, and who is told of a change. *)

load_or_default(f) == IF f = "absent" THEN "unset" ELSE f
certificate_reload_key(c) == IF c = "badAddr" THEN "unset" ELSE c
configured_certificate_paths(c) == {c} \cap Sources
RefreshesNever(c) == FALSE
uses_scheduled_certificate_refresh(c) == c = "managed"
config_changed(paths) == "config" \in paths
certificate_changed(paths) == paths \cap configured_certificate_paths(key) # {}
Fault == faults < MaxFaults /\ faults' = faults + 1

\* The watcher's callback: an event for a file of a watched directory.
Told(path) ==
    events' = IF path \in watched THEN Append(events, {path}) ELSE events

\* The operator writes the config, or one file of a pair.
WriteConfig(c) ==
    /\ edits < MaxEdits /\ edits' = edits + 1 /\ file # c
    /\ file' = c /\ Told("config")
    /\ UNCHANGED <<pem, bootVars, served, status, taskVars, watched, read, faults, setup>>

WritePem(s, part) ==
    /\ pem[s][part] < MaxVersion
    /\ pem' = [pem EXCEPT ![s][part] = @ + 1] /\ Told(s)
    /\ UNCHANGED <<file, bootVars, served, status, taskVars, watched, read, edits, faults, setup>>

\* Another file of the config's directory (the databases, the status file), or
\* an event without paths: the platform lost track of what changed.
Noise(paths) ==
    /\ "config" \in watched /\ Fault
    /\ events' = Append(events, paths)
    /\ UNCHANGED <<files, bootVars, served, status, taskVars, watched, read, edits, setup>>

\* save: the file is written whether or not its text changes.
save(c) == file' = c /\ Told("config")

\* ensure_tailscale_certificate: tailscale renews the pair or finds it valid.
Managed(p) == p.cert = p.key /\ p.cert > 0
RenewsAlways ==
    \E v \in {pem["managed"].cert + 1} : pem' = [pem EXCEPT !["managed"] = [cert |-> v, key |-> v]]
ensure_tailscale_certificate ==
    \/ /\ Managed(pem["managed"]) /\ UNCHANGED pem
    \/ /\ pem["managed"].cert < MaxVersion
       /\ \E v \in {pem["managed"].cert + 1} : pem' = [pem EXCEPT !["managed"] = [cert |-> v, key |-> v]]

-----------------------------------------------------------------------------
(* The start loop. *)

Fails == boot' = "failed" /\ bootConfig' = "none" /\ read' = Nothing

LoadFails(c) == c = "broken" \/ (c = "badAddr" /\ ~override)

\* The override replaces an address that does not parse.
WithAddr(c) == IF c = "badAddr" THEN "unset" ELSE c
load_or_generated_default == Configs \cap {"managed", "unset"}

\* load_startup_config, with the config generated when there is none.
load_startup_config ==
    /\ boot = "start"
    /\ \E c \in IF file = "absent" THEN load_or_generated_default ELSE {file} :
        \/ /\ LoadFails(c) /\ Fails /\ UNCHANGED <<file, events>>
        \/ /\ ~LoadFails(c)
           /\ boot' = "certificate" /\ bootConfig' = WithAddr(c) /\ UNCHANGED read
           /\ IF file = "absent" \/ override THEN save(WithAddr(c)) ELSE UNCHANGED <<file, events>>
    /\ UNCHANGED <<pem, ready, served, status, taskVars, watched, edits, faults, setup>>

\* The certificate file and then the key file of a source: load_pem_certificate.
load_pem_certificate(s) == read' = [read EXCEPT !.cert = pem[s].cert]
AcceptsAnyPair(s) == pem[s].key > 0
build_certified_key(s) == pem[s].key = read.cert

PrepareBoot ==
    /\ boot = "certificate" /\ read.cert = 0
    /\ \/ bootConfig \in TlsConfigs /\ load_pem_certificate(bootConfig) /\ pem[bootConfig].cert > 0
          /\ UNCHANGED <<pem, boot, bootConfig, faults>>
       \/ bootConfig \in TlsConfigs /\ pem[bootConfig].cert = 0 /\ Fails /\ UNCHANGED <<pem, faults>>
       \/ bootConfig = "managed" /\ ensure_tailscale_certificate
          /\ read' = [read EXCEPT !.cert = pem'["managed"].cert] /\ UNCHANGED <<boot, bootConfig, faults>>
       \/ bootConfig = "managed" /\ Fault /\ Fails /\ UNCHANGED pem
       \/ bootConfig = "unset" /\ Fails /\ UNCHANGED <<pem, faults>>
    /\ UNCHANGED <<file, events, ready, served, status, taskVars, watched, edits, setup>>

CertifyBoot ==
    /\ boot = "certificate" /\ read.cert > 0
    /\ \/ build_certified_key(bootConfig) /\ boot' = "open" /\ read' = [read EXCEPT !.key = pem[bootConfig].key] /\ UNCHANGED bootConfig
       \/ ~build_certified_key(bootConfig) /\ Fails
    /\ UNCHANGED <<files, events, ready, served, status, taskVars, watched, edits, faults, setup>>

\* The databases and the credentials, the endpoint, the readiness callback.
Opens(from, to) ==
    /\ boot = from
    /\ \/ boot' = to /\ UNCHANGED <<bootConfig, read, faults>>
       \/ Fault /\ Fails
    /\ UNCHANGED <<files, events, ready, served, status, taskVars, watched, edits, setup>>
OpenDatabases == Opens("open", "bind")
ReadyOnBind ==
    /\ boot = "bind" /\ boot' = "ready" /\ status' = "ready"
    /\ UNCHANGED <<files, bootConfig, ready, served, taskVars, events, watched, read, edits, faults, setup>>
build_reloadable_server == Opens("bind", "ready")

on_ready ==
    /\ boot = "ready"
    /\ \/ /\ boot' = "serving" /\ ready' = TRUE /\ status' = "ready" /\ task' = "setup"
          /\ served' = [of |-> bootConfig, cert |-> read.cert, key |-> read.key]
          /\ read' = Nothing /\ UNCHANGED <<bootConfig, faults>>
       \/ Fault /\ Fails /\ UNCHANGED <<ready, served, status, task>>
    /\ UNCHANGED <<files, events, key, trigger, watched, edits, setup>>

\* write_daemon_status(NotReady) and the watches of wait_for_startup_config_change.
NotReady ==
    /\ boot = "failed"
    /\ boot' = "wait" /\ status' = "not-ready"
    /\ watched' = IF ~watching THEN {}
                  ELSE {"config"} \cup (IF file = "broken" THEN {}
                                        ELSE configured_certificate_paths(load_or_default(file)))
    /\ key' = IF ~watching \/ file = "broken" THEN "none" ELSE load_or_default(file) \* update_certificate_watches
    /\ events' = <<>>
    /\ UNCHANGED <<files, bootConfig, ready, served, task, trigger, read, edits, faults, setup>>

RetryOnChange ==
    /\ boot = "wait" /\ events # <<>>
    /\ boot' = "start" /\ watched' = {} /\ events' = <<>> /\ key' = "none"
    /\ UNCHANGED <<files, bootConfig, ready, served, status, task, trigger, read, edits, faults, setup>>

\* A relevant event, or five seconds, starts another attempt; either drops the watcher.
Retry ==
    /\ boot = "wait"
    /\ boot' = "start" /\ watched' = {} /\ events' = <<>> /\ key' = "none"
    /\ UNCHANGED <<files, bootConfig, ready, served, status, task, trigger, read, edits, faults, setup>>

\* An event about no file of the server leaves the loop waiting.
Irrelevant ==
    /\ boot = "wait" /\ events # <<>>
    /\ Head(events) # {} /\ ~config_changed(Head(events)) /\ ~certificate_changed(Head(events))
    /\ events' = Tail(events)
    /\ UNCHANGED <<files, bootVars, served, status, taskVars, watched, read, edits, faults, setup>>

\* A candidate that never served acknowledges the drain that rolls it back.
MayDrain == ~ready
wait_unstarted_drain ==
    /\ boot = "wait" /\ MayDrain
    /\ boot' = "drained" /\ watched' = {} /\ events' = <<>>
    /\ UNCHANGED <<files, bootConfig, ready, served, status, taskVars, read, edits, faults, setup>>

-----------------------------------------------------------------------------
(* The reload task. *)

UpdateWatches(c) ==
    /\ key' = certificate_reload_key(c)
    /\ watched' = watched \cup {"config"} \cup configured_certificate_paths(c)

\* Its watcher and its first watches; without a watcher only the schedule is left.
SetUp ==
    /\ task = "setup" /\ task' = "idle"
    /\ \/ ~watching /\ UNCHANGED <<key, watched>>
       \/ watching /\ file # "broken" /\ UpdateWatches(load_or_default(file))
       \/ watching /\ file = "broken" /\ watched' = {"config"} /\ UNCHANGED key
    /\ UNCHANGED <<files, bootVars, served, status, events, trigger, read, edits, faults, setup>>

schedule_certificate_refreshes ==
    /\ task \notin {"off", "setup"} /\ \A i \in DOMAIN events : events[i] # Scheduled
    /\ events' = Append(events, Scheduled)
    /\ UNCHANGED <<files, bootVars, served, status, taskVars, watched, read, edits, faults, setup>>

\* recv: a scheduled refresh goes on at once, an event waits for the debounce.
Receive ==
    /\ task = "idle" /\ events # <<>>
    /\ events' = Tail(events) /\ trigger' = Head(events)
    /\ task' = IF Head(events) = Scheduled THEN "config" ELSE "debounce"
    /\ UNCHANGED <<files, bootVars, served, status, key, watched, read, edits, faults, setup>>

\* collect_reload_triggers after its sleep: a Scheduled met on the way takes
\* the place of the paths, and what follows it stays in the channel.
FirstScheduled(q) == CHOOSE i \in DOMAIN q : q[i] = Scheduled /\ \A j \in 1..(i-1) : q[j] # Scheduled
collect_reload_triggers(q, paths) ==
    IF \E i \in DOMAIN q : q[i] = Scheduled
    THEN [trigger |-> Scheduled, rest |-> SubSeq(q, FirstScheduled(q) + 1, Len(q))]
    ELSE [trigger |-> paths \cup UNION {q[i] : i \in DOMAIN q}, rest |-> <<>>]

Debounced ==
    /\ task = "debounce"
    /\ LET all == collect_reload_triggers(events, trigger) IN
        trigger' = all.trigger /\ events' = all.rest
    /\ task' = "config"
    /\ UNCHANGED <<files, bootVars, served, status, key, watched, read, edits, faults, setup>>

should_reload(c) ==
    IF trigger = Scheduled THEN uses_scheduled_certificate_refresh(c)
    ELSE IF config_changed(trigger) THEN certificate_reload_key(c) # key
    ELSE certificate_changed(trigger) \/ trigger = {}

Idle == task' = "idle" /\ trigger' = {} /\ read' = Nothing

\* The config is read again; a config without a reload renews the watches.
ReadConfig ==
    /\ task = "config"
    /\ LET c == load_or_default(file) IN
        \/ /\ c = "broken" /\ Idle
           /\ status' = (IF watching THEN "not-ready" ELSE status)
           /\ UNCHANGED <<key, watched>>
        \/ /\ c # "broken" /\ ~should_reload(c) /\ Idle
           /\ IF watching THEN UpdateWatches(c) ELSE UNCHANGED <<key, watched>>
           /\ UNCHANGED status
        \/ /\ c # "broken" /\ should_reload(c)
           /\ task' = "prepare" /\ read' = [read EXCEPT !.config = c]
           /\ UNCHANGED <<status, key, trigger, watched>>
    /\ UNCHANGED <<files, bootVars, served, events, edits, faults, setup>>

\* A failed reload keeps the certificate; only an event's failure is reported.
ReloadFails ==
    /\ Idle
    /\ status' = IF trigger # Scheduled THEN "not-ready" ELSE status

Prepare ==
    /\ task = "prepare"
    /\ LET c == read.config IN
        \/ c \in TlsConfigs /\ pem[c].cert > 0 /\ load_pem_certificate(c) /\ task' = "key"
           /\ UNCHANGED <<pem, events, status, trigger, faults>>
        \/ c \in TlsConfigs /\ pem[c].cert = 0 /\ ReloadFails /\ UNCHANGED <<pem, events, faults>>
        \/ c = "managed" /\ ensure_tailscale_certificate /\ task' = "key"
           /\ read' = [read EXCEPT !.cert = pem'["managed"].cert]
           /\ (IF pem' = pem THEN UNCHANGED events ELSE Told("managed"))
           /\ UNCHANGED <<status, trigger, faults>>
        \/ c = "managed" /\ Fault /\ ReloadFails /\ UNCHANGED <<pem, events>>
        \/ c \notin Sources /\ ReloadFails /\ UNCHANGED <<pem, events, faults>>
    /\ UNCHANGED <<file, bootVars, served, key, watched, edits, setup>>

Certify ==
    /\ task = "key"
    /\ \/ build_certified_key(read.config) /\ task' = "save" /\ read' = [read EXCEPT !.key = pem[read.config].key]
          /\ UNCHANGED <<status, trigger>>
       \/ ~build_certified_key(read.config) /\ ReloadFails
    /\ UNCHANGED <<files, bootVars, served, events, key, watched, edits, faults, setup>>

\* ReloadingCertResolver.replace: the same leaf leaves the certificate alone.
replace(cert) == served' = cert

\* The config that was read goes back to disk before the certificate is used.
Save ==
    /\ task = "save"
    /\ save(read.config)
    /\ replace([of |-> read.config, cert |-> read.cert, key |-> read.key])
    /\ Idle
    /\ IF watching THEN status' = "ready" /\ UpdateWatches(read.config) ELSE UNCHANGED <<status, key, watched>>
    /\ UNCHANGED <<pem, bootVars, edits, faults, setup>>

-----------------------------------------------------------------------------
Boot ==
    \/ load_startup_config \/ PrepareBoot \/ CertifyBoot \/ OpenDatabases
    \/ build_reloadable_server \/ on_ready \/ NotReady \/ Retry
ReloadTask == SetUp \/ Receive \/ Debounced \/ ReadConfig \/ Prepare \/ Certify \/ Save
Operator ==
    \/ \E c \in Configs : WriteConfig(c)
    \/ \E s \in TlsConfigs, part \in {"cert", "key"} : WritePem(s, part)

Next ==
    \/ Boot \/ Irrelevant \/ wait_unstarted_drain
    \/ ReloadTask \/ schedule_certificate_refreshes
    \/ Operator \/ Noise({}) \/ Noise({"other"})

\* The tasks run, their timers fire; nothing is asked of the operator.
Fairness ==
    /\ WF_vars(Boot) /\ WF_vars(ReloadTask) /\ WF_vars(schedule_certificate_refreshes)
Spec == Init /\ [][Next]_vars
FairSpec == Spec /\ Fairness

-----------------------------------------------------------------------------
(* A handshake is never given a certificate with another's key, however    *)
(* the two files were written between the daemon's two reads of them       *)
(* (cert.rs load_pem_certificate and build_certified_key).                 *)
ServedIsWhole == served.cert = served.key /\ (boot = "serving" => served.cert > 0)

(* The status file says ready only of a daemon whose endpoint is bound,    *)
(* whose callback agreed and that has a certificate; a daemon that served  *)
(* never takes the unstarted drain (server.rs 252-295, 348-352).           *)
ReadyIsServing ==
    /\ status = "ready" => boot = "serving" /\ ready /\ served # NoCert
    /\ boot = "drained" => ~ready /\ served = NoCert

(* Once the config can start the daemon and its files are whole, and       *)
(* nothing else fails, the daemon serves, however it failed before:        *)
(* the change between a failed load and the new watch is not missed.       *)
Startable ==
    \/ file \in TlsConfigs /\ pem[file].cert = pem[file].key /\ pem[file].cert > 0
    \/ file = "managed" /\ Managed(pem["managed"])
ComesUp == <>[]Startable => <>(boot \in {"serving", "drained"})

(* A managed certificate is current in the end, whatever edits, events and *)
(* scheduled refreshes coincide (server.rs schedule_certificate_refreshes, *)
(* collect_reload_triggers).                                               *)
Current == served = [of |-> file, cert |-> pem[file].cert, key |-> pem[file].key]
ManagedIsFollowed ==
    <>[](task # "off" /\ file = "managed" /\ Managed(pem["managed"])) => <>[](file = "managed" => Current)

(* "Config and PEM changes are detected with filesystem events": a daemon  *)
(* with a watcher and configured files, current when the watch was set up, *)
(* ends up serving what the files hold once they rest.                     *)
ChangesAreDetected ==
    /\ [](watching /\ (task = "setup" => Current))
    /\ <>[](task # "off" /\ file \in TlsConfigs /\ Startable)
    => <>[](file \in TlsConfigs => Current)
=============================================================================
