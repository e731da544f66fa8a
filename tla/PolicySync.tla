----------------------------- MODULE PolicySync -----------------------------
(***************************************************************************)
(* How the policy of an account reaches a device: crates/failsafe,          *)
(* daemon.rs (run, sync_from_server, handle_sync_tick), sync.rs and         *)
(* cli/commands/run.rs, with the registry and the peer directory of         *)
(* crates/failsafe-core and the device table of crates/failsafe-server,     *)
(* routes/devices.rs.                                                       *)
(*                                                                          *)
(* The server's table says which features each device has enabled.  The     *)
(* daemon fetches it twice when it starts and then every thirty seconds,    *)
(* applies its own row, then those of its peers, while features and the     *)
(* control server read the directory.  Names and keys are left out: a list  *)
(* may always bring a new name, and keys are the subject of ConnectionPool. *)
(***************************************************************************)
CONSTANTS
    Peer,      \* the other devices of the account
    Feature,   \* all_ids(), all of them registered
    Absent,    \* absent
    Removed    \* the row of this device has deleted_at set

Row == {Absent} \cup SUBSET Feature
DeviceList == [self : Row, peers : [Peer -> Row]]
Policy == [local : SUBSET Feature, peers : [Peer -> Row]]

ASSUME PolicyConstants ==
    /\ \A fs \in SUBSET Feature : fs \notin {Absent, Removed}
    /\ Absent # Removed
    /\ Absent \notin DeviceList \cup Policy

VARIABLES
    self,      \* the server's row of this device
    remote,    \* the server's rows of its peers
    saved,     \* enabled_features of the configuration file
    phase,     \* where run is
    step,      \* where sync_from_server is
    local,     \* Daemon.local_features
    enabled,   \* FeatureRegistry.enabled
    running,   \* features that were started and not stopped
    shared,    \* shared_features, which the control server reads
    peers,     \* PeerDirectory.peers
    disabled,  \* PeerDirectory.disabled
    list,      \* the device list that is being applied
    todo,      \* calls of set_feature_enabled still to come
    applied    \* history: the policy that the directory was last replaced from

rowVars == <<self, remote>>
daemonVars == <<phase, step, local, enabled, running, shared, peers, disabled, list, todo,
                applied>>
syncVars == <<rowVars, saved, daemonVars>>

SyncTypeOK ==
    /\ self \in {Removed} \cup Row
    /\ remote \in [Peer -> Row]
    /\ saved \subseteq Feature
    /\ phase \in {"off", "first", "register", "second", "run"}
    /\ step \in {"idle", "fetch", "self", "peers", "share"}
    /\ phase \in {"off", "register"} => step = "idle"
    /\ phase \in {"first", "second"} => step \in {"fetch", "self", "peers"}
    /\ local \subseteq Feature
    /\ enabled \subseteq Feature
    /\ running \subseteq Feature
    /\ shared \subseteq Feature
    /\ peers \subseteq Peer
    /\ disabled \subseteq Peer \X Feature
    /\ list \in DeviceList \cup {Absent}
    /\ todo \subseteq Peer \X Feature
    /\ applied \in Policy \cup {Absent}

SyncInit ==
    /\ self = Absent
    /\ remote = [p \in Peer |-> Absent]
    /\ saved = {}
    /\ phase = "off"
    /\ step = "idle"
    /\ local = {}
    /\ enabled = {}
    /\ running = {}
    /\ shared = {}
    /\ peers = {}
    /\ disabled = {}
    /\ list = Absent
    /\ todo = {}
    /\ applied = Absent

----------------------------------------------------------------------------
(* The server: patches, deletions and pairings by the user's other clients. *)

Active == self \notin {Absent, Removed}

PatchSelf(fs) ==
    /\ Active
    /\ self' = fs
    /\ UNCHANGED <<remote, saved, daemonVars>>

DeleteSelf ==
    /\ Active
    /\ self' = Removed
    /\ UNCHANGED <<remote, saved, daemonVars>>

\* register_device with RegisterDeviceMode::Pairing: a row that was deleted or never was.
PairSelf ==
    /\ ~Active
    /\ self' = saved
    /\ UNCHANGED <<remote, saved, daemonVars>>

\* A peer is paired, patched or deleted.
ChangePeer(p, row) ==
    /\ remote' = [remote EXCEPT ![p] = row]
    /\ UNCHANGED <<self, saved, daemonVars>>

----------------------------------------------------------------------------
(* The daemon starts and stops.                                             *)

\* run.rs up to Daemon::run: the registry enables what the configuration says.
StartDaemon ==
    /\ phase = "off"
    /\ phase' = "first"
    /\ step' = "fetch"
    /\ local' = saved
    /\ enabled' = saved
    /\ UNCHANGED <<rowVars, saved, running, shared, peers, disabled, list, todo, applied>>

\* The process ends and its memory is lost.
Shutdown ==
    /\ phase' = "off"
    /\ step' = "idle"
    /\ local' = {}
    /\ enabled' = {}
    /\ running' = {}
    /\ shared' = {}
    /\ peers' = {}
    /\ disabled' = {}
    /\ list' = Absent
    /\ todo' = {}
    /\ applied' = Absent

\* A signal, the end of the transport, an error while starting, or a crash.
Stop ==
    /\ phase # "off"
    /\ Shutdown
    /\ UNCHANGED <<rowVars, saved>>

\* register_transport_with_server: a new row gets this device's features, an existing
\* one keeps its own, and a deleted one ends the daemon with DeviceRemoved.
Register ==
    /\ phase = "register"
    /\ self' = IF self = Absent THEN local ELSE self
    /\ IF self = Removed
       THEN Shutdown
       ELSE /\ phase' = "second"
            /\ step' = "fetch"
            /\ UNCHANGED <<local, enabled, running, shared, peers, disabled, list, todo,
                           applied>>
    /\ UNCHANGED <<remote, saved>>

\* handle_sync_tick: the heartbeat of a deleted device is answered 404 (load_active_device),
\* which map_device_mutation_response does not take for DeviceRemoved (403), so whatever
\* the heartbeat yields the synchronisation follows.
Tick ==
    /\ phase = "run"
    /\ step = "idle"
    /\ step' = "fetch"
    /\ UNCHANGED <<rowVars, saved, phase, local, enabled, running, shared, peers,
                   disabled, list, todo, applied>>

----------------------------------------------------------------------------
(* sync_from_server.                                                        *)

\* list_devices returns the rows that are not deleted.
FetchList ==
    /\ step = "fetch"
    /\ list' = [self |-> IF Active THEN self ELSE Absent, peers |-> remote]
    /\ step' = "self"
    /\ UNCHANGED <<rowVars, saved, phase, local, enabled, running, shared, peers,
                   disabled, todo, applied>>

\* An error that every daemon only logs.
OnlyLogs ==
    /\ step = "fetch"
    /\ step' = "idle"
    /\ UNCHANGED <<rowVars, saved, phase, local, enabled, running, shared, peers,
                   disabled, list, todo, applied>>

\* An error ends a daemon that is starting; a running one waits for the next tick.
FetchFails ==
    /\ step = "fetch"
    /\ \/ /\ phase = "run"
          /\ step' = "idle"
          /\ UNCHANGED <<phase, local, enabled, running, shared, peers, disabled, list, todo,
                         applied>>
       \/ phase # "run" /\ Shutdown
    /\ UNCHANGED <<rowVars, saved>>

\* Features that are enabled in a running daemon but not started.
NeverStarts(fs) == running \cap fs

\* sync_features_to_registry: enable_and_start in a running daemon, enable before that.
RunningAfter(fs) == IF phase = "run" THEN fs ELSE running

\* The registry follows the row of this device.
FollowRow(fs) ==
    /\ local' = fs
    /\ enabled' = fs
    /\ running' = RunningAfter(fs)

Listed(l) == {p \in Peer : l.peers[p] # Absent}

\* A list that brings nothing new for this device is not applied to the directory.
SkipsUnchanged ==
    /\ step = "self"
    /\ IF list.self \in {Absent, local}
       THEN /\ step' = IF phase = "run" THEN "share" ELSE "peers"
            /\ UNCHANGED <<saved, local, enabled, running, list, todo>>
       ELSE /\ FollowRow(list.self)
            /\ saved' = list.self
            /\ step' = "peers"
            /\ todo' = Listed(list) \X Feature
            /\ UNCHANGED list
    /\ UNCHANGED <<rowVars, phase, shared, peers, disabled, applied>>

\* apply_self_from_server: nothing without a row; the configuration is saved only if the
\* name or the features changed against memory, which a failed save has already set.
ApplySelf ==
    /\ step = "self"
    /\ IF list.self = Absent
       THEN UNCHANGED <<saved, local, enabled, running>>
       ELSE /\ FollowRow(list.self)
            /\ \/ saved' = list.self
               \/ list.self = local /\ UNCHANGED saved
    /\ step' = "peers"
    /\ todo' = Listed(list) \X Feature
    /\ UNCHANGED <<rowVars, phase, shared, peers, disabled, list, applied>>

\* The configuration cannot be saved: the registry has followed, the directory does not.
SavePolicyFails ==
    /\ step = "self"
    /\ list.self # Absent
    /\ \/ /\ phase = "run"
          /\ FollowRow(list.self)
          /\ step' = "idle"
          /\ list' = Absent
          /\ UNCHANGED <<phase, shared, peers, disabled, todo, applied>>
       \/ phase # "run" /\ Shutdown
    /\ UNCHANGED <<rowVars, saved>>

Shared(policy, p, f) ==
    /\ policy.peers[p] # Absent
    /\ f \in policy.local
    /\ f \in policy.peers[p]

Current == [local |-> local, peers |-> list.peers]

\* apply_server_devices, set_feature_enabled of one peer and one feature.
SetFeatureEnabled(p, f) ==
    /\ step = "peers"
    /\ <<p, f>> \in todo
    /\ todo' = todo \ {<<p, f>>}
    /\ disabled' = IF Shared(Current, p, f)
                   THEN disabled \ {<<p, f>>}
                   ELSE disabled \cup {<<p, f>>}
    /\ UNCHANGED <<rowVars, saved, phase, step, local, enabled, running, shared, peers,
                   list, applied>>

\* The peers are replaced before their features are set.
AnyTime == TRUE

AllSet == todo = {}

\* apply_server_devices, replace_peers; the second list of the start is followed by
\* start_enabled and the control server, a later one by the copy to shared_features.
ReplacePeers ==
    /\ step = "peers"
    /\ AllSet
    /\ peers' = Listed(list)
    /\ applied' = Current
    /\ list' = Absent
    /\ todo' = {}
    /\ \/ /\ phase = "first"
          /\ phase' = "register"
          /\ step' = "idle"
          /\ UNCHANGED <<running, shared>>
       \/ /\ phase = "second"
          /\ phase' = "run"
          /\ step' = "idle"
          /\ running' = enabled
          /\ shared' = local
       \/ /\ phase = "run"
          /\ step' = "share"
          /\ UNCHANGED <<phase, running, shared>>
    /\ UNCHANGED <<rowVars, saved, local, enabled, disabled>>

\* handle_sync_tick: *shared_features = local_features.
Share ==
    /\ step = "share"
    /\ step' = "idle"
    /\ shared' = local
    /\ UNCHANGED <<rowVars, saved, phase, local, enabled, running, peers, disabled, list,
                   todo, applied>>

----------------------------------------------------------------------------
ServerStep ==
    \/ \E fs \in SUBSET Feature : PatchSelf(fs)
    \/ DeleteSelf
    \/ PairSelf
    \/ \E p \in Peer, row \in Row : ChangePeer(p, row)

SyncStep ==
    \/ Register
    \/ Tick
    \/ FetchList
    \/ ApplySelf
    \/ \E p \in Peer, f \in Feature : SetFeatureEnabled(p, f)
    \/ ReplacePeers
    \/ Share

Failure ==
    \/ Stop
    \/ FetchFails
    \/ SavePolicyFails

SyncNext ==
    \/ ServerStep
    \/ StartDaemon
    \/ SyncStep
    \/ Failure

SyncSpec == SyncInit /\ [][SyncNext]_syncVars

\* The daemon's task runs, its interval ticks and requests return; nobody need start it.
Fairness == WF_syncVars(SyncStep)

FairSpec == SyncSpec /\ Fairness

----------------------------------------------------------------------------
(* Properties.                                                              *)

\* PeerDirectory: recipients_for and is_feature_enabled.
Recipient(p, f) == p \in peers /\ <<p, f>> \notin disabled

\* At every moment, in the middle of a synchronisation too, a message of a feature goes
\* only to peers that share it under the policy last applied or the one being applied:
\* a new peer is not a recipient of features it has not enabled, and a failed
\* synchronisation leaves no mixture (sync.rs:127, 132).
OnlySharedRecipients ==
    \A p \in Peer, f \in Feature :
        Recipient(p, f) =>
            \/ applied # Absent /\ Shared(applied, p, f)
            \/ step = "peers" /\ Shared(Current, p, f)

\* In a running daemon exactly the features of the registry run, whether they were
\* enabled by the configuration, by a list during the start or by a later one
\* (sync.rs:90, daemon.rs:340).
EnabledIsRunning == phase = "run" => running = enabled

\* The server's rows stop changing, and nothing fails any more.
Calm == <>[][UNCHANGED rowVars /\ ~Failure]_syncVars

UpToDate ==
    /\ local = self
    /\ running = self
    /\ shared = self
    /\ \A p \in Peer, f \in Feature :
         Recipient(p, f) <=> Shared([local |-> self, peers |-> remote], p, f)

\* Once all is calm, a running daemon comes to follow the server in its features, in what
\* the control server allows and in whom it sends to, whatever failed half way before
\* (liveness; sync.rs:59, daemon.rs:322).
PolicyArrives == Calm => <>[](phase = "run" /\ Active => UpToDate)

\* "this device was removed from your account" (error.rs:26) ends a daemon whose device
\* is deleted, once all is calm: handle_sync_tick returns DeviceRemoved (daemon.rs:314).
RemovedStops == Calm => ((phase = "run" /\ self = Removed) ~> (phase = "off" \/ Active))
============================================================================
