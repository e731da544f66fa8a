--------------------------- MODULE ReceiveTransfer ---------------------------
(***************************************************************************)
(* The receiving half of `failsafe send`: crates/failsafe-send, feature.rs  *)
(* (SendFeature), resume.rs, cancel.rs and the receive half of              *)
(* transfer_state.rs, on one device that receives from one peer.            *)
(*                                                                          *)
(* Every transfer manifest that arrives is run by a task of its own         *)
(* (handle_transfer); the pass spawned by start() and every tick of the     *)
(* resume watcher may run the saved, incomplete receives again              *)
(* (resume_incomplete_receives).  The tasks share the lock map              *)
(* receive_in_progress, the state files on disk and the transport.  An      *)
(* action is the code between two awaits whose interleaving can be seen.    *)
(***************************************************************************)
EXTENDS Naturals

CONSTANTS
    Transfer,      \* transfer ids
    Hash,          \* collection hashes; the file entries go with the hash
    Handler,       \* tasks of spawn_transfer_handler
    Startup,       \* tasks that run one resume pass after start()
    Watcher,       \* resume watchers; stop() does not end them
    Lock,          \* identities of the Arc<Mutex<()>> in the lock map
    None,          \* absent
    ReadFails,     \* whether a state file or its directory may be unreadable
    MaxInFlight    \* bound: equal acknowledgements in flight

Resumer == Startup \cup Watcher
Proc == Handler \cup Resumer

ASSUME ConstantsAssumption ==
    /\ Handler \cap Resumer = {}
    /\ Startup \cap Watcher = {}
    /\ None \notin Transfer \cup Hash \cup Proc \cup Lock
    /\ None \notin [stage : {"Downloading", "Exporting", "Complete", "Failed"}, hash : Hash]
    /\ ReadFails \in BOOLEAN
    /\ MaxInFlight \in Nat

VARIABLES
    enabled,     \* the registry dispatches to the feature
    connected,   \* the sender is in the connection pool
    watching,    \* watchers that were spawned since the daemon started
    known,       \* watchers whose known_peers holds the sender
    disk,        \* transfers/receive/<id>.json
    locks,       \* receive_in_progress
    holder,      \* the task that holds each lock's guard
    pc,          \* where each task is
    tid,         \* the transfer a task works on
    hash,        \* the collection hash of its payload or saved state
    lock,        \* the lock a task has cloned out of the map
    todo,        \* saved states that a resume pass has still to visit
    cancelTodo,  \* saved states that cancel_all_incomplete_receives will remove
    acks,        \* acknowledgements in flight to the sender
    exported     \* collections whose files were written to the receive directory

daemonVars == <<enabled, connected, watching, known>>
lockVars   == <<locks, holder, lock>>
taskVars   == <<pc, tid, hash, todo>>
vars == <<daemonVars, disk, lockVars, taskVars, cancelTodo, acks, exported>>

ReceiveStage == {"Downloading", "Exporting", "Complete", "Failed"}
ReceiveTransferState == [stage : ReceiveStage, hash : Hash]
SavedTransfer == [id : Transfer, hash : Hash]
SendAckMsg == [id : Transfer, ok : BOOLEAN]

\* The labels of run_receive, and those at which a task holds its transfer's lock.
RunReceive == {"begin", "download", "export", "complete"}
HandlerLocked == RunReceive \cup
    {"load", "reack", "ack", "remove", "fail", "markFailed", "nack", "release"}
ResumerLocked == RunReceive \cup {"unlock", "giveUp"}
PC == HandlerLocked \cup ResumerLocked \cup
    {"idle", "arrived", "waiting", "cleanup", "list", "peers", "pass"}

TypeOK ==
    /\ enabled \in BOOLEAN
    /\ connected \in BOOLEAN
    /\ watching \subseteq Watcher
    /\ known \subseteq Watcher
    /\ disk \in [Transfer -> ReceiveTransferState \cup {None}]
    /\ locks \in [Transfer -> Lock \cup {None}]
    /\ holder \in [Lock -> Proc \cup {None}]
    /\ pc \in [Proc -> PC]
    /\ tid \in [Proc -> Transfer \cup {None}]
    /\ hash \in [Proc -> Hash \cup {None}]
    /\ lock \in [Proc -> Lock \cup {None}]
    /\ todo \in [Resumer -> SUBSET SavedTransfer]
    /\ cancelTodo \subseteq Transfer
    /\ acks \in [SendAckMsg -> 0..MaxInFlight]
    /\ exported \subseteq Transfer \X Hash

Init ==
    /\ enabled = FALSE
    /\ connected = FALSE
    /\ watching = {}
    /\ known = {}
    /\ disk = [x \in Transfer |-> None]
    /\ locks = [x \in Transfer |-> None]
    /\ holder = [l \in Lock |-> None]
    /\ pc = [p \in Proc |-> "idle"]
    /\ tid = [p \in Proc |-> None]
    /\ hash = [p \in Proc |-> None]
    /\ lock = [p \in Proc |-> None]
    /\ todo = [r \in Resumer |-> {}]
    /\ cancelTodo = {}
    /\ acks = [m \in SendAckMsg |-> 0]
    /\ exported = {}

----------------------------------------------------------------------------
(* The daemon around the feature.                                           *)

\* SendFeature::start: one resume pass and one more watcher.
FeatureStart(s, w) ==
    /\ ~enabled
    /\ pc[s] = "idle"
    /\ w \notin watching
    /\ enabled' = TRUE
    /\ watching' = watching \cup {w}
    /\ pc' = [pc EXCEPT ![s] = "list"]
    /\ UNCHANGED <<connected, known, disk, lockVars, tid, hash, todo, cancelTodo,
                   acks, exported>>

\* FeatureRegistry::disable; SendFeature::stop leaves tasks and watchers running.
FeatureStop ==
    /\ enabled
    /\ enabled' = FALSE
    /\ UNCHANGED <<connected, watching, known, disk, lockVars, taskVars, cancelTodo,
                   acks, exported>>

\* The process ends: memory is lost, files and messages already sent are not.
Crash ==
    /\ enabled' = FALSE
    /\ connected' = FALSE
    /\ watching' = {}
    /\ known' = {}
    /\ locks' = [x \in Transfer |-> None]
    /\ holder' = [l \in Lock |-> None]
    /\ pc' = [p \in Proc |-> "idle"]
    /\ tid' = [p \in Proc |-> None]
    /\ hash' = [p \in Proc |-> None]
    /\ lock' = [p \in Proc |-> None]
    /\ todo' = [r \in Resumer |-> {}]
    /\ cancelTodo' = {}
    /\ UNCHANGED <<disk, acks, exported>>

\* The pool gains or loses the sender's connection.
SetConnected(b) ==
    /\ connected # b
    /\ connected' = b
    /\ UNCHANGED <<enabled, watching, known, disk, lockVars, taskVars, cancelTodo,
                   acks, exported>>

----------------------------------------------------------------------------
(* The lock of a transfer: the head of handle_transfer and resume_receive.  *)

Goto(p, label) == pc' = [pc EXCEPT ![p] = label]

\* handle_message on a whole manifest: the handler task is spawned.
ReceivePayload(p, x, h) ==
    /\ enabled
    /\ pc[p] = "idle"
    /\ Goto(p, "arrived")
    /\ tid' = [tid EXCEPT ![p] = x]
    /\ hash' = [hash EXCEPT ![p] = h]
    /\ UNCHANGED <<daemonVars, disk, lockVars, todo, cancelTodo, acks, exported>>

Referenced(l) == (\E x \in Transfer : locks[x] = l) \/ (\E q \in Proc : lock[q] = l)

\* locks.entry(id).or_insert_with(new Arc).clone()
CloneLock(p) ==
    /\ pc[p] = "arrived"
    /\ \E l \in Lock :
        /\ \/ locks[tid[p]] = l
           \/ locks[tid[p]] = None /\ ~Referenced(l)
        /\ locks' = [locks EXCEPT ![tid[p]] = l]
        /\ lock' = [lock EXCEPT ![p] = l]
    /\ Goto(p, "waiting")
    /\ UNCHANGED <<daemonVars, disk, holder, tid, hash, todo, cancelTodo, acks, exported>>

\* transfer_lock.lock().await; a resume goes straight on to run_receive with the
\* state it listed before it had the lock.
AcquireLock(p) ==
    /\ pc[p] = "waiting"
    /\ holder[lock[p]] = None
    /\ holder' = [holder EXCEPT ![lock[p]] = p]
    /\ Goto(p, IF p \in Handler THEN "load" ELSE "begin")
    /\ UNCHANGED <<daemonVars, disk, locks, lock, tid, hash, todo, cancelTodo, acks,
                   exported>>

\* The guard outlives the removal of the map entry and is never dropped.
KeepsGuard(p) ==
    /\ pc[p] = "release"
    /\ Goto(p, "cleanup")
    /\ UNCHANGED <<daemonVars, disk, lockVars, tid, hash, todo, cancelTodo, acks, exported>>

\* drop(_receive_guard) in handle_transfer.
ReleaseLock(p) ==
    /\ pc[p] = "release"
    /\ holder' = [holder EXCEPT ![lock[p]] = None]
    /\ Goto(p, "cleanup")
    /\ UNCHANGED <<daemonVars, disk, locks, lock, tid, hash, todo, cancelTodo, acks,
                   exported>>

\* A removal that looks only at the pointer, not at the count.
IgnoreStrongCount(p) == TRUE

\* Arc::strong_count(entry) == 2: the map and this task, no other clone.
OnlyReference(p) == \A q \in Proc \ {p} : lock[q] # lock[p]

\* The tail of handle_transfer: the entry is removed unless somebody waits on it.
RemoveLock(p) ==
    /\ pc[p] = "cleanup"
    /\ locks' = IF locks[tid[p]] = lock[p] /\ OnlyReference(p)
                THEN [locks EXCEPT ![tid[p]] = None]
                ELSE locks
    /\ lock' = [lock EXCEPT ![p] = None]
    /\ tid' = [tid EXCEPT ![p] = None]
    /\ hash' = [hash EXCEPT ![p] = None]
    /\ Goto(p, "idle")
    /\ UNCHANGED <<daemonVars, disk, holder, todo, cancelTodo, acks, exported>>

----------------------------------------------------------------------------
(* handle_transfer_locked.                                                  *)

\* A payload of another version is refused without an acknowledgement.
RejectVersion(p) ==
    /\ pc[p] = "load"
    /\ Goto(p, "release")
    /\ UNCHANGED <<daemonVars, disk, lockVars, tid, hash, todo, cancelTodo, acks, exported>>

\* Acknowledging a receive that only started to export.
SkipsExport(x) == disk[x] # None /\ disk[x].stage \in {"Exporting", "Complete"}

AlreadyComplete(x) == disk[x] # None /\ disk[x].stage = "Complete"

\* load_receive_state; without a file, or with one that cannot be read, the state comes
\* from the payload.  Either way sender, hash and entries become those of the payload.
LoadState(p) ==
    /\ pc[p] = "load"
    /\ \/ AlreadyComplete(tid[p]) /\ Goto(p, "reack")
       \/ (AlreadyComplete(tid[p]) => ReadFails) /\ Goto(p, "begin")
    /\ UNCHANGED <<daemonVars, disk, lockVars, tid, hash, todo, cancelTodo, acks, exported>>

\* A state that is missing is made up by default, with no hash, and written back.
DefaultsMissing(p) ==
    /\ pc[p] = "fail"
    /\ Goto(p, "markFailed")
    /\ hash' = [hash EXCEPT ![p] = IF disk[tid[p]] = None THEN None ELSE disk[tid[p]].hash]
    /\ UNCHANGED <<daemonVars, disk, lockVars, tid, todo, cancelTodo, acks, exported>>

\* The error path: load_receive_state, and only if there is a file ...
LoadFailed(p) ==
    /\ pc[p] = "fail"
    /\ \/ /\ disk[tid[p]] # None
          /\ Goto(p, "markFailed")
          /\ hash' = [hash EXCEPT ![p] = disk[tid[p]].hash]
       \/ /\ disk[tid[p]] = None \/ ReadFails
          /\ Goto(p, "nack")
          /\ UNCHANGED hash
    /\ UNCHANGED <<daemonVars, disk, lockVars, tid, todo, cancelTodo, acks, exported>>

Save(x, stage, h) == disk' = [disk EXCEPT ![x] = [stage |-> stage, hash |-> h]]

\* ... it is written back with stage Failed, if that succeeds.
MarkFailed(p) ==
    /\ pc[p] = "markFailed"
    /\ Save(tid[p], "Failed", hash[p]) \/ UNCHANGED disk
    /\ Goto(p, "nack")
    /\ UNCHANGED <<daemonVars, lockVars, tid, hash, todo, cancelTodo, acks, exported>>

\* transport.send of a SendEnvelope::Ack; MaxInFlight equal ones at most are kept.
Post(m) == acks' = [acks EXCEPT ![m] = IF @ < MaxInFlight THEN @ + 1 ELSE @]

\* let _ = self.send_ack(.. ok: false ..): sent or not, the handler goes on.
SendNack(p) ==
    /\ pc[p] = "nack"
    /\ \/ connected /\ Post([id |-> tid[p], ok |-> FALSE])
       \/ UNCHANGED acks
    /\ Goto(p, "release")
    /\ UNCHANGED <<daemonVars, disk, lockVars, tid, hash, todo, cancelTodo, exported>>

----------------------------------------------------------------------------
(* run_receive.                                                             *)

BeginDownload(p) ==
    /\ pc[p] = "begin"
    /\ Save(tid[p], "Downloading", hash[p])
    /\ Goto(p, "download")
    /\ UNCHANGED <<daemonVars, lockVars, tid, hash, todo, cancelTodo, acks, exported>>

\* Complete is written when the download ends, before the export.
CompleteBeforeExport(p) ==
    /\ pc[p] = "download"
    /\ Save(tid[p], "Complete", hash[p])
    /\ Goto(p, "export")
    /\ UNCHANGED <<daemonVars, lockVars, tid, hash, todo, cancelTodo, acks, exported>>

FinishDownload(p) ==
    /\ pc[p] = "download"
    /\ Save(tid[p], "Exporting", hash[p])
    /\ Goto(p, "export")
    /\ UNCHANGED <<daemonVars, lockVars, tid, hash, todo, cancelTodo, acks, exported>>

FinishExport(p) ==
    /\ pc[p] = "export"
    /\ exported' = exported \cup {<<tid[p], hash[p]>>}
    /\ Goto(p, "complete")
    /\ UNCHANGED <<daemonVars, disk, lockVars, tid, hash, todo, cancelTodo, acks>>

\* The last save and the notification; a handler acknowledges under its lock, a
\* resume returns from resume_receive, and so unlocks, first.
SaveComplete(p) ==
    /\ pc[p] = "complete"
    /\ Save(tid[p], "Complete", hash[p])
    /\ Goto(p, IF p \in Handler THEN "ack" ELSE "unlock")
    /\ UNCHANGED <<daemonVars, lockVars, tid, hash, todo, cancelTodo, acks, exported>>

\* A failed receive whose state is thrown away instead of being kept for a resume.
ForgetOnError(p) == IF p \in Handler THEN "remove" ELSE "giveUp"

OnError(p) == IF p \in Handler THEN "fail" ELSE "giveUp"

\* Any `?` of run_receive: limits, a save, the download, the directory, the export.
RunFails(p) ==
    /\ pc[p] \in RunReceive
    /\ Goto(p, OnError(p))
    /\ UNCHANGED <<daemonVars, disk, lockVars, tid, hash, todo, cancelTodo, acks, exported>>

----------------------------------------------------------------------------
(* Acknowledgement and removal, in handlers and in resume passes.           *)

\* A resume pass goes back to its list, a handler on to its unlock.
Done(p) ==
    IF p \in Handler
    THEN Goto(p, "release") /\ UNCHANGED <<tid, hash>>
    ELSE /\ Goto(p, "pass")
         /\ tid' = [tid EXCEPT ![p] = None]
         /\ hash' = [hash EXCEPT ![p] = None]

SendAck(p) ==
    /\ pc[p] \in {"ack", "reack"}
    /\ connected
    /\ Post([id |-> tid[p], ok |-> TRUE])
    /\ Goto(p, "remove")
    /\ UNCHANGED <<daemonVars, disk, lockVars, tid, hash, todo, cancelTodo, exported>>

\* The Complete state stays on disk.
AckFails(p) ==
    /\ pc[p] \in {"ack", "reack"}
    /\ Done(p)
    /\ UNCHANGED <<daemonVars, disk, lockVars, todo, cancelTodo, acks, exported>>

\* A removal that fails is only logged.
RemoveState(p) ==
    /\ pc[p] = "remove"
    /\ disk' = [disk EXCEPT ![tid[p]] = None] \/ UNCHANGED disk
    /\ Done(p)
    /\ UNCHANGED <<daemonVars, lockVars, todo, cancelTodo, acks, exported>>

----------------------------------------------------------------------------
(* resume_incomplete_receives and the watcher.                              *)

Incomplete(x) == disk[x] # None /\ disk[x].stage # "Complete"

\* list_incomplete_receives; the pass ends when a file cannot be read.
ListIncomplete(r) ==
    /\ pc[r] = "list"
    /\ \/ /\ todo' = [todo EXCEPT ![r] =
               {[id |-> x, hash |-> disk[x].hash] : x \in {y \in Transfer : Incomplete(y)}}]
          /\ Goto(r, "peers")
       \/ /\ ReadFails
          /\ Goto(r, "idle")
          /\ UNCHANGED todo
    /\ UNCHANGED <<daemonVars, disk, lockVars, tid, hash, cancelTodo, acks, exported>>

\* transport.connected_peers(): states of an absent sender are skipped.
CheckPeers(r) ==
    /\ pc[r] = "peers"
    /\ todo' = [todo EXCEPT ![r] = IF connected THEN @ ELSE {}]
    /\ Goto(r, "pass")
    /\ UNCHANGED <<daemonVars, disk, lockVars, tid, hash, cancelTodo, acks, exported>>

ResumeNext(r) ==
    /\ pc[r] = "pass"
    /\ \E s \in todo[r] :
        /\ tid' = [tid EXCEPT ![r] = s.id]
        /\ hash' = [hash EXCEPT ![r] = s.hash]
        /\ todo' = [todo EXCEPT ![r] = @ \ {s}]
    /\ Goto(r, "arrived")
    /\ UNCHANGED <<daemonVars, disk, lockVars, cancelTodo, acks, exported>>

\* resume_receive returns: guard and clone are dropped, the map entry stays.
ResumeUnlock(r) ==
    /\ pc[r] \in {"unlock", "giveUp"}
    /\ holder' = [holder EXCEPT ![lock[r]] = None]
    /\ lock' = [lock EXCEPT ![r] = None]
    /\ IF pc[r] = "unlock"
       THEN Goto(r, "ack") /\ UNCHANGED <<tid, hash>>
       ELSE Done(r)
    /\ UNCHANGED <<daemonVars, disk, locks, todo, cancelTodo, acks, exported>>

EndPass(r) ==
    /\ pc[r] = "pass"
    /\ todo[r] = {}
    /\ Goto(r, "idle")
    /\ UNCHANGED <<daemonVars, disk, lockVars, tid, hash, todo, cancelTodo, acks, exported>>

\* known_peers is replaced before it is compared with the connected peers.
ForgetsNewPeer(w) ==
    /\ w \in watching
    /\ pc[w] = "idle"
    /\ known' = IF connected THEN known \cup {w} ELSE known \ {w}
    /\ UNCHANGED <<enabled, connected, watching, disk, lockVars, taskVars, cancelTodo,
                   acks, exported>>

\* One tick of the watcher: a pass when the sender is connected and was not known.
WatcherTick(w) ==
    /\ w \in watching
    /\ pc[w] = "idle"
    /\ known' = IF connected THEN known \cup {w} ELSE known \ {w}
    /\ IF connected /\ w \notin known THEN Goto(w, "list") ELSE UNCHANGED pc
    /\ UNCHANGED <<enabled, connected, watching, disk, lockVars, tid, hash, todo,
                   cancelTodo, acks, exported>>

----------------------------------------------------------------------------
(* cancel_all_incomplete_receives: the files are listed, then removed.  It  *)
(* takes no transfer's lock and stops no task.                              *)

CancelList ==
    /\ cancelTodo = {}
    /\ cancelTodo' = {x \in Transfer : Incomplete(x)}
    /\ UNCHANGED <<daemonVars, disk, lockVars, taskVars, acks, exported>>

CancelRemove(x) ==
    /\ x \in cancelTodo
    /\ cancelTodo' = cancelTodo \ {x}
    /\ disk' = [disk EXCEPT ![x] = None]
    /\ UNCHANGED <<daemonVars, lockVars, taskVars, acks, exported>>

\* A removal fails: the rest is not cancelled.
CancelFails ==
    /\ cancelTodo # {}
    /\ cancelTodo' = {}
    /\ UNCHANGED <<daemonVars, disk, lockVars, taskVars, acks, exported>>

----------------------------------------------------------------------------
\* An acknowledgement reaches the sender, or is lost with its connection.
AckLeaves(m) ==
    /\ acks[m] > 0
    /\ acks' = [acks EXCEPT ![m] = @ - 1]
    /\ UNCHANGED <<daemonVars, disk, lockVars, taskVars, cancelTodo, exported>>

\* Steps of a task that are its own to take.
TaskStep(p) ==
    \/ CloneLock(p) \/ AcquireLock(p)
    \/ BeginDownload(p) \/ FinishDownload(p) \/ FinishExport(p) \/ SaveComplete(p)
    \/ RunFails(p) \/ SendAck(p) \/ AckFails(p) \/ RemoveState(p)

HandlerStep(p) ==
    \/ RejectVersion(p) \/ LoadState(p)
    \/ LoadFailed(p) \/ MarkFailed(p) \/ SendNack(p)
    \/ ReleaseLock(p) \/ RemoveLock(p)

ResumerStep(r) ==
    \/ ListIncomplete(r) \/ CheckPeers(r) \/ ResumeNext(r)
    \/ ResumeUnlock(r) \/ EndPass(r)

CancelStep ==
    \/ CancelList
    \/ \E x \in Transfer : CancelRemove(x)
    \/ CancelFails

DaemonStep ==
    \/ \E s \in Startup, w \in Watcher : FeatureStart(s, w)
    \/ FeatureStop
    \/ Crash
    \/ \E b \in BOOLEAN : SetConnected(b)
    \/ \E w \in Watcher : WatcherTick(w)

\* Everything the receiver does once a manifest has arrived.
Internal ==
    \/ \E p \in Proc : TaskStep(p)
    \/ \E p \in Handler : HandlerStep(p)
    \/ \E r \in Resumer : ResumerStep(r)
    \/ CancelStep
    \/ DaemonStep

Next ==
    \/ Internal
    \/ \E p \in Handler, x \in Transfer, h \in Hash : ReceivePayload(p, x, h)
    \/ \E m \in SendAckMsg : AckLeaves(m)

Spec == Init /\ [][Next]_vars

\* Tasks run to their end: tokio polls every ready task, its mutex is fair, and a
\* download either ends or fails.  Neither peers nor users are fair.
Fairness ==
    /\ \A p \in Proc : WF_vars(TaskStep(p) /\ pc[p] # "waiting") /\ SF_vars(AcquireLock(p))
    /\ \A p \in Handler : WF_vars(HandlerStep(p))
    /\ \A r \in Resumer : WF_vars(ResumerStep(r))
    /\ \A w \in Watcher : WF_vars(WatcherTick(w))

FairSpec == Spec /\ Fairness

----------------------------------------------------------------------------
(* Properties.                                                              *)

Exported == {x \in Transfer : \E h \in Hash : <<x, h>> \in exported}

\* Of all handlers, resume passes and leaked watchers, at most one is inside
\* run_receive for a transfer, although the map entry that carries the lock is
\* removed and created again while tasks come and go (feature.rs:93, 127, 137).
OneReceivePerTransfer ==
    \A p, q \in Proc :
        /\ pc[p] \in RunReceive
        /\ pc[q] \in RunReceive
        /\ tid[p] = tid[q]
        => p = q

\* A positive acknowledgement is on its way only for a transfer whose files have
\* been exported, whatever crashed, failed or was retried (feature.rs:247, 193,
\* resume.rs:53).
AckMeansExported ==
    \A m \in SendAckMsg : acks[m] > 0 /\ m.ok => m.id \in Exported

\* A state file says Complete only of a collection that was exported, so that a
\* resend of it may be acknowledged without a download (feature.rs:188, 371).
CompleteMeansExported ==
    \A x \in Transfer :
        AlreadyComplete(x) => <<x, disk[x].hash>> \in exported

\* The saved state of a receive disappears only when its files are exported or
\* when the user cancels: no failure or crash loses what a resume needs.
ForgottenOnlyWhenDone ==
    [][\A x \in Transfer :
         disk[x] # None /\ disk'[x] = None => x \in Exported \cup cancelTodo]_vars

\* No task is stuck: every handler and every resume pass ends (liveness; the
\* transfer lock is always handed on, also after errors).
EveryTaskEnds == \A p \in Proc : (pc[p] # "idle") ~> (pc[p] = "idle")

\* "Polls for newly connected peers and resumes any incomplete receives from them"
\* (resume.rs:72): a running watcher that has not seen the sender starts a pass
\* over the saved receives unless the sender leaves or nothing is left to resume.
WatcherResumes ==
    \A w \in Watcher, x \in Transfer :
        (w \in watching /\ pc[w] = "idle" /\ w \notin known /\ connected /\ Incomplete(x))
            ~> (tid[w] = x \/ ~connected \/ ~Incomplete(x) \/ w \notin watching)

\* "failed to remove completed receive state" (resume.rs:62, feature.rs:441): what is
\* removed, short of a cancellation, is the state of a completed receive, never that of
\* one that is running again and that a restart would have to resume.
RemovesOnlyCompleted ==
    [][\A x \in Transfer :
         disk[x] # None /\ disk'[x] = None /\ x \notin cancelTodo
            => disk[x].stage = "Complete"]_vars
============================================================================
