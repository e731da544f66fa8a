---------------------------- MODULE SendTransfer ----------------------------
(***************************************************************************)
(* The sending half of `failsafe send`: crates/failsafe-send, control.rs    *)
(* (handle_send_files, handle_cancel_all), coordinator.rs, outbound.rs,     *)
(* cancel.rs and the send half of transfer_state.rs, on one device that     *)
(* sends to one peer.                                                       *)
(*                                                                          *)
(* Each control connection of the CLI runs one attempt at a transfer; two   *)
(* attempts at the same transfer id can run at once (a second               *)
(* `send --resume`).  The attempts share the coordinator's table of waiters *)
(* and the state files.  The token that the attempt checks for cancellation *)
(* (control.rs:197) is never cancelled: the reader task cancels a child     *)
(* token (control.rs:198, 207), which does not reach its parent.  The       *)
(* branches on it are therefore not taken, and only CancelAll cancels.      *)
(***************************************************************************)
EXTENDS Naturals

CONSTANTS
    Transfer,      \* transfer ids
    Hash,          \* collection hashes an import may produce
    Attempt,       \* control connections
    None,          \* absent
    Orphan,        \* a registered waiter whose ack_rx was dropped
    MaxInFlight    \* bound: equal manifests in flight

ASSUME SendConstants ==
    /\ None \notin Transfer \cup Hash \cup Attempt
    /\ Orphan \notin Attempt \cup {None}
    /\ None \notin {"ok", "cancelled", "failed"}
    /\ None \notin [stage : {"Importing", "ReadyToSend", "WaitingAck", "Complete", "Failed"},
                    hash : Hash \cup {None}]
    /\ MaxInFlight \in Nat

VARIABLES
    connected,   \* the target is in the connection pool
    used,        \* transfer ids already drawn by Uuid::new_v4
    disk,        \* transfers/send/<id>.json
    pending,     \* SendCoordinator.pending: the attempt whose ack_tx is registered
    pc,          \* where each attempt is
    resume,      \* SendFilesRequest.resume
    tid,         \* its transfer id
    state,       \* its copy of the saved state
    chan,        \* what its ack_rx would yield
    result,      \* how its body ended
    cancelPc,    \* where handle_cancel_all is
    cancelTodo,  \* transfers it has still to cancel
    cancelNow,   \* the transfer between its coordinator.cancel and remove_send_state
    payloads,    \* manifests in flight to the receiver
    completed    \* transfers for which SendComplete was reported

attemptVars == <<pc, resume, tid, state, result>>
cancelVars  == <<cancelPc, cancelTodo, cancelNow>>
vars == <<connected, used, disk, pending, attemptVars, chan, cancelVars, payloads, completed>>

SendStage == {"Importing", "ReadyToSend", "WaitingAck", "Complete", "Failed"}
SendTransferState == [stage : SendStage, hash : Hash \cup {None}]
SendPayload == [id : Transfer, hash : Hash]

\* The labels at which ack_rx is alive: the body of handle_send_files.
Body == {"load", "save", "status", "import", "ready", "send", "wait"}
\* The labels at which an attempt has loaded or made a state.
Loaded == {"save", "status", "import", "ready", "send", "wait",
           "saveComplete", "saveFailed", "removeComplete"}
PC == Body \cup {"idle", "finish", "saveComplete", "removeComplete", "saveFailed", "report"}

TypeOK ==
    /\ connected \in BOOLEAN
    /\ used \subseteq Transfer
    /\ disk \in [Transfer -> SendTransferState \cup {None}]
    /\ pending \in [Transfer -> Attempt \cup {None, Orphan}]
    /\ pc \in [Attempt -> PC]
    /\ resume \in [Attempt -> BOOLEAN]
    /\ tid \in [Attempt -> Transfer \cup {None}]
    /\ state \in [Attempt -> SendTransferState \cup {None}]
    /\ chan \in [Attempt -> {"waiting", "ok", "nack", "cancelled", "closed"}]
    /\ result \in [Attempt -> {"ok", "cancelled", "failed"} \cup {None}]
    /\ cancelPc \in {"idle", "sends", "rest"}
    /\ cancelTodo \subseteq Transfer
    /\ cancelNow \in Transfer \cup {None}
    /\ payloads \in [SendPayload -> 0..MaxInFlight]
    /\ completed \subseteq Transfer
    /\ \A a \in Attempt : pc[a] \in Loaded => state[a] # None

Init ==
    /\ connected = FALSE
    /\ used = {}
    /\ disk = [x \in Transfer |-> None]
    /\ pending = [x \in Transfer |-> None]
    /\ pc = [a \in Attempt |-> "idle"]
    /\ resume = [a \in Attempt |-> FALSE]
    /\ tid = [a \in Attempt |-> None]
    /\ state = [a \in Attempt |-> None]
    /\ chan = [a \in Attempt |-> "closed"]
    /\ result = [a \in Attempt |-> None]
    /\ cancelPc = "idle"
    /\ cancelTodo = {}
    /\ cancelNow = None
    /\ payloads = [m \in SendPayload |-> 0]
    /\ completed = {}

----------------------------------------------------------------------------
(* SendCoordinator.                                                         *)

\* register without the replacement: the first waiter stays.
RegisterKeepsOld(a, x) ==
    /\ pending' = [pending EXCEPT ![x] = IF @ \in Attempt THEN @ ELSE a]
    /\ chan' = [chan EXCEPT ![a] = "waiting"]

\* register: the sender half of a replaced waiter is dropped, which closes its channel.
Register(a, x) ==
    /\ pending' = [pending EXCEPT ![x] = a]
    /\ chan' = [b \in Attempt |-> IF b = a THEN "waiting"
                                  ELSE IF b = pending[x] THEN "closed" ELSE chan[b]]

\* complete: the entry is removed and its waiter, if any, told the outcome.
CompleteWaiter(x, outcome) ==
    /\ pending' = [pending EXCEPT ![x] = None]
    /\ chan' = [b \in Attempt |-> IF b = pending[x] THEN outcome ELSE chan[b]]

\* handle_ack that does not look at ack.ok.
AnyAckIsSuccess(x, ok) ==
    /\ CompleteWaiter(x, "ok")
    /\ UNCHANGED <<connected, used, disk, attemptVars, cancelVars, payloads, completed>>

\* handle_ack
HandleAck(x, ok) ==
    /\ CompleteWaiter(x, IF ok THEN "ok" ELSE "nack")
    /\ UNCHANGED <<connected, used, disk, attemptVars, cancelVars, payloads, completed>>

----------------------------------------------------------------------------
(* handle_send_files.                                                       *)

Goto(a, label) == pc' = [pc EXCEPT ![a] = label]

\* The CLI draws a fresh id, or resumes one it finds on disk; preconditions hold, the
\* waiter is registered before anything is prepared.
StartAttempt(a, x, again) ==
    /\ pc[a] = "idle"
    /\ connected
    /\ IF again THEN disk[x] # None ELSE x \notin used
    /\ used' = used \cup {x}
    /\ tid' = [tid EXCEPT ![a] = x]
    /\ resume' = [resume EXCEPT ![a] = again]
    /\ Register(a, x)
    /\ Goto(a, "load")
    /\ UNCHANGED <<connected, disk, state, result, cancelVars, payloads, completed>>

\* The body ends and ack_rx is dropped; an entry still registered stays without a reader.
Finish(a, r) ==
    /\ result' = [result EXCEPT ![a] = r]
    /\ Goto(a, "finish")
    /\ pending' = [pending EXCEPT ![tid[a]] = IF @ = a THEN Orphan ELSE @]
    /\ chan' = [chan EXCEPT ![a] = "closed"]

\* Any `?` of the body: preview, limits, a save, the import, transport.send.
BodyFails(a) ==
    /\ pc[a] \in Body \ {"wait"}
    /\ Finish(a, "failed")
    /\ UNCHANGED <<connected, used, disk, resume, tid, state, cancelVars, payloads, completed>>

\* load_or_init_send_state
LoadOrInit(a) ==
    /\ pc[a] = "load"
    /\ IF resume[a]
       THEN /\ disk[tid[a]] # None
            /\ disk[tid[a]].stage # "Complete"
            /\ state' = [state EXCEPT ![a] = disk[tid[a]]]
       ELSE state' = [state EXCEPT ![a] = [stage |-> "Importing", hash |-> None]]
    /\ Goto(a, "save")
    /\ UNCHANGED <<connected, used, disk, pending, resume, tid, chan, result, cancelVars,
                   payloads, completed>>

\* state.stage and state.collection_hash are set, and save_send_state(&state).
Save(a, stage, h) ==
    /\ state' = [state EXCEPT ![a] = [stage |-> stage, hash |-> h]]
    /\ disk' = [disk EXCEPT ![tid[a]] = [stage |-> stage, hash |-> h]]

SaveInitial(a) ==
    /\ pc[a] = "save"
    /\ Save(a, state[a].stage, state[a].hash)
    /\ Goto(a, "status")
    /\ UNCHANGED <<connected, used, pending, resume, tid, chan, result, cancelVars,
                   payloads, completed>>

\* collection_import_needed: without a hash, with an incomplete collection, or when the
\* status cannot be read.
NeedsImport(a) ==
    /\ pc[a] = "status"
    /\ Save(a, "Importing", state[a].hash)
    /\ Goto(a, "import")
    /\ UNCHANGED <<connected, used, pending, resume, tid, chan, result, cancelVars,
                   payloads, completed>>

\* A saved stage past Importing is taken for a finished import.
TrustsStage(a) ==
    /\ pc[a] = "status"
    /\ state[a].stage # "Importing"
    /\ Goto(a, "ready")
    /\ UNCHANGED <<connected, used, disk, pending, resume, tid, state, chan, result,
                   cancelVars, payloads, completed>>

AlreadyImported(a) ==
    /\ pc[a] = "status"
    /\ state[a].hash # None
    /\ Goto(a, "ready")
    /\ UNCHANGED <<connected, used, disk, pending, resume, tid, state, chan, result,
                   cancelVars, payloads, completed>>

\* run_collection_import and the ReadyToSend save
Import(a, h) ==
    /\ pc[a] = "import"
    /\ Save(a, "ReadyToSend", h)
    /\ Goto(a, "ready")
    /\ UNCHANGED <<connected, used, pending, resume, tid, chan, result, cancelVars,
                   payloads, completed>>

SaveWaitingAck(a) ==
    /\ pc[a] = "ready"
    /\ Save(a, "WaitingAck", state[a].hash)
    /\ Goto(a, "send")
    /\ UNCHANGED <<connected, used, pending, resume, tid, chan, result, cancelVars,
                   payloads, completed>>

\* transport.send of every envelope of a manifest; MaxInFlight equal ones are kept.
Post(m) == payloads' = [payloads EXCEPT ![m] = IF @ < MaxInFlight THEN @ + 1 ELSE @]

SendManifest(a) ==
    /\ pc[a] = "send"
    /\ connected
    /\ Post([id |-> tid[a], hash |-> state[a].hash])
    /\ Goto(a, "wait")
    /\ UNCHANGED <<connected, used, disk, pending, resume, tid, state, chan, result,
                   cancelVars, completed>>

\* A timeout that is taken for a success.
AssumeDelivered(a) ==
    /\ pc[a] = "wait"
    /\ Finish(a, "ok")
    /\ UNCHANGED <<connected, used, disk, resume, tid, state, cancelVars, payloads, completed>>

\* wait_for_send_ack: the deadline passes, whatever the channel holds.
AckTimeout(a) ==
    /\ pc[a] = "wait"
    /\ Finish(a, "failed")
    /\ UNCHANGED <<connected, used, disk, resume, tid, state, cancelVars, payloads, completed>>

\* wait_for_send_ack: the channel yields an outcome or is closed.
AckArrives(a) ==
    /\ pc[a] = "wait"
    /\ chan[a] # "waiting"
    /\ Finish(a, IF chan[a] \in {"ok", "cancelled"} THEN chan[a] ELSE "failed")
    /\ UNCHANGED <<connected, used, disk, resume, tid, state, cancelVars, payloads, completed>>

\* mark_send_complete whatever the outcome.
CompletesAnyway(a) ==
    /\ pc[a] = "finish"
    /\ disk[tid[a]] # None
    /\ Goto(a, "saveComplete")
    /\ state' = [state EXCEPT ![a] = disk[tid[a]]]
    /\ UNCHANGED <<connected, used, disk, pending, resume, tid, chan, result, cancelVars,
                   payloads, completed>>

\* mark_send_failed of a transfer whose file a cancellation has removed meanwhile.
MarksMissing(a) ==
    /\ pc[a] = "finish"
    /\ Goto(a, IF result[a] = "ok" THEN "saveComplete" ELSE "saveFailed")
    /\ state' = [state EXCEPT ![a] = disk[tid[a]]]
    /\ UNCHANGED <<connected, used, disk, pending, resume, tid, chan, result, cancelVars,
                   payloads, completed>>

\* mark_send_complete or mark_send_failed: the state is loaded first.
LoadFinal(a) ==
    /\ pc[a] = "finish"
    /\ disk[tid[a]] # None
    /\ Goto(a, IF result[a] = "ok" THEN "saveComplete" ELSE "saveFailed")
    /\ state' = [state EXCEPT ![a] = disk[tid[a]]]
    /\ UNCHANGED <<connected, used, disk, pending, resume, tid, chan, result, cancelVars,
                   payloads, completed>>

SaveFinal(a) ==
    /\ \/ /\ pc[a] = "saveComplete"
          /\ Save(a, "Complete", state[a].hash)
          /\ Goto(a, "removeComplete")
       \/ /\ pc[a] = "saveFailed"
          /\ Save(a, "Failed", state[a].hash)
          /\ Goto(a, "report")
    /\ UNCHANGED <<connected, used, pending, resume, tid, chan, result, cancelVars,
                   payloads, completed>>

RemoveComplete(a) ==
    /\ pc[a] = "removeComplete"
    /\ disk' = [disk EXCEPT ![tid[a]] = None]
    /\ Goto(a, "report")
    /\ UNCHANGED <<connected, used, pending, resume, tid, state, chan, result, cancelVars,
                   payloads, completed>>

\* Both ignore their errors: no state, or one that cannot be read, written or removed.
FinalFails(a) ==
    /\ pc[a] \in {"finish", "saveComplete", "saveFailed", "removeComplete"}
    /\ Goto(a, "report")
    /\ UNCHANGED <<connected, used, disk, pending, resume, tid, state, chan, result,
                   cancelVars, payloads, completed>>

\* SendComplete or SendFailed is written to the CLI and the connection closed.
Report(a) ==
    /\ pc[a] = "report"
    /\ completed' = IF result[a] = "ok" THEN completed \cup {tid[a]} ELSE completed
    /\ Goto(a, "idle")
    /\ tid' = [tid EXCEPT ![a] = None]
    /\ state' = [state EXCEPT ![a] = None]
    /\ result' = [result EXCEPT ![a] = None]
    /\ resume' = [resume EXCEPT ![a] = FALSE]
    /\ UNCHANGED <<connected, used, disk, pending, chan, cancelVars, payloads>>

----------------------------------------------------------------------------
(* handle_cancel_all, its sends: cancel_all_incomplete_sends.               *)

Incomplete(x) == disk[x] # None /\ disk[x].stage # "Complete"

\* list_incomplete_sends
CancelList ==
    /\ cancelPc = "idle"
    /\ cancelPc' = "sends"
    /\ cancelTodo' = {x \in Transfer : Incomplete(x)}
    /\ UNCHANGED <<connected, used, disk, pending, attemptVars, chan, cancelNow, payloads,
                   completed>>

\* coordinator.cancel, of a listed transfer or, at the end, of a registered one.
CancelWaiter(x) ==
    /\ x \in cancelTodo
    /\ cancelNow = None
    /\ cancelTodo' = cancelTodo \ {x}
    /\ cancelNow' = IF cancelPc = "sends" THEN x ELSE None
    /\ CompleteWaiter(x, "cancelled")
    /\ UNCHANGED <<connected, used, disk, attemptVars, cancelPc, payloads, completed>>

\* remove_send_state
CancelRemove ==
    /\ cancelNow # None
    /\ disk' = [disk EXCEPT ![cancelNow] = None]
    /\ cancelNow' = None
    /\ UNCHANGED <<connected, used, pending, attemptVars, chan, cancelPc, cancelTodo,
                   payloads, completed>>

\* remove_send_state fails: the rest is not cancelled.
CancelFails ==
    /\ cancelNow # None
    /\ cancelPc' = "idle"
    /\ cancelTodo' = {}
    /\ cancelNow' = None
    /\ UNCHANGED <<connected, used, disk, pending, attemptVars, chan, payloads, completed>>

\* The listed sends are done: coordinator.cancel_all takes the keys that are left; and
\* then the answer goes to the CLI.
CancelNext ==
    /\ cancelTodo = {}
    /\ cancelNow = None
    /\ \/ /\ cancelPc = "sends"
          /\ cancelPc' = "rest"
          /\ cancelTodo' = {x \in Transfer : pending[x] # None}
       \/ /\ cancelPc = "rest"
          /\ cancelPc' = "idle"
          /\ UNCHANGED cancelTodo
    /\ UNCHANGED <<connected, used, disk, pending, attemptVars, chan, cancelNow, payloads,
                   completed>>

----------------------------------------------------------------------------
SetConnected(b) ==
    /\ connected # b
    /\ connected' = b
    /\ UNCHANGED <<used, disk, pending, attemptVars, chan, cancelVars, payloads, completed>>

\* The daemon ends: memory is lost, files and messages already sent are not.
Crash ==
    /\ connected' = FALSE
    /\ pending' = [x \in Transfer |-> None]
    /\ pc' = [a \in Attempt |-> "idle"]
    /\ resume' = [a \in Attempt |-> FALSE]
    /\ tid' = [a \in Attempt |-> None]
    /\ state' = [a \in Attempt |-> None]
    /\ chan' = [a \in Attempt |-> "closed"]
    /\ result' = [a \in Attempt |-> None]
    /\ cancelPc' = "idle"
    /\ cancelTodo' = {}
    /\ cancelNow' = None
    /\ UNCHANGED <<used, disk, payloads, completed>>

\* A manifest reaches the receiver, or is lost with its connection.
PayloadLeaves(m) ==
    /\ payloads[m] > 0
    /\ payloads' = [payloads EXCEPT ![m] = @ - 1]
    /\ UNCHANGED <<connected, used, disk, pending, attemptVars, chan, cancelVars, completed>>

AttemptStep(a) ==
    \/ LoadOrInit(a) \/ SaveInitial(a) \/ NeedsImport(a) \/ AlreadyImported(a)
    \/ \E h \in Hash : Import(a, h)
    \/ SaveWaitingAck(a) \/ SendManifest(a) \/ BodyFails(a)
    \/ AckTimeout(a) \/ AckArrives(a)
    \/ LoadFinal(a) \/ FinalFails(a) \/ SaveFinal(a) \/ RemoveComplete(a) \/ Report(a)

CancelStep ==
    \/ CancelList
    \/ \E x \in Transfer : CancelWaiter(x)
    \/ CancelRemove
    \/ CancelFails
    \/ CancelNext

\* Everything the sender does apart from the receiver's acknowledgements.
Internal ==
    \/ \E a \in Attempt, x \in Transfer, again \in BOOLEAN : StartAttempt(a, x, again)
    \/ \E a \in Attempt : AttemptStep(a)
    \/ CancelStep
    \/ \E b \in BOOLEAN : SetConnected(b)
    \/ Crash

Next ==
    \/ Internal
    \/ \E x \in Transfer, ok \in BOOLEAN : HandleAck(x, ok)
    \/ \E m \in SendPayload : PayloadLeaves(m)

Spec == Init /\ [][Next]_vars

----------------------------------------------------------------------------
(* Properties.                                                              *)

\* The coordinator's table is exactly the set of attempts that still wait: an
\* acknowledgement reaches a live attempt at its own transfer, and no attempt waits
\* without being registered, though attempts replace, time out and are cancelled
\* (coordinator.rs:27, 58; control.rs:220, 289).
WaitersAreRegistered ==
    /\ \A x \in Transfer, a \in Attempt :
         pending[x] = a => tid[a] = x /\ pc[a] \in Body /\ chan[a] = "waiting"
    /\ \A a \in Attempt :
         pc[a] \in Body /\ chan[a] = "waiting" => pending[tid[a]] = a

\* A state that is ready to send carries the hash of a finished import, also when two
\* attempts at one transfer overwrite each other's file: `collection hash missing after
\* import` (outbound.rs:100) cannot happen.
ReadyHasHash ==
    /\ \A x \in Transfer :
         disk[x] # None /\ disk[x].stage \in {"ReadyToSend", "WaitingAck"} => disk[x].hash # None
    /\ \A a \in Attempt : pc[a] \in {"ready", "send", "wait"} => state[a].hash # None

\* "Cancel all incomplete sends and receives." (crates/failsafe/src/cli/args.rs:97): an
\* attempt whose waiter was cancelled does not send its manifest afterwards.
CancelledNeverSends ==
    [][\A a \in Attempt :
         pc[a] = "send" /\ pc'[a] = "wait" => chan[a] # "cancelled"]_vars
============================================================================
