---------------------------- MODULE FileTransfer ----------------------------
(***************************************************************************)
(* One sender and one receiver of `failsafe send`, joined by the transport: *)
(* SendTransfer and ReceiveTransfer side by side, with the manifests and    *)
(* the acknowledgements in flight between them.  The transport opens a      *)
(* stream per message (failsafe-transport, iroh/transport.rs), so messages  *)
(* overtake each other, and a message is lost when its connection closes    *)
(* or when the receiver's registry does not dispatch it.                    *)
(***************************************************************************)
EXTENDS Naturals

CONSTANTS
    Transfer, Hash, None, MaxInFlight,          \* both halves
    Attempt, Orphan,                            \* the sender
    Handler, Startup, Watcher, Lock, ReadFails  \* the receiver

VARIABLES
    sConnected, sUsed, sDisk, sPending, sPc, sResume, sTid, sState, sChan, sResult,
    sCancelPc, sCancelTodo, sCancelNow, sPayloads, sCompleted,
    rEnabled, rConnected, rWatching, rKnown, rDisk, rLocks, rHolder, rPc, rTid, rHash,
    rLock, rTodo, rCancelTodo, rAcks, rExported

S == INSTANCE SendTransfer WITH
        connected <- sConnected, used <- sUsed, disk <- sDisk, pending <- sPending,
        pc <- sPc, resume <- sResume, tid <- sTid, state <- sState, chan <- sChan,
        result <- sResult, cancelPc <- sCancelPc, cancelTodo <- sCancelTodo,
        cancelNow <- sCancelNow, payloads <- sPayloads, completed <- sCompleted

R == INSTANCE ReceiveTransfer WITH
        enabled <- rEnabled, connected <- rConnected, watching <- rWatching,
        known <- rKnown, disk <- rDisk, locks <- rLocks, holder <- rHolder, pc <- rPc,
        tid <- rTid, hash <- rHash, lock <- rLock, todo <- rTodo,
        cancelTodo <- rCancelTodo, acks <- rAcks, exported <- rExported

\* The constants are as both halves need them.
ASSUME FileTransferConstants == S!SendConstants /\ R!ConstantsAssumption

sVars == <<sConnected, sUsed, sDisk, sPending, sPc, sResume, sTid, sState, sChan,
           sResult, sCancelPc, sCancelTodo, sCancelNow, sPayloads, sCompleted>>
rVars == <<rEnabled, rConnected, rWatching, rKnown, rDisk, rLocks, rHolder, rPc, rTid,
           rHash, rLock, rTodo, rCancelTodo, rAcks, rExported>>
vars == <<sVars, rVars>>

Init == S!Init /\ R!Init

\* A whole manifest is dispatched to the receiver's handle_message.
DeliverManifest(p, m) ==
    /\ S!PayloadLeaves(m)
    /\ R!ReceivePayload(p, m.id, m.hash)

LoseManifest(m) == S!PayloadLeaves(m) /\ UNCHANGED rVars

\* An acknowledgement is dispatched to the sender's handle_message.
DeliverAck(m) ==
    /\ R!AckLeaves(m)
    /\ S!HandleAck(m.id, m.ok)

LoseAck(m) == R!AckLeaves(m) /\ UNCHANGED sVars

Next ==
    \/ S!Internal /\ UNCHANGED rVars
    \/ R!Internal /\ UNCHANGED sVars
    \/ \E p \in Handler, m \in S!SendPayload : DeliverManifest(p, m)
    \/ \E m \in S!SendPayload : LoseManifest(m)
    \/ \E m \in R!SendAckMsg : DeliverAck(m)
    \/ \E m \in R!SendAckMsg : LoseAck(m)

Spec == Init /\ [][Next]_vars

----------------------------------------------------------------------------
(* Properties.                                                              *)

\* Every waiter that was told of a success, every attempt that ends with one and every
\* SendComplete shown to the user is about files that were exported at the receiver,
\* whatever was lost, repeated, reordered or crashed on the way (control.rs:317).
SuccessMeansExported ==
    /\ sCompleted \subseteq R!Exported
    /\ \A a \in Attempt :
         sChan[a] = "ok" \/ sResult[a] = "ok" => sTid[a] \in R!Exported

\* The sender forgets a transfer only when its files were exported or the user
\* cancelled it: no failure, timeout or crash loses what `send --resume` needs
\* (outbound.rs:185, 193; cancel.rs:11).
SenderForgetsOnlyDelivered ==
    [][\A x \in Transfer :
         sDisk[x] # None /\ sDisk'[x] = None => x \in R!Exported \/ x = sCancelNow]_vars

\* Both halves together implement the abstract transfer.
Abstract == INSTANCE TransferSpec WITH delivered <- rExported, reported <- sCompleted

\* What the user sees is a behaviour of TransferSpec: "SendComplete" only after delivery.
ImplementsTransferSpec == Abstract!Spec
============================================================================
