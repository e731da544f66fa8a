------------------------- MODULE FileTransferProofs -------------------------
(***************************************************************************)
(* TLAPS proofs about a send from end to end.  FileTransfer, for any sets   *)
(* of transfers, hashes, attempts, tasks and locks: what is proved of each  *)
(* half is used through an instance of its proof module, and the messages   *)
(* between the halves join them.  SendProgress, what the user is shown of   *)
(* one attempt, for any number of files, reports and buffered events.       *)
(***************************************************************************)
EXTENDS FileTransfer, SendProgress, FiniteSetTheorems, TLAPS

SP == INSTANCE SendTransferProofs WITH
        connected <- sConnected, used <- sUsed, disk <- sDisk, pending <- sPending,
        pc <- sPc, resume <- sResume, tid <- sTid, state <- sState, chan <- sChan,
        result <- sResult, cancelPc <- sCancelPc, cancelTodo <- sCancelTodo,
        cancelNow <- sCancelNow, payloads <- sPayloads, completed <- sCompleted

RP == INSTANCE ReceiveTransferProofs WITH
        enabled <- rEnabled, connected <- rConnected, watching <- rWatching,
        known <- rKnown, disk <- rDisk, locks <- rLocks, holder <- rHolder, pc <- rPc,
        tid <- rTid, hash <- rHash, lock <- rLock, todo <- rTodo,
        cancelTodo <- rCancelTodo, acks <- rAcks, exported <- rExported

----------------------------------------------------------------------------
(* The two instances of a half are the same.                                *)

\* The constants are fit for both proof modules.
LEMMA SameConstants == SP!SendConstants /\ RP!ConstantsAssumption
BY FileTransferConstants
   DEF S!SendConstants, SP!SendConstants, R!ConstantsAssumption, RP!ConstantsAssumption,
       R!Proc, RP!Proc, R!Resumer, RP!Resumer

\* An initial state of the system is one of each half.
LEMMA SameInit == Init => SP!Init /\ RP!Init
BY DEF Init, S!Init, SP!Init, S!SendPayload, SP!SendPayload, R!Init, RP!Init, R!Proc, RP!Proc,
       R!Resumer, RP!Resumer, R!SendAckMsg, RP!SendAckMsg

\* A step that leaves a half alone leaves its instance alone.
LEMMA SameVars ==
    /\ UNCHANGED sVars <=> UNCHANGED SP!vars
    /\ UNCHANGED rVars <=> UNCHANGED RP!vars
BY DEF sVars, SP!vars, SP!attemptVars, SP!cancelVars, rVars, RP!vars, RP!daemonVars,
       RP!lockVars, RP!taskVars

\* The steps of the sender, in either instance.
LEMMA SameSend ==
    /\ S!Internal => SP!Internal
    /\ S!SendPayload = SP!SendPayload
    /\ \A m : S!PayloadLeaves(m) => SP!PayloadLeaves(m)
    /\ \A x, ok : S!HandleAck(x, ok) => SP!HandleAck(x, ok)
BY DEF S!attemptVars, SP!attemptVars, S!cancelVars, SP!cancelVars, S!Body, SP!Body,
       S!Register, SP!Register, S!CompleteWaiter, SP!CompleteWaiter, S!HandleAck,
       SP!HandleAck, S!Goto, SP!Goto, S!StartAttempt, SP!StartAttempt, S!Finish,
       SP!Finish, S!BodyFails, SP!BodyFails, S!LoadOrInit, SP!LoadOrInit, S!Save,
       SP!Save, S!SaveInitial, SP!SaveInitial, S!NeedsImport, SP!NeedsImport,
       S!AlreadyImported, SP!AlreadyImported, S!Import, SP!Import, S!SaveWaitingAck,
       SP!SaveWaitingAck, S!Post, SP!Post, S!SendManifest, SP!SendManifest,
       S!AckTimeout, SP!AckTimeout, S!AckArrives, SP!AckArrives, S!LoadFinal,
       SP!LoadFinal, S!SaveFinal, SP!SaveFinal, S!RemoveComplete, SP!RemoveComplete,
       S!FinalFails, SP!FinalFails, S!Report, SP!Report, S!Incomplete, SP!Incomplete,
       S!CancelList, SP!CancelList, S!CancelWaiter, SP!CancelWaiter, S!CancelRemove,
       SP!CancelRemove, S!CancelFails, SP!CancelFails, S!CancelNext, SP!CancelNext,
       S!SetConnected, SP!SetConnected, S!Crash, SP!Crash, S!PayloadLeaves,
       SP!PayloadLeaves, S!AttemptStep, SP!AttemptStep, S!CancelStep, SP!CancelStep,
       S!Internal, SP!Internal, S!SendPayload, SP!SendPayload

\* The steps of the receiver, in either instance.
LEMMA SameReceive ==
    /\ R!Internal => RP!Internal
    /\ R!SendAckMsg = RP!SendAckMsg
    /\ R!Exported = RP!Exported
    /\ \A m : R!AckLeaves(m) => RP!AckLeaves(m)
    /\ \A p, x, c : R!ReceivePayload(p, x, c) => RP!ReceivePayload(p, x, c)
BY DEF R!Resumer, RP!Resumer, R!Proc, RP!Proc, R!daemonVars, RP!daemonVars, R!lockVars,
       RP!lockVars, R!taskVars, RP!taskVars, R!SendAckMsg, RP!SendAckMsg,
       R!RunReceive, RP!RunReceive, R!FeatureStart, RP!FeatureStart, R!FeatureStop,
       RP!FeatureStop, R!Crash, RP!Crash, R!SetConnected, RP!SetConnected, R!Goto,
       RP!Goto, R!ReceivePayload, RP!ReceivePayload, R!Referenced, RP!Referenced,
       R!CloneLock, RP!CloneLock, R!AcquireLock, RP!AcquireLock, R!ReleaseLock,
       RP!ReleaseLock, R!OnlyReference, RP!OnlyReference, R!RemoveLock, RP!RemoveLock,
       R!RejectVersion, RP!RejectVersion, R!AlreadyComplete, RP!AlreadyComplete,
       R!LoadState, RP!LoadState, R!LoadFailed, RP!LoadFailed, R!Save, RP!Save,
       R!MarkFailed, RP!MarkFailed, R!Post, RP!Post, R!SendNack, RP!SendNack,
       R!BeginDownload, RP!BeginDownload, R!FinishDownload, RP!FinishDownload,
       R!FinishExport, RP!FinishExport, R!SaveComplete, RP!SaveComplete, R!OnError,
       RP!OnError, R!RunFails, RP!RunFails, R!Done, RP!Done, R!SendAck, RP!SendAck,
       R!AckFails, RP!AckFails, R!RemoveState, RP!RemoveState, R!Incomplete,
       RP!Incomplete, R!ListIncomplete, RP!ListIncomplete, R!CheckPeers,
       RP!CheckPeers, R!ResumeNext, RP!ResumeNext, R!ResumeUnlock, RP!ResumeUnlock,
       R!EndPass, RP!EndPass, R!WatcherTick, RP!WatcherTick, R!CancelList,
       RP!CancelList, R!CancelRemove, RP!CancelRemove, R!CancelFails, RP!CancelFails,
       R!AckLeaves, RP!AckLeaves, R!TaskStep, RP!TaskStep, R!HandlerStep,
       RP!HandlerStep, R!ResumerStep, RP!ResumerStep, R!CancelStep, RP!CancelStep,
       R!DaemonStep, RP!DaemonStep, R!Internal, RP!Internal, R!Exported, RP!Exported

----------------------------------------------------------------------------
(* A success at the sender.                                                 *)

\* A step of the system is a step, or none, of each half.
LEMMA StepOfEach == [Next]_vars => [SP!Next]_(SP!vars) /\ [RP!Next]_(RP!vars)
<1> SUFFICES ASSUME [Next]_vars PROVE [SP!Next]_(SP!vars) /\ [RP!Next]_(RP!vars)
  OBVIOUS
<1> USE SameSend, SameReceive, SameVars
<1>1. CASE UNCHANGED vars
  BY <1>1 DEF vars
<1>2. CASE S!Internal /\ UNCHANGED rVars
  BY <1>2 DEF SP!Next
<1>3. CASE R!Internal /\ UNCHANGED sVars
  BY <1>3 DEF RP!Next
<1>4. ASSUME NEW p \in Handler, NEW m \in S!SendPayload, DeliverManifest(p, m)
     PROVE  [SP!Next]_(SP!vars) /\ [RP!Next]_(RP!vars)
  <2>1. SP!PayloadLeaves(m) /\ RP!ReceivePayload(p, m.id, m.hash)
    BY <1>4 DEF DeliverManifest
  <2>2. m.id \in Transfer /\ m.hash \in Hash
    BY DEF S!SendPayload
  <2>3. QED
    BY <2>1, <2>2 DEF SP!Next, RP!Next
<1>5. ASSUME NEW m \in S!SendPayload, LoseManifest(m)
     PROVE  [SP!Next]_(SP!vars) /\ [RP!Next]_(RP!vars)
  BY <1>5 DEF LoseManifest, SP!Next
<1>6. ASSUME NEW m \in R!SendAckMsg, DeliverAck(m)
     PROVE  [SP!Next]_(SP!vars) /\ [RP!Next]_(RP!vars)
  <2>1. RP!AckLeaves(m) /\ SP!HandleAck(m.id, m.ok)
    BY <1>6 DEF DeliverAck
  <2>2. m.id \in Transfer /\ m.ok \in BOOLEAN
    BY DEF R!SendAckMsg
  <2>3. QED
    BY <2>1, <2>2 DEF SP!Next, RP!Next
<1>7. ASSUME NEW m \in R!SendAckMsg, LoseAck(m)
     PROVE  [SP!Next]_(SP!vars) /\ [RP!Next]_(RP!vars)
  BY <1>7 DEF LoseAck, RP!Next
<1>8. QED
  BY <1>1, <1>2, <1>3, <1>4, <1>5, <1>6, <1>7 DEF Next

\* What is proved of the halves, each on its own.
Halves == SP!SendInv /\ RP!TypeInv /\ RP!ExportInv

\* Both invariants hold at the start,
LEMMA InitHalves == Init => Halves
BY SameInit, SameConstants, SP!InitSendInv, RP!InitTypeInv, RP!InitExportInv DEF Halves

\* and every step of the system keeps them.
LEMMA HalvesInductive == Halves /\ [Next]_vars => Halves'
BY StepOfEach, SameConstants, SP!SendInvInductive, RP!InvariantInductive DEF Halves

\* What was exported stays so.
LEMMA ExportedGrows == Halves /\ [Next]_vars => R!Exported \subseteq R!Exported'
<1> SUFFICES ASSUME Halves, [Next]_vars PROVE R!Exported \subseteq R!Exported'
  OBVIOUS
<1>1. RP!Exports
  BY StepOfEach, SameConstants, RP!ExportsStep DEF Halves
<1>2. rExported \subseteq rExported'
  BY <1>1 DEF RP!Exports
<1>3. QED
  BY <1>2 DEF R!Exported

\* What a step adds to the claims of the sender was exported before.
LEMMA ClaimsAreExported ==
    Halves /\ [Next]_vars => SP!ClaimsFrom(R!Exported) /\ SP!ActsOnClaims
<1> SUFFICES ASSUME Halves, [Next]_vars PROVE SP!ClaimsFrom(R!Exported) /\ SP!ActsOnClaims
  OBVIOUS
<1> USE SameSend, SameReceive, SameVars, SameConstants
<1>1. ASSUME SP!ClaimsFrom({}) PROVE SP!ClaimsFrom(R!Exported)
  BY <1>1 DEF SP!ClaimsFrom
<1>2. CASE UNCHANGED sVars
  BY <1>2 DEF sVars, SP!ClaimsFrom, SP!Claims, SP!ActsOnClaims
<1>3. CASE S!Internal
  BY <1>1, <1>3, SP!InternalClaims DEF Halves
<1>4. ASSUME NEW m \in S!SendPayload, S!PayloadLeaves(m)
     PROVE  SP!ClaimsFrom(R!Exported) /\ SP!ActsOnClaims
  BY <1>1, <1>4, SP!PayloadClaims
<1>5. ASSUME NEW m \in R!SendAckMsg, DeliverAck(m)
     PROVE  SP!ClaimsFrom(R!Exported) /\ SP!ActsOnClaims
  <2>1. m.id \in Transfer /\ m.ok \in BOOLEAN
    BY DEF R!SendAckMsg
  <2>2. rAcks[m] > 0 /\ SP!HandleAck(m.id, m.ok)
    BY <1>5 DEF DeliverAck, R!AckLeaves
  <2>3. m.ok => m.id \in R!Exported
    BY <2>2 DEF Halves, RP!ExportInv, RP!AckMeansExported
  <2>4. SP!ClaimsFrom(IF m.ok THEN {m.id} ELSE {}) /\ SP!ActsOnClaims
    BY <2>1, <2>2, SP!HandleAckClaims DEF Halves
  <2>5. (IF m.ok THEN {m.id} ELSE {}) \subseteq R!Exported
    BY <2>3
  <2>6. QED
    BY <2>4, <2>5 DEF SP!ClaimsFrom
<1>6. QED
  BY <1>2, <1>3, <1>4, <1>5 DEF Next, vars, DeliverManifest, LoseManifest, LoseAck

\* The claims and the reports of the sender are about exported transfers, which makes the
\* property inductive with the invariants of the halves.
FileInv == Halves /\ SuccessMeansExported

\* One step keeps it: what is claimed anew was acknowledged, and what was exported stays.
LEMMA FileInvInductive == FileInv /\ [Next]_vars => FileInv'
<1> SUFFICES ASSUME FileInv, [Next]_vars PROVE FileInv'
  OBVIOUS
<1>1. Halves' /\ R!Exported \subseteq R!Exported'
  BY HalvesInductive, ExportedGrows DEF FileInv
<1>2. SP!ClaimsFrom(R!Exported) /\ SP!ActsOnClaims
  BY ClaimsAreExported DEF FileInv
<1>3. \A a \in Attempt : SP!Claims(a) => sTid[a] \in R!Exported
  BY DEF FileInv, SuccessMeansExported, SP!Claims
<1>4. \A a \in Attempt : sChan'[a] = "ok" \/ sResult'[a] = "ok" => sTid'[a] \in R!Exported'
  BY <1>1, <1>2, <1>3 DEF SP!ClaimsFrom, SP!Claims
<1>5. sCompleted' \subseteq R!Exported'
  <2>1. SP!Claimed \subseteq R!Exported
    BY <1>3 DEF SP!Claimed
  <2>2. sCompleted' \subseteq sCompleted \cup R!Exported
    BY <1>2, <2>1 DEF SP!ActsOnClaims
  <2>3. QED
    BY <1>1, <2>2 DEF FileInv, SuccessMeansExported
<1>6. QED
  BY <1>1, <1>4, <1>5 DEF FileInv, SuccessMeansExported

\* Nothing is claimed or reported at the start.
LEMMA InitFileInv == Init => FileInv
<1> SUFFICES ASSUME Init PROVE FileInv
  OBVIOUS
<1>1. Halves
  BY InitHalves
<1>2. sCompleted = {} /\ \A a \in Attempt : sChan[a] # "ok" /\ sResult[a] # "ok"
  BY SameInit, SameConstants DEF SP!Init, SP!SendConstants
<1>3. QED
  BY <1>1, <1>2 DEF FileInv, SuccessMeansExported

\* For any number of attempts, tasks and messages in flight: no attempt ends with a
\* success, and no SendComplete is shown, before the files are in the receive directory.
THEOREM SuccessSound == Spec => []SuccessMeansExported
<1>1. FileInv => SuccessMeansExported
  BY DEF FileInv
<1>2. QED
  BY <1>1, InitFileInv, FileInvInductive, PTL DEF Spec

\* What a step of the sender may forget.
SenderForgets ==
    \A x \in Transfer :
        sDisk[x] # None /\ sDisk'[x] = None => x \in R!Exported \/ x = sCancelNow

\* The sender keeps what `send --resume` needs until the files are exported or the user
\* cancels, whatever is lost, repeated or crashes on either side.
THEOREM SenderKeepsUndelivered == Spec => SenderForgetsOnlyDelivered
<1>1. FileInv /\ [Next]_vars => [SenderForgets]_vars
  <2> SUFFICES ASSUME FileInv, [Next]_vars PROVE SenderForgets
    OBVIOUS
  <2>1. SP!ActsOnClaims
    BY ClaimsAreExported DEF FileInv
  <2>2. SP!Claimed \subseteq R!Exported
    BY DEF FileInv, SuccessMeansExported, SP!Claims, SP!Claimed
  <2>3. QED
    BY <2>1, <2>2 DEF SP!ActsOnClaims, SenderForgets
<1>2. QED
  BY <1>1, InitFileInv, FileInvInductive, PTL DEF Spec, SenderForgetsOnlyDelivered, SenderForgets

\* A step of the system reports a delivered transfer, delivers one, or does neither.
LEMMA StepImplements == FileInv /\ [Next]_vars => [Abstract!Next]_(Abstract!vars)
<1> SUFFICES ASSUME FileInv, [Next]_vars PROVE [Abstract!Next]_(Abstract!vars)
  OBVIOUS
<1> USE SameSend, SameReceive, SameVars, SameConstants DEF Abstract!vars
<1>1. CASE UNCHANGED vars
  BY <1>1 DEF vars, sVars, rVars
<1>2. CASE S!Internal /\ UNCHANGED rVars
  <2>1. CASE UNCHANGED sCompleted
    BY <1>2, <2>1 DEF rVars
  <2>2. ASSUME NEW x \in SP!Claimed, sCompleted' = sCompleted \cup {x}
       PROVE  [Abstract!Next]_(Abstract!vars)
    <3>1. x \in R!Exported
      BY DEF FileInv, SuccessMeansExported, SP!Claimed, SP!Claims
    <3>2. x \in Transfer /\ \E c \in Hash : <<x, c>> \in rExported
      BY <3>1 DEF R!Exported
    <3>3. Abstract!Report(x)
      BY <1>2, <2>2, <3>2 DEF Abstract!Report, rVars
    <3>4. QED
      BY <3>2, <3>3 DEF Abstract!Next
  <2>3. SP!ActsOnClaims
    BY ClaimsAreExported DEF FileInv
  <2>4. QED
    BY <2>1, <2>2, <2>3 DEF SP!ActsOnClaims
<1>3. CASE R!Internal /\ UNCHANGED sVars
  <2>1. CASE UNCHANGED rExported
    BY <1>3, <2>1 DEF sVars
  <2>2. ASSUME NEW x \in Transfer, NEW c \in Hash, rExported' = rExported \cup {<<x, c>>}
       PROVE  [Abstract!Next]_(Abstract!vars)
    BY <1>3, <2>2 DEF Abstract!Next, Abstract!Deliver, sVars
  <2>3. RP!Exports
    BY StepOfEach, RP!ExportsStep DEF FileInv, Halves
  <2>4. QED
    BY <2>1, <2>2, <2>3 DEF RP!Exports
<1>4. ASSUME NEW p \in Handler, NEW m \in S!SendPayload, DeliverManifest(p, m)
     PROVE  [Abstract!Next]_(Abstract!vars)
  BY <1>4 DEF DeliverManifest, S!PayloadLeaves, R!ReceivePayload
<1>5. ASSUME NEW m \in S!SendPayload, LoseManifest(m)
     PROVE  [Abstract!Next]_(Abstract!vars)
  BY <1>5 DEF LoseManifest, S!PayloadLeaves, rVars
<1>6. ASSUME NEW m \in R!SendAckMsg, DeliverAck(m)
     PROVE  [Abstract!Next]_(Abstract!vars)
  BY <1>6 DEF DeliverAck, R!AckLeaves, S!HandleAck
<1>7. ASSUME NEW m \in R!SendAckMsg, LoseAck(m)
     PROVE  [Abstract!Next]_(Abstract!vars)
  BY <1>7 DEF LoseAck, R!AckLeaves, sVars
<1>8. QED
  BY <1>1, <1>2, <1>3, <1>4, <1>5, <1>6, <1>7 DEF Next

\* Sender, receiver and the messages between them implement the abstract transfer: what a
\* user of `send` is told happens in an order that TransferSpec allows.
THEOREM Refinement == Spec => ImplementsTransferSpec
<1>1. Init => Abstract!Init
  BY SameInit DEF SP!Init, RP!Init, Abstract!Init
<1>2. QED
  BY <1>1, InitFileInv, FileInvInductive, StepImplements, PTL
     DEF Spec, ImplementsTransferSpec, Abstract!Spec

----------------------------------------------------------------------------
(* What the user of a send is shown (SendProgress).                         *)

\* A sequence with one element more.
LEMMA Appended ==
    ASSUME NEW T, NEW s \in Seq(T), NEW e \in T
    PROVE  /\ Append(s, e) \in Seq(T)
           /\ DOMAIN Append(s, e) = 1 .. Len(s) + 1
           /\ Len(Append(s, e)) = Len(s) + 1
           /\ \A j \in 1 .. Len(s) : Append(s, e)[j] = s[j]
           /\ Append(s, e)[Len(s) + 1] = e
OBVIOUS

\* A sequence without its first element.
LEMMA Tailed ==
    ASSUME NEW T, NEW s \in Seq(T), s # << >>
    PROVE  /\ Head(s) \in T /\ Head(s) = s[1] /\ 1 \in DOMAIN s
           /\ Tail(s) \in Seq(T)
           /\ Len(s) \in Nat \ {0}
           /\ Len(Tail(s)) = Len(s) - 1
           /\ \A j \in DOMAIN Tail(s) : j + 1 \in DOMAIN s /\ Tail(s)[j] = s[j + 1]
OBVIOUS

\* Events on their way, numbered or not.
EventType == [sequence : Nat, report : Nat, final : {"none", "ok", "failed"}]

\* The types that the proofs need: TypeOK without its bounds.
ProgressType ==
    /\ task \in [Sources -> {"wait", "run", "ok", "err", "lost", "taken", "aborted"}]
    /\ results \in [Sources -> 0 .. Files]
    /\ completed \in Nat
    /\ h \in {"new", "asked", "start", "sources", "import", "store", "resumed",
              "prepared", "sending", "metadata", "emit", "ack", "close", "join", "end"}
    /\ event \in EventType
    /\ result \in {"none", "ok", "failed"}
    /\ made \in Nat /\ pending \in Nat /\ sequence \in Nat
    /\ flush \in {"wait", "sleep", "took", "send", "gone"}
    /\ snapshot \in EventType
    /\ chan \in Seq(EventType)
    /\ writer \in {"on", "gone"}
    /\ sock \in Seq(EventType)
    /\ cli \in {"new", "reading", "ok", "failed", "refused", "left"}
    /\ last \in Nat /\ shown \in Nat
    /\ ack \in {"none", "ok", "failed"}

\* What is sent is an event.
LEMMA EventTypes ==
    /\ \A n, m \in Nat : Progress(n, m) \in EventType
    /\ \A r \in {"none", "ok", "failed"} : Outcome(r) \in EventType
    /\ Nothing \in EventType
BY DEF Progress, Outcome, Nothing, EventType


\* One step of a send keeps the types.
LEMMA ProgressTypeInductive == ProgressType /\ [ProgressNext]_progressVars => ProgressType'
<1> SUFFICES ASSUME ProgressType, [ProgressNext]_progressVars PROVE ProgressType'
  OBVIOUS
<1> USE ProgressAssumption DEF ProgressType, Sources, importVars, reporterVars, flushVars,
        wireVars, cliVars, remoteVars, handlerVars
<1>1. CASE UNCHANGED progressVars
  BY <1>1 DEF progressVars
<1>2. CASE Ask
  BY <1>2 DEF Ask
<1>3. ASSUME NEW f \in Sources, ImportStarts(f)
     PROVE  ProgressType'
  BY <1>3 DEF ImportStarts
<1>4. ASSUME NEW f \in Sources, NEW r \in {"ok", "err", "lost"}, ImportEnds(f, r)
     PROVE  ProgressType'
  BY <1>4 DEF ImportEnds
<1>5. ASSUME NEW f \in Sources, ImportReports(f)
     PROVE  ProgressType'
  BY <1>5 DEF ImportReports, TryEmit
<1>6. CASE FlushWake
  BY <1>6 DEF FlushWake
<1>7. CASE FlushTake
  BY <1>7, EventTypes DEF FlushTake
<1>8. CASE FlushNumber
  <2>1. snapshot.report \in Nat
    BY DEF EventType
  <2>2. QED
    BY <1>8, <2>1, EventTypes DEF FlushNumber
<1>9. CASE FlushSend
  <2>1. Append(chan, snapshot) \in Seq(EventType)
    BY Appended
  <2>2. QED
    BY <1>9, <2>1, EventTypes DEF FlushSend, Send
<1>10. CASE FlushEnds
  BY <1>10 DEF FlushEnds
<1>11. CASE Ready
  BY <1>11 DEF Ready
<1>12. CASE Reject
  BY <1>12 DEF Reject
<1>13. CASE ImportBegins
  BY <1>13 DEF ImportBegins, TryEmit
<1>14. CASE ImportDone
  BY <1>14 DEF ImportDone, TryEmit
<1>15. CASE Stored
  BY <1>15 DEF Stored, TryEmit
<1>16. CASE MetadataSent
  BY <1>16, EventTypes DEF MetadataSent, Emit
<1>17. CASE Fails
  BY <1>17 DEF Fails
<1>18. CASE PassOn
  BY <1>18, EventTypes DEF PassOn, Emit
<1>19. CASE TakeAck
  BY <1>19 DEF TakeAck
<1>20. CASE AckTimesOut
  BY <1>20 DEF AckTimesOut
<1>21. CASE Close
  BY <1>21 DEF Close
<1>22. CASE Finish
  <2>1. Append(sock, Outcome(result)) \in Seq(EventType)
    BY Appended, EventTypes
  <2>2. QED
    BY <1>22, <2>1 DEF Finish
<1>23. CASE Emitted("sending", "metadata")
  <2>1. Append(chan, event) \in Seq(EventType)
    BY Appended
  <2>2. QED
    BY <1>23, <2>1, EventTypes DEF Emitted, Send
<1>24. CASE Emitted("emit", "ack")
  <2>1. Append(chan, event) \in Seq(EventType)
    BY Appended
  <2>2. QED
    BY <1>24, <2>1, EventTypes DEF Emitted, Send
<1>25. ASSUME NEW f \in Sources, ImportResult(f)
     PROVE  ProgressType'
  BY <1>25 DEF ImportResult, TryEmit, Index
<1>26. ASSUME NEW f \in Sources, ImportFails(f)
     PROVE  ProgressType'
  BY <1>26 DEF ImportFails, ImportEnded
<1>27. CASE WriterWrites
  <2>1. Head(chan) \in EventType /\ Tail(chan) \in Seq(EventType)
    BY <1>27, Tailed DEF WriterWrites
  <2>2. Append(sock, Head(chan)) \in Seq(EventType)
    BY <2>1, Appended
  <2>3. << >> \in Seq(EventType)
    OBVIOUS
  <2>4. sock' \in Seq(EventType) /\ chan' \in Seq(EventType) /\ writer' \in {"on", "gone"}
    BY <1>27, <2>1, <2>2, <2>3 DEF WriterWrites
  <2>5. QED
    BY <1>27, <2>4 DEF WriterWrites
<1>28. CASE WriterEnds
  BY <1>28 DEF WriterEnds
<1>29. CASE CliReads
  <2>1. sock' \in Seq(EventType) /\ Head(sock) \in EventType
    BY <1>29, Tailed DEF CliReads
  <2>2. last' \in Nat /\ shown' \in Nat /\ cli' \in {"reading", "ok", "failed"}
    BY <1>29, <2>1 DEF CliReads, EventType
  <2>3. QED
    BY <1>29, <2>1, <2>2 DEF CliReads
<1>30. CASE CliLeaves
  BY <1>30 DEF CliLeaves
<1>31. CASE RemoteReports
  BY <1>31 DEF RemoteReports
<1>32. CASE LoopGoesOn
  BY <1>32 DEF LoopGoesOn
<1>33. CASE CancelAll
  BY <1>33 DEF CancelAll, Complete
<1>34. ASSUME NEW r \in {"ok", "failed"}, Acknowledge(r)
     PROVE  ProgressType'
  BY <1>34 DEF Acknowledge, Complete
<1>35. CASE Prepare
  BY <1>35 DEF Prepare, TryEmit
<1>36. CASE Resume
  <2>1. /\ task' \in [Sources -> {"taken"}] /\ results' \in [Sources -> 0 .. Files]
        /\ completed' \in Nat
    BY <1>36 DEF Resume
  <2>2. QED
    BY <1>36, <2>1 DEF Resume, TryEmit
<1>37. CASE ImportCancelled
  BY <1>37 DEF ImportCancelled, ImportEnded
<1>38. CASE ImportStops
  BY <1>38 DEF ImportStops, ImportEnded
<1>39. CASE Prepared
  BY <1>39, EventTypes DEF Prepared, Emit
<1> HIDE DEF ProgressType
<1>40. QED
  BY <1>1, <1>2, <1>3, <1>4, <1>5, <1>6, <1>7, <1>8, <1>9, <1>10, <1>11, <1>12,
     <1>13, <1>14, <1>15, <1>16, <1>17, <1>18, <1>19, <1>20, <1>21, <1>22, <1>23, <1>24,
     <1>25, <1>26, <1>27, <1>28, <1>29, <1>30, <1>31, <1>32, <1>33, <1>34,
     <1>35, <1>36, <1>37, <1>38, <1>39
     DEF ProgressNext, ImportStep, FlushStep, HandlerStep


\* The base of the inductions below.
LEMMA InitProgressType == ProgressInit => ProgressType
<1> SUFFICES ASSUME ProgressInit PROVE ProgressType
  OBVIOUS
<1>1. << >> \in Seq(EventType) /\ Nothing \in EventType
  BY EventTypes
<1>2. QED
  BY <1>1, ProgressAssumption DEF ProgressInit, ProgressType

\* The files whose result has been taken.
Taken == {f \in Sources : task[f] = "taken"}

\* The handler has its collection.
Collected == {"store", "resumed", "prepared", "sending", "metadata", "emit", "ack"}

\* A result that was taken is kept at its own index, `completed` counts them, and when the
\* collection is made none is missing.
CollectionInv ==
    /\ \A f \in Sources : results[f] = IF task[f] = "taken" THEN f ELSE 0
    /\ completed = Cardinality(Taken)
    /\ h \in Collected => Taken = Sources

\* A count of all files leaves none out.
LEMMA AllTaken == Cardinality(Taken) = Files => Taken = Sources
<1>1. IsFiniteSet(Sources) /\ Cardinality(Sources) = Files
  BY FS_Interval, ProgressAssumption DEF Sources
<1>2. Taken \subseteq Sources
  BY DEF Taken
<1>3. QED
  BY <1>1, <1>2, FS_Subset

\* What ends during the import takes its results with it.
LEMMA ImportEndedCollection == ImportEnded => CollectionInv'
<1> SUFFICES ASSUME ImportEnded PROVE CollectionInv'
  OBVIOUS
<1>1. Taken' = {} /\ completed' = 0 /\ h' = "close"
  BY DEF ImportEnded, Taken
<1>2. \A f \in Sources : task'[f] = "aborted" /\ results'[f] = 0
  BY DEF ImportEnded
<1>3. QED
  BY <1>1, <1>2, FS_EmptySet DEF CollectionInv, Collected

\* One step of a send keeps index, count and results in step.
LEMMA CollectionInductive ==
    ProgressType /\ CollectionInv /\ [ProgressNext]_progressVars => CollectionInv'
<1> SUFFICES ASSUME ProgressType, CollectionInv, [ProgressNext]_progressVars
             PROVE  CollectionInv'
  OBVIOUS
<1> USE DEF importVars, reporterVars, flushVars, wireVars, cliVars, remoteVars,
        handlerVars
<1>0. ASSUME UNCHANGED <<results, completed>>,
            \A f \in Sources : task'[f] = "taken" <=> task[f] = "taken",
            h' \in Collected
              => h \in Collected
     PROVE  CollectionInv'
  <2>1. Taken' = Taken
    BY <1>0 DEF Taken
  <2>2. QED
    BY <1>0, <2>1 DEF CollectionInv
<1>1. CASE UNCHANGED progressVars
  BY <1>1, <1>0 DEF progressVars
<1>2. CASE Ask
  BY <1>2, <1>0 DEF Ask, Collected
<1>3. ASSUME NEW f \in Sources, ImportStarts(f)
     PROVE  CollectionInv'
  BY <1>3, <1>0 DEF ImportStarts, ProgressType
<1>4. ASSUME NEW f \in Sources, NEW r \in {"ok", "err", "lost"}, ImportEnds(f, r)
     PROVE  CollectionInv'
  BY <1>4, <1>0 DEF ImportEnds, ProgressType
<1>5. ASSUME NEW f \in Sources, ImportReports(f)
     PROVE  CollectionInv'
  BY <1>5, <1>0 DEF ImportReports
<1>6. CASE FlushWake
  BY <1>6, <1>0 DEF FlushWake
<1>7. CASE FlushTake
  BY <1>7, <1>0 DEF FlushTake
<1>8. CASE FlushNumber
  BY <1>8, <1>0 DEF FlushNumber
<1>9. CASE FlushSend
  BY <1>9, <1>0 DEF FlushSend
<1>10. CASE FlushEnds
  BY <1>10, <1>0 DEF FlushEnds
<1>11. CASE Ready
  BY <1>11, <1>0 DEF Ready, Collected
<1>12. CASE Reject
  BY <1>12, <1>0 DEF Reject, Collected
<1>13. CASE ImportBegins
  BY <1>13, <1>0 DEF ImportBegins, Collected
<1>14. CASE ImportDone
  <2>1. completed = Files /\ UNCHANGED <<task, results, completed>>
    BY <1>14 DEF ImportDone, importVars
  <2>2. Taken' = Taken /\ Taken = Sources
    BY <2>1, AllTaken DEF Taken, CollectionInv
  <2>3. QED
    BY <2>1, <2>2 DEF CollectionInv, Sources
<1>15. CASE Stored
  BY <1>15, <1>0 DEF Stored, Collected
<1>16. CASE MetadataSent
  BY <1>16, <1>0 DEF MetadataSent, Collected
<1>17. CASE Fails
  BY <1>17, <1>0 DEF Fails, Collected
<1>18. CASE PassOn
  BY <1>18, <1>0 DEF PassOn, Collected
<1>19. CASE TakeAck
  BY <1>19, <1>0 DEF TakeAck, Collected
<1>20. CASE AckTimesOut
  BY <1>20, <1>0 DEF AckTimesOut, Collected
<1>21. CASE Close
  BY <1>21, <1>0 DEF Close, Collected
<1>22. CASE Finish
  BY <1>22, <1>0 DEF Finish, Collected
<1>23. CASE Emitted("sending", "metadata")
  BY <1>23, <1>0 DEF Emitted, Collected
<1>24. CASE Emitted("emit", "ack")
  BY <1>24, <1>0 DEF Emitted, Collected
<1>25. ASSUME NEW f \in Sources, ImportResult(f)
     PROVE  CollectionInv'
  <2>1. /\ task[f] = "ok" /\ task' = [task EXCEPT ![f] = "taken"]
        /\ results' = [results EXCEPT ![f] = f] /\ completed' = completed + 1 /\ h' = "import"
    BY <1>25 DEF ImportResult, Index
  <2>2. Taken' = Taken \cup {f} /\ f \notin Taken
    BY <2>1 DEF Taken, ProgressType
  <2>3. IsFiniteSet(Taken)
    <3>1. IsFiniteSet(Sources)
      BY FS_Interval, ProgressAssumption DEF Sources
    <3>2. QED
      BY <3>1, FS_Subset DEF Taken
  <2>4. Cardinality(Taken') = Cardinality(Taken) + 1
    BY <2>2, <2>3, FS_AddElement
  <2>5. \A g \in Sources : results'[g] = IF task'[g] = "taken" THEN g ELSE 0
    BY <2>1 DEF CollectionInv, ProgressType
  <2>6. QED
    BY <2>1, <2>4, <2>5 DEF CollectionInv, Collected
<1>26. ASSUME NEW f \in Sources, ImportFails(f)
     PROVE  CollectionInv'
  BY <1>26, ImportEndedCollection DEF ImportFails
<1>27. CASE WriterWrites
  BY <1>27, <1>0 DEF WriterWrites
<1>28. CASE WriterEnds
  BY <1>28, <1>0 DEF WriterEnds
<1>29. CASE CliReads
  BY <1>29, <1>0 DEF CliReads
<1>30. CASE CliLeaves
  BY <1>30, <1>0 DEF CliLeaves
<1>31. CASE RemoteReports
  BY <1>31, <1>0 DEF RemoteReports
<1>32. CASE LoopGoesOn
  BY <1>32, <1>0 DEF LoopGoesOn
<1>33. CASE CancelAll
  BY <1>33, <1>0 DEF CancelAll, Complete
<1>34. ASSUME NEW r \in {"ok", "failed"}, Acknowledge(r)
     PROVE  CollectionInv'
  BY <1>34, <1>0 DEF Acknowledge, Complete
<1>35. CASE Prepare
  BY <1>35, <1>0 DEF Prepare, Collected
<1>36. CASE Resume
  <2>1. Taken' = Sources /\ completed' = Files
    BY <1>36 DEF Resume, Taken
  <2>2. Cardinality(Sources) = Files
    BY FS_Interval, ProgressAssumption DEF Sources
  <2>3. \A f \in Sources : task'[f] = "taken" /\ results'[f] = f
    BY <1>36 DEF Resume
  <2>4. QED
    BY <2>1, <2>2, <2>3 DEF CollectionInv, Sources
<1>37. CASE ImportCancelled
  BY <1>37, ImportEndedCollection DEF ImportCancelled
<1>38. CASE ImportStops
  BY <1>38, ImportEndedCollection DEF ImportStops
<1>39. CASE Prepared
  BY <1>39, <1>0 DEF Prepared, Collected
<1>40. QED
  BY <1>1, <1>2, <1>3, <1>4, <1>5, <1>6, <1>7, <1>8, <1>9, <1>10, <1>11, <1>12,
     <1>13, <1>14, <1>15, <1>16, <1>17, <1>18, <1>19, <1>20, <1>21, <1>22, <1>23, <1>24,
     <1>25, <1>26, <1>27, <1>28, <1>29, <1>30, <1>31, <1>32, <1>33, <1>34,
     <1>35, <1>36, <1>37, <1>38, <1>39
     DEF ProgressNext, ImportStep, FlushStep, HandlerStep

\* However imports interleave: the collection that is stored and sent has every file, in
\* the order of the sources.
THEOREM CollectionComplete == ProgressSpec => []CollectionIsComplete
<1>1. ProgressInit => CollectionInv
  <2> SUFFICES ASSUME ProgressInit PROVE CollectionInv
    OBVIOUS
  <2>1. Taken = {}
    BY DEF Taken, ProgressInit
  <2>2. QED
    BY <2>1, FS_EmptySet DEF CollectionInv, Collected, ProgressInit
<1>2. ProgressType /\ CollectionInv => CollectionIsComplete
  BY DEF ProgressType, CollectionInv, CollectionIsComplete, Collected, Taken
<1>3. QED
  BY <1>1, <1>2, InitProgressType, ProgressTypeInductive, CollectionInductive, PTL
     DEF ProgressSpec

\* An outcome is written once, by the handler that ends, when writer and flush task are
\* gone and the channel is empty; only then may the command have read it.
OutcomeInv ==
    /\ \A j \in DOMAIN sock : sock[j].final # "none" =>
          j = Len(sock) /\ sock[j].final = result /\ h = "end"
    /\ cli \in {"ok", "failed"} =>
          cli = result /\ sock = << >> /\ h = "end" /\ flush = "gone" /\ writer = "gone"
    /\ writer = "gone" => chan = << >> /\ (cli = "left" \/ flush = "gone")
    /\ \A j \in DOMAIN chan : chan[j].final = "none"
    /\ event.final = "none" /\ snapshot.final = "none"
    /\ h = "new" => cli = "new"
    /\ h = "asked" => cli \in {"reading", "left"}
    /\ h \in {"join", "end"} \/ flush # "gone"
    /\ \A j \in DOMAIN sock : sock[j].final # "none" => writer = "gone"

\* Only an outcome says how the attempt ended.
LEMMA FinalOfEvents ==
    /\ \A n, m : Progress(n, m).final = "none"
    /\ \A r : Outcome(r).final = r
    /\ Nothing.final = "none"
BY DEF Progress, Outcome, Nothing

\* One step of a send keeps the outcome behind every report.
LEMMA OutcomeProgress ==
    ProgressType /\ OutcomeInv /\ [ProgressNext]_progressVars => OutcomeInv'
<1> SUFFICES ASSUME ProgressType, OutcomeInv, [ProgressNext]_progressVars
             PROVE  OutcomeInv'
  OBVIOUS
<1> USE FinalOfEvents DEF OutcomeInv, importVars, reporterVars, flushVars, wireVars, cliVars,
        remoteVars, handlerVars
<1>1. CASE UNCHANGED progressVars
  BY <1>1 DEF progressVars
<1>2. CASE Ask
  BY <1>2 DEF Ask
<1>3. ASSUME NEW f \in Sources, ImportStarts(f)
     PROVE  OutcomeInv'
  BY <1>3 DEF ImportStarts
<1>4. ASSUME NEW f \in Sources, NEW r \in {"ok", "err", "lost"}, ImportEnds(f, r)
     PROVE  OutcomeInv'
  BY <1>4 DEF ImportEnds
<1>5. ASSUME NEW f \in Sources, ImportReports(f)
     PROVE  OutcomeInv'
  BY <1>5 DEF ImportReports, TryEmit
<1>6. CASE FlushWake
  BY <1>6 DEF FlushWake, Cancelled
<1>7. CASE FlushTake
  BY <1>7 DEF FlushTake, Cancelled
<1>8. CASE FlushNumber
  BY <1>8 DEF FlushNumber
<1>9. CASE FlushSend
  <2>1. CASE writer = "gone"
    BY <1>9, <2>1 DEF FlushSend, Send
  <2>2. CASE writer # "gone"
    <3>1. chan' = Append(chan, snapshot)
      BY <1>9, <2>2 DEF FlushSend, Send
    <3>2. \A j \in DOMAIN chan' : chan'[j] = snapshot \/ (j \in DOMAIN chan /\ chan'[j] = chan[j])
      BY <3>1, Appended DEF ProgressType
    <3>3. QED
      BY <1>9, <2>2, <3>2 DEF FlushSend
  <2>3. QED
    BY <2>1, <2>2
<1>10. CASE FlushEnds
  BY <1>10 DEF FlushEnds, Cancelled
<1>11. CASE Ready
  BY <1>11 DEF Ready
<1>12. CASE Reject
  BY <1>12 DEF Reject
<1>13. CASE ImportBegins
  BY <1>13 DEF ImportBegins, TryEmit
<1>14. CASE ImportDone
  BY <1>14 DEF ImportDone, TryEmit
<1>15. CASE Stored
  BY <1>15 DEF Stored, TryEmit
<1>16. CASE MetadataSent
  BY <1>16 DEF MetadataSent, Emit
<1>17. CASE Fails
  BY <1>17 DEF Fails
<1>18. CASE PassOn
  BY <1>18 DEF PassOn, Emit
<1>19. CASE TakeAck
  BY <1>19 DEF TakeAck
<1>20. CASE AckTimesOut
  BY <1>20 DEF AckTimesOut
<1>21. CASE Close
  BY <1>21 DEF Close
<1>22. CASE Finish
  <2>1. h = "join" /\ h' = "end" /\ writer = "gone"
    BY <1>22 DEF Finish, Joined
  <2>2. CASE cli = "left" /\ UNCHANGED sock
    BY <1>22, <2>1, <2>2 DEF Finish
  <2>3. CASE sock' = Append(sock, Outcome(result))
    <3>1. /\ Len(sock') = Len(sock) + 1
          /\ \A j \in DOMAIN sock' : j = Len(sock') \/ (j \in DOMAIN sock /\ sock'[j] = sock[j])
          /\ sock'[Len(sock')] = Outcome(result)
      BY <2>3, Appended, EventTypes DEF ProgressType
    <3>2. \A j \in DOMAIN sock' : sock'[j].final # "none" => j = Len(sock') /\ sock'[j].final = result
      BY <2>1, <3>1
    <3>3. QED
      BY <1>22, <2>1, <3>2 DEF Finish
  <2>4. QED
    BY <1>22, <2>2, <2>3 DEF Finish
<1>23. CASE Emitted("sending", "metadata")
  <2>1. CASE writer = "gone"
    BY <1>23, <2>1 DEF Emitted, Send
  <2>2. CASE writer # "gone"
    <3>1. chan' = Append(chan, event)
      BY <1>23, <2>2 DEF Emitted, Send
    <3>2. \A j \in DOMAIN chan' : chan'[j] = event \/ (j \in DOMAIN chan /\ chan'[j] = chan[j])
      BY <3>1, Appended DEF ProgressType
    <3>3. QED
      BY <1>23, <2>2, <3>2 DEF Emitted
  <2>3. QED
    BY <2>1, <2>2
<1>24. CASE Emitted("emit", "ack")
  <2>1. CASE writer = "gone"
    BY <1>24, <2>1 DEF Emitted, Send
  <2>2. CASE writer # "gone"
    <3>1. chan' = Append(chan, event)
      BY <1>24, <2>2 DEF Emitted, Send
    <3>2. \A j \in DOMAIN chan' : chan'[j] = event \/ (j \in DOMAIN chan /\ chan'[j] = chan[j])
      BY <3>1, Appended DEF ProgressType
    <3>3. QED
      BY <1>24, <2>2, <3>2 DEF Emitted
  <2>3. QED
    BY <2>1, <2>2
<1>25. ASSUME NEW f \in Sources, ImportResult(f)
     PROVE  OutcomeInv'
  BY <1>25 DEF ImportResult, TryEmit, Index
<1>26. ASSUME NEW f \in Sources, ImportFails(f)
     PROVE  OutcomeInv'
  BY <1>26 DEF ImportFails, ImportEnded
<1>27. CASE WriterWrites
  <2>1. CASE cli = "left"
    BY <1>27, <2>1 DEF WriterWrites
  <2>2. CASE cli # "left"
    <3>1. sock' = Append(sock, Head(chan)) /\ chan' = Tail(chan) /\ writer = "on" /\ UNCHANGED writer
      BY <1>27, <2>2 DEF WriterWrites
    <3>2. Head(chan) \in EventType /\ Head(chan).final = "none"
      BY <1>27, Tailed DEF WriterWrites, ProgressType
    <3>3. \A j \in DOMAIN chan' : chan'[j].final = "none"
      BY <1>27, <3>1, Tailed DEF WriterWrites, ProgressType
    <3>4. \A j \in DOMAIN sock' : sock'[j] = Head(chan) \/ (j \in DOMAIN sock /\ sock'[j] = sock[j])
      BY <3>1, <3>2, Appended DEF ProgressType
    <3>5. QED
      BY <1>27, <3>1, <3>2, <3>3, <3>4 DEF WriterWrites
  <2>3. QED
    BY <2>1, <2>2
<1>28. CASE WriterEnds
  BY <1>28 DEF WriterEnds
<1>29. CASE CliReads
  <2>1. /\ Head(sock) = sock[1] /\ 1 \in DOMAIN sock /\ Len(sock) \in Nat
        /\ Len(sock') = Len(sock) - 1 /\ sock' \in Seq(EventType)
        /\ \A j \in DOMAIN sock' : j \in Nat /\ j + 1 \in DOMAIN sock /\ sock'[j] = sock[j + 1]
    BY <1>29, Tailed DEF CliReads, ProgressType
  <2>2. \A j \in DOMAIN sock' : sock'[j].final # "none" =>
           j = Len(sock') /\ sock'[j].final = result /\ h = "end" /\ writer = "gone"
    BY <2>1
  <2>3. CASE Head(sock).final # "none"
    <3>1. Len(sock') = 0 /\ Head(sock).final = result /\ h = "end" /\ flush = "gone" /\ writer = "gone"
      BY <1>29, <2>1, <2>3 DEF CliReads
    <3>2. sock' = << >>
      BY <2>1, <3>1
    <3>3. QED
      BY <1>29, <2>2, <2>3, <3>1, <3>2 DEF CliReads
  <2>4. CASE Head(sock).final = "none"
    BY <1>29, <2>2, <2>4 DEF CliReads
  <2>5. QED
    BY <2>3, <2>4
<1>30. CASE CliLeaves
  BY <1>30 DEF CliLeaves
<1>31. CASE RemoteReports
  BY <1>31 DEF RemoteReports
<1>32. CASE LoopGoesOn
  BY <1>32 DEF LoopGoesOn
<1>33. CASE CancelAll
  BY <1>33 DEF CancelAll, Complete
<1>34. ASSUME NEW r \in {"ok", "failed"}, Acknowledge(r)
     PROVE  OutcomeInv'
  BY <1>34 DEF Acknowledge, Complete
<1>35. CASE Prepare
  BY <1>35 DEF Prepare, TryEmit
<1>36. CASE Resume
  BY <1>36 DEF Resume, TryEmit
<1>37. CASE ImportCancelled
  BY <1>37 DEF ImportCancelled, ImportEnded
<1>38. CASE ImportStops
  BY <1>38 DEF ImportStops, ImportEnded
<1>39. CASE Prepared
  BY <1>39 DEF Prepared, Emit
<1> HIDE DEF OutcomeInv
<1>40. QED
  BY <1>1, <1>2, <1>3, <1>4, <1>5, <1>6, <1>7, <1>8, <1>9, <1>10, <1>11, <1>12,
     <1>13, <1>14, <1>15, <1>16, <1>17, <1>18, <1>19, <1>20, <1>21, <1>22, <1>23, <1>24,
     <1>25, <1>26, <1>27, <1>28, <1>29, <1>30, <1>31, <1>32, <1>33, <1>34,
     <1>35, <1>36, <1>37, <1>38, <1>39
     DEF ProgressNext, ImportStep, FlushStep, HandlerStep

\* The outcome comes after every report, and the command ends with the attempt's own.
THEOREM OutcomeLast == ProgressSpec => []OutcomeIsLast
<1>1. ProgressInit => OutcomeInv
  BY FinalOfEvents DEF ProgressInit, OutcomeInv
<1>2. OutcomeInv => OutcomeIsLast
  BY DEF OutcomeInv, OutcomeIsLast
<1>3. QED
  BY <1>1, <1>2, InitProgressType, ProgressTypeInductive, OutcomeProgress, PTL
     DEF ProgressSpec

\* The sequence number and the report of an event.
Key(e) == <<e.sequence, e.report>>

\* The keys of all that was numbered and may still be shown, and of what is shown.
Numbered ==
    {<<0, 0>>, <<last, shown>>, Key(event)}
      \cup {Key(chan[j]) : j \in DOMAIN chan}
      \cup {Key(sock[j]) : j \in DOMAIN sock}
      \cup {Key(e) : e \in IF flush = "send" THEN {snapshot} ELSE {}}

\* Unless a report crossed the flush task, sequence numbers have the order of the reports,
\* and what has no number yet is no older than what has one.
OrderInv ==
    /\ \A e \in Numbered : e[1] <= sequence /\ e[2] <= made
    /\ pending <= made
    /\ flush = "took" => snapshot.report <= made
    /\ crossed \/ \A e, g \in Numbered : e[1] < g[1] => e[2] <= g[2]
    /\ crossed \/ (pending # 0 => \A e \in Numbered : e[2] <= pending)
    /\ crossed \/ (flush = "took" => \A e \in Numbered : e[2] <= snapshot.report)
    /\ crossed \/ (flush = "took" /\ pending # 0 => snapshot.report <= pending)

\* Keys are pairs of numbers.
LEMMA KeyType == ProgressType => \A e \in Numbered : e[1] \in Nat /\ e[2] \in Nat
<1> SUFFICES ASSUME ProgressType PROVE \A e \in Numbered : e[1] \in Nat /\ e[2] \in Nat
  OBVIOUS
<1>1. \A e \in EventType : Key(e)[1] \in Nat /\ Key(e)[2] \in Nat
  BY DEF EventType, Key
<1>2. \A j \in DOMAIN chan : chan[j] \in EventType
  BY DEF ProgressType
<1>3. \A j \in DOMAIN sock : sock[j] \in EventType
  BY DEF ProgressType
<1>4. event \in EventType /\ snapshot \in EventType /\ last \in Nat /\ shown \in Nat
  BY DEF ProgressType
<1>5. <<0, 0>>[1] \in Nat /\ <<0, 0>>[2] \in Nat /\ <<last, shown>>[1] \in Nat /\ <<last, shown>>[2] \in Nat
  BY <1>4
<1>6. QED
  BY <1>1, <1>2, <1>3, <1>4, <1>5 DEF Numbered

\* A step that numbers nothing and takes no snapshot keeps the order.
LEMMA KeepsOrder ==
    ASSUME ProgressType, OrderInv, Numbered' \subseteq Numbered,
           UNCHANGED <<made, sequence, crossed>>,
           pending' \in {0, pending},
           flush' = "took" => flush = "took" /\ snapshot' = snapshot
    PROVE  OrderInv'
BY KeyType DEF OrderInv, ProgressType

\* try_emit makes a report that is newer than all that have a number.
LEMMA TryEmitOrder ==
    ASSUME ProgressType, OrderInv, Numbered' \subseteq Numbered, TryEmit,
           UNCHANGED flushVars
    PROVE  OrderInv'
<1>1. snapshot.report \in Nat
  BY DEF ProgressType, EventType
<1>2. QED
  BY <1>1, KeyType DEF OrderInv, ProgressType, TryEmit, flushVars

\* emit numbers a report that is newer than all others.
LEMMA EmitOrder ==
    ASSUME ProgressType, OrderInv, Emit, UNCHANGED <<flushVars, wireVars, cliVars>>
    PROVE  OrderInv'
<1> DEFINE new == <<sequence + 1, made + 1>>
<1>1. Numbered' \subseteq Numbered \cup {new}
  BY DEF Emit, Numbered, Key, Progress, flushVars, wireVars, cliVars
<1>2. /\ made' = made + 1 /\ pending' = 0 /\ sequence' = sequence + 1
      /\ crossed' = (crossed \/ flush = "took") /\ UNCHANGED <<flush, snapshot>>
  BY DEF Emit, flushVars
<1>3. made \in Nat /\ sequence \in Nat /\ snapshot.report \in Nat
  BY DEF ProgressType, EventType
<1>4. \A e \in Numbered : e[1] \in Nat /\ e[2] \in Nat /\ e[1] <= sequence /\ e[2] <= made
  BY KeyType DEF OrderInv
<1>5. \A e \in Numbered' : e[1] <= sequence' /\ e[2] <= made'
  BY <1>1, <1>2, <1>3, <1>4
<1>6. ASSUME ~crossed' PROVE \A e, g \in Numbered' : e[1] < g[1] => e[2] <= g[2]
  <2>1. \A e, g \in Numbered : e[1] < g[1] => e[2] <= g[2]
    BY <1>2, <1>6 DEF OrderInv
  <2>2. \A e \in Numbered : e[2] <= new[2] /\ e[1] < new[1]
    BY <1>3, <1>4
  <2>3. new[1] \in Nat /\ new[2] \in Nat
    BY <1>3
  <2>4. QED
    BY <1>1, <1>4, <2>1, <2>2, <2>3
<1>7. flush' = "took" => crossed'
  BY <1>2
<1>8. pending' = 0 /\ 0 <= made' /\ (flush' = "took" => snapshot'.report <= made')
  BY <1>2, <1>3 DEF OrderInv
<1>9. QED
  BY <1>5, <1>6, <1>7, <1>8 DEF OrderInv

\* The flush task numbers what it took, which is no older than what has a number.
LEMMA FlushNumberOrder ==
    ASSUME ProgressType, OrderInv, FlushNumber
    PROVE  OrderInv'
<1> DEFINE new == <<sequence + 1, snapshot.report>>
<1>1. Numbered' \subseteq Numbered \cup {new}
  BY DEF FlushNumber, Numbered, Key, Progress, wireVars, cliVars, handlerVars
<1>2. /\ sequence' = sequence + 1 /\ UNCHANGED <<made, pending, crossed>>
      /\ flush = "took" /\ flush' = "send"
  BY DEF FlushNumber
<1>3. made \in Nat /\ sequence \in Nat /\ snapshot.report \in Nat /\ pending \in Nat
  BY DEF ProgressType, EventType
<1>4. \A e \in Numbered : e[1] \in Nat /\ e[2] \in Nat /\ e[1] <= sequence /\ e[2] <= made
  BY KeyType DEF OrderInv
<1>5. \A e \in Numbered' : e[1] <= sequence' /\ e[2] <= made'
  BY <1>1, <1>2, <1>3, <1>4 DEF OrderInv
<1>6. ASSUME ~crossed' PROVE \A e, g \in Numbered' : e[1] < g[1] => e[2] <= g[2]
  <2>1. \A e, g \in Numbered : e[1] < g[1] => e[2] <= g[2]
    BY <1>2, <1>6 DEF OrderInv
  <2>2. \A e \in Numbered : e[2] <= new[2] /\ e[1] < new[1]
    BY <1>2, <1>3, <1>4, <1>6 DEF OrderInv
  <2>3. new[1] \in Nat /\ new[2] \in Nat
    BY <1>3
  <2>4. QED
    BY <1>1, <1>4, <2>1, <2>2, <2>3
<1>7. ASSUME ~crossed', pending' # 0 PROVE \A e \in Numbered' : e[2] <= pending'
  <2>1. \A e \in Numbered : e[2] <= pending
    BY <1>2, <1>7 DEF OrderInv
  <2>2. new[2] <= pending
    BY <1>2, <1>7 DEF OrderInv
  <2>3. QED
    BY <1>1, <1>2, <2>1, <2>2
<1>8. flush' # "took" /\ pending' <= made'
  BY <1>2 DEF OrderInv
<1>9. QED
  BY <1>5, <1>6, <1>7, <1>8 DEF OrderInv

\* One step of a send keeps the order of what is numbered.
LEMMA OrderInductive ==
    ProgressType /\ OrderInv /\ [ProgressNext]_progressVars => OrderInv'
<1> SUFFICES ASSUME ProgressType, OrderInv, [ProgressNext]_progressVars
             PROVE  OrderInv'
  OBVIOUS
<1> USE DEF importVars, reporterVars, flushVars, wireVars, cliVars, remoteVars,
        handlerVars
<1>0. ASSUME UNCHANGED <<event, flushVars, wireVars, cliVars>> PROVE Numbered' = Numbered
  BY <1>0 DEF Numbered
<1>1. CASE UNCHANGED progressVars
  BY <1>1, <1>0, KeepsOrder DEF progressVars
<1>2. CASE Ask
  <2>1. Numbered' \subseteq Numbered
    BY <1>2 DEF Ask, Numbered, Key
  <2>2. QED
    BY <1>2, <2>1, KeepsOrder DEF Ask
<1>3. ASSUME NEW f \in Sources, ImportStarts(f)
     PROVE  OrderInv'
  BY <1>3, <1>0, KeepsOrder DEF ImportStarts
<1>4. ASSUME NEW f \in Sources, NEW r \in {"ok", "err", "lost"}, ImportEnds(f, r)
     PROVE  OrderInv'
  BY <1>4, <1>0, KeepsOrder DEF ImportEnds
<1>5. ASSUME NEW f \in Sources, ImportReports(f)
     PROVE  OrderInv'
  BY <1>5, <1>0, TryEmitOrder DEF ImportReports
<1>6. CASE FlushWake
  <2>1. Numbered' \subseteq Numbered
    BY <1>6 DEF FlushWake, Numbered, Key
  <2>2. QED
    BY <1>6, <2>1, KeepsOrder DEF FlushWake
<1>7. CASE FlushTake
  <2>1. Numbered' \subseteq Numbered
    BY <1>7 DEF FlushTake, Numbered, Key
  <2>2. CASE pending = 0
    BY <1>7, <2>1, <2>2, KeepsOrder DEF FlushTake
  <2>3. CASE pending # 0
    <3>1. /\ pending' = 0 /\ snapshot'.report = pending /\ flush' = "took"
          /\ UNCHANGED <<made, sequence, crossed>>
      BY <1>7, <2>3 DEF FlushTake, Progress
    <3>2. made \in Nat
      BY DEF ProgressType
    <3>3. QED
      BY <2>1, <2>3, <3>1, <3>2 DEF OrderInv
  <2>4. QED
    BY <2>2, <2>3
<1>8. CASE FlushNumber
  BY <1>8, FlushNumberOrder
<1>9. CASE FlushSend
  <2>1. \A j \in DOMAIN chan' : chan'[j] = snapshot \/ (j \in DOMAIN chan /\ chan'[j] = chan[j])
    <3>1. chan' = chan \/ chan' = Append(chan, snapshot)
      BY <1>9 DEF FlushSend, Send
    <3>2. QED
      BY <3>1, Appended DEF ProgressType
  <2>2. Key(Nothing) = <<0, 0>>
    BY DEF Key, Nothing, Progress
  <2>3. Numbered' \subseteq Numbered
    BY <1>9, <2>1, <2>2 DEF FlushSend, Numbered
  <2>4. QED
    BY <1>9, <2>3, KeepsOrder DEF FlushSend
<1>10. CASE FlushEnds
  <2>1. Numbered' \subseteq Numbered
    BY <1>10 DEF FlushEnds, Numbered, Key
  <2>2. QED
    BY <1>10, <2>1, KeepsOrder DEF FlushEnds
<1>11. CASE Ready
  BY <1>11, <1>0, KeepsOrder DEF Ready
<1>12. CASE Reject
  <2>1. Numbered' \subseteq Numbered
    BY <1>12 DEF Reject, Numbered, Key
  <2>2. QED
    BY <1>12, <2>1, KeepsOrder DEF Reject
<1>13. CASE ImportBegins
  BY <1>13, <1>0, TryEmitOrder DEF ImportBegins
<1>14. CASE ImportDone
  BY <1>14, <1>0, TryEmitOrder DEF ImportDone
<1>15. CASE Stored
  BY <1>15, <1>0, TryEmitOrder DEF Stored
<1>16. CASE MetadataSent
  BY <1>16, EmitOrder DEF MetadataSent
<1>17. CASE Fails
  BY <1>17, <1>0, KeepsOrder DEF Fails
<1>18. CASE PassOn
  BY <1>18, EmitOrder DEF PassOn
<1>19. CASE TakeAck
  BY <1>19, <1>0, KeepsOrder DEF TakeAck
<1>20. CASE AckTimesOut
  BY <1>20, <1>0, KeepsOrder DEF AckTimesOut
<1>21. CASE Close
  BY <1>21, <1>0, KeepsOrder DEF Close
<1>22. CASE Finish
  <2>1. \A j \in DOMAIN sock' : sock'[j] = Outcome(result) \/ (j \in DOMAIN sock /\ sock'[j] = sock[j])
    <3>1. sock' = sock \/ sock' = Append(sock, Outcome(result))
      BY <1>22 DEF Finish
    <3>2. Outcome(result) \in EventType
      BY EventTypes DEF ProgressType
    <3>3. CASE sock' = Append(sock, Outcome(result))
      BY <3>2, <3>3, Appended DEF ProgressType
    <3>4. CASE sock' = sock
      BY <3>4
    <3>5. QED
      BY <3>1, <3>3, <3>4
  <2>2. Key(Outcome(result)) = <<0, 0>>
    BY DEF Key, Outcome
  <2>3. Numbered' \subseteq Numbered
    BY <1>22, <2>1, <2>2 DEF Finish, Numbered
  <2>4. QED
    BY <1>22, <2>3, KeepsOrder DEF Finish
<1>23. CASE Emitted("sending", "metadata")
  <2>1. \A j \in DOMAIN chan' : chan'[j] = event \/ (j \in DOMAIN chan /\ chan'[j] = chan[j])
    <3>1. chan' = chan \/ chan' = Append(chan, event)
      BY <1>23 DEF Emitted, Send
    <3>2. QED
      BY <3>1, Appended DEF ProgressType
  <2>2. Key(Nothing) = <<0, 0>>
    BY DEF Key, Nothing, Progress
  <2>3. Numbered' \subseteq Numbered
    BY <1>23, <2>1, <2>2 DEF Emitted, Numbered
  <2>4. QED
    BY <1>23, <2>3, KeepsOrder DEF Emitted
<1>24. CASE Emitted("emit", "ack")
  <2>1. \A j \in DOMAIN chan' : chan'[j] = event \/ (j \in DOMAIN chan /\ chan'[j] = chan[j])
    <3>1. chan' = chan \/ chan' = Append(chan, event)
      BY <1>24 DEF Emitted, Send
    <3>2. QED
      BY <3>1, Appended DEF ProgressType
  <2>2. Key(Nothing) = <<0, 0>>
    BY DEF Key, Nothing, Progress
  <2>3. Numbered' \subseteq Numbered
    BY <1>24, <2>1, <2>2 DEF Emitted, Numbered
  <2>4. QED
    BY <1>24, <2>3, KeepsOrder DEF Emitted
<1>25. ASSUME NEW f \in Sources, ImportResult(f)
     PROVE  OrderInv'
  BY <1>25, <1>0, TryEmitOrder DEF ImportResult
<1>26. ASSUME NEW f \in Sources, ImportFails(f)
     PROVE  OrderInv'
  BY <1>26, <1>0, KeepsOrder DEF ImportFails, ImportEnded
<1>27. CASE WriterWrites
  <2>1. CASE cli = "left"
    <3>1. Numbered' \subseteq Numbered
      BY <1>27, <2>1 DEF WriterWrites, Numbered
    <3>2. QED
      BY <1>27, <3>1, KeepsOrder DEF WriterWrites
  <2>2. CASE cli # "left"
    <3>1. sock' = Append(sock, Head(chan)) /\ chan' = Tail(chan) /\ chan # << >>
      BY <1>27, <2>2 DEF WriterWrites
    <3>2. Head(chan) \in EventType /\ Head(chan) = chan[1] /\ 1 \in DOMAIN chan
      BY <3>1, Tailed DEF ProgressType
    <3>3. \A j \in DOMAIN chan' : j + 1 \in DOMAIN chan /\ chan'[j] = chan[j + 1]
      BY <3>1, Tailed DEF ProgressType
    <3>4. \A j \in DOMAIN sock' : sock'[j] = chan[1] \/ (j \in DOMAIN sock /\ sock'[j] = sock[j])
      BY <3>1, <3>2, Appended DEF ProgressType
    <3>5. Numbered' \subseteq Numbered
      BY <1>27, <3>2, <3>3, <3>4 DEF WriterWrites, Numbered
    <3>6. QED
      BY <1>27, <3>5, KeepsOrder DEF WriterWrites
  <2>3. QED
    BY <2>1, <2>2
<1>28. CASE WriterEnds
  <2>1. Numbered' \subseteq Numbered
    BY <1>28 DEF WriterEnds, Numbered, Key
  <2>2. QED
    BY <1>28, <2>1, KeepsOrder DEF WriterEnds
<1>29. CASE CliReads
  <2>1. Head(sock) = sock[1] /\ 1 \in DOMAIN sock
    BY <1>29, Tailed DEF CliReads, ProgressType
  <2>2. \A j \in DOMAIN sock' : j + 1 \in DOMAIN sock /\ sock'[j] = sock[j + 1]
    BY <1>29, Tailed DEF CliReads, ProgressType
  <2>3. <<last', shown'>> = <<last, shown>> \/ <<last', shown'>> = Key(sock[1])
    BY <1>29, <2>1 DEF CliReads, Key
  <2>4. Numbered' \subseteq Numbered
    BY <1>29, <2>1, <2>2, <2>3 DEF CliReads, Numbered
  <2>5. QED
    BY <1>29, <2>4, KeepsOrder DEF CliReads
<1>30. CASE CliLeaves
  <2>1. Numbered' \subseteq Numbered
    BY <1>30 DEF CliLeaves, Numbered, Key
  <2>2. QED
    BY <1>30, <2>1, KeepsOrder DEF CliLeaves
<1>31. CASE RemoteReports
  BY <1>31, <1>0, KeepsOrder DEF RemoteReports
<1>32. CASE LoopGoesOn
  BY <1>32, <1>0, KeepsOrder DEF LoopGoesOn
<1>33. CASE CancelAll
  BY <1>33, <1>0, KeepsOrder DEF CancelAll, Complete
<1>34. ASSUME NEW r \in {"ok", "failed"}, Acknowledge(r)
     PROVE  OrderInv'
  BY <1>34, <1>0, KeepsOrder DEF Acknowledge, Complete
<1>35. CASE Prepare
  BY <1>35, <1>0, TryEmitOrder DEF Prepare
<1>36. CASE Resume
  BY <1>36, <1>0, TryEmitOrder DEF Resume
<1>37. CASE ImportCancelled
  BY <1>37, <1>0, KeepsOrder DEF ImportCancelled, ImportEnded
<1>38. CASE ImportStops
  BY <1>38, <1>0, KeepsOrder DEF ImportStops, ImportEnded
<1>39. CASE Prepared
  BY <1>39, EmitOrder DEF Prepared
<1>40. QED
  BY <1>1, <1>2, <1>3, <1>4, <1>5, <1>6, <1>7, <1>8, <1>9, <1>10, <1>11, <1>12,
     <1>13, <1>14, <1>15, <1>16, <1>17, <1>18, <1>19, <1>20, <1>21, <1>22, <1>23, <1>24,
     <1>25, <1>26, <1>27, <1>28, <1>29, <1>30, <1>31, <1>32, <1>33, <1>34,
     <1>35, <1>36, <1>37, <1>38, <1>39
     DEF ProgressNext, ImportStep, FlushStep, HandlerStep

\* What a step does to the report that is shown.
ShowsNewer == cli' # "left" => shown' >= shown \/ crossed

\* The command goes back to an older report only when one was numbered between the flush
\* task's taking of another and its numbering.
THEOREM NeverOlder == ProgressSpec => NeverShowsOlder
<1>1. ProgressInit => OrderInv
  <2> SUFFICES ASSUME ProgressInit PROVE OrderInv
    OBVIOUS
  <2>1. Numbered = {<<0, 0>>}
    BY DEF ProgressInit, Numbered, Key, Nothing, Progress
  <2>2. QED
    BY <2>1 DEF ProgressInit, OrderInv
<1>2. ProgressType /\ OrderInv /\ [ProgressNext]_progressVars => [ShowsNewer]_progressVars
  <2> SUFFICES ASSUME ProgressType, OrderInv, [ProgressNext]_progressVars PROVE ShowsNewer
    OBVIOUS
  <2>1. shown \in Nat
    BY DEF ProgressType
  <2>2. CASE UNCHANGED shown
    BY <2>1, <2>2 DEF ShowsNewer
  <2>3. CASE CliReads
    <3>1. sock[1] = Head(sock) /\ 1 \in DOMAIN sock
      BY <2>3, Tailed DEF CliReads, ProgressType
    <3>2. <<last, shown>> \in Numbered /\ Key(sock[1]) \in Numbered
      BY <3>1 DEF Numbered
    <3>3. \/ UNCHANGED shown
          \/ shown' = Key(sock[1])[2] /\ Key(sock[1])[1] > last
      BY <2>3, <3>1 DEF CliReads, Fresh, Key
    <3>4. CASE ~crossed
      <4>1. <<last, shown>>[1] < Key(sock[1])[1] => <<last, shown>>[2] <= Key(sock[1])[2]
        BY <3>2, <3>4 DEF OrderInv
      <4>2. <<last, shown>>[1] \in Nat /\ Key(sock[1])[1] \in Nat /\ Key(sock[1])[2] \in Nat
        BY <3>2, KeyType
      <4>3. QED
        BY <2>1, <3>3, <4>1, <4>2 DEF ShowsNewer
    <3>5. QED
      BY <3>4 DEF ShowsNewer
  <2>4. CASE CliLeaves
    BY <2>4 DEF CliLeaves, ShowsNewer
  <2>5. QED
    BY <2>2, <2>3, <2>4 DEF ProgressNext, ImportStep, FlushStep, HandlerStep, progressVars, cliVars, Ask,
       ImportStarts, ImportEnds, ImportReports, FlushWake, FlushTake, FlushNumber, FlushSend,
       FlushEnds, Ready, Reject, ImportBegins, ImportDone, Stored, MetadataSent, Fails, PassOn,
       Prepare, Resume, ImportEnded, ImportCancelled, ImportStops, Prepared, TakeAck, AckTimesOut, Close, Finish, Emitted, ImportResult, ImportFails, WriterWrites,
       WriterEnds, RemoteReports, LoopGoesOn, CancelAll, Acknowledge, Complete
<1>3. QED
  BY <1>1, <1>2, InitProgressType, ProgressTypeInductive, OrderInductive, PTL
     DEF ProgressSpec, NeverShowsOlder, ShowsNewer
============================================================================
