------------------------ MODULE ReceiveTransferProofs ------------------------
(***************************************************************************)
(* TLAPS proofs about ReceiveTransfer, for any sets of transfers, hashes,   *)
(* tasks and locks.                                                         *)
(***************************************************************************)
EXTENDS ReceiveTransfer, TLAPS

\* The labels of the two kinds of task, and those at which a task has no transfer.
HandlerPC == HandlerLocked \cup {"idle", "arrived", "waiting", "cleanup"}
ResumerPC == ResumerLocked \cup
    {"idle", "list", "peers", "pass", "arrived", "waiting", "ack", "remove"}
Resting == {"idle", "list", "peers", "pass"}

\* A task is at a label of its kind, and works on a transfer unless it rests.
TaskOK ==
    /\ \A p \in Handler : pc[p] \in HandlerPC
    /\ \A r \in Resumer : pc[r] \in ResumerPC
    /\ \A p \in Proc : pc[p] \notin Resting => tid[p] \in Transfer /\ hash[p] \in Hash

\* TypeOK is inductive together with TaskOK.
TypeInv == TypeOK /\ TaskOK

\* Posting an acknowledgement keeps the bound on equal ones.
LEMMA PostKeepsBound ==
    ASSUME acks \in [SendAckMsg -> 0..MaxInFlight], NEW m \in SendAckMsg, Post(m)
    PROVE  acks' \in [SendAckMsg -> 0..MaxInFlight]
<1>1. (IF acks[m] < MaxInFlight THEN acks[m] + 1 ELSE acks[m]) \in 0..MaxInFlight
  BY ConstantsAssumption
<1>2. QED
  BY <1>1 DEF Post

\* Whatever lock it names, an update of a holder is a holder.
LEMMA HolderType ==
    ASSUME holder \in [Lock -> Proc \cup {None}], NEW l, NEW q \in Proc \cup {None},
           holder' = [holder EXCEPT ![l] = q]
    PROVE  holder' \in [Lock -> Proc \cup {None}]
  OBVIOUS

\* One step of the receiver keeps types and labels (the induction step of TypeCorrect).
LEMMA TypeInvInductive == TypeInv /\ [Next]_vars => TypeInv'
<1> SUFFICES ASSUME TypeInv, [Next]_vars PROVE TypeInv'
  OBVIOUS
<1> USE ConstantsAssumption DEF TypeInv, TypeOK, TaskOK, daemonVars, lockVars, taskVars,
        HandlerPC, ResumerPC, Resting, HandlerLocked, ResumerLocked, RunReceive, PC, Proc,
        Resumer, Goto, ReceiveTransferState, ReceiveStage, SavedTransfer
<1>1. CASE UNCHANGED vars
  BY <1>1 DEF vars
<1>2. ASSUME NEW p \in Proc, TaskStep(p)
     PROVE  TypeInv'
  <2>1. CASE CloneLock(p)
    BY <2>1 DEF CloneLock
  <2>2. CASE AcquireLock(p)
    <3>1. holder' \in [Lock -> Proc \cup {None}]
      BY <2>2, HolderType DEF AcquireLock
    <3>2. QED
      BY <2>2, <3>1 DEF AcquireLock
  <2>3. CASE BeginDownload(p)
    BY <2>3 DEF BeginDownload, Save
  <2>4. CASE FinishDownload(p)
    BY <2>4 DEF FinishDownload, Save
  <2>5. CASE FinishExport(p)
    BY <2>5 DEF FinishExport
  <2>6. CASE SaveComplete(p)
    BY <2>6 DEF SaveComplete, Save
  <2>7. CASE RunFails(p)
    BY <2>7 DEF RunFails, OnError
  <2>8. CASE SendAck(p)
    <3>1. acks' \in [SendAckMsg -> 0..MaxInFlight]
      BY <2>8, PostKeepsBound DEF SendAck, SendAckMsg
    <3>2. QED
      BY <2>8, <3>1 DEF SendAck
  <2>9. CASE AckFails(p)
    BY <2>9 DEF AckFails, Done
  <2>10. CASE RemoveState(p)
    BY <2>10 DEF RemoveState, Done
  <2>11. QED
    BY <1>2, <2>1, <2>2, <2>3, <2>4, <2>5, <2>6, <2>7, <2>8, <2>9, <2>10 DEF TaskStep
<1>3. ASSUME NEW p \in Handler, HandlerStep(p)
     PROVE  TypeInv'
  <2>1. CASE RejectVersion(p)
    BY <2>1 DEF RejectVersion
  <2>2. CASE LoadState(p)
    BY <2>2 DEF LoadState, AlreadyComplete
  <2>3. CASE LoadFailed(p)
    BY <2>3 DEF LoadFailed
  <2>4. CASE MarkFailed(p)
    BY <2>4 DEF MarkFailed, Save
  <2>5. CASE SendNack(p)
    <3>1. acks' \in [SendAckMsg -> 0..MaxInFlight]
      BY <2>5, PostKeepsBound DEF SendNack, SendAckMsg
    <3>2. QED
      BY <2>5, <3>1 DEF SendNack
  <2>6. CASE ReleaseLock(p)
    BY <2>6 DEF ReleaseLock
  <2>7. CASE RemoveLock(p)
    BY <2>7 DEF RemoveLock
  <2>8. QED
    BY <1>3, <2>1, <2>2, <2>3, <2>4, <2>5, <2>6, <2>7 DEF HandlerStep
<1>4. ASSUME NEW r \in Resumer, ResumerStep(r)
     PROVE  TypeInv'
  <2>1. CASE ListIncomplete(r)
    BY <2>1 DEF ListIncomplete, Incomplete
  <2>2. CASE CheckPeers(r)
    BY <2>2 DEF CheckPeers
  <2>3. CASE ResumeNext(r)
    BY <2>3 DEF ResumeNext
  <2>4. CASE ResumeUnlock(r)
    <3>1. holder' \in [Lock -> Proc \cup {None}]
      BY <2>4, HolderType DEF ResumeUnlock
    <3>2. QED
      BY <2>4, <3>1 DEF ResumeUnlock, Done
  <2>5. CASE EndPass(r)
    BY <2>5 DEF EndPass
  <2>6. QED
    BY <1>4, <2>1, <2>2, <2>3, <2>4, <2>5 DEF ResumerStep
<1>5. ASSUME NEW s \in Startup, NEW w \in Watcher, FeatureStart(s, w)
     PROVE  TypeInv'
  BY <1>5 DEF FeatureStart
<1>6. ASSUME FeatureStop
     PROVE  TypeInv'
  BY <1>6 DEF FeatureStop
<1>7. ASSUME Crash
     PROVE  TypeInv'
  BY <1>7 DEF Crash
<1>8. ASSUME NEW b \in BOOLEAN, SetConnected(b)
     PROVE  TypeInv'
  BY <1>8 DEF SetConnected
<1>9. ASSUME NEW w \in Watcher, WatcherTick(w)
     PROVE  TypeInv'
  BY <1>9 DEF WatcherTick
<1>10. ASSUME CancelList
     PROVE  TypeInv'
  BY <1>10 DEF CancelList, Incomplete
<1>11. ASSUME NEW x \in Transfer, CancelRemove(x)
     PROVE  TypeInv'
  BY <1>11 DEF CancelRemove
<1>12. ASSUME CancelFails
     PROVE  TypeInv'
  BY <1>12 DEF CancelFails
<1>13. ASSUME NEW p \in Handler, NEW x \in Transfer, NEW h \in Hash, ReceivePayload(p, x, h)
     PROVE  TypeInv'
  BY <1>13 DEF ReceivePayload
<1>14. ASSUME NEW m \in SendAckMsg, AckLeaves(m)
     PROVE  TypeInv'
  BY <1>14 DEF AckLeaves
<1>15. QED
  BY <1>1, <1>2, <1>3, <1>4, <1>5, <1>6, <1>7, <1>8, <1>9, <1>10, <1>11, <1>12, <1>13, <1>14 DEF Next, Internal, DaemonStep, CancelStep

\* The base of every induction below.
LEMMA InitTypeInv == Init => TypeInv
<1> SUFFICES ASSUME Init PROVE TypeInv
  OBVIOUS
<1>1. TaskOK
  BY DEF Init, TaskOK, Proc, Resumer, HandlerPC, ResumerPC, Resting
<1>2. acks \in [SendAckMsg -> 0..MaxInFlight]
  BY ConstantsAssumption DEF Init
<1>3. pc \in [Proc -> PC]
  BY DEF Init, PC
<1>4. QED
  BY <1>1, <1>2, <1>3 DEF Init, TypeInv, TypeOK

\* Every reachable state of the receiver is well typed.
THEOREM TypeCorrect == Spec => []TypeOK
<1>1. TypeInv => TypeOK
  BY DEF TypeInv
<1>2. QED
  BY <1>1, InitTypeInv, TypeInvInductive, PTL DEF Spec

\* A task that has locked its transfer.
HoldsLock(p) == pc[p] \in (IF p \in Handler THEN HandlerLocked ELSE ResumerLocked)

\* A task has a clone of a lock exactly while it waits for it, holds it or is about to
\* remove it; the clone is the one in the map, so that tasks at one transfer share it;
\* and whoever works under the lock is its holder.
LockInv ==
    \A p \in Proc :
        /\ lock[p] # None <=> pc[p] \in {"waiting", "cleanup"} \/ HoldsLock(p)
        /\ lock[p] # None => locks[tid[p]] = lock[p]
        /\ HoldsLock(p) => holder[lock[p]] = p

\* One step of the receiver keeps the locks in order.
LEMMA LockInvInductive == TypeInv /\ LockInv /\ [Next]_vars => LockInv'
<1> SUFFICES ASSUME TypeInv, LockInv, [Next]_vars PROVE LockInv'
  OBVIOUS
<1> USE ConstantsAssumption DEF TypeInv, TypeOK, TaskOK, LockInv, HoldsLock, daemonVars,
        lockVars, taskVars, HandlerPC, ResumerPC, Resting, HandlerLocked, ResumerLocked,
        RunReceive, PC, Proc, Resumer, Goto
<1>1. CASE UNCHANGED vars
  BY <1>1 DEF vars
<1>2. ASSUME NEW p \in Proc, TaskStep(p)
     PROVE  LockInv'
  <2>1. CASE CloneLock(p)
    BY <2>1 DEF CloneLock
  <2>2. CASE AcquireLock(p)
    BY <2>2 DEF AcquireLock
  <2>3. CASE BeginDownload(p)
    BY <2>3 DEF BeginDownload
  <2>4. CASE FinishDownload(p)
    BY <2>4 DEF FinishDownload
  <2>5. CASE FinishExport(p)
    BY <2>5 DEF FinishExport
  <2>6. CASE SaveComplete(p)
    BY <2>6 DEF SaveComplete
  <2>7. CASE RunFails(p)
    BY <2>7 DEF RunFails, OnError
  <2>8. CASE SendAck(p)
    BY <2>8 DEF SendAck
  <2>9. CASE AckFails(p)
    BY <2>9 DEF AckFails, Done
  <2>10. CASE RemoveState(p)
    BY <2>10 DEF RemoveState, Done
  <2>11. QED
    BY <1>2, <2>1, <2>2, <2>3, <2>4, <2>5, <2>6, <2>7, <2>8, <2>9, <2>10 DEF TaskStep
<1>3. ASSUME NEW p \in Handler, HandlerStep(p)
     PROVE  LockInv'
  <2>1. CASE RejectVersion(p)
    BY <2>1 DEF RejectVersion
  <2>2. CASE LoadState(p)
    BY <2>2 DEF LoadState
  <2>3. CASE LoadFailed(p)
    BY <2>3 DEF LoadFailed
  <2>4. CASE MarkFailed(p)
    BY <2>4 DEF MarkFailed
  <2>5. CASE SendNack(p)
    BY <2>5 DEF SendNack
  <2>6. CASE ReleaseLock(p)
    BY <2>6 DEF ReleaseLock
  <2>7. CASE RemoveLock(p)
    BY <2>7 DEF RemoveLock, OnlyReference
  <2>8. QED
    BY <1>3, <2>1, <2>2, <2>3, <2>4, <2>5, <2>6, <2>7 DEF HandlerStep
<1>4. ASSUME NEW r \in Resumer, ResumerStep(r)
     PROVE  LockInv'
  <2>1. CASE ListIncomplete(r)
    BY <2>1 DEF ListIncomplete
  <2>2. CASE CheckPeers(r)
    BY <2>2 DEF CheckPeers
  <2>3. CASE ResumeNext(r)
    BY <2>3 DEF ResumeNext
  <2>4. CASE ResumeUnlock(r)
    BY <2>4 DEF ResumeUnlock, Done
  <2>5. CASE EndPass(r)
    BY <2>5 DEF EndPass
  <2>6. QED
    BY <1>4, <2>1, <2>2, <2>3, <2>4, <2>5 DEF ResumerStep
<1>5. ASSUME NEW s \in Startup, NEW w \in Watcher, FeatureStart(s, w)
     PROVE  LockInv'
  BY <1>5 DEF FeatureStart
<1>6. ASSUME FeatureStop
     PROVE  LockInv'
  BY <1>6 DEF FeatureStop
<1>7. ASSUME Crash
     PROVE  LockInv'
  BY <1>7 DEF Crash
<1>8. ASSUME NEW b \in BOOLEAN, SetConnected(b)
     PROVE  LockInv'
  BY <1>8 DEF SetConnected
<1>9. ASSUME NEW w \in Watcher, WatcherTick(w)
     PROVE  LockInv'
  BY <1>9 DEF WatcherTick
<1>10. ASSUME CancelList
     PROVE  LockInv'
  BY <1>10 DEF CancelList
<1>11. ASSUME NEW x \in Transfer, CancelRemove(x)
     PROVE  LockInv'
  BY <1>11 DEF CancelRemove
<1>12. ASSUME CancelFails
     PROVE  LockInv'
  BY <1>12 DEF CancelFails
<1>13. ASSUME NEW p \in Handler, NEW x \in Transfer, NEW h \in Hash, ReceivePayload(p, x, h)
     PROVE  LockInv'
  BY <1>13 DEF ReceivePayload
<1>14. ASSUME NEW m \in SendAckMsg, AckLeaves(m)
     PROVE  LockInv'
  BY <1>14 DEF AckLeaves
<1>15. QED
  BY <1>1, <1>2, <1>3, <1>4, <1>5, <1>6, <1>7, <1>8, <1>9, <1>10, <1>11, <1>12, <1>13, <1>14 DEF Next, Internal, DaemonStep, CancelStep

\* For any number of tasks, transfers and locks: no two tasks run one transfer.
THEOREM OneReceive == Spec => []OneReceivePerTransfer
<1>1. Init => TypeInv /\ LockInv
  BY InitTypeInv, ConstantsAssumption DEF Init, LockInv, HoldsLock, HandlerLocked,
     ResumerLocked, RunReceive
<1>2. TypeInv /\ LockInv => OneReceivePerTransfer
  BY DEF TypeInv, TaskOK, LockInv, HoldsLock, OneReceivePerTransfer, HandlerLocked,
     ResumerLocked, Resting, RunReceive
<1>3. QED
  BY <1>1, <1>2, TypeInvInductive, LockInvInductive, PTL DEF Spec

\* What the labels after the export, the state files and the acknowledgements promise:
\* a receive past its export is exported.
TasksExported ==
    /\ \A p \in Proc : pc[p] = "complete" => <<tid[p], hash[p]>> \in exported
    /\ \A p \in Proc : pc[p] \in {"unlock", "ack", "reack", "remove"} => tid[p] \in Exported

ExportInv ==
    /\ TasksExported
    /\ CompleteMeansExported
    /\ AckMeansExported

PastExport == {"complete", "unlock", "ack", "reack", "remove"}

\* Tasks that stay where they are, leave their receive or unlock keep their promise.
LEMMA TasksFrame ==
    ASSUME TasksExported, UNCHANGED exported,
           \A q \in Proc :
              \/ pc'[q] \notin PastExport
              \/ /\ tid'[q] = tid[q] /\ hash'[q] = hash[q]
                 /\ \/ pc'[q] = pc[q]
                    \/ pc[q] = "unlock" /\ pc'[q] = "ack"
    PROVE  TasksExported'
<1>1. Exported' = Exported
  BY DEF Exported
<1>2. QED
  BY <1>1 DEF TasksExported, PastExport

\* An acknowledgement that is true may be posted.
LEMMA PostKeepsSound ==
    ASSUME acks \in [SendAckMsg -> 0..MaxInFlight], NEW m \in SendAckMsg, Post(m),
           m.ok => m.id \in Exported, AckMeansExported, UNCHANGED exported
    PROVE  AckMeansExported'
<1> SUFFICES ASSUME NEW n \in SendAckMsg, acks'[n] > 0, n.ok PROVE n.id \in Exported'
  BY DEF AckMeansExported
<1>1. Exported' = Exported
  BY DEF Exported
<1>2. CASE n = m
  BY <1>1, <1>2
<1>3. CASE n # m
  BY <1>1, <1>3 DEF Post, AckMeansExported
<1>4. QED
  BY <1>2, <1>3

\* A step that only moves tasks short of their export keeps every promise.
LEMMA QuietStep ==
    ASSUME ExportInv, UNCHANGED <<disk, acks, exported>>,
           \A q \in Proc :
              \/ pc'[q] \notin PastExport
              \/ pc'[q] = pc[q] /\ tid'[q] = tid[q] /\ hash'[q] = hash[q]
    PROVE  ExportInv'
<1>1. TasksExported'
  BY TasksFrame DEF ExportInv
<1>2. CompleteMeansExported'
  BY DEF ExportInv, CompleteMeansExported, AlreadyComplete
<1>3. AckMeansExported'
  BY DEF ExportInv, AckMeansExported, Exported
<1>4. QED
  BY <1>1, <1>2, <1>3 DEF ExportInv

\* One step of the receiver keeps those promises.
LEMMA ExportInvInductive == TypeInv /\ ExportInv /\ [Next]_vars => ExportInv'
<1> SUFFICES ASSUME TypeInv, ExportInv, [Next]_vars PROVE ExportInv'
  OBVIOUS
<1> USE ConstantsAssumption DEF TypeInv, TypeOK, TaskOK, ExportInv, TasksExported,
        CompleteMeansExported, AckMeansExported, AlreadyComplete, Exported, daemonVars, lockVars,
        taskVars, HandlerPC, ResumerPC, Resting, HandlerLocked, ResumerLocked, RunReceive,
        PC, Proc, Resumer, Goto, ReceiveTransferState, ReceiveStage
<1>1. CASE UNCHANGED vars
  BY <1>1 DEF vars
<1>2. ASSUME NEW p \in Proc, TaskStep(p)
     PROVE  ExportInv'
  <2>1. CASE CloneLock(p)
    <3>1. UNCHANGED <<disk, acks, exported>>
      BY <2>1 DEF CloneLock
    <3>2. \A q \in Proc :
             \/ pc'[q] \notin PastExport
             \/ pc'[q] = pc[q] /\ tid'[q] = tid[q] /\ hash'[q] = hash[q]
      BY <2>1 DEF CloneLock, PastExport
    <3>3. QED
      BY <3>1, <3>2, QuietStep
  <2>2. CASE AcquireLock(p)
    <3>1. UNCHANGED <<disk, acks, exported>>
      BY <2>2 DEF AcquireLock
    <3>2. \A q \in Proc :
             \/ pc'[q] \notin PastExport
             \/ pc'[q] = pc[q] /\ tid'[q] = tid[q] /\ hash'[q] = hash[q]
      BY <2>2 DEF AcquireLock, PastExport
    <3>3. QED
      BY <3>1, <3>2, QuietStep
  <2>3. CASE BeginDownload(p)
    <3>1. AckMeansExported'
      BY <2>3 DEF BeginDownload
    <3>2. CompleteMeansExported'
      BY <2>3 DEF BeginDownload, Save
    <3>3. TasksExported'
      BY <2>3 DEF BeginDownload
    <3>4. QED
      BY <3>1, <3>2, <3>3
  <2>4. CASE FinishDownload(p)
    <3>1. AckMeansExported'
      BY <2>4 DEF FinishDownload
    <3>2. CompleteMeansExported'
      BY <2>4 DEF FinishDownload, Save
    <3>3. TasksExported'
      BY <2>4 DEF FinishDownload
    <3>4. QED
      BY <3>1, <3>2, <3>3
  <2>5. CASE FinishExport(p)
    <3>1. AckMeansExported'
      BY <2>5 DEF FinishExport
    <3>2. CompleteMeansExported'
      BY <2>5 DEF FinishExport
    <3>3. TasksExported'
      BY <2>5 DEF FinishExport
    <3>4. QED
      BY <3>1, <3>2, <3>3
  <2>6. CASE SaveComplete(p)
    <3>1. AckMeansExported'
      BY <2>6 DEF SaveComplete
    <3>2. CompleteMeansExported'
      BY <2>6 DEF SaveComplete, Save
    <3>3. TasksExported'
      BY <2>6 DEF SaveComplete
    <3>4. QED
      BY <3>1, <3>2, <3>3
  <2>7. CASE RunFails(p)
    BY <2>7 DEF RunFails, OnError
  <2>8. CASE SendAck(p)
    <3>1. AckMeansExported'
      BY <2>8, PostKeepsSound DEF SendAck, SendAckMsg
    <3>2. CompleteMeansExported'
      BY <2>8 DEF SendAck
    <3>3. TasksExported'
      BY <2>8 DEF SendAck
    <3>4. QED
      BY <3>1, <3>2, <3>3
  <2>9. CASE AckFails(p)
    <3>1. AckMeansExported'
      BY <2>9 DEF AckFails
    <3>2. CompleteMeansExported'
      BY <2>9 DEF AckFails
    <3>3. TasksExported'
      <4>1. ASSUME NEW q \in Proc, q # p
            PROVE  pc'[q] = pc[q] /\ tid'[q] = tid[q] /\ hash'[q] = hash[q]
        BY <2>9, <4>1 DEF AckFails, Done
      <4>2. \/ pc'[p] \in {"release", "pass"}
            \/ pc[p] = "unlock" /\ pc'[p] = "ack" /\ UNCHANGED <<tid, hash>>
        BY <2>9 DEF AckFails, Done
      <4>3. UNCHANGED exported
        BY <2>9 DEF AckFails
      <4>4. QED
        BY <4>1, <4>2, <4>3, TasksFrame DEF PastExport
    <3>4. QED
      BY <3>1, <3>2, <3>3
  <2>10. CASE RemoveState(p)
    <3>1. AckMeansExported'
      BY <2>10 DEF RemoveState
    <3>2. CompleteMeansExported'
      BY <2>10 DEF RemoveState
    <3>3. TasksExported'
      <4>1. ASSUME NEW q \in Proc, q # p
            PROVE  pc'[q] = pc[q] /\ tid'[q] = tid[q] /\ hash'[q] = hash[q]
        BY <2>10, <4>1 DEF RemoveState, Done
      <4>2. \/ pc'[p] \in {"release", "pass"}
            \/ pc[p] = "unlock" /\ pc'[p] = "ack" /\ UNCHANGED <<tid, hash>>
        BY <2>10 DEF RemoveState, Done
      <4>3. UNCHANGED exported
        BY <2>10 DEF RemoveState
      <4>4. QED
        BY <4>1, <4>2, <4>3, TasksFrame DEF PastExport
    <3>4. QED
      BY <3>1, <3>2, <3>3
  <2>11. QED
    BY <1>2, <2>1, <2>2, <2>3, <2>4, <2>5, <2>6, <2>7, <2>8, <2>9, <2>10 DEF TaskStep
<1>3. ASSUME NEW p \in Handler, HandlerStep(p)
     PROVE  ExportInv'
  <2>1. CASE RejectVersion(p)
    <3>1. UNCHANGED <<disk, acks, exported>>
      BY <2>1 DEF RejectVersion
    <3>2. \A q \in Proc :
             \/ pc'[q] \notin PastExport
             \/ pc'[q] = pc[q] /\ tid'[q] = tid[q] /\ hash'[q] = hash[q]
      BY <2>1 DEF RejectVersion, PastExport
    <3>3. QED
      BY <3>1, <3>2, QuietStep
  <2>2. CASE LoadState(p)
    <3>1. AckMeansExported'
      BY <2>2 DEF LoadState
    <3>2. CompleteMeansExported'
      BY <2>2 DEF LoadState
    <3>3. TasksExported'
      BY <2>2 DEF LoadState, AlreadyComplete
    <3>4. QED
      BY <3>1, <3>2, <3>3
  <2>3. CASE LoadFailed(p)
    <3>1. AckMeansExported'
      BY <2>3 DEF LoadFailed
    <3>2. CompleteMeansExported'
      BY <2>3 DEF LoadFailed
    <3>3. TasksExported'
      <4>1. \A q \in Proc \ {p} : pc'[q] = pc[q] /\ tid'[q] = tid[q] /\ hash'[q] = hash[q]
        BY <2>3 DEF LoadFailed
      <4>2. pc'[p] \in {"markFailed", "nack"}
        BY <2>3 DEF LoadFailed
      <4>3. UNCHANGED exported
        BY <2>3 DEF LoadFailed
      <4>4. QED
        BY <4>1, <4>2, <4>3, TasksFrame DEF PastExport
    <3>4. QED
      BY <3>1, <3>2, <3>3
  <2>4. CASE MarkFailed(p)
    <3>1. AckMeansExported'
      BY <2>4 DEF MarkFailed
    <3>2. CompleteMeansExported'
      BY <2>4 DEF MarkFailed, Save
    <3>3. TasksExported'
      BY <2>4 DEF MarkFailed
    <3>4. QED
      BY <3>1, <3>2, <3>3
  <2>5. CASE SendNack(p)
    <3>1. AckMeansExported'
      BY <2>5, PostKeepsSound DEF SendNack, SendAckMsg
    <3>2. CompleteMeansExported'
      BY <2>5 DEF SendNack
    <3>3. TasksExported'
      BY <2>5 DEF SendNack
    <3>4. QED
      BY <3>1, <3>2, <3>3
  <2>6. CASE ReleaseLock(p)
    BY <2>6 DEF ReleaseLock
  <2>7. CASE RemoveLock(p)
    BY <2>7 DEF RemoveLock
  <2>8. QED
    BY <1>3, <2>1, <2>2, <2>3, <2>4, <2>5, <2>6, <2>7 DEF HandlerStep
<1>4. ASSUME NEW r \in Resumer, ResumerStep(r)
     PROVE  ExportInv'
  <2>1. CASE ListIncomplete(r)
    <3>1. UNCHANGED <<disk, acks, exported>>
      BY <2>1 DEF ListIncomplete
    <3>2. \A q \in Proc :
             \/ pc'[q] \notin PastExport
             \/ pc'[q] = pc[q] /\ tid'[q] = tid[q] /\ hash'[q] = hash[q]
      BY <2>1 DEF ListIncomplete, PastExport
    <3>3. QED
      BY <3>1, <3>2, QuietStep
  <2>2. CASE CheckPeers(r)
    <3>1. UNCHANGED <<disk, acks, exported>>
      BY <2>2 DEF CheckPeers
    <3>2. \A q \in Proc :
             \/ pc'[q] \notin PastExport
             \/ pc'[q] = pc[q] /\ tid'[q] = tid[q] /\ hash'[q] = hash[q]
      BY <2>2 DEF CheckPeers, PastExport
    <3>3. QED
      BY <3>1, <3>2, QuietStep
  <2>3. CASE ResumeNext(r)
    <3>1. UNCHANGED <<disk, acks, exported>>
      BY <2>3 DEF ResumeNext
    <3>2. \A q \in Proc :
             \/ pc'[q] \notin PastExport
             \/ pc'[q] = pc[q] /\ tid'[q] = tid[q] /\ hash'[q] = hash[q]
      BY <2>3 DEF ResumeNext, PastExport
    <3>3. QED
      BY <3>1, <3>2, QuietStep
  <2>4. CASE ResumeUnlock(r)
    <3>1. AckMeansExported'
      BY <2>4 DEF ResumeUnlock
    <3>2. CompleteMeansExported'
      BY <2>4 DEF ResumeUnlock
    <3>3. TasksExported'
      <4>1. ASSUME NEW q \in Proc, q # r
            PROVE  pc'[q] = pc[q] /\ tid'[q] = tid[q] /\ hash'[q] = hash[q]
        BY <2>4, <4>1 DEF ResumeUnlock, Done
      <4>2. \/ pc'[r] \in {"release", "pass"}
            \/ pc[r] = "unlock" /\ pc'[r] = "ack" /\ UNCHANGED <<tid, hash>>
        BY <2>4 DEF ResumeUnlock, Done
      <4>3. UNCHANGED exported
        BY <2>4 DEF ResumeUnlock
      <4>4. QED
        BY <4>1, <4>2, <4>3, TasksFrame DEF PastExport
    <3>4. QED
      BY <3>1, <3>2, <3>3
  <2>5. CASE EndPass(r)
    <3>1. UNCHANGED <<disk, acks, exported>>
      BY <2>5 DEF EndPass
    <3>2. \A q \in Proc :
             \/ pc'[q] \notin PastExport
             \/ pc'[q] = pc[q] /\ tid'[q] = tid[q] /\ hash'[q] = hash[q]
      BY <2>5 DEF EndPass, PastExport
    <3>3. QED
      BY <3>1, <3>2, QuietStep
  <2>6. QED
    BY <1>4, <2>1, <2>2, <2>3, <2>4, <2>5 DEF ResumerStep
<1>5. ASSUME NEW s \in Startup, NEW w \in Watcher, FeatureStart(s, w)
     PROVE  ExportInv'
  <2>1. UNCHANGED <<disk, acks, exported>>
    BY <1>5 DEF FeatureStart
  <2>2. \A q \in Proc :
           \/ pc'[q] \notin PastExport
           \/ pc'[q] = pc[q] /\ tid'[q] = tid[q] /\ hash'[q] = hash[q]
    BY <1>5 DEF FeatureStart, PastExport
  <2>3. QED
    BY <2>1, <2>2, QuietStep
<1>6. ASSUME FeatureStop
     PROVE  ExportInv'
  BY <1>6 DEF FeatureStop
<1>7. ASSUME Crash
     PROVE  ExportInv'
  BY <1>7 DEF Crash
<1>8. ASSUME NEW b \in BOOLEAN, SetConnected(b)
     PROVE  ExportInv'
  BY <1>8 DEF SetConnected
<1>9. ASSUME NEW w \in Watcher, WatcherTick(w)
     PROVE  ExportInv'
  <2>1. UNCHANGED <<disk, acks, exported>>
    BY <1>9 DEF WatcherTick
  <2>2. \A q \in Proc :
           \/ pc'[q] \notin PastExport
           \/ pc'[q] = pc[q] /\ tid'[q] = tid[q] /\ hash'[q] = hash[q]
    BY <1>9 DEF WatcherTick, PastExport
  <2>3. QED
    BY <2>1, <2>2, QuietStep
<1>10. ASSUME CancelList
     PROVE  ExportInv'
  <2>1. UNCHANGED <<disk, acks, exported>>
    BY <1>10 DEF CancelList
  <2>2. \A q \in Proc :
           \/ pc'[q] \notin PastExport
           \/ pc'[q] = pc[q] /\ tid'[q] = tid[q] /\ hash'[q] = hash[q]
    BY <1>10 DEF CancelList, PastExport
  <2>3. QED
    BY <2>1, <2>2, QuietStep
<1>11. ASSUME NEW x \in Transfer, CancelRemove(x)
     PROVE  ExportInv'
  <2>1. CompleteMeansExported'
    BY <1>11 DEF CancelRemove
  <2>2. AckMeansExported' /\ TasksExported'
    BY <1>11 DEF CancelRemove
  <2>3. QED
    BY <2>1, <2>2
<1>12. ASSUME CancelFails
     PROVE  ExportInv'
  BY <1>12 DEF CancelFails
<1>13. ASSUME NEW p \in Handler, NEW x \in Transfer, NEW h \in Hash, ReceivePayload(p, x, h)
     PROVE  ExportInv'
  <2>1. UNCHANGED <<disk, acks, exported>>
    BY <1>13 DEF ReceivePayload
  <2>2. \A q \in Proc :
           \/ pc'[q] \notin PastExport
           \/ pc'[q] = pc[q] /\ tid'[q] = tid[q] /\ hash'[q] = hash[q]
    BY <1>13 DEF ReceivePayload, PastExport
  <2>3. QED
    BY <2>1, <2>2, QuietStep
<1>14. ASSUME NEW m \in SendAckMsg, AckLeaves(m)
     PROVE  ExportInv'
  <2>1. UNCHANGED <<disk, exported, pc, tid, hash>>
    BY <1>14 DEF AckLeaves
  <2>2. AckMeansExported'
    <3>1. \A n \in SendAckMsg : acks'[n] > 0 => acks[n] > 0
      BY <1>14 DEF AckLeaves
    <3>2. QED
      BY <2>1, <3>1
  <2>3. CompleteMeansExported' /\ TasksExported'
    BY <2>1
  <2>4. QED
    BY <2>2, <2>3
<1>15. QED
  BY <1>1, <1>2, <1>3, <1>4, <1>5, <1>6, <1>7, <1>8, <1>9, <1>10, <1>11, <1>12, <1>13, <1>14 DEF Next, Internal, DaemonStep, CancelStep

\* Every step keeps the conjunction of the invariants.
LEMMA InvariantInductive ==
    TypeInv /\ ExportInv /\ [Next]_vars => TypeInv' /\ ExportInv'
BY TypeInvInductive, ExportInvInductive

\* No receive has begun in an initial state.
LEMMA InitExportInv == Init => ExportInv
BY ConstantsAssumption DEF Init, ExportInv, TasksExported, CompleteMeansExported, AckMeansExported,
   AlreadyComplete

\* A positive acknowledgement in flight is about an exported transfer.
THEOREM AckSound == Spec => []AckMeansExported
<1>1. ExportInv => AckMeansExported
  BY DEF ExportInv
<1>2. QED
  BY <1>1, InitTypeInv, InitExportInv, InvariantInductive, PTL DEF Spec

\* A state file that says Complete is about an exported collection.
THEOREM CompleteSound == Spec => []CompleteMeansExported
<1>1. ExportInv => CompleteMeansExported
  BY DEF ExportInv
<1>2. QED
  BY <1>1, InitTypeInv, InitExportInv, InvariantInductive, PTL DEF Spec

\* What a step that removes a state file may remove.
Forgets ==
    \A x \in Transfer : disk[x] # None /\ disk'[x] = None => x \in Exported \cup cancelTodo

\* A written state is not an absent one.
LEMMA SavedIsSome ==
    ASSUME NEW st \in ReceiveStage, NEW h \in Hash
    PROVE  [stage |-> st, hash |-> h] # None
BY ConstantsAssumption DEF ReceiveStage

\* One step of the receiver removes only those.
LEMMA ForgetsStep == TypeInv /\ ExportInv /\ [Next]_vars => Forgets
<1> SUFFICES ASSUME TypeInv, ExportInv, [Next]_vars PROVE Forgets
  OBVIOUS
<1> USE SavedIsSome DEF Forgets, TypeInv, TypeOK, TaskOK, ExportInv, TasksExported,
        daemonVars, lockVars, taskVars, HandlerPC, ResumerPC, Resting, HandlerLocked,
        ResumerLocked, RunReceive, PC, Proc, Resumer, ReceiveStage
<1>1. CASE UNCHANGED vars
  BY <1>1 DEF vars
<1>2. ASSUME NEW p \in Proc, TaskStep(p)
     PROVE  Forgets
  <2>1. CASE CloneLock(p)
    BY <2>1 DEF CloneLock
  <2>2. CASE AcquireLock(p)
    BY <2>2 DEF AcquireLock
  <2>3. CASE BeginDownload(p)
    BY <2>3 DEF BeginDownload, Save
  <2>4. CASE FinishDownload(p)
    BY <2>4 DEF FinishDownload, Save
  <2>5. CASE FinishExport(p)
    BY <2>5 DEF FinishExport
  <2>6. CASE SaveComplete(p)
    BY <2>6 DEF SaveComplete, Save
  <2>7. CASE RunFails(p)
    BY <2>7 DEF RunFails
  <2>8. CASE SendAck(p)
    BY <2>8 DEF SendAck
  <2>9. CASE AckFails(p)
    BY <2>9 DEF AckFails
  <2>10. CASE RemoveState(p)
    BY <2>10 DEF RemoveState
  <2>11. QED
    BY <1>2, <2>1, <2>2, <2>3, <2>4, <2>5, <2>6, <2>7, <2>8, <2>9, <2>10 DEF TaskStep
<1>3. ASSUME NEW p \in Handler, HandlerStep(p)
     PROVE  Forgets
  <2>1. CASE RejectVersion(p)
    BY <2>1 DEF RejectVersion
  <2>2. CASE LoadState(p)
    BY <2>2 DEF LoadState
  <2>3. CASE LoadFailed(p)
    BY <2>3 DEF LoadFailed
  <2>4. CASE MarkFailed(p)
    BY <2>4 DEF MarkFailed, Save
  <2>5. CASE SendNack(p)
    BY <2>5 DEF SendNack
  <2>6. CASE ReleaseLock(p)
    BY <2>6 DEF ReleaseLock
  <2>7. CASE RemoveLock(p)
    BY <2>7 DEF RemoveLock
  <2>8. QED
    BY <1>3, <2>1, <2>2, <2>3, <2>4, <2>5, <2>6, <2>7 DEF HandlerStep
<1>4. ASSUME NEW r \in Resumer, ResumerStep(r)
     PROVE  Forgets
  <2>1. CASE ListIncomplete(r)
    BY <2>1 DEF ListIncomplete
  <2>2. CASE CheckPeers(r)
    BY <2>2 DEF CheckPeers
  <2>3. CASE ResumeNext(r)
    BY <2>3 DEF ResumeNext
  <2>4. CASE ResumeUnlock(r)
    BY <2>4 DEF ResumeUnlock
  <2>5. CASE EndPass(r)
    BY <2>5 DEF EndPass
  <2>6. QED
    BY <1>4, <2>1, <2>2, <2>3, <2>4, <2>5 DEF ResumerStep
<1>5. ASSUME NEW s \in Startup, NEW w \in Watcher, FeatureStart(s, w)
     PROVE  Forgets
  BY <1>5 DEF FeatureStart
<1>6. ASSUME FeatureStop
     PROVE  Forgets
  BY <1>6 DEF FeatureStop
<1>7. ASSUME Crash
     PROVE  Forgets
  BY <1>7 DEF Crash
<1>8. ASSUME NEW b \in BOOLEAN, SetConnected(b)
     PROVE  Forgets
  BY <1>8 DEF SetConnected
<1>9. ASSUME NEW w \in Watcher, WatcherTick(w)
     PROVE  Forgets
  BY <1>9 DEF WatcherTick
<1>10. ASSUME CancelList
     PROVE  Forgets
  BY <1>10 DEF CancelList
<1>11. ASSUME NEW x \in Transfer, CancelRemove(x)
     PROVE  Forgets
  BY <1>11 DEF CancelRemove
<1>12. ASSUME CancelFails
     PROVE  Forgets
  BY <1>12 DEF CancelFails
<1>13. ASSUME NEW p \in Handler, NEW x \in Transfer, NEW h \in Hash, ReceivePayload(p, x, h)
     PROVE  Forgets
  BY <1>13 DEF ReceivePayload
<1>14. ASSUME NEW m \in SendAckMsg, AckLeaves(m)
     PROVE  Forgets
  BY <1>14 DEF AckLeaves
<1>15. QED
  BY <1>1, <1>2, <1>3, <1>4, <1>5, <1>6, <1>7, <1>8, <1>9, <1>10, <1>11, <1>12, <1>13, <1>14 DEF Next, Internal, DaemonStep, CancelStep

\* No failure, crash or interleaving removes the state of a receive that is neither
\* exported nor cancelled.
THEOREM ForgetsOnlyDone == Spec => ForgottenOnlyWhenDone
<1>1. TypeInv /\ ExportInv /\ [Next]_vars => [Forgets]_vars
  BY ForgetsStep
<1>2. Spec => [](TypeInv /\ ExportInv)
  BY InitTypeInv, InitExportInv, InvariantInductive, PTL DEF Spec
<1>3. QED
  BY <1>1, <1>2, PTL DEF Spec, ForgottenOnlyWhenDone, Forgets

\* What a step may do to the receive directory: write one collection, and remove none.
Exports ==
    UNCHANGED exported \/ \E x \in Transfer, h \in Hash : exported' = exported \cup {<<x, h>>}

\* One step of the receiver does no more.
LEMMA ExportsStep == TypeInv /\ [Next]_vars => Exports
<1> SUFFICES ASSUME TypeInv, [Next]_vars PROVE Exports
  OBVIOUS
<1> USE DEF Exports, TypeInv, TaskOK, Resting, taskVars
<1>1. CASE UNCHANGED vars
  BY <1>1 DEF vars
<1>2. ASSUME NEW p \in Proc, TaskStep(p)
     PROVE  Exports
  <2>1. CASE CloneLock(p)
    BY <2>1 DEF CloneLock
  <2>2. CASE AcquireLock(p)
    BY <2>2 DEF AcquireLock
  <2>3. CASE BeginDownload(p)
    BY <2>3 DEF BeginDownload
  <2>4. CASE FinishDownload(p)
    BY <2>4 DEF FinishDownload
  <2>5. CASE FinishExport(p)
    BY <2>5 DEF FinishExport
  <2>6. CASE SaveComplete(p)
    BY <2>6 DEF SaveComplete
  <2>7. CASE RunFails(p)
    BY <2>7 DEF RunFails
  <2>8. CASE SendAck(p)
    BY <2>8 DEF SendAck
  <2>9. CASE AckFails(p)
    BY <2>9 DEF AckFails
  <2>10. CASE RemoveState(p)
    BY <2>10 DEF RemoveState
  <2>11. QED
    BY <1>2, <2>1, <2>2, <2>3, <2>4, <2>5, <2>6, <2>7, <2>8, <2>9, <2>10 DEF TaskStep
<1>3. ASSUME NEW p \in Handler, HandlerStep(p)
     PROVE  Exports
  <2>1. CASE RejectVersion(p)
    BY <2>1 DEF RejectVersion
  <2>2. CASE LoadState(p)
    BY <2>2 DEF LoadState
  <2>3. CASE LoadFailed(p)
    BY <2>3 DEF LoadFailed
  <2>4. CASE MarkFailed(p)
    BY <2>4 DEF MarkFailed
  <2>5. CASE SendNack(p)
    BY <2>5 DEF SendNack
  <2>6. CASE ReleaseLock(p)
    BY <2>6 DEF ReleaseLock
  <2>7. CASE RemoveLock(p)
    BY <2>7 DEF RemoveLock
  <2>8. QED
    BY <1>3, <2>1, <2>2, <2>3, <2>4, <2>5, <2>6, <2>7 DEF HandlerStep
<1>4. ASSUME NEW r \in Resumer, ResumerStep(r)
     PROVE  Exports
  <2>1. CASE ListIncomplete(r)
    BY <2>1 DEF ListIncomplete
  <2>2. CASE CheckPeers(r)
    BY <2>2 DEF CheckPeers
  <2>3. CASE ResumeNext(r)
    BY <2>3 DEF ResumeNext
  <2>4. CASE ResumeUnlock(r)
    BY <2>4 DEF ResumeUnlock
  <2>5. CASE EndPass(r)
    BY <2>5 DEF EndPass
  <2>6. QED
    BY <1>4, <2>1, <2>2, <2>3, <2>4, <2>5 DEF ResumerStep
<1>5. ASSUME NEW s \in Startup, NEW w \in Watcher, FeatureStart(s, w)
     PROVE  Exports
  BY <1>5 DEF FeatureStart
<1>6. ASSUME FeatureStop
     PROVE  Exports
  BY <1>6 DEF FeatureStop
<1>7. ASSUME Crash
     PROVE  Exports
  BY <1>7 DEF Crash
<1>8. ASSUME NEW b \in BOOLEAN, SetConnected(b)
     PROVE  Exports
  BY <1>8 DEF SetConnected
<1>9. ASSUME NEW w \in Watcher, WatcherTick(w)
     PROVE  Exports
  BY <1>9 DEF WatcherTick
<1>10. ASSUME CancelList
     PROVE  Exports
  BY <1>10 DEF CancelList
<1>11. ASSUME NEW x \in Transfer, CancelRemove(x)
     PROVE  Exports
  BY <1>11 DEF CancelRemove
<1>12. ASSUME CancelFails
     PROVE  Exports
  BY <1>12 DEF CancelFails
<1>13. ASSUME NEW p \in Handler, NEW x \in Transfer, NEW h \in Hash, ReceivePayload(p, x, h)
     PROVE  Exports
  BY <1>13 DEF ReceivePayload
<1>14. ASSUME NEW m \in SendAckMsg, AckLeaves(m)
     PROVE  Exports
  BY <1>14 DEF AckLeaves
<1>15. QED
  BY <1>1, <1>2, <1>3, <1>4, <1>5, <1>6, <1>7, <1>8, <1>9, <1>10, <1>11, <1>12, <1>13, <1>14 DEF Next, Internal, DaemonStep, CancelStep
============================================================================
