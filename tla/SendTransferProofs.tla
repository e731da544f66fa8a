------------------------- MODULE SendTransferProofs -------------------------
(***************************************************************************)
(* TLAPS proofs about SendTransfer, for any sets of transfers, hashes and   *)
(* attempts.                                                                *)
(***************************************************************************)
EXTENDS SendTransfer, TLAPS

\* A state that is ready to send carries a hash.
HashOK(s) == s # None /\ s.stage \in {"ReadyToSend", "WaitingAck"} => s.hash # None

\* An attempt that runs has a transfer, and a state once it is loaded; states on disk
\* and in memory that are ready to send carry a hash.
AttemptOK ==
    /\ \A a \in Attempt : pc[a] # "idle" => tid[a] \in Transfer
    /\ \A a \in Attempt : pc[a] \in Loaded => state[a] \in SendTransferState
    /\ \A a \in Attempt : pc[a] \in {"ready", "send", "wait"} => state[a].hash \in Hash
    /\ \A a \in Attempt : HashOK(state[a])
    /\ \A x \in Transfer : HashOK(disk[x])

\* TypeOK is inductive together with AttemptOK.
TypeInv == TypeOK /\ AttemptOK

\* Posting a manifest keeps the bound on equal ones.
LEMMA PostKeepsBound ==
    ASSUME payloads \in [SendPayload -> 0..MaxInFlight], NEW m \in SendPayload, Post(m)
    PROVE  payloads' \in [SendPayload -> 0..MaxInFlight]
<1>1. (IF payloads[m] < MaxInFlight THEN payloads[m] + 1 ELSE payloads[m]) \in 0..MaxInFlight
  BY SendConstants
<1>2. QED
  BY <1>1 DEF Post

\* Writing a final state keeps what an attempt knows of transfers and hashes.
LEMMA SaveKeeps ==
    ASSUME TypeInv, NEW a \in Attempt, tid[a] \in Transfer, NEW st \in {"Complete", "Failed"},
           NEW h \in Hash \cup {None}, NEW l \in {"removeComplete", "report"},
           Save(a, st, h), Goto(a, l), UNCHANGED tid
    PROVE  AttemptOK'
<1> USE SendConstants DEF TypeInv, TypeOK, AttemptOK, Save, Goto, Loaded
<1>1. pc'[a] = l /\ \A b \in Attempt \ {a} : pc'[b] = pc[b]
  OBVIOUS
<1>2. /\ state'[a] = [stage |-> st, hash |-> h]
      /\ \A b \in Attempt \ {a} : state'[b] = state[b]
  OBVIOUS
<1>3. [stage |-> st, hash |-> h] \in SendTransferState /\ HashOK([stage |-> st, hash |-> h])
  BY DEF SendTransferState, SendStage, HashOK
<1>4. \A x \in Transfer : disk'[x] = disk[x] \/ disk'[x] = [stage |-> st, hash |-> h]
  OBVIOUS
<1>5. \A x \in Transfer : HashOK(disk'[x])
  BY <1>3, <1>4
<1>6. \A b \in Attempt : HashOK(state'[b])
  BY <1>2, <1>3
<1>7. \A b \in Attempt : pc'[b] \in Loaded => state'[b] \in SendTransferState
  BY <1>1, <1>2, <1>3
<1>8. \A b \in Attempt : pc'[b] \in {"ready", "send", "wait"} => state'[b].hash \in Hash
  BY <1>1, <1>2
<1>9. \A b \in Attempt : pc'[b] # "idle" => tid'[b] \in Transfer
  BY <1>1
<1>10. QED
  BY <1>5, <1>6, <1>7, <1>8, <1>9 DEF HashOK

\* One step of the sender keeps types, states and hashes.
LEMMA TypeInvInductive == TypeInv /\ [Next]_vars => TypeInv'
<1> SUFFICES ASSUME TypeInv, [Next]_vars PROVE TypeInv'
  OBVIOUS
<1> USE SendConstants DEF TypeInv, TypeOK, AttemptOK, HashOK, Loaded, attemptVars, cancelVars,
        Body, PC, Goto, SendTransferState, SendStage
<1>1. CASE UNCHANGED vars
  BY <1>1 DEF vars
<1>2. ASSUME NEW a \in Attempt, AttemptStep(a)
     PROVE  TypeInv'
  <2>1. CASE LoadOrInit(a)
    BY <2>1 DEF LoadOrInit
  <2>2. CASE SaveInitial(a)
    BY <2>2 DEF SaveInitial, Save
  <2>3. CASE NeedsImport(a)
    BY <2>3 DEF NeedsImport, Save
  <2>4. CASE AlreadyImported(a)
    BY <2>4 DEF AlreadyImported
  <2>5. ASSUME NEW h \in Hash, Import(a, h)
       PROVE  TypeInv'
    BY <2>5 DEF Import, Save
  <2>6. CASE SaveWaitingAck(a)
    BY <2>6 DEF SaveWaitingAck, Save
  <2>7. CASE SendManifest(a)
    <3>1. [id |-> tid[a], hash |-> state[a].hash] \in SendPayload
      BY <2>7 DEF SendManifest, SendPayload
    <3>2. payloads' \in [SendPayload -> 0..MaxInFlight]
      BY <2>7, <3>1, PostKeepsBound DEF SendManifest
    <3>3. QED
      BY <2>7, <3>2 DEF SendManifest
  <2>8. CASE BodyFails(a)
    BY <2>8 DEF BodyFails, Finish
  <2>9. CASE AckTimeout(a)
    BY <2>9 DEF AckTimeout, Finish
  <2>10. CASE AckArrives(a)
    BY <2>10 DEF AckArrives, Finish
  <2>11. CASE LoadFinal(a)
    BY <2>11 DEF LoadFinal
  <2>12. CASE FinalFails(a)
    BY <2>12 DEF FinalFails
  <2>13. CASE SaveFinal(a)
    <3>1. CASE pc[a] = "saveComplete"
      <4>1. TypeOK'
        BY <2>13, <3>1 DEF SaveFinal, Save
      <4>2. Save(a, "Complete", state[a].hash) /\ Goto(a, "removeComplete") /\ UNCHANGED tid
        BY <2>13, <3>1 DEF SaveFinal
      <4>3. tid[a] \in Transfer /\ state[a].hash \in Hash \cup {None}
        BY <3>1
      <4>4. AttemptOK'
        BY <4>2, <4>3, SaveKeeps
      <4>5. QED
        BY <4>1, <4>4
    <3>2. CASE pc[a] = "saveFailed"
      <4>1. TypeOK'
        BY <2>13, <3>2 DEF SaveFinal, Save
      <4>2. Save(a, "Failed", state[a].hash) /\ Goto(a, "report") /\ UNCHANGED tid
        BY <2>13, <3>2 DEF SaveFinal
      <4>3. tid[a] \in Transfer /\ state[a].hash \in Hash \cup {None}
        BY <3>2
      <4>4. AttemptOK'
        BY <4>2, <4>3, SaveKeeps
      <4>5. QED
        BY <4>1, <4>4
    <3>3. QED
      BY <2>13, <3>1, <3>2 DEF SaveFinal
  <2>14. CASE RemoveComplete(a)
    BY <2>14 DEF RemoveComplete
  <2>15. CASE Report(a)
    BY <2>15 DEF Report
  <2>16. QED
    BY <1>2, <2>1, <2>2, <2>3, <2>4, <2>5, <2>6, <2>7, <2>8, <2>9, <2>10, <2>11, <2>12, <2>13, <2>14, <2>15
       DEF AttemptStep
<1>3. ASSUME NEW a \in Attempt, NEW x \in Transfer, NEW again \in BOOLEAN, StartAttempt(a, x, again)
     PROVE  TypeInv'
  BY <1>3 DEF StartAttempt, Register
<1>4. ASSUME CancelList
     PROVE  TypeInv'
  BY <1>4 DEF CancelList
<1>5. ASSUME NEW x \in Transfer, CancelWaiter(x)
     PROVE  TypeInv'
  BY <1>5 DEF CancelWaiter, CompleteWaiter
<1>6. ASSUME CancelRemove
     PROVE  TypeInv'
  BY <1>6 DEF CancelRemove
<1>7. ASSUME CancelFails
     PROVE  TypeInv'
  BY <1>7 DEF CancelFails
<1>8. ASSUME CancelNext
     PROVE  TypeInv'
  BY <1>8 DEF CancelNext
<1>9. ASSUME NEW b \in BOOLEAN, SetConnected(b)
     PROVE  TypeInv'
  BY <1>9 DEF SetConnected
<1>10. ASSUME Crash
     PROVE  TypeInv'
  BY <1>10 DEF Crash
<1>11. ASSUME NEW x \in Transfer, NEW ok \in BOOLEAN, HandleAck(x, ok)
     PROVE  TypeInv'
  BY <1>11 DEF HandleAck, CompleteWaiter
<1>12. ASSUME NEW m \in SendPayload, PayloadLeaves(m)
     PROVE  TypeInv'
  BY <1>12 DEF PayloadLeaves
<1>13. QED
  BY <1>1, <1>2, <1>3, <1>4, <1>5, <1>6, <1>7, <1>8, <1>9, <1>10, <1>11, <1>12
     DEF Next, Internal, CancelStep

\* The base of the inductions below.
LEMMA InitTypeInv == Init => TypeInv
<1> SUFFICES ASSUME Init PROVE TypeInv
  OBVIOUS
<1>1. AttemptOK
  BY DEF Init, AttemptOK, HashOK, Loaded
<1>2. payloads \in [SendPayload -> 0..MaxInFlight]
  BY SendConstants DEF Init
<1>3. pc \in [Attempt -> PC]
  BY DEF Init, PC
<1>4. QED
  BY <1>1, <1>2, <1>3 DEF Init, TypeInv, TypeOK, Loaded

\* Every reachable state of the sender is well typed.
THEOREM TypeCorrect == Spec => []TypeOK
<1>1. TypeInv => TypeOK
  BY DEF TypeInv
<1>2. QED
  BY <1>1, InitTypeInv, TypeInvInductive, PTL DEF Spec

\* Nothing is sent without the hash of a finished import, for any number of attempts.
THEOREM HashBeforeSend == Spec => []ReadyHasHash
<1>1. TypeInv => ReadyHasHash
  BY SendConstants DEF TypeInv, AttemptOK, HashOK, ReadyHasHash
<1>2. QED
  BY <1>1, InitTypeInv, TypeInvInductive, PTL DEF Spec

\* One step of the sender keeps the coordinator's table and the waiting attempts in step.
LEMMA WaitersInductive ==
    TypeInv /\ WaitersAreRegistered /\ [Next]_vars => WaitersAreRegistered'
<1> SUFFICES ASSUME TypeInv, WaitersAreRegistered, [Next]_vars PROVE WaitersAreRegistered'
  OBVIOUS
<1> USE SendConstants DEF TypeInv, TypeOK, AttemptOK, WaitersAreRegistered, attemptVars,
        cancelVars, Body, PC, Goto
<1>1. CASE UNCHANGED vars
  BY <1>1 DEF vars
<1>2. ASSUME NEW a \in Attempt, AttemptStep(a)
     PROVE  WaitersAreRegistered'
  <2>1. CASE LoadOrInit(a)
    BY <2>1 DEF LoadOrInit
  <2>2. CASE SaveInitial(a)
    BY <2>2 DEF SaveInitial
  <2>3. CASE NeedsImport(a)
    BY <2>3 DEF NeedsImport
  <2>4. CASE AlreadyImported(a)
    BY <2>4 DEF AlreadyImported
  <2>5. ASSUME NEW h \in Hash, Import(a, h)
       PROVE  WaitersAreRegistered'
    BY <2>5 DEF Import
  <2>6. CASE SaveWaitingAck(a)
    BY <2>6 DEF SaveWaitingAck
  <2>7. CASE SendManifest(a)
    BY <2>7 DEF SendManifest
  <2>8. CASE BodyFails(a)
    BY <2>8 DEF BodyFails, Finish
  <2>9. CASE AckTimeout(a)
    BY <2>9 DEF AckTimeout, Finish
  <2>10. CASE AckArrives(a)
    BY <2>10 DEF AckArrives, Finish
  <2>11. CASE LoadFinal(a)
    BY <2>11 DEF LoadFinal
  <2>12. CASE FinalFails(a)
    BY <2>12 DEF FinalFails
  <2>13. CASE SaveFinal(a)
    BY <2>13 DEF SaveFinal
  <2>14. CASE RemoveComplete(a)
    BY <2>14 DEF RemoveComplete
  <2>15. CASE Report(a)
    BY <2>15 DEF Report
  <2>16. QED
    BY <1>2, <2>1, <2>2, <2>3, <2>4, <2>5, <2>6, <2>7, <2>8, <2>9, <2>10, <2>11, <2>12, <2>13, <2>14, <2>15
       DEF AttemptStep
<1>3. ASSUME NEW a \in Attempt, NEW x \in Transfer, NEW again \in BOOLEAN, StartAttempt(a, x, again)
     PROVE  WaitersAreRegistered'
  BY <1>3 DEF StartAttempt, Register
<1>4. ASSUME CancelList
     PROVE  WaitersAreRegistered'
  BY <1>4 DEF CancelList
<1>5. ASSUME NEW x \in Transfer, CancelWaiter(x)
     PROVE  WaitersAreRegistered'
  BY <1>5 DEF CancelWaiter, CompleteWaiter
<1>6. ASSUME CancelRemove
     PROVE  WaitersAreRegistered'
  BY <1>6 DEF CancelRemove
<1>7. ASSUME CancelFails
     PROVE  WaitersAreRegistered'
  BY <1>7 DEF CancelFails
<1>8. ASSUME CancelNext
     PROVE  WaitersAreRegistered'
  BY <1>8 DEF CancelNext
<1>9. ASSUME NEW b \in BOOLEAN, SetConnected(b)
     PROVE  WaitersAreRegistered'
  BY <1>9 DEF SetConnected
<1>10. ASSUME Crash
     PROVE  WaitersAreRegistered'
  BY <1>10 DEF Crash
<1>11. ASSUME NEW x \in Transfer, NEW ok \in BOOLEAN, HandleAck(x, ok)
     PROVE  WaitersAreRegistered'
  BY <1>11 DEF HandleAck, CompleteWaiter
<1>12. ASSUME NEW m \in SendPayload, PayloadLeaves(m)
     PROVE  WaitersAreRegistered'
  BY <1>12 DEF PayloadLeaves
<1>13. QED
  BY <1>1, <1>2, <1>3, <1>4, <1>5, <1>6, <1>7, <1>8, <1>9, <1>10, <1>11, <1>12
     DEF Next, Internal, CancelStep

\* For any number of attempts: the registered waiters are the attempts that wait.
THEOREM WaitersRegistered == Spec => []WaitersAreRegistered
<1>1. Init => WaitersAreRegistered
  BY SendConstants DEF Init, WaitersAreRegistered, Body
<1>2. QED
  BY <1>1, InitTypeInv, TypeInvInductive, WaitersInductive, PTL DEF Spec

----------------------------------------------------------------------------
(* Who says that a transfer succeeded, and on whose word.                   *)

\* A channel holds an outcome only while the body that reads it runs; a body has ended
\* once it has a result, and the file is completed and removed only for a success.
OutcomeOK ==
    /\ \A a \in Attempt : chan[a] = "ok" => pc[a] \in Body
    /\ \A a \in Attempt : result[a] = "ok" => pc[a] \notin Body \cup {"idle"}
    /\ \A a \in Attempt : pc[a] \in {"saveComplete", "removeComplete"} => result[a] = "ok"

\* What the sender's theorems rest on.
SendInv == TypeInv /\ WaitersAreRegistered /\ OutcomeOK

\* The attempts that claim a success: told of it, or ended with it.
Claims(a) == chan[a] = "ok" \/ result[a] = "ok"

\* The successes that a step may add: those that an attempt claims already, and those of
\* the transfers in D, which were acknowledged.
ClaimsFrom(D) ==
    \A a \in Attempt : Claims(a)' => \/ Claims(a) /\ tid'[a] = tid[a]
                                     \/ tid'[a] \in D

\* The transfers that the attempts claim.
Claimed == {x \in Transfer : \E a \in Attempt : Claims(a) /\ tid[a] = x}

\* What a step tells the user and what it removes was claimed before, or is cancelled.
ActsOnClaims ==
    /\ UNCHANGED completed \/ \E x \in Claimed : completed' = completed \cup {x}
    /\ \A x \in Transfer : disk[x] # None /\ disk'[x] = None => x \in Claimed \/ x = cancelNow

\* No attempt runs in an initial state.
LEMMA InitSendInv == Init => SendInv
<1>1. Init => WaitersAreRegistered
  BY SendConstants DEF Init, WaitersAreRegistered, Body
<1>2. Init => OutcomeOK
  BY SendConstants DEF Init, OutcomeOK
<1>3. QED
  BY <1>1, <1>2, InitTypeInv DEF SendInv

\* One step of the sender keeps results and labels in step.
LEMMA OutcomeInductive == SendInv /\ [Next]_vars => OutcomeOK'
<1> SUFFICES ASSUME SendInv, [Next]_vars PROVE OutcomeOK'
  OBVIOUS
<1> USE SendConstants DEF SendInv, OutcomeOK, TypeInv, TypeOK, AttemptOK, WaitersAreRegistered,
        attemptVars, cancelVars, Body, PC, Goto
<1>1. CASE UNCHANGED vars
  BY <1>1 DEF vars
<1>2. ASSUME NEW a \in Attempt, AttemptStep(a)
     PROVE  OutcomeOK'
  <2>1. CASE LoadOrInit(a)
    BY <2>1 DEF LoadOrInit
  <2>2. CASE SaveInitial(a)
    BY <2>2 DEF SaveInitial
  <2>3. CASE NeedsImport(a)
    BY <2>3 DEF NeedsImport
  <2>4. CASE AlreadyImported(a)
    BY <2>4 DEF AlreadyImported
  <2>5. ASSUME NEW h \in Hash, Import(a, h)
       PROVE  OutcomeOK'
    BY <2>5 DEF Import
  <2>6. CASE SaveWaitingAck(a)
    BY <2>6 DEF SaveWaitingAck
  <2>7. CASE SendManifest(a)
    BY <2>7 DEF SendManifest
  <2>8. CASE BodyFails(a)
    BY <2>8 DEF BodyFails, Finish
  <2>9. CASE AckTimeout(a)
    BY <2>9 DEF AckTimeout, Finish
  <2>10. CASE AckArrives(a)
    BY <2>10 DEF AckArrives, Finish
  <2>11. CASE LoadFinal(a)
    BY <2>11 DEF LoadFinal
  <2>12. CASE FinalFails(a)
    BY <2>12 DEF FinalFails
  <2>13. CASE SaveFinal(a)
    BY <2>13 DEF SaveFinal
  <2>14. CASE RemoveComplete(a)
    BY <2>14 DEF RemoveComplete
  <2>15. CASE Report(a)
    BY <2>15 DEF Report
  <2>16. QED
    BY <1>2, <2>1, <2>2, <2>3, <2>4, <2>5, <2>6, <2>7, <2>8, <2>9, <2>10, <2>11, <2>12, <2>13, <2>14, <2>15
       DEF AttemptStep
<1>3. ASSUME NEW a \in Attempt, NEW x \in Transfer, NEW again \in BOOLEAN, StartAttempt(a, x, again)
     PROVE  OutcomeOK'
  BY <1>3 DEF StartAttempt, Register
<1>4. ASSUME CancelList
     PROVE  OutcomeOK'
  BY <1>4 DEF CancelList
<1>5. ASSUME NEW x \in Transfer, CancelWaiter(x)
     PROVE  OutcomeOK'
  BY <1>5 DEF CancelWaiter, CompleteWaiter
<1>6. ASSUME CancelRemove
     PROVE  OutcomeOK'
  BY <1>6 DEF CancelRemove
<1>7. ASSUME CancelFails
     PROVE  OutcomeOK'
  BY <1>7 DEF CancelFails
<1>8. ASSUME CancelNext
     PROVE  OutcomeOK'
  BY <1>8 DEF CancelNext
<1>9. ASSUME NEW b \in BOOLEAN, SetConnected(b)
     PROVE  OutcomeOK'
  BY <1>9 DEF SetConnected
<1>10. ASSUME Crash
     PROVE  OutcomeOK'
  BY <1>10 DEF Crash
<1>11. ASSUME NEW x \in Transfer, NEW ok \in BOOLEAN, HandleAck(x, ok)
     PROVE  OutcomeOK'
  BY <1>11 DEF HandleAck, CompleteWaiter
<1>12. ASSUME NEW m \in SendPayload, PayloadLeaves(m)
     PROVE  OutcomeOK'
  BY <1>12 DEF PayloadLeaves
<1>13. QED
  BY <1>1, <1>2, <1>3, <1>4, <1>5, <1>6, <1>7, <1>8, <1>9, <1>10, <1>11, <1>12
     DEF Next, Internal, CancelStep

\* The sender's whole invariant is inductive.
LEMMA SendInvInductive == SendInv /\ [Next]_vars => SendInv'
<1> SUFFICES ASSUME SendInv, [Next]_vars PROVE SendInv'
  OBVIOUS
<1>1. TypeInv' /\ WaitersAreRegistered'
  BY TypeInvInductive, WaitersInductive DEF SendInv
<1>2. QED
  BY <1>1, OutcomeInductive DEF SendInv

\* What is written to a state file is not the absence of one.
LEMMA SavedIsSome ==
    ASSUME NEW st \in SendStage, NEW h \in Hash \cup {None}
    PROVE  [stage |-> st, hash |-> h] # None
BY SendConstants DEF SendStage

\* Saving a state removes none.
LEMMA SaveRemovesNone ==
    ASSUME TypeOK, NEW a \in Attempt, NEW st \in SendStage, NEW h \in Hash \cup {None},
           Save(a, st, h)
    PROVE  \A x \in Transfer : disk'[x] = None => disk[x] = None
<1>1. \A x \in Transfer : disk'[x] = disk[x] \/ disk'[x] = [stage |-> st, hash |-> h]
  BY DEF TypeOK, Save
<1>2. QED
  BY <1>1, SavedIsSome

\* Apart from acknowledgements, a step of the sender claims no success that was not
\* claimed before, and reports and removes only on a claim or a cancellation.
LEMMA InternalClaims == SendInv /\ Internal => ClaimsFrom({}) /\ ActsOnClaims
<1> SUFFICES ASSUME SendInv, Internal PROVE ClaimsFrom({}) /\ ActsOnClaims
  OBVIOUS
<1> USE SendConstants, SavedIsSome
        DEF SendInv, OutcomeOK, TypeInv, TypeOK, AttemptOK, ClaimsFrom, ActsOnClaims, Claims,
        Claimed, attemptVars, cancelVars, Body, PC, Goto, SendTransferState, SendStage
<1>1. ASSUME NEW a \in Attempt, AttemptStep(a)
     PROVE  ClaimsFrom({}) /\ ActsOnClaims
  <2>1. CASE LoadOrInit(a)
    BY <2>1 DEF LoadOrInit
  <2>2. CASE SaveInitial(a)
    <3>1. state[a].stage \in SendStage /\ state[a].hash \in Hash \cup {None}
      BY <2>2 DEF SaveInitial, Loaded
    <3>2. Save(a, state[a].stage, state[a].hash)
      BY <2>2 DEF SaveInitial
    <3>3. \A x \in Transfer : disk'[x] = None => disk[x] = None
      BY <3>1, <3>2, SaveRemovesNone
    <3>4. QED
      BY <2>2, <3>3 DEF SaveInitial
  <2>3. CASE NeedsImport(a)
    <3>1. state[a].stage \in SendStage /\ state[a].hash \in Hash \cup {None}
      BY <2>3 DEF NeedsImport, Loaded
    <3>2. Save(a, "Importing", state[a].hash)
      BY <2>3 DEF NeedsImport
    <3>3. \A x \in Transfer : disk'[x] = None => disk[x] = None
      BY <3>1, <3>2, SaveRemovesNone
    <3>4. QED
      BY <2>3, <3>3 DEF NeedsImport
  <2>4. CASE AlreadyImported(a)
    BY <2>4 DEF AlreadyImported
  <2>5. ASSUME NEW h \in Hash, Import(a, h)
       PROVE  ClaimsFrom({}) /\ ActsOnClaims
    BY <2>5 DEF Import, Save
  <2>6. CASE SaveWaitingAck(a)
    BY <2>6 DEF SaveWaitingAck, Save
  <2>7. CASE SendManifest(a)
    BY <2>7 DEF SendManifest
  <2>8. CASE BodyFails(a)
    BY <2>8 DEF BodyFails, Finish
  <2>9. CASE AckTimeout(a)
    BY <2>9 DEF AckTimeout, Finish
  <2>10. CASE AckArrives(a)
    BY <2>10 DEF AckArrives, Finish
  <2>11. CASE LoadFinal(a)
    BY <2>11 DEF LoadFinal
  <2>12. CASE FinalFails(a)
    BY <2>12 DEF FinalFails
  <2>13. CASE SaveFinal(a)
    <3>1. state[a].hash \in Hash \cup {None}
      BY <2>13 DEF SaveFinal, Loaded
    <3>2. Save(a, "Complete", state[a].hash) \/ Save(a, "Failed", state[a].hash)
      BY <2>13 DEF SaveFinal
    <3>3. \A x \in Transfer : disk'[x] = None => disk[x] = None
      BY <3>1, <3>2, SaveRemovesNone
    <3>4. QED
      BY <2>13, <3>3 DEF SaveFinal
  <2>14. CASE RemoveComplete(a)
    BY <2>14 DEF RemoveComplete
  <2>15. CASE Report(a)
    BY <2>15 DEF Report
  <2>16. QED
    BY <1>1, <2>1, <2>2, <2>3, <2>4, <2>5, <2>6, <2>7, <2>8, <2>9, <2>10, <2>11, <2>12, <2>13, <2>14, <2>15
       DEF AttemptStep
<1>2. ASSUME NEW a \in Attempt, NEW x \in Transfer, NEW again \in BOOLEAN, StartAttempt(a, x, again)
     PROVE  ClaimsFrom({}) /\ ActsOnClaims
  BY <1>2 DEF StartAttempt, Register
<1>3. ASSUME CancelList
     PROVE  ClaimsFrom({}) /\ ActsOnClaims
  BY <1>3 DEF CancelList
<1>4. ASSUME NEW x \in Transfer, CancelWaiter(x)
     PROVE  ClaimsFrom({}) /\ ActsOnClaims
  BY <1>4 DEF CancelWaiter, CompleteWaiter
<1>5. ASSUME CancelRemove
     PROVE  ClaimsFrom({}) /\ ActsOnClaims
  BY <1>5 DEF CancelRemove
<1>6. ASSUME CancelFails
     PROVE  ClaimsFrom({}) /\ ActsOnClaims
  BY <1>6 DEF CancelFails
<1>7. ASSUME CancelNext
     PROVE  ClaimsFrom({}) /\ ActsOnClaims
  BY <1>7 DEF CancelNext
<1>8. ASSUME NEW b \in BOOLEAN, SetConnected(b)
     PROVE  ClaimsFrom({}) /\ ActsOnClaims
  BY <1>8 DEF SetConnected
<1>9. ASSUME Crash
     PROVE  ClaimsFrom({}) /\ ActsOnClaims
  BY <1>9 DEF Crash
<1> HIDE DEF ClaimsFrom, ActsOnClaims
<1>10. QED
  BY <1>1, <1>2, <1>3, <1>4, <1>5, <1>6, <1>7, <1>8, <1>9 DEF Internal, CancelStep

\* An acknowledgement adds the claim to its own transfer, and only if it is a success.
LEMMA HandleAckClaims ==
    ASSUME SendInv, NEW x \in Transfer, NEW ok \in BOOLEAN, HandleAck(x, ok)
    PROVE  ClaimsFrom(IF ok THEN {x} ELSE {}) /\ ActsOnClaims
<1>1. \A a \in Attempt : pending[x] = a => tid[a] = x
  BY DEF SendInv, WaitersAreRegistered
<1>2. tid' = tid /\ result' = result /\ disk' = disk /\ completed' = completed
  BY DEF HandleAck, attemptVars
<1>3. \A a \in Attempt : chan'[a] = "ok" => chan[a] = "ok" \/ (ok /\ pending[x] = a)
  <2>1. CASE ok
    BY <2>1 DEF HandleAck, CompleteWaiter
  <2>2. CASE ~ok
    BY <2>2 DEF HandleAck, CompleteWaiter
  <2>3. QED
    BY <2>1, <2>2
<1>4. QED
  BY <1>1, <1>2, <1>3 DEF ClaimsFrom, Claims, ActsOnClaims

\* A manifest that leaves changes nothing that the sender says.
LEMMA PayloadClaims ==
    ASSUME NEW m \in SendPayload, PayloadLeaves(m)
    PROVE  ClaimsFrom({}) /\ ActsOnClaims
BY DEF PayloadLeaves, ClaimsFrom, Claims, ActsOnClaims, attemptVars
============================================================================
