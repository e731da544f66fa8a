--------------------------- MODULE MCFileTransfer ---------------------------
(* TLC instances of FileTransfer.                                           *)
EXTENDS FileTransfer, FiniteSets, FiniteSetsExt, TLC

CONSTANTS
    MaxTasks,      \* bound: tasks of the receiver that run at once
    MaxMessages    \* bound: messages in flight

InFlight == MapThenSumSet(LAMBDA m : sPayloads[m], S!SendPayload)
            + MapThenSumSet(LAMBDA m : rAcks[m], R!SendAckMsg)

\* How the receiver's tasks interleave is MCReceiveTransfer's question; here few run at
\* once, the passes are those of start(), the feature stops only with the daemon, and
\* the user cancels at the sender, while the receiver is idle.
Bounded ==
    /\ Cardinality({p \in R!Proc : rPc[p] # "idle"}) <= MaxTasks
    /\ \A w \in Watcher : rPc[w] = "idle"
    /\ rWatching # {} => rEnabled
    /\ rCancelTodo = {}
    /\ sCancelPc # "idle" => \A p \in R!Proc : rPc[p] = "idle"
    /\ InFlight <= MaxMessages
============================================================================
