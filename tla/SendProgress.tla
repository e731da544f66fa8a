---------------------------- MODULE SendProgress -----------------------------
(***************************************************************************)
(* What the user of `failsafe send` sees: one attempt of handle_send_files *)
(* (failsafe-send/src/control.rs) from the request to the last event the   *)
(* command reads.  Reports go from the import tasks                        *)
(* (failsafe-transport/src/blobs/iroh.rs) and from the receiver, by way of *)
(* the daemon's loop and the coordinator, to the reporter                  *)
(* (failsafe-send/src/progress.rs), whose flush task delays some of them,  *)
(* over a bounded channel to the writer task, over the control socket to   *)
(* the command (failsafe/src/cli/commands/send.rs).                        *)
(* Reports are numbered in the order they are made: `made` counts them, an *)
(* event carries the report's number and the reporter's sequence number.   *)
(***************************************************************************)
EXTENDS Naturals, Sequences, FiniteSets

CONSTANTS
    Files,      \* how many files are sent
    Slots,      \* MAX_CONCURRENT_IMPORTS
    ChanCap,    \* events the reporter's channel holds
    SockCap,    \* events the control socket holds
    RecvCap,    \* reports of the receiver the coordinator's channel holds
    MaxImport,  \* bound: offsets the import tasks report
    MaxRemote   \* bound: reports of the receiver

ASSUME ProgressAssumption ==
    /\ {Files, Slots, ChanCap, SockCap, RecvCap} \subseteq Nat \ {0}
    /\ {MaxImport, MaxRemote} \subseteq Nat

VARIABLES
    task,       \* task[f]: an import task: "wait", "run", "ok", "err", "lost" without
                \* a result, "taken" when its result was, or "aborted"
    results,    \* results[g]: the file whose entry is kept at an index, 0 for none;
                \* the collection has the entries in the order of their indices
    completed,  \* how many results have been taken
    imports,    \* offsets the import tasks have reported
    h,          \* where handle_send_files is
    event,      \* the event the handler is sending, or Nothing
    result,     \* "none", "ok" or "failed"
    made,       \* how many reports have been made
    pending,    \* the snapshot the flush task will take, 0 for none
    notified,   \* notify has a permit
    sequence,   \* the last sequence number given
    flush,      \* the flush task: "wait", "sleep", "took", "send" or "gone"
    snapshot,   \* the report it holds, numbered in "send", or Nothing
    chan,       \* the events in the channel
    writer,     \* progress_writer: "on" or "gone"
    sock,       \* the events in the control socket
    cli,        \* the command: "new", "reading", "ok", "failed", "refused" or
                \* "left"
    last,       \* its last_sequence
    shown,      \* the report it shows
    loop,       \* the daemon's loop is held up in report_progress
    remote,     \* reports the receiver has sent
    recv,       \* reports in the coordinator's channel
    ack,        \* the acknowledgement: "none", "ok" or "failed"
    crossed     \* not in the program: a report got its sequence number while
                \* the flush task held an older one that had none yet

importVars == <<task, results, completed, imports>>
reporterVars == <<made, pending, notified, sequence, crossed>>
flushVars == <<flush, snapshot>>
wireVars == <<chan, writer, sock>>
cliVars == <<cli, last, shown>>
remoteVars == <<loop, remote, recv, ack>>
handlerVars == <<h, event, result>>
progressVars == <<importVars, reporterVars, flushVars, wireVars, cliVars, remoteVars,
          handlerVars>>

Sources == 1 .. Files
Reports == MaxImport + MaxRemote + Files + 6

\* A report with its sequence number; SendComplete and SendFailed.
Progress(n, report) == [sequence |-> n, report |-> report, final |-> "none"]
Outcome(r) == [sequence |-> 0, report |-> 0, final |-> r]
Nothing == Progress(0, 0)

Event == [sequence : 0 .. Reports, report : 0 .. Reports,
          final : {"none", "ok", "failed"}]

TypeOK ==
    /\ task \in [Sources -> {"wait", "run", "ok", "err", "lost", "taken", "aborted"}]
    /\ results \in [Sources -> 0 .. Files]
    /\ completed \in 0 .. Files
    /\ imports \in 0 .. MaxImport
    /\ h \in {"new", "asked", "start", "sources", "import", "store", "resumed",
              "prepared", "sending", "metadata", "emit", "ack", "close", "join", "end"}
    /\ event \in Event
    /\ result \in {"none", "ok", "failed"}
    /\ {made, pending, sequence} \subseteq 0 .. Reports
    /\ {notified, crossed, loop} \subseteq BOOLEAN
    /\ flush \in {"wait", "sleep", "took", "send", "gone"}
    /\ snapshot \in Event
    /\ Len(chan) <= ChanCap /\ \A j \in DOMAIN chan : chan[j] \in Event
    /\ writer \in {"on", "gone"}
    /\ Len(sock) <= SockCap /\ \A j \in DOMAIN sock : sock[j] \in Event
    /\ cli \in {"new", "reading", "ok", "failed", "refused", "left"}
    /\ {last, shown} \subseteq 0 .. Reports
    /\ remote \in 0 .. MaxRemote
    /\ recv \in 0 .. RecvCap
    /\ ack \in {"none", "ok", "failed"}

ProgressInit ==
    /\ task = [f \in Sources |-> "wait"]
    /\ results = [f \in Sources |-> 0]
    /\ completed = 0
    /\ imports = 0
    /\ h = "new"
    /\ event = Nothing
    /\ result = "none"
    /\ made = 0
    /\ pending = 0
    /\ notified = FALSE
    /\ sequence = 0
    /\ flush = "wait"
    /\ snapshot = Nothing
    /\ chan = << >>
    /\ writer = "on"
    /\ sock = << >>
    /\ cli = "new"
    /\ last = 0
    /\ shown = 0
    /\ loop = FALSE
    /\ remote = 0
    /\ recv = 0
    /\ ack = "none"
    /\ crossed = FALSE

-----------------------------------------------------------------------------
(* The reporter. *)

\* try_emit: the latest snapshot replaces the one that waits.
TryEmit ==
    /\ made' = made + 1
    /\ pending' = made + 1
    /\ notified' = TRUE
    /\ UNCHANGED <<sequence, crossed>>

\* emit: what waits is dropped, the event is numbered and sent from "emit".
Emit ==
    /\ made' = made + 1
    /\ pending' = 0
    /\ sequence' = sequence + 1
    /\ event' = Progress(sequence + 1, made + 1)
    /\ crossed' = (crossed \/ flush = "took")
    /\ UNCHANGED notified

\* A channel whose receiver is gone takes everything and keeps nothing.
Send(e) ==
    IF writer = "gone" THEN UNCHANGED chan
    ELSE Len(chan) < ChanCap /\ chan' = Append(chan, e)

\* The flush task does not look at the cancellation.
Deaf == FALSE

\* close has cancelled the flush task.
Cancelled == h \in {"join", "end"}

FlushWake ==
    /\ flush = "wait"
    /\ notified
    /\ ~Cancelled
    /\ flush' = "sleep"
    /\ notified' = FALSE
    /\ UNCHANGED <<made, pending, sequence, crossed, snapshot>>
    /\ UNCHANGED <<importVars, wireVars, cliVars, remoteVars, handlerVars>>

\* After a hundred milliseconds the snapshot is taken, if one is left.
FlushTake ==
    /\ flush = "sleep"
    /\ ~Cancelled
    /\ flush' = IF pending = 0 THEN "wait" ELSE "took"
    /\ snapshot' = Progress(0, pending)
    /\ pending' = 0
    /\ UNCHANGED <<made, notified, sequence, crossed>>
    /\ UNCHANGED <<importVars, wireVars, cliVars, remoteVars, handlerVars>>

FlushNumber ==
    /\ flush = "took"
    /\ flush' = "send"
    /\ sequence' = sequence + 1
    /\ snapshot' = Progress(sequence + 1, snapshot.report)
    /\ UNCHANGED <<made, pending, notified, crossed>>
    /\ UNCHANGED <<importVars, wireVars, cliVars, remoteVars, handlerVars>>

FlushSend ==
    /\ flush = "send"
    /\ Send(snapshot)
    /\ flush' = "wait"
    /\ snapshot' = Nothing
    /\ UNCHANGED <<writer, sock>>
    /\ UNCHANGED <<importVars, reporterVars, cliVars, remoteVars, handlerVars>>

\* It ends, and with it its sender, before or after its sleep.
FlushEnds ==
    /\ Cancelled
    /\ flush \in {"wait", "sleep"}
    /\ flush' = "gone"
    /\ UNCHANGED snapshot
    /\ UNCHANGED <<importVars, reporterVars, wireVars, cliVars, remoteVars,
                   handlerVars>>

-----------------------------------------------------------------------------
(* The request. *)

\* send: the paths, or the saved state of the send to resume, the target and the
\* user's consent; any of them missing ends the command before it asks.
Ask ==
    /\ h = "new"
    /\ h' = "asked"
    /\ cli' = "reading"
    /\ UNCHANGED <<event, result, last, shown>>
    /\ UNCHANGED <<importVars, reporterVars, flushVars, wireVars, remoteVars>>

\* validate_preconditions: the feature on both devices, the connection.  Ready is
\* the answer, the waiter is registered, writer and reporter start.
Ready ==
    /\ h = "asked"
    /\ h' = "start"
    /\ UNCHANGED <<event, result>>
    /\ UNCHANGED <<importVars, reporterVars, flushVars, wireVars, cliVars,
                   remoteVars>>

\* One of them fails: an error is the answer, unless the command has left.
Reject ==
    /\ h = "asked"
    /\ h' = "end"
    /\ cli' = IF cli = "left" THEN cli ELSE "refused"
    /\ UNCHANGED <<event, result, last, shown>>
    /\ UNCHANGED <<importVars, reporterVars, flushVars, wireVars, remoteVars>>

-----------------------------------------------------------------------------
(* prepare_send_payload. *)

\* There is a collection to be made: the first report, then the files are looked up.
Prepare ==
    /\ h = "start"
    /\ h' = "sources"
    /\ TryEmit
    /\ UNCHANGED <<event, result>>
    /\ UNCHANGED <<importVars, flushVars, wireVars, cliVars, remoteVars>>

\* A send that is resumed finds the whole collection of an earlier attempt in the
\* store: nothing is imported, the first report says that all is prepared.
Resume ==
    /\ h = "start"
    /\ h' = "resumed"
    /\ task' = [f \in Sources |-> "taken"]
    /\ results' = [f \in Sources |-> f]
    /\ completed' = Files
    /\ TryEmit
    /\ UNCHANGED <<imports, event, result>>
    /\ UNCHANGED <<flushVars, wireVars, cliVars, remoteVars>>

\* import_sources reports before any file is read; then the tasks are spawned.
ImportBegins ==
    /\ h = "sources"
    /\ h' = "import"
    /\ TryEmit
    /\ UNCHANGED <<event, result>>
    /\ UNCHANGED <<importVars, flushVars, wireVars, cliVars, remoteVars>>

ImportStarts(f) ==
    /\ h = "import"
    /\ task[f] = "wait"
    /\ Cardinality({g \in Sources : task[g] = "run"}) < Slots
    /\ task' = [task EXCEPT ![f] = "run"]
    /\ UNCHANGED <<results, completed, imports>>
    /\ UNCHANGED <<reporterVars, flushVars, wireVars, cliVars, remoteVars,
                   handlerVars>>

\* An offset of a file is reported; the offsets and the results come over two
\* channels, so that it may be seen after the file's result.
ImportReports(f) ==
    /\ h = "import"
    /\ task[f] \in {"run", "ok", "err", "lost", "taken"}
    /\ completed < Files
    /\ imports < MaxImport
    /\ imports' = imports + 1
    /\ TryEmit
    /\ UNCHANGED <<task, results, completed>>
    /\ UNCHANGED <<flushVars, wireVars, cliVars, remoteVars, handlerVars>>

\* The task's result is in the channel; a task that panics, in a build that unwinds,
\* is lost without one.
ImportEnds(f, r) ==
    /\ task[f] = "run"
    /\ task' = [task EXCEPT ![f] = r]
    /\ UNCHANGED <<results, completed, imports>>
    /\ UNCHANGED <<reporterVars, flushVars, wireVars, cliVars, remoteVars,
                   handlerVars>>

\* Entries are kept as their results come in.
NextIndex(f) == completed + 1

\* Results are kept at the index of their source.
Index(f) == f

ImportResult(f) ==
    /\ h = "import"
    /\ task[f] = "ok"
    /\ task' = [task EXCEPT ![f] = "taken"]
    /\ results' = [results EXCEPT ![Index(f)] = f]
    /\ completed' = completed + 1
    /\ TryEmit
    /\ UNCHANGED imports
    /\ UNCHANGED <<flushVars, wireVars, cliVars, remoteVars, handlerVars>>

\* The attempt ends during the import: tasks and results are dropped.
ImportEnded ==
    /\ h = "import"
    /\ h' = "close"
    /\ result' = "failed"
    /\ task' = [f \in Sources |-> "aborted"]
    /\ results' = [f \in Sources |-> 0]
    /\ completed' = 0
    /\ imports' = 0
    /\ UNCHANGED event
    /\ UNCHANGED <<reporterVars, flushVars, wireVars, cliVars, remoteVars>>

\* The first error aborts the other tasks,
ImportFails(f) == task[f] = "err" /\ ImportEnded

\* the command's leaving cancels the import,
ImportCancelled == cli = "left" /\ ImportEnded

\* or both channels are closed before every result has come.
ImportStops ==
    /\ completed < Files
    /\ \A f \in Sources : task[f] \in {"lost", "taken"}
    /\ ImportEnded

\* As many results are there as there are files: the last report of the import, then the
\* collection is made of them, stored and tagged.
ImportDone ==
    /\ h = "import"
    /\ completed = Files
    /\ h' = "store"
    /\ TryEmit
    /\ UNCHANGED <<event, result>>
    /\ UNCHANGED <<importVars, flushVars, wireVars, cliVars, remoteVars>>

\* SendPhase::Storing is reported, when the collection is stored or was already.
Stored ==
    /\ h \in {"store", "resumed"}
    /\ h' = "prepared"
    /\ TryEmit
    /\ UNCHANGED <<event, result>>
    /\ UNCHANGED <<importVars, flushVars, wireVars, cliVars, remoteVars>>

-----------------------------------------------------------------------------
(* The rest of handle_send_files. *)

\* The payload is prepared: SendPhase::Sending is reported.
Prepared ==
    /\ h = "prepared"
    /\ h' = "sending"
    /\ Emit
    /\ UNCHANGED result
    /\ UNCHANGED <<importVars, flushVars, wireVars, cliVars, remoteVars>>

\* The event is in the channel; the handler goes on to what it reported for.
Emitted(from, to) ==
    /\ h = from
    /\ Send(event)
    /\ event' = Nothing
    /\ h' = to
    /\ UNCHANGED <<writer, sock, result>>
    /\ UNCHANGED <<importVars, reporterVars, flushVars, cliVars, remoteVars>>

\* The metadata is sent; then SendPhase::WaitingForAck.
MetadataSent ==
    /\ h = "metadata"
    /\ h' = "emit"
    /\ Emit
    /\ UNCHANGED result
    /\ UNCHANGED <<importVars, flushVars, wireVars, cliVars, remoteVars>>

\* The saved state cannot be read or written or exceeds the limits, a source is gone,
\* the collection cannot be stored, the metadata not be sent, or the command has left.
Fails ==
    /\ h \in {"start", "sources", "store", "prepared", "metadata"}
    /\ h' = "close"
    /\ result' = "failed"
    /\ UNCHANGED event
    /\ UNCHANGED <<importVars, reporterVars, flushVars, wireVars, cliVars,
                   remoteVars>>

\* wait_for_send_ack: a report of the receiver is passed on,
PassOn ==
    /\ h = "ack"
    /\ recv > 0
    /\ recv' = recv - 1
    /\ h' = "emit"
    /\ Emit
    /\ UNCHANGED <<result, loop, remote, ack>>
    /\ UNCHANGED <<importVars, flushVars, wireVars, cliVars>>

\* or the acknowledgement is there,
TakeAck ==
    /\ h = "ack"
    /\ ack # "none"
    /\ h' = "close"
    /\ result' = ack
    /\ UNCHANGED event
    /\ UNCHANGED <<importVars, reporterVars, flushVars, wireVars, cliVars,
                   remoteVars>>

\* or the time is up.  The waiter stays registered.
AckTimesOut ==
    /\ h = "ack"
    /\ h' = "close"
    /\ result' = "failed"
    /\ UNCHANGED event
    /\ UNCHANGED <<importVars, reporterVars, flushVars, wireVars, cliVars,
                   remoteVars>>

\* progress.close, and the handler's senders are dropped.
Close ==
    /\ h = "close"
    /\ h' = "join"
    /\ pending' = 0
    /\ UNCHANGED <<made, notified, sequence, crossed, event, result>>
    /\ UNCHANGED <<importVars, flushVars, wireVars, cliVars, remoteVars>>

\* The writer is not waited for.
Unjoined == TRUE

\* The writer task has returned the socket.
Joined == writer = "gone"

\* The outcome is the last thing written, if there is still somebody to read it.
\* With the handler its end of the coordinator's channel goes.
Finish ==
    /\ h = "join"
    /\ Joined
    /\ \/ cli = "left" /\ UNCHANGED sock
       \/ Len(sock) < SockCap /\ sock' = Append(sock, Outcome(result))
    /\ h' = "end"
    /\ UNCHANGED <<chan, writer, event, result>>
    /\ UNCHANGED <<importVars, reporterVars, flushVars, cliVars, remoteVars>>

-----------------------------------------------------------------------------
(* The writer and the command. *)

WriterWrites ==
    /\ writer = "on"
    /\ chan # << >>
    /\ IF cli = "left"
         THEN writer' = "gone" /\ chan' = << >> /\ UNCHANGED sock
         ELSE /\ Len(sock) < SockCap
              /\ sock' = Append(sock, Head(chan))
              /\ chan' = Tail(chan)
              /\ UNCHANGED writer
    /\ UNCHANGED <<importVars, reporterVars, flushVars, cliVars, remoteVars,
                   handlerVars>>

\* Every sender has been dropped and the channel is empty.
WriterEnds ==
    /\ writer = "on"
    /\ chan = << >>
    /\ h = "join"
    /\ flush = "gone"
    /\ writer' = "gone"
    /\ UNCHANGED <<chan, sock>>
    /\ UNCHANGED <<importVars, reporterVars, flushVars, cliVars, remoteVars,
                   handlerVars>>

\* Every event is shown.
ShowAll(e) == TRUE

\* Events that come after one with a higher sequence number are skipped.
Fresh(e) == e.sequence > last

CliReads ==
    /\ cli = "reading"
    /\ sock # << >>
    /\ sock' = Tail(sock)
    /\ LET e == Head(sock) IN
          IF e.final # "none"
            THEN cli' = e.final /\ UNCHANGED <<last, shown>>
            ELSE /\ last' = IF Fresh(e) THEN e.sequence ELSE last
                 /\ shown' = IF Fresh(e) THEN e.report ELSE shown
                 /\ UNCHANGED cli
    /\ UNCHANGED <<chan, writer>>
    /\ UNCHANGED <<importVars, reporterVars, flushVars, remoteVars, handlerVars>>

\* The command is interrupted, and what it showed and had not read goes with it.
CliLeaves ==
    /\ cli = "reading"
    /\ cli' = "left"
    /\ sock' = << >>
    /\ last' = 0
    /\ shown' = 0
    /\ UNCHANGED <<chan, writer>>
    /\ UNCHANGED <<importVars, reporterVars, flushVars, remoteVars, handlerVars>>

-----------------------------------------------------------------------------
(* The receiver's messages, dispatched one after the other by the daemon's   *)
(* loop, which does nothing else meanwhile.                                  *)

\* report_progress has found the waiter of the transfer, which is registered from the
\* start: on a resume the receiver may still answer an earlier attempt.
RemoteReports ==
    /\ h \notin {"new", "asked", "end"}
    /\ ~loop
    /\ ack = "none"
    /\ remote < MaxRemote
    /\ remote' = remote + 1
    /\ loop' = TRUE
    /\ UNCHANGED <<recv, ack>>
    /\ UNCHANGED <<importVars, reporterVars, flushVars, wireVars, cliVars,
                   handlerVars>>

\* The report is in the channel, or the handler and its channel are gone.
LoopGoesOn ==
    /\ loop
    /\ \/ h = "end" /\ UNCHANGED recv
       \/ h # "end" /\ recv < RecvCap /\ recv' = recv + 1
    /\ loop' = FALSE
    /\ UNCHANGED <<remote, ack>>
    /\ UNCHANGED <<importVars, reporterVars, flushVars, wireVars, cliVars,
                   handlerVars>>

\* complete: the waiter is removed and told.
Complete(r) ==
    /\ ack = "none"
    /\ h \notin {"new", "asked", "end"}
    /\ ack' = r
    /\ UNCHANGED <<loop, remote, recv>>
    /\ UNCHANGED <<importVars, reporterVars, flushVars, wireVars, cliVars,
                   handlerVars>>

\* handle_ack, for the receiver's acknowledgement, of this attempt or an earlier one
Acknowledge(r) == ~loop /\ Complete(r)

\* `failsafe send --cancel-all`, over a control connection of its own
CancelAll == Complete("failed")

-----------------------------------------------------------------------------

ImportStep(f) == ImportStarts(f) \/ \E r \in {"ok", "err", "lost"} : ImportEnds(f, r)

FlushStep ==
    FlushWake \/ FlushTake \/ FlushNumber \/ FlushSend \/ FlushEnds

HandlerStep ==
    \/ Ready \/ Reject \/ Prepare \/ Resume \/ ImportBegins \/ ImportDone \/ Stored
    \/ ImportCancelled \/ ImportStops \/ Prepared \/ MetadataSent
    \/ Fails \/ PassOn \/ TakeAck \/ AckTimesOut \/ Close \/ Finish
    \/ Emitted("sending", "metadata") \/ Emitted("emit", "ack")
    \/ \E f \in Sources : ImportResult(f) \/ ImportFails(f)

ProgressNext ==
    \/ Ask
    \/ \E f \in Sources : ImportStep(f) \/ ImportReports(f)
    \/ FlushStep
    \/ HandlerStep
    \/ WriterWrites \/ WriterEnds
    \/ CliReads \/ CliLeaves
    \/ RemoteReports \/ LoopGoesOn \/ CancelAll
    \/ \E r \in {"ok", "failed"} : Acknowledge(r)

ProgressSpec == ProgressInit /\ [][ProgressNext]_progressVars

\* Tasks run, files are imported or fail, the acknowledgement's deadline comes,
\* and the command, once started, reads until it is told the outcome or leaves.
\* Nothing is assumed of the receiver.
Fairness ==
    /\ \A f \in Sources : WF_progressVars(ImportStep(f))
    /\ WF_progressVars(FlushStep)
    /\ WF_progressVars(HandlerStep)
    /\ WF_progressVars(WriterWrites \/ WriterEnds)
    /\ WF_progressVars(CliReads)
    /\ WF_progressVars(LoopGoesOn)

FairSpec == ProgressSpec /\ Fairness

-----------------------------------------------------------------------------

\* The outcome is the last event: when the command has been told it, no report
\* is left anywhere behind it and the outcome is the attempt's own (control.rs
\* 309-327: close, drop, join, write).
OutcomeIsLast ==
    /\ \A j \in DOMAIN sock : sock[j].final # "none" => j = Len(sock)
    /\ cli \in {"ok", "failed"} =>
          cli = result /\ sock = << >> /\ chan = << >> /\ flush = "gone"

\* The command, while it runs, never goes back to an older report, although the flush task and
\* the handler send theirs at the same time, unless a report was numbered
\* between the flush task's taking of an older one and its numbering
\* (progress.rs 50-63, 97-116; send.rs 259-262).
NeverShowsOlder == [][cli' # "left" => shown' >= shown \/ crossed]_progressVars

\* A collection holds the files in the order of the sources, whichever import
\* finishes first, and no attempt goes on to send a collection that lacks one
\* (iroh.rs 223-273).
CollectionIsComplete ==
    /\ \A f, g \in Sources :
          f < g /\ results[f] # 0 /\ results[g] # 0 => results[f] < results[g]
    /\ h \in {"store", "resumed", "prepared", "sending", "metadata", "emit", "ack"} =>
          results = [f \in Sources |-> f]

\* An attempt that was asked for ends, however the bounded channels and the
\* socket fill up, and with it its hold on the daemon's loop: the flush task lets
\* go of the channel, the writer of the socket, the handler of the coordinator's
\* channel (progress.rs 38-68, control.rs 309-315, coordinator.rs 120-135).
AttemptEnds == h # "new" ~> h = "end" /\ ~loop

=============================================================================
