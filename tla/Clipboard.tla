------------------------------ MODULE Clipboard ------------------------------
(***************************************************************************)
(* The clipboard feature (crates/failsafe-clipboard) on a set of devices:  *)
(* on each one a watcher task polls the system clipboard and publishes     *)
(* what it has not emitted yet, and the daemon's message loop applies the  *)
(* peers' payloads one at a time.  The two run concurrently and share      *)
(* last_emitted and applying_remote, with awaits between their accesses.   *)
(* Every send goes over a stream of its own, so messages overtake one      *)
(* another.                                                                *)
(***************************************************************************)
EXTENDS Naturals, FiniteSets

CONSTANTS
    Devices,     \* the devices of one account
    Values,      \* what a clipboard may hold: texts, html, images, files
    Copied,      \* the values users copy
    OldTexts,    \* the texts old devices send
    Blob,        \* the values whose bytes go through the blob store
    ReadAs,      \* ReadAs[d][v]: what a read gives on d when v was written;
                 \* a text naming files that exist on d is read as those files
    None,        \* an empty Option
    MaxCopies,   \* bound: how many values users and old devices introduce
    MaxFaults,   \* bound: how many builds, sends, fetches and writes fail, how
                 \* many messages are lost, how often the feature is stopped or
                 \* its daemon restarted and how often a message meets the
                 \* watcher in the middle of a round
    MaxInFlight  \* bound: messages under way to one device, all different

ASSUME ClipboardAssumption ==
    /\ Copied \subseteq Values
    /\ Blob \subseteq Values
    /\ OldTexts \subseteq Values \ Blob
    /\ ReadAs \in [Devices -> [Values -> Values]]
    /\ None \notin Values
    /\ None \notin {1, 2} \X Values
    /\ \A d \in Devices : Devices # {d}
    /\ MaxCopies \in Nat
    /\ MaxFaults \in Nat
    /\ MaxInFlight \in Nat \ {0}

\* A payload: version 2 is CLIPBOARD_PAYLOAD_VERSION, version 1 what decode
\* gives for a legacy text.  fingerprint hashes the whole payload, so two
\* fingerprints are equal when version and content are.
Payloads == {1, 2} \X Values

VARIABLES
    clip,         \* the system clipboard: a value or None
    lastEmitted,  \* last_emitted: the fingerprint of a payload or None
    applying,     \* applying_remote
    watcher,      \* where the watcher task is; "off" when the feature is
    content,      \* what the watcher read in this round
    todo,         \* the recipients publish has not tried yet
    handler,      \* where handle_message is
    incoming,     \* the payload it applies
    net,          \* net[d]: the payloads on their way to d
    copies,       \* how many values were introduced
    faults,       \* how many failures, stops and such meetings there were
    \* Not in the program: what the properties need to remember.
    origin,       \* the payload whose write put the value on the clipboard;
                  \* None when a user copied it
    readOrigin,   \* the same, of the value the watcher read in this round
    forgotten,    \* since that write last_emitted was set for a later message
                  \* whose write failed or for a round that a message had met,
                  \* or went with the process
    overlap,      \* a message began to be applied since the watcher's tick
    latest,       \* the value of the last copy, as its device reads it
    disturbed     \* since then something failed, a stale round was published,
                  \* a value was read back as another, or the copy met another
                  \* copy or repeated what its device had emitted last

vars == <<clip, lastEmitted, applying, watcher, content, todo,
          handler, incoming, net, copies, faults, origin, readOrigin, forgotten,
          overlap, latest, disturbed>>

watcherVars == <<watcher, content, todo, readOrigin>>
handlerVars == <<handler, incoming, applying>>
historyVars == <<faults, latest, disturbed>>

TypeOK ==
    /\ clip \in [Devices -> Values \cup {None}]
    /\ lastEmitted \in [Devices -> Payloads \cup {None}]
    /\ applying \in [Devices -> BOOLEAN]
    /\ watcher \in [Devices -> {"off", "idle", "reading", "building",
                                "comparing", "emitting", "publishing"}]
    /\ content \in [Devices -> Values \cup {None}]
    /\ todo \in [Devices -> SUBSET Devices]
    /\ handler \in [Devices -> {"idle", "writing", "written"}]
    /\ incoming \in [Devices -> Payloads \cup {None}]
    /\ net \in [Devices -> SUBSET Payloads]
    /\ copies \in 0..MaxCopies
    /\ faults \in 0..MaxFaults
    /\ origin \in [Devices -> Payloads \cup {None}]
    /\ readOrigin \in [Devices -> Payloads \cup {None}]
    /\ forgotten \in [Devices -> BOOLEAN]
    /\ overlap \in [Devices -> BOOLEAN]
    /\ latest \in Values \cup {None}
    /\ disturbed \in BOOLEAN

Init ==
    /\ clip = [d \in Devices |-> None]
    /\ lastEmitted = [d \in Devices |-> None]
    /\ applying = [d \in Devices |-> FALSE]
    /\ watcher = [d \in Devices |-> "idle"]
    /\ content = [d \in Devices |-> None]
    /\ todo = [d \in Devices |-> {}]
    /\ handler = [d \in Devices |-> "idle"]
    /\ incoming = [d \in Devices |-> None]
    /\ net = [d \in Devices |-> {}]
    /\ copies = 0
    /\ faults = 0
    /\ origin = [d \in Devices |-> None]
    /\ readOrigin = [d \in Devices |-> None]
    /\ forgotten = [d \in Devices |-> FALSE]
    /\ overlap = [d \in Devices |-> FALSE]
    /\ latest = None
    /\ disturbed = FALSE

\* What a read gives on d when v is on its clipboard: files before images
\* before html before text, and a text that names existing files as files.
ReadBack(d, v) == ReadAs[d][v]

\* The watcher's payload for a content it read: the version is the current one.
Payload(v) == <<2, v>>

\* The store of applying_remote is missing.
NeverSet(d, b) == UNCHANGED applying

\* The flag stays set after the first message.
NeverCleared(d, b) == applying' = [applying EXCEPT ![d] = TRUE]

\* The two stores of applying_remote in handle_message.
SetApplying(d, b) == applying' = [applying EXCEPT ![d] = b]

\* The flag is not looked at.
ReadsAnyway(d) == TRUE

\* The check of applying_remote at the start of a round.
MayRead(d) == ~applying[d]

\* A failure or a stop: whatever the system does with the last copy from now
\* on, no property asks for more.
Fault ==
    /\ faults < MaxFaults
    /\ faults' = faults + 1
    /\ disturbed' = TRUE

\* The bound on what is under way to d.
Room(d, p) == p \notin net[d] /\ Cardinality(net[d]) < MaxInFlight

\* Nothing is under way and every watcher has seen its clipboard.
Quiet ==
    /\ \A d \in Devices :
          /\ net[d] = {}
          /\ watcher[d] = "idle"
          /\ handler[d] = "idle"
          /\ clip[d] # None =>
                lastEmitted[d] = Payload(ReadBack(d, clip[d]))

-----------------------------------------------------------------------------
(* The environment: users copy, an old device sends a legacy text. *)

UserCopies(d, v) ==
    /\ copies < MaxCopies
    /\ copies' = copies + 1
    /\ clip' = [clip EXCEPT ![d] = v]
    /\ origin' = [origin EXCEPT ![d] = None]
    /\ latest' = ReadBack(d, v)
    /\ disturbed' = (~Quiet \/ lastEmitted[d] = Payload(ReadBack(d, v)))
    /\ UNCHANGED <<faults, lastEmitted, net, forgotten, overlap>>
    /\ UNCHANGED watcherVars
    /\ UNCHANGED handlerVars

LegacyText(d, v) ==
    /\ copies < MaxCopies
    /\ Room(d, <<1, v>>)
    /\ copies' = copies + 1
    /\ net' = [net EXCEPT ![d] = @ \cup {<<1, v>>}]
    /\ disturbed' = TRUE
    /\ UNCHANGED <<faults, clip, lastEmitted, origin, forgotten, overlap, latest>>
    /\ UNCHANGED watcherVars
    /\ UNCHANGED handlerVars

-----------------------------------------------------------------------------
(* watch_clipboard: one round of the loop, an action for each part between *)
(* two awaits.                                                             *)

\* The round is over: what it read goes out of scope.
EndRound(d, next) ==
    /\ watcher' = [watcher EXCEPT ![d] = next]
    /\ content' = [content EXCEPT ![d] = None]
    /\ todo' = [todo EXCEPT ![d] = {}]
    /\ readOrigin' = [readOrigin EXCEPT ![d] = None]
    /\ overlap' = [overlap EXCEPT ![d] = FALSE]

\* The interval ticks; a round that finds applying_remote set ends at once.
Tick(d) ==
    /\ watcher[d] = "idle"
    /\ MayRead(d)
    /\ watcher' = [watcher EXCEPT ![d] = "reading"]
    /\ UNCHANGED <<clip, lastEmitted, content, todo, net, copies,
                   origin, readOrigin, forgotten, overlap>>
    /\ UNCHANGED handlerVars
    /\ UNCHANGED historyVars

\* read_system_clipboard takes the first form the clipboard offers.  A text
\* or a short html needs no store: content_to_payload does not wait for it.
Read(d) ==
    /\ watcher[d] = "reading"
    /\ IF clip[d] = None
       THEN EndRound(d, "idle")
       ELSE LET v == ReadBack(d, clip[d])
            IN /\ content' = [content EXCEPT ![d] = v]
               /\ readOrigin' = [readOrigin EXCEPT ![d] = origin[d]]
               /\ watcher' = [watcher EXCEPT ![d] =
                                IF v \in Blob THEN "building" ELSE "comparing"]
               /\ UNCHANGED <<todo, overlap>>
    /\ UNCHANGED <<clip, lastEmitted, net, copies, origin, forgotten>>
    /\ UNCHANGED handlerVars
    /\ UNCHANGED historyVars

ReadFails(d) ==
    /\ watcher[d] = "reading"
    /\ EndRound(d, "idle")
    /\ UNCHANGED <<clip, lastEmitted, net, copies, origin, forgotten>>
    /\ UNCHANGED handlerVars
    /\ UNCHANGED historyVars

\* content_to_payload of an image, files or a long html: stored as a blob.
Build(d) ==
    /\ watcher[d] = "building"
    /\ watcher' = [watcher EXCEPT ![d] = "comparing"]
    /\ UNCHANGED <<clip, lastEmitted, content, todo, net, copies, origin,
                   readOrigin, forgotten, overlap>>
    /\ UNCHANGED handlerVars
    /\ UNCHANGED historyVars

\* A value over the limits, a vanished file or a failing store: logged (once
\* for a content, which is all last_failed is for) and tried again next tick.
BuildFails(d) ==
    /\ watcher[d] = "building"
    /\ content[d] \in Blob
    /\ EndRound(d, "idle")
    /\ Fault
    /\ UNCHANGED <<clip, lastEmitted, net, copies, origin, forgotten, latest>>
    /\ UNCHANGED handlerVars

\* The first lock of last_emitted: only compare.
Compare(d) ==
    /\ watcher[d] = "comparing"
    /\ IF lastEmitted[d] = Payload(content[d])
       THEN EndRound(d, "idle")
       ELSE /\ watcher' = [watcher EXCEPT ![d] = "emitting"]
            /\ UNCHANGED <<content, todo, readOrigin, overlap>>
    /\ UNCHANGED <<clip, lastEmitted, net, copies, origin, forgotten>>
    /\ UNCHANGED handlerVars
    /\ UNCHANGED historyVars

\* The second lock: last_emitted is set before anything is sent.
Emit(d) ==
    /\ watcher[d] = "emitting"
    /\ watcher' = [watcher EXCEPT ![d] = "publishing"]
    /\ lastEmitted' = [lastEmitted EXCEPT ![d] = Payload(content[d])]
    /\ todo' = [todo EXCEPT ![d] = Devices \ {d}]
    /\ forgotten' = [forgotten EXCEPT ![d] =
                         @ \/ (overlap[d] /\ origin[d] # None)]
    /\ disturbed' = (disturbed \/ overlap[d])
    /\ readOrigin' = [readOrigin EXCEPT ![d] = None]
    /\ overlap' = [overlap EXCEPT ![d] = FALSE]
    /\ UNCHANGED <<faults, clip, content, net, copies, origin, latest>>
    /\ UNCHANGED handlerVars

\* publish has tried p; after the last recipient the round is over.
Tried(d, p) ==
    IF todo[d] = {p}
    THEN EndRound(d, "idle")
    ELSE /\ todo' = [todo EXCEPT ![d] = @ \ {p}]
         /\ UNCHANGED <<watcher, content, readOrigin, overlap>>

\* publish: the recipients are tried in turn, each over a stream of its own.
SendTo(d, p) ==
    /\ watcher[d] = "publishing"
    /\ p \in todo[d]
    /\ Room(p, Payload(content[d]))
    /\ Tried(d, p)
    /\ net' = [net EXCEPT ![p] = @ \cup {Payload(content[d])}]
    /\ UNCHANGED <<clip, lastEmitted, copies, origin, forgotten>>
    /\ UNCHANGED handlerVars
    /\ UNCHANGED historyVars

\* The peer is not connected, or the send fails: nothing is tried again.
SendFails(d, p) ==
    /\ watcher[d] = "publishing"
    /\ p \in todo[d]
    /\ Tried(d, p)
    /\ Fault
    /\ UNCHANGED <<clip, lastEmitted, net, copies, origin, forgotten, latest>>
    /\ UNCHANGED handlerVars

\* send returns once its stream is finished: what was sent may still be lost
\* with the connection.
LoseMessage(d, p) ==
    /\ p \in net[d]
    /\ net' = [net EXCEPT ![d] = @ \ {p}]
    /\ Fault
    /\ UNCHANGED <<clip, lastEmitted, copies, origin, forgotten, overlap, latest>>
    /\ UNCHANGED watcherVars
    /\ UNCHANGED handlerVars

-----------------------------------------------------------------------------
(* handle_message: the daemon's loop runs it for one message at a time. *)

\* The watcher has checked applying_remote and not yet set last_emitted.
InRound(d) ==
    watcher[d] \in {"reading", "building", "comparing", "emitting"}

\* Decoded and resolved: a text as it is, a blob fetched from the sender.
BeginApply(d, p) ==
    /\ watcher[d] # "off"
    /\ handler[d] = "idle"
    /\ p \in net[d]
    /\ net' = [net EXCEPT ![d] = @ \ {p}]
    /\ incoming' = [incoming EXCEPT ![d] = p]
    /\ handler' = [handler EXCEPT ![d] = "writing"]
    /\ SetApplying(d, TRUE)
    /\ overlap' = [overlap EXCEPT ![d] = InRound(d)]
    /\ InRound(d) => faults < MaxFaults
    /\ faults' = IF InRound(d) THEN faults + 1 ELSE faults
    /\ UNCHANGED <<clip, lastEmitted, copies, origin, forgotten>>
    /\ UNCHANGED watcherVars
    /\ UNCHANGED <<latest, disturbed>>

\* A blob that cannot be fetched, decoded or stored, or is over the limits,
\* and every message that meets a feature that is off: nothing changes.
Refuse(d, p) ==
    /\ handler[d] = "idle"
    /\ p \in net[d]
    /\ watcher[d] = "off" \/ p[2] \in Blob
    /\ net' = [net EXCEPT ![d] = @ \ {p}]
    /\ Fault
    /\ UNCHANGED <<clip, lastEmitted, copies, origin, forgotten,
                   overlap, latest>>
    /\ UNCHANGED watcherVars
    /\ UNCHANGED handlerVars

Write(d) ==
    /\ handler[d] = "writing"
    /\ handler' = [handler EXCEPT ![d] = "written"]
    /\ origin' = [origin EXCEPT ![d] = incoming[d]]
    /\ forgotten' = [forgotten EXCEPT ![d] = FALSE]
    /\ LET v == incoming[d][2]
       IN /\ clip' = [clip EXCEPT ![d] = v]
          /\ disturbed' = (disturbed \/ incoming[d] # Payload(ReadBack(d, v)))
    /\ UNCHANGED <<faults, lastEmitted, applying, incoming, net, copies,
                   overlap, latest>>
    /\ UNCHANGED watcherVars

\* The error is kept and returned at the end: last_emitted is still set.
WriteFails(d) ==
    /\ handler[d] = "writing"
    /\ handler' = [handler EXCEPT ![d] = "written"]
    /\ forgotten' = [forgotten EXCEPT ![d] = origin[d] # None]
    /\ Fault
    /\ UNCHANGED <<clip, lastEmitted, applying, incoming, net,
                   copies, origin, overlap, latest>>
    /\ UNCHANGED watcherVars

EndApply(d) ==
    /\ handler[d] = "written"
    /\ handler' = [handler EXCEPT ![d] = "idle"]
    /\ lastEmitted' = [lastEmitted EXCEPT ![d] = incoming[d]]
    /\ SetApplying(d, FALSE)
    /\ incoming' = [incoming EXCEPT ![d] = None]
    /\ UNCHANGED <<clip, net, copies, origin, forgotten, overlap>>
    /\ UNCHANGED watcherVars
    /\ UNCHANGED historyVars

-----------------------------------------------------------------------------
(* start and stop.  Both need the registry, as handle_message does, so they *)
(* never run in the middle of one; the watcher they abort may be anywhere.  *)

Start(d) ==
    /\ watcher[d] = "off"
    /\ watcher' = [watcher EXCEPT ![d] = "idle"]
    /\ UNCHANGED <<clip, lastEmitted, content, todo, net, copies,
                   origin, readOrigin, forgotten, overlap>>
    /\ UNCHANGED handlerVars
    /\ UNCHANGED historyVars

Stop(d) ==
    /\ watcher[d] # "off"
    /\ handler[d] = "idle"
    /\ EndRound(d, "off")
    /\ Fault
    /\ UNCHANGED <<clip, lastEmitted, net, copies, origin, forgotten, latest>>
    /\ UNCHANGED handlerVars

\* The daemon ends and a new one starts the feature: the clipboard stays, what
\* it had emitted and what was on its way to it do not.
Restart(d) ==
    /\ watcher[d] # "off"
    /\ EndRound(d, "idle")
    /\ lastEmitted' = [lastEmitted EXCEPT ![d] = None]
    /\ applying' = [applying EXCEPT ![d] = FALSE]
    /\ handler' = [handler EXCEPT ![d] = "idle"]
    /\ incoming' = [incoming EXCEPT ![d] = None]
    /\ net' = [net EXCEPT ![d] = {}]
    /\ forgotten' = [forgotten EXCEPT ![d] = origin[d] # None]
    /\ Fault
    /\ UNCHANGED <<clip, copies, origin, latest>>

-----------------------------------------------------------------------------

Next ==
    \E d \in Devices :
        \/ \E v \in Copied : UserCopies(d, v)
        \/ \E v \in OldTexts : LegacyText(d, v)
        \/ Tick(d) \/ Read(d) \/ ReadFails(d) \/ Build(d) \/ BuildFails(d)
        \/ Compare(d) \/ Emit(d)
        \/ \E p \in Devices : SendTo(d, p) \/ SendFails(d, p)
        \/ \E p \in Payloads : LoseMessage(d, p) \/ BeginApply(d, p) \/ Refuse(d, p)
        \/ Write(d) \/ WriteFails(d) \/ EndApply(d)
        \/ Start(d) \/ Stop(d) \/ Restart(d)

Spec == Init /\ [][Next]_vars

\* What the watcher does after its tick, the read apart, and what the handler
\* does with a message: each is one task, so one of its steps is next.
RoundStep(d) ==
    \/ Tick(d) \/ Build(d) \/ BuildFails(d) \/ Compare(d) \/ Emit(d)
    \/ \E p \in Devices : SendTo(d, p) \/ SendFails(d, p)

ApplyStep(d) == Write(d) \/ WriteFails(d) \/ EndApply(d)

\* The runtime polls both tasks.  A read that fails now and then is tried
\* again on the next tick; a message that waits is taken up between two rounds
\* of the watcher if not in one.  Nothing makes a user copy, or a feature stop.
Fairness ==
    \A d \in Devices :
        /\ WF_vars(RoundStep(d)) /\ SF_vars(Read(d))
        /\ SF_vars(\E p \in Payloads : BeginApply(d, p) \/ Refuse(d, p))
        /\ WF_vars(ApplyStep(d))

FairSpec == Spec /\ Fairness

-----------------------------------------------------------------------------

\* The loop guard of the feature: a value that a peer's message put on the
\* clipboard is not published back, whatever else was copied and applied since
\* (watcher.rs 22-61, mod.rs 134-144).  The code publishes it back in three
\* cases, and in no other: a message began to be applied in the middle of the
\* round; the value reads as another payload than the one received, which is
\* that of a text read back as files and of every legacy text (system.rs 86,
\* payload.rs 62); last_emitted is no longer that of the value's message
\* (`forgotten`: mod.rs 143 after a failed write, watcher.rs 61, a new process).
NoEcho ==
    \A d \in Devices :
        watcher[d] = "emitting" /\ readOrigin[d] # None =>
            \/ overlap[d]
            \/ readOrigin[d] # Payload(content[d])
            \/ forgotten[d]

\* A copy made on a quiet system, with no failure and no stale round after it,
\* leaves the same value on every device once the system is quiet again,
\* whatever happened before the copy.
QuietMeansEqual ==
    Quiet /\ ~disturbed /\ latest # None =>
        \A d \in Devices : ReadBack(d, clip[d]) = latest

\* And it gets there: the devices stop talking, they do not pass the value
\* round for ever.
CopyReachesAll ==
    (latest # None /\ ~disturbed) ~>
        (disturbed \/ \A d \in Devices : clip[d] # None
                                           /\ ReadBack(d, clip[d]) = latest)

=============================================================================
