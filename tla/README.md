# A TLA+ model of failsafe

failsafe connects the devices of one person. A daemon runs on every device. It keeps
peer-to-peer connections to the others and runs *features* over them: sending files, a
shared clipboard, remote shells and forwarded ports. A small server keeps accounts and the
list of devices with their addresses and permissions. A command line talks to the local
daemon over a control socket.

This directory holds a specification of that system, translated from the Rust sources. It
has TLC models that check small instances, and proofs, checked by TLAPS, that hold for
every number of devices, tasks and transfers. Paths below are relative to the repository
root. `PROJECT.json` maps every definition to the lines it stands for.

Contents: [inventory](#inventory), [plan](#plan), [modules](#modules), [runs](#runs),
[fairness](#fairness), [proofs](#proofs), [disagreements](#known-disagreements),
[limits](#what-is-not-modelled).

## Inventory

### File transfer (`crates/failsafe-send`)

| part | state | operations |
|---|---|---|
| receive handlers (`feature.rs`) | `receive_in_progress` (a lock per transfer), `transfers/receive/<id>.json` | `handle_message`, `handle_transfer`, `handle_transfer_locked`, `run_receive`, `send_ack` |
| resume (`resume.rs`) | a watcher's `known_peers`, the same files | `resume_incomplete_receives`, the watcher tick |
| control connection (`control.rs`, `outbound.rs`) | `transfers/send/<id>.json`, an acknowledgement channel per attempt | `handle_send_files`, `prepare_send_payload`, `wait_for_send_ack`, `mark_send_*` |
| coordinator (`coordinator.rs`) | waiters by transfer id; a progress channel | `register`, `complete`, `cancel`, `cancel_all` |
| cancellation (`cancel.rs`) | none of its own | `cancel_all_incomplete_sends`, `..._receives` |
| manifest (`manifest.rs`, chunk code of `feature.rs`) | `pending_chunked_transfers`, sleeping timers | plan, push chunk, mark end, finalize, time out |

The CLI opens a control connection and the daemon imports the files into the blob store.
It sends a manifest to the peer and waits for an acknowledgement with a deadline. The peer
downloads the collection, exports it to a directory and acknowledges. Both sides save a
state file at every stage, so that a restart, or `send --resume`, can go on.

Hard here: the tasks of one transfer (handlers of repeated manifests, the pass of `start`,
watchers that `stop` does not end) share a lock that is created and removed on the fly.
Saves, acknowledgements and removals can be cut by a crash anywhere, and messages are lost,
repeated and reordered. Acknowledgements carry only the transfer id, and deadlines race
late answers. Correct means: one receive of a transfer at a time; success is reported
only of files that were exported; a state that a resume needs is not lost; nothing waits
for ever.

### Transport (`crates/failsafe-transport`)

| part | state | operations |
|---|---|---|
| connection pool and dial manager (`iroh/manager.rs`, `iroh/protocol.rs`, `iroh/address.rs`) | pool by device, address book, reverse lookup | dial pass, register, accept, handler end, update of addresses |
| messages and streams (`iroh/transport.rs`, `iroh/stream.rs`, `codec.rs`) | inbox, stream handlers, framing | `send`, `recv`, `open_stream`, relay |
| router and peer directory (`router.rs`, `failsafe-core/src/peer.rs`) | peers, shared features | `publish`, `replace_peers`, `set_feature_enabled` |
| blob store (`blobs/`) | iroh-blobs | import, download, export |

Hard here: both devices dial each other at once, so that a device has several connections
of which the pool names one; the handler of an older connection ends late. Correct means:
no dead entry keeps a device from being dialled, and a listed device is reached again.

### Daemon and command line (`crates/failsafe`, `crates/failsafe-core`)

| part | state | operations |
|---|---|---|
| daemon loop, synchronisation (`daemon.rs`, `sync.rs`) | config, local features, sync interval | heartbeat, `sync_from_server`, shutdown |
| registry (`registry.rs`) | features and which are enabled | enable, disable, dispatch |
| control server (`control_server.rs`) | connections of the CLI | one handler per request |
| client session (`server.rs`, `credentials.rs`) | access and refresh token, in memory and on disk | `send_authenticated`, `refresh_tokens` |

Hard here: a synchronisation that fails half way, policy that changes while messages are
dispatched, and the daemon and the CLI each refreshing a rotating token from its own copy.

### Other features

| part | state | operations |
|---|---|---|
| clipboard (`crates/failsafe-clipboard`) | `last_emitted`, `applying_remote`, the system clipboard | a watcher that polls every 300 ms and publishes, `handle_message`, `start`, `stop` |
| remote shell (`crates/failsafe-shell`) | an acceptor, sessions, a pty | control request, stream, `relay_channels_to_pty` |
| port forwarding (`crates/failsafe-port`) | an acceptor, a listener, sessions | control request, stream, relays |

Hard here: the clipboard's watcher and its message handler share two variables with awaits
between their accesses, so that a poll may overlap an applied value; echo and convergence are
the questions. A shell or port session passes through up to four relays with bounded buffers,
each of which drops both directions when one ends; half-closes, refusals and lost connections
happen at any of them. Correct means: a peer's value is not sent back, but for the three cases
in which the code does (see `Clipboard` below), an undisturbed copy arrives everywhere, and a client gets a prefix of what was sent, the whole response unless it
closed or typed ahead, and the end.

### Server (`crates/failsafe-server`)

| part | state | operations |
|---|---|---|
| accounts and sessions (`routes/auth.rs`, `refresh_token.rs`, `auth.rs`) | account row, recovery codes, refresh tokens | register, login, second factor, refresh, logout, change password, setup, enable and disable two-factor login |
| pairing, devices, presence (`routes/pairing.rs`, `routes/devices.rs`, `presence.rs`) | pairing codes, device rows | create and redeem a code, upsert, heartbeat, patch, delete, list |

Requests run concurrently over one SQLite database. A handler loads rows, checks them and
writes later; only what is in one transaction is atomic. Correct means: a token or code used
twice does not work twice, what ends all sessions is not undone by a request that raced it,
and two-factor login asks for codes of the secret its owner confirmed.

On the clients' side (`crates/failsafe/src/server.rs`, `failsafe-web-ui/src/lib/api.ts`) the
daemon, every command and every page refresh the same rotating token from copies of their own.

The rest of the web interface (`failsafe-ui`, `failsafe-web-ui`), the generated type bindings
and the database schema are presentation, generated or declarative.

The hazards of each part, at the line where each bites, are listed in `PROJECT.json`.

## Plan

Done, in this order: the receiving half, the sending half, their composition and its
abstract specification, the manifest, the connection pool, the synchronisation of policy,
then the clipboard, the server's accounts, the clients' sessions, the relays and the progress of
a send. Proofs followed for all of these, the manifest last. Every safety invariant and every
action property of the runs is now stated by a theorem.

Next, most important first:

1. Several recipients of one `publish`, with the recipients of `PolicySync`.
2. Presence, if a property beyond the comparison of a clock is found worth stating.

## Modules

| module | models |
|---|---|
| `ReceiveTransfer` | receiving half: handlers, resume passes, watchers, lock map, state files, acknowledgements |
| `SendTransfer` | sending half: attempts, coordinator, state files, manifests sent, CancelAll |
| `TransferSpec` | what a transfer promises: deliver, then report |
| `FileTransfer` | both halves and the transport between them |
| `Manifest` | cutting, transport and reassembly of a manifest |
| `ConnectionPool` | pools, dial managers, accepting sides and handlers of connected endpoints |
| `PolicySync` | the device table of the server, and the daemon that follows it: start, synchronisation, registry, peer directory |
| `Clipboard` | the clipboard feature on a set of devices: watchers, handlers, messages |
| `Accounts` | one account on the server and the requests that are handled at the same time |
| `Session` | the processes and web pages that share the tokens of a session |
| `Relay` | a shell or port session: opening it, its chain of relays, its end |
| `SendProgress` | one send from the command's request to the last event it reads |
| `ReceiveTransferProofs`, `SendTransferProofs`, `ManifestProofs`, `AccountsProofs`, `ClipboardProofs` | theorems about one module |
| `FileTransferProofs` | theorems about `FileTransfer` and `SendProgress` |
| `TransportProofs` | theorems about `ConnectionPool` and `Relay` |
| `ClientProofs` | theorems about `Session` and `PolicySync`, the clients of the server |
| `MC...` | instances, symmetry and constraints for TLC |

An action is the code between two awaits whose interleaving can be observed. `pc` names
the point where a task is. A `?` is an action that leaves the normal path (`RunFails`,
`BodyFails`, `AckFails`). A crash takes the variables that are memory back to their initial
values and leaves files and messages.

**ReceiveTransfer.** One receiver and one sender. `locks` is the map
`receive_in_progress`, `lock[p]` the clone of the `Arc` that task `p` has, `holder` the
guard. `OnlyReference` is `Arc::strong_count == 2`. `disk` is the set of state files, with
stage and collection hash. `acks` counts the acknowledgements in flight, `exported` is
history. `CancelList` and `CancelRemove` are the receive part of `CancelAll`, which takes
no lock; one such request runs at a time.

**SendTransfer.** One sender and one receiver. `pending` is the coordinator's table and
`chan[a]` what the receiver half of attempt `a`'s channel would yield. A waiter that is
replaced, or whose reader is gone, is told nothing. The token that an attempt checks for
cancellation is never cancelled (`control.rs:197-208`: the reader cancels a child, and
cancelling a child does not reach its parent), so the branches on it are not taken and are
not modelled.

**FileTransfer.** A message is delivered in any order or lost; the transport sends each on
a stream of its own. `R!ReceivePayload` and `S!HandleAck` are joined to the departure of
the message they consume.

**Manifest.** `Runs` are the runs of `handle_send_files`, all at one transfer id. The encoded
length of an entry is the abstract weight `wire`; `TransferRoom` and `ChunkRoom` are what a frame
leaves for entries. The loop that cuts is `Offset`: where it stands after each turn; a turn cuts at
least one entry, so `MaxEntries` turns are enough. Likewise the chunks collected have indices below
`MaxEntries`, and sorting the indices is going through them. `spoiled` is history: it says whether
anything was lost, refused or dropped.

**ConnectionPool.** An endpoint stands for its public key. `handler[e][c]` is the device
for which a handler of `e` loops on connection `c`. A replaced connection stays open,
because its handler holds a handle to it. An address that cannot be parsed never enters a
book, since the update fails as a whole; the corresponding branch of the dial manager is
not reachable. When a dial ends with `Accept` on the other side still to come, the
connection is in `arrived`.

**PolicySync.** One device and its peers. `self` and `remote` are the rows of the server's
table, `saved` the features in the configuration file. `phase` is where `Daemon::run` is (two
lists and a registration come before the loop) and `step` where `sync_from_server` is. The
directory (`peers`, `disabled`) is set by one call for each peer and feature, each of which
awaits a lock, so readers see it in between. `applied` is history. Starting a feature cannot
fail in this code, so `FollowRow` is one step. The order of the calls is that of two loops;
the model allows any order. Names are left out: any list may bring a new name, which is why
`ApplySelf` may save, and `SavePolicyFails` may happen, although the features are the same.

**Clipboard.** A payload is a version and a value; `fingerprint` hashes both, so that
equality of fingerprints is equality of payloads. `ReadAs` is the conversion that writing and
reading a clipboard is: on Linux a text that names files that exist is read back as those files
(`io/system.rs:86`), so a device may read something else than was written. An action of the
watcher is the code between two awaits; the blob store is waited for only by values that go
through it. A message may be lost after `send` has returned, and `Restart` is a daemon that ends
and starts again: the clipboard stays, `last_emitted` and what was on its way do not. `last_failed`
only suppresses a log line and is left out. `latest` and `disturbed` are history, and so is what
`NoEcho` needs: `origin` is the payload whose write put the value on the clipboard (None for a
user's copy), `readOrigin` that of the value the watcher has read, `overlap` says that a message
began to be applied since the tick, `forgotten` that `last_emitted` is no longer that of `origin`.
The code publishes a peer's value back in three cases, which the property names and which the run
reaches: `overlap`; a value that reads as another payload than the one received (a text read back
as files, and every legacy text, which has version 1 where the watcher builds version 2); and
`forgotten` (the write of a later message failed, a stale round was published, or the daemon was
restarted).

**Accounts.** Each request is at a statement (`pc`), with the columns it loaded (`row`). Sea-orm
writes only the columns that were set, so `TotpEnableCommit` leaves the secret as it is. A
transaction is one step: on SQLite a transaction that has read cannot write after another one
has committed. A request may fail at any statement. Codes and passwords are right, since the
callers are the account's owner; `"revoked"` also stands for expired. `ended`, `confirmed` and
`raced` are history.

**Session.** A pair of tokens is one element. `mem[p]` is the copy of a process, `file` the
credentials file, `store` the browser's storage. A save that fails leaves the old pair, a broken
file or, when only the permissions could not be set, the new pair (`SavedInPart`). A process that has just logged in has no
`credentials_path` (`path[p]` is false), as in `cli/commands/auth.rs`. `Lose` stands for a lost
request or answer. `login`, `heir`, `lost` and `latest` are history. The server is that of
`Accounts` with one step per request.

**Relay.** `chain` lists the relays between the client and the service; `q[d][k]` are the chunks
on link `k`, `fin` says that its writer is done and `gone` that its reader is. Dropping a writer
finishes a link, dropping a reader discards what is on it; a socket, a QUIC stream, an mpsc
channel and a pty have this in common. `relay_bidirectional` is a `"loop"` that holds one chunk
in all. The pty relay has the two flags of its code: its loop may miss the end of `read_task`
(`"blind"`) and then waits for ever for a sender it holds itself (`"stuck"`, `relay.rs:63-76`);
the client learns of the end all the same. One that saw the end of `read_task` is `"joined"`: it holds
the stream until `write_task` is done (`relay.rs:76`). `stage` is how far the session is opened. Its
initial states, next-state relation and specification are `RelayInit`, `RelayNext` and `RelaySpec`,
so that one module of proofs can extend it and `ConnectionPool`.

**SendProgress.** Reports are numbered as they are made, so that "older" can be said of what
the command shows. `pending` and `notified` are the reporter's mutex and `Notify`, `flush` and
`snapshot` its task. `loop` says that the daemon's message loop waits in `report_progress`.
`results` is the vector of `import_sources`, by index, with the file kept at each place, and
`completed` its counter, at which the loop ends. A send that is resumed may find its collection in
the store and import nothing (`Resume`). An import ends early with the first error, when the
command leaves, or when both channels are closed before all results have come; the last needs a
task that panics, in a build that unwinds (the release profile aborts). The coordinator's waiter
is registered before the preparation, so reports and the acknowledgement of an earlier attempt may
come at any time from then on. Byte counts and names are left out. `crossed` is
history. Here too the specification is `ProgressSpec`, with `ProgressInit` and `ProgressNext`.

## Runs

Bounds are the sizes of the constant sets and the named constants `MaxInFlight` (messages
in flight), `MaxTasks`, `MaxMessages` (of `MCFileTransfer`), `MaxEntries`, `MaxCopies`,
`MaxFaults`, `MaxChunks`, `MaxImport` and `MaxRemote`. `Cap`, `ChanCap`, `SockCap` and `RecvCap` are
sizes of buffers of the code, which are larger there.

| run | instance | distinct states | shows |
|---|---|---|---|
| `receive` | 1 transfer, 2 handlers, a startup pass, a watcher, 2 locks, unreadable files | 1,078,780 | `OneReceivePerTransfer`, `AckMeansExported`, `CompleteMeansExported`, `ForgottenOnlyWhenDone` |
| `receive_live` | 1 handler, a pass, a watcher | 96,822 | `EveryTaskEnds`, `WatcherResumes` |
| `send` | 1 transfer, 2 attempts | 2,843,334 | `WaitersAreRegistered`, `ReadyHasHash` |
| `file_transfer` | 1 attempt, 1 handler, a pass, a watcher, 1 message in flight | 829,724 | `SuccessMeansExported`, `SenderForgetsOnlyDelivered`, refinement of `TransferSpec` |
| `manifest` | 2 runs, manifests of 1 to 3 entries | 153,891 | `PlanIsExact`, `SpawnedIsSent`, `IntactManifestIsSpawned` |
| `pool` | 2 endpoints, 2 devices, 2 connections | 51,680 | `PooledIsHandled`, `AbsentIsDialed` |
| `policy` | 1 peer, 2 features | 766,245 | `OnlySharedRecipients`, `EnabledIsRunning`, `PolicyArrives` |
| `clipboard` | 2 devices, 2 copies, 3 values, 1 old text, 2 faults | 517,709 | `NoEcho`, `QuietMeansEqual`, `CopyReachesAll` |
| `accounts` | 3 requests, 3 tokens, 2 secrets, 1 pairing code, 1 recovery code | 823,782 | `EndedSessionsStayEnded`, `EnabledIsConfirmed`, `OffOnlyByDisable` |
| `session` | 2 processes, 2 web requests, 3 pairs of tokens | 324,964 | `OneTokenPerLogin`, `FileIsNewest`, `RefusedOnlyWhenOvertaken` |
| `relay` | both chains, 2 chunks each way, room for 1 chunk | 237,304 | `PrefixDelivered`, `ResponseComplete`, `ClientLearnsEnd` |
| `send_progress` | 2 files, 2 slots, all buffers of 1, 2 reports of the receiver | 1,415,446 | `OutcomeIsLast`, `CollectionIsComplete`, `NeverShowsOlder`, `AttemptEnds` |

Why these are enough. Transfers do not share locks, files or waiters, so one transfer with
several tasks has all the interference there is, except that a pass visits several saved
states, which the proofs cover. Three tasks and a pass suffice for the lock map: one that
holds, one that waits and one that arrives after the entry was removed; with two locks a
second identity can appear. One hash suffices where the property does not compare
contents; the proofs have arbitrarily many. In `send`, two attempts replace each other.
In `file_transfer` only one receiver task runs at a time (`MCFileTransfer!Bounded` says
which cases are left to `receive`), because the question is the protocol between the
halves and not the interleaving inside one. Both halves crash and time out there, and the
message may be lost. In `manifest`, three entries of different lengths, with room for two
in a chunk, give one to three chunks, a last chunk that is shorter and a halved one. The
runs send the same files (`FilesChange = FALSE`): chunks carry no hash, so when files
change between two runs whose chunks overlap, a mixture with the right number of
entries and bytes is accepted. In `pool`, two connections are those of a simultaneous dial; the
laptop's book may also hold a text that is no key. A stale device with the key of another
device, or with the laptop's own, is covered by the theorem. In `policy`, peers do not influence each other: the entries of
one peer, with two features to set one after the other, show every mixture of an old and a
new list, and the peer may be deleted and come back with its old entries still in `disabled`.

In `clipboard`, two copies are a copy that meets another one or follows it, and one of them may
come from an old device; two faults (failures, lost messages, restarts, meetings) allow a message
to meet the watcher in the middle of a round after something else has failed. In `accounts`, a race needs two requests, and the third
one comes between their steps (a disable between an enable and another setup); three tokens are
a login, its rotation and a session of before. In `session`, three pairs are two logins and a
refresh, or one login and two refreshes, which is what it takes to overwrite a newer pair. In
`relay`, buffers of one chunk make every write wait that can wait; two chunks tell order and
repetition. In `send_progress`, buffers of one make every sender wait for every reader, and two
files finish in either order; only one offset within a file is reported.

`TypeOK` (`SyncTypeOK` in `PolicySync`) is checked where a mutant of the code can break it; in
`Manifest`, `Clipboard`, `Session`, `Relay` and `SendProgress` it documents the types, and where a
proof needs it, a theorem or an invariant has it.

In `receive_live`, `MaxInFlight` is 0, so every acknowledgement is lost; the receiver's
tasks do not read them. Its state files are readable:
an unreadable one ends a pass, after which the watcher takes the peer for known and does
not resume until the peer reconnects.

Every property has a mutant of the code that breaks it, listed in `PROJECT.json`; the
mutated definitions stand before the ones they replace.

## Fairness

Weak fairness is assumed of steps that a ready task takes by itself, since tokio polls every
ready task. `AcquireLock` has strong fairness, because tokio's mutex is first come, first
served. A download or import ends or fails, `transport.send` returns, and timers fire.
Nothing is assumed of users, peers, the network or crashes: `WatcherResumes` allows the
sender to leave, and `AbsentIsDialed` is about behaviours that are eventually calm.
`PolicyArrives` is about a device table that stops changing and a daemon that no longer
fails; nobody need start the daemon.

In `clipboard`, a round of the watcher after its read and a message in its handler are one task
each, and one of its steps is next (`RoundStep`, `ApplyStep`). `Read` has strong fairness: a read that fails now and then is tried again every
300 ms, and one of the reads succeeds. Taking up a message (`BeginApply`, `Refuse`) has it because the handler may be kept from
a message only by the bound on meetings with the watcher. Nobody need copy, and nothing need
fail. In `relay`, the tasks of both daemons and of the command run and the client reads; nothing
is assumed of user, service or network, and neither `Dispatch` nor `Open` is fair, since the
property starts when the end is decided. In `send_progress`, imports end or fail, the deadline
of the acknowledgement comes, and the command reads or is interrupted: a command that is
stopped (neither reads nor closes) is excluded, because it fills socket and channel and holds up
the attempt and with it the daemon's loop.

## Proofs

All theorems are for arbitrary constants under the `ASSUME` of their module, which only
keeps identities apart and bounds natural; `Manifest` also assumes that each single entry fits a
chunk's frame, which the code asserts (`manifest.rs:67`). `FileTransfer` assumes of its constants what its two
halves assume of theirs. `Relay` also assumes a longest chain, and at most one pty relay in a
chain, since `reader` and `streamOpen` are of the only one. The modules are written without
`RECURSIVE`.

**ReceiveTransferProofs.** `TypeCorrect` needs more than `TypeOK`: handlers and resume
passes stay at labels of their own, and a task that works on a transfer has one, with a hash
(`TaskOK`). `OneReceive` is the heart. Exclusion does not follow from the mutex alone, since
two tasks could hold two locks of one transfer. The invariant `LockInv` adds that a task has
a clone of a lock exactly while it waits, holds the guard or cleans up; that the map then
still holds the very lock it cloned, so that all clones for a transfer are the same lock; and
that a task at a locked label is the holder. Removal keeps it because `OnlyReference` leaves
no other clone.
`AckSound`, `CompleteSound` and `ForgetsOnlyDone` rest on `ExportInv`. It says that a task
past its export has exported what it will acknowledge or save, and that a task about to
repeat an acknowledgement or to remove a state does so for an exported transfer.

**SendTransferProofs.** `TypeCorrect`, with `AttemptOK` for what an attempt knows at each
label; `HashBeforeSend`, in which the file and the attempt's copy need the hash together,
because attempts overwrite one file and resume from it; `WaitersRegistered`, which is
inductive on top of the type invariant. `SendInv` adds what an attempt's result has to do with
its label (`OutcomeOK`). An attempt *claims* a success when its channel or its result says so.
`InternalClaims`, `HandleAckClaims` and `PayloadClaims` say that a step adds no claim but of a
transfer whose acknowledgement it handles, and that what it reports or removes was claimed
before or is being cancelled.

**FileTransferProofs, composition.** Each step of the composition is a step, or none, of each half
(`StepOfEach`), so that the invariants of the halves (`Halves`) hold of it without being proved
again. `FileInv` adds `SuccessMeansExported`. One step keeps it: a new claim is of a transfer whose
acknowledgement was in flight, the receiver's `ExportInv` says that this transfer was exported, and
what was exported stays so. From it follow `SuccessSound`, the action property
`SenderForgetsOnlyDelivered` (`SenderKeepsUndelivered`) and `Refinement`: with `delivered` mapped to
the exported collections and `reported` to the completions shown to the user, a step is a
delivery, a report of a delivered transfer, or a stutter of `TransferSpec`.

**FileTransferProofs, progress.** `CollectionComplete` needs to count: a result that was taken is
kept at its own index and `completed` is the number of files taken, so none is missing when the
count has reached the number of files (`CollectionInv`; the step from the count to the set is a
fact about cardinality). `OutcomeLast`: the outcome is written once, by the handler that ends,
when the writer and the flush task are gone and the channel is empty (`OutcomeInv`). `NeverOlder`
is an action property. Its invariant `OrderInv` says that, unless a report was numbered between
the flush task's taking of another and its numbering (`crossed`), sequence numbers have the
order of the reports wherever events are, and what has no number yet is no older than what has.

**TransportProofs, connection pool.** `PoolInv` joins types and `PooledIsHandled` with two facts: a
connection that a dial manager is about to register has no handler at its endpoint yet
(`DialOK`), and one that waits for `Accept` has none at the acceptor, which is not the
dialler (`ArrivalOK`). Without them, registering could turn the handler of another device's
entry into one for this device and leave that entry without a handler.

**TransportProofs, relays.** `PrefixAlways` and `ResponseAlways`, for chains of any length. The
invariant `RelayInv` says that there are counters, not kept by the program, of the chunks put on
and taken from each link so far. A link then holds exactly the numbers between the two
(`LinkOK`), a relay the last one it took (`HoldOK`), and a link was never given more than was taken
from the links before it (`CountsOK`). All steps but four leave the counters alone: they discard
chunks only with the reader of a link, or in a relay that does not read on (`Discards`), which is
why a gap never follows what was received. For the response, `CutInv` says why a link ends: a
relay that drops the reader of one direction ends the client's direction too. `DrainOK` says that
while the client's side is open, the connection stands and no chunk of the client's was lost, a
link to the client ends only after the whole response was put on it. A relay may end because a
write towards the service failed; then it loses the chunk it holds, so a client whose input
all arrived has not met that case.

**ManifestProofs.** `PlanExact` holds for every manifest and all frame sizes. The library's induction
theorems cannot be used, so induction is over sets: a set of naturals that holds 0 and with each
number the next is all of `0..n`, because its complement would have a least member (`InductionTo`).
`RecursionExists` follows: a function defined by recursion over `0..n` exists, and what CHOOSE picks
satisfies its equations. The offset then moves by a chunk that is not empty and fits
(`ChunkFits`), reaches the end (`OffsetGrows`), and the chunks up to a turn hold the entries up to its
offset (`ChunksJoin`). `SpawnedSent` and `IntactSpawned` have the hypothesis `~FilesChange`, which is
also that of the run: without it they are false (see [runs](#runs)). The invariant `ManifestInv` says that
runs send one manifest (`SameFiles`), that what is collected are chunks of it under their own
indices (`CollectedInv`), that between two messages it is not complete (`TriedInv`), and that, while
nothing was lost and nothing handed on, every planned envelope is still to be sent, on its way or
collected (`IntactInv`). `Gathered` turns numbers into contents: since no chunk is empty, as many
entries as the header announced are all of them, in order, whichever chunks came first or
twice. `ManifestTyped` needs no hypothesis.

**ClientProofs, policy.** `OnlyShared` needs `SetAsListed`: in the middle of
`apply_server_devices`, an entry of a listed peer that has been set is disabled unless the
list shares it. This is what makes the replacement of the peers, the last step, safe; before
it the peers are those of the policy applied earlier. `TypeCorrect` also shows at which steps
a list is at hand. `EnabledRuns` is inductive as it stands.

**AccountsProofs.** `TypeCorrect`, `SessionsStayEnded`, `ConfirmedSecret`, `TurnedOffByDisable`. The
invariant `AccountsInv` adds `LoadedOK` to the types and the two invariants: a setup or an enable
has loaded a row with two-factor login off, and an enable one with a secret. Without it an
enable could confirm a secret it never loaded. `OffOnlyByDisable` is an action property and
follows from `LoadedOK`: a setup that is not outdated finds two-factor login off.

**ClientProofs, session.** `NeverForked`, `NewestInFile`, `RefusedWhenOvertaken`. None of the three is
inductive alone. `SessionInv` says of every pair where it comes from and where its copies are:
a pair that works has not been traded in and goes back to a login that was issued (`IssuedOK`);
what somebody holds was issued (`HeldOK`); an answer on its way is the only copy of its pair
(`FreshOK`); processes and pages share no pair (`ApartOK`); and a process that traded its own copy
in has the new pair, is about to get it, or lost it (`OwnOK`).

**ClipboardProofs.** `TypeCorrect`, `LoopGuard` (`NoEcho`) and `SameEverywhere` (`QuietMeansEqual`), for
any set of devices and any conversion between what is written and what is read. For `NoEcho`
the invariant `EchoInv` says when `applying_remote` is set and what a round knows: a round that a
handler works beside is marked (`TasksOK`), a clipboard that a message wrote has that message's
fingerprint in `last_emitted` once the handler is done, unless `forgotten` (`OriginOK`), and so a round
that read it, met no message and builds the payload that was received finds it there and ends
(`RoundOK`). Each of the three exceptions of `NoEcho` is needed by one of these steps. For `QuietMeansEqual`, `CopyOK` follows an undisturbed
copy: as long as it is not emitted nothing at all is under way (`Before`); afterwards every device
has it, or it is in a message to the device, in its handler or in a publish that has not tried
the device yet (`After`); and no round without an overlap has anything else to emit
(`OnlyLatest`). A quiet system contradicts the first and leaves only "has it" of the second.

Only model-checked: liveness (outside the provers' reach, as is `ENABLED`). Of the folds, only that
over one entry is proved about (`WireOfOne`); no theorem needs the sum over more.

## Known disagreements

Six statements of the repository's comments, messages and help texts do not hold of the code.
Each is a property of its module with a configuration of its own, outside the list of runs, and
TLC finds it violated (`tlc -config <file>.cfg <MC module>`).

| configuration | property | what the repository says |
|---|---|---|
| `ReceiveTransferRemoval.cfg` | `RemovesOnlyCompleted` | "failed to remove completed receive state" (`failsafe-send/src/resume.rs:62`) |
| `SendTransferCancel.cfg` | `CancelledNeverSends` | "Cancel all incomplete sends and receives." (`failsafe/src/cli/args.rs:97`) |
| `ConnectionPoolListing.cfg` | `ActiveIsListed` | "Peers with an active transport session." (`failsafe-transport/src/transport.rs:26`) |
| `PolicySyncRemoval.cfg` | `RemovedStops` | "this device was removed from your account; ..." (`failsafe/src/error.rs:26`) |
| `SessionSignOut.cfg` | `SignsOutOnlyDead` | "Your session expired. Please sign in again." (`LoginPage.tsx:159`) |
| `SessionLogin.cfg` | `LoginSticks` | "Credentials saved to {}" (`failsafe/src/cli/commands/auth.rs:87`) |

* A resume pass acknowledges and removes the state file after it has released the lock
  (`resume.rs:53-64`). A handler of a repeated manifest may have started the receive again by
  then: its state is removed and a crash then has nothing to resume.
* `CancelAll` tells the waiter, but an attempt looks at its channel only when it waits. One
  that is importing saves its state again and sends its manifest.
* A handler that ends removes the device, whichever connection the pool holds
  (`manager.rs:281`, `protocol.rs:90`). After a simultaneous dial the device can be unlisted while
  a connection to it is open and served. The next dial pass repairs it (`AbsentIsDialed`).
* The daemon means to stop when its device was removed, and looks for that in the error of the
  heartbeat (`daemon.rs:314`). The client takes only a 403 for it (`server.rs:286`), while the
  server answers the heartbeat of a deleted device with 404 (`routes/devices.rs:218`, and the test
  at `tests.rs:1002`). The daemon goes on with the features it had; only a restart notices.
* Two requests of the web interface that find the access token expired both trade in the
  refresh token (`api.ts:76`). The second is refused and clears the storage, in which the first
  has just put a pair that works.
* The daemon keeps its own copy of the credentials and saves what it refreshed over the file
  (`server.rs:275`), also when a login has saved another session there since.

Met while modelling, without a statement they contradict: the timer for missing chunks is keyed
by the transfer id, so that the timer of a first attempt can drop what a second one has
collected (`feature.rs:494`); a login that checked the old password may be issued its token after
the password change that revokes all others (`routes/auth.rs:98-112`); an enable may turn on
two-factor login for a secret that a later setup has replaced, or a disable removed (the history
variable `raced`); the host task of a shell session can wait for ever (`"stuck"` in `Relay`); a
connection that is refused by the host was reported `Ready` to the client before.

## What is not modelled

* Contents and names of files, sizes, limits, previews (`files.rs`, `timeout.rs`), notifications,
  log lines (`notify.rs`, `log.rs`): a failure of any of them is a failure of the step that uses it.
* Database schema, type bindings and presentation of the web interface: declarative or generated.
* Presence: `last_seen` compared with a limit; whether a listed device is online is the
  environment's choice.
* Cryptography, password hashing, the form of tokens and codes.
* The blob store and QUIC, except for what the code sees of them: a step ends or fails, a
  connection opens or breaks, a message arrives or does not.
* The receive directory, which is not part of the saved state; a resume exports into a new
  one, and delivering twice is allowed by `TransferSpec`.
* The number of open connections: with two devices under one key, each dial pass opens one
  more connection, whose predecessors stay open. The model reuses identities and bounds them.
