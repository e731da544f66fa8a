------------------------------ MODULE Manifest ------------------------------
(***************************************************************************)
(* The manifest of a transfer on its way from one device to another:        *)
(* crates/failsafe-send, manifest.rs (plan_transfer_envelopes,              *)
(* ChunkedTransfer) and the chunk handling of feature.rs.  A manifest that  *)
(* does not fit into one frame is cut into a header, chunks of entries and  *)
(* an end; each envelope travels on a stream of its own, so they overtake   *)
(* each other.  All runs are at one transfer id.                            *)
(***************************************************************************)
EXTENDS Naturals, Sequences, FiniteSets, SequencesExt

CONSTANTS
    Runs,                 \* runs of handle_send_files, attempts at the transfer
    Entry,                \* file entries, [name, wire (encoded length), size (of the file)]
    MaxEntries,           \* bound: entries of a manifest
    TransferRoom,         \* encoded entries that fit into a frame with the whole payload
    ChunkRoom,            \* ... and with a chunk
    InitialChunkEntries,  \* INITIAL_CHUNK_ENTRIES
    FilesChange,          \* whether the files may differ between runs
    Absent                \* absent

ASSUME ManifestConstants ==
    /\ \A e \in Entry : e.wire \in 1..ChunkRoom /\ e.size \in Nat
    /\ {MaxEntries, TransferRoom, ChunkRoom, InitialChunkEntries} \subseteq Nat
    /\ InitialChunkEntries > 0
    /\ FilesChange \in BOOLEAN

VARIABLES
    manifest,        \* the entries each run sends, Absent before it starts
    unsent,          \* envelopes that its loop has still to send
    net,             \* envelopes in flight
    pendingChunked,  \* pending_chunked_transfers: the entry of the transfer
    finalizing,      \* handle_message between push_chunk or mark_end and try_finalize
    timers,          \* tasks of spawn_incomplete_chunk_timeout that sleep
    spawned,         \* payloads given to spawn_transfer_handler
    spoiled          \* history: an envelope or a pendingChunked entry was lost

manifestVars ==
    <<manifest, unsent, net, pendingChunked, finalizing, timers, spawned, spoiled>>

Wire(es) == FoldSeq(LAMBDA e, n : e.wire + n, 0, es)
Bytes(es) == FoldSeq(LAMBDA e, n : e.size + n, 0, es)

----------------------------------------------------------------------------
(* plan_transfer_envelopes.                                                 *)

\* The lengths the inner loop tries, from n by halves.
HalfLengths(n) == {h \in 1..n : \E k \in 0..n : h = n \div 2^k}

\* A loop that does not try whether the chunk fits.
FirstLen(es, offset) == IF Len(es) - offset < InitialChunkEntries
                        THEN Len(es) - offset ELSE InitialChunkEntries

\* The first length tried whose chunk fits, else a single entry.
ChunkLen(es, offset) ==
    LET left  == Len(es) - offset
        first == IF left < InitialChunkEntries THEN left ELSE InitialChunkEntries
        fits  == {n \in HalfLengths(first) : Wire(SubSeq(es, offset + 1, offset + n)) <= ChunkRoom}
    IN  IF fits = {} THEN 1 ELSE CHOOSE n \in fits : \A k \in fits : k <= n

\* The offset after k turns of the outer loop, which ends at the length of the manifest:
\* there are at most as many turns as entries.
Offset(es) ==
    LET offset[k \in 0..MaxEntries] ==
            IF k = 0 THEN 0
            ELSE LET o == offset[k - 1]
                 IN  IF o < Len(es) THEN o + ChunkLen(es, o) ELSE o
    IN  offset

\* How often the loop turns.
ChunkCount(es) ==
    CHOOSE n \in 0..MaxEntries :
        /\ Offset(es)[n] >= Len(es)
        /\ \A k \in 0..MaxEntries : Offset(es)[k] >= Len(es) => n <= k

Chunks(es) ==
    [i \in 1..ChunkCount(es) |-> SubSeq(es, Offset(es)[i - 1] + 1, Offset(es)[i])]

Header(a, es) == [kind |-> "header", hash |-> a, count |-> Len(es), bytes |-> Bytes(es)]
Chunk(a, i, es) == [kind |-> "chunk", sentBy |-> a, index |-> i, entries |-> es]
End(a, n) == [kind |-> "end", sentBy |-> a, count |-> n]
Payload(a, es) == [kind |-> "transfer", hash |-> a, entries |-> es]

\* The collection hash stands for its run; sentBy only tells envelopes apart.
PlanTransferEnvelopes(a, es) ==
    IF Wire(es) <= TransferRoom
    THEN <<Payload(a, es)>>
    ELSE LET cs == Chunks(es)
         IN  <<Header(a, es)>> \o [i \in 1..Len(cs) |-> Chunk(a, i - 1, cs[i])]
                \o <<End(a, Len(cs))>>

----------------------------------------------------------------------------
(* The sender.                                                              *)

\* Entries have different names.
Manifests == {es \in UNION {[1..n -> Entry] : n \in 1..MaxEntries} :
                 \A i, j \in DOMAIN es : es[i].name = es[j].name => i = j}

\* ChunkedTransfer: the header, the chunks by their index and the count of the end.
Chunked ==
    [hash : Runs, count : 1..MaxEntries, bytes : {Bytes(es) : es \in Manifests},
     chunks : UNION {[D -> SeqOf(Entry, MaxEntries)] : D \in SUBSET (0..(MaxEntries - 1))},
     expected : (1..MaxEntries) \cup {Absent}]

\* What is absent is none of the values it stands in for.
ASSUME AbsentIsNoValue ==
    Absent \notin Manifests \cup (1..MaxEntries) \cup {"chunk", "end"} /\ Absent \notin Chunked

ManifestInit ==
    /\ manifest = [a \in Runs |-> Absent]
    /\ unsent = [a \in Runs |-> <<>>]
    /\ net = {}
    /\ pendingChunked = Absent
    /\ finalizing = Absent
    /\ timers = 0
    /\ spawned = {}
    /\ spoiled = FALSE

StartAttempt(a, es) ==
    /\ manifest[a] = Absent
    /\ ~FilesChange => \A b \in Runs : manifest[b] \in {Absent, es}
    /\ manifest' = [manifest EXCEPT ![a] = es]
    /\ unsent' = [unsent EXCEPT ![a] = PlanTransferEnvelopes(a, es)]
    /\ UNCHANGED <<net, pendingChunked, finalizing, timers, spawned, spoiled>>

\* transport.send of the next envelope.
SendEnvelope(a) ==
    /\ unsent[a] # <<>>
    /\ net' = net \cup {Head(unsent[a])}
    /\ unsent' = [unsent EXCEPT ![a] = Tail(@)]
    /\ UNCHANGED <<manifest, pendingChunked, finalizing, timers, spawned, spoiled>>

\* transport.send fails: the rest is not sent.
SendFails(a) ==
    /\ unsent[a] # <<>>
    /\ unsent' = [unsent EXCEPT ![a] = <<>>]
    /\ spoiled' = TRUE
    /\ UNCHANGED <<manifest, net, pendingChunked, finalizing, timers, spawned>>

----------------------------------------------------------------------------
(* The receiver: ChunkedTransfer and handle_message.                        *)

\* The entries collected under an index, none where the chunk has not come.
ChunkAt(s, i) == IF i \in DOMAIN s.chunks THEN s.chunks[i] ELSE <<>>

EntriesReceived(s) ==
    LET received[k \in 0..MaxEntries] ==
            IF k = 0 THEN 0 ELSE received[k - 1] + Len(ChunkAt(s, k - 1))
    IN  received[MaxEntries]

\* A manifest is taken for complete as soon as End has come.
EndIsEnough(s) == s.expected # Absent

IsComplete(s) ==
    /\ EntriesReceived(s) = s.count
    /\ s.expected = Absent \/ Cardinality(DOMAIN s.chunks) = s.expected

\* The chunks in some order of the map, not in that of their indices.
UnsortedEntries(s) ==
    LET entries[k \in 0..MaxEntries] ==
            IF k = 0 THEN <<>> ELSE ChunkAt(s, k - 1) \o entries[k - 1]
    IN  entries[MaxEntries]

\* into_payload: the chunks in the order of their indices, which are below MaxEntries.
SortedEntries(s) ==
    LET entries[k \in 0..MaxEntries] ==
            IF k = 0 THEN <<>> ELSE entries[k - 1] \o ChunkAt(s, k - 1)
    IN  entries[MaxEntries]

\* handle_message takes one message at a time.
Dispatch(m, kind) ==
    /\ finalizing = Absent
    /\ m \in net
    /\ m.kind = kind
    /\ net' = net \ {m}

HandleTransfer(m) ==
    /\ Dispatch(m, "transfer")
    /\ spawned' = spawned \cup {[hash |-> m.hash, entries |-> m.entries]}
    /\ UNCHANGED <<manifest, unsent, pendingChunked, finalizing, timers, spoiled>>

\* A header replaces what was collected for the transfer.
HandleHeader(m) ==
    /\ Dispatch(m, "header")
    /\ pendingChunked' = [hash |-> m.hash, count |-> m.count, bytes |-> m.bytes,
                          chunks |-> <<>>, expected |-> Absent]
    /\ spoiled' = (spoiled \/ pendingChunked # Absent)
    /\ UNCHANGED <<manifest, unsent, finalizing, timers, spawned>>

\* A chunk or an end of an unknown transfer is refused.
Refuse(m) ==
    /\ Dispatch(m, "chunk") \/ Dispatch(m, "end")
    /\ pendingChunked = Absent
    /\ spoiled' = (spoiled \/ spawned = {})
    /\ UNCHANGED <<manifest, unsent, pendingChunked, finalizing, timers, spawned>>

HandleChunk(m) ==
    /\ Dispatch(m, "chunk")
    /\ pendingChunked # Absent
    /\ pendingChunked' = [pendingChunked EXCEPT !.chunks = [i \in DOMAIN @ \cup {m.index} |->
                        IF i = m.index THEN m.entries ELSE @[i]]]
    /\ finalizing' = "chunk"
    /\ UNCHANGED <<manifest, unsent, timers, spawned, spoiled>>

HandleEnd(m) ==
    /\ Dispatch(m, "end")
    /\ pendingChunked # Absent
    /\ pendingChunked' = [pendingChunked EXCEPT !.expected = m.count]
    /\ finalizing' = "end"
    /\ UNCHANGED <<manifest, unsent, timers, spawned, spoiled>>

\* An end that does not complete the manifest starts a timer.
TimersAfterTry == IF finalizing = "end" THEN timers + 1 ELSE timers

\* try_finalize_chunked_transfer; into_payload fails on another number of bytes.
TryFinalize ==
    /\ finalizing # Absent
    /\ finalizing' = Absent
    /\ IF pendingChunked # Absent /\ IsComplete(pendingChunked)
       THEN /\ pendingChunked' = Absent
            /\ spawned' = IF Bytes(SortedEntries(pendingChunked)) = pendingChunked.bytes
                          THEN spawned \cup {[hash |-> pendingChunked.hash,
                                              entries |-> SortedEntries(pendingChunked)]}
                          ELSE spawned
            /\ UNCHANGED timers
       ELSE /\ timers' = TimersAfterTry
            /\ UNCHANGED <<pendingChunked, spawned>>
    /\ UNCHANGED <<manifest, unsent, net, spoiled>>

\* Sixty seconds after an end: whatever is pending for the transfer is dropped.
ChunkTimeout ==
    /\ timers > 0
    /\ timers' = timers - 1
    /\ pendingChunked' = Absent
    /\ spoiled' = (spoiled \/ pendingChunked # Absent)
    /\ UNCHANGED <<manifest, unsent, net, finalizing, spawned>>

\* A connection closes with streams unread, or the registry does not dispatch.
LoseEnvelope(m) ==
    /\ m \in net
    /\ net' = net \ {m}
    /\ spoiled' = TRUE
    /\ UNCHANGED <<manifest, unsent, pendingChunked, finalizing, timers, spawned>>

\* The receiving daemon restarts.
Restart ==
    /\ pendingChunked' = Absent
    /\ finalizing' = Absent
    /\ timers' = 0
    /\ spoiled' = TRUE
    /\ UNCHANGED <<manifest, unsent, net, spawned>>

ManifestNext ==
    \/ \E a \in Runs, es \in Manifests : StartAttempt(a, es)
    \/ \E a \in Runs : SendEnvelope(a) \/ SendFails(a)
    \/ \E m \in net :
        \/ HandleTransfer(m)
        \/ HandleHeader(m)
        \/ HandleChunk(m)
        \/ HandleEnd(m)
        \/ Refuse(m)
        \/ LoseEnvelope(m)
    \/ TryFinalize
    \/ ChunkTimeout
    \/ Restart

ManifestSpec == ManifestInit /\ [][ManifestNext]_manifestVars

----------------------------------------------------------------------------
(* Properties.                                                              *)

Started == {a \in Runs : manifest[a] # Absent}

\* The envelopes a run has to send.
Planned(a) == IF a \in Started THEN Range(PlanTransferEnvelopes(a, manifest[a])) ELSE {}

ManifestTypeOK ==
    /\ manifest \in [Runs -> Manifests \cup {Absent}]
    /\ DOMAIN unsent = Runs /\ \A a \in Runs : unsent[a] \in Seq(Planned(a))
    /\ net \subseteq UNION {Planned(a) : a \in Runs}
    /\ pendingChunked # Absent => pendingChunked \in Chunked /\ pendingChunked.hash \in Started
    /\ finalizing \in {Absent, "chunk", "end"}
    /\ timers \in Nat
    /\ \A s \in spawned : s.hash \in Started
    /\ spoiled \in BOOLEAN

\* The loop with its halving cuts every manifest into chunks that fit a frame and that
\* together hold every entry once and in order (manifest.rs:42).
PlanIsExact ==
    \A a \in Started :
        LET cs == Chunks(manifest[a])
        IN  /\ FlattenSeq(cs) = manifest[a]
            /\ \A i \in DOMAIN cs : Wire(cs[i]) <= ChunkRoom /\ Len(cs[i]) <= InitialChunkEntries

\* What reaches the transfer handler is what the run with that collection hash
\* sent: every entry, in order, although chunks are reordered, the end may come first
\* and chunks of a second run may mix with the first's (manifest.rs:128).
SpawnedIsSent == \A s \in spawned : s.entries = manifest[s.hash]

\* If no envelope was lost or refused and no collected entry dropped, then the manifest
\* is handed on once the last envelope is handled, in whichever order chunks and end
\* came (feature.rs:591, 597).
IntactManifestIsSpawned ==
    /\ Started # {} /\ ~spoiled
    /\ net = {} /\ finalizing = Absent
    /\ \A a \in Runs : unsent[a] = <<>>
    => spawned # {}
============================================================================
