-------------------------------- MODULE Relay --------------------------------
(***************************************************************************)
(* A shell or port-forward session: the bytes of a client and of a service *)
(* pass through a chain of relays (failsafe-transport/src/iroh/stream.rs,  *)
(* failsafe-core/src/io.rs, crates failsafe-shell and failsafe-port).      *)
(*                                                                         *)
(*   port   application - daemon - daemon - service                        *)
(*   shell  terminal - command - daemon - daemon - pty relay - shell       *)
(*                                                                         *)
(* Link k joins party k - 1 to party k; party 0 is the client, parties     *)
(* 1..L the relays, party L + 1 the service.  Each link carries chunks "up" *)
(* to the service and "down" to the client; it is a socket, a QUIC stream, *)
(* a pair of channels or a pty, with room for Cap chunks.                  *)
(***************************************************************************)
EXTENDS Naturals, Sequences, FiniteSets

CONSTANTS
    Chains,     \* the chains: sequences of kinds of relays
    MaxChunks,  \* MaxChunks[d]: how many chunks are sent in a direction
    Cap         \* chunks a link holds

Dirs == {"up", "down"}

\* "streams": relay_shell_streams, relay_shell_to_channels, whose directions
\* run side by side; "loop": relay_bidirectional, which moves one chunk at a
\* time; "pty": relay_channels_to_pty.
Kinds == {"streams", "loop", "pty"}

\* There is a longest chain, and none has two pty relays: reader and streamOpen are
\* of the only one.
ASSUME RelayAssumption ==
    /\ Chains \subseteq Seq(Kinds) \ {<< >>}
    /\ \E c \in Chains : \A e \in Chains : Len(e) <= Len(c)
    /\ \A c \in Chains : \A i, j \in DOMAIN c : c[i] = "pty" /\ c[j] = "pty" => i = j
    /\ MaxChunks \in [Dirs -> Nat]
    /\ Cap \in Nat \ {0}

MaxLen == CHOOSE n \in {Len(c) : c \in Chains} : \A c \in Chains : Len(c) <= n
Links == 1 .. MaxLen + 1
Relays == 1 .. MaxLen

VARIABLES
    chain,      \* the chain of this session
    acceptor,   \* the feature is on at the host: an acceptor is registered
    stage,      \* how far the session has come, one of Stages
    q,          \* q[d][k]: the chunks on a link
    fin,        \* fin[d][k]: its writer is done
    gone,       \* gone[d][k]: its reader is gone
    hold,       \* hold[d][i]: the chunk a relay has read and not written, or 0
    relay,      \* relay[i]: "off", "on", "blind", "stuck", "joined" or "done"
    reader,     \* the pty relay's read_task: "on" or "done"
    streamOpen, \* the pty relay's stream_open
    sent,       \* sent[d]: how many chunks the client or the service wrote
    got,        \* got[d]: the chunks that reached the service or the client
    broken      \* the connection between the daemons was lost

relayVars == <<chain, acceptor, stage, q, fin, gone, hold, relay, reader, streamOpen,
               sent, got, broken>>
linkVars == <<q, fin, gone>>
endVars == <<sent, got>>
ptyVars == <<reader, streamOpen>>
hostVars == <<chain, acceptor, stage, broken>>

\* The command has asked its daemon, the daemon has checked the request, the
\* stream is open, queued for the host task and taken up; or the client's daemon
\* rejected the request, or the host refused the stream.
Stages == {"new", "asked", "checked", "opened", "queued", "accepted",
           "rejected", "refused"}

\* The stream is not open yet.
Opening == {"new", "asked", "checked"}

Last == Len(chain) + 1

\* The link between the daemons.
Wire == IF chain[1] = "loop" THEN 3 ELSE 2

\* The relays of the client's device, and those of the host.
Near == {i \in 1 .. Len(chain) : i < Wire}
Far == {i \in 1 .. Len(chain) : i >= Wire}

Both(x) == [d \in Dirs |-> x]

RelayTypeOK ==
    /\ chain \in Chains
    /\ acceptor \in BOOLEAN
    /\ stage \in Stages
    /\ \A d \in Dirs :
          /\ \A k \in Links :
                /\ Len(q[d][k]) <= Cap
                /\ \A j \in DOMAIN q[d][k] : q[d][k][j] \in 1 .. MaxChunks[d]
          /\ fin[d] \in [Links -> BOOLEAN]
          /\ gone[d] \in [Links -> BOOLEAN]
          /\ hold[d] \in [Relays -> 0 .. MaxChunks[d]]
          /\ sent[d] \in 0 .. MaxChunks[d]
    /\ relay \in [Relays -> {"off", "on", "blind", "stuck", "joined", "done"}]
    /\ reader \in {"on", "done"}
    /\ streamOpen \in BOOLEAN
    /\ broken \in BOOLEAN

RelayInit ==
    /\ chain \in Chains
    /\ acceptor = FALSE
    /\ stage = "new"
    /\ q = Both([k \in Links |-> << >>])
    /\ fin = Both([k \in Links |-> FALSE])
    /\ gone = Both([k \in Links |-> FALSE])
    /\ hold = Both([i \in Relays |-> 0])
    /\ relay = [i \in Relays |-> "off"]
    /\ reader = "on"
    /\ streamOpen = TRUE
    /\ sent = Both(0)
    /\ got = Both(<< >>)
    /\ broken = FALSE

-----------------------------------------------------------------------------
(* The links of a relay. *)

In(d, i) == IF d = "up" THEN i ELSE i + 1
Out(d, i) == IF d = "up" THEN i + 1 ELSE i

\* A link takes another chunk.
Room(d, k) == Len(q[d][k]) < Cap

\* Dropping a stream resets it: what it still carries is discarded.
ResetLinks(d, i) == {In(d, i), Out(d, i)}

\* Dropping the reader of a link discards what is on it; dropping the writer
\* only finishes it.
Discarded(d, i) == {In(d, i)}

\* The relay goes on with its other direction when one has ended.
EndOneSide(i) ==
    /\ relay' = [relay EXCEPT ![i] = "on"]
    /\ UNCHANGED <<q, fin, gone, hold>>

\* The select of the two directions returns, for whatever reason, and both are
\* dropped, with what they hold.
End(i) ==
    /\ relay' = [relay EXCEPT ![i] = "done"]
    /\ fin' = [d \in Dirs |-> [fin[d] EXCEPT ![Out(d, i)] = TRUE]]
    /\ gone' = [d \in Dirs |-> [gone[d] EXCEPT ![In(d, i)] = TRUE]]
    /\ hold' = [d \in Dirs |-> [hold[d] EXCEPT ![i] = 0]]
    /\ q' = [d \in Dirs |-> [k \in Links |->
                IF k \in Discarded(d, i) THEN << >> ELSE q[d][k]]]

-----------------------------------------------------------------------------
(* Opening a session. *)

\* ShellFeature::start, PortFeature::start
FeatureOn ==
    /\ ~acceptor
    /\ stage \in Opening \cup {"opened"}
    /\ acceptor' = TRUE
    /\ UNCHANGED <<chain, stage, broken, hold, relay>>
    /\ UNCHANGED <<linkVars, endVars, ptyVars>>

\* A session that no host task takes up is dropped with its streams.
Refuse ==
    /\ stage' = "refused"
    /\ fin' = [fin EXCEPT !["down"][Wire] = TRUE]
    /\ gone' = [gone EXCEPT !["up"][Wire] = TRUE]
    /\ q' = [q EXCEPT !["up"][Wire] = << >>]

\* stop: the host task is aborted with what is queued for it, then the acceptor
\* is cleared.  A session that was taken up goes on: stopping changes nothing
\* for it, and is not a step then.
FeatureOff ==
    /\ acceptor
    /\ stage # "accepted"
    /\ acceptor' = FALSE
    /\ IF stage = "queued" THEN Refuse ELSE UNCHANGED <<stage, q, fin, gone>>
    /\ UNCHANGED <<chain, broken, hold, relay>>
    /\ UNCHANGED <<endVars, ptyVars>>

\* shell, port: the server lists the target as online, and the command sends its
\* request and the control token to the daemon.
Request ==
    /\ stage = "new"
    /\ stage' = "asked"
    /\ UNCHANGED <<chain, acceptor, broken, hold, relay>>
    /\ UNCHANGED <<linkVars, endVars, ptyVars>>

\* The client is told of an error, or its connection is dropped.
Reject ==
    /\ stage' = "rejected"
    /\ fin' = [fin EXCEPT !["down"][1] = TRUE]
    /\ gone' = [gone EXCEPT !["up"][1] = TRUE]
    /\ q' = [q EXCEPT !["up"][1] = << >>]

\* handle_connection and dispatch_request find the handler, which checks the two
\* devices' features, as this daemon last synchronised them, and the
\* connection; a port forward then listens for applications.  Any of it may
\* fail, whatever the host has registered by now.
Dispatch ==
    /\ stage = "asked"
    /\ \/ stage' = "checked" /\ UNCHANGED linkVars
       \/ Reject
    /\ UNCHANGED <<chain, acceptor, broken, hold, relay>>
    /\ UNCHANGED <<endVars, ptyVars>>

\* open_shell_stream, open_port_stream: the stream is opened on the pooled
\* connection, its header written and Ready returned, before the host has seen
\* it; the client's side relays from now on.
Open ==
    /\ stage = "checked"
    /\ stage' = "opened"
    /\ relay' = [i \in Relays |-> IF i \in Near THEN "on" ELSE "off"]
    /\ UNCHANGED <<chain, acceptor, broken, hold>>
    /\ UNCHANGED <<linkVars, endVars, ptyVars>>

\* The peer is no longer connected, or the stream cannot be opened.
OpenFails ==
    /\ stage = "checked"
    /\ Reject
    /\ UNCHANGED <<chain, acceptor, broken, hold, relay>>
    /\ UNCHANGED <<endVars, ptyVars>>

\* handle_incoming_bi_stream reads the header and hands the stream to the
\* acceptor, if there is one.
Arrive ==
    /\ stage = "opened"
    /\ ~broken
    /\ \/ acceptor /\ stage' = "queued" /\ UNCHANGED linkVars
       \/ ~acceptor /\ Refuse
    /\ UNCHANGED <<chain, acceptor, broken, hold, relay>>
    /\ UNCHANGED <<endVars, ptyVars>>

\* The host task spawns handle_incoming_shell or handle_incoming_port, which
\* starts the shell or connects to the service.
AcceptSession ==
    /\ stage = "queued"
    /\ stage' = "accepted"
    /\ relay' = [i \in Relays |-> IF i \in Far THEN "on" ELSE relay[i]]
    /\ UNCHANGED <<chain, acceptor, broken, hold>>
    /\ UNCHANGED <<linkVars, endVars, ptyVars>>

\* The shell does not start; nothing listens on the port.
NoService ==
    /\ stage = "queued"
    /\ Refuse
    /\ UNCHANGED <<chain, acceptor, broken, hold, relay>>
    /\ UNCHANGED <<endVars, ptyVars>>

\* The connection is lost: the daemons' streams fail, and what was on them is
\* gone.
ConnectionLost ==
    /\ ~broken
    /\ stage \notin Opening \cup {"rejected"}
    /\ broken' = TRUE
    /\ q' = [d \in Dirs |-> [q[d] EXCEPT ![Wire] = << >>]]
    /\ fin' = [d \in Dirs |-> [fin[d] EXCEPT ![Wire] = TRUE]]
    /\ gone' = [d \in Dirs |-> [gone[d] EXCEPT ![Wire] = TRUE]]
    /\ UNCHANGED <<chain, acceptor, stage, hold, relay>>
    /\ UNCHANGED <<endVars, ptyVars>>

-----------------------------------------------------------------------------
(* Relays. *)

\* A loop reads no second chunk before it has written the first.
Free(d, i) ==
    IF chain[i] = "loop" THEN hold["up"][i] = 0 /\ hold["down"][i] = 0
                         ELSE hold[d][i] = 0

\* The direction is being relayed: in the pty relay each has a task of its own.
Reading(d, i) ==
    /\ i \in 1 .. Len(chain)
    /\ Free(d, i)
    /\ IF chain[i] = "pty"
         THEN IF d = "down" THEN relay[i] # "off" /\ reader = "on"
                            ELSE relay[i] \in {"on", "blind"} /\ streamOpen
         ELSE relay[i] = "on"

Take(d, i) ==
    /\ Reading(d, i)
    /\ q[d][In(d, i)] # << >>
    /\ hold' = [hold EXCEPT ![d][i] = Head(q[d][In(d, i)])]
    /\ q' = [q EXCEPT ![d][In(d, i)] = Tail(@)]
    /\ UNCHANGED <<fin, gone, relay>>
    /\ UNCHANGED <<hostVars, endVars, ptyVars>>

\* The chunk stays in the buffer after it was written.
WrittenTwice(d, i) == hold[d][i]

\* What is left to write after a write.
Written(d, i) == 0

\* The pty relay's loop starts over after a write: its read branch is disabled
\* from then on if read_task has finished meanwhile.
Loops(d, i) ==
    relay' = IF chain[i] = "pty" /\ d = "up" /\ reader = "done" /\ relay[i] = "on"
               THEN [relay EXCEPT ![i] = "blind"]
               ELSE relay

\* A write to a link whose reader is gone may still be accepted.
Put(d, i) ==
    /\ i \in 1 .. Len(chain)
    /\ hold[d][i] # 0
    /\ LET k == Out(d, i) IN
          IF gone[d][k]
            THEN UNCHANGED q
            ELSE /\ Room(d, k)
                 /\ q' = [q EXCEPT ![d][k] = Append(@, hold[d][i])]
    /\ hold' = [hold EXCEPT ![d][i] = Written(d, i)]
    /\ Loops(d, i)
    /\ UNCHANGED <<fin, gone>>
    /\ UNCHANGED <<hostVars, endVars, ptyVars>>

\* A write fails, or a read finds the end.
Ended(d, i) ==
    /\ i \in 1 .. Len(chain)
    /\ \/ hold[d][i] # 0 /\ gone[d][Out(d, i)]
       \/ Reading(d, i) /\ q[d][In(d, i)] = << >> /\ fin[d][In(d, i)]

RelayEnds(d, i) ==
    /\ Ended(d, i)
    /\ chain[i] # "pty"
    /\ End(i)
    /\ UNCHANGED ptyVars
    /\ UNCHANGED <<hostVars, endVars>>

-----------------------------------------------------------------------------
(* The pty relay. *)

\* read_task ends at the end of the shell, or when its output is refused: the
\* channel to the stream is closed.
ReaderEnds(i) ==
    /\ Ended("down", i)
    /\ chain[i] = "pty"
    /\ reader' = "done"
    /\ fin' = [fin EXCEPT !["down"][Out("down", i)] = TRUE]
    /\ gone' = [gone EXCEPT !["down"][In("down", i)] = TRUE]
    /\ hold' = [hold EXCEPT !["down"][i] = 0]
    /\ q' = [q EXCEPT !["down"][In("down", i)] = << >>]
    /\ UNCHANGED <<relay, streamOpen>>
    /\ UNCHANGED <<hostVars, endVars>>

\* stream_open = false: the client has finished, or write_task has.  The loop
\* then waits for read_task only.
StreamEnds(i) ==
    /\ Ended("up", i)
    /\ chain[i] = "pty"
    /\ streamOpen' = FALSE
    /\ hold' = [hold EXCEPT !["up"][i] = 0]
    /\ Loops("up", i)
    /\ UNCHANGED <<q, fin, gone, reader>>
    /\ UNCHANGED <<hostVars, endVars>>

\* The loop sees that read_task has finished, closes the channel to write_task and
\* waits for it; the stream is no longer read.
JoinReader(i) ==
    /\ i \in 1 .. Len(chain)
    /\ chain[i] = "pty"
    /\ relay[i] = "on"
    /\ hold["up"][i] = 0
    /\ reader = "done"
    /\ relay' = [relay EXCEPT ![i] = "joined"]
    /\ fin' = [fin EXCEPT !["up"][Out("up", i)] = TRUE]
    /\ UNCHANGED <<q, gone, hold>>
    /\ UNCHANGED ptyVars
    /\ UNCHANGED <<hostVars, endVars>>

\* write_task has written what was left, or the pty refuses a write: the relay returns.
JoinWriter(i) ==
    /\ i \in 1 .. Len(chain)
    /\ relay[i] = "joined"
    /\ gone["up"][Out("up", i)] \/ q["up"][Out("up", i)] = << >>
    /\ End(i)
    /\ UNCHANGED ptyVars
    /\ UNCHANGED <<hostVars, endVars>>

\* No branch is left: write_task is awaited, which waits for the sender that
\* this task still holds, unless the pty already refused a write.
WriterWaits(i) ==
    /\ i \in 1 .. Len(chain)
    /\ relay[i] = "blind"
    /\ ~streamOpen
    /\ IF gone["up"][Out("up", i)]
         THEN End(i)
         ELSE relay' = [relay EXCEPT ![i] = "stuck"] /\ UNCHANGED <<q, fin, gone, hold>>
    /\ UNCHANGED ptyVars
    /\ UNCHANGED <<hostVars, endVars>>

-----------------------------------------------------------------------------
(* The two ends (external): the user's terminal or application, the shell or *)
(* the service.                                                              *)

\* The link an end writes to and the one it reads from.
First(d) == IF d = "up" THEN 1 ELSE Last
Final(d) == IF d = "up" THEN Last ELSE 1

EndWrites(d) ==
    /\ IF d = "up" THEN stage \notin {"new", "asked"} ELSE stage = "accepted"
    /\ ~fin[d][First(d)]
    /\ sent[d] < MaxChunks[d]
    /\ Room(d, First(d))
    /\ sent' = [sent EXCEPT ![d] = @ + 1]
    /\ q' = [q EXCEPT ![d][First(d)] =
                IF gone[d][First(d)] THEN @ ELSE Append(@, sent[d] + 1)]
    /\ UNCHANGED <<fin, gone, hold, relay, got>>
    /\ UNCHANGED <<hostVars, ptyVars>>

EndReads(d) ==
    /\ ~gone[d][Final(d)]
    /\ q[d][Final(d)] # << >>
    /\ got' = [got EXCEPT ![d] = Append(@, Head(q[d][Final(d)]))]
    /\ q' = [q EXCEPT ![d][Final(d)] = Tail(@)]
    /\ UNCHANGED <<fin, gone, hold, relay, sent>>
    /\ UNCHANGED <<hostVars, ptyVars>>

\* The client closes its side, and perhaps stops reading as well.
ClientCloses ==
    /\ stage \notin Opening
    /\ fin' = [fin EXCEPT !["up"][1] = TRUE]
    /\ \/ UNCHANGED <<q, gone>>
       \/ /\ gone' = [gone EXCEPT !["down"][1] = TRUE]
          /\ q' = [q EXCEPT !["down"][1] = << >>]
    /\ UNCHANGED <<hold, relay>>
    /\ UNCHANGED <<hostVars, endVars, ptyVars>>

\* The service closes the connection; the shell exits, or is hung up when the
\* pty relay is gone.
ServiceCloses ==
    /\ stage = "accepted"
    /\ ~fin["down"][Last]
    /\ fin' = [fin EXCEPT !["down"][Last] = TRUE]
    /\ gone' = [gone EXCEPT !["up"][Last] = TRUE]
    /\ q' = [q EXCEPT !["up"][Last] = << >>]
    /\ UNCHANGED <<hold, relay>>
    /\ UNCHANGED <<hostVars, endVars, ptyVars>>

-----------------------------------------------------------------------------

RelayStep(d, i) == Take(d, i) \/ Put(d, i) \/ RelayEnds(d, i)

PtyStep(i) ==
    \/ ReaderEnds(i) \/ StreamEnds(i)
    \/ JoinReader(i) \/ JoinWriter(i) \/ WriterWaits(i)

RelayNext ==
    \/ FeatureOn \/ FeatureOff
    \/ Request \/ Dispatch \/ Open \/ OpenFails \/ Arrive \/ AcceptSession \/ NoService
    \/ ConnectionLost
    \/ \E i \in Relays : PtyStep(i) \/ \E d \in Dirs : RelayStep(d, i)
    \/ \E d \in Dirs : EndWrites(d) \/ EndReads(d)
    \/ ClientCloses \/ ServiceCloses

RelaySpec == RelayInit /\ [][RelayNext]_relayVars

\* The tasks of the two daemons and of the command run, and the client reads
\* what it is sent; nothing is assumed of the user, the service or the network.
RelayFairness ==
    /\ WF_relayVars(Arrive)
    /\ WF_relayVars(AcceptSession \/ NoService)
    /\ WF_relayVars(EndReads("down"))
    /\ \A i \in Relays : WF_relayVars(PtyStep(i))
    /\ \A i \in Relays, d \in Dirs : WF_relayVars(RelayStep(d, i))

RelayFairSpec == RelaySpec /\ RelayFairness

-----------------------------------------------------------------------------

\* The client has read to the end of what it will get.
ClientAtEnd == fin["down"][1] /\ q["down"][1] = << >>

\* Whatever is lost when relays end, what the client and the service receive is
\* the beginning of what was sent, in order and once: a relay that ends in one
\* direction never resumes the other (stream.rs 231-334, relay.rs 13-85).
PrefixDelivered ==
    \A d \in Dirs :
        /\ Len(got[d]) <= sent[d]
        /\ \A j \in DOMAIN got[d] : got[d][j] = j

\* A client that has not closed its side, and whose input all arrived, sees the
\* end of the session only after everything the service sent, unless the
\* connection broke: a relay that ends early never cuts off a response that was
\* on its way (stream.rs 285-288; half-closing or typing ahead does).
ResponseComplete ==
    ClientAtEnd /\ ~fin["up"][1] /\ ~broken /\ Len(got["up"]) = sent["up"]
        => Len(got["down"]) = sent["down"]

\* The client learns of the end: once the service has closed, its own daemon or
\* the host has turned the session down, or the connection is lost, a client
\* that goes on reading comes to the end, whatever the relays hold in the other
\* direction.
ClientLearnsEnd ==
    fin["down"][Last] \/ stage \in {"rejected", "refused"} \/ broken
        ~> ClientAtEnd \/ gone["down"][1]

=============================================================================
