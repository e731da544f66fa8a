-------------------------- MODULE TransportProofs --------------------------
(***************************************************************************)
(* Proofs about the transport: ConnectionPool, for any endpoints, devices, *)
(* connections and address books, and Relay, for any chains, buffers and   *)
(* numbers of chunks.                                                      *)
(***************************************************************************)
EXTENDS ConnectionPool, Relay, TLAPS

-----------------------------------------------------------------------------
(* The connection pool. *)

\* What a dial manager holds while it dials and registers.  It never dials itself.
DialOK(e) ==
    /\ pc[e] \in {"dialing", "register"} =>
         /\ target[e] \in Device \X Endpoint
         /\ target[e][2] # e
    /\ pc[e] # "register" => dialed[e] = None
    /\ pc[e] = "register" =>
         /\ dialed[e] \in Conn
         /\ ends[dialed[e]] = [dialer |-> e, acceptor |-> target[e][2]]
         /\ handler[e][dialed[e]] = None

\* A connection that waits for accept joins two endpoints and is new to the acceptor.
ArrivalOK(c) ==
    /\ ends[c] # None
    /\ ends[c].dialer # ends[c].acceptor
    /\ handler[ends[c].acceptor][c] = None

\* PooledIsHandled is not inductive alone: a connection that is registered at an endpoint
\* must not have a handler there for another device, so it must be new on the dialling
\* side (DialOK) and on the accepting side (ArrivalOK), which are different endpoints.
PoolInv ==
    /\ TypeOK
    /\ PooledIsHandled
    /\ \A e \in Endpoint : DialOK(e)
    /\ \A c \in arrived : ArrivalOK(c)

\* The invariant holds initially.
LEMMA PoolInvInit == Init => PoolInv
  BY PoolConstants DEF Init, PoolInv, TypeOK, PooledIsHandled, DialOK, ArrivalOK

\* Registering a connection that is new to the endpoint.
LEMMA RegisterKeeps ==
    ASSUME TypeOK, PooledIsHandled, NEW e \in Endpoint, NEW d \in Device, NEW c \in Conn,
           handler[e][c] = None, Register(e, d, c)
    PROVE  /\ pool' \in [Endpoint -> [Device -> Conn \cup {None}]]
           /\ handler' \in [Endpoint -> [Conn -> Device \cup {None}]]
           /\ PooledIsHandled'
           /\ \A f \in Endpoint, a \in Conn : f # e \/ a # c => handler'[f][a] = handler[f][a]
  BY PoolConstants DEF TypeOK, PooledIsHandled, Register

\* Every step keeps the invariant.
LEMMA PoolInvInductive == PoolInv /\ [Next]_vars => PoolInv'
<1> SUFFICES ASSUME PoolInv, [Next]_vars PROVE PoolInv'
  OBVIOUS
<1> USE PoolConstants DEF PoolInv, addressVars, dialVars
<1>1. CASE UNCHANGED vars
  BY <1>1 DEF vars, TypeOK, PooledIsHandled, DialOK, ArrivalOK
<1>2. ASSUME NEW e \in Endpoint, NEW b \in Book[e], UpdatePeers(e, b) PROVE PoolInv'
  <2> USE <1>2 DEF UpdatePeers
  <2>1. TypeOK'
    BY DEF TypeOK
  <2>2. PooledIsHandled'
    BY DEF TypeOK, PooledIsHandled
  <2>3. \A f \in Endpoint : DialOK(f)'
    BY DEF TypeOK, DialOK
  <2>4. \A a \in arrived' : ArrivalOK(a)'
    BY DEF TypeOK, ArrivalOK
  <2>5. QED
    BY <2>1, <2>2, <2>3, <2>4
<1>3. ASSUME NEW e \in Endpoint, DialTick(e) PROVE PoolInv'
  <2> USE <1>3 DEF DialTick, Listed
  <2>1. TypeOK'
    BY DEF TypeOK
  <2>2. PooledIsHandled'
    BY DEF TypeOK, PooledIsHandled
  <2>3. \A f \in Endpoint : DialOK(f)'
    BY DEF TypeOK, DialOK
  <2>4. \A a \in arrived' : ArrivalOK(a)'
    BY DEF TypeOK, ArrivalOK
  <2>5. QED
    BY <2>1, <2>2, <2>3, <2>4
<1>4. ASSUME NEW e \in Endpoint, NEW d \in Device, NEW k \in Endpoint, SkipPeer(e, d, k) PROVE PoolInv'
  <2> USE <1>4 DEF SkipPeer
  <2>1. TypeOK'
    BY DEF TypeOK
  <2>2. PooledIsHandled'
    BY DEF TypeOK, PooledIsHandled
  <2>3. \A f \in Endpoint : DialOK(f)'
    BY DEF TypeOK, DialOK
  <2>4. \A a \in arrived' : ArrivalOK(a)'
    BY DEF TypeOK, ArrivalOK
  <2>5. QED
    BY <2>1, <2>2, <2>3, <2>4
<1>5. ASSUME NEW e \in Endpoint, NEW d \in Device, NEW k \in Endpoint, StartDial(e, d, k) PROVE PoolInv'
  <2> USE <1>5 DEF StartDial, ShouldDial
  <2>1. TypeOK'
    BY DEF TypeOK
  <2>2. PooledIsHandled'
    BY DEF TypeOK, PooledIsHandled
  <2>3. \A f \in Endpoint : DialOK(f)'
    BY DEF TypeOK, DialOK
  <2>4. \A a \in arrived' : ArrivalOK(a)'
    BY DEF TypeOK, ArrivalOK
  <2>5. QED
    BY <2>1, <2>2, <2>3, <2>4
<1>6. ASSUME NEW e \in Endpoint, DialFails(e) PROVE PoolInv'
  <2> USE <1>6 DEF DialFails
  <2>1. TypeOK'
    BY DEF TypeOK
  <2>2. PooledIsHandled'
    BY DEF TypeOK, PooledIsHandled
  <2>3. \A f \in Endpoint : DialOK(f)'
    BY DEF TypeOK, DialOK
  <2>4. \A a \in arrived' : ArrivalOK(a)'
    BY DEF TypeOK, ArrivalOK
  <2>5. QED
    BY <2>1, <2>2, <2>3, <2>4
<1>7. ASSUME NEW e \in Endpoint, NEW c \in Conn, DialConnects(e, c) PROVE PoolInv'
  <2> USE <1>7 DEF DialConnects, Unused
  <2> DEFINE new == [dialer |-> e, acceptor |-> target[e][2]]
  <2>1. target[e][2] \in Endpoint /\ target[e][2] # e
    BY DEF DialOK
  <2>2. ends' = [ends EXCEPT ![c] = new] /\ new \in [dialer : Endpoint, acceptor : Endpoint]
    BY <2>1
  <2>3. TypeOK'
    BY <2>2 DEF TypeOK
  <2>4. PooledIsHandled'
    BY DEF TypeOK, PooledIsHandled
  <2>5. ASSUME NEW f \in Endpoint PROVE DialOK(f)'
    BY <2>1 DEF TypeOK, DialOK
  <2>6. ASSUME NEW a \in arrived' PROVE ArrivalOK(a)'
    <3>1. CASE a = c
      <4>1. ends'[a] = new
        BY <2>2, <3>1 DEF TypeOK
      <4>2. handler'[target[e][2]][a] = None
        BY <2>1, <3>1
      <4>3. new # None
        BY <2>2
      <4>4. QED
        BY <2>1, <4>1, <4>2, <4>3 DEF ArrivalOK
    <3>2. CASE a # c
      BY <3>2 DEF TypeOK, ArrivalOK
    <3>3. QED
      BY <3>1, <3>2
  <2>7. QED
    BY <2>3, <2>4, <2>5, <2>6
<1>8. ASSUME NEW e \in Endpoint, RegisterDialed(e) PROVE PoolInv'
  <2> DEFINE c == dialed[e]
             d == lookup[e][target[e][2]]
  <2>1. /\ c \in Conn /\ handler[e][c] = None
        /\ target[e][2] \in Endpoint /\ target[e][2] # e
        /\ ends[c] = [dialer |-> e, acceptor |-> target[e][2]]
    BY <1>8 DEF RegisterDialed, DialOK
  <2>2. d \in Device \cup {None}
    BY <2>1 DEF TypeOK
  <2>3. /\ pool' \in [Endpoint -> [Device -> Conn \cup {None}]]
        /\ handler' \in [Endpoint -> [Conn -> Device \cup {None}]]
        /\ PooledIsHandled'
        /\ \A f \in Endpoint, a \in Conn : f # e \/ a # c => handler'[f][a] = handler[f][a]
        /\ open' \subseteq open
    <3>1. CASE d = None
      BY <1>8, <3>1 DEF RegisterDialed, TypeOK, PooledIsHandled
    <3>2. CASE d # None
      <4>1. Register(e, d, c) /\ UNCHANGED open
        BY <1>8, <3>2 DEF RegisterDialed
      <4>2. QED
        BY <2>1, <2>2, <3>2, <4>1, RegisterKeeps
    <3>3. QED
      BY <3>1, <3>2
  <2>4. /\ dialed' = [dialed EXCEPT ![e] = None] /\ target' = [target EXCEPT ![e] = None]
        /\ pc' = [pc EXCEPT ![e] = "pass"] /\ UNCHANGED <<addressVars, ends, arrived, todo>>
    BY <1>8 DEF RegisterDialed
  <2> HIDE DEF d
  <2>5. TypeOK'
    BY <2>3, <2>4 DEF TypeOK
  <2>6. ASSUME NEW f \in Endpoint PROVE DialOK(f)'
    BY <2>3, <2>4 DEF TypeOK, DialOK
  <2>7. ASSUME NEW a \in arrived' PROVE ArrivalOK(a)'
    <3>1. a \in Conn /\ ArrivalOK(a) /\ ends[a] \in [dialer : Endpoint, acceptor : Endpoint]
      BY <2>4 DEF TypeOK, ArrivalOK
    <3>2. ends[a].acceptor # e \/ a # c
      BY <2>1
    <3>3. handler'[ends[a].acceptor][a] = handler[ends[a].acceptor][a]
      BY <2>3, <3>1, <3>2
    <3>4. QED
      BY <2>4, <3>1, <3>3 DEF ArrivalOK
  <2>8. QED
    BY <2>3, <2>5, <2>6, <2>7
<1>9. ASSUME NEW e \in Endpoint, EndPass(e) PROVE PoolInv'
  <2> USE <1>9 DEF EndPass
  <2>1. TypeOK'
    BY DEF TypeOK
  <2>2. PooledIsHandled'
    BY DEF TypeOK, PooledIsHandled
  <2>3. \A f \in Endpoint : DialOK(f)'
    BY DEF TypeOK, DialOK
  <2>4. \A a \in arrived' : ArrivalOK(a)'
    BY DEF TypeOK, ArrivalOK
  <2>5. QED
    BY <2>1, <2>2, <2>3, <2>4
<1>10. ASSUME NEW c \in Conn, Accept(c) PROVE PoolInv'
  <2> DEFINE e == ends[c].acceptor
             d == lookup[e][ends[c].dialer]
  <2>1. /\ ends[c] \in [dialer : Endpoint, acceptor : Endpoint] /\ ends[c].dialer # e
        /\ e \in Endpoint /\ handler[e][c] = None
    BY <1>10 DEF Accept, ArrivalOK, TypeOK
  <2>2. d \in Device \cup {None}
    BY <2>1 DEF TypeOK
  <2>3. /\ pool' \in [Endpoint -> [Device -> Conn \cup {None}]]
        /\ handler' \in [Endpoint -> [Conn -> Device \cup {None}]]
        /\ PooledIsHandled'
        /\ \A f \in Endpoint, a \in Conn : f # e \/ a # c => handler'[f][a] = handler[f][a]
        /\ open' \subseteq open
    <3>1. CASE d = None
      BY <1>10, <3>1 DEF Accept, TypeOK, PooledIsHandled
    <3>2. CASE d # None
      <4>1. Register(e, d, c) /\ UNCHANGED open
        BY <1>10, <3>2 DEF Accept
      <4>2. QED
        BY <2>1, <2>2, <3>2, <4>1, RegisterKeeps
    <3>3. QED
      BY <3>1, <3>2
  <2>4. arrived' = arrived \ {c} /\ UNCHANGED <<addressVars, ends, dialVars>>
    BY <1>10 DEF Accept
  <2> HIDE DEF d
  <2>5. TypeOK'
    BY <2>3, <2>4 DEF TypeOK
  <2>6. ASSUME NEW f \in Endpoint PROVE DialOK(f)'
    <3>1. CASE pc[f] = "register"
      <4>0. ends[dialed[f]] = [dialer |-> f, acceptor |-> target[f][2]] /\ dialed[f] \in Conn
        BY <3>1 DEF DialOK
      <4>1. dialed[f] \in Conn /\ ends[dialed[f]].dialer = f
        BY <4>0
      <4>2. f # e \/ dialed[f] # c
        BY <2>1, <4>1
      <4>3. handler'[f][dialed[f]] = handler[f][dialed[f]]
        BY <2>3, <4>1, <4>2
      <4>4. QED
        BY <2>4, <3>1, <4>3 DEF DialOK
    <3>2. CASE pc[f] # "register"
      BY <2>4, <3>2 DEF DialOK
    <3>3. QED
      BY <3>1, <3>2
  <2>7. ASSUME NEW a \in arrived' PROVE ArrivalOK(a)'
    BY <2>3, <2>4 DEF TypeOK, ArrivalOK
  <2>8. QED
    BY <2>3, <2>5, <2>6, <2>7
<1>11. ASSUME NEW e \in Endpoint, NEW c \in Conn, HandlerEnds(e, c) PROVE PoolInv'
  <2> USE <1>11 DEF HandlerEnds, Remove
  <2>1. TypeOK'
    BY DEF TypeOK
  <2>2. PooledIsHandled'
    BY DEF TypeOK, PooledIsHandled
  <2>3. \A f \in Endpoint : DialOK(f)'
    BY DEF TypeOK, DialOK
  <2>4. \A a \in arrived' : ArrivalOK(a)'
    BY DEF TypeOK, ArrivalOK
  <2>5. QED
    BY <2>1, <2>2, <2>3, <2>4
<1>12. ASSUME NEW c \in Conn, Break(c) PROVE PoolInv'
  <2> USE <1>12 DEF Break
  <2>1. TypeOK'
    BY DEF TypeOK
  <2>2. PooledIsHandled'
    BY DEF TypeOK, PooledIsHandled
  <2>3. \A f \in Endpoint : DialOK(f)'
    BY DEF TypeOK, DialOK
  <2>4. \A a \in arrived' : ArrivalOK(a)'
    BY DEF TypeOK, ArrivalOK
  <2>5. QED
    BY <2>1, <2>2, <2>3, <2>4
<1>13. ASSUME NEW e \in Endpoint, Restart(e) PROVE PoolInv'
  <2> USE <1>13 DEF Restart
  <2>1. TypeOK'
    BY DEF TypeOK
  <2>2. PooledIsHandled'
    BY DEF TypeOK, PooledIsHandled
  <2>3. \A f \in Endpoint : DialOK(f)'
    BY DEF TypeOK, DialOK
  <2>4. \A a \in arrived' : ArrivalOK(a)'
    BY DEF TypeOK, ArrivalOK
  <2>5. QED
    BY <2>1, <2>2, <2>3, <2>4
<1>14. QED
  BY <1>1, <1>2, <1>3, <1>4, <1>5, <1>6, <1>7, <1>8, <1>9, <1>10, <1>11, <1>12, <1>13
  DEF Next, DialStep

\* The invariant holds in every reachable state.
LEMMA PoolInvHolds == Spec => []PoolInv
<1>1. QED
  BY PoolInvInit, PoolInvInductive, PTL DEF Spec

\* Every reachable state of the pools, handlers and dial managers is well typed.
THEOREM TypeCorrect == Spec => []TypeOK
<1>1. PoolInv => TypeOK
  BY DEF PoolInv
<1>2. QED
  BY <1>1, PoolInvHolds, PTL

\* No connection is in a pool without the handler that will remove it, for any number of
\* endpoints that dial each other at once and any address books (manager.rs:176, 281).
THEOREM PooledHandled == Spec => []PooledIsHandled
<1>1. PoolInv => PooledIsHandled
  BY DEF PoolInv
<1>2. QED
  BY <1>1, PoolInvHolds, PTL

-----------------------------------------------------------------------------
(* Relays: the types, and what relays and stages have to do with each other. *)

\* What a link carries, and what an end has received.
Chunks == Seq(Nat)

\* The types that the proofs need: RelayTypeOK without its bounds.
RelayType ==
    /\ chain \in Chains
    /\ stage \in Stages
    /\ q \in [Dirs -> [Links -> Chunks]]
    /\ fin \in [Dirs -> [Links -> BOOLEAN]]
    /\ gone \in [Dirs -> [Links -> BOOLEAN]]
    /\ hold \in [Dirs -> [Relays -> Nat]]
    /\ relay \in [Relays -> {"off", "on", "blind", "stuck", "joined", "done"}]
    /\ reader \in {"on", "done"}
    /\ streamOpen \in BOOLEAN
    /\ sent \in [Dirs -> Nat]
    /\ got \in [Dirs -> Chunks]
    /\ broken \in BOOLEAN

\* The relays and the links of this session.
Parties == 1 .. Len(chain)
Joined == 1 .. Last

\* What a relay may be doing: nothing before its device has taken the session up, and a
\* pty relay has passed over the end of its reader only once the reader has ended.
StageOK ==
    /\ stage \in Opening \cup {"rejected"} => \A i \in Relays : relay[i] = "off"
    /\ stage # "accepted" => \A i \in Far : relay[i] = "off"
    /\ stage # "accepted" => sent["down"] = 0
    /\ \A i \in Relays : relay[i] = "off" => \A d \in Dirs : hold[d][i] = 0
    /\ \A i \in Relays : relay[i] \in {"blind", "stuck", "joined"} => i \in Parties /\ chain[i] = "pty"
    /\ \A i \in Parties :
          chain[i] = "pty" /\ relay[i] \in {"blind", "stuck", "joined", "done"} => reader = "done"

\* The invariant of relays and stages.
SessionInv == RelayType /\ StageOK

\* The relays and links of a chain are among Relays and Links.
LEMMA ChainLength ==
    ASSUME NEW c \in Chains
    PROVE  /\ MaxLen \in Nat
           /\ Len(c) \in Nat \ {0} /\ Len(c) <= MaxLen
           /\ \A i \in 1 .. Len(c) : c[i] \in Kinds
           /\ 1 .. Len(c) + 1 \subseteq Links
           /\ 1 .. Len(c) \subseteq Relays
<1>1. PICK b \in Chains : \A e \in Chains : Len(e) <= Len(b)
  BY RelayAssumption
<1>2. /\ \A e \in Chains : Len(e) \in Nat \ {0}
      /\ \A e \in Chains : \A i \in 1 .. Len(e) : e[i] \in Kinds
  BY RelayAssumption
<1>3. \E n \in {Len(e) : e \in Chains} : \A e \in Chains : Len(e) <= n
  BY <1>1
<1>4. MaxLen \in {Len(e) : e \in Chains} /\ \A e \in Chains : Len(e) <= MaxLen
  BY <1>3 DEF MaxLen
<1>5. MaxLen \in Nat /\ Len(c) <= MaxLen
  BY <1>2, <1>4
<1>6. QED
  BY <1>2, <1>5 DEF Links, Relays

\* Where the links of a session are: each relay reads from one and writes to the next, the
\* ends write to the first and read from the last.
LEMMA Places ==
    ASSUME RelayType
    PROVE  /\ Last \in Nat /\ Last >= 2 /\ Len(chain) = Last - 1
           /\ Joined \subseteq Links /\ Parties \subseteq Relays /\ Relays \subseteq Links
           /\ MaxLen \in Nat
           /\ Wire \in {2, 3}
           /\ Far \subseteq Relays /\ Far \subseteq Parties /\ Near \subseteq Parties
           /\ \A i \in Far : i \notin Near
           /\ \A d \in Dirs : First(d) \in Joined /\ Final(d) \in Joined
           /\ \A d \in Dirs : \A i \in Parties :
                /\ In(d, i) \in Joined /\ Out(d, i) \in Joined
                /\ In(d, i) # Final(d) /\ Out(d, i) # First(d)
           /\ \A d \in Dirs : \A i \in Relays : In(d, i) \in Links /\ Out(d, i) \in Links
<1>1. /\ Len(chain) \in Nat \ {0} /\ Len(chain) <= MaxLen
      /\ MaxLen \in Nat
      /\ 1 .. Len(chain) + 1 \subseteq Links
      /\ 1 .. Len(chain) \subseteq Relays
  BY ChainLength DEF RelayType
<1> QED
  BY <1>1 DEF Last, Joined, Parties, Links, Relays, Wire, Far, Near, First, Final, In, Out, Dirs


\* The empty sequence, a longer and a shorter one.
LEMMA ChunksFacts ==
    /\ << >> \in Chunks
    /\ \A s \in Chunks, n \in Nat : Append(s, n) \in Chunks
    /\ \A s \in Chunks : s # << >> => Head(s) \in Nat /\ Tail(s) \in Chunks
<1>1. \A s \in Seq(Nat), n \in Nat : Append(s, n) \in Seq(Nat)
  OBVIOUS
<1>2. \A s \in Seq(Nat) : s # << >> => Head(s) \in Nat
  OBVIOUS
<1>3. \A s \in Seq(Nat) : s # << >> => Tail(s) \in Seq(Nat)
  OBVIOUS
<1> QED BY <1>1, <1>2, <1>3 DEF Chunks

\* The invariant of relays and stages holds initially.
LEMMA SessionInvInit == RelayInit => SessionInv
<1> SUFFICES ASSUME RelayInit PROVE SessionInv
  OBVIOUS
<1>1. RelayType
  BY ChunksFacts DEF RelayInit, RelayType, Both, Stages
<1>2. StageOK
  BY <1>1, Places DEF RelayInit, StageOK, Both, Opening, Dirs
<1> QED BY <1>1, <1>2 DEF SessionInv

\* Rejecting and refusing a session keep the types of its links.
LEMMA DroppedTypes ==
    ASSUME RelayType, Reject \/ Refuse
    PROVE  /\ q' \in [Dirs -> [Links -> Chunks]]
           /\ fin' \in [Dirs -> [Links -> BOOLEAN]]
           /\ gone' \in [Dirs -> [Links -> BOOLEAN]]
           /\ stage' \in Stages
<1>1. CASE Reject
  BY <1>1, ChunksFacts DEF RelayType, Reject, Dirs, Stages
<1>2. CASE Refuse
  BY <1>2, ChunksFacts DEF RelayType, Refuse, Dirs, Stages
<1> QED BY <1>1, <1>2

\* The end of a relay keeps the invariant of relays and stages.
LEMMA EndKeepsSession ==
    ASSUME SessionInv, NEW i \in Parties, End(i),
           UNCHANGED <<chain, stage, broken, reader, streamOpen, sent, got>>,
           relay[i] # "off", chain[i] = "pty" => reader = "done"
    PROVE  SessionInv'
<1>p. Parties \subseteq Relays /\ Far \subseteq Relays /\ i \in Relays
  BY Places DEF SessionInv
<1>c. UNCHANGED <<Parties, Far>>
  BY DEF Parties, Far, Wire
<1>1. RelayType'
  BY <1>p, ChunksFacts DEF SessionInv, RelayType, End, Discarded
<1>2. /\ \A j \in Relays \ {i} : relay'[j] = relay[j] /\ \A d \in Dirs : hold'[d][j] = hold[d][j]
      /\ relay'[i] = "done" /\ \A d \in Dirs : hold'[d][i] = 0
  BY <1>p DEF SessionInv, RelayType, End
<1>3. StageOK'
  BY <1>p, <1>c, <1>2 DEF SessionInv, StageOK
<1> QED BY <1>1, <1>3 DEF SessionInv

\* Every step keeps the invariant of relays and stages.
LEMMA SessionInvInductive == SessionInv /\ [RelayNext]_relayVars => SessionInv'
<1> SUFFICES ASSUME SessionInv, [RelayNext]_relayVars PROVE SessionInv'
  OBVIOUS
<1> USE DEF SessionInv
<1>p. /\ Parties \subseteq Relays /\ Far \subseteq Relays /\ \A i \in Far : i \notin Near
      /\ \A d \in Dirs : First(d) \in Links /\ Final(d) \in Links
      /\ \A d \in Dirs : \A i \in Relays : In(d, i) \in Links /\ Out(d, i) \in Links
  BY Places
<1>c. UNCHANGED chain => UNCHANGED <<Parties, Far, Last, Wire>>
  BY DEF Parties, Far, Last, Wire
<1>0. CASE UNCHANGED relayVars
  BY <1>0, <1>c DEF relayVars, RelayType, StageOK
<1>1. CASE FeatureOn
  <2> USE <1>1 DEF FeatureOn, linkVars, endVars, ptyVars, hostVars
  <2>1. RelayType'
    BY ChunksFacts DEF RelayType, Stages, Dirs
  <2>2. StageOK'
    BY <1>c, <1>p DEF RelayType, StageOK, Opening, Dirs
  <2> QED BY <2>1, <2>2
<1>2. CASE FeatureOff
  <2> USE <1>2 DEF FeatureOff, linkVars, endVars, ptyVars, hostVars
  <2>a. UNCHANGED <<q, fin, gone>> \/ Refuse
    OBVIOUS
  <2>b. stage' \in Stages
    BY DroppedTypes DEF RelayType, Stages
  <2>1. RelayType'
    <3>1. CASE Refuse
      BY <3>1, DroppedTypes DEF RelayType
    <3>2. CASE UNCHANGED <<q, fin, gone>>
      BY <3>2, <2>b DEF RelayType
    <3> QED BY <2>a, <3>1, <3>2
  <2>2. StageOK'
    BY <1>c, <1>p DEF Refuse, RelayType, StageOK, Opening, Dirs
  <2> QED BY <2>1, <2>2
<1>3. CASE Request
  <2> USE <1>3 DEF Request, linkVars, endVars, ptyVars, hostVars
  <2>1. RelayType'
    BY ChunksFacts DEF RelayType, Stages, Dirs
  <2>2. StageOK'
    BY <1>c, <1>p DEF RelayType, StageOK, Opening, Dirs
  <2> QED BY <2>1, <2>2
<1>4. CASE Dispatch
  <2> USE <1>4 DEF Dispatch, linkVars, endVars, ptyVars, hostVars
  <2>a. UNCHANGED <<q, fin, gone>> \/ Reject
    OBVIOUS
  <2>b. stage' \in Stages
    BY DroppedTypes DEF RelayType, Stages
  <2>1. RelayType'
    <3>1. CASE Reject
      BY <3>1, DroppedTypes DEF RelayType
    <3>2. CASE UNCHANGED <<q, fin, gone>>
      BY <3>2, <2>b DEF RelayType
    <3> QED BY <2>a, <3>1, <3>2
  <2>2. StageOK'
    BY <1>c, <1>p DEF Reject, RelayType, StageOK, Opening, Dirs
  <2> QED BY <2>1, <2>2
<1>5. CASE Open
  <2> USE <1>5 DEF Open, linkVars, endVars, ptyVars, hostVars
  <2>1. RelayType'
    BY ChunksFacts DEF RelayType, Stages, Dirs
  <2>2. StageOK'
    BY <1>c, <1>p DEF RelayType, StageOK, Opening, Dirs
  <2> QED BY <2>1, <2>2
<1>6. CASE OpenFails
  <2> USE <1>6 DEF OpenFails, Reject, linkVars, endVars, ptyVars, hostVars
  <2>1. RelayType'
    BY ChunksFacts DEF RelayType, Stages, Dirs
  <2>2. StageOK'
    BY <1>c, <1>p DEF RelayType, StageOK, Opening, Dirs
  <2> QED BY <2>1, <2>2
<1>7. CASE Arrive
  <2> USE <1>7 DEF Arrive, linkVars, endVars, ptyVars, hostVars
  <2>a. UNCHANGED <<q, fin, gone>> \/ Refuse
    OBVIOUS
  <2>b. stage' \in Stages
    BY DroppedTypes DEF RelayType, Stages
  <2>1. RelayType'
    <3>1. CASE Refuse
      BY <3>1, DroppedTypes DEF RelayType
    <3>2. CASE UNCHANGED <<q, fin, gone>>
      BY <3>2, <2>b DEF RelayType
    <3> QED BY <2>a, <3>1, <3>2
  <2>2. StageOK'
    BY <1>c, <1>p DEF Refuse, RelayType, StageOK, Opening, Dirs
  <2> QED BY <2>1, <2>2
<1>8. CASE AcceptSession
  <2> USE <1>8 DEF AcceptSession, linkVars, endVars, ptyVars, hostVars
  <2>1. RelayType'
    BY ChunksFacts DEF RelayType, Stages, Dirs
  <2>2. StageOK'
    BY <1>c, <1>p DEF RelayType, StageOK, Opening, Dirs
  <2> QED BY <2>1, <2>2
<1>9. CASE NoService
  <2> USE <1>9 DEF NoService, Refuse, linkVars, endVars, ptyVars, hostVars
  <2>1. RelayType'
    BY ChunksFacts DEF RelayType, Stages, Dirs
  <2>2. StageOK'
    BY <1>c, <1>p DEF RelayType, StageOK, Opening, Dirs
  <2> QED BY <2>1, <2>2
<1>10. CASE ConnectionLost
  <2> USE <1>10 DEF ConnectionLost, linkVars, endVars, ptyVars, hostVars
  <2>1. RelayType'
    BY ChunksFacts DEF RelayType, Stages, Dirs
  <2>2. StageOK'
    BY <1>c, <1>p DEF RelayType, StageOK, Opening, Dirs
  <2> QED BY <2>1, <2>2
<1>11. CASE ClientCloses
  <2> USE <1>11 DEF ClientCloses, linkVars, endVars, ptyVars, hostVars
  <2>1. RelayType'
    <3>1. fin' \in [Dirs -> [Links -> BOOLEAN]]
      BY DEF RelayType, Dirs
    <3>2. CASE UNCHANGED <<q, gone>>
      BY <3>1, <3>2 DEF RelayType
    <3>3. CASE /\ gone' = [gone EXCEPT !["down"][1] = TRUE]
               /\ q' = [q EXCEPT !["down"][1] = << >>]
      BY <3>1, <3>3, ChunksFacts DEF RelayType, Dirs
    <3> QED BY <3>2, <3>3
  <2>2. StageOK'
    BY <1>c, <1>p DEF RelayType, StageOK, Opening, Dirs
  <2> QED BY <2>1, <2>2
<1>12. CASE ServiceCloses
  <2> USE <1>12 DEF ServiceCloses, linkVars, endVars, ptyVars, hostVars
  <2>1. RelayType'
    BY ChunksFacts DEF RelayType, Stages, Dirs
  <2>2. StageOK'
    BY <1>c, <1>p DEF RelayType, StageOK, Opening, Dirs
  <2> QED BY <2>1, <2>2
<1>13. ASSUME NEW d \in Dirs, NEW i \in Relays, Take(d, i) PROVE SessionInv'
  <2> USE <1>13 DEF Take, Reading, Free, endVars, ptyVars, hostVars
  <2>0. /\ In(d, i) \in Links
        /\ Head(q[d][In(d, i)]) \in Nat /\ Tail(q[d][In(d, i)]) \in Chunks
    BY ChunksFacts, <1>p DEF RelayType
  <2>1. RelayType'
    BY <2>0 DEF RelayType
  <2>2. StageOK'
    BY <1>c, <1>p DEF RelayType, StageOK, Opening, Parties, Dirs
  <2> QED BY <2>1, <2>2
<1>14. ASSUME NEW d \in Dirs, NEW i \in Relays, Put(d, i) PROVE SessionInv'
  <2> USE <1>14 DEF Put, Loops, Written, endVars, ptyVars, hostVars
  <2>0. Out(d, i) \in Links /\ Append(q[d][Out(d, i)], hold[d][i]) \in Chunks
    BY ChunksFacts, <1>p DEF RelayType
  <2>1. q' \in [Dirs -> [Links -> Chunks]]
    <3>1. CASE UNCHANGED q
      BY <3>1 DEF RelayType
    <3>2. CASE q' = [q EXCEPT ![d][Out(d, i)] = Append(@, hold[d][i])]
      BY <2>0, <3>2 DEF RelayType
    <3> QED BY <3>1, <3>2
  <2>2. relay' \in [Relays -> {"off", "on", "blind", "stuck", "joined", "done"}]
    BY DEF RelayType
  <2>3. hold' \in [Dirs -> [Relays -> Nat]]
    BY DEF RelayType
  <2>4. RelayType'
    BY <2>1, <2>2, <2>3 DEF RelayType
  <2>5. StageOK'
    BY <1>c, <1>p DEF RelayType, StageOK, Opening, Parties, Dirs
  <2> QED BY <2>4, <2>5
<1>15. ASSUME NEW d \in Dirs, NEW i \in Relays, RelayEnds(d, i) PROVE SessionInv'
  <2>1. i \in Parties /\ relay[i] # "off" /\ chain[i] # "pty"
    BY <1>15, <1>p DEF RelayEnds, Ended, Reading, Parties, StageOK
  <2> QED
    BY <1>15, <2>1, EndKeepsSession DEF RelayEnds, endVars, ptyVars, hostVars
<1>16. ASSUME NEW i \in Relays, ReaderEnds(i) PROVE SessionInv'
  <2> USE <1>16 DEF ReaderEnds, endVars, hostVars
  <2>1. RelayType'
    BY ChunksFacts, <1>p DEF RelayType, Dirs
  <2>2. StageOK'
    BY <1>c, <1>p DEF RelayType, StageOK, Dirs
  <2> QED BY <2>1, <2>2
<1>17. ASSUME NEW i \in Relays, StreamEnds(i) PROVE SessionInv'
  <2> USE <1>17 DEF StreamEnds, Loops, Ended, endVars, hostVars
  <2>1. RelayType'
    BY <1>p DEF RelayType, Dirs
  <2>2. StageOK'
    BY <1>c, <1>p DEF RelayType, StageOK, Opening, Parties, Dirs
  <2> QED BY <2>1, <2>2
<1>18. ASSUME NEW i \in Relays, JoinReader(i) PROVE SessionInv'
  <2> USE <1>18 DEF JoinReader, endVars, ptyVars, hostVars
  <2>1. i \in Parties /\ Out("up", i) \in Links /\ "up" \in Dirs
    BY <1>p DEF Parties, Dirs
  <2>2. RelayType'
    BY <2>1 DEF RelayType
  <2>3. StageOK'
    <3>1. /\ \A j \in Relays \ {i} : relay'[j] = relay[j]
          /\ relay'[i] = "joined"
          /\ UNCHANGED hold
      BY DEF RelayType
    <3> QED
      BY <3>1, <2>1, <1>c, <1>p DEF StageOK
  <2> QED BY <2>2, <2>3
<1>18a. ASSUME NEW i \in Relays, JoinWriter(i) PROVE SessionInv'
  <2>1. i \in Parties /\ reader = "done" /\ relay[i] # "off"
    BY <1>18a DEF JoinWriter, StageOK, Parties
  <2> QED
    BY <1>18a, <2>1, EndKeepsSession DEF JoinWriter, endVars, ptyVars, hostVars
<1>19. ASSUME NEW i \in Relays, WriterWaits(i) PROVE SessionInv'
  <2> USE <1>19 DEF WriterWaits, endVars, ptyVars, hostVars
  <2>1. i \in Parties /\ chain[i] = "pty" /\ reader = "done" /\ relay[i] # "off"
    BY DEF StageOK, Parties
  <2>2. CASE gone["up"][Out("up", i)]
    BY <2>1, <2>2, EndKeepsSession
  <2>3. CASE ~gone["up"][Out("up", i)]
    <3>1. RelayType'
      BY <2>3 DEF RelayType
    <3>2. StageOK'
      <4>1. /\ \A j \in Relays \ {i} : relay'[j] = relay[j]
            /\ relay'[i] = "stuck"
            /\ UNCHANGED hold
        BY <2>3 DEF RelayType
      <4> QED
        BY <4>1, <2>1, <1>c, <1>p DEF StageOK
    <3> QED BY <3>1, <3>2
  <2> QED BY <2>2, <2>3
<1>20. ASSUME NEW d \in Dirs, EndWrites(d) PROVE SessionInv'
  <2> USE <1>20 DEF EndWrites, ptyVars, hostVars
  <2>1. sent' \in [Dirs -> Nat]
    BY DEF RelayType
  <2>2. q' \in [Dirs -> [Links -> Chunks]]
    <3>1. Append(q[d][First(d)], sent[d] + 1) \in Chunks /\ q[d][First(d)] \in Chunks
      BY ChunksFacts, <1>p DEF RelayType
    <3> QED BY <3>1, <1>p DEF RelayType
  <2>3. RelayType'
    BY <2>1, <2>2 DEF RelayType
  <2>4. StageOK'
    BY <1>c, <1>p DEF RelayType, StageOK, Dirs
  <2> QED BY <2>3, <2>4
<1>21. ASSUME NEW d \in Dirs, EndReads(d) PROVE SessionInv'
  <2> USE <1>21 DEF EndReads, ptyVars, hostVars
  <2>1. RelayType'
    BY ChunksFacts, <1>p DEF RelayType
  <2>2. StageOK'
    BY <1>c, <1>p DEF RelayType, StageOK, Dirs
  <2> QED BY <2>1, <2>2
<1> QED
  BY <1>0, <1>1, <1>2, <1>3, <1>4, <1>5, <1>6, <1>7, <1>8, <1>9, <1>10, <1>11, <1>12,
     <1>13, <1>14, <1>15, <1>16, <1>17, <1>18, <1>18a, <1>19, <1>20, <1>21
     DEF RelayNext, RelayStep, PtyStep

-----------------------------------------------------------------------------
(* Counting chunks. *)

\* How many chunks were put on each link, or taken from it, since the session began.  The
\* program keeps no such counters; the invariant says that there are some.
Counters == [Dirs -> [Links -> Nat]]

\* A relay goes on reading in a direction, once its device has taken the session up.
CanRead(d, i) ==
    IF chain[i] = "pty"
      THEN IF d = "down" THEN reader = "on" ELSE relay[i] # "done" /\ streamOpen
      ELSE relay[i] # "done"

\* Link l is nearer to the writer of the direction than link k.
Before(d, l, k) == IF d = "up" THEN l < k ELSE k < l

\* A link carries the chunks that were put on it and not yet taken, which are numbered
\* without a gap, or nothing once its reader is gone.
LinkOK(d, k, put, taken) ==
    /\ taken[d][k] <= put[d][k] /\ put[d][k] <= sent[d]
    /\ gone[d][k] => q[d][k] = << >>
    /\ ~gone[d][k] => /\ Len(q[d][k]) = put[d][k] - taken[d][k]
                      /\ \A j \in 1 .. Len(q[d][k]) : q[d][k][j] = taken[d][k] + j

\* A relay holds the last chunk it took, and has put all earlier ones.
HoldOK(d, i, put, taken) ==
    /\ hold[d][i] # 0 =>
         /\ hold[d][i] = taken[d][In(d, i)]
         /\ put[d][Out(d, i)] + 1 = taken[d][In(d, i)]
    /\ hold[d][i] = 0 /\ CanRead(d, i) => put[d][Out(d, i)] = taken[d][In(d, i)]

\* The ends: all that was sent was put on the first link, and what was taken from the last
\* was received.
EndOK(d, put, taken) ==
    /\ put[d][First(d)] = sent[d]
    /\ Len(got[d]) = taken[d][Final(d)]
    /\ \A j \in 1 .. Len(got[d]) : got[d][j] = j

\* All counts agree with what links, relays and ends hold.  A link nearer to the reader has
\* been given no more than was taken from one nearer to the writer.
CountsOK(put, taken) ==
    \A d \in Dirs :
        /\ \A k \in Links : LinkOK(d, k, put, taken)
        /\ \A k, l \in Joined : Before(d, l, k) => put[d][k] <= taken[d][l]
        /\ \A i \in Parties : HoldOK(d, i, put, taken)
        /\ EndOK(d, put, taken)

\* A step that moves no chunk: chunks may be discarded, with the reader of their link or
\* with a relay that does not read on.
Discards ==
    /\ UNCHANGED <<chain, sent, got>>
    /\ \A d \in Dirs : \A k \in Links :
          /\ gone[d][k] => gone'[d][k]
          /\ gone'[d][k] => q'[d][k] = << >>
          /\ ~gone'[d][k] => q'[d][k] = q[d][k]
    /\ \A d \in Dirs : \A i \in Parties :
          /\ hold'[d][i] # 0 => hold'[d][i] = hold[d][i]
          /\ CanRead(d, i)' => CanRead(d, i) /\ hold'[d][i] = hold[d][i]

\* A step that moves no chunk keeps the counts.
LEMMA DiscardsKeeps ==
    ASSUME NEW put \in Counters, NEW taken \in Counters, CountsOK(put, taken), Discards
    PROVE  CountsOK(put, taken)'
<1>c. UNCHANGED <<Parties, Joined>> /\ \A d \in Dirs : UNCHANGED <<First(d), Final(d)>>
  BY DEF Discards, Parties, Joined, Last, First, Final
<1>1. ASSUME NEW d \in Dirs, NEW k \in Links PROVE LinkOK(d, k, put, taken)'
  BY <1>1 DEF Discards, CountsOK, LinkOK
<1>2. ASSUME NEW d \in Dirs, NEW i \in Parties PROVE HoldOK(d, i, put, taken)'
  BY <1>2 DEF Discards, CountsOK, HoldOK
<1>3. ASSUME NEW d \in Dirs PROVE EndOK(d, put, taken)'
  BY <1>3, <1>c DEF Discards, CountsOK, EndOK
<1> QED
  BY <1>c, <1>1, <1>2, <1>3 DEF CountsOK

\* The end of a relay moves no chunk.
LEMMA EndDiscards ==
    ASSUME SessionInv, NEW put \in Counters, NEW taken \in Counters, CountsOK(put, taken),
           NEW i \in Parties, End(i), UNCHANGED <<chain, sent, got, reader, streamOpen>>,
           chain[i] = "pty" => reader = "done"
    PROVE  Discards
<1>p. Parties \subseteq Relays /\ \A d \in Dirs : In(d, i) \in Links
  BY Places DEF SessionInv
<1>c. UNCHANGED <<Parties>>
  BY DEF Parties
<1>1. ASSUME NEW d \in Dirs, NEW k \in Links
      PROVE  /\ gone[d][k] => gone'[d][k]
             /\ gone'[d][k] => q'[d][k] = << >>
             /\ ~gone'[d][k] => q'[d][k] = q[d][k]
  BY <1>1, <1>p DEF End, Discarded, SessionInv, RelayType, CountsOK, LinkOK
<1>2. ASSUME NEW d \in Dirs, NEW j \in Parties
      PROVE  /\ hold'[d][j] # 0 => hold'[d][j] = hold[d][j]
             /\ CanRead(d, j)' => CanRead(d, j) /\ hold'[d][j] = hold[d][j]
  BY <1>2, <1>p DEF End, SessionInv, RelayType, CanRead
<1> QED BY <1>c, <1>1, <1>2 DEF Discards

\* A step that only drops readers of links moves no chunk.
LEMMA LinksOnly ==
    ASSUME UNCHANGED <<chain, sent, got, hold, relay, reader, streamOpen>>,
           \A d \in Dirs : \A k \in Links :
              /\ gone[d][k] => gone'[d][k]
              /\ gone'[d][k] => q'[d][k] = << >>
              /\ ~gone'[d][k] => q'[d][k] = q[d][k]
    PROVE  Discards
  BY DEF Discards, CanRead

\* All steps but the four that read or write a chunk move none.
LEMMA DiscardSteps ==
    ASSUME SessionInv, NEW put \in Counters, NEW taken \in Counters, CountsOK(put, taken),
           \/ FeatureOn \/ FeatureOff \/ Request \/ Dispatch \/ Open \/ OpenFails \/ Arrive
           \/ AcceptSession \/ NoService \/ ConnectionLost
           \/ \E i \in Relays : PtyStep(i) \/ \E d \in Dirs : RelayEnds(d, i)
           \/ ClientCloses \/ ServiceCloses \/ UNCHANGED relayVars
    PROVE  Discards
<1> USE DEF SessionInv, hostVars, endVars, ptyVars
<1>p. /\ Parties \subseteq Relays /\ Far \subseteq Relays
      /\ \A d \in Dirs : First(d) \in Links /\ Final(d) \in Links
      /\ \A d \in Dirs : \A i \in Relays : In(d, i) \in Links /\ Out(d, i) \in Links
  BY Places
<1>q. \A d \in Dirs, k \in Links : gone[d][k] => q[d][k] = << >>
  BY DEF CountsOK, LinkOK
<1>u. UNCHANGED <<q, gone, chain, sent, got, hold, relay, reader, streamOpen>> => Discards
  BY <1>q, LinksOnly
<1>1. CASE FeatureOn \/ Request \/ UNCHANGED relayVars
  BY <1>1, <1>u DEF FeatureOn, Request, relayVars, linkVars
<1>2. ASSUME Reject, UNCHANGED <<chain, sent, got, hold, relay, reader, streamOpen>> PROVE Discards
  BY <1>2, <1>q, LinksOnly DEF Reject, RelayType, Dirs
<1>3. ASSUME Refuse, UNCHANGED <<chain, sent, got, hold, relay, reader, streamOpen>> PROVE Discards
  BY <1>3, <1>q, LinksOnly DEF Refuse, RelayType, Dirs
<1>4. CASE Dispatch \/ OpenFails
  BY <1>4, <1>2, <1>u DEF Dispatch, OpenFails, linkVars
<1>5. CASE FeatureOff \/ Arrive \/ NoService
  BY <1>5, <1>3, <1>u DEF FeatureOff, Arrive, NoService, linkVars
<1>6. CASE Open
  <2>1. \A i \in Relays : relay[i] # "done" /\ relay'[i] # "done"
    BY <1>6 DEF Open, StageOK, Opening, RelayType
  <2>2. \A d \in Dirs : \A i \in Parties : CanRead(d, i)' => CanRead(d, i)
    BY <1>6, <1>p, <2>1 DEF Open, CanRead
  <2> QED BY <1>6, <1>q, <2>2 DEF Open, Discards, linkVars
<1>7. CASE AcceptSession
  <2>1. \A i \in Relays : relay'[i] = "done" \/ relay[i] # "done"
    BY <1>7 DEF AcceptSession, StageOK, RelayType
  <2>2. \A d \in Dirs : \A i \in Parties : CanRead(d, i)' => CanRead(d, i)
    BY <1>7, <1>p, <2>1 DEF AcceptSession, CanRead
  <2> QED BY <1>7, <1>q, <2>2 DEF AcceptSession, Discards, linkVars
<1>8. CASE ConnectionLost
  BY <1>8, <1>q, LinksOnly DEF ConnectionLost, RelayType
<1>9. CASE ClientCloses
  BY <1>9, <1>q, LinksOnly DEF ClientCloses, RelayType, Dirs
<1>10. CASE ServiceCloses
  BY <1>10, <1>q, LinksOnly DEF ServiceCloses, RelayType, Dirs
<1>11. ASSUME NEW i \in Relays, NEW d \in Dirs, RelayEnds(d, i) PROVE Discards
  BY <1>11, EndDiscards DEF RelayEnds, Ended, Parties
<1>12. ASSUME NEW i \in Relays, ReaderEnds(i) PROVE Discards
  <2> USE <1>12 DEF ReaderEnds
  <2>1. ASSUME NEW d \in Dirs, NEW k \in Links
        PROVE  /\ gone[d][k] => gone'[d][k]
               /\ gone'[d][k] => q'[d][k] = << >>
               /\ ~gone'[d][k] => q'[d][k] = q[d][k]
    BY <2>1, <1>p, <1>q DEF RelayType, Dirs
  <2>2. ASSUME NEW d \in Dirs, NEW j \in Parties
        PROVE  /\ hold'[d][j] # 0 => hold'[d][j] = hold[d][j]
               /\ CanRead(d, j)' => CanRead(d, j) /\ hold'[d][j] = hold[d][j]
    BY <2>2, <1>p DEF RelayType, CanRead, Dirs
  <2> QED BY <2>1, <2>2 DEF Discards
<1>13. ASSUME NEW i \in Relays, StreamEnds(i) PROVE Discards
  <2> USE <1>13 DEF StreamEnds
  <2>2. ASSUME NEW d \in Dirs, NEW j \in Parties
        PROVE  /\ hold'[d][j] # 0 => hold'[d][j] = hold[d][j]
               /\ CanRead(d, j)' => CanRead(d, j) /\ hold'[d][j] = hold[d][j]
    <3>1. relay'[j] = "done" \/ relay[j] # "done"
      BY <1>p DEF Loops, RelayType
    <3>2. chain[j] = "pty" => i = j
      BY RelayAssumption DEF RelayType, Ended, Parties
    <3> QED BY <2>2, <1>p, <3>1, <3>2 DEF RelayType, CanRead, Dirs
  <2> QED BY <2>2, <1>q DEF Discards
<1>14. ASSUME NEW i \in Relays, JoinReader(i) PROVE Discards
  <2> USE <1>14 DEF JoinReader
  <2>1. ASSUME NEW d \in Dirs, NEW j \in Parties PROVE CanRead(d, j)' => CanRead(d, j)
    BY <2>1, <1>p DEF RelayType, CanRead
  <2> QED BY <2>1, <1>q DEF Discards
<1>14a. ASSUME NEW i \in Relays, JoinWriter(i) PROVE Discards
  <2>1. i \in Parties /\ (chain[i] = "pty" => reader = "done")
    BY <1>14a DEF JoinWriter, StageOK, Parties
  <2> QED
    BY <1>14a, <2>1, EndDiscards DEF JoinWriter
<1>15. ASSUME NEW i \in Relays, WriterWaits(i) PROVE Discards
  <2> USE <1>15 DEF WriterWaits
  <2>1. i \in Parties /\ reader = "done" /\ relay[i] = "blind"
    BY DEF StageOK, Parties
  <2>2. CASE gone["up"][Out("up", i)]
    BY <2>1, <2>2, EndDiscards
  <2>3. CASE ~gone["up"][Out("up", i)]
    <3>1. ASSUME NEW d \in Dirs, NEW j \in Parties PROVE CanRead(d, j)' => CanRead(d, j)
      BY <2>1, <2>3, <3>1, <1>p DEF RelayType, CanRead
    <3> QED BY <2>3, <3>1, <1>q DEF Discards
  <2> QED BY <2>2, <2>3
<1> QED
  BY <1>1, <1>4, <1>5, <1>6, <1>7, <1>8, <1>9, <1>10, <1>11, <1>12, <1>13, <1>14,
     <1>14a, <1>15 DEF PtyStep

\* One more chunk put on, or taken from, a link.
Bump(c, d, k) == [c EXCEPT ![d][k] = @ + 1]

\* What a counter is after one more chunk.
LEMMA Bumped ==
    ASSUME NEW c \in Counters, NEW d \in Dirs, NEW k \in Links
    PROVE  /\ Bump(c, d, k) \in Counters
           /\ Bump(c, d, k)[d][k] = c[d][k] + 1
           /\ \A e \in Dirs : \A l \in Links : e # d \/ l # k => Bump(c, d, k)[e][l] = c[e][l]
  BY DEF Counters, Bump

\* The sequence of chunks that a read leaves.
LEMMA ChunksTail ==
    ASSUME NEW s \in Chunks, s # << >>
    PROVE  /\ Len(s) \in Nat \ {0} /\ Head(s) = s[1]
           /\ Tail(s) \in Chunks /\ Len(Tail(s)) = Len(s) - 1
           /\ \A j \in 1 .. Len(Tail(s)) : Tail(s)[j] = s[j + 1]
  BY DEF Chunks

\* The next number after consecutive ones.
LEMMA ChunksGrow ==
    ASSUME NEW s \in Chunks, NEW m \in Nat, NEW n \in Nat,
           \A j \in 1 .. Len(s) : s[j] = m + j, n = m + Len(s) + 1
    PROVE  /\ Len(s) \in Nat /\ Len(Append(s, n)) = Len(s) + 1
           /\ \A j \in 1 .. Len(Append(s, n)) : Append(s, n)[j] = m + j
<1>1. /\ Len(s) \in Nat /\ Len(Append(s, n)) = Len(s) + 1
      /\ \A j \in 1 .. Len(s) : Append(s, n)[j] = s[j]
      /\ Append(s, n)[Len(s) + 1] = n
  BY DEF Chunks
<1>2. \A j \in 1 .. Len(s) + 1 : j \in 1 .. Len(s) \/ j = Len(s) + 1
  BY <1>1
<1> QED BY <1>1, <1>2

\* Every link lies on one side of another.
LEMMA Order ==
    ASSUME RelayType, NEW d \in Dirs
    PROVE  /\ \A l \in Joined : ~Before(d, l, First(d))
           /\ \A k \in Joined : ~Before(d, Final(d), k)
           /\ \A i \in Parties : Before(d, In(d, i), Out(d, i))
           /\ \A i \in Parties : \A l \in Joined :
                Before(d, l, Out(d, i)) => l = In(d, i) \/ Before(d, l, In(d, i))
           /\ \A i, j \in Parties : i # j => In(d, i) # In(d, j) /\ Out(d, i) # Out(d, j)
<1>1. Last \in Nat
  BY Places
<1> QED
  BY <1>1, Places DEF Before, Joined, Parties, First, Final, In, Out, Dirs

\* A relay's read keeps the counts, with one more chunk taken from its link.
LEMMA TakeKeeps ==
    ASSUME SessionInv, NEW put \in Counters, NEW taken \in Counters, CountsOK(put, taken),
           NEW d \in Dirs, NEW i \in Relays, Take(d, i)
    PROVE  CountsOK(put, Bump(taken, d, In(d, i)))'
<1> DEFINE k == In(d, i)
           new == Bump(taken, d, k)
<1>0. i \in Parties /\ hold[d][i] = 0 /\ CanRead(d, i) /\ q[d][k] # << >>
  BY DEF Take, Reading, Free, Parties, CanRead, Dirs
<1>p. /\ k \in Joined /\ k \in Links /\ k # Final(d)
      /\ Parties \subseteq Relays /\ Joined \subseteq Links
      /\ \A e \in Dirs : First(e) \in Links /\ Final(e) \in Links
      /\ \A e \in Dirs : \A j \in Parties : In(e, j) \in Links /\ Out(e, j) \in Links
  BY Places, <1>0 DEF SessionInv
<1>c. /\ UNCHANGED <<chain, sent, got, gone, relay, reader, streamOpen, Parties, Joined>>
      /\ \A e \in Dirs : UNCHANGED <<First(e), Final(e)>>
  BY DEF Take, Parties, Joined, Last, First, Final, hostVars, endVars, ptyVars
<1>b. /\ new \in Counters /\ new[d][k] = taken[d][k] + 1
      /\ \A e \in Dirs : \A l \in Links : e # d \/ l # k => new[e][l] = taken[e][l]
  BY <1>p, Bumped
<1>h. /\ hold'[d][i] = Head(q[d][k]) /\ q'[d][k] = Tail(q[d][k])
      /\ \A e \in Dirs : \A l \in Links : e # d \/ l # k => q'[e][l] = q[e][l]
      /\ \A e \in Dirs : \A j \in Relays : e # d \/ j # i => hold'[e][j] = hold[e][j]
  BY <1>p DEF Take, SessionInv, RelayType
<1>t. q[d][k] \in Chunks /\ put[d][k] \in Nat /\ taken[d][k] \in Nat
  BY <1>p DEF SessionInv, RelayType, Counters
<1>l. LinkOK(d, k, put, taken) /\ ~gone[d][k]
  BY <1>0, <1>p DEF CountsOK, LinkOK
<1>n. hold'[d][i] = taken[d][k] + 1 /\ taken[d][k] < put[d][k]
  BY <1>0, <1>h, <1>t, <1>l, ChunksTail DEF LinkOK
<1> HIDE DEF k, new
<1>1. ASSUME NEW e \in Dirs, NEW l \in Links PROVE LinkOK(e, l, put, new)'
  <2>1. CASE e = d /\ l = k
    <3>1. q'[d][k] = Tail(q[d][k]) /\ Len(q'[d][k]) = Len(q[d][k]) - 1
          /\ Len(q[d][k]) \in Nat \ {0}
          /\ \A j \in 1 .. Len(q'[d][k]) : q'[d][k][j] = q[d][k][j + 1]
      BY <1>0, <1>t, <1>h, ChunksTail
    <3>2. put[d][k] <= sent'[d] /\ new[d][k] <= put[d][k]
      BY <1>n, <1>b, <1>t, <1>l, <1>c DEF LinkOK
    <3>3. Len(q'[d][k]) = put[d][k] - new[d][k]
      BY <3>1, <1>b, <1>t, <1>l DEF LinkOK
    <3>4. \A j \in 1 .. Len(q'[d][k]) : q'[d][k][j] = new[d][k] + j
      BY <3>1, <1>b, <1>t, <1>l DEF LinkOK
    <3> QED BY <2>1, <3>2, <3>3, <3>4, <1>l, <1>c DEF LinkOK
  <2>2. CASE e # d \/ l # k
    BY <2>2, <1>1, <1>b, <1>c, <1>h DEF CountsOK, LinkOK
  <2> QED BY <2>1, <2>2
<1>2. ASSUME NEW e \in Dirs, NEW j \in Parties PROVE HoldOK(e, j, put, new)'
  <2>1. CASE e = d /\ j = i
    <3>1. put[d][Out(d, i)] = taken[d][k]
      BY <1>0 DEF CountsOK, HoldOK, k
    <3> QED BY <2>1, <3>1, <1>n, <1>b, <1>t DEF HoldOK, k
  <2>2. CASE e # d \/ j # i
    <3>1. e # d \/ In(e, j) # k
      BY <1>0, <2>2, <1>2, Order DEF SessionInv, k
    <3>2. CanRead(e, j)' = CanRead(e, j) /\ hold'[e][j] = hold[e][j]
      BY <1>c, <1>h, <1>p, <2>2 DEF CanRead
    <3>3. new[e][In(e, j)] = taken[e][In(e, j)]
      BY <3>1, <1>b, <1>p
    <3> QED BY <3>2, <3>3, <1>2 DEF CountsOK, HoldOK
  <2> QED BY <2>1, <2>2
<1>3. ASSUME NEW e \in Dirs PROVE EndOK(e, put, new)'
  BY <1>3, <1>b, <1>c, <1>p DEF CountsOK, EndOK
<1>4. ASSUME NEW e \in Dirs, NEW m \in Joined, NEW l \in Joined, Before(e, l, m)
      PROVE  put[e][m] <= new[e][l]
  <2>1. put[e][m] <= taken[e][l]
    BY <1>4 DEF CountsOK
  <2>2. /\ put[e][m] \in Nat /\ taken[e][l] \in Nat
        /\ (new[e][l] = taken[e][l] \/ new[e][l] = taken[e][l] + 1)
    BY <1>4, <1>p, <1>b DEF Counters
  <2> QED BY <2>1, <2>2
<1> QED
  BY <1>c, <1>1, <1>2, <1>3, <1>4 DEF CountsOK, new, k

\* A relay's write keeps the counts, with one more chunk put on its link, whether or not
\* anyone reads that link.
LEMMA PutKeeps ==
    ASSUME SessionInv, NEW put \in Counters, NEW taken \in Counters, CountsOK(put, taken),
           NEW d \in Dirs, NEW i \in Relays, Put(d, i)
    PROVE  CountsOK(Bump(put, d, Out(d, i)), taken)'
<1> DEFINE k == Out(d, i)
           new == Bump(put, d, k)
<1>0. i \in Parties /\ hold[d][i] # 0
  BY DEF Put, Parties
<1>p. /\ k \in Joined /\ k \in Links /\ k # First(d)
      /\ Parties \subseteq Relays /\ Joined \subseteq Links
      /\ In(d, i) \in Joined
      /\ \A e \in Dirs : First(e) \in Links /\ Final(e) \in Links
      /\ \A e \in Dirs : \A j \in Parties : In(e, j) \in Links /\ Out(e, j) \in Links
  BY Places, <1>0 DEF SessionInv
<1>c. /\ UNCHANGED <<chain, sent, got, gone, reader, streamOpen, Parties, Joined>>
      /\ \A e \in Dirs : UNCHANGED <<First(e), Final(e)>>
  BY DEF Put, Parties, Joined, Last, First, Final, hostVars, endVars, ptyVars
<1>b. /\ new \in Counters /\ new[d][k] = put[d][k] + 1
      /\ \A e \in Dirs : \A l \in Links : e # d \/ l # k => new[e][l] = put[e][l]
  BY <1>p, Bumped
<1>t. /\ q[d][k] \in Chunks /\ put[d][k] \in Nat /\ taken[d][k] \in Nat
      /\ taken[d][In(d, i)] \in Nat /\ put[d][In(d, i)] \in Nat /\ sent[d] \in Nat
      /\ hold[d][i] \in Nat
  BY <1>p DEF SessionInv, RelayType, Counters
<1>h. /\ hold'[d][i] = 0
      /\ \A e \in Dirs : \A l \in Links : e # d \/ l # k => q'[e][l] = q[e][l]
      /\ \A e \in Dirs : \A j \in Relays : e # d \/ j # i => hold'[e][j] = hold[e][j]
  BY <1>p DEF Put, Written, SessionInv, RelayType
<1>g. IF gone[d][k] THEN q'[d][k] = q[d][k] ELSE q'[d][k] = Append(q[d][k], hold[d][i])
  BY <1>p DEF Put, SessionInv, RelayType
<1>r. \A j \in Parties : relay'[j] # "done" => relay[j] # "done"
  BY <1>p DEF Put, Loops, SessionInv, RelayType
<1>l. LinkOK(d, k, put, taken) /\ LinkOK(d, In(d, i), put, taken)
  BY <1>p DEF CountsOK
<1>n. hold[d][i] = put[d][k] + 1 /\ taken[d][In(d, i)] = put[d][k] + 1
  BY <1>0, <1>t DEF CountsOK, HoldOK
<1>s. put[d][k] + 1 <= sent[d]
  BY <1>n, <1>l, <1>t DEF LinkOK
<1> HIDE DEF k, new
<1>1. ASSUME NEW e \in Dirs, NEW l \in Links PROVE LinkOK(e, l, new, taken)'
  <2>1. CASE e = d /\ l = k
    <3>1. taken[d][k] <= new[d][k] /\ new[d][k] <= sent'[d]
      BY <1>s, <1>b, <1>t, <1>l, <1>c DEF LinkOK
    <3>2. gone[d][k] => q'[d][k] = << >>
      BY <1>g, <1>l DEF LinkOK
    <3>3. ASSUME ~gone[d][k]
          PROVE  /\ Len(q'[d][k]) = new[d][k] - taken[d][k]
                 /\ \A j \in 1 .. Len(q'[d][k]) : q'[d][k][j] = taken[d][k] + j
      <4>0. q'[d][k] = Append(q[d][k], hold[d][i])
        BY <3>3, <1>g
      <4>1. /\ Len(q[d][k]) = put[d][k] - taken[d][k]
            /\ \A j \in 1 .. Len(q[d][k]) : q[d][k][j] = taken[d][k] + j
        BY <3>3, <1>l DEF LinkOK
      <4>2. hold[d][i] \in Nat /\ hold[d][i] = taken[d][k] + Len(q[d][k]) + 1
        BY <4>1, <1>n, <1>t
      <4>3. /\ Len(Append(q[d][k], hold[d][i])) = Len(q[d][k]) + 1
            /\ \A j \in 1 .. Len(Append(q[d][k], hold[d][i])) :
                  Append(q[d][k], hold[d][i])[j] = taken[d][k] + j
        BY <4>1, <4>2, <1>t, ChunksGrow, Zenon
      <4>4. Len(q'[d][k]) = Len(q[d][k]) + 1
        BY <4>0, <4>3
      <4>5. \A j \in 1 .. Len(q'[d][k]) : q'[d][k][j] = taken[d][k] + j
        BY <4>0, <4>3
      <4>6. Len(q'[d][k]) = new[d][k] - taken[d][k]
        BY <4>1, <4>4, <1>b, <1>t
      <4> QED BY <4>5, <4>6
    <3> QED BY <2>1, <3>1, <3>2, <3>3, <1>c DEF LinkOK
  <2>2. CASE e # d \/ l # k
    BY <2>2, <1>1, <1>b, <1>c, <1>h DEF CountsOK, LinkOK
  <2> QED BY <2>1, <2>2
<1>2. ASSUME NEW e \in Dirs, NEW j \in Parties PROVE HoldOK(e, j, new, taken)'
  <2>1. CASE e = d /\ j = i
    BY <2>1, <1>n, <1>b, <1>h DEF HoldOK, k
  <2>2. CASE e # d \/ j # i
    <3>1. e # d \/ Out(e, j) # k
      BY <1>0, <2>2, <1>2, Order DEF SessionInv, k
    <3>2. (CanRead(e, j)' => CanRead(e, j)) /\ hold'[e][j] = hold[e][j]
      BY <1>c, <1>h, <1>p, <1>r, <2>2 DEF CanRead
    <3>3. new[e][Out(e, j)] = put[e][Out(e, j)]
      BY <3>1, <1>b, <1>p
    <3> QED BY <3>2, <3>3, <1>2 DEF CountsOK, HoldOK
  <2> QED BY <2>1, <2>2
<1>3. ASSUME NEW e \in Dirs PROVE EndOK(e, new, taken)'
  BY <1>3, <1>b, <1>c, <1>p DEF CountsOK, EndOK
<1>4. ASSUME NEW e \in Dirs, NEW m \in Joined, NEW l \in Joined, Before(e, l, m)
      PROVE  new[e][m] <= taken[e][l]
  <2>1. CASE e = d /\ m = k
    <3>1. l = In(d, i) \/ Before(d, l, In(d, i))
      BY <2>1, <1>0, <1>4, Order DEF SessionInv, k
    <3>2. CASE l = In(d, i)
      BY <2>1, <3>2, <1>n, <1>b, <1>t
    <3>3. CASE Before(d, l, In(d, i))
      <4>1. put[d][In(d, i)] <= taken[d][l] /\ taken[d][l] \in Nat
        BY <3>3, <1>4, <1>p DEF CountsOK, Counters
      <4> QED BY <2>1, <4>1, <1>n, <1>b, <1>t, <1>l DEF LinkOK
    <3> QED BY <3>1, <3>2, <3>3
  <2>2. CASE e # d \/ m # k
    BY <2>2, <1>4, <1>b, <1>p DEF CountsOK
  <2> QED BY <2>1, <2>2
<1> QED
  BY <1>c, <1>1, <1>2, <1>3, <1>4 DEF CountsOK, new, k

\* A write of the client or the service keeps the counts.
LEMMA EndWritesKeeps ==
    ASSUME SessionInv, NEW put \in Counters, NEW taken \in Counters, CountsOK(put, taken),
           NEW d \in Dirs, EndWrites(d), NEW k \in Links, k = First(d)
    PROVE  CountsOK(Bump(put, d, k), taken)'
<1> DEFINE new == Bump(put, d, k)
<1>p. /\ k \in Joined /\ k \in Links /\ Joined \subseteq Links
      /\ \A e \in Dirs : First(e) \in Links /\ Final(e) \in Links
      /\ \A e \in Dirs : \A j \in Parties : In(e, j) \in Links /\ Out(e, j) \in Links
      /\ \A j \in Parties : Out(d, j) # k
  BY Places DEF SessionInv
<1>c. /\ UNCHANGED <<chain, hold, relay, got, gone, reader, streamOpen, Parties, Joined>>
      /\ \A e \in Dirs : UNCHANGED <<First(e), Final(e)>>
  BY DEF EndWrites, Parties, Joined, Last, First, Final, hostVars, ptyVars
<1>b. /\ new \in Counters /\ new[d][k] = put[d][k] + 1
      /\ \A e \in Dirs : \A l \in Links : e # d \/ l # k => new[e][l] = put[e][l]
  BY <1>p, Bumped
<1>t. /\ q[d][k] \in Chunks /\ put[d][k] \in Nat /\ taken[d][k] \in Nat /\ sent[d] \in Nat
  BY <1>p DEF SessionInv, RelayType, Counters
<1>h. /\ sent'[d] = sent[d] + 1 /\ \A e \in Dirs : e # d => sent'[e] = sent[e]
      /\ \A e \in Dirs : \A l \in Links : e # d \/ l # k => q'[e][l] = q[e][l]
  BY <1>p DEF EndWrites, SessionInv, RelayType
<1>g. IF gone[d][k] THEN q'[d][k] = q[d][k] ELSE q'[d][k] = Append(q[d][k], sent[d] + 1)
  BY <1>p DEF EndWrites, SessionInv, RelayType
<1>l. LinkOK(d, k, put, taken) /\ put[d][k] = sent[d]
  BY <1>p DEF CountsOK, EndOK
<1> HIDE DEF new
<1>1. ASSUME NEW e \in Dirs, NEW l \in Links PROVE LinkOK(e, l, new, taken)'
  <2>1. CASE e = d /\ l = k
    <3>1. taken[d][k] <= new[d][k] /\ new[d][k] <= sent'[d]
      BY <1>h, <1>b, <1>t, <1>l DEF LinkOK
    <3>2. gone[d][k] => q'[d][k] = << >>
      BY <1>g, <1>l DEF LinkOK
    <3>3. ASSUME ~gone[d][k]
          PROVE  /\ Len(q'[d][k]) = new[d][k] - taken[d][k]
                 /\ \A j \in 1 .. Len(q'[d][k]) : q'[d][k][j] = taken[d][k] + j
      <4>0. q'[d][k] = Append(q[d][k], sent[d] + 1)
        BY <3>3, <1>g
      <4>1. /\ Len(q[d][k]) = put[d][k] - taken[d][k]
            /\ \A j \in 1 .. Len(q[d][k]) : q[d][k][j] = taken[d][k] + j
        BY <3>3, <1>l DEF LinkOK
      <4>2. sent[d] + 1 \in Nat /\ sent[d] + 1 = taken[d][k] + Len(q[d][k]) + 1
        BY <4>1, <1>l, <1>t
      <4>3. /\ Len(Append(q[d][k], sent[d] + 1)) = Len(q[d][k]) + 1
            /\ \A j \in 1 .. Len(Append(q[d][k], sent[d] + 1)) :
                  Append(q[d][k], sent[d] + 1)[j] = taken[d][k] + j
        BY <4>1, <4>2, <1>t, ChunksGrow, Zenon
      <4>4. Len(q'[d][k]) = Len(q[d][k]) + 1
        BY <4>0, <4>3
      <4>5. \A j \in 1 .. Len(q'[d][k]) : q'[d][k][j] = taken[d][k] + j
        BY <4>0, <4>3
      <4>6. Len(q'[d][k]) = new[d][k] - taken[d][k]
        BY <4>1, <4>4, <1>b, <1>t
      <4> QED BY <4>5, <4>6
    <3> QED BY <2>1, <3>1, <3>2, <3>3, <1>c DEF LinkOK
  <2>2. CASE e # d \/ l # k
    <3>1. /\ LinkOK(e, l, put, taken) /\ put[e][l] \in Nat
          /\ sent[e] \in Nat /\ sent'[e] \in Nat /\ sent[e] <= sent'[e]
      BY <1>1, <1>h DEF CountsOK, SessionInv, RelayType, Counters
    <3>2. put[e][l] <= sent'[e]
      BY <3>1 DEF LinkOK
    <3> QED BY <2>2, <3>1, <3>2, <1>b, <1>c, <1>h DEF LinkOK
  <2> QED BY <2>1, <2>2
<1>2. ASSUME NEW e \in Dirs, NEW j \in Parties PROVE HoldOK(e, j, new, taken)'
  <2>1. (CanRead(e, j)' = CanRead(e, j)) /\ hold'[e][j] = hold[e][j]
    BY <1>c DEF CanRead
  <2>2. new[e][Out(e, j)] = put[e][Out(e, j)]
    BY <1>2, <1>b, <1>p
  <2> QED BY <2>1, <2>2, <1>2 DEF CountsOK, HoldOK
<1>3. ASSUME NEW e \in Dirs PROVE EndOK(e, new, taken)'
  <2>1. new[e][First(e)] = sent'[e]
    <3>1. CASE e = d
      BY <3>1, <1>b, <1>l, <1>h
    <3>2. CASE e # d
      BY <3>2, <1>3, <1>b, <1>p, <1>h DEF CountsOK, EndOK
    <3> QED BY <3>1, <3>2
  <2> QED BY <2>1, <1>3, <1>c DEF CountsOK, EndOK
<1>4. ASSUME NEW e \in Dirs, NEW m \in Joined, NEW l \in Joined, Before(e, l, m)
      PROVE  new[e][m] <= taken[e][l]
  <2>1. e # d \/ m # k
    BY <1>4, Order DEF SessionInv
  <2> QED
    BY <2>1, <1>4, <1>b, <1>p DEF CountsOK
<1> QED
  BY <1>c, <1>1, <1>2, <1>3, <1>4 DEF CountsOK, new

\* A read of the client or the service keeps the counts.
LEMMA EndReadsKeeps ==
    ASSUME SessionInv, NEW put \in Counters, NEW taken \in Counters, CountsOK(put, taken),
           NEW d \in Dirs, EndReads(d), NEW k \in Links, k = Final(d)
    PROVE  CountsOK(put, Bump(taken, d, k))'
<1> DEFINE new == Bump(taken, d, k)
<1>0. ~gone[d][k] /\ q[d][k] # << >>
  BY DEF EndReads
<1>p. /\ k \in Joined /\ k \in Links /\ Joined \subseteq Links
      /\ \A e \in Dirs : First(e) \in Links /\ Final(e) \in Links
      /\ \A e \in Dirs : \A j \in Parties : In(e, j) \in Links /\ Out(e, j) \in Links
      /\ \A j \in Parties : In(d, j) # k
  BY Places DEF SessionInv
<1>c. /\ UNCHANGED <<chain, hold, relay, sent, gone, reader, streamOpen, Parties, Joined>>
      /\ \A e \in Dirs : UNCHANGED <<First(e), Final(e)>>
  BY DEF EndReads, Parties, Joined, Last, First, Final, hostVars, ptyVars
<1>b. /\ new \in Counters /\ new[d][k] = taken[d][k] + 1
      /\ \A e \in Dirs : \A l \in Links : e # d \/ l # k => new[e][l] = taken[e][l]
  BY <1>p, Bumped
<1>t. /\ q[d][k] \in Chunks /\ put[d][k] \in Nat /\ taken[d][k] \in Nat /\ got[d] \in Chunks
  BY <1>p DEF SessionInv, RelayType, Counters
<1>h. /\ q'[d][k] = Tail(q[d][k]) /\ got'[d] = Append(got[d], Head(q[d][k]))
      /\ \A e \in Dirs : \A l \in Links : e # d \/ l # k => q'[e][l] = q[e][l]
      /\ \A e \in Dirs : e # d => got'[e] = got[e]
  BY <1>p DEF EndReads, SessionInv, RelayType
<1>l. LinkOK(d, k, put, taken)
  BY <1>p DEF CountsOK
<1>n. Head(q[d][k]) = taken[d][k] + 1 /\ taken[d][k] < put[d][k]
  BY <1>0, <1>t, <1>l, ChunksTail DEF LinkOK
<1> HIDE DEF new
<1>1. ASSUME NEW e \in Dirs, NEW l \in Links PROVE LinkOK(e, l, put, new)'
  <2>1. CASE e = d /\ l = k
    <3>1. q'[d][k] = Tail(q[d][k]) /\ Len(q'[d][k]) = Len(q[d][k]) - 1
          /\ Len(q[d][k]) \in Nat \ {0}
          /\ \A j \in 1 .. Len(q'[d][k]) : q'[d][k][j] = q[d][k][j + 1]
      BY <1>0, <1>t, <1>h, ChunksTail
    <3>2. put[d][k] <= sent'[d] /\ new[d][k] <= put[d][k]
      BY <1>n, <1>b, <1>t, <1>l, <1>c DEF LinkOK
    <3>3. Len(q'[d][k]) = put[d][k] - new[d][k]
      BY <3>1, <1>0, <1>b, <1>t, <1>l DEF LinkOK
    <3>4. \A j \in 1 .. Len(q'[d][k]) : q'[d][k][j] = new[d][k] + j
      BY <3>1, <1>0, <1>b, <1>t, <1>l DEF LinkOK
    <3> QED BY <2>1, <3>2, <3>3, <3>4, <1>0, <1>c DEF LinkOK
  <2>2. CASE e # d \/ l # k
    BY <2>2, <1>1, <1>b, <1>c, <1>h DEF CountsOK, LinkOK
  <2> QED BY <2>1, <2>2
<1>2. ASSUME NEW e \in Dirs, NEW j \in Parties PROVE HoldOK(e, j, put, new)'
  <2>1. (CanRead(e, j)' = CanRead(e, j)) /\ hold'[e][j] = hold[e][j]
    BY <1>c DEF CanRead
  <2>2. new[e][In(e, j)] = taken[e][In(e, j)]
    BY <1>2, <1>b, <1>p
  <2> QED BY <2>1, <2>2, <1>2 DEF CountsOK, HoldOK
<1>3. ASSUME NEW e \in Dirs PROVE EndOK(e, put, new)'
  <2>1. CASE e = d
    <3>0. Head(q[d][k]) \in Nat
      BY <1>n, <1>t
    <3>1. Len(got[d]) = taken[d][k] /\ \A j \in 1 .. Len(got[d]) : got[d][j] = 0 + j
      BY DEF CountsOK, EndOK
    <3>2. Head(q[d][k]) = 0 + Len(got[d]) + 1
      BY <3>1, <1>n, <1>t
    <3>3. Len(got'[d]) = Len(got[d]) + 1 /\ \A j \in 1 .. Len(got'[d]) : got'[d][j] = 0 + j
      BY <3>0, <3>1, <3>2, <1>h, <1>t, ChunksGrow
    <3>4. Len(got'[d]) = new[d][k] /\ \A j \in 1 .. Len(got'[d]) : got'[d][j] = j
      BY <3>1, <3>3, <1>b
    <3> QED BY <2>1, <3>4, <1>c DEF CountsOK, EndOK
  <2>2. CASE e # d
    BY <2>2, <1>3, <1>b, <1>c, <1>p, <1>h DEF CountsOK, EndOK
  <2> QED BY <2>1, <2>2
<1>4. ASSUME NEW e \in Dirs, NEW m \in Joined, NEW l \in Joined, Before(e, l, m)
      PROVE  put[e][m] <= new[e][l]
  <2>1. put[e][m] <= taken[e][l]
    BY <1>4 DEF CountsOK
  <2>2. /\ put[e][m] \in Nat /\ taken[e][l] \in Nat
        /\ (new[e][l] = taken[e][l] \/ new[e][l] = taken[e][l] + 1)
    BY <1>4, <1>p, <1>b DEF Counters
  <2> QED BY <2>1, <2>2
<1> QED
  BY <1>c, <1>1, <1>2, <1>3, <1>4 DEF CountsOK, new

-----------------------------------------------------------------------------
(* Why links end. *)

\* A link towards the client has lost its reader, and a link towards the service its
\* writer, only when the relay between them has ended the client's side too, when the
\* client itself has closed, or when the connection broke.
CutInv ==
    /\ gone["down"][1] => fin["up"][1]
    /\ \A i \in Parties : gone["down"][i + 1] => broken \/ fin["down"][i]
    /\ \A i \in Parties : fin["up"][i + 1] => broken \/ fin["down"][i]
    /\ \A i \in Parties : chain[i] = "pty" /\ reader = "done" => fin["down"][i]

\* The flags of a link are never taken back.
FlagsStay ==
    /\ UNCHANGED chain
    /\ broken => broken'
    /\ \A d \in Dirs : \A k \in Links :
          /\ fin[d][k] => fin'[d][k]
          /\ gone[d][k] => gone'[d][k]

\* The session is over for the service.
Finished == fin["down"][Last] \/ stage \in {"rejected", "refused"}

\* The end of a relay sets flags only, and ends the client's side with the others.
LEMMA EndStays ==
    ASSUME SessionInv, CutInv, NEW i \in Parties, End(i), UNCHANGED <<chain, broken, reader>>
    PROVE  FlagsStay /\ CutInv'
<1>p. /\ Parties \subseteq Relays /\ Joined \subseteq Links /\ 1 \in Links
      /\ \A j \in Parties : j \in Links /\ j + 1 \in Links /\ j \in Nat /\ j + 1 # 1
  BY Places DEF SessionInv, Parties, Joined, Links
<1>c. UNCHANGED Parties
  BY DEF Parties
<1>t. /\ fin \in [Dirs -> [Links -> BOOLEAN]] /\ gone \in [Dirs -> [Links -> BOOLEAN]]
      /\ "up" \in Dirs /\ "down" \in Dirs
  BY DEF SessionInv, RelayType, Dirs
<1>1. /\ \A k \in Links : fin'["down"][k] = (fin["down"][k] \/ k = i)
      /\ \A k \in Links : fin'["up"][k] = (fin["up"][k] \/ k = i + 1)
      /\ \A k \in Links : gone'["down"][k] = (gone["down"][k] \/ k = i + 1)
      /\ \A k \in Links : gone'["up"][k] = (gone["up"][k] \/ k = i)
  BY <1>p, <1>t DEF End, In, Out
<1>2. FlagsStay
  BY <1>1 DEF FlagsStay, Dirs
<1>3. \A j \in Parties : j + 1 = i + 1 => j = i
  BY DEF Parties
<1>4. CutInv'
  BY <1>1, <1>3, <1>p, <1>c DEF CutInv
<1> QED BY <1>2, <1>4

\* Every step keeps the flags and CutInv.
LEMMA CutSteps ==
    ASSUME SessionInv, CutInv, [RelayNext]_relayVars
    PROVE  FlagsStay /\ CutInv'
<1> USE DEF hostVars, endVars, ptyVars, SessionInv
<1>p. /\ Parties \subseteq Relays /\ Joined \subseteq Links /\ 1 \in Links
      /\ \A j \in Parties : j \in Links /\ j + 1 \in Links /\ j \in Nat /\ j + 1 # 1
      /\ Wire # 1
  BY Places DEF Parties, Joined, Links
<1>c. UNCHANGED chain => UNCHANGED <<Parties, Last, Wire>>
  BY DEF Parties, Last, Wire
<1>t. /\ fin \in [Dirs -> [Links -> BOOLEAN]] /\ gone \in [Dirs -> [Links -> BOOLEAN]]
      /\ "up" \in Dirs /\ "down" \in Dirs
  BY DEF RelayType, Dirs
<1>u. UNCHANGED <<chain, broken, reader, fin, gone>> => FlagsStay /\ CutInv'
  BY <1>c DEF FlagsStay, CutInv
<1>1. CASE FeatureOn \/ Request \/ Open \/ AcceptSession \/ UNCHANGED relayVars
  BY <1>1, <1>u DEF FeatureOn, Request, Open, AcceptSession, relayVars, linkVars
<1>2. ASSUME Reject \/ Refuse, UNCHANGED <<chain, broken, reader>>
      PROVE  FlagsStay /\ CutInv'
  <2>1. /\ \A k \in Links : fin["down"][k] => fin'["down"][k]
        /\ \A k \in Links : gone["up"][k] => gone'["up"][k]
        /\ fin'["up"] = fin["up"] /\ gone'["down"] = gone["down"]
    <3>1. CASE Reject
      BY <3>1, <1>t DEF Reject
    <3>2. CASE Refuse
      BY <3>2, <1>t DEF Refuse
    <3> QED BY <1>2, <3>1, <3>2
  <2> QED BY <2>1, <1>2, <1>p, <1>c DEF FlagsStay, CutInv, Dirs
<1>3. CASE Dispatch \/ OpenFails \/ FeatureOff \/ Arrive \/ NoService
  BY <1>3, <1>2, <1>u DEF Dispatch, OpenFails, FeatureOff, Arrive, NoService, linkVars
<1>4. CASE ConnectionLost
  <2>1. /\ broken' /\ UNCHANGED <<chain, reader>>
        /\ \A d \in Dirs : \A k \in Links : (fin[d][k] => fin'[d][k]) /\ (gone[d][k] => gone'[d][k])
        /\ gone'["down"][1] = gone["down"][1]
    BY <1>4, <1>t, <1>p DEF ConnectionLost
  <2> QED BY <2>1, <1>p, <1>c, <1>t DEF FlagsStay, CutInv
<1>5. CASE ClientCloses
  <2>1. /\ UNCHANGED <<chain, reader, broken>>
        /\ fin'["down"] = fin["down"] /\ gone'["up"] = gone["up"]
        /\ \A k \in Links : fin'["up"][k] = (fin["up"][k] \/ k = 1)
        /\ \A k \in Links \ {1} : gone'["down"][k] = gone["down"][k]
        /\ gone["down"][1] => gone'["down"][1]
    <3>0. UNCHANGED <<chain, reader, broken>> /\ fin' = [fin EXCEPT !["up"][1] = TRUE]
      BY <1>5 DEF ClientCloses
    <3>1. /\ UNCHANGED <<chain, reader, broken>>
          /\ fin'["down"] = fin["down"]
          /\ \A k \in Links : fin'["up"][k] = (fin["up"][k] \/ k = 1)
      BY <3>0, <1>t
    <3>2. CASE UNCHANGED <<q, gone>>
      BY <3>1, <3>2
    <3>3. CASE gone' = [gone EXCEPT !["down"][1] = TRUE]
      BY <3>1, <3>3, <1>t, <1>p
    <3> QED BY <1>5, <3>2, <3>3 DEF ClientCloses
  <2> QED BY <2>1, <1>p, <1>c, <1>t DEF FlagsStay, CutInv, Dirs
<1>6. CASE ServiceCloses
  <2>1. /\ UNCHANGED <<chain, reader, broken>>
        /\ fin'["up"] = fin["up"] /\ gone'["down"] = gone["down"]
        /\ \A k \in Links : fin["down"][k] => fin'["down"][k]
        /\ \A k \in Links : gone["up"][k] => gone'["up"][k]
    BY <1>6, <1>t DEF ServiceCloses
  <2> QED BY <2>1, <1>p, <1>c, <1>t DEF FlagsStay, CutInv, Dirs
<1>7. ASSUME NEW d \in Dirs, NEW i \in Relays, Take(d, i) \/ Put(d, i)
      PROVE  FlagsStay /\ CutInv'
  BY <1>7, <1>u DEF Take, Put
<1>8. ASSUME NEW d \in Dirs, EndWrites(d) \/ EndReads(d) PROVE FlagsStay /\ CutInv'
  BY <1>8, <1>u DEF EndWrites, EndReads
<1>9. ASSUME NEW d \in Dirs, NEW i \in Relays, RelayEnds(d, i) PROVE FlagsStay /\ CutInv'
  BY <1>9, EndStays DEF RelayEnds, Ended, Parties
<1>10. ASSUME NEW i \in Relays, ReaderEnds(i) PROVE FlagsStay /\ CutInv'
  <2>0. i \in Parties /\ chain[i] = "pty" /\ \A j \in Parties : chain[j] = "pty" => j = i
    BY <1>10, RelayAssumption DEF ReaderEnds, Ended, Parties, RelayType
  <2>1. /\ UNCHANGED <<chain, broken>>
        /\ \A k \in Links : fin'["down"][k] = (fin["down"][k] \/ k = i)
        /\ \A k \in Links : gone'["down"][k] = (gone["down"][k] \/ k = i + 1)
        /\ fin'["up"] = fin["up"] /\ gone'["up"] = gone["up"]
    BY <1>10, <1>t, <1>p, <2>0 DEF ReaderEnds, In, Out
  <2>2. \A j \in Parties : j + 1 = i + 1 => j = i
    BY <2>0 DEF Parties
  <2>3. FlagsStay
    BY <2>1 DEF FlagsStay, Dirs
  <2>4. CutInv'
    BY <2>0, <2>1, <2>2, <1>p, <1>c DEF CutInv
  <2> QED BY <2>3, <2>4
<1>11. ASSUME NEW i \in Relays, StreamEnds(i) PROVE FlagsStay /\ CutInv'
  BY <1>11, <1>u DEF StreamEnds
<1>12. ASSUME NEW i \in Relays, JoinReader(i) PROVE FlagsStay /\ CutInv'
  <2>0. i \in Parties /\ chain[i] = "pty" /\ reader = "done"
    BY <1>12 DEF JoinReader, Parties
  <2>1. /\ UNCHANGED <<chain, broken, reader, gone>> /\ fin'["down"] = fin["down"]
        /\ \A k \in Links : fin'["up"][k] = (fin["up"][k] \/ k = i + 1)
    BY <1>12, <1>t, <1>p, <2>0 DEF JoinReader, Out
  <2>2. \A j \in Parties : j + 1 = i + 1 => j = i
    BY <2>0 DEF Parties
  <2>3. FlagsStay
    BY <2>1 DEF FlagsStay, Dirs
  <2>4. CutInv'
    BY <2>0, <2>1, <2>2, <1>p, <1>c DEF CutInv
  <2> QED BY <2>3, <2>4
<1>12a. ASSUME NEW i \in Relays, JoinWriter(i) PROVE FlagsStay /\ CutInv'
  BY <1>12a, EndStays DEF JoinWriter, Parties
<1>13. ASSUME NEW i \in Relays, WriterWaits(i) PROVE FlagsStay /\ CutInv'
  <2>1. i \in Parties
    BY <1>13 DEF WriterWaits, Parties
  <2>2. End(i) \/ UNCHANGED <<fin, gone>>
    BY <1>13 DEF WriterWaits
  <2> QED BY <1>13, <2>1, <2>2, <1>u, EndStays DEF WriterWaits
<1> QED
  BY <1>1, <1>3, <1>4, <1>5, <1>6, <1>7, <1>8, <1>9, <1>10, <1>11, <1>12, <1>12a, <1>13
     DEF RelayNext, RelayStep, PtyStep

-----------------------------------------------------------------------------
(* The response. *)

\* A chunk of the client's was lost: on a link whose reader is gone, or in a relay that
\* does not read on.
LostOn(k, put, taken) == gone["up"][k] /\ put["up"][k] # taken["up"][k]
LostIn(i, put, taken) ==
    ~CanRead("up", i) /\ hold["up"][i] = 0 /\ put["up"][i + 1] # taken["up"][i]
Lost(put, taken) ==
    \/ \E k \in Joined : LostOn(k, put, taken)
    \/ \E i \in Parties : LostIn(i, put, taken)

\* The client has not closed its side, the connection stands, and nothing that the client
\* wrote was lost.
Clean(put, taken) == ~fin["up"][1] /\ ~broken /\ ~Lost(put, taken)

\* A link towards the client ends only after all of the response was put on it.
DrainOK(put, taken) ==
    Clean(put, taken) =>
        \A k \in Joined : fin["down"][k] => put["down"][k] = sent["down"] /\ Finished

\* The counters only grow, and not where nothing can be put or taken.
Advances(put, taken, p, t) ==
    /\ \A d \in Dirs : \A k \in Links : put[d][k] <= p[d][k]
    /\ \A k \in Links : gone["up"][k] => t["up"][k] = taken["up"][k]
    /\ \A i \in Parties : ~CanRead("up", i) /\ hold["up"][i] = 0 =>
          /\ ~CanRead("up", i)' /\ hold'["up"][i] = 0
          /\ p["up"][i + 1] = put["up"][i + 1] /\ t["up"][i] = taken["up"][i]

\* What was lost stays lost, a closed side closed and a broken connection broken.
LEMMA LostStays ==
    ASSUME SessionInv, FlagsStay,
           NEW put \in Counters, NEW taken \in Counters, CountsOK(put, taken),
           NEW p \in Counters, NEW t \in Counters, Advances(put, taken, p, t)
    PROVE  Clean(p, t)' => Clean(put, taken)
<1>p. /\ UNCHANGED <<Parties, Joined>> /\ Joined \subseteq Links /\ 1 \in Links
      /\ "up" \in Dirs
      /\ \A i \in Parties : i \in Links /\ i + 1 \in Links
  <2>1. UNCHANGED <<Parties, Joined>>
    BY DEF FlagsStay, Parties, Joined, Last
  <2>2. /\ Joined \subseteq Links /\ 1 \in Links
        /\ \A i \in Parties : i \in Links /\ i + 1 \in Links
    BY Places DEF SessionInv, Parties, Joined, Links
  <2>3. "up" \in Dirs
    BY DEF Dirs
  <2> QED BY <2>1, <2>2, <2>3
<1>1. ASSUME NEW k \in Joined, LostOn(k, put, taken) PROVE LostOn(k, p, t)'
  <2>1. /\ put["up"][k] \in Nat /\ taken["up"][k] \in Nat /\ p["up"][k] \in Nat
        /\ taken["up"][k] <= put["up"][k] /\ put["up"][k] <= p["up"][k]
        /\ t["up"][k] = taken["up"][k] /\ gone'["up"][k]
    BY <1>1, <1>p DEF LostOn, Counters, CountsOK, LinkOK, Advances, FlagsStay
  <2> QED BY <1>1, <2>1 DEF LostOn
<1>2. ASSUME NEW i \in Parties, LostIn(i, put, taken) PROVE LostIn(i, p, t)'
  BY <1>2 DEF LostIn, Advances
<1>3. Lost(put, taken) => Lost(p, t)'
  BY <1>p, <1>1, <1>2 DEF Lost
<1> QED BY <1>p, <1>3 DEF Clean, FlagsStay

\* A step that moves no chunk leaves the counts as they are.
LEMMA DiscardsAdvance ==
    ASSUME SessionInv, NEW put \in Counters, NEW taken \in Counters, Discards
    PROVE  Advances(put, taken, put, taken)
<1>1. "up" \in Dirs /\ \A d \in Dirs : \A k \in Links : put[d][k] \in Nat
  BY DEF Counters, Dirs
<1> QED BY <1>1 DEF Discards, Advances

\* A link before an ended one carried the whole response.
LEMMA PassedOn ==
    ASSUME SessionInv, NEW put \in Counters, NEW taken \in Counters, CountsOK(put, taken),
           DrainOK(put, taken), Clean(put, taken),
           NEW j \in Joined, fin["down"][j], NEW i \in Joined, j < i
    PROVE  put["down"][i] = sent["down"] /\ Finished
<1>1. put["down"][j] = sent["down"] /\ Finished
  BY DEF DrainOK
<1>2. i \in Links /\ j \in Links /\ "down" \in Dirs
  BY Places DEF SessionInv, Dirs
<1>3. /\ put["down"][j] <= taken["down"][i]
      /\ taken["down"][i] <= put["down"][i] /\ put["down"][i] <= sent["down"]
  BY <1>2 DEF CountsOK, LinkOK, Before
<1>4. put["down"][i] \in Nat /\ put["down"][j] \in Nat /\ taken["down"][i] \in Nat
  BY <1>2 DEF Counters
<1> QED BY <1>1, <1>3, <1>4

\* A relay's direction to the client ends only after all of the response was passed on.
LEMMA DownEnds ==
    ASSUME SessionInv, CutInv, NEW put \in Counters, NEW taken \in Counters,
           CountsOK(put, taken), DrainOK(put, taken), Clean(put, taken),
           NEW i \in Parties, Ended("down", i)
    PROVE  put["down"][i] = sent["down"] /\ Finished
<1>p. /\ i \in Joined /\ i + 1 \in Joined /\ i + 1 \in Links /\ i \in Nat /\ i \in Links
      /\ "down" \in Dirs /\ i < i + 1
      /\ In("down", i) = i + 1 /\ Out("down", i) = i
      /\ (i # 1 => i - 1 \in Parties /\ i - 1 \in Joined /\ i - 1 < i /\ (i - 1) + 1 = i)
  BY Places DEF SessionInv, Parties, Joined, Dirs, In, Out, Links, Last
<1>1. CASE gone["down"][i]
  <2>1. i # 1
    BY <1>1 DEF CutInv, Clean
  <2>2. fin["down"][i - 1]
    BY <1>1, <2>1, <1>p DEF CutInv, Clean
  <2> QED BY <2>1, <2>2, <1>p, PassedOn
<1>2. CASE Reading("down", i) /\ q["down"][i + 1] = << >> /\ fin["down"][i + 1]
  <2>1. put["down"][i + 1] = sent["down"] /\ Finished
    BY <1>2, <1>p DEF DrainOK
  <2>2. CASE gone["down"][i + 1]
    <3>1. fin["down"][i]
      BY <2>2 DEF CutInv, Clean
    <3> QED BY <3>1, <1>p DEF DrainOK
  <2>3. CASE ~gone["down"][i + 1]
    <3>1. Len(q["down"][i + 1]) = put["down"][i + 1] - taken["down"][i + 1]
      BY <2>3, <1>p DEF CountsOK, LinkOK
    <3>2. put["down"][i + 1] \in Nat /\ taken["down"][i + 1] \in Nat
      BY <1>p DEF Counters
    <3>3. taken["down"][i + 1] = put["down"][i + 1]
      BY <3>1, <3>2, <1>2
    <3>4. hold["down"][i] = 0 /\ CanRead("down", i)
      BY <1>2 DEF Reading, Free, CanRead
    <3>5. put["down"][i] = taken["down"][i + 1]
      BY <3>4, <1>p DEF CountsOK, HoldOK
    <3> QED BY <2>1, <3>3, <3>5
  <2> QED BY <2>2, <2>3
<1> QED BY <1>1, <1>2, <1>p DEF Ended

\* When a relay's direction to the service ends, the response is complete or a chunk is lost.
LEMMA UpEnds ==
    ASSUME SessionInv, CutInv, NEW put \in Counters, NEW taken \in Counters,
           CountsOK(put, taken), DrainOK(put, taken), Clean(put, taken),
           NEW i \in Parties, Ended("up", i), chain[i] # "pty", End(i), UNCHANGED chain,
           Clean(put, taken)'
    PROVE  put["down"][i] = sent["down"] /\ Finished
<1>p. /\ i \in Joined /\ i \in Nat /\ i \in Links /\ i \in Relays
      /\ "up" \in Dirs /\ UNCHANGED Parties
      /\ In("up", i) = i /\ Out("up", i) = i + 1
      /\ (i # 1 => i - 1 \in Parties /\ i - 1 \in Joined /\ i - 1 < i /\ (i - 1) + 1 = i)
      /\ i + 1 \in Links
  BY Places DEF SessionInv, Parties, Joined, Dirs, In, Out, Links, Last
<1>1. CASE hold["up"][i] # 0
  <2>1. put["up"][i + 1] + 1 = taken["up"][i] /\ put["up"][i + 1] \in Nat
    BY <1>1, <1>p DEF CountsOK, HoldOK, Counters
  <2>2. ~CanRead("up", i)' /\ hold'["up"][i] = 0
    BY <1>p DEF End, CanRead, SessionInv, RelayType
  <2>3. LostIn(i, put, taken)'
    BY <2>1, <2>2 DEF LostIn
  <2> QED BY <1>p, <2>3 DEF Clean, Lost
<1>2. CASE fin["up"][i]
  <2>1. i # 1
    BY <1>2 DEF Clean
  <2>2. fin["down"][i - 1]
    BY <1>2, <2>1, <1>p DEF CutInv, Clean
  <2> QED BY <2>1, <2>2, <1>p, PassedOn
<1> QED BY <1>1, <1>2, <1>p DEF Ended

\* A move keeps the flags and the stage, and the service sends no more once it is over.
LEMMA MoveDrains ==
    ASSUME SessionInv, NEW put \in Counters, NEW taken \in Counters, CountsOK(put, taken),
           DrainOK(put, taken), NEW p \in Counters, NEW t \in Counters,
           Advances(put, taken, p, t), CountsOK(p, t)',
           UNCHANGED <<chain, fin, gone, stage, broken>>,
           Finished => sent'["down"] = sent["down"]
    PROVE  DrainOK(p, t)'
<1>1. Clean(p, t)' => Clean(put, taken)
  BY LostStays DEF FlagsStay
<1>2. UNCHANGED <<Joined, Finished>> /\ Joined \subseteq Links /\ "down" \in Dirs
  BY Places DEF Joined, Last, Finished, SessionInv, Dirs
<1>3. ASSUME Clean(p, t)', NEW k \in Joined, fin["down"][k]
      PROVE  p["down"][k] = sent'["down"] /\ Finished'
  <2>1. put["down"][k] = sent["down"] /\ Finished
    BY <1>1, <1>3 DEF DrainOK
  <2>2. put["down"][k] <= p["down"][k] /\ p["down"][k] <= sent'["down"]
    BY <1>2, <1>3 DEF Advances, CountsOK, LinkOK
  <2>3. put["down"][k] \in Nat /\ p["down"][k] \in Nat
    BY <1>2, <1>3 DEF Counters
  <2> QED BY <1>2, <2>1, <2>2, <2>3
<1> QED BY <1>2, <1>3 DEF DrainOK

\* The four steps that read or write a chunk keep the counts and DrainOK.
LEMMA MoveSteps ==
    ASSUME SessionInv, NEW put \in Counters, NEW taken \in Counters, CountsOK(put, taken),
           DrainOK(put, taken),
           \/ \E d \in Dirs, i \in Relays : Take(d, i) \/ Put(d, i)
           \/ \E d \in Dirs : EndWrites(d) \/ EndReads(d)
    PROVE  \E p, t \in Counters : CountsOK(p, t)' /\ DrainOK(p, t)'
<1> USE DEF hostVars, endVars, ptyVars
<1>p. /\ \A d \in Dirs : First(d) \in Links /\ Final(d) \in Links
      /\ \A d \in Dirs : \A i \in Relays : In(d, i) \in Links /\ Out(d, i) \in Links
      /\ Parties \subseteq Relays /\ "up" \in Dirs /\ "down" \in Dirs
      /\ \A i \in Relays : In("up", i) = i /\ Out("up", i) = i + 1
      /\ \A i \in Parties : i # Final("up") /\ i + 1 # First("up")
  BY Places DEF SessionInv, In, Out, Dirs
<1>t. /\ \A d \in Dirs : \A k \in Links : put[d][k] \in Nat /\ taken[d][k] \in Nat
      /\ \A d \in Dirs : \A k \in Links : gone[d][k] => q[d][k] = << >>
  BY DEF Counters, CountsOK, LinkOK
<1>1. ASSUME NEW d \in Dirs, NEW i \in Relays, Take(d, i)
      PROVE  \E p, t \in Counters : CountsOK(p, t)' /\ DrainOK(p, t)'
  <2> DEFINE new == Bump(taken, d, In(d, i))
  <2>1. /\ new \in Counters
        /\ \A e \in Dirs : \A l \in Links : e # d \/ l # In(d, i) => new[e][l] = taken[e][l]
    BY <1>p, Bumped
  <2>2. i \in Parties /\ hold[d][i] = 0 /\ CanRead(d, i) /\ q[d][In(d, i)] # << >>
    BY <1>1 DEF Take, Reading, Free, Parties, CanRead, Dirs
  <2>3. UNCHANGED <<chain, fin, gone, stage, broken, sent, relay, reader, streamOpen>>
    BY <1>1 DEF Take
  <2>4. \A j \in Relays : d # "up" \/ j # i => hold'["up"][j] = hold["up"][j]
    BY <1>1, <1>p DEF Take, SessionInv, RelayType
  <2>5. CountsOK(put, new)'
    BY <1>1, TakeKeeps
  <2> HIDE DEF new
  <2>6. ASSUME NEW j \in Parties, ~CanRead("up", j), hold["up"][j] = 0
        PROVE  ~CanRead("up", j)' /\ hold'["up"][j] = 0 /\ new["up"][j] = taken["up"][j]
    <3>1. d # "up" \/ j # i
      BY <2>2, <2>6
    <3>2. d # "up" \/ j # In(d, i)
      BY <3>1, <1>p
    <3>3. j \in Links
      BY Places DEF SessionInv
    <3> QED BY <2>1, <2>3, <2>4, <2>6, <3>1, <3>2, <3>3, <1>p DEF CanRead
  <2>7. Advances(put, taken, put, new)
    BY <1>p, <1>t, <2>1, <2>2, <2>6 DEF Advances
  <2>8. DrainOK(put, new)'
    BY <2>1, <2>3, <2>5, <2>7, MoveDrains
  <2> QED BY <2>1, <2>5, <2>8
<1>2. ASSUME NEW d \in Dirs, NEW i \in Relays, Put(d, i)
      PROVE  \E p, t \in Counters : CountsOK(p, t)' /\ DrainOK(p, t)'
  <2> DEFINE new == Bump(put, d, Out(d, i))
  <2>1. /\ new \in Counters /\ new[d][Out(d, i)] = put[d][Out(d, i)] + 1
        /\ \A e \in Dirs : \A l \in Links : e # d \/ l # Out(d, i) => new[e][l] = put[e][l]
    BY <1>p, Bumped
  <2>2. i \in Parties /\ hold[d][i] # 0
    BY <1>2 DEF Put, Parties
  <2>3. UNCHANGED <<chain, fin, gone, stage, broken, sent, reader, streamOpen>>
    BY <1>2 DEF Put
  <2>4. \A j \in Relays : d # "up" \/ j # i => hold'["up"][j] = hold["up"][j]
    BY <1>2, <1>p DEF Put, SessionInv, RelayType
  <2>r. \A j \in Parties : relay'[j] # "done" => relay[j] # "done"
    BY <1>2, <1>p DEF Put, Loops, SessionInv, RelayType
  <2>5. CountsOK(new, taken)'
    BY <1>2, PutKeeps
  <2> HIDE DEF new
  <2>6. ASSUME NEW j \in Parties, ~CanRead("up", j), hold["up"][j] = 0
        PROVE  ~CanRead("up", j)' /\ hold'["up"][j] = 0 /\ new["up"][j + 1] = put["up"][j + 1]
    <3>1. d # "up" \/ j # i
      BY <2>2, <2>6
    <3>2. d # "up" \/ j + 1 # Out(d, i)
      BY <3>1, <1>p, <2>2 DEF Parties
    <3>3. j + 1 \in Links /\ j \in Relays
      BY <1>p
    <3>4. ~CanRead("up", j)'
      BY <2>3, <2>6, <2>r DEF CanRead
    <3> QED BY <2>1, <2>4, <2>6, <3>1, <3>2, <3>3, <3>4, <1>p
  <2>g. ASSUME NEW e \in Dirs, NEW k \in Links PROVE put[e][k] <= new[e][k]
    <3>1. CASE e = d /\ k = Out(d, i)
      BY <1>t, <2>1, <3>1
    <3>2. CASE e # d \/ k # Out(d, i)
      BY <1>t, <2>1, <3>2
    <3> QED BY <3>1, <3>2
  <2>7. Advances(put, taken, new, taken)
    BY <2>g, <2>6 DEF Advances
  <2>8. DrainOK(new, taken)'
    BY <2>1, <2>3, <2>5, <2>7, MoveDrains
  <2> QED BY <2>1, <2>5, <2>8
<1>3. ASSUME NEW d \in Dirs, EndWrites(d)
      PROVE  \E p, t \in Counters : CountsOK(p, t)' /\ DrainOK(p, t)'
  <2>k. PICK k \in Links : k = First(d)
    BY <1>p
  <2> DEFINE new == Bump(put, d, k)
  <2>1. /\ new \in Counters /\ new[d][k] = put[d][k] + 1
        /\ \A e \in Dirs : \A l \in Links : e # d \/ l # k => new[e][l] = put[e][l]
    BY Bumped
  <2>3. UNCHANGED <<chain, fin, gone, stage, broken, hold, relay, reader, streamOpen>>
    BY <1>3 DEF EndWrites
  <2>4. Finished => sent'["down"] = sent["down"]
    <3>1. CASE d = "down"
      BY <1>3, <3>1 DEF EndWrites, Finished, First
    <3>2. CASE d = "up"
      BY <1>3, <3>2 DEF EndWrites, SessionInv, RelayType
    <3> QED BY <3>1, <3>2 DEF Dirs
  <2>5. CountsOK(new, taken)'
    BY <1>3, <2>k, EndWritesKeeps
  <2> HIDE DEF new
  <2>6. ASSUME NEW j \in Parties
        PROVE  CanRead("up", j)' = CanRead("up", j) /\ new["up"][j + 1] = put["up"][j + 1]
    <3>1. j + 1 \in Links /\ (d # "up" \/ j + 1 # k)
      BY <1>p, <2>k
    <3> QED BY <2>1, <2>3, <3>1, <1>p DEF CanRead
  <2>g. \A e \in Dirs : \A l \in Links : put[e][l] <= new[e][l]
    BY <1>t, <2>1
  <2>7. Advances(put, taken, new, taken)
    BY <2>g, <2>3, <2>6 DEF Advances
  <2>8. DrainOK(new, taken)'
    BY <2>1, <2>3, <2>4, <2>5, <2>7, MoveDrains
  <2> QED BY <2>1, <2>5, <2>8
<1>4. ASSUME NEW d \in Dirs, EndReads(d)
      PROVE  \E p, t \in Counters : CountsOK(p, t)' /\ DrainOK(p, t)'
  <2>k. PICK k \in Links : k = Final(d)
    BY <1>p
  <2> DEFINE new == Bump(taken, d, k)
  <2>1. /\ new \in Counters
        /\ \A e \in Dirs : \A l \in Links : e # d \/ l # k => new[e][l] = taken[e][l]
    BY Bumped
  <2>2. ~gone[d][k]
    BY <1>4, <2>k DEF EndReads
  <2>3. UNCHANGED <<chain, fin, gone, stage, broken, sent, hold, relay, reader, streamOpen>>
    BY <1>4 DEF EndReads
  <2>5. CountsOK(put, new)'
    BY <1>4, <2>k, EndReadsKeeps
  <2> HIDE DEF new
  <2>6. ASSUME NEW j \in Parties
        PROVE  CanRead("up", j)' = CanRead("up", j) /\ new["up"][j] = taken["up"][j]
    <3>1. j \in Links /\ (d # "up" \/ j # k)
      BY <1>p, <2>k, Places DEF SessionInv
    <3> QED BY <2>1, <2>3, <3>1, <1>p DEF CanRead
  <2>7. Advances(put, taken, put, new)
    BY <1>p, <1>t, <2>1, <2>2, <2>3, <2>6 DEF Advances
  <2>8. DrainOK(put, new)'
    BY <2>1, <2>3, <2>5, <2>7, MoveDrains
  <2> QED BY <2>1, <2>5, <2>8
<1> QED BY <1>1, <1>2, <1>3, <1>4

\* A step that moves nothing keeps DrainOK if the links it ends carried the response.
LEMMA DiscardDrains ==
    ASSUME SessionInv, NEW put \in Counters, NEW taken \in Counters, CountsOK(put, taken),
           DrainOK(put, taken), Discards, FlagsStay, Finished => Finished',
           \A k \in Joined : Clean(put, taken) /\ Clean(put, taken)' /\ fin'["down"][k] =>
              fin["down"][k] \/ (put["down"][k] = sent["down"] /\ Finished')
    PROVE  DrainOK(put, taken)'
<1>1. Clean(put, taken)' => Clean(put, taken)
  BY LostStays, DiscardsAdvance
<1>2. UNCHANGED <<Joined, sent>>
  BY DEF FlagsStay, Discards, Joined, Last
<1> QED BY <1>1, <1>2 DEF DrainOK

\* The other steps keep DrainOK: a relay, a refused session or the service ends a link to
\* the client only after the whole response was put on it.
LEMMA DiscardStepsDrain ==
    ASSUME SessionInv, NEW put \in Counters, NEW taken \in Counters, CountsOK(put, taken),
           CutInv, DrainOK(put, taken), Discards, FlagsStay,
           \/ FeatureOn \/ FeatureOff \/ Request \/ Dispatch \/ Open \/ OpenFails \/ Arrive
           \/ AcceptSession \/ NoService \/ ConnectionLost
           \/ \E i \in Relays : PtyStep(i) \/ \E d \in Dirs : RelayEnds(d, i)
           \/ ClientCloses \/ ServiceCloses \/ UNCHANGED relayVars
    PROVE  DrainOK(put, taken)'
<1> USE DEF hostVars, endVars, ptyVars
<1>p. /\ Joined \subseteq Links /\ Parties \subseteq Joined /\ Last \in Joined /\ Last \in Links
      /\ \A i \in Parties : Out("down", i) = i
      /\ "up" \in Dirs /\ "down" \in Dirs
  BY Places DEF SessionInv, Out, Dirs, Joined, Parties
<1>c. UNCHANGED <<chain, Last>>
  BY DEF FlagsStay, Last
<1>t. fin \in [Dirs -> [Links -> BOOLEAN]]
  BY DEF SessionInv, RelayType
<1>f. fin["down"][Last] => fin'["down"][Last]
  BY <1>p DEF FlagsStay
<1>s. /\ stage \notin {"rejected", "refused"} \/ stage' = stage => (Finished => Finished')
      /\ stage' \in {"rejected", "refused"} => Finished'
  BY <1>f, <1>c DEF Finished
<1>u. ASSUME UNCHANGED fin, stage \notin {"rejected", "refused"} \/ stage' = stage
      PROVE  DrainOK(put, taken)'
  BY <1>s, <1>u, DiscardDrains
<1>1. CASE FeatureOn \/ Request \/ Open \/ AcceptSession \/ UNCHANGED relayVars
  BY <1>1, <1>u DEF FeatureOn, Request, Open, AcceptSession, relayVars, linkVars
<1>2. ASSUME Reject \/ Refuse, stage # "accepted" PROVE DrainOK(put, taken)'
  <2>1. stage' \in {"rejected", "refused"}
    BY <1>2 DEF Reject, Refuse
  <2>2. ASSUME NEW k \in Joined PROVE put["down"][k] = sent["down"]
    <3>1. sent["down"] = 0
      BY <1>2 DEF SessionInv, StageOK
    <3>2. put["down"][k] <= sent["down"] /\ put["down"][k] \in Nat
      BY <1>p DEF CountsOK, LinkOK, Counters
    <3> QED BY <3>1, <3>2
  <2> QED BY <1>s, <2>1, <2>2, DiscardDrains
<1>3. CASE Dispatch \/ OpenFails \/ FeatureOff \/ Arrive \/ NoService
  BY <1>3, <1>2, <1>u DEF Dispatch, OpenFails, FeatureOff, Arrive, NoService, linkVars
<1>4. CASE ConnectionLost
  <2>1. ~Clean(put, taken)'
    BY <1>4 DEF ConnectionLost, Clean
  <2> QED BY <2>1 DEF DrainOK
<1>5. CASE ClientCloses
  <2>1. fin'["down"] = fin["down"] /\ stage' = stage
    <3>1. fin' = [fin EXCEPT !["up"][1] = TRUE] /\ stage' = stage
      BY <1>5 DEF ClientCloses
    <3> QED BY <3>1, <1>t, <1>p
  <2> QED BY <2>1, <1>s, DiscardDrains
<1>6. CASE ServiceCloses
  <2>1. /\ stage' = stage /\ fin'["down"][Last]
        /\ \A k \in Links : fin'["down"][k] => fin["down"][k] \/ k = Last
    BY <1>6, <1>t, <1>p DEF ServiceCloses
  <2>2. Finished' /\ put["down"][Last] = sent["down"]
    BY <2>1, <1>c, <1>p DEF Finished, CountsOK, EndOK, First
  <2> QED BY <2>1, <2>2, <1>p, DiscardDrains
\* The end of relay i, which ends the link to the client.
<1>7. ASSUME NEW i \in Parties, stage' = stage,
             \A k \in Links : fin'["down"][k] => fin["down"][k] \/ k = i,
             Clean(put, taken) /\ Clean(put, taken)' =>
                fin["down"][i] \/ (put["down"][i] = sent["down"] /\ Finished)
      PROVE  DrainOK(put, taken)'
  BY <1>7, <1>s, <1>p, DiscardDrains
<1>e. ASSUME NEW i \in Parties, End(i)
      PROVE  \A k \in Links : fin'["down"][k] => fin["down"][k] \/ k = i
  BY <1>e, <1>t, <1>p DEF End
<1>8. ASSUME NEW i \in Relays, NEW d \in Dirs, RelayEnds(d, i) PROVE DrainOK(put, taken)'
  <2>1. i \in Parties /\ chain[i] # "pty" /\ End(i) /\ Ended(d, i) /\ stage' = stage
    BY <1>8 DEF RelayEnds, Ended, Parties
  <2>2. ASSUME Clean(put, taken), Clean(put, taken)'
        PROVE  put["down"][i] = sent["down"] /\ Finished
    BY <2>1, <2>2, <1>c, DownEnds, UpEnds DEF Dirs
  <2> QED BY <2>1, <2>2, <1>7, <1>e
<1>9. ASSUME NEW i \in Relays, ReaderEnds(i) PROVE DrainOK(put, taken)'
  <2>1. i \in Parties /\ Ended("down", i) /\ stage' = stage
    BY <1>9 DEF ReaderEnds, Ended, Parties
  <2>2. \A k \in Links : fin'["down"][k] => fin["down"][k] \/ k = i
    BY <1>9, <2>1, <1>t, <1>p DEF ReaderEnds
  <2> QED BY <2>1, <2>2, <1>7, DownEnds
<1>10. ASSUME NEW i \in Relays, StreamEnds(i) PROVE DrainOK(put, taken)'
  BY <1>10, <1>u DEF StreamEnds
<1>11. ASSUME NEW i \in Relays, JoinReader(i) PROVE DrainOK(put, taken)'
  <2>1. fin'["down"] = fin["down"] /\ stage' = stage
    <3>1. fin' = [fin EXCEPT !["up"][Out("up", i)] = TRUE] /\ stage' = stage
      BY <1>11 DEF JoinReader
    <3> QED BY <3>1, <1>t, <1>p
  <2> QED BY <2>1, <1>s, DiscardDrains
<1>11a. ASSUME NEW i \in Relays, JoinWriter(i) PROVE DrainOK(put, taken)'
  <2>1. i \in Parties /\ End(i) /\ stage' = stage /\ fin["down"][i]
    BY <1>11a DEF JoinWriter, Parties, CutInv, SessionInv, StageOK
  <2> QED BY <2>1, <1>7, <1>e
<1>12. ASSUME NEW i \in Relays, WriterWaits(i) PROVE DrainOK(put, taken)'
  <2>1. i \in Parties /\ stage' = stage /\ fin["down"][i]
    BY <1>12 DEF WriterWaits, Parties, CutInv, SessionInv, StageOK
  <2>2. End(i) \/ UNCHANGED fin
    BY <1>12 DEF WriterWaits
  <2> QED BY <2>1, <2>2, <1>7, <1>e, <1>u
<1> QED
  BY <1>1, <1>3, <1>4, <1>5, <1>6, <1>8, <1>9, <1>10, <1>11, <1>11a, <1>12 DEF PtyStep

\* Neither property is inductive alone.  What links and relays hold must be known to be
\* consecutive, relative to counts of what passed each link, which are not part of the state;
\* a response is complete because of why each link may end.
RelayInv ==
    /\ SessionInv
    /\ CutInv
    /\ \E put, taken \in Counters : CountsOK(put, taken) /\ DrainOK(put, taken)

\* The invariant holds initially, with no chunk put or taken.
LEMMA RelayInvInit == RelayInit => RelayInv
<1> SUFFICES ASSUME RelayInit PROVE RelayInv
  OBVIOUS
<1> DEFINE none == [d \in Dirs |-> [k \in Links |-> 0]]
<1>1. SessionInv
  BY SessionInvInit
<1>2. none \in Counters
  BY DEF Counters
<1>3. /\ Joined \subseteq Links
      /\ \A d \in Dirs : First(d) \in Links /\ Final(d) \in Links
      /\ \A d \in Dirs : \A i \in Parties : In(d, i) \in Links /\ Out(d, i) \in Links
      /\ Parties \subseteq Relays
  BY <1>1, Places DEF SessionInv
<1>4. \A d \in Dirs : \A k \in Links : none[d][k] = 0
  OBVIOUS
<1> HIDE DEF none
<1>5. ASSUME NEW d \in Dirs, NEW k \in Links PROVE LinkOK(d, k, none, none)
  BY <1>4, <1>5 DEF RelayInit, Both, LinkOK
<1>6. ASSUME NEW d \in Dirs, NEW i \in Parties PROVE HoldOK(d, i, none, none)
  BY <1>3, <1>4, <1>6 DEF RelayInit, Both, HoldOK
<1>7. ASSUME NEW d \in Dirs PROVE EndOK(d, none, none)
  BY <1>3, <1>4, <1>7 DEF RelayInit, Both, EndOK
<1>8. CountsOK(none, none)
  BY <1>3, <1>4, <1>5, <1>6, <1>7 DEF CountsOK
<1>9. /\ 1 \in Links /\ "up" \in Dirs /\ "down" \in Dirs
      /\ \A i \in Parties : i \in Links /\ i + 1 \in Links
  <2>1. 1 \in Links /\ \A i \in Parties : i \in Links /\ i + 1 \in Links
    BY <1>1, Places DEF SessionInv, Parties, Joined, Links
  <2>2. "up" \in Dirs /\ "down" \in Dirs
    BY DEF Dirs
  <2> QED BY <2>1, <2>2
<1>10. \A d \in Dirs : \A k \in Links : ~fin[d][k] /\ ~gone[d][k]
  BY DEF RelayInit, Both
<1>11. CutInv
  BY <1>9, <1>10 DEF CutInv, RelayInit
<1>12. DrainOK(none, none)
  BY <1>3, <1>9, <1>10 DEF DrainOK
<1> QED BY <1>1, <1>2, <1>8, <1>11, <1>12 DEF RelayInv

\* Every step keeps the invariant.
LEMMA RelayInvInductive == RelayInv /\ [RelayNext]_relayVars => RelayInv'
<1> SUFFICES ASSUME RelayInv, [RelayNext]_relayVars PROVE RelayInv'
  OBVIOUS
<1>1. SessionInv /\ SessionInv' /\ CutInv /\ CutInv' /\ FlagsStay
  BY SessionInvInductive, CutSteps DEF RelayInv
<1>2. PICK put \in Counters, taken \in Counters : CountsOK(put, taken) /\ DrainOK(put, taken)
  BY DEF RelayInv
<1>3. CASE \/ \E d \in Dirs, i \in Relays : Take(d, i) \/ Put(d, i)
           \/ \E d \in Dirs : EndWrites(d) \/ EndReads(d)
  BY <1>1, <1>2, <1>3, MoveSteps DEF RelayInv
<1>4. CASE \/ FeatureOn \/ FeatureOff \/ Request \/ Dispatch \/ Open \/ OpenFails \/ Arrive
           \/ AcceptSession \/ NoService \/ ConnectionLost
           \/ \E i \in Relays : PtyStep(i) \/ \E d \in Dirs : RelayEnds(d, i)
           \/ ClientCloses \/ ServiceCloses \/ UNCHANGED relayVars
  <2>1. Discards
    BY <1>1, <1>2, <1>4, DiscardSteps
  <2>2. CountsOK(put, taken)'
    BY <1>2, <2>1, DiscardsKeeps
  <2>3. DrainOK(put, taken)'
    BY <1>1, <1>2, <1>4, <2>1, DiscardStepsDrain
  <2> QED BY <1>1, <1>2, <2>2, <2>3 DEF RelayInv
<1> QED
  BY <1>3, <1>4 DEF RelayNext, RelayStep

\* The invariant implies PrefixDelivered: what was received was taken from the last link.
LEMMA RelayInvPrefix == RelayInv => PrefixDelivered
<1> SUFFICES ASSUME RelayInv, NEW d \in Dirs
             PROVE  Len(got[d]) <= sent[d] /\ \A j \in DOMAIN got[d] : got[d][j] = j
  BY DEF PrefixDelivered
<1>1. PICK put \in Counters, taken \in Counters : CountsOK(put, taken)
  BY DEF RelayInv
<1>2. Final(d) \in Links
  BY Places DEF RelayInv, SessionInv
<1>3. LinkOK(d, Final(d), put, taken) /\ EndOK(d, put, taken)
  BY <1>1, <1>2 DEF CountsOK
<1>4. put[d][Final(d)] \in Nat /\ taken[d][Final(d)] \in Nat /\ sent[d] \in Nat /\ got[d] \in Chunks
  BY <1>2 DEF Counters, RelayInv, SessionInv, RelayType
<1>5. DOMAIN got[d] = 1 .. Len(got[d])
  BY <1>4 DEF Chunks
<1> QED BY <1>3, <1>4, <1>5 DEF LinkOK, EndOK

\* The invariant implies ResponseComplete: if all of the client's input was received, every
\* link has passed it on, so nothing was lost and DrainOK applies to the client's link.
LEMMA RelayInvResponse == RelayInv => ResponseComplete
<1> SUFFICES ASSUME RelayInv, ClientAtEnd, ~fin["up"][1], ~broken,
                    Len(got["up"]) = sent["up"]
             PROVE  Len(got["down"]) = sent["down"]
  BY DEF ResponseComplete
<1>1. PICK put \in Counters, taken \in Counters : CountsOK(put, taken) /\ DrainOK(put, taken)
  BY DEF RelayInv
<1>p. /\ Joined \subseteq Links /\ 1 \in Joined /\ Last \in Joined /\ Last \in Nat
      /\ \A i \in Parties : i \in Joined /\ i + 1 \in Joined
      /\ \A k \in Joined : k = Last \/ k < Last
  BY Places DEF RelayInv, SessionInv, Parties, Joined
<1>d. "up" \in Dirs /\ "down" \in Dirs
  BY DEF Dirs
<1>t. \A d \in Dirs : \A k \in Joined :
         put[d][k] \in Nat /\ taken[d][k] \in Nat /\ sent[d] \in Nat
  BY <1>p DEF Counters, RelayInv, SessionInv, RelayType
<1>2. taken["up"][Last] = sent["up"]
  BY <1>1, <1>d DEF CountsOK, EndOK, Final
<1>3. ASSUME NEW k \in Joined PROVE put["up"][k] = sent["up"] /\ taken["up"][k] = sent["up"]
  <2>1. taken["up"][k] <= put["up"][k] /\ put["up"][k] <= sent["up"]
    BY <1>1, <1>p, <1>d DEF CountsOK, LinkOK
  <2>2. taken["up"][Last] <= put["up"][Last] /\ put["up"][Last] <= sent["up"]
    BY <1>1, <1>p, <1>d DEF CountsOK, LinkOK
  <2>3. k = Last \/ put["up"][Last] <= taken["up"][k]
    BY <1>1, <1>p, <1>d DEF CountsOK, Before
  <2> QED BY <2>1, <2>2, <2>3, <1>2, <1>t, <1>d, <1>p
<1>4. Clean(put, taken)
  BY <1>3, <1>p DEF Clean, Lost, LostOn, LostIn
<1>5. put["down"][1] = sent["down"]
  BY <1>1, <1>4, <1>p DEF DrainOK, ClientAtEnd
<1>6. ~gone["down"][1]
  BY DEF RelayInv, CutInv
<1>7. Len(q["down"][1]) = put["down"][1] - taken["down"][1]
  BY <1>1, <1>6, <1>p, <1>d DEF CountsOK, LinkOK
<1>8. taken["down"][1] = put["down"][1]
  BY <1>7, <1>t, <1>p, <1>d DEF ClientAtEnd
<1>9. Len(got["down"]) = taken["down"][1]
  BY <1>1, <1>d DEF CountsOK, EndOK, Final
<1> QED BY <1>5, <1>8, <1>9

\* The invariant holds in every behaviour.
LEMMA RelayInvHolds == RelaySpec => []RelayInv
  BY RelayInvInit, RelayInvInductive, PTL DEF RelaySpec

\* For every chain of relays, buffer size and number of chunks: what each end receives is the
\* beginning of what the other end wrote, in order and once, however relays, sessions and
\* connections end in between.
THEOREM PrefixAlways == RelaySpec => []PrefixDelivered
  BY RelayInvHolds, RelayInvPrefix, PTL

\* For every chain of relays, buffer size and number of chunks: a client that has not closed
\* its side, whose input all arrived and whose connection stands, reads to the end only after
\* everything the service sent.
THEOREM ResponseAlways == RelaySpec => []ResponseComplete
  BY RelayInvHolds, RelayInvResponse, PTL

=============================================================================
