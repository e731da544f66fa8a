--------------------------- MODULE ConnectionPool ---------------------------
(***************************************************************************)
(* Who is connected to whom: crates/failsafe-transport, iroh/manager.rs     *)
(* (ConnectionPool and the dial manager), iroh/protocol.rs (the accepting   *)
(* side), iroh/address.rs and the address book part of iroh/transport.rs.   *)
(*                                                                          *)
(* Every endpoint dials the devices of its address book that are not in its *)
(* pool, and accepts connections at the same time.  A connection is entered *)
(* into the pool under the device that its remote key resolves to, and a    *)
(* handler loops on it until it ends; then the handler removes the device   *)
(* from the pool.  An endpoint stands for its public key.                   *)
(***************************************************************************)
EXTENDS Naturals

CONSTANTS
    Endpoint,   \* endpoints, and their public keys
    Device,     \* device ids
    Conn,       \* identities of connections, used again when all traces are gone
    Book,       \* the address books the server may give to each endpoint
    BadKey,     \* an address that is not a public key
    None        \* absent

ASSUME PoolConstants ==
    /\ Book \in [Endpoint -> SUBSET [Device -> Endpoint \cup {BadKey, None}]]
    /\ BadKey \notin Endpoint
    /\ None \notin Endpoint \cup Device \cup Conn \cup {BadKey}
    /\ None \notin [dialer : Endpoint, acceptor : Endpoint]

VARIABLES
    book,      \* AddressState.book of each endpoint
    lookup,    \* AddressState.reverse_lookup
    pool,      \* ConnectionPool.connections
    handler,   \* the device for which an endpoint's handler loops on a connection
    ends,      \* dialling and accepting endpoint of a connection
    open,      \* connections that have not been closed
    arrived,   \* connections that wait for FailsafeProtocol::accept
    pc,        \* where each dial manager is
    todo,      \* devices and addresses that its pass has still to visit
    target,    \* the device and address it dials
    dialed     \* the connection it is about to register

addressVars == <<book, lookup>>
dialVars    == <<pc, todo, target, dialed>>
vars == <<addressVars, pool, handler, ends, open, arrived, dialVars>>

TypeOK ==
    /\ book \in [Endpoint -> [Device -> Endpoint \cup {None}]]
    /\ lookup \in [Endpoint -> [Endpoint -> Device \cup {None}]]
    /\ pool \in [Endpoint -> [Device -> Conn \cup {None}]]
    /\ handler \in [Endpoint -> [Conn -> Device \cup {None}]]
    /\ ends \in [Conn -> [dialer : Endpoint, acceptor : Endpoint] \cup {None}]
    /\ open \subseteq Conn
    /\ arrived \subseteq Conn
    /\ pc \in [Endpoint -> {"idle", "pass", "dialing", "register"}]
    /\ todo \in [Endpoint -> SUBSET (Device \X Endpoint)]
    /\ target \in [Endpoint -> (Device \X Endpoint) \cup {None}]
    /\ dialed \in [Endpoint -> Conn \cup {None}]

Init ==
    /\ book = [e \in Endpoint |-> [d \in Device |-> None]]
    /\ lookup = [e \in Endpoint |-> [k \in Endpoint |-> None]]
    /\ pool = [e \in Endpoint |-> [d \in Device |-> None]]
    /\ handler = [e \in Endpoint |-> [c \in Conn |-> None]]
    /\ ends = [c \in Conn |-> None]
    /\ open = {}
    /\ arrived = {}
    /\ pc = [e \in Endpoint |-> "idle"]
    /\ todo = [e \in Endpoint |-> {}]
    /\ target = [e \in Endpoint |-> None]
    /\ dialed = [e \in Endpoint |-> None]

----------------------------------------------------------------------------
(* Addresses.                                                               *)

\* build_reverse_lookup: of two devices with one key, the one visited last counts.
IsReverseLookup(l, b) ==
    \A k \in Endpoint :
        LET owners == {d \in Device : b[d] = k}
        IN  IF owners = {} THEN l[k] = None ELSE l[k] \in owners

\* The book is stored although its reverse lookup could not be built.
StoresAnyway(e, b) ==
    /\ book' = [book EXCEPT ![e] = b]
    /\ UNCHANGED <<lookup, pool, handler, ends, open, arrived, dialVars>>

\* update_address_state: nothing changes when one address cannot be parsed.
UpdatePeers(e, b) ==
    /\ \A d \in Device : b[d] # BadKey
    /\ book' = [book EXCEPT ![e] = b]
    /\ \E l \in [Endpoint -> Device \cup {None}] :
        /\ IsReverseLookup(l, b)
        /\ lookup' = [lookup EXCEPT ![e] = l]
    /\ UNCHANGED <<pool, handler, ends, open, arrived, dialVars>>

----------------------------------------------------------------------------
(* The dial manager.                                                        *)

Listed(e) == {d \in Device : book[e][d] # None}

\* The interval ticks: dial_peers takes a copy of the address book.
DialTick(e) ==
    /\ pc[e] = "idle"
    /\ pc' = [pc EXCEPT ![e] = "pass"]
    /\ todo' = [todo EXCEPT ![e] = {<<d, book[e][d]>> : d \in Listed(e)}]
    /\ UNCHANGED <<addressVars, pool, handler, ends, open, arrived, target, dialed>>

\* try_dial_one goes on only for a device that is not in the pool and whose key is not
\* this endpoint's own.  An address that is not a key never gets into a book.
ShouldDial(e, d, k) == pool[e][d] = None /\ k # e

SkipPeer(e, d, k) ==
    /\ pc[e] = "pass"
    /\ <<d, k>> \in todo[e]
    /\ ~ShouldDial(e, d, k)
    /\ todo' = [todo EXCEPT ![e] = @ \ {<<d, k>>}]
    /\ UNCHANGED <<addressVars, pool, handler, ends, open, arrived, pc, target, dialed>>

StartDial(e, d, k) ==
    /\ pc[e] = "pass"
    /\ <<d, k>> \in todo[e]
    /\ ShouldDial(e, d, k)
    /\ todo' = [todo EXCEPT ![e] = @ \ {<<d, k>>}]
    /\ target' = [target EXCEPT ![e] = <<d, k>>]
    /\ pc' = [pc EXCEPT ![e] = "dialing"]
    /\ UNCHANGED <<addressVars, pool, handler, ends, open, arrived, dialed>>

\* endpoint.connect fails.
DialFails(e) ==
    /\ pc[e] = "dialing"
    /\ pc' = [pc EXCEPT ![e] = "pass"]
    /\ target' = [target EXCEPT ![e] = None]
    /\ UNCHANGED <<addressVars, pool, handler, ends, open, arrived, todo, dialed>>

\* No endpoint holds the connection.
Unused(c) ==
    /\ c \notin open \cup arrived
    /\ \A e \in Endpoint :
        /\ handler[e][c] = None
        /\ dialed[e] # c
        /\ \A d \in Device : pool[e][d] # c

\* endpoint.connect succeeds; the other endpoint's router calls accept.
DialConnects(e, c) ==
    /\ pc[e] = "dialing"
    /\ Unused(c)
    /\ ends' = [ends EXCEPT ![c] = [dialer |-> e, acceptor |-> target[e][2]]]
    /\ open' = open \cup {c}
    /\ arrived' = arrived \cup {c}
    /\ dialed' = [dialed EXCEPT ![e] = c]
    /\ pc' = [pc EXCEPT ![e] = "register"]
    /\ UNCHANGED <<addressVars, pool, handler, todo, target>>

\* pool.insert, and a handler that loops on the connection.
Register(e, d, c) ==
    /\ pool' = [pool EXCEPT ![e][d] = c]
    /\ handler' = [handler EXCEPT ![e][c] = d]

\* register_dialed_connection; a connection to an unknown key is dropped, which closes it.
RegisterDialed(e) ==
    /\ pc[e] = "register"
    /\ LET c == dialed[e]
           d == lookup[e][target[e][2]]
       IN  IF d = None
           THEN open' = open \ {c} /\ UNCHANGED <<pool, handler>>
           ELSE Register(e, d, c) /\ UNCHANGED open
    /\ dialed' = [dialed EXCEPT ![e] = None]
    /\ target' = [target EXCEPT ![e] = None]
    /\ pc' = [pc EXCEPT ![e] = "pass"]
    /\ UNCHANGED <<addressVars, ends, arrived, todo>>

EndPass(e) ==
    /\ pc[e] = "pass"
    /\ todo[e] = {}
    /\ pc' = [pc EXCEPT ![e] = "idle"]
    /\ UNCHANGED <<addressVars, pool, handler, ends, open, arrived, todo, target, dialed>>

----------------------------------------------------------------------------
(* The accepting side and the handlers.                                     *)

\* FailsafeProtocol::accept
Accept(c) ==
    /\ c \in arrived
    /\ LET e == ends[c].acceptor
           d == lookup[e][ends[c].dialer]
       IN  IF d = None
           THEN open' = open \ {c} /\ UNCHANGED <<pool, handler>>
           ELSE Register(e, d, c) /\ UNCHANGED open
    /\ arrived' = arrived \ {c}
    /\ UNCHANGED <<addressVars, ends, dialVars>>

\* A handler that ends without a word to the pool.
LeavesEntry(e, d) == pool

\* pool.remove(device): whichever connection the pool holds for the device.
Remove(e, d) == [pool EXCEPT ![e][d] = None]

\* accept_bi fails: the connection was closed.
HandlerEnds(e, c) ==
    /\ handler[e][c] # None
    /\ c \notin open
    /\ pool' = Remove(e, handler[e][c])
    /\ handler' = [handler EXCEPT ![e][c] = None]
    /\ UNCHANGED <<addressVars, ends, open, arrived, dialVars>>

\* The network or an idle timeout closes a connection.
Break(c) ==
    /\ c \in open
    /\ open' = open \ {c}
    /\ UNCHANGED <<addressVars, pool, handler, ends, arrived, dialVars>>

Touches(e, c) == ends[c] # None /\ e \in {ends[c].dialer, ends[c].acceptor}

\* The daemon of an endpoint ends: its connections close, its memory is lost.
Restart(e) ==
    /\ book' = [book EXCEPT ![e] = [d \in Device |-> None]]
    /\ lookup' = [lookup EXCEPT ![e] = [k \in Endpoint |-> None]]
    /\ pool' = [pool EXCEPT ![e] = [d \in Device |-> None]]
    /\ handler' = [handler EXCEPT ![e] = [c \in Conn |-> None]]
    /\ open' = {c \in open : ~Touches(e, c)}
    /\ arrived' = {c \in arrived : ends[c].acceptor # e}
    /\ pc' = [pc EXCEPT ![e] = "idle"]
    /\ todo' = [todo EXCEPT ![e] = {}]
    /\ target' = [target EXCEPT ![e] = None]
    /\ dialed' = [dialed EXCEPT ![e] = None]
    /\ UNCHANGED ends

DialStep(e) ==
    \/ DialTick(e)
    \/ \E d \in Device, k \in Endpoint : SkipPeer(e, d, k) \/ StartDial(e, d, k)
    \/ DialFails(e)
    \/ \E c \in Conn : DialConnects(e, c)
    \/ RegisterDialed(e)
    \/ EndPass(e)

Next ==
    \/ \E e \in Endpoint : \E b \in Book[e] : UpdatePeers(e, b)
    \/ \E e \in Endpoint : DialStep(e)
    \/ \E c \in Conn : Accept(c)
    \/ \E e \in Endpoint, c \in Conn : HandlerEnds(e, c)
    \/ \E c \in Conn : Break(c)
    \/ \E e \in Endpoint : Restart(e)

Spec == Init /\ [][Next]_vars

\* The interval ticks, endpoint.connect returns, and tokio polls the handlers; neither
\* the network nor the server is fair.
Fairness ==
    /\ \A e \in Endpoint : WF_vars(DialStep(e))
    /\ \A e \in Endpoint, c \in Conn : WF_vars(HandlerEnds(e, c))

FairSpec == Spec /\ Fairness

----------------------------------------------------------------------------
(* Properties.                                                              *)

\* Every connection in the pool has a handler that will remove it when it ends, though
\* both endpoints dial at once, connections replace each other and handlers of replaced
\* ones end late: no dead connection keeps the device from being dialled
\* (manager.rs:176, 244, 281; protocol.rs:64, 90).
PooledIsHandled ==
    \A e \in Endpoint, d \in Device :
        pool[e][d] # None => handler[e][pool[e][d]] = d

\* Connections stop breaking, daemons restarting and address books changing.
Calm == <>[][/\ UNCHANGED addressVars
             /\ \A c \in Conn, e \in Endpoint : ~Break(c) /\ ~Restart(e)]_vars

\* Once all is calm, a device that the address book lists at another endpoint's
\* key has an open connection in the pool or is dialled again, and again: neither a dead
\* entry nor one that was removed by the handler of an older connection is the end
\* (liveness; manager.rs:106, 176, 281).
AbsentIsDialed ==
    Calm => \A e \in Endpoint, d \in Device, k \in Endpoint :
        (k # e /\ book[e][d] = k /\ pool[e][d] \notin open)
            ~> (book[e][d] # k \/ pool[e][d] \in open \/ target[e] = <<d, k>>)

\* connected_peers: "Peers with an active transport session." (transport.rs:26): a
\* device with an open connection that an endpoint serves is among them.
ActiveIsListed ==
    \A e \in Endpoint, c \in open :
        handler[e][c] # None => pool[e][handler[e][c]] # None
============================================================================
