-------------------------- MODULE MCConnectionPool --------------------------
(* TLC instances of ConnectionPool.                                         *)
EXTENDS ConnectionPool, TLC

CONSTANTS laptop, phone, laptopId, phoneId

Alone == [d \in Device |-> None]
Knows(d, k) == [Alone EXCEPT ![d] = k]

Other(e) == IF e = laptop THEN phone ELSE laptop
OtherId(e) == IF e = laptop THEN phoneId ELSE laptopId

\* An endpoint knows nobody or the other.
PairBook == [e \in Endpoint |-> {Alone, Knows(OtherId(e), Other(e))}]

\* ... and the laptop may be given a key that does not parse.
MCBook == [PairBook EXCEPT ![laptop] = @ \cup {Knows(phoneId, BadKey)}]

\* Connections are interchangeable.
Symmetry == Permutations(Conn)
============================================================================
