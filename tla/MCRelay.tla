------------------------------- MODULE MCRelay -------------------------------
(* Both kinds of session, with one chunk in every buffer.                   *)
EXTENDS Relay

MCChains ==
    {<<"streams", "streams">>, <<"loop", "streams", "streams", "pty">>}

MCMaxChunks == [d \in Dirs |-> 2]

=============================================================================
