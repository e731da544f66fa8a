--------------------------- MODULE MCSendProgress ----------------------------
(* Two files imported at once; every buffer holds one event, so that every  *)
(* sender waits for every reader.                                           *)
EXTENDS SendProgress

=============================================================================
