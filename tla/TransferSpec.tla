---------------------------- MODULE TransferSpec ----------------------------
(***************************************************************************)
(* What a file transfer promises to the user of `failsafe send`: files are  *)
(* delivered, possibly more than once and with different contents when the  *)
(* sender imports them again, and "SendComplete" is told only of transfers  *)
(* that were delivered.                                                     *)
(***************************************************************************)
CONSTANTS Transfer, Hash

VARIABLES
    delivered,   \* collections written to the receive directory
    reported     \* transfers whose success was reported at the sender

vars == <<delivered, reported>>

Init == delivered = {} /\ reported = {}

Deliver(x, h) ==
    /\ delivered' = delivered \cup {<<x, h>>}
    /\ UNCHANGED reported

Report(x) ==
    /\ \E h \in Hash : <<x, h>> \in delivered
    /\ reported' = reported \cup {x}
    /\ UNCHANGED delivered

Next == \E x \in Transfer : Report(x) \/ \E h \in Hash : Deliver(x, h)

Spec == Init /\ [][Next]_vars
============================================================================
