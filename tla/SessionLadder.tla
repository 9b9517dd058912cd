--------------------------- MODULE SessionLadder ---------------------------
(***************************************************************************)
(* What the default transition table of bgp-fsm promises, seen from afar:  *)
(* a BGP session is a ladder of rungs                                      *)
(*     0  Idle      1  Connect / Active      2  OpenSent                   *)
(*     3  OpenConfirm                        4  Established                *)
(* which is climbed one rung at a time and from which a session only ever  *)
(* falls to rung 0 (torn down) or rung 1 (waiting to reconnect).           *)
(***************************************************************************)
EXTENDS Naturals

VARIABLE rung

Init == rung = 0

Climb == rung < 4 /\ rung' = rung + 1

Fall == \E r \in {0, 1} : r < rung /\ rung' = r

Next == Climb \/ Fall

Spec == Init /\ [][Next]_rung
=============================================================================
