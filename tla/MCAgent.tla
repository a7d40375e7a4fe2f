------------------------------ MODULE MCAgent ------------------------------
(* Instances of Agent for TLC. *)
EXTENDS Agent

CONSTANTS w1, w2, wBad, r1, r2

(* Rules change alone, and one wg configuration is refused. *)
MCBodiesBad == {[wg |-> w1, rules |-> r1], [wg |-> w1, rules |-> r2], [wg |-> wBad, rules |-> r1]}
=============================================================================
