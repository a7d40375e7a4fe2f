------------------------------- MODULE MCTcp -------------------------------
(* Instances of Tcp for TLC.                                               *)
EXTENDS Tcp, TLC

CONSTANTS a, b

MCEnds == {a, b}
\* Sequence numbers wrap inside the stream.
MCISS == a :> 29 @@ b :> 4
MCUnits2 == a :> 2 @@ b :> 0
=============================================================================
