---------------------------- MODULE MCUserRelay ----------------------------
(* Instances of UserRelay for TLC.                                         *)
EXTENDS UserRelay, TLC

CONSTANTS r1, r2, a, b, x

Declares(r, t, srcs) == [rule |-> r, target |-> t, allow |-> srcs]

MCPlans == {Declares(r1, a, {x}), Declares(r1, a, {}), Declares(r2, a, {x}),
            Declares(r1, b, {x})}

RelaySymmetry == Permutations(Flows) \cup Permutations(Listeners)
=============================================================================
