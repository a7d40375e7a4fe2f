--------------------------- MODULE MCServerParts ---------------------------
(***************************************************************************)
(* The server's parts that keep their state to themselves, checked in one  *)
(* run: the life of the server and its teardown, the generations agents    *)
(* report, the hub of the control streams and the enrolment of agents.     *)
(* "part" says which of them a behaviour is of; the others stay in their   *)
(* initial state.                                                          *)
(***************************************************************************)
EXTENDS ServerLife, GenLag, Enrolment, Hub, TLC

VARIABLE part

life == <<lifeVars, lockVars>>

MCInit ==
    /\ part \in {"life", "lag", "hub", "enrolment"}
    /\ LifeInit /\ Init /\ HubInit /\ EnrolInit

MCNext ==
    \/ part = "life" /\ LifeNext /\ UNCHANGED <<part, vars, hubAll, enrolVars>>
    \/ part = "lag" /\ Next /\ UNCHANGED <<part, life, hubAll, enrolVars>>
    \/ part = "hub" /\ HubNext /\ UNCHANGED <<part, life, vars, enrolVars>>
    \/ part = "enrolment" /\ EnrolNext /\ UNCHANGED <<part, life, vars, hubAll>>

MCSpec == MCInit /\ [][MCNext]_<<part, life, vars, hubAll, enrolVars>>

(* The parts share their model values, so that two sets are enough. *)
MCSymmetry == Permutations(Inodes) \cup Permutations(WGKeys)

=============================================================================
