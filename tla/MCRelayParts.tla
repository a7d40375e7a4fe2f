---------------------------- MODULE MCRelayParts ----------------------------
(***************************************************************************)
(* What carries users' flows, checked in one run: the tables of the TCP    *)
(* stack, the relay of the user-mode data plane, and the flows of an agent *)
(* in kernel mode.  "part" says which of them a behaviour is of; the       *)
(* others stay in one initial state.                                       *)
(***************************************************************************)
EXTENDS TcpTables, TLC

CONSTANTS
    Flows, PortListeners, Targets, Sources, MaxTx, Cap, PoolCap, ReplySlots,
    r1, r2, a, b, x,                                           \* UserRelay
    Ports, MaxUnconverged, MaxPubs, MaxFaults, MaxFlows, h, k  \* KernelFlows

VARIABLES
    part,
    proto, policy, charges, leases, replies, active, retiring, closed, lst, flow, tx, kept,
    udp, up, allow, last, pending, prep, dp, file, table, link, localnet, flows, touched,
    faults, pubs

Declares(r, t, srcs) == [rule |-> r, target |-> t, allow |-> srcs]

MCPlans == {Declares(r1, a, {x}), Declares(r1, a, {}), Declares(r2, a, {x}),
            Declares(r1, b, {x})}

U == INSTANCE UserRelay WITH
        Listeners <- PortListeners, Slots <- ReplySlots, Rules <- {r1, r2}, Plans <- MCPlans

(* One port, two host names and three addresses, of which the third is a
   loopback address. *)
K == INSTANCE KernelFlows WITH
        Hosts <- {h, k}, Addrs <- {1, 2, 3}, Loopback <- {3},
        HostAddrs <- [n \in {h, k} |-> IF n = h THEN {1, 2} ELSE {2, 3}],
        Decls <- [Ports -> {h, k, 1, None}],
        Allows <- {{1, 2, 3}, {2}}

user == <<proto, policy, charges, leases, replies, active, retiring, closed, lst, flow, tx,
          kept>>
kernel == <<udp, up, allow, last, pending, prep, dp, file, table, link, localnet, flows,
            touched, faults, pubs>>

MCInit ==
    /\ part \in {"tables", "user", "kernel"}
    /\ Init /\ U!Init /\ K!Init
    /\ part # "user" => proto = "udp"
    /\ part # "kernel" => udp = {} /\ allow = {2}

MCNext ==
    \/ part = "tables" /\ Next /\ UNCHANGED <<part, user, kernel>>
    \/ part = "user" /\ U!Next /\ UNCHANGED <<part, vars, kernel>>
    \/ part = "kernel" /\ K!Next /\ UNCHANGED <<part, vars, user>>

MCSpec == MCInit /\ [][MCNext]_<<part, vars, user, kernel>>

(* The parts share their model values, so that two sets are enough. *)
MCSymmetry == Permutations(Slots) \cup Permutations(Tuples)

-----------------------------------------------------------------------------
(***************************************************************************)
(* The properties of the instances, each of the part it is about: see the  *)
(* modules.                                                                *)
(***************************************************************************)

(* Tables: the queue of a listener is counted, a connection is in one table,
   no slot is lost, a goroutine reaches only the connection it was given, and
   a closed listener or device leaves nothing behind. *)
TablesHold ==
    /\ QueueIsCounted /\ OneHome /\ NoSlotLost /\ OnlyOwnConnection
    /\ ClosedListenerIsEmpty /\ ClosedDeviceIsFree

(* User mode: a flow goes to the target its port declares, from a source the
   published policy admits. *)
FlowsAreDeclared == part = "user" => U!RelaysToDeclaredTarget /\ U!RefusedSourcesAreCut

(* User mode: a flow that runs is listed at its listener, what is charged is
   what runs, and a rule that still has flows is still judged. *)
FlowsAccounted ==
    part = "user" => U!EveryFlowIsKnown /\ U!ChargesHold /\ U!OldRuleStillJudged

(* Kernel mode: a flow that has to be closed is not forgotten, none stays to
   an address the allow list refuses, and route_localnet is on only behind
   the guard. *)
KernelFlowsHold ==
    part = "kernel" => K!OwedIsRemembered /\ K!RefusedAddressesAreCut /\ K!LoopbackGuarded

(* Either mode: a commit that keeps a port keeps its flows, and a flow that
   nothing is wrong with is left alone. *)
FlowsSurvive == [][U!KeepingStep]_user /\ [][K!KeepingStep]_kernel
=============================================================================
