---------------------------- MODULE MCRelayLive ----------------------------
(***************************************************************************)
(* What the data planes bring to an end, checked in one run: the flows and *)
(* the targets of an agent in kernel mode and the relay of the user mode.  *)
(* "part" says which of them a behaviour is of; the others stay in one     *)
(* initial state.  Each fairness condition is the one of the part's        *)
(* module, asked of the behaviours of that part.                           *)
(***************************************************************************)
EXTENDS Naturals

CONSTANTS
    None, h, k,
    Ports, MaxUnconverged, MaxPubs, MaxFaults, MaxFlows,                   \* KernelFlows
    NTcp, NUdp, MaxCandidates, MaxProbes, MaxChanges, Failed,              \* KernelTargets
    Flows, Listeners, Sources, MaxTx, Cap, PoolCap, Slots, r1, r2, a, b    \* UserRelay

VARIABLES
    part,
    udp, up, allow, last, pending, prep, dp, file, table, link, localnet, flows,
    touched, faults, pubs,
    decl, wanted, pub, lkg, pin, failed, tried, leaving, record, alive, answer, udpFlows,
    phase, changes, checked,
    proto, policy, charges, leases, replies, active, retiring, closed, lst, flow, tx, kept

(* One port, two host names and three addresses, of which the third is a
   loopback address. *)
K == INSTANCE KernelFlows WITH
        Hosts <- {h, k}, Addrs <- {1, 2, 3}, Loopback <- {3},
        HostAddrs <- [n \in {h, k} |-> IF n = h THEN {1, 2} ELSE {2, 3}],
        Decls <- [Ports -> {h, k, 1, None}], Allows <- {{1, 2, 3}, {2}}

Rules == 1 .. NTcp + NUdp

MCDecls == {[r \in Rules |-> h], [r \in Rules |-> IF r = 1 THEN k ELSE h]}

MCAnswers == {[n \in {h, k} |-> {1, 2}], [n \in {h, k} |-> IF n = h THEN {2} ELSE {1, 2}],
              [n \in {h, k} |-> Failed]}

T == INSTANCE KernelTargets WITH
        Hosts <- {h, k}, NAddrs <- 2, Allow <- [r \in Rules |-> {1, 2}],
        Decls <- MCDecls, Answers <- MCAnswers,
        pending <- wanted, file <- record, flows <- udpFlows

Declares(r, t, srcs) == [rule |-> r, target |-> t, allow |-> srcs]

MCPlans == {Declares(r1, a, Sources), Declares(r1, a, {}), Declares(r2, a, Sources),
            Declares(r1, b, Sources)}

U == INSTANCE UserRelay WITH Rules <- {r1, r2}, Targets <- {a, b}, Plans <- MCPlans

kernel == <<udp, up, allow, last, pending, prep, dp, file, table, link, localnet, flows,
            touched, faults, pubs>>
targets == <<decl, wanted, pub, lkg, pin, failed, tried, leaving, record, alive, answer,
             udpFlows, phase, changes, checked>>
user == <<proto, policy, charges, leases, replies, active, retiring, closed, lst, flow, tx,
          kept>>

Unused(p) ==
    /\ p # "kernel" => udp = {} /\ allow = {2}
    /\ p # "targets" => wanted = [r \in Rules |-> h] /\ alive = {} /\ answer[k] = Failed
    /\ p # "user" => proto = "udp"

MCInit ==
    /\ part \in {"kernel", "targets", "user"}
    /\ K!Init /\ T!Init /\ U!Init /\ Unused(part)

MCNext ==
    \/ part = "kernel" /\ K!Next /\ UNCHANGED <<part, targets, user>>
    \/ part = "targets" /\ T!Next /\ UNCHANGED <<part, kernel, user>>
    \/ part = "user" /\ U!Next /\ UNCHANGED <<part, kernel, targets>>

KernelStep(A) == part = "kernel" /\ A /\ UNCHANGED udp

KernelFair ==
    /\ WF_kernel(KernelStep(K!Start)) /\ WF_kernel(KernelStep(K!Retry))
    /\ WF_kernel(KernelStep(K!Refresh)) /\ WF_kernel(KernelStep(K!ObservePrepare))
    /\ WF_kernel(KernelStep(K!ObserveCommit))

TargetsFair ==
    []<>(part = "targets" => phase = "retry") /\ []<>(part = "targets" => phase = "refresh")

UserStep(A) == part = "user" /\ A

UserFair ==
    \A f \in Flows : /\ WF_user(UserStep(U!AcquireSlot(f) \/ U!CancelSlot(f)))
                     /\ WF_user(UserStep(flow[f].broken /\ U!WaitReadable(f)))
                     /\ WF_user(UserStep(U!Finish(f)))

MCFairSpec ==
    /\ MCInit /\ [][MCNext]_<<part, kernel, targets, user>>
    /\ KernelFair /\ TargetsFair /\ UserFair

-----------------------------------------------------------------------------
(***************************************************************************)
(* The properties, each of the part it is about: see the modules.          *)
(***************************************************************************)

(* Kernel mode: table, interface and flows come to the declaration, and every
   rule to the best address its name has; user mode: a session that was
   closed gives back its charge. *)
RelaysSettle ==
    /\ part = "kernel" => K!Settles
    /\ part = "targets" => T!Settles
    /\ part = "user" => U!ClosedSessionsEnd

(* Kernel mode: the address of a rule changes only when the one in use fails,
   and a UDP flow to an address that was left is closed. *)
FailoverIsSound ==
    [](part = "targets" => T!LeftFlowsClosed) /\ [][T!PinStep]_targets
=============================================================================
