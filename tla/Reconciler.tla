----------------------------- MODULE Reconciler -----------------------------
(***************************************************************************)
(* The reconcile transaction of the wgft server in kernel mode: the        *)
(* Reconciler (internal/reconcile/reconciler.go), the fixed-order Runtime  *)
(* it drives (runtime.go), the kernel backend (dataplane/linuxkernel) and  *)
(* the loops of the daemon that call it (vpsd/apply.go, hold.go,           *)
(* reconcile/trigger.go).                                                  *)
(*                                                                         *)
(* A transaction holds Daemon.mu from start to end, so no other operation  *)
(* of the daemon interleaves with it.  Its kernel calls are separate steps *)
(* here, because the kernel's own activity does interleave: flows open     *)
(* and end, another program edits the table or the peers, and the process  *)
(* may die between two calls, leaving the kernel as it is.                 *)
(*                                                                         *)
(* A rule and a port keep what the properties tell apart: the listening    *)
(* port, the agent (its address in a plan), whether the relay serves it,   *)
(* and the sources the policy admits.  A table is the plan it was built    *)
(* from, which is also what its fingerprint stands for.                    *)
(***************************************************************************)
EXTENDS Naturals, FiniteSets

CONSTANTS
    Rules,        \* rule IDs
    Values,       \* the values a stored rule may have
    Agents,       \* agent names
    Addrs,        \* addresses of the WireGuard network an agent may get
    Keys,         \* public keys
    Listens,      \* listening ports
    Sources,      \* source addresses
    None,         \* Go's nil: no rule, no port, no address, no key, no table
    Excluded,     \* a rule of the Desired set that is not to be forwarded
    Unknown,      \* a table that could not be read back
    MaxChanges,   \* bound on the changes of the rules
    MaxAgentChanges, \* bound on the changes of the agents
    MaxFaults,    \* bound on the calls that fail
    MaxDrifts,    \* bound on the changes made outside wgft
    MaxCrashes,   \* bound on the restarts of the process
    MaxBinds,     \* bound on how often another program takes or frees a port
    MaxEvents,    \* bound on all of the above but the faults together
    DriftAt,      \* the points of a transaction where another program may act
    DeleteMayFail, \* whether the kernel may refuse to delete one flow
    ReadMayFail   \* whether reading the database may fail before Reconcile

RuleRecord == [listen : Listens, agent : Agents, relay : BOOLEAN,
               allow : SUBSET Sources, enabled : BOOLEAN]
Port == [listen : Listens, addr : Addrs, relay : BOOLEAN, allow : SUBSET Sources]

Decls == [Rules -> Values \cup {None}]
Plans == [Rules -> Port \cup {None}]
Inputs == [Rules -> Port \cup {None, Excluded}]
Retired == [previous : Port, allow : SUBSET Sources]
Retirings == [Rules -> Retired \cup {None}]
PeerSets == [Addrs -> Keys \cup {None}]
Flows == [listen : Listens, addr : Addrs, src : Sources]
FlowRepairs == [plan : Plans, retiring : Retirings]
Baselines == [wg : PeerSets, table : Plans \cup {Unknown}]
Entries == [key : Keys \cup {None}, gen : Nat]
Transactions == [retry : BOOLEAN, forced : BOOLEAN, failed : SUBSET Rules,
                 ports : Plans, retiring : Retirings, peersChanged : BOOLEAN,
                 resync : BOOLEAN, noop : BOOLEAN]

ASSUME ReconcilerAssumption ==
    /\ Values \subseteq RuleRecord
    /\ Addrs \subseteq Nat
    /\ None \notin Values /\ None \notin Addrs /\ None \notin Keys
    /\ None \notin Port /\ None # Excluded /\ None # Unknown
    /\ None \notin Retired /\ None \notin Plans /\ None \notin PeerSets
    /\ None \notin FlowRepairs /\ None \notin Baselines /\ None \notin Entries
    /\ Excluded \notin Port /\ Unknown \notin Plans
    /\ MaxChanges \in Nat /\ MaxAgentChanges \in Nat /\ MaxFaults \in Nat
    /\ MaxDrifts \in Nat /\ MaxCrashes \in Nat /\ MaxBinds \in Nat
    /\ MaxEvents \in Nat
    /\ DeleteMayFail \in BOOLEAN /\ ReadMayFail \in BOOLEAN

VARIABLES
    \* the server's database: the Desired value
    gen, decl, addrOf, keyOf, changes, agentChanges,
    \* the transaction under way
    pc, tx,
    \* the Reconciler
    observed, lastIn, active, failed, published, activePeers, activeGen,
    retiring, resync, repair, activeGeneration, lastError, needsRetry,
    ruleState,
    \* the frontend: the ports the relay serves
    serving,
    \* the kernel backend
    last, pendPeers, pendRules,
    \* the daemon: whether RetryGate lets a notification reapply now; the
    \* agents' entries of the last delivery snapshot, and whether a saved
    \* declaration lacks a commit (deliveryOwner.latest and pending)
    gate, delivered, pending,
    \* the kernel
    table, kpeers, flows, blocked,
    \* whether the table and the peers are as the last call that reported
    \* success left them, and the bounds
    touched, peersTouched, faults, drifts, crashes, binds

desiredVars == <<gen, decl, addrOf, keyOf, changes, agentChanges>>
recVars == <<observed, lastIn, active, failed, published, activePeers,
             activeGen, retiring, resync, repair, activeGeneration,
             lastError, needsRetry, ruleState, serving>>
backendVars == <<last, pendPeers, pendRules>>
kernelVars == <<table, kpeers, flows, blocked, binds>>
histVars == <<touched, peersTouched, faults, drifts, crashes>>
daemonVars == <<gate, delivered, pending>>
vars == <<desiredVars, pc, tx, recVars, backendVars, daemonVars, kernelVars,
          histVars>>

-----------------------------------------------------------------------------
(* Plans and peers                                                         *)

NoPlan == [r \in Rules |-> None]
NoPeers == [a \in Addrs |-> None]

(* What may be saved: no two rules on one listening port.                  *)
ValidDecls ==
    {d \in Decls : \A r, s \in Rules :
        (r # s /\ d[r] # None /\ d[s] # None) => d[r].listen # d[s].listen}

(* buildPlan and planner.Build: a disabled rule and the rule of an agent   *)
(* without an address are excluded; the others get the agent's address.    *)
Input ==
    [r \in Rules |->
        IF decl[r] = None THEN None
        ELSE IF ~decl[r].enabled \/ addrOf[decl[r].agent] = None THEN Excluded
        ELSE [listen |-> decl[r].listen, addr |-> addrOf[decl[r].agent],
              relay |-> decl[r].relay, allow |-> decl[r].allow]]

PlanOf(in) == [r \in Rules |-> IF in[r] = Excluded THEN None ELSE in[r]]

(* Plan.Without                                                            *)
Without(plan, rs) == [r \in Rules |-> IF r \in rs THEN None ELSE plan[r]]

Forwarded(plan) == {r \in Rules : plan[r] # None}

(* Daemon.agents: a peer for every agent that has declared a key.          *)
DesiredPeers ==
    [a \in Addrs |->
        IF \E g \in Agents : addrOf[g] = a
        THEN keyOf[CHOOSE g \in Agents : addrOf[g] = a] ELSE None]

(* Mutant: the old peers are not kept until the new table is published.    *)
PeerUnionWanted(want, have) == want

(* PeerUnion: what is wanted, and what the device has at an address and    *)
(* under a key that nothing wanted claims.                                 *)
PeerUnion(want, have) ==
    [a \in Addrs |->
        IF want[a] # None THEN want[a]
        ELSE IF \E b \in Addrs : want[b] = have[a] THEN None
        ELSE have[a]]

(* conntrack's allowed: the flow of a transparent port.                    *)
Dispatches(port, f) ==
    ~port.relay /\ port.listen = f.listen /\ port.addr = f.addr

Admitted(plan, f) ==
    \E r \in Forwarded(plan) : Dispatches(plan[r], f) /\ f.src \in plan[r].allow

(* A retiring rule's flow stays while both its previous value and its new  *)
(* declaration admit the source (Retiring.SourceAllowed).                  *)
KeptRetiring(ret, f) ==
    \E r \in Rules :
        /\ ret[r] # None
        /\ Dispatches(ret[r].previous, f)
        /\ f.src \in ret[r].previous.allow \cap ret[r].allow

(* ConvergeRules: what the convergence keeps.                              *)
Kept(plan, ret, f) == Admitted(plan, f) \/ KeptRetiring(ret, f)

-----------------------------------------------------------------------------
(* The backend's view of the kernel                                        *)

(* driftOf: the table, then the peers unless their removal is a pending    *)
(* repair.  Before the first Commit there is nothing to compare with.      *)
Drifted ==
    /\ last # None
    /\ \/ table = None \/ last.table = Unknown \/ table # last.table
       \/ kpeers # last.wg /\ pendPeers = None

(* repairPending                                                           *)
RepairPending ==
    pendPeers # None \/ pendRules # None \/ (last # None /\ last.table = Unknown)

-----------------------------------------------------------------------------
(* The Reconciler                                                          *)

NoTx == [retry |-> FALSE, forced |-> FALSE, failed |-> {}, ports |-> NoPlan,
         retiring |-> NoPlan, peersChanged |-> FALSE, resync |-> FALSE,
         noop |-> FALSE]

Init ==
    /\ gen = 0 /\ decl \in ValidDecls
    /\ addrOf \in [Agents -> Addrs \cup {None}]
    /\ keyOf \in [Agents -> Keys \cup {None}]
    /\ \A g \in Agents : addrOf[g] = None => keyOf[g] = None
    /\ \A g, h \in Agents : g # h =>
          /\ addrOf[g] = None \/ addrOf[g] # addrOf[h]
          /\ keyOf[g] = None \/ keyOf[g] # keyOf[h]
    /\ changes = 0 /\ agentChanges = 0
    /\ pc = "begin" /\ tx = NoTx
    /\ observed = FALSE /\ lastIn = NoPlan /\ active = NoPlan /\ failed = {}
    /\ published = FALSE /\ activePeers = NoPeers
    /\ activeGen = [r \in Rules |-> 0] /\ retiring = NoPlan
    /\ resync = FALSE /\ repair = FALSE /\ activeGeneration = 0
    /\ lastError = FALSE /\ needsRetry = FALSE
    /\ ruleState = [r \in Rules |-> "none"] /\ serving = {}
    /\ last = None /\ pendPeers = None /\ pendRules = None
    /\ gate = TRUE /\ delivered = [g \in Agents |-> None] /\ pending = FALSE
    /\ table = None /\ kpeers = NoPeers /\ flows = {} /\ blocked \in SUBSET Listens
    /\ touched = "no" /\ peersTouched = "no"
    /\ faults = 0 /\ drifts = 0 /\ crashes = 0 /\ binds = 0

(* Mutant: a failed transaction leaves every rule's state alone.           *)
RuleStatesKept(in, act, flds, rsync, err) ==
    [r \in Rules |->
        IF in[r] = None THEN "none"
        ELSE IF in[r] = Excluded \/ r \in flds THEN "not_active"
        ELSE IF err /\ rsync THEN "pending" ELSE "active"]

(* ruleStates                                                              *)
RuleStates(in, act, flds, rsync, err) ==
    [r \in Rules |->
        IF in[r] = None THEN "none"
        ELSE IF in[r] = Excluded
             THEN IF err /\ act[r] # None THEN "pending" ELSE "not_active"
        ELSE IF r \in flds THEN "not_active"
        ELSE IF err /\ (rsync \/ act[r] # in[r]) THEN "pending" ELSE "active"]

(* fail: Active, its generation and the retiring set stay.                 *)
Fail(in, rsync) ==
    /\ resync' = rsync
    /\ lastError' = TRUE
    /\ needsRetry' = TRUE
    /\ ruleState' = RuleStates(in, active, {}, rsync, TRUE)
    /\ UNCHANGED <<active, failed, published, activeGen, retiring, repair,
                   activeGeneration, serving>>

(* The value each rule last had Active.                                    *)
Previous(r) ==
    IF active[r] # None THEN active[r]
    ELSE IF retiring[r] # None THEN retiring[r].previous ELSE None

(* runtime.go's retiring: the failed rules that had an Active value.       *)
Retire(plan, fs) ==
    [r \in Rules |->
        IF r \in fs /\ Previous(r) # None
        THEN [previous |-> Previous(r), allow |-> plan[r].allow] ELSE None]

(* proxyrelay's Prepare opens only the ports the relay does not serve yet, *)
(* and cannot open one another program holds.                              *)
Unbound(plan) ==
    {r \in Forwarded(plan) : plan[r].relay /\ plan[r].listen \in blocked \ serving}

RelayListens(plan) ==
    {plan[r].listen : r \in {q \in Forwarded(plan) : plan[q].relay}}

Fault == faults < MaxFaults /\ faults' = faults + 1

Start(retry) == pc' = "begin" /\ tx' = [NoTx EXCEPT !.retry = retry]
Finished == pc' = "idle" /\ tx' = NoTx

-----------------------------------------------------------------------------
(* What starts a transaction                                               *)

(* agentView: what is delivered of the rules leaves the sources out.       *)
AgentView(d) ==
    [r \in Rules |-> IF d[r] = None THEN None ELSE [d[r] EXCEPT !.allow = {}]]

(* deliveryCandidate: an entry for every registered agent.                 *)
Candidate ==
    [g \in Agents |-> IF addrOf[g] = None THEN None ELSE [key |-> keyOf[g], gen |-> gen]]

EventsLeft == changes + agentChanges + drifts + crashes + binds < MaxEvents

(* Batch, DisableAgent, EnableAgent: the rules are saved, and the          *)
(* generation advances when what the agents get differs; then applied.     *)
ChangeRules(d) ==
    /\ pc = "idle" /\ changes < MaxChanges /\ EventsLeft
    /\ changes' = changes + 1
    /\ gen' = IF AgentView(d) = AgentView(decl) THEN gen ELSE gen + 1
    /\ decl' = d
    /\ Start(FALSE)
    /\ UNCHANGED <<addrOf, keyOf, agentChanges, recVars, backendVars,
                   daemonVars, kernelVars, histVars>>

ChangeAgents ==
    /\ pc = "idle" /\ agentChanges < MaxAgentChanges /\ EventsLeft
    /\ agentChanges' = agentChanges + 1
    /\ Start(FALSE)
    /\ UNCHANGED <<gen, decl, changes, backendVars, gate, kernelVars, histVars>>

FreeAddrs == {a \in Addrs : \A g \in Agents : addrOf[g] # a}

(* Register: the lowest free address.  The agents' API opens after the     *)
(* first successful apply.                                                 *)
Register(g) ==
    /\ ChangeAgents
    /\ published /\ addrOf[g] = None
    /\ \E a \in FreeAddrs :
          /\ \A b \in FreeAddrs : a <= b
          /\ addrOf' = [addrOf EXCEPT ![g] = a]
    /\ UNCHANGED <<keyOf, recVars, delivered, pending>>

(* SetPublicKey with a key that is not the stored one.                     *)
SetPublicKey(g, k) ==
    /\ ChangeAgents
    /\ published /\ addrOf[g] # None
    /\ \A h \in Agents : keyOf[h] # k
    /\ keyOf' = [keyOf EXCEPT ![g] = k]
    /\ UNCHANGED <<addrOf, recVars, delivered, pending>>

(* Revoke deletes the row and the delivery entry, and CloseAgent ends the  *)
(* relay's listeners of the agent before the rules are applied.            *)
Revoke(g) ==
    /\ ChangeAgents
    /\ addrOf[g] # None
    /\ addrOf' = [addrOf EXCEPT ![g] = None]
    /\ keyOf' = [keyOf EXCEPT ![g] = None]
    /\ delivered' = [delivered EXCEPT ![g] = None] /\ pending' = TRUE
    /\ serving' = serving \ {active[r].listen :
                     r \in {q \in Forwarded(active) : active[q].addr = addrOf[g]}}
    /\ UNCHANGED <<observed, lastIn, active, failed, published, activePeers,
                   activeGen, retiring, resync, repair, activeGeneration,
                   lastError, needsRetry, ruleState>>

(* retryOnce every 30 seconds, and retryHold while the startup holds.      *)
RetryOnce ==
    /\ pc = "idle" /\ (needsRetry \/ ~published)
    /\ Start(TRUE)
    /\ UNCHANGED <<desiredVars, recVars, backendVars, daemonVars, kernelVars,
                   histVars>>

(* observeOnce after a notification, and every 5 minutes.                  *)
ObserveOnce ==
    LET rsync == resync \/ Drifted
        newDrift == Drifted /\ ~resync
    IN  /\ pc = "idle" /\ published
        /\ resync' = rsync
        /\ activePeers' = IF Drifted THEN kpeers ELSE activePeers
        /\ IF (rsync \/ lastError) /\ (newDrift \/ gate)
           THEN Start(TRUE) ELSE UNCHANGED <<pc, tx>>
        /\ UNCHANGED <<desiredVars, observed, lastIn, active, failed, published,
                       activeGen, retiring, repair, activeGeneration, lastError,
                       needsRetry, ruleState, serving, backendVars, daemonVars,
                       kernelVars, histVars>>

(* The kernel could not be read: recorded like a backend-wide failure.     *)
ObserveFails ==
    /\ pc = "idle" /\ published /\ Fault
    /\ Fail(lastIn, TRUE)
    /\ UNCHANGED <<desiredVars, pc, tx, observed, lastIn, activePeers,
                   backendVars, daemonVars, kernelVars, touched, peersTouched,
                   drifts, crashes>>

(* The delay after a failure is over.                                      *)
GateOpens ==
    /\ ~gate /\ gate' = TRUE
    /\ UNCHANGED <<desiredVars, pc, tx, recVars, backendVars, delivered,
                   pending, kernelVars, histVars>>

-----------------------------------------------------------------------------
(* The transaction                                                         *)

(* applyOnce fails to read the database: Reconcile is not called, and      *)
(* nothing schedules a retry.  apply marks the delivery pending.           *)
ReadFails ==
    /\ pc = "begin" /\ ~tx.forced /\ ReadMayFail /\ Fault
    /\ pending' = TRUE
    /\ Finished
    /\ UNCHANGED <<desiredVars, recVars, backendVars, gate, delivered,
                   kernelVars, touched, peersTouched, drifts, crashes>>

(* A retry of a pending repair first looks at the actual state.            *)
ChecksRepair == tx.retry /\ repair /\ ~resync /\ published

(* Every failure from here on is Reconcile's, and closes the gate.         *)
GiveUp(rsync) ==
    /\ Fault
    /\ Fail(Input, rsync)
    /\ gate' = FALSE /\ pending' = TRUE
    /\ Finished
    /\ UNCHANGED <<desiredVars, delivered, backendVars, drifts, crashes>>

(* The kernel cannot be read before the first transaction, or before the   *)
(* retry of a repair.                                                      *)
BeginFails ==
    /\ pc = "begin" /\ (~observed \/ ChecksRepair)
    /\ lastIn' = Input
    /\ GiveUp(resync \/ (observed /\ ChecksRepair))
    /\ UNCHANGED <<observed, activePeers, kernelVars, touched, peersTouched>>

(* Reconcile observes if it has to, and the frontend prepares: the rules   *)
(* it could not bind are left out of what the backend sees.                *)
Begin ==
    LET drift == ChecksRepair /\ Drifted
        found == IF ~observed \/ drift THEN kpeers ELSE activePeers
        rsync == resync \/ drift
        plan  == PlanOf(Input)
        fs    == Unbound(plan)
    IN  /\ pc = "begin"
        /\ lastIn' = Input
        /\ observed' = TRUE
        /\ activePeers' = found
        /\ resync' = rsync
        /\ tx' = [tx EXCEPT !.failed = fs,
                            !.ports = Without(plan, fs),
                            !.retiring = Retire(plan, fs),
                            !.resync = rsync,
                            !.peersChanged = (DesiredPeers # found \/ rsync)]
        /\ pc' = "prepare"
        /\ UNCHANGED <<desiredVars, active, failed, published, activeGen,
                       retiring, repair, activeGeneration, lastError,
                       needsRetry, ruleState, serving, backendVars, daemonVars,
                       kernelVars, histVars>>

(* Mutant: the peers are not part of what is compared.                     *)
SamePublicationPorts ==
    /\ tx.retry /\ ~tx.resync /\ published
    /\ tx.ports = active /\ tx.failed = failed

(* samePublication: a retry that would publish the same commits nothing.   *)
SamePublication ==
    /\ tx.retry /\ ~tx.resync /\ published
    /\ DesiredPeers = activePeers
    /\ tx.ports = active /\ tx.failed = failed

(* The peers Prepare installs: the old ones stay beside the declared ones. *)
PreparedPeers ==
    IF tx.peersChanged THEN PeerUnion(DesiredPeers, activePeers) ELSE kpeers

(* The backend's Prepare, and the Runtime's decision to commit.            *)
Prepare ==
    /\ pc = "prepare"
    /\ kpeers' = PreparedPeers
    /\ tx' = [tx EXCEPT !.noop = SamePublication]
    /\ pc' = IF ~SamePublication THEN "flush"
             ELSE IF repair THEN "peers" ELSE "finish"
    /\ UNCHANGED <<desiredVars, recVars, backendVars, daemonVars, table, flows,
                   blocked, binds, histVars>>

(* restorePeers: its own failure is dropped, and leaves the device as the  *)
(* failed step left it.                                                    *)
RestorePeers(held) ==
    IF ~tx.peersChanged THEN kpeers' = held /\ UNCHANGED peersTouched
    ELSE \/ kpeers' = activePeers /\ UNCHANGED peersTouched
         \/ /\ kpeers' = held
            /\ peersTouched' = IF peersTouched = "outside" THEN "outside" ELSE "lost"

(* ensureWG fails, or stage does after it; what was added is taken back.   *)
PrepareFails ==
    /\ pc = "prepare"
    /\ \E held \in {kpeers, PreparedPeers} : RestorePeers(held)
    /\ GiveUp(resync)
    /\ UNCHANGED <<observed, lastIn, activePeers, table, flows, blocked, binds, touched>>

(* Mutant: the convergence of an earlier Commit is left standing.          *)
FlushKeepsRules ==
    /\ pc = "flush"
    /\ table' = tx.ports
    /\ touched' = "no"
    /\ pendPeers' = IF tx.peersChanged \/ pendPeers # None THEN DesiredPeers ELSE None
    /\ pc' = "peers"
    /\ UNCHANGED <<desiredVars, tx, recVars, last, pendRules, daemonVars, kpeers,
                   flows, blocked, binds, peersTouched, faults, drifts, crashes>>

(* Commit: the table is replaced.  The peers the declaration dropped and   *)
(* the flows it no longer admits become repairs to run.                    *)
Flush ==
    /\ pc = "flush"
    /\ table' = tx.ports
    /\ touched' = "no"
    /\ pendPeers' = IF tx.peersChanged \/ pendPeers # None THEN DesiredPeers ELSE None
    /\ pendRules' = [plan |-> tx.ports, retiring |-> tx.retiring]
    /\ pc' = "peers"
    /\ UNCHANGED <<desiredVars, tx, recVars, last, daemonVars, kpeers, flows,
                   blocked, binds, peersTouched, faults, drifts, crashes>>

(* Commit fails: the kernel refused the batch, or replaced the table and   *)
(* the replies were lost.  The Runtime rolls back either way.              *)
FlushFails(replaced) ==
    /\ pc = "flush"
    /\ table' = IF replaced THEN tx.ports ELSE table
    /\ touched' = IF replaced /\ touched = "no" THEN "lost" ELSE touched
    /\ RestorePeers(kpeers)
    /\ GiveUp(resync)
    /\ UNCHANGED <<observed, lastIn, activePeers, flows, blocked, binds>>

(* runRepairs, the peers: ensureWG with the declaration of the Commit.     *)
RepairPeers ==
    /\ pc = "peers"
    /\ \/ pendPeers = None /\ UNCHANGED <<kpeers, pendPeers, peersTouched, faults>>
       \/ /\ pendPeers # None
          /\ kpeers' = pendPeers /\ pendPeers' = None
          /\ peersTouched' = "no" /\ UNCHANGED faults
       \/ /\ pendPeers # None
          /\ Fault /\ UNCHANGED <<kpeers, pendPeers, peersTouched>>
    /\ pc' = "converge"
    /\ UNCHANGED <<desiredVars, tx, recVars, last, pendRules, daemonVars, table,
                   flows, blocked, binds, touched, drifts, crashes>>

(* runRepairs, conntrack: every flow that is not kept is deleted.  A       *)
(* deletion the kernel refuses is passed over.                             *)
Converge ==
    /\ pc = "converge"
    /\ \/ pendRules = None /\ UNCHANGED <<flows, pendRules, faults>>
       \/ /\ pendRules # None
          /\ LET kept == {f \in flows : Kept(pendRules.plan, pendRules.retiring, f)}
             IN  \E left \in (IF DeleteMayFail THEN SUBSET (flows \ kept) ELSE {{}}) :
                    flows' = kept \cup left
          /\ pendRules' = None /\ UNCHANGED faults
       \/ /\ pendRules # None
          /\ Fault /\ UNCHANGED <<flows, pendRules>>
    /\ pc' = IF tx.noop THEN "finish" ELSE "readback"
    /\ UNCHANGED <<desiredVars, tx, recVars, last, pendPeers, daemonVars, table,
                   kpeers, blocked, binds, touched, peersTouched, drifts, crashes>>

(* readBack: what later Observes compare the kernel with.                  *)
ReadBack ==
    /\ pc = "readback"
    /\ \/ /\ last' = [wg |-> DesiredPeers, table |-> IF table = None THEN Unknown ELSE table]
          /\ UNCHANGED faults
       \/ last' = [wg |-> DesiredPeers, table |-> Unknown] /\ Fault
    /\ pc' = "finish"
    /\ UNCHANGED <<desiredVars, tx, recVars, pendPeers, pendRules, daemonVars,
                   kernelVars, touched, peersTouched, drifts, crashes>>

(* Committed.RepairPending of a Commit or a Repair; a retry that ran       *)
(* neither has none.                                                       *)
RepairLeft ==
    (~tx.noop \/ repair) /\ RepairPending

(* Reconcile records the transaction: what is published is Active.  A      *)
(* retry that published nothing, while the delivery snapshot is not what   *)
(* the database says, is followed by one that is not a retry (apply).      *)
Finish ==
    LET in == Input
    IN  /\ pc = "finish"
        /\ published' = TRUE
        /\ active' = tx.ports /\ failed' = tx.failed /\ retiring' = tx.retiring
        /\ activeGen' = [r \in Rules |->
              IF tx.ports[r] # None /\ active[r] # tx.ports[r] THEN gen
              ELSE IF PlanOf(in)[r] = None THEN 0 ELSE activeGen[r]]
        /\ activePeers' = DesiredPeers
        /\ resync' = FALSE /\ repair' = RepairLeft
        /\ activeGeneration' = gen
        /\ lastError' = RepairLeft
        /\ needsRetry' = (tx.failed # {} \/ RepairLeft)
        /\ ruleState' = RuleStates(in, tx.ports, tx.failed, FALSE, FALSE)
        /\ gate' = TRUE
        /\ IF tx.noop
           THEN /\ UNCHANGED <<serving, delivered>>
                /\ IF delivered = Candidate THEN Finished /\ pending' = FALSE
                   ELSE /\ pc' = "begin" /\ tx' = [NoTx EXCEPT !.forced = TRUE]
                        /\ UNCHANGED pending
           ELSE /\ serving' = RelayListens(tx.ports)
                /\ delivered' = Candidate /\ pending' = FALSE
                /\ Finished
        /\ UNCHANGED <<desiredVars, observed, lastIn, backendVars, kernelVars,
                       histVars>>

-----------------------------------------------------------------------------
(* The kernel and the world                                                *)

(* A connection through the table the kernel holds.  (One that ends only   *)
(* leaves flows smaller, which no property below can tell.)                *)
NewFlow(f) ==
    /\ f \notin flows /\ table # None /\ Admitted(table, f)
    /\ flows' = flows \cup {f}
    /\ UNCHANGED <<desiredVars, pc, tx, recVars, backendVars, daemonVars, table,
                   kpeers, blocked, binds, histVars>>

(* Another program deletes the table, or empties it.                       *)
DriftTable(t) ==
    /\ pc \in DriftAt /\ drifts < MaxDrifts /\ EventsLeft /\ t # table
    /\ drifts' = drifts + 1
    /\ table' = t
    /\ touched' = "outside"
    /\ UNCHANGED <<desiredVars, pc, tx, recVars, backendVars, daemonVars,
                   kpeers, flows, blocked, binds, peersTouched, faults, crashes>>

(* Another program removes the peer of an address, or gives it another key.*)
DriftPeers(a, k) ==
    /\ pc \in DriftAt /\ drifts < MaxDrifts /\ EventsLeft
    /\ \A b \in Addrs : k = None \/ kpeers[b] # k
    /\ k # kpeers[a]
    /\ drifts' = drifts + 1
    /\ kpeers' = [kpeers EXCEPT ![a] = k]
    /\ peersTouched' = "outside"
    /\ UNCHANGED <<desiredVars, pc, tx, recVars, backendVars, daemonVars,
                   table, flows, blocked, binds, touched, faults, crashes>>

(* Another program takes or frees a listening port.                        *)
PortChanges(l) ==
    /\ binds < MaxBinds /\ EventsLeft /\ l \notin serving
    /\ binds' = binds + 1
    /\ blocked' = IF l \in blocked THEN blocked \ {l} ELSE blocked \cup {l}
    /\ UNCHANGED <<desiredVars, pc, tx, recVars, backendVars, daemonVars,
                   table, kpeers, flows, histVars>>

(* The process dies between two steps and starts again: the database and   *)
(* the kernel stay, and the first apply of the startup begins.             *)
Crash ==
    /\ crashes < MaxCrashes /\ EventsLeft
    /\ crashes' = crashes + 1
    /\ Start(FALSE)
    /\ observed' = FALSE /\ lastIn' = NoPlan /\ active' = NoPlan /\ failed' = {}
    /\ published' = FALSE /\ activePeers' = NoPeers
    /\ activeGen' = [r \in Rules |-> 0] /\ retiring' = NoPlan
    /\ resync' = FALSE /\ repair' = FALSE /\ activeGeneration' = 0
    /\ lastError' = FALSE /\ needsRetry' = FALSE
    /\ ruleState' = [r \in Rules |-> "none"] /\ serving' = {}
    /\ last' = None /\ pendPeers' = None /\ pendRules' = None
    /\ gate' = TRUE /\ delivered' = [g \in Agents |-> None] /\ pending' = FALSE
    /\ UNCHANGED <<desiredVars, kernelVars, touched, peersTouched, faults, drifts>>

-----------------------------------------------------------------------------
Transaction ==
    \/ ReadFails \/ BeginFails \/ Begin
    \/ Prepare \/ PrepareFails
    \/ Flush \/ (\E replaced \in BOOLEAN : FlushFails(replaced))
    \/ RepairPeers \/ Converge \/ ReadBack \/ Finish

Operator ==
    \/ \E d \in ValidDecls : ChangeRules(d)
    \/ \E g \in Agents : Register(g) \/ Revoke(g) \/ \E k \in Keys : SetPublicKey(g, k)

World ==
    \/ \E f \in Flows : NewFlow(f)
    \/ \E t \in {None, NoPlan} : DriftTable(t)
    \/ \E a \in Addrs, k \in Keys \cup {None} : DriftPeers(a, k)
    \/ \E l \in Listens : PortChanges(l)
    \/ Crash

Next ==
    \/ Transaction \/ Operator \/ World
    \/ RetryOnce \/ ObserveOnce \/ ObserveFails \/ GateOpens

Spec == Init /\ [][Next]_vars

(* A transaction runs to its end.  Triggers.Run's one loop selects among   *)
(* its tickers, and sync.Mutex hands itself to a waiter that starves, so   *)
(* retryOnce and observeOnce each come again and again however often the   *)
(* other one runs; the gate's delay passes.                                *)
Fairness ==
    /\ WF_vars(Transaction) /\ WF_vars(GateOpens)
    /\ SF_vars(RetryOnce) /\ SF_vars(ObserveOnce)

FairSpec == Spec /\ Fairness

-----------------------------------------------------------------------------
(* Properties                                                              *)

TypeOK ==
    /\ gen \in Nat /\ decl \in Decls
    /\ addrOf \in [Agents -> Addrs \cup {None}]
    /\ keyOf \in [Agents -> Keys \cup {None}]
    /\ pc \in {"idle", "begin", "prepare", "flush", "peers", "converge",
               "readback", "finish"}
    /\ tx \in Transactions
    /\ observed \in BOOLEAN /\ lastIn \in Inputs /\ active \in Plans
    /\ failed \subseteq Rules /\ published \in BOOLEAN
    /\ activePeers \in PeerSets /\ activeGen \in [Rules -> Nat]
    /\ retiring \in Retirings /\ resync \in BOOLEAN /\ repair \in BOOLEAN
    /\ activeGeneration \in Nat /\ lastError \in BOOLEAN /\ needsRetry \in BOOLEAN
    /\ ruleState \in [Rules -> {"none", "active", "pending", "not_active"}]
    /\ serving \subseteq Listens
    /\ last \in Baselines \cup {None}
    /\ pendPeers \in PeerSets \cup {None}
    /\ pendRules \in FlowRepairs \cup {None}
    /\ gate \in BOOLEAN /\ pending \in BOOLEAN
    /\ table \in Plans \cup {None} /\ kpeers \in PeerSets /\ flows \subseteq Flows
    /\ blocked \subseteq Listens
    /\ touched \in {"no", "lost", "outside"}
    /\ peersTouched \in {"no", "lost", "outside"}

(* Truthful status: what the admin API reports Active is what the table    *)
(* forwards, and what it reports not_active the table does not dispatch,   *)
(* as long as the table is as the last successful call left it (Reconcile, *)
(* ruleStates and fail, against Commit's Flush).                           *)
StatusTruthful ==
    (pc = "idle" /\ published /\ touched = "no") =>
        \A r \in Rules :
            /\ ruleState[r] = "active" => table[r] = lastIn[r]
            /\ ruleState[r] = "not_active" => table[r] = None

(* Nothing left to retry and nothing pending means nothing left to do: the *)
(* kernel holds the plan and the peers of the database, and the relay      *)
(* serves its ports (NeedsRetry and the delivery's pending, against        *)
(* samePublication and the forced commit of apply).                        *)
SettledIsDesired ==
    (pc = "idle" /\ published /\ ~needsRetry /\ ~pending
        /\ touched = "no" /\ peersTouched = "no")
        => /\ table = PlanOf(Input)
           /\ kpeers = DesiredPeers
           /\ RelayListens(table) \subseteq serving

(* A flow the table admits, or one of a fail-closed rule's previous value. *)
Established(plan, ret, f) ==
    \/ Admitted(plan, f)
    \/ \E r \in Rules : /\ ret[r] # None
                        /\ Dispatches(ret[r].previous, f)
                        /\ f.src \in ret[r].previous.allow

(* Every established flow is one that a published dispatch, or the         *)
(* previous value of a fail-closed rule, forwards: once the convergence    *)
(* ran, no flow of a removed, disabled, narrowed or moved rule is left,    *)
(* and none to an address an agent gave back (Commit's order: the table,   *)
(* then the peers, then conntrack; ConvergeRules).                         *)
FlowsConverged ==
    (published /\ pendRules = None /\ touched = "no"
        /\ pc \in {"idle", "begin", "prepare", "flush"})
        => \A f \in flows : Established(table, retiring, f)

(* The peers that go with the table: those of the last publication, and    *)
(* the declared ones from the Flush on.                                    *)
PeersOfTable ==
    IF pc \in {"peers", "converge", "readback", "finish"} THEN DesiredPeers ELSE activePeers

(* A dispatch never loses its peer before it is withdrawn: while the table *)
(* forwards to an address whose agent has a key, the device has a peer     *)
(* there, unless the declaration gives that key to another address         *)
(* (Prepare installs PeerUnion; Commit removes peers only after the Flush; *)
(* restorePeers after a failure).                                          *)
DispatchKeepsPeer ==
    (observed /\ peersTouched = "no" /\ touched = "no" /\ table # None) =>
        \A r \in Forwarded(table) :
            LET a == table[r].addr IN
            \/ PeersOfTable[a] = None
            \/ kpeers[a] # None
            \/ \E b \in Addrs \ {a} : DesiredPeers[b] = PeersOfTable[a]

(* A repair is never forgotten: while a step after the point of no return  *)
(* is still to be done, a retry is scheduled and the status shows an error *)
(* (Committed.RepairPending, carried by repair across failed transactions).*)
RepairTracked ==
    (pc = "idle" /\ published /\ RepairPending) => needsRetry /\ lastError

-----------------------------------------------------------------------------
(* The inductive invariant behind the three properties above               *)

(* Before the point of no return, and after a retry that published nothing,*)
(* the publication in force is the recorded one.                           *)
Unpublished == pc \in {"idle", "begin", "prepare", "flush"} \/ tx.noop

(* What the transaction under way was computed from still holds.           *)
TxInv ==
    /\ pc \in {"idle", "begin", "prepare", "flush"} => ~tx.noop
    /\ pc \notin {"idle", "begin"} =>
          /\ lastIn = Input
          /\ tx.failed \subseteq Forwarded(PlanOf(Input))
          /\ tx.ports = Without(PlanOf(Input), tx.failed)
          /\ tx.retiring = Retire(PlanOf(Input), tx.failed)
    /\ tx.noop => /\ published /\ tx.ports = active /\ tx.failed = failed
                  /\ pc # "readback"

(* What is recorded of the last publication agrees with itself and with    *)
(* the table.                                                              *)
RecordInv ==
    /\ \A r \in failed : active[r] = None
    /\ \A r \in Rules : retiring[r] # None => r \in failed
    /\ (published /\ pc \in {"idle", "begin"}) =>
          \A r \in Rules : /\ ruleState[r] = "active" => active[r] = lastIn[r]
                           /\ ruleState[r] = "not_active" => active[r] = None
    /\ touched = "no" =>
          /\ (published /\ Unpublished) => table = active
          /\ ~Unpublished => table = tx.ports

RepairInv ==
    (Unpublished /\ RepairPending) => repair /\ needsRetry /\ lastError

(* The convergence to run is that of the publication in force.             *)
FlowRepairInv ==
    /\ (Unpublished /\ pendRules # None) =>
          /\ published /\ pendRules.plan = active
          /\ \A r \in Rules : pendRules.retiring[r] # None =>
                /\ retiring[r] # None
                /\ pendRules.retiring[r].previous = retiring[r].previous
    /\ ~Unpublished =>
          /\ pc \in {"peers", "converge"} => pendRules # None
          /\ pendRules # None => pendRules = [plan |-> tx.ports, retiring |-> tx.retiring]

FlowInv ==
    (pendRules = None /\ touched = "no" /\ ~DeleteMayFail) =>
        \A f \in flows :
            /\ (published /\ Unpublished) => Established(active, retiring, f)
            /\ ~Unpublished => Established(tx.ports, tx.retiring, f)

(* What a transaction, its records, the kernel and the repairs still to be *)
(* run agree on at every step of Reconcile, Commit and runRepairs.         *)
ReconInv ==
    TypeOK /\ TxInv /\ RecordInv /\ RepairInv /\ FlowRepairInv /\ FlowInv

(* The declared ports are distinct, those of the record too, and so are    *)
(* the agents' addresses.                                                  *)
DistinctListens(plan) ==
    \A r, s \in Forwarded(plan) : r # s => plan[r].listen # plan[s].listen

DistinctInv ==
    /\ decl \in ValidDecls /\ DistinctListens(active)
    /\ \A g, h \in Agents : g # h => addrOf[g] = None \/ addrOf[g] # addrOf[h]

(* An agent with an entry in the delivery snapshot has kept its address    *)
(* since the last commit.  So the relay has closed a recorded port only if *)
(* no such agent has its address, and the snapshot tells a publication     *)
(* that is the same again from one that was never taken back.              *)
ServingInv ==
    /\ delivered \in [Agents -> Entries \cup {None}]
    /\ \A g \in Agents : delivered[g] # None => addrOf[g] # None
    /\ \A r \in Forwarded(active), g \in Agents :
          (active[r].relay /\ active[r].listen \notin serving /\ delivered[g] # None)
              => addrOf[g] # active[r].addr

(* The peers to be removed are those of the publication in force, unless a *)
(* full transaction will compute them again.                               *)
PeerTxInv ==
    /\ ~observed => pc \in {"idle", "begin"} /\ pendPeers = None /\ ~published
    /\ pc \notin {"idle", "begin"} =>
          /\ tx.resync = resync
          /\ tx.peersChanged = (DesiredPeers # activePeers \/ resync)
    /\ tx.noop => ~resync /\ DesiredPeers = activePeers
    /\ (pendPeers # None /\ Unpublished /\ ~resync) => pendPeers = activePeers
    /\ (pendPeers # None /\ ~Unpublished) => pendPeers = DesiredPeers

(* What the device has of the peers that go with the table, and, with no   *)
(* removal left to do, that it has no others.                              *)
PeerInv ==
    (observed /\ peersTouched = "no") =>
        /\ pc \in {"idle", "begin", "prepare"} =>
              /\ \A a \in Addrs : activePeers[a] # None => kpeers[a] = activePeers[a]
              /\ pendPeers = None => kpeers = activePeers
        /\ pc \notin {"idle", "begin", "prepare"} =>
              /\ \A a \in Addrs : DesiredPeers[a] # None => kpeers[a] = DesiredPeers[a]
              /\ (pendPeers = None /\ (pc = "flush" => ~tx.peersChanged))
                    => kpeers = DesiredPeers
        /\ pc = "flush" =>
              \A a \in Addrs :
                  \/ activePeers[a] = None \/ kpeers[a] # None
                  \/ \E b \in Addrs \ {a} : DesiredPeers[b] = activePeers[a]

(* With nothing to retry and nothing pending the record is the database's. *)
SettledInv ==
    (pc = "idle" /\ published /\ ~needsRetry /\ ~pending) =>
        /\ active = PlanOf(Input) /\ RelayListens(active) \subseteq serving
        /\ peersTouched = "no" => activePeers = DesiredPeers

(* What the device, the relay and the delivery snapshot hold of the        *)
(* publication in force, on top of ReconInv.                               *)
DeviceInv ==
    DistinctInv /\ ServingInv /\ PeerTxInv /\ PeerInv /\ SettledInv

-----------------------------------------------------------------------------
(* What the comments of the code promise beyond that                       *)

(* reconciler.go says of Active that "the rule's Desired value is the      *)
(* value being forwarded": so it should be whenever no error is reported   *)
(* and no other program touched the table (samePublication, fail).         *)
ActiveIsForwarded ==
    (pc = "idle" /\ published /\ ~lastError /\ touched # "outside") =>
        \A r \in Rules : ruleState[r] = "active" => table[r] = lastIn[r]

(* restorePeers counts on "the caller's next transaction, which converges  *)
(* the peers again": after a transaction that reports no error the device  *)
(* has the declared peers, unless another program changed them.            *)
PeersConvergeAgain ==
    (pc = "idle" /\ published /\ ~lastError /\ peersTouched # "outside")
        => kpeers = activePeers

(* The flows of a fail-closed rule are kept only while its new declaration *)
(* admits their source (Retiring.SourceAllowed).                           *)
RetiringFlowsDeclared ==
    (pc = "idle" /\ published /\ ~lastError /\ pendRules = None /\ touched = "no")
        => \A f \in flows : Kept(table, retiring, f)

(* The kernel converges on the database once the faults stop: the table    *)
(* without the rules that cannot bind, and the peers.                      *)
Converged ==
    /\ table = Without(PlanOf(Input), Unbound(PlanOf(Input)))
    /\ kpeers = DesiredPeers

Converges == <>[]Converged

=============================================================================
