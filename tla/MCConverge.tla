----------------------------- MODULE MCConverge -----------------------------
(***************************************************************************)
(* The way of a declaration, checked in one run for where it ends: the     *)
(* Reconciler that publishes it, the delivery to the agents (with its      *)
(* invariants), and the agent that follows it.  "part" says which of them  *)
(* a behaviour is of; the others stay in one initial state.  Each fairness *)
(* condition is the one of the part's module, asked of the behaviours of   *)
(* that part.                                                              *)
(***************************************************************************)
EXTENDS Delivery

CONSTANTS
    g1, g2, k1, k2,
    r1, Listens, Excluded, Unknown, MaxChanges, MaxFaults, MaxDrifts, MaxBinds, MaxEvents,
    DriftAt,                                                          \* Reconciler
    Modes, wBad, w1, w2, b1, b2, NoRules, MaxGen, MaxKey, MaxChan     \* Agent

VARIABLES
    part,
    savedGen, decl, addrOf, keyOf, changes, agentChanges, pc, tx, observed, lastIn, active,
    failed, published, activePeers, activeGen, retiring, resync, repair, activeGeneration,
    lastError, again, ruleState, serving, last, pendPeers, pendRules, gate, delivered, owing,
    table, kpeers, flows, blocked, touched, peersTouched, faults, drifts, restarts, binds,
    rt, up, reader, tick, rot, conn, cut, chan, srv, dirty, agentFails, issued

MCVals == {[allow |-> "s1", body |-> "t1", on |-> TRUE],
           [allow |-> "s2", body |-> "t1", on |-> TRUE],
           [allow |-> "s1", body |-> "t2", on |-> TRUE],
           [allow |-> "s1", body |-> "t1", on |-> FALSE]}

(* A transparent rule of g1, enabled and disabled, and the relayed rule of *)
(* g2 it may become.                                                       *)
MCValues ==
    LET wide == [listen |-> 1, agent |-> g1, relay |-> FALSE, allow |-> {}, enabled |-> TRUE]
    IN  {wide, [wide EXCEPT !.enabled = FALSE], [wide EXCEPT !.agent = g2, !.relay = TRUE]}

C == INSTANCE Reconciler WITH
        Rules <- {r1}, Values <- MCValues, Addrs <- {2, 3}, Sources <- {},
        MaxAgentChanges <- 0, DeleteMayFail <- FALSE, ReadMayFail <- FALSE,
        gen <- savedGen, needsRetry <- again, pending <- owing, crashes <- restarts

(* The wg configuration changes with the rules. *)
A == INSTANCE Agent WITH
        Bodies <- {[wg |-> w1, rules |-> b1], [wg |-> w2, rules |-> b2]}, BadWG <- {wBad},
        Restore <- {}, fails <- agentFails, MaxFails <- 1

reconciler ==
    <<savedGen, decl, addrOf, keyOf, changes, agentChanges, pc, tx, observed, lastIn, active,
      failed, published, activePeers, activeGen, retiring, resync, repair, activeGeneration,
      lastError, again, ruleState, serving, last, pendPeers, pendRules, gate, delivered,
      owing, table, kpeers, flows, blocked, touched, peersTouched, faults, drifts, restarts,
      binds>>
agent == <<rt, up, reader, tick, rot, conn, cut, chan, srv, dirty, agentFails, issued>>

(* The databases at the start.  Delivery: one agent or two, with their keys
   declared.  Reconciler: g1 is registered at the first address with a key,
   and g2 has not declared one. *)
DeliveryStarted ==
    /\ rules = [g \in Agents |-> [allow |-> "s1", body |-> "t1", on |-> TRUE]]
    /\ row \in [Agents -> {None} \cup [id : {0}, key : Keys, off : {FALSE}]]
    /\ part = "delivery" <=> \E g \in Agents : row[g] # None
    /\ \A g, h \in Agents : g # h /\ row[g] # None /\ row[h] # None => row[g].key # row[h].key

ReconcilerStarted ==
    /\ keyOf = [g \in Agents |-> IF g = g1 THEN k1 ELSE None]
    /\ \E second \in {3, None} : addrOf = [g \in Agents |-> IF g = g1 THEN 2 ELSE second]
    /\ decl \in [{r1} -> {v \in MCValues : v.enabled} \cup {None}]
    /\ part # "reconciler" => addrOf[g2] = None /\ decl[r1] = None

MCInit ==
    /\ part \in {"reconciler", "delivery", "agent"}
    /\ DeliveryStarted /\ Init
    /\ ReconcilerStarted /\ C!Init /\ (part # "reconciler" => blocked = {})
    /\ A!Init /\ (part # "agent" => rt.kernel /\ srv.wg = w1)

MCNext ==
    \/ part = "delivery" /\ Next /\ UNCHANGED <<part, reconciler, agent>>
    \/ part = "reconciler" /\ C!Next /\ UNCHANGED <<part, vars, agent>>
    \/ part = "agent" /\ A!Next /\ UNCHANGED <<part, vars, reconciler>>

DeliveryFair ==
    /\ WF_vars(part = "delivery" /\ Apply) /\ WF_vars(part = "delivery" /\ Operation)
    /\ WF_vars(part = "delivery" /\ RetryOnce) /\ WF_vars(part = "delivery" /\ Bind)

ReconcilerFair ==
    /\ WF_reconciler(part = "reconciler" /\ C!Transaction)
    /\ WF_reconciler(part = "reconciler" /\ C!GateOpens)
    /\ SF_reconciler(part = "reconciler" /\ C!RetryOnce)
    /\ SF_reconciler(part = "reconciler" /\ C!ObserveOnce)

AgentFair ==
    /\ WF_agent(part = "agent" /\ A!StreamLoop) /\ WF_agent(part = "agent" /\ A!TickLoop)
    /\ WF_agent(part = "agent" /\ A!RotateKey) /\ WF_agent(part = "agent" /\ A!Process)
    /\ WF_agent(part = "agent" /\ A!Send)
    /\ SF_agent(part = "agent" /\ \E o \in A!Outcomes : A!CheckRetry(o))

MCFairSpec ==
    /\ MCInit /\ [][MCNext]_<<part, vars, reconciler, agent>>
    /\ DeliveryFair /\ ReconcilerFair /\ AgentFair

-----------------------------------------------------------------------------
(* Where each part comes to rest: the kernel has what the database says    *)
(* (Reconciler), everyone is served what is saved (Delivery), the state    *)
(* the server has for the agent is in force (Agent).                       *)
AtRest ==
    /\ part = "reconciler" => C!Converged
    /\ part = "delivery" => Settled \/ unread
    /\ part = "agent" => A!Settled

(* A saved declaration gets all the way: once the changes, failures and    *)
(* crashes stop, the Reconciler's retries and checks bring the kernel to   *)
(* it, the delivery serves it to every agent, and an agent that is served  *)
(* it puts it in force, for good.  The exceptions are those of the         *)
(* modules: a change that could not be read back (Delivery), and a server  *)
(* that never stops changing its state (Agent).                            *)
DeclarationArrives ==
    []<><<part = "agent" /\ srv' # srv>>_agent \/ <>[]AtRest
=============================================================================
