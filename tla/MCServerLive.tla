---------------------------- MODULE MCServerLive ----------------------------
(***************************************************************************)
(* What the server brings to an end, checked in one run: the hub of the    *)
(* control streams, the enrolment of an agent and the relay for PROXY.     *)
(* "part" says which of them a behaviour is of; the others stay in one     *)
(* initial state.  Each fairness condition is the one of the part's        *)
(* module, asked of the behaviours of that part.                           *)
(***************************************************************************)
EXTENDS Hub

CONSTANTS
    None, a1, a2,
    Hosts, NAddrs, MaxTokens, MaxCerts, MaxFaults,           \* Enrolment
    Ports, Listeners, Conns, Limit, MaxGen, s1, s2, r1       \* ProxyRelay

VARIABLES
    part,
    cert, joins, nameOf, certOf, agents, issued, host, file, answer, faults, revoked,
    ls, retiring, mgr, relayClosed, lst, conn, inUse, hold, cutOff, exempt

Agents == {a1, a2}

Forwards(i, g, S) == [id |-> i, agent |-> g, allow |-> S]

MCRules == {Forwards(r1, a1, {s1, s2}), Forwards(r1, a2, {s1})}

E == INSTANCE Enrolment WITH Names <- Agents, Absent <- None
R == INSTANCE ProxyRelay WITH
        Ids <- {r1}, Sources <- {s1, s2}, Rules <- MCRules, Keeps <- {{s1}},
        closed <- relayClosed, revoked <- cutOff

enrolment == <<cert, joins, nameOf, certOf, agents, issued, host, file, answer, faults,
               revoked>>
relay == <<ls, retiring, mgr, relayClosed, lst, conn, inUse, hold, cutOff, exempt>>

MCInit ==
    /\ part \in {"hub", "enrolment", "relay"}
    /\ HubInit /\ E!EnrolInit /\ R!Init
    /\ part = "relay" \/ hold

MCNext ==
    \/ part = "hub" /\ HubNext /\ UNCHANGED <<part, enrolment, relay>>
    \/ part = "enrolment" /\ E!EnrolNext /\ UNCHANGED <<part, hubAll, relay>>
    \/ part = "relay" /\ R!Next /\ UNCHANGED <<part, hubAll, enrolment>>

HubStep(A) == part = "hub" /\ A

HubFair ==
    /\ SF_hubAll(HubStep(RetireIfDifferent)) /\ SF_hubAll(HubStep(Disconnect))
    /\ WF_hubAll(HubStep(RevokeEntry \/ Push))
    /\ \A c \in Streams :
          /\ WF_hubAll(HubStep(FirstMessage(c))) /\ WF_hubAll(HubStep(KeyPublished(c)))
          /\ WF_hubAll(HubStep(Install(c))) /\ WF_hubAll(HubStep(ReturnSlot(c)))
          /\ WF_hubAll(HubStep(FirstSelect(c))) /\ WF_hubAll(HubStep(FirstWrite(c)))
          /\ WF_hubAll(HubStep(DropUnsent(c))) /\ WF_hubAll(HubStep(End(c)))
          /\ WF_hubAll(HubStep(WorkerTake(c) \/ WorkerSelect(c) \/ WorkerWrite(c)
                            \/ WorkerStops(c)))
          /\ WF_hubAll(HubStep(HeartbeatDone(c)))
          /\ SF_hubAll(HubStep(Waiting(c)))
          /\ WF_hubAll(HubStep(closed[c] /\ ReadFails(c)))

EnrolmentFair == \A h \in Hosts : WF_enrolment(part = "enrolment" /\ E!HostStep(h))

RelayStep(A) == part = "relay" /\ A

RelayFair ==
    /\ WF_relay(RelayStep(R!CommitFinish)) /\ WF_relay(RelayStep(R!CloseFinish))
    /\ \A c \in Conns : WF_relay(RelayStep(R!Step(c))) /\ WF_relay(RelayStep(R!Ends(c)))
    /\ \A l \in Listeners : WF_relay(RelayStep(R!ServeEnds(l)))

MCFairSpec ==
    /\ MCInit /\ [][MCNext]_<<part, hubAll, enrolment, relay>>
    /\ HubFair /\ EnrolmentFair /\ RelayFair

-----------------------------------------------------------------------------
(***************************************************************************)
(* The properties of the instances, each of the part it is about: see the  *)
(* modules.                                                                *)
(***************************************************************************)

(* Hub: a stream that declared its key is admitted or ended, every pending
   slot comes back, and a stream that stays ends up with the newest State. *)
HubGoesOn ==
    DeclaredIsDecided /\ SlotsComeBack /\ (part = "hub" => NewestReachesStream)

(* Enrolment: an agent with a good join string comes to a stream. *)
GoodJoinStringWorks == part = "enrolment" => E!GoodJoinStringWorks

(* Relay: Commit, CloseAgent and Close return, and a connection that was cut
   ends. *)
RelayCloses == R!ManagerReturns /\ R!CutIsOver
=============================================================================
