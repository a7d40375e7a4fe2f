----------------------------- MODULE UserRelay -----------------------------
(***************************************************************************)
(* The relay of the userspace data plane                                   *)
(* (internal/dataplane/userspace/relay, with the order its backend gives   *)
(* the steps of a transaction in internal/dataplane/userspace/userspace.go *)
(* and the part of the admission engine it asks, internal/policy/goengine) *)
(* for one public port.  The protocol of the port is chosen once.          *)
(*                                                                         *)
(* A flow is a UDP session or a TCP connection on its way through the read *)
(* loop or the accept loop, its goroutine, and back to the free ones.  A   *)
(* transaction publishes the admission policy, then changes the listeners  *)
(* under Manager.mu, then closes the sessions the new policy refuses; the  *)
(* loops run between these steps.  A critical section of Manager.mu is one *)
(* step: the sections of a server's own mutex inside it either come before *)
(* the whole or after it, and only Manager.mu shows the rule and target.   *)
(***************************************************************************)
EXTENDS Naturals, FiniteSets, FiniteSetsExt

CONSTANTS
    Flows,      \* flows that can exist at a time
    Listeners,  \* listener objects of the port
    Rules,      \* rule IDs the port can belong to
    Targets,    \* effective targets
    Sources,    \* client addresses
    Plans,      \* declarations of the port: its rule, target, sources allowed
    MaxTx,      \* bound on the transactions
    Cap,        \* concurrent flows of one source (PerSourceFlowCaps)
    PoolCap,    \* flows of the whole process (resource.Pool)
    Slots,      \* reply buffers of the whole process (replySlots)
    None

VARIABLES
    proto,      \* "udp" or "tcp"
    policy,     \* Engine.rules: what the evaluator knows of each rule
    charges,    \* Engine.flows: concurrent flows per source
    leases,     \* flows charged to the Pool
    replies,    \* reply buffers in use
    active,     \* Manager.listeners[k]
    retiring,   \* Manager.retiring[k]
    closed,     \* Manager.closed
    lst,        \* the listener objects
    flow,       \* the flows
    tx,         \* the transaction of the Reconciler, one at a time
    kept        \* the sources the retiring rule keeps since the last commit

vars == <<proto, policy, charges, leases, replies, active, retiring, closed,
          lst, flow, tx, kept>>

RelayVars == <<active, retiring, closed, lst>>

Unknown == [known |-> FALSE, retired |-> FALSE, allow |-> {}]

NoPending == [src |-> None, active |-> FALSE, cut |-> FALSE]

\* A listener: accepting is the UDP mark, done the closed channel, shut what
\* tcpServer calls closed, budget whether the Pool's handle accepts.
NoListener == [rule |-> None, target |-> None, accepting |-> FALSE,
               done |-> FALSE, shut |-> FALSE, budget |-> FALSE,
               pending |-> NoPending]

\* listed: in udpServer.sessions, tcpServer.conns or tcpServer.delivering.
\* broken: its connections were closed or cut by someone else.
\* crossed: a transaction ended since the rule was read.
NoFlow == [pc |-> "free", l |-> None, src |-> None, rule |-> None,
           target |-> None, listed |-> FALSE, broken |-> FALSE,
           cut |-> FALSE, crossed |-> FALSE]

NoTx == [step |-> "idle", plan |-> None, keep |-> [r \in Rules |-> None],
         revive |-> FALSE, open |-> FALSE, count |-> 0]

Looping == {"rule", "admit", "take", "register", "target", "dial"}
Serving == {"serve", "slot", "reply"}
Carrying == Serving \cup {"pipe"}
Charged == {"take", "register", "target", "dial", "connect", "dialing", "pipe",
            "deliver", "release"} \cup Serving
Leased == Charged \ {"take"}

Keeps == {None} \cup SUBSET Sources

TypeOK ==
    /\ proto \in {"udp", "tcp"}
    /\ \A r \in Rules : policy[r].allow \subseteq Sources
    /\ charges \in [Sources -> Nat] /\ leases \in Nat /\ replies \in 0..Slots
    /\ {active, retiring} \subseteq Listeners \cup {None}
    /\ closed \in BOOLEAN
    /\ tx.step \in {"idle", "prepared", "commit", "sweep"}

Init ==
    /\ proto \in {"udp", "tcp"}
    /\ policy = [r \in Rules |-> Unknown]
    /\ charges = [s \in Sources |-> 0] /\ leases = 0 /\ replies = 0
    /\ active = None /\ retiring = None /\ closed = FALSE
    /\ lst = [l \in Listeners |-> NoListener]
    /\ flow = [f \in Flows |-> NoFlow]
    /\ tx = NoTx /\ kept = None

-----------------------------------------------------------------------------
(* What a sweep, a closed server and the end of a flow do.                 *)

Of(S, l) == {f \in Flows : S[f].l = l}

\* sweep: every listed flow of l whose source is not kept is cut and leaves
\* the table.
Swept(S, l, keep) ==
    [f \in Flows |->
        IF S[f].l = l /\ S[f].listed /\ S[f].src \notin keep
        THEN [S[f] EXCEPT !.listed = FALSE, !.broken = TRUE, !.cut = TRUE]
        ELSE S[f]]

\* The source the UDP loop is still deciding about is judged as well.
SweptPending(x, keep) ==
    IF x.pending.active /\ x.pending.src \notin keep
    THEN [x EXCEPT !.pending.cut = TRUE] ELSE x

\* close: a UDP server empties its table; a TCP server cuts the connections,
\* which their goroutines delist, and drops the pairs it is delivering.
Cut(S, l) ==
    [f \in Flows |->
        IF S[f].l = l /\ S[f].listed
        THEN [S[f] EXCEPT !.broken = TRUE,
                          !.listed = proto = "tcp" /\ S[f].pc # "deliver"]
        ELSE S[f]]

ShutListener(x) == [x EXCEPT !.done = TRUE, !.shut = TRUE, !.budget = FALSE,
                             !.pending = NoPending]

UnchargeLease(f) ==
    /\ UNCHANGED charges
    /\ leases' = IF flow[f].pc \in Leased THEN leases - 1 ELSE leases

\* Charge.Release: the per-source flow and the lease, whichever are held.
Uncharge(f) ==
    /\ charges' = IF flow[f].pc \in Charged
                  THEN [charges EXCEPT ![flow[f].src] = @ - 1] ELSE charges
    /\ leases' = IF flow[f].pc \in Leased THEN leases - 1 ELSE leases

KeepCharge == UNCHANGED <<charges, leases>>

Goto(f, pc) == flow' = [flow EXCEPT ![f].pc = pc]

\* The loop drops what it has and returns to the socket.
Drop(f) == flow' = [flow EXCEPT ![f] = NoFlow] /\ Uncharge(f)

-----------------------------------------------------------------------------
(* The read loop of a UDP listener and the accept loop of a TCP one.       *)

LoopFree(l) == \A f \in Of(flow, l) : flow[f].pc \notin Looping

\* A datagram of a source without a session, or a connection to accept.
\* A closed socket gives neither.
Receive(f, l, s) ==
    /\ flow[f].pc = "free" /\ l \in {active, retiring} /\ ~lst[l].done
    /\ LoopFree(l)
    /\ proto = "udp" => \A g \in Of(flow, l) : ~(flow[g].listed /\ flow[g].src = s)
    /\ flow' = [flow EXCEPT ![f] = [NoFlow EXCEPT !.pc = "rule", !.l = l, !.src = s]]
    /\ lst' = IF proto = "udp"
              THEN [lst EXCEPT ![l].pending = [src |-> s, active |-> TRUE, cut |-> FALSE]]
              ELSE lst
    /\ UNCHANGED <<proto, policy, charges, leases, replies, active, retiring,
                   closed, tx, kept>>

\* A UDP listener that does not accept drops it; otherwise ruleOf.
ReadRule(f) ==
    /\ flow[f].pc = "rule"
    /\ IF proto = "udp" /\ ~lst[flow[f].l].accepting
       THEN Drop(f)
       ELSE /\ flow' = [flow EXCEPT ![f].pc = "admit", ![f].rule = lst[flow[f].l].rule]
            /\ KeepCharge
    /\ UNCHANGED <<proto, policy, replies, tx, kept>> /\ UNCHANGED RelayVars

\* Engine.AdmitFlow: the rule is known, its lists admit the source and the
\* source is below its cap.
Admits(r, s) == policy[r].known /\ s \in policy[r].allow /\ charges[s] < Cap

Admit(f) ==
    /\ flow[f].pc = "admit"
    /\ IF Admits(flow[f].rule, flow[f].src)
       THEN /\ flow' = [flow EXCEPT ![f].pc = "take", ![f].rule = None,
                                    ![f].crossed = FALSE]
            /\ charges' = [charges EXCEPT ![flow[f].src] = @ + 1]
            /\ UNCHANGED leases
       ELSE Drop(f)
    /\ UNCHANGED <<proto, policy, replies, tx, kept>> /\ UNCHANGED RelayVars

\* The UDP mark once more, then the Pool: the handle accepts and has room.
Take(f) ==
    /\ flow[f].pc = "take"
    /\ LET l == lst[flow[f].l]
       IN IF (proto = "udp" => l.accepting) /\ l.budget /\ leases < PoolCap
          THEN /\ Goto(f, IF proto = "udp" THEN "target" ELSE "register")
               /\ leases' = leases + 1 /\ UNCHANGED charges
          ELSE Drop(f)
    /\ UNCHANGED <<proto, policy, replies, tx, kept>> /\ UNCHANGED RelayVars

\* targetOf.
ReadTarget(f) ==
    /\ flow[f].pc \in {"target", "connect"}
    /\ flow' = [flow EXCEPT ![f].pc = IF @ = "target" THEN "dial" ELSE "dialing",
                            ![f].target = lst[flow[f].l].target]
    /\ KeepCharge
    /\ UNCHANGED <<proto, policy, replies, tx, kept>> /\ UNCHANGED RelayVars

UDPDialFails(f) ==
    /\ flow[f].pc = "dial"
    /\ Drop(f)
    /\ UNCHANGED <<proto, policy, replies, tx, kept>> /\ UNCHANGED RelayVars

Stopped(l) == ~lst[l].accepting \/ lst[l].done \/ lst[l].pending.cut

\* The dial is over: under the server's mutex the session enters the table,
\* unless the listener stopped or a sweep refused its source meanwhile.
RegisterUDP(f) ==
    /\ flow[f].pc = "dial"
    /\ LET l == flow[f].l
       IN /\ lst' = [lst EXCEPT ![l].pending = NoPending]
          /\ IF Stopped(l)
             THEN Drop(f)
             ELSE /\ flow' = [flow EXCEPT ![f].pc = "serve", ![f].listed = TRUE]
                  /\ KeepCharge
    /\ UNCHANGED <<proto, policy, replies, active, retiring, closed, tx, kept>>

\* The connection enters the table before its target is read, unless the
\* listener stopped meanwhile.
RegisterTCP(f) ==
    /\ flow[f].pc = "register"
    /\ IF lst[flow[f].l].done
       THEN Drop(f)
       ELSE /\ flow' = [flow EXCEPT ![f].pc = "connect", ![f].listed = TRUE]
            /\ KeepCharge
    /\ UNCHANGED <<proto, policy, replies, tx, kept>> /\ UNCHANGED RelayVars

-----------------------------------------------------------------------------
(* The goroutine of a UDP session.                                         *)

\* A datagram the loop writes fails, or the session was idle for too long.
CloseSession(f) ==
    /\ flow[f].pc \in Serving /\ flow[f].listed
    /\ flow' = [flow EXCEPT ![f].listed = FALSE, ![f].broken = TRUE]
    /\ KeepCharge
    /\ UNCHANGED <<proto, policy, replies, tx, kept>> /\ UNCHANGED RelayVars

\* closeSession of the goroutine itself takes out its own session only.
EndedSessionByKey(f) ==
    [g \in Flows |->
        IF g = f THEN [flow[f] EXCEPT !.pc = "release", !.listed = FALSE,
                                      !.broken = TRUE]
        ELSE IF flow[g].l = flow[f].l /\ flow[g].src = flow[f].src
             THEN [flow[g] EXCEPT !.listed = FALSE] ELSE flow[g]]

EndedSession(f) ==
    [flow EXCEPT ![f].pc = "release", ![f].listed = FALSE, ![f].broken = TRUE]

\* WaitReadable returns: a reply is there, or an error.
WaitReadable(f) ==
    /\ flow[f].pc = "serve"
    /\ \/ ~flow[f].broken /\ Goto(f, "slot")
       \/ flow' = EndedSession(f)
    /\ KeepCharge
    /\ UNCHANGED <<proto, policy, replies, tx, kept>> /\ UNCHANGED RelayVars

\* replyPool.acquire: a buffer, or the session's end.
AcquireSlot(f) ==
    /\ flow[f].pc = "slot" /\ replies < Slots
    /\ Goto(f, "reply") /\ replies' = replies + 1
    /\ KeepCharge
    /\ UNCHANGED <<proto, policy, tx, kept>> /\ UNCHANGED RelayVars

CancelSlotNever(f) ==
    /\ flow[f].pc = "slot" /\ flow[f].broken /\ replies < Slots
    /\ flow' = EndedSession(f)
    /\ KeepCharge
    /\ UNCHANGED <<proto, policy, replies, tx, kept>> /\ UNCHANGED RelayVars

\* The wait for a buffer ends with the session, whether or not one came free.
CancelSlot(f) ==
    /\ flow[f].pc = "slot" /\ flow[f].broken
    /\ flow' = EndedSession(f)
    /\ KeepCharge
    /\ UNCHANGED <<proto, policy, replies, tx, kept>> /\ UNCHANGED RelayVars

\* forwardReply with a buffer: the reply is sent, or the session ends.
ForwardReply(f) ==
    /\ flow[f].pc = "reply"
    /\ \/ ~flow[f].broken /\ Goto(f, "serve")
       \/ flow' = EndedSession(f)
    /\ replies' = replies - 1
    /\ KeepCharge
    /\ UNCHANGED <<proto, policy, tx, kept>> /\ UNCHANGED RelayVars

-----------------------------------------------------------------------------
(* The goroutine of a TCP connection.                                      *)

\* deliver: out of conns; a pair nobody cut waits for its last bytes.
Deliver(f) ==
    IF lst[flow[f].l].shut \/ flow[f].cut
    THEN [flow EXCEPT ![f].pc = "release", ![f].listed = FALSE]
    ELSE [flow EXCEPT ![f].pc = "deliver", ![f].listed = TRUE]

\* The dial of the target: it fails, or the pair is formed unless the
\* connection was cut meanwhile.
DialTarget(f) ==
    /\ flow[f].pc = "dialing"
    /\ \/ flow' = Deliver(f)
       \/ Goto(f, IF lst[flow[f].l].shut \/ flow[f].cut THEN "release" ELSE "pipe")
    /\ KeepCharge
    /\ UNCHANGED <<proto, policy, replies, tx, kept>> /\ UNCHANGED RelayVars

\* PipeHold returns: both directions ended, or a cut.
PipeEnds(f) ==
    /\ flow[f].pc = "pipe"
    /\ flow' = Deliver(f)
    /\ KeepCharge
    /\ UNCHANGED <<proto, policy, replies, tx, kept>> /\ UNCHANGED RelayVars

\* AwaitDelivered returns.
Delivered(f) ==
    /\ flow[f].pc = "deliver"
    /\ flow' = [flow EXCEPT ![f].pc = "release", ![f].listed = FALSE]
    /\ KeepCharge
    /\ UNCHANGED <<proto, policy, replies, tx, kept>> /\ UNCHANGED RelayVars

\* The deferred end of either goroutine: out of the table, Charge.Release.
Finish(f) ==
    /\ flow[f].pc = "release"
    /\ Drop(f)
    /\ UNCHANGED <<proto, policy, replies, tx, kept>> /\ UNCHANGED RelayVars

-----------------------------------------------------------------------------
(* A transaction of the backend.                                           *)

PublishedRules(plan) == IF plan = None THEN {} ELSE {plan.rule}

\* Prepare: a port that is not open is bound, or revived when it is a
\* retiring UDP listener.  A bind that fails leaves the rule out, which is
\* the transaction without a plan.
Prepare(plan) ==
    /\ tx.step = "idle" /\ ~closed /\ tx.count < MaxTx
    /\ LET revive == plan # None /\ active = None /\ retiring # None /\ proto = "udp"
       IN tx' = [NoTx EXCEPT !.step = "prepared", !.plan = plan,
                             !.count = tx.count + 1,
                             !.revive = revive,
                             !.open = plan # None /\ active = None /\ ~revive]
    /\ UNCHANGED <<proto, policy, charges, leases, replies, flow, kept>>
    /\ UNCHANGED RelayVars

\* Rollback closes the sockets Prepare bound.
Rollback ==
    /\ tx.step = "prepared"
    /\ tx' = [NoTx EXCEPT !.count = tx.count]
    /\ UNCHANGED <<proto, policy, charges, leases, replies, flow, kept>>
    /\ UNCHANGED RelayVars

UpdatedForgetting(plan, r) ==
    IF r \in PublishedRules(plan)
    THEN [known |-> TRUE, retired |-> FALSE, allow |-> plan.allow]
    ELSE Unknown

\* Engine.Update: a rule that left the declaration is judged by its old
\* policy until the next Update.
Updated(plan, r) ==
    IF r \in PublishedRules(plan)
    THEN [known |-> TRUE, retired |-> FALSE, allow |-> plan.allow]
    ELSE IF policy[r].known /\ ~policy[r].retired
         THEN [policy[r] EXCEPT !.retired = TRUE]
         ELSE Unknown

\* The first step of prepared.Commit.  keep is its argument: the rules that
\* are not published but keep their flows, with the sources they keep.
UpdatePolicy(keep) ==
    /\ tx.step = "prepared"
    /\ \A r \in PublishedRules(tx.plan) : keep[r] = None
    /\ \A r \in Rules : keep[r] # None =>
           \E l \in {active, retiring} \ {None} : lst[l].rule = r
    /\ policy' = [r \in Rules |-> Updated(tx.plan, r)]
    /\ tx' = [tx EXCEPT !.step = "commit", !.keep = keep]
    /\ UNCHANGED <<proto, charges, leases, replies, flow, kept>>
    /\ UNCHANGED RelayVars

\* The relay as Staged.Commit changes it, one part at a time.
Relay == [lst |-> lst, flow |-> flow, active |-> active, retiring |-> retiring]

\* shutdownLocked; a closed listener no flow refers to is garbage.
Shutdown(S, l) ==
    IF l = None THEN S
    ELSE [S EXCEPT !.lst[l] = IF Of(S.flow, l) = {} THEN NoListener ELSE ShutListener(@),
                   !.flow = Cut(@, l)]

Sweep(S, l, keep) ==
    [S EXCEPT !.lst[l] = SweptPending(@, keep), !.flow = Swept(@, l, keep)]

Revive(S) ==
    IF ~tx.revive THEN S
    ELSE [S EXCEPT !.active = S.retiring, !.retiring = None,
                   !.lst[S.retiring].rule = tx.plan.rule,
                   !.lst[S.retiring].accepting = TRUE,
                   !.lst[S.retiring].budget = TRUE]

RetireCutting(S, l, keep) ==
    LET old == Shutdown(S, S.retiring)
        off == [old EXCEPT !.lst[l].accepting = FALSE, !.lst[l].budget = FALSE,
                           !.lst[l].done = (proto = "tcp")]
    IN [Sweep(off, l, {}) EXCEPT !.active = None, !.retiring = l]

\* retireLocked: an older retiring listener of the port is closed.
Retire(S, l, keep) ==
    LET old == Shutdown(S, S.retiring)
        off == [old EXCEPT !.lst[l].accepting = FALSE, !.lst[l].budget = FALSE,
                           !.lst[l].done = (proto = "tcp")]
    IN [Sweep(off, l, keep) EXCEPT !.active = None, !.retiring = l]

RetargetQuietly(S, l, plan) ==
    [S EXCEPT !.lst[l].target = plan.target, !.lst[l].rule = plan.rule]

Retarget(S, l, plan) ==
    Sweep([S EXCEPT !.lst[l].target = plan.target, !.lst[l].rule = plan.rule], l, {})

\* The listener the port had: retired or closed when the plan leaves it out,
\* retargeted or relabelled when the plan changes it.
Converge(S) ==
    LET l == S.active
    IN IF l = None THEN S
       ELSE IF tx.plan = None
            THEN IF tx.keep[S.lst[l].rule] # None
                 THEN Retire(S, l, tx.keep[S.lst[l].rule])
                 ELSE [Shutdown(S, l) EXCEPT !.active = None]
            ELSE IF tx.plan.target # S.lst[l].target
                 THEN Retarget(S, l, tx.plan)
                 ELSE [S EXCEPT !.lst[l].rule = tx.plan.rule]

\* The staged socket starts to serve, its budget accepting first.
Open(S, l) ==
    [S EXCEPT !.active = l,
              !.lst[l] = [NoListener EXCEPT !.rule = tx.plan.rule,
                                            !.target = tx.plan.target,
                                            !.accepting = (proto = "udp"),
                                            !.budget = TRUE]]

\* A retiring listener stays while its rule is retiring and flows are left.
Prune(S) ==
    LET l == S.retiring
    IN IF l = None THEN S
       ELSE LET keep == tx.keep[S.lst[l].rule]
                swept == IF keep = None THEN S ELSE Sweep(S, l, keep)
            IN IF keep # None /\ \E f \in Of(swept.flow, l) : swept.flow[f].listed
               THEN swept
               ELSE [Shutdown(swept, l) EXCEPT !.retiring = None]

Unused(l) == l \notin {active, retiring} /\ Of(flow, l) = {}

\* Staged.Commit, under Manager.mu.  A closed relay opens nothing.
Commit ==
    /\ tx.step = "commit"
    /\ tx' = [tx EXCEPT !.step = "sweep"]
    /\ \E S \in IF closed THEN {Relay}
                ELSE IF tx.open
                     THEN {Prune(Open(Converge(Revive(Relay)), l)) :
                              l \in {x \in Listeners : Unused(x)}}
                     ELSE {Prune(Converge(Revive(Relay)))} :
          /\ lst' = S.lst /\ flow' = S.flow
          /\ active' = S.active /\ retiring' = S.retiring
    /\ UNCHANGED <<proto, policy, charges, leases, replies, closed, kept>>

KeptSourcesOfRetiring(r) == IF tx.keep[r] # None THEN tx.keep[r] ELSE Sources

\* What Commit hands to CloseSessions: the Retiring value of a retiring rule,
\* otherwise Engine.SourceAllowed.
KeptSources(r) == IF tx.keep[r] # None THEN tx.keep[r] ELSE policy[r].allow

\* CloseSessions: the active listener's sessions the new policy refuses.
CloseSessions ==
    /\ tx.step = "sweep"
    /\ LET S == IF active = None THEN Relay
                ELSE Sweep(Relay, active, KeptSources(lst[active].rule))
       IN /\ lst' = S.lst
          /\ flow' = [f \in Flows |-> [S.flow[f] EXCEPT !.crossed =
                                          @ \/ S.flow[f].pc = "admit"]]
    /\ tx' = [NoTx EXCEPT !.count = tx.count]
    /\ kept' = IF retiring = None THEN None ELSE tx.keep[lst[retiring].rule]
    /\ UNCHANGED <<proto, policy, charges, leases, replies, active, retiring, closed>>

\* Manager.Close.
Close ==
    /\ ~closed
    /\ closed' = TRUE
    /\ LET S == Shutdown(Shutdown(Relay, active), retiring)
       IN lst' = S.lst /\ flow' = S.flow
    /\ active' = None /\ retiring' = None
    /\ UNCHANGED <<proto, policy, charges, leases, replies, tx, kept>>

-----------------------------------------------------------------------------

Transaction ==
    \/ \E plan \in Plans \cup {None} : Prepare(plan)
    \/ \E keep \in [Rules -> Keeps] : UpdatePolicy(keep)
    \/ Rollback \/ Commit \/ CloseSessions \/ Close

FlowStep(f) ==
    \/ \E l \in Listeners, s \in Sources : Receive(f, l, s)
    \/ ReadRule(f) \/ Admit(f) \/ Take(f) \/ ReadTarget(f)
    \/ UDPDialFails(f) \/ RegisterUDP(f) \/ RegisterTCP(f)
    \/ CloseSession(f) \/ WaitReadable(f) \/ AcquireSlot(f) \/ CancelSlot(f)
    \/ ForwardReply(f) \/ DialTarget(f) \/ PipeEnds(f) \/ Delivered(f)
    \/ Finish(f)

Next == Transaction \/ \E f \in Flows : FlowStep(f)

Spec == Init /\ [][Next]_vars

-----------------------------------------------------------------------------
(* Properties.                                                             *)

\* A flow that is carried goes to the target its listener declares now: a
\* retarget reaches the flows in the table, the UDP session still being
\* dialled and the TCP connection whose dial has not returned.
RelaysToDeclaredTarget ==
    \A f \in Flows :
        flow[f].pc \in Carrying /\ flow[f].listed /\ flow[f].l \in {active, retiring}
            => flow[f].target = lst[flow[f].l].target

\* A flow somebody carries and nobody cut is in the table of a listener the
\* manager knows, so that every later sweep and Close reaches it.
EveryFlowIsKnown ==
    \A f \in Flows :
        flow[f].pc \in Carrying \cup {"dialing", "connect", "deliver"} /\ ~flow[f].broken
            => flow[f].listed /\ flow[f].l \in {active, retiring}

Refused(f) ==
    /\ flow[f].listed /\ flow[f].l # None /\ ~flow[f].broken
    /\ \/ flow[f].l = active
          /\ flow[f].src \notin policy[lst[active].rule].allow
       \/ flow[f].l = retiring
          /\ flow[f].src \notin kept

\* After a transaction no UDP session of a source is left that the published
\* policy, or the Retiring value of its rule, refuses: the session being
\* dialled while the policy changed included.
RefusedSourcesAreCut ==
    tx.step = "idle" /\ proto = "udp" => \A f \in Flows : ~Refused(f)

\* The same of the TCP connections, as the comment of prepared.Commit says.
RefusedConnectionsAreCut ==
    tx.step = "idle" /\ proto = "tcp" => \A f \in Flows : ~Refused(f)

\* Every flow charged to its source and to the Pool is on its way, and
\* exactly those are: whatever path a flow leaves by, its charge is returned
\* once.
ChargesHold ==
    /\ \A s \in Sources :
         charges[s] = Cardinality({f \in Flows : flow[f].src = s /\ flow[f].pc \in Charged})
    /\ leases = Cardinality({f \in Flows : flow[f].pc \in Leased})
    /\ replies = Cardinality({f \in Flows : flow[f].pc = "reply"})

\* A new flow of an open port whose loop read the rule ID during the
\* transaction that renames the port is judged by that rule's policy, not
\* refused as unknown.
OldRuleStillJudged ==
    \A f \in Flows :
        flow[f].pc = "admit" /\ ~flow[f].crossed /\ flow[f].l = active
            => policy[flow[f].rule].known

\* A commit that keeps the port and its target, or retires its rule with the
\* source kept, does not cut an established flow.
KeepingStep ==
    tx.step = "commit" /\ tx'.step = "sweep" /\ ~closed =>
        \A f \in Flows :
            LET l == flow[f].l
            IN  /\ flow[f].listed /\ ~flow[f].broken
                /\ \/ l = active /\ tx.plan # None /\ tx.plan.target = lst[l].target
                   \/ l = retiring /\ tx.revive /\ tx.plan.target = lst[l].target
                   \/ l \in {active, retiring} /\ tx.plan = None
                      /\ (l = retiring => active = None)
                      /\ tx.keep[lst[l].rule] # None
                      /\ flow[f].src \in tx.keep[lst[l].rule]
                => flow'[f].listed /\ ~flow'[f].broken

KeptFlowsSurvive == [][KeepingStep]_vars

-----------------------------------------------------------------------------
(* Fairness: a goroutine that can take a step takes it.  The sending of a  *)
(* reply is left out: a tunnel that stands still can hold it.              *)

Fairness ==
    \A f \in Flows : /\ WF_vars(AcquireSlot(f) \/ CancelSlot(f))
                     /\ WF_vars(flow[f].broken /\ WaitReadable(f))
                     /\ WF_vars(Finish(f))

FairSpec == Spec /\ Fairness

\* A session that was closed while it waits for a reply or for a buffer gives
\* its charge back, also when other sessions keep every buffer.
ClosedSessionsEnd ==
    \A f \in Flows :
        [](flow[f].pc \in {"serve", "slot"} /\ flow[f].broken
             => <>(flow[f].pc \in {"free", "reply"}))
=============================================================================
