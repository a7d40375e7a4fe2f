----------------------------- MODULE ProxyRelay -----------------------------
(***************************************************************************)
(* The server's TCP relay, src/internal/vpsd/proxyrelay: the Manager that  *)
(* converges the listeners of the public ports to the declaration, the     *)
(* accept loop of each listener, and one worker per admitted connection.   *)
(*                                                                         *)
(* The Manager's operations hold m.mu and wait for the accept loops they   *)
(* stop; a listener's own lock makes each of its operations one step.  The *)
(* flow budget (module Pool) is the counter inUse, the policy evaluator    *)
(* and the agent at the other end are the environment.  hold is            *)
(* HoldUntilDelivered: userspace mode when TRUE, kernel mode when FALSE.   *)
(***************************************************************************)
EXTENDS Integers, FiniteSets

CONSTANTS Ports, Listeners, Conns, Ids, Agents, Sources,
          Rules,       \* the rules that may be declared
          Keeps,       \* the sources a retiring rule may keep
          Limit,       \* the flow budget
          MaxGen,      \* retargets of one listener
          None

ASSUME RelayAssumption ==
  /\ Rules \subseteq [id : Ids, agent : Agents, allow : SUBSET Sources]
  /\ Keeps \subseteq SUBSET Sources
  /\ Limit \in Nat /\ MaxGen \in Nat
  /\ IsFiniteSet(Conns) /\ None \notin Listeners \cup Conns

VARIABLES ls,         \* Manager.ls
          retiring,   \* Manager.retiring
          mgr,        \* the operation that holds m.mu
          closed,     \* Manager.closed
          lst,        \* the listeners
          conn,       \* the public connections and their workers
          inUse,      \* flows charged to the budget
          hold,       \* HoldUntilDelivered
          revoked,    \* agents closed and not declared since
          exempt      \* connections not yet recorded at the last change

vars == <<ls, retiring, mgr, closed, lst, conn, inUse, hold, revoked,
          exempt>>
manager == <<ls, retiring, mgr, closed, revoked>>

NoListener ==
  [rule |-> None, permit |-> {}, stopping |-> FALSE, closed |-> FALSE, gen |-> 0,
   pending |-> 0, admitting |-> None, conns |-> {}, delivering |-> {},
   serve |-> "none"]
NoConn ==
  [pc |-> "none", l |-> None, src |-> None, agent |-> None, gen |-> 0,
   down |-> "open", up |-> "none"]
Quiet == [op |-> "idle", stopped |-> {}, want |-> None,
          opened |-> {}, agent |-> None]

Init ==
  /\ ls = [p \in Ports |-> None]
  /\ retiring = {}
  /\ mgr = Quiet
  /\ closed = FALSE
  /\ lst = [l \in Listeners |-> NoListener]
  /\ conn = [c \in Conns |-> NoConn]
  /\ inUse = 0
  /\ hold \in BOOLEAN
  /\ revoked = {}
  /\ exempt = {}

Known == ({ls[p] : p \in Ports} \ {None}) \cup retiring
Workers(l) == {c \in Conns : conn[c].l = l}

----------------------------------------------------------------------------
(* What the Manager does to one listener, under the listener's lock.  Each *)
(* operator takes and returns <<lst, conn>>.                               *)

\* relayed.cut and delivering.cut: the agent's side is reset, the public side
\* closed.
Cut(k, C) ==
  [c \in Conns |->
     IF c \notin C THEN k[c]
     ELSE [k[c] EXCEPT !.down = "closed",
                       !.up = IF @ = "none" THEN @ ELSE "reset"]]

\* stopLocked: the connection under admission is aborted.
StopConns(l, k) ==
  IF lst[l].admitting = None \/ lst[l].stopping THEN k
  ELSE [k EXCEPT ![lst[l].admitting].down = "closed"]

StopAcceptingSocketOpen(m) == m
StopAccepting(m) == [m EXCEPT !.stopping = TRUE]

\* beginClose.  The rule of a closed listener is only logged any more.
CloseListener(m) ==
  [NoListener EXCEPT !.stopping = TRUE, !.closed = TRUE, !.serve = m.serve,
                     !.pending = m.pending, !.admitting = m.admitting]

Recorded(l) == lst[l].conns \cup lst[l].delivering
Refused(l, allow) == {c \in Recorded(l) : conn[c].src \notin allow}
Retire(m, gone, keep) ==
  [m EXCEPT !.conns = @ \ gone, !.delivering = @ \ gone, !.permit = keep]

\* idle.
IdleListener(m) ==
  /\ m.conns = {} /\ m.delivering = {}
  /\ m.pending = 0 /\ m.admitting = None

\* updateRestriction.  A cut connection stays in conns until its worker
\* takes it out.
Retargets(l, r) == r.agent # lst[l].rule.agent
CutByUpdateRelaysOnly(l, r) ==
  lst[l].conns \cap IF Retargets(l, r) THEN Conns ELSE Refused(l, r.allow)
CutByUpdate(l, r) ==
  IF Retargets(l, r) THEN Recorded(l) ELSE Refused(l, r.allow)

UpdateRestriction(l, r) ==
  [lst[l] EXCEPT !.rule = r, !.permit = r.allow,
                 !.gen = IF Retargets(l, r) THEN @ + 1 ELSE @,
                 !.delivering = @ \ CutByUpdate(l, r)]

\* Connections that are between accept and registration.
Unrecorded(l) == {c \in Workers(l) : c \notin Recorded(l)}

\* The garbage collector: a listener that nobody refers to is no more.
Collected(m, known, k) ==
  [l \in Listeners |->
     IF l \in known \/ \E c \in Conns : k[c].l = l THEN m[l] ELSE NoListener]

----------------------------------------------------------------------------
(* The Manager.                                                            *)

\* Prepare opens the ports that are missing, and Commit follows: the daemon's
\* lock is held over both.  A port that cannot be bound is not opened.  (The
\* last two conjuncts are bounds.)
Prepared(want, opened) ==
  /\ opened \subseteq {p \in Ports : want[p] # None /\ ls[p] = None}
  /\ Cardinality(opened) <=
       Cardinality({l \in Listeners : lst[l].serve = "none"})
  /\ \A p \in Ports :
       ls[p] # None /\ want[p] # None /\ Retargets(ls[p], want[p]) =>
         lst[ls[p]].gen < MaxGen

\* Commit, up to the wait.  keep gives, for the rules that retire, the
\* sources whose connections stay.
CommitStop(want, opened, keep) ==
  LET Keep(l) == keep[lst[l].rule.id]
      left    == {ls[p] : p \in {q \in Ports : want[q] = None}} \ {None}
      stays(l) == IF Keep(l) = None THEN {} ELSE Keep(l)
      \* the retiring ones that are over
      over    == {l \in retiring :
                    \/ Keep(l) = None
                    \/ IdleListener(Retire(lst[l], Refused(l, Keep(l)), {}))}
      shut    == over \cup {l \in left : Keep(l) = None}
      stop    == {l \in left : Keep(l) # None}
      thin    == (retiring \ shut) \cup stop
      cut     == UNION ({Recorded(l) : l \in shut} \cup
                        {Refused(l, stays(l)) : l \in thin})
      Stopped(c) == LET l == conn[c].l
                    IN  IF l \in shut \cup stop
                        THEN StopConns(l, Cut(conn, cut))[c]
                        ELSE Cut(conn, cut)[c]
  IN  /\ mgr.op = "idle" /\ ~closed
      /\ lst' = [l \in Listeners |->
                   LET kept == Retire(lst[l], Refused(l, stays(l)), stays(l))
                   IN  CASE l \in shut -> CloseListener(lst[l])
                         [] l \in stop -> StopAccepting(kept)
                         [] l \in thin \ stop -> kept
                         [] OTHER -> lst[l]]
      /\ conn' = [c \in Conns |-> Stopped(c)]
      /\ mgr' = [Quiet EXCEPT !.op = "commit", !.stopped = shut \cup stop,
                              !.want = want, !.opened = opened]
      /\ retiring' = (retiring \ over) \cup stop
      /\ exempt' = (exempt \ cut) \cup UNION {Unrecorded(l) : l \in thin}
      /\ UNCHANGED <<ls, closed, inUse, hold, revoked>>

Commit ==
  /\ mgr.op = "idle"
  /\ \E want \in [Ports -> Rules \cup {None}], opened \in SUBSET Ports :
       LET active == {want[p].id : p \in {q \in Ports : want[q] # None}}
           known  == {lst[l].rule.id : l \in Known}
       IN  /\ Prepared(want, opened)
           /\ \E keep \in [known \ active -> Keeps \cup {None}] :
                CommitStop(want, opened,
                           [i \in Ids |-> IF i \in DOMAIN keep THEN keep[i]
                                          ELSE None])

JoinedAtOnce == TRUE
Joined == \A l \in mgr.stopped : lst[l].serve = "done"

\* Commit, after the wait: the listeners that stay take their new rule, the
\* opened ones start to serve.
CommitFinish ==
  /\ mgr.op = "commit" /\ Joined
  /\ LET want  == mgr.want
         stay  == {p \in Ports : ls[p] # None /\ want[p] # None}
         fresh == {p \in mgr.opened : ls[p] = None}
         on(l) == CHOOSE p \in stay : ls[p] = l
         cut   == UNION {CutByUpdate(ls[p], want[p]) : p \in stay}
     IN  \E new \in [fresh -> {l \in Listeners : lst[l].serve = "none"}] :
           LET by(l) == CHOOSE p \in fresh : new[p] = l
           IN
           /\ \A p, q \in fresh : new[p] = new[q] => p = q
           /\ ls' = [p \in Ports |->
                       CASE p \in fresh -> new[p]
                         [] p \in stay -> ls[p]
                         [] OTHER -> None]
           /\ lst' = Collected(
                       [l \in Listeners |->
                          CASE \E p \in stay : ls[p] = l ->
                                 UpdateRestriction(l, want[on(l)])
                            [] \E p \in fresh : new[p] = l ->
                                 [NoListener EXCEPT
                                    !.rule = want[by(l)],
                                    !.permit = want[by(l)].allow,
                                    !.serve = "accept"]
                            [] OTHER -> lst[l]],
                       ({ls'[p] : p \in Ports} \ {None}) \cup retiring, conn)
           /\ conn' = Cut(conn, cut)
           /\ exempt' = (exempt \ cut) \cup
                          UNION {Unrecorded(ls[p]) : p \in stay}
           /\ revoked' = revoked \ {want[p].agent : p \in stay \cup fresh}
  /\ mgr' = Quiet
  /\ UNCHANGED <<retiring, closed, inUse, hold>>

\* beginClose of every listener in L.
CloseAll(L, op, agent) ==
  /\ lst' = [l \in Listeners |->
               IF l \in L THEN CloseListener(lst[l]) ELSE lst[l]]
  /\ conn' = [c \in Conns |->
                LET l == conn[c].l
                    k == Cut(conn, UNION {Recorded(m) : m \in L})
                IN  IF l \in L THEN StopConns(l, k)[c] ELSE k[c]]
  /\ mgr' = [Quiet EXCEPT !.op = op, !.stopped = L, !.agent = agent]
  /\ UNCHANGED <<ls, retiring, inUse, hold, exempt>>

CloseAgentOfPorts(a) ==
  /\ mgr.op = "idle"
  /\ CloseAll({l \in Known \ retiring : lst[l].rule.agent = a}, "closeAgent", a)
  /\ UNCHANGED <<closed, revoked>>
CloseAgent(a) ==
  /\ mgr.op = "idle"
  /\ CloseAll({l \in Known : lst[l].rule.agent = a}, "closeAgent", a)
  /\ UNCHANGED <<closed, revoked>>

Close ==
  /\ mgr.op = "idle" /\ ~closed
  /\ closed' = TRUE
  /\ CloseAll(Known, "close", None)
  /\ UNCHANGED revoked

CloseFinish ==
  /\ mgr.op \in {"closeAgent", "close"} /\ Joined
  /\ ls' = [p \in Ports |-> IF ls[p] \in mgr.stopped THEN None ELSE ls[p]]
  /\ retiring' = retiring \ mgr.stopped
  /\ revoked' = revoked \cup ({mgr.agent} \ {None})
  /\ lst' = Collected(lst, Known \ mgr.stopped, conn)
  /\ mgr' = Quiet
  /\ UNCHANGED <<closed, conn, inUse, hold, exempt>>

----------------------------------------------------------------------------
(* The accept loop (serve, admitAccepted, acquireAdmission).  What a       *)
(* goroutine does between two lock sections belongs to the second one.     *)

At(c, pc) == conn[c].pc = pc
Move(c, pc) == conn' = [conn EXCEPT ![c].pc = pc]
StaleWhenClosed(c) == lst[conn[c].l].closed
StaleWhenRetargeted(c) == lst[conn[c].l].gen # conn[c].gen
Stale(c) == lst[conn[c].l].closed \/ lst[conn[c].l].gen # conn[c].gen

\* Accept and admitAccepted up to the policy: the rule and the generation of
\* now.  Kernel mode judges the source by that rule, userspace mode asks the
\* evaluator.  A connection that is reset before it is counted, because its
\* buffer could not be fixed or the listener has stopped, leaves no trace.
Accept(c, l, s) ==
  /\ At(c, "none") /\ lst[l].serve = "accept" /\ ~lst[l].stopping
  /\ conn' = [conn EXCEPT ![c] =
                [NoConn EXCEPT !.l = l, !.src = s, !.gen = lst[l].gen,
                               !.agent = lst[l].rule.agent,
                               !.pc = CASE hold -> "policy"
                                        [] s \in lst[l].rule.allow -> "taking"
                                        [] OTHER -> "refused"]]
  /\ lst' = [lst EXCEPT ![l].admitting = c, ![l].serve = "admit"]
  /\ UNCHANGED <<manager, inUse, hold, exempt>>

AcceptFails(l) ==
  /\ lst[l].serve = "accept" /\ ~lst[l].stopping
  /\ lst' = [lst EXCEPT ![l].serve = "backoff"]
  /\ UNCHANGED <<manager, conn, inUse, hold, exempt>>

Retry(l) ==
  /\ lst[l].serve = "backoff" /\ ~lst[l].stopping
  /\ lst' = [lst EXCEPT ![l].serve = "accept"]
  /\ UNCHANGED <<manager, conn, inUse, hold, exempt>>

\* Accept on a closed socket, or stopAccept during the wait.
ServeEnds(l) ==
  /\ lst[l].serve \in {"accept", "backoff"} /\ lst[l].stopping
  /\ lst' = [lst EXCEPT ![l].serve = "done"]
  /\ UNCHANGED <<manager, conn, inUse, hold, exempt>>

\* The evaluator refuses, or lets the source in.  Its own copy of the rule
\* may be an older or a newer one.
Policy(c) ==
  /\ At(c, "policy")
  /\ \/ Move(c, "refused") /\ UNCHANGED exempt
     \/ /\ Move(c, "taking")
        /\ exempt' = IF conn[c].src \in lst[conn[c].l].permit
                     THEN exempt ELSE exempt \cup {c}
  /\ UNCHANGED <<manager, lst, inUse, hold>>

\* acquireAdmission.
Acquire(c) ==
  LET l == conn[c].l
  IN  /\ At(c, "taking")
      /\ IF lst[l].stopping \/ Stale(c) \/ inUse = Limit
         THEN Move(c, "refused") /\ UNCHANGED <<lst, inUse>>
         ELSE /\ Move(c, "dial")
              /\ lst' = [lst EXCEPT ![l].admitting = None,
                                    ![l].pending = @ + 1,
                                    ![l].serve = "accept"]
              /\ inUse' = inUse + 1
      /\ UNCHANGED <<manager, hold, exempt>>

\* The deferred clean up of a connection that was not handed over.
Refuse(c) ==
  LET l == conn[c].l
  IN  /\ At(c, "refused")
      /\ conn' = [conn EXCEPT ![c] = NoConn]
      /\ lst' = [lst EXCEPT ![l].admitting = None, ![l].serve = "accept"]
      /\ exempt' = exempt \ {c}
      /\ UNCHANGED <<manager, inUse, hold>>

----------------------------------------------------------------------------
(* The worker of a connection (relayAdmitted).                             *)

\* The worker's last deferred call, charge.Release.
Done(c, m) ==
  /\ conn' = [conn EXCEPT ![c] = NoConn]
  /\ lst' = Collected(m, Known \cup mgr.stopped, conn')
  /\ inUse' = inUse - 1
  /\ exempt' = exempt \ {c}

\* Dial and the PROXY header, then finishPending: the record takes the place
\* of the pending count.  A failure, with or without the agent's side, is a
\* pair to be delivered.
Register(c) ==
  LET l == conn[c].l
  IN  /\ hold /\ At(c, "dial")
      /\ \E up \in {"none", "open"}, failed \in BOOLEAN :
           LET dialed == [conn EXCEPT ![c].up = up]
           IN  /\ up = "none" => failed
               /\ IF Stale(c)
                  THEN /\ conn' = [Cut(dialed, {c}) EXCEPT ![c].pc = "unpend"]
                       /\ UNCHANGED lst
                  ELSE IF failed
                  THEN /\ conn' = [dialed EXCEPT ![c].pc = "delivering"]
                       /\ lst' = [lst EXCEPT ![l].pending = @ - 1,
                                             ![l].delivering = @ \cup {c}]
                  ELSE /\ conn' = [dialed EXCEPT ![c].pc = "piping"]
                       /\ lst' = [lst EXCEPT ![l].pending = @ - 1,
                                             ![l].conns = @ \cup {c}]
      /\ UNCHANGED <<manager, inUse, hold, exempt>>

UnpendForgotten(c) ==
  /\ At(c, "unpend")
  /\ Done(c, lst)
  /\ UNCHANGED <<manager, hold>>
Unpend(c) ==
  LET l == conn[c].l
  IN  /\ At(c, "unpend")
      /\ Done(c, [lst EXCEPT ![l].pending = @ - 1])
      /\ UNCHANGED <<manager, hold>>

\* Kernel mode: the count goes down before the connection is recorded.  A
\* failure closes both sides.
DialKernel(c) ==
  LET l    == conn[c].l
      less == [lst EXCEPT ![l].pending = @ - 1]
  IN  /\ ~hold /\ At(c, "dial")
      /\ \/ Done(c, less)
         \/ /\ conn' = [conn EXCEPT ![c].pc = "tracking", ![c].up = "open"]
            /\ lst' = less
            /\ UNCHANGED <<inUse, exempt>>
      /\ UNCHANGED <<manager, hold>>

Track(c) ==
  LET l == conn[c].l
  IN  /\ At(c, "tracking")
      /\ IF Stale(c) THEN Done(c, lst)
         ELSE /\ Move(c, "piping")
              /\ lst' = [lst EXCEPT ![l].conns = @ \cup {c}]
              /\ UNCHANGED <<inUse, exempt>>
      /\ UNCHANGED <<manager, hold>>

\* The relay ends: the peers finished, or the pair was cut.  In userspace
\* mode beginDelivery keeps the pair, unless the Manager has dropped it.
PipeEnds(c) ==
  LET l == conn[c].l
  IN  /\ At(c, "piping")
      /\ IF hold /\ c \in lst[l].conns
         THEN /\ Move(c, "delivering")
              /\ lst' = [lst EXCEPT ![l].conns = @ \ {c},
                                    ![l].delivering = @ \cup {c}]
              /\ UNCHANGED <<inUse, exempt>>
         ELSE Done(c, [lst EXCEPT ![l].conns = @ \ {c}])
      /\ UNCHANGED <<manager, hold>>

\* AwaitDelivered returns: everything was delivered, which holds of a pair
\* that was cut, and whoever cuts one also wakes the wait.
EndDeliveryUnwoken(c) ==
  LET l == conn[c].l
  IN  /\ At(c, "delivering") /\ conn[c].down = "open"
      /\ Done(c, [lst EXCEPT ![l].delivering = @ \ {c}])
      /\ UNCHANGED <<manager, hold>>
EndDelivery(c) ==
  LET l == conn[c].l
  IN  /\ At(c, "delivering")
      /\ Done(c, [lst EXCEPT ![l].delivering = @ \ {c}])
      /\ UNCHANGED <<manager, hold>>

Step(c) ==
  \/ Policy(c) \/ Acquire(c) \/ Refuse(c)
  \/ Register(c) \/ Unpend(c) \/ DialKernel(c) \/ Track(c)

Next ==
  \/ Commit \/ CommitFinish
  \/ \E a \in Agents : CloseAgent(a)
  \/ Close \/ CloseFinish
  \/ \E c \in Conns :
       \/ \E l \in Listeners, s \in Sources : Accept(c, l, s)
       \/ Step(c) \/ PipeEnds(c) \/ EndDelivery(c)
  \/ \E l \in Listeners :
       AcceptFails(l) \/ Retry(l) \/ ServeEnds(l)

Spec == Init /\ [][Next]_vars

----------------------------------------------------------------------------
(* Properties.                                                             *)

ListenerType(m) ==
  /\ DOMAIN m = {"rule", "permit", "stopping", "closed", "gen", "pending",
                 "admitting", "conns", "delivering", "serve"}
  /\ m.rule \in Rules \cup {None} /\ m.permit \subseteq Sources
  /\ m.stopping \in BOOLEAN /\ m.closed \in BOOLEAN
  /\ m.gen \in Nat /\ m.pending \in Nat
  /\ m.admitting \in Conns \cup {None}
  /\ m.conns \subseteq Conns /\ m.delivering \subseteq Conns
  /\ m.serve \in {"none", "accept", "backoff", "admit", "done"}

Admission == {"policy", "taking", "refused"}
Pending == {"dial", "unpend"}
Charged == Pending \cup {"tracking", "piping", "delivering"}

ConnType(k) ==
  /\ DOMAIN k = {"pc", "l", "src", "agent", "gen", "down", "up"}
  /\ k.pc \in {"none"} \cup Admission \cup Charged
  /\ k.l \in Listeners \cup {None} /\ k.src \in Sources \cup {None}
  /\ k.agent \in Agents \cup {None} /\ k.gen \in Nat
  /\ k.down \in {"open", "closed"} /\ k.up \in {"none", "open", "reset"}

TypeOK ==
  /\ ls \in [Ports -> Listeners \cup {None}]
  /\ retiring \subseteq Listeners
  /\ mgr.op \in {"idle", "commit", "closeAgent", "close"}
  /\ mgr.stopped \subseteq Listeners
  /\ inUse \in 0 .. Limit
  /\ hold \in BOOLEAN /\ exempt \subseteq Conns
  /\ DOMAIN lst = Listeners /\ \A l \in Listeners : ListenerType(lst[l])
  /\ DOMAIN conn = Conns /\ \A c \in Conns : ConnType(conn[c])

\* A pair that is being relayed, or whose last bytes are being delivered.
Uncut(c) == conn[c].down = "open" /\ conn[c].up = "open"
Relaying(c) == conn[c].pc \in {"piping", "delivering"} /\ Uncut(c)

\* A connection is relayed to the agent its port is declared for: one that was
\* accepted, or was being dialled, when the port was given to another agent
\* never starts (or goes on) to relay to the old one (the comment of gen).
RelaysToDeclaredAgent ==
  \A c \in Conns :
    Relaying(c) /\ ~lst[conn[c].l].closed =>
      conn[c].agent = lst[conn[c].l].rule.agent

\* Once CloseAgent has returned, nothing is relayed to a revoked agent, and no
\* worker that was under way starts to, until a declaration names it again.
RevokedAgentIsCut ==
  \A c \in Conns : Relaying(c) => conn[c].agent \notin revoked

\* Whatever is relayed can still be cut: its listener is one the Manager
\* knows.  A retiring listener is forgotten only when nothing is left of it.
EveryRelayIsKnown ==
  \A c \in Conns : Relaying(c) => conn[c].l \in Known

\* pending counts the workers between the budget and their record, and the
\* budget counts the workers alive: each is counted once and given back once,
\* on every path through the failures and the cuts.
CountsHold ==
  /\ inUse = Cardinality({c \in Conns : conn[c].pc \in Charged})
  /\ \A l \in Listeners :
       lst[l].pending = Cardinality({c \in Workers(l) : conn[c].pc \in Pending})

\* When an operation of the Manager has returned, the accept loop of every
\* listener it stopped has ended: it cannot charge the budget of a rule that
\* is gone.
OnPorts == {ls[p] : p \in Ports}
StoppedIsJoined ==
  mgr.op = "idle" =>
    \A l \in Listeners : l \notin OnPorts => lst[l].serve \in {"none", "done"}

\* A relayed connection comes from a source that the last change of its
\* listener permits, unless it was not yet recorded at that change.
RefusedSourcesAreCut ==
  \A c \in Conns :
    Relaying(c) /\ ~lst[conn[c].l].closed =>
      conn[c].src \in lst[conn[c].l].permit \/ c \in exempt

\* Whatever is relayed is what is declared: it goes to the agent of its port,
\* which is not revoked, from a source the rule admits (Commit, CloseAgent and
\* relayAdmitted, which judges again after the dial).
RelaysAreDeclared ==
  RelaysToDeclaredAgent /\ RevokedAgentIsCut /\ RefusedSourcesAreCut

\* No connection and no loop is forgotten: a relay's listener is known, the
\* counts that decide when a listener may go are exact, and a stopped accept
\* loop has ended when the operation returns (track, pending, wg.Wait).
RelaysAccounted == EveryRelayIsKnown /\ CountsHold /\ StoppedIsJoined

\* idle's comment: nothing established or being connected is left of a
\* retiring listener that is idle, apart from what retire has cut.
IdleIsEmpty ==
  \A l \in retiring :
    IdleListener(lst[l]) => \A c \in Workers(l) : conn[c].down = "closed"

----------------------------------------------------------------------------
(* The inductive invariant.                                                *)

\* A listener.  One that is open is known to the Manager, has a rule and is
\* for no revoked agent; one that is closed has nothing on record; what is on
\* record is where the record says it is.
ListenerInv(l) ==
  /\ lst[l].serve = "none" => lst[l] = NoListener /\ l \notin Known \cup mgr.stopped
  /\ lst[l].serve # "none" /\ ~lst[l].closed =>
       l \in Known /\ lst[l].rule \in Rules /\ lst[l].rule.agent \notin revoked
  /\ l \notin OnPorts => lst[l].serve \in {"none", "done"}
  /\ lst[l].closed => lst[l].stopping /\ Recorded(l) = {}
  /\ lst[l].serve # "none" /\ ~lst[l].stopping => lst[l].permit = lst[l].rule.allow
  /\ lst[l].admitting # None <=> lst[l].serve = "admit"
  /\ \A c \in Conns :
       /\ lst[l].admitting = c => conn[c].l = l /\ conn[c].pc \in Admission
       /\ c \in lst[l].conns => conn[c].l = l /\ conn[c].pc = "piping"
       /\ c \in lst[l].delivering => conn[c].l = l /\ conn[c].pc = "delivering"

\* A connection.  Its generation tells whether its agent is still its port's,
\* a pair that is not cut is on record, and a source that is not permitted
\* any more was not on record when that changed.
ConnInv(c) ==
  /\ conn[c].pc = "none" => conn[c] = NoConn
  /\ conn[c].pc # "none" =>
       /\ conn[c].l \in Listeners /\ lst[conn[c].l].serve # "none"
       /\ ~lst[conn[c].l].closed =>
            /\ conn[c].gen <= lst[conn[c].l].gen
            /\ conn[c].gen = lst[conn[c].l].gen =>
                 conn[c].agent = lst[conn[c].l].rule.agent
  /\ conn[c].pc \in Admission => lst[conn[c].l].admitting = c
  /\ Relaying(c) =>
       /\ c \in Recorded(conn[c].l)
       /\ conn[c].agent = lst[conn[c].l].rule.agent
  /\ conn[c].pc \in {"taking", "dial", "tracking"} \/ Relaying(c) =>
       \/ lst[conn[c].l].closed
       \/ conn[c].src \in lst[conn[c].l].permit \/ c \in exempt

\* The Manager.  A port's listener is its own, and is retiring only while the
\* commit that retires it waits; what an operation closes it has in stopped,
\* and forgets when it ends.
ManagerInv ==
  /\ \A p, q \in Ports : ls[p] = ls[q] /\ ls[p] # None => p = q
  /\ \A l \in retiring : lst[l].stopping
  /\ mgr.op # "commit" => \A p \in Ports : ls[p] \notin retiring
  /\ mgr.op = "idle" => mgr.stopped = {} /\ \A l \in Known : ~lst[l].closed
  /\ mgr.op = "commit" =>
       /\ mgr.want \in [Ports -> Rules \cup {None}] /\ mgr.opened \subseteq Ports
       /\ \A p \in mgr.opened : mgr.want[p] # None
       /\ \A l \in retiring : ~lst[l].closed
       /\ \A p \in Ports : ls[p] # None =>
            IF mgr.want[p] = None
            THEN ls[p] \in mgr.stopped /\ (lst[ls[p]].closed \/ ls[p] \in retiring)
            ELSE ls[p] \notin retiring /\ ~lst[ls[p]].closed
  /\ mgr.op \in {"closeAgent", "close"} =>
       /\ \A l \in Known : lst[l].closed <=> l \in mgr.stopped
       /\ \A l \in Known \ mgr.stopped :
            mgr.op = "closeAgent" => lst[l].rule.agent # mgr.agent
  /\ mgr.op = "close" => mgr.agent = None

RelayInv ==
  /\ TypeOK /\ ManagerInv /\ CountsHold
  /\ \A l \in Listeners : ListenerInv(l)
  /\ \A c \in Conns : ConnInv(c)

----------------------------------------------------------------------------
(* Liveness: goroutines run, calls of the evaluator and dials return, and  *)
(* a pair that was cut ends.  Peers that stay silent may never finish.     *)

Ends(c) == ~Uncut(c) /\ (PipeEnds(c) \/ EndDelivery(c))

FairSpec ==
  /\ Spec
  /\ WF_vars(CommitFinish) /\ WF_vars(CloseFinish)
  /\ \A c \in Conns : WF_vars(Step(c)) /\ WF_vars(Ends(c))
  /\ \A l \in Listeners : WF_vars(ServeEnds(l))

\* Commit, CloseAgent and Close return: they never wait for a loop that waits
\* for them.
ManagerReturns == mgr.op # "idle" ~> mgr.op = "idle"

\* A connection that was cut ends and gives back what it holds.
CutIsOver == \A c \in Conns : conn[c].down = "closed" ~> conn[c].pc = "none"
=============================================================================
