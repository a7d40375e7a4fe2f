------------------------ MODULE ProxyRelayStepProofs ------------------------
(***************************************************************************)
(* Proofs about the server's TCP relay, for any number of ports,           *)
(* listeners, connections, agents, rules and sources: every step of an     *)
(* accept loop, of a worker, and of the Manager when it closes listeners   *)
(* keeps the relay's invariant.                                            *)
(***************************************************************************)
EXTENDS ProxyRelay, FiniteSetTheorems, TLAPS

(* Steps of the accept loops and of the workers.  Such a step changes one  *)
(* listener l and at most one connection c; the collector may take other   *)
(* listeners away.                                                         *)

ChargedConns == {c \in Conns : conn[c].pc \in Charged}
PendingAt(l) == {c \in Workers(l) : conn[c].pc \in Pending}
PendingAfter(l) == {c \in Conns : conn'[c].l = l /\ conn'[c].pc \in Pending}
One(b) == IF b THEN 1 ELSE 0

Gone(x) ==
  /\ lst'[x] = NoListener /\ x \notin Known \cup mgr.stopped
  /\ \A d \in Conns : conn'[d].l # x

\* What the step leaves alone.
Frame(c, l, m) ==
  /\ UNCHANGED <<manager, hold>>
  /\ DOMAIN conn' = Conns /\ \A d \in Conns \ {c} : conn'[d] = conn[d]
  /\ DOMAIN lst' = Listeners
  /\ \A x \in Listeners \ {l} : lst'[x] = lst[x] \/ Gone(x)
  /\ lst'[l] = m \/ Gone(l)
  /\ exempt' \subseteq Conns /\ \A d \in Conns \ {c} : d \in exempt => d \in exempt'

\* What becomes of the listener.
LocalListener(c, l, m) ==
  /\ ListenerType(m)
  /\ m.rule = lst[l].rule /\ m.permit = lst[l].permit /\ m.gen = lst[l].gen
  /\ m.stopping = lst[l].stopping /\ m.closed = lst[l].closed
  /\ lst[l].serve # "none" /\ m.serve # "none"
  /\ l \notin OnPorts => m.serve = "done"
  /\ m.admitting # None <=> m.serve = "admit"
  /\ m.closed => m.conns = {} /\ m.delivering = {}
  /\ \A d \in Conns \ {c} :
       /\ d \in m.conns <=> d \in lst[l].conns
       /\ d \in m.delivering <=> d \in lst[l].delivering
       /\ d = m.admitting <=> d = lst[l].admitting

\* What becomes of the connection.
LocalConn(c, l, m) ==
  /\ conn[c].l \in {l, None} /\ conn'[c].l \in {l, None}
  /\ ConnType(conn'[c]) /\ ConnInv(c)'
  /\ m.admitting = c => conn'[c].l = l /\ conn'[c].pc \in Admission
  /\ c \in m.conns => conn'[c].l = l /\ conn'[c].pc = "piping"
  /\ c \in m.delivering => conn'[c].l = l /\ conn'[c].pc = "delivering"

LocalCounts(c, l, m) ==
  /\ inUse' = inUse + One(c \in ChargedConns') - One(c \in ChargedConns)
  /\ inUse' <= Limit
  /\ m.pending = lst[l].pending + One(c \in PendingAfter(l)) - One(c \in PendingAt(l))

\* A set that differs in one element has one more or one less.
LEMMA OneElement ==
  ASSUME NEW S, NEW T, NEW c, IsFiniteSet(S), IsFiniteSet(T),
         \A d : d # c => (d \in S <=> d \in T)
  PROVE  Cardinality(T) = Cardinality(S) + One(c \in T) - One(c \in S)
<1>1. Cardinality(S) \in Nat /\ Cardinality(T) \in Nat
  BY FS_CardinalityType
<1>2. CASE c \in S <=> c \in T
  <2>1. S = T
    BY <1>2
  <2>2. One(c \in S) = One(c \in T) /\ One(c \in S) \in Int
    BY <1>2, <2>1 DEF One
  <2> QED
    BY <1>1, <2>1, <2>2
<1>3. CASE c \in T /\ c \notin S
  <2>1. T = S \cup {c}
    BY <1>3, Zenon
  <2>2. Cardinality(T) = Cardinality(S) + 1
    BY <1>3, <2>1, FS_AddElement
  <2> QED
    BY <1>1, <1>3, <2>2 DEF One
<1>4. CASE c \in S /\ c \notin T
  <2>1. S = T \cup {c}
    BY <1>4, Zenon
  <2>2. Cardinality(S) = Cardinality(T) + 1
    BY <1>4, <2>1, FS_AddElement
  <2> QED
    BY <1>1, <1>4, <2>2 DEF One
<1> QED
  BY <1>2, <1>3, <1>4

\* The sets that are counted are finite.
LEMMA CountedFinite ==
  /\ IsFiniteSet(ChargedConns) /\ IsFiniteSet(ChargedConns')
  /\ \A l : IsFiniteSet(PendingAt(l)) /\ IsFiniteSet(PendingAt(l)')
<1>1. ChargedConns \subseteq Conns /\ ChargedConns' \subseteq Conns
  BY Zenon DEF ChargedConns
<1>2. ASSUME NEW l
      PROVE  PendingAt(l) \subseteq Conns /\ PendingAt(l)' \subseteq Conns
  BY Zenon DEF PendingAt, Workers
<1> QED
  BY <1>1, <1>2, FS_Subset, RelayAssumption, Zenon

\* The counts stay exact over a local step.
LEMMA LocalKeepsCounts ==
  ASSUME RelayInv, NEW c, NEW l \in Listeners, NEW m, Frame(c, l, m),
         LocalListener(c, l, m), LocalCounts(c, l, m), c \in Conns => LocalConn(c, l, m)
  PROVE  CountsHold' /\ inUse' \in 0 .. Limit
<1>1. /\ inUse = Cardinality(ChargedConns)
      /\ \A x \in Listeners : lst[x].pending = Cardinality(PendingAt(x))
  BY Zenon DEF RelayInv, CountsHold, ChargedConns, PendingAt
<1>2. \A d : d # c => (d \in ChargedConns <=> d \in ChargedConns')
  BY Zenon DEF Frame, ChargedConns
<1>3. inUse' = Cardinality(ChargedConns')
  <2>1. Cardinality(ChargedConns') =
          Cardinality(ChargedConns) + One(c \in ChargedConns') - One(c \in ChargedConns)
    BY <1>2, CountedFinite, OneElement, Zenon
  <2> QED
    BY <1>1, <2>1, Zenon DEF LocalCounts
<1>4. inUse' \in 0 .. Limit
  <2>1. Cardinality(ChargedConns') \in Nat
    BY CountedFinite, FS_CardinalityType, Zenon
  <2>2. inUse' <= Limit
    BY Zenon DEF LocalCounts
  <2> QED
    BY <1>3, <2>1, <2>2, RelayAssumption
<1>5. ASSUME NEW x \in Listeners
      PROVE  lst'[x].pending = Cardinality(PendingAt(x)')
  <2>1. CASE Gone(x)
    <3>1. PendingAt(x)' = {}
      BY <2>1, Zenon DEF Gone, PendingAt, Workers
    <3>2. lst'[x].pending = 0
      BY <2>1 DEF Gone, NoListener
    <3> QED
      BY <3>1, <3>2, FS_EmptySet
  <2>2. CASE x # l /\ ~Gone(x)
    <3>1. lst'[x] = lst[x]
      BY <2>2, Zenon DEF Frame
    <3>2. c \in Conns => conn[c].l # x /\ conn'[c].l # x
      BY <2>2, RelayAssumption, SMT DEF LocalConn
    <3>3. PendingAt(x)' = PendingAt(x)
      BY <3>2, Zenon DEF Frame, PendingAt, Workers
    <3> QED
      BY <1>1, <3>1, <3>3, Zenon
  <2>3. CASE x = l /\ ~Gone(l)
    <3>1. lst'[l] = m
      BY <2>3, Zenon DEF Frame
    <3>2. \A d : d # c => (d \in PendingAt(l) <=> d \in PendingAt(l)')
      BY Zenon DEF Frame, PendingAt, Workers
    <3>3. Cardinality(PendingAt(l)') =
            Cardinality(PendingAt(l)) + One(c \in PendingAt(l)') - One(c \in PendingAt(l))
      BY <3>2, CountedFinite, OneElement, Zenon
    <3>4. PendingAt(l)' = PendingAfter(l)
      BY Zenon DEF PendingAt, PendingAfter, Workers
    <3> QED
      BY <1>1, <2>3, <3>1, <3>3, <3>4, Zenon DEF LocalCounts
  <2> QED
    BY <2>1, <2>2, <2>3, Zenon
<1> QED
  BY <1>3, <1>4, <1>5, Zenon DEF CountsHold, ChargedConns, PendingAt

\* What a local step leaves of a listener that is not collected.
LEMMA LocalFields ==
  ASSUME RelayInv, NEW c, NEW l \in Listeners, NEW m, Frame(c, l, m),
         LocalListener(c, l, m), NEW x \in Listeners, ~Gone(x)
  PROVE  /\ lst'[x].rule = lst[x].rule /\ lst'[x].permit = lst[x].permit
         /\ lst'[x].gen = lst[x].gen /\ lst'[x].stopping = lst[x].stopping
         /\ lst'[x].closed = lst[x].closed
         /\ lst'[x].serve = "none" <=> lst[x].serve = "none"
<1>1. CASE x = l
  BY <1>1, Zenon DEF Frame, LocalListener
<1>2. CASE x # l
  BY <1>2, Zenon DEF Frame
<1> QED
  BY <1>1, <1>2, Zenon

\* A local step keeps the types, the Manager's part and the other parts of
\* the invariant.
LEMMA LocalKeepsTypes ==
  ASSUME RelayInv, NEW c, NEW l \in Listeners, NEW m, Frame(c, l, m),
         LocalListener(c, l, m), LocalCounts(c, l, m), c \in Conns => LocalConn(c, l, m)
  PROVE  TypeOK'
<1>1. inUse' \in 0 .. Limit
  BY LocalKeepsCounts
<1>2. ASSUME NEW x \in Listeners PROVE ListenerType(lst'[x])
  <2>1. ListenerType(NoListener)
    BY RelayAssumption DEF ListenerType, NoListener
  <2> QED
    BY <2>1, Zenon DEF RelayInv, TypeOK, Frame, LocalListener, Gone
<1>3. ASSUME NEW d \in Conns PROVE ConnType(conn'[d])
  BY Zenon DEF RelayInv, TypeOK, Frame, LocalConn
<1>4. /\ ls' = ls /\ retiring' = retiring /\ mgr' = mgr /\ hold' = hold
      /\ DOMAIN lst' = Listeners /\ DOMAIN conn' = Conns /\ exempt' \subseteq Conns
  BY Zenon DEF Frame, manager
<1> QED
  BY <1>1, <1>2, <1>3, <1>4, Zenon DEF RelayInv, TypeOK

LEMMA LocalKeepsManager ==
  ASSUME RelayInv, NEW c, NEW l \in Listeners, NEW m, Frame(c, l, m),
         LocalListener(c, l, m)
  PROVE  ManagerInv'
<1>1. ls' = ls /\ retiring' = retiring /\ mgr' = mgr /\ Known' = Known
  BY Zenon DEF Frame, manager, Known
<1>2. ASSUME NEW x \in Listeners, x \in Known
      PROVE  /\ lst'[x].stopping = lst[x].stopping /\ lst'[x].closed = lst[x].closed
             /\ lst'[x].rule = lst[x].rule
  <2>1. ~Gone(x)
    BY <1>2, Zenon DEF Gone
  <2> QED
    BY <2>1, LocalFields, Zenon
<1>3. Known \subseteq Listeners /\ retiring \subseteq Known
  BY Zenon DEF RelayInv, TypeOK, Known
<1>4. \A p \in Ports : ls[p] # None => ls[p] \in Known
  BY Zenon DEF Known
<1> QED
  BY <1>1, <1>2, <1>3, <1>4, Zenon DEF RelayInv, ManagerInv

LEMMA LocalKeepsListeners ==
  ASSUME RelayInv, NEW c, NEW l \in Listeners, NEW m, Frame(c, l, m),
         LocalListener(c, l, m), c \in Conns => LocalConn(c, l, m),
         NEW x \in Listeners
  PROVE  ListenerInv(x)'
<1>1. Known' = Known /\ OnPorts' = OnPorts /\ mgr' = mgr /\ revoked' = revoked
  BY Zenon DEF Frame, manager, Known, OnPorts
<1>2. ListenerInv(x)
  BY Zenon DEF RelayInv
<1>3. CASE Gone(x)
  <2>1. /\ lst'[x] = NoListener /\ NoListener.serve = "none"
        /\ NoListener.closed = FALSE /\ NoListener.admitting = None
        /\ NoListener.conns = {} /\ NoListener.delivering = {}
    BY <1>3, Zenon DEF Gone, NoListener
  <2>2. x \notin Known \cup mgr.stopped
    BY <1>3, Zenon DEF Gone
  <2> QED
    BY <1>1, <2>1, <2>2, RelayAssumption, Zenon DEF ListenerInv, Recorded
<1>4. CASE ~Gone(x) /\ x # l
  <2>1. lst'[x] = lst[x]
    BY <1>4, Zenon DEF Frame
  <2>2. ASSUME NEW d \in Conns
        PROVE  /\ lst[x].admitting = d => conn'[d].l = x /\ conn'[d].pc \in Admission
               /\ d \in lst[x].conns => conn'[d].l = x /\ conn'[d].pc = "piping"
               /\ d \in lst[x].delivering => conn'[d].l = x /\ conn'[d].pc = "delivering"
    <3>1. CASE d = c
      <4>1. conn[d].l # x
        BY <1>4, <3>1, RelayAssumption, SMT DEF LocalConn
      <4> QED
        BY <1>2, <4>1, Zenon DEF ListenerInv
    <3>2. CASE d # c
      <4>1. conn'[d] = conn[d]
        BY <3>2, Zenon DEF Frame
      <4> QED
        BY <1>2, <4>1, Zenon DEF ListenerInv
    <3> QED
      BY <3>1, <3>2, Zenon
  <2> QED
    BY <1>1, <1>2, <2>1, <2>2, Zenon DEF ListenerInv, Recorded
<1>5. CASE ~Gone(x) /\ x = l
  <2>1. lst'[x] = m
    BY <1>5, Zenon DEF Frame
  <2>2. ASSUME NEW d \in Conns
        PROVE  /\ m.admitting = d => conn'[d].l = x /\ conn'[d].pc \in Admission
               /\ d \in m.conns => conn'[d].l = x /\ conn'[d].pc = "piping"
               /\ d \in m.delivering => conn'[d].l = x /\ conn'[d].pc = "delivering"
    <3>1. CASE d = c
      BY <1>5, <3>1, Zenon DEF LocalConn
    <3>2. CASE d # c
      <4>1. conn'[d] = conn[d]
        BY <3>2, Zenon DEF Frame
      <4>2. /\ d \in m.conns <=> d \in lst[x].conns
            /\ d \in m.delivering <=> d \in lst[x].delivering
            /\ d = m.admitting <=> d = lst[x].admitting
        BY <1>5, <3>2, Zenon DEF LocalListener
      <4> QED
        BY <1>2, <4>1, <4>2, Zenon DEF ListenerInv
    <3> QED
      BY <3>1, <3>2, Zenon
  <2>3. /\ lst'[x].rule = lst[x].rule /\ lst'[x].permit = lst[x].permit
        /\ lst'[x].stopping = lst[x].stopping /\ lst'[x].closed = lst[x].closed
        /\ lst[x].serve # "none" /\ lst'[x].serve # "none"
        /\ x \notin OnPorts => lst'[x].serve = "done"
        /\ lst'[x].admitting # None <=> lst'[x].serve = "admit"
        /\ lst'[x].closed => lst'[x].conns = {} /\ lst'[x].delivering = {}
    BY <1>5, <2>1, Zenon DEF LocalListener
  <2> QED
    BY <1>1, <1>2, <2>1, <2>2, <2>3, Zenon DEF ListenerInv, Recorded
<1> QED
  BY <1>3, <1>4, <1>5, Zenon

LEMMA LocalKeepsConns ==
  ASSUME RelayInv, NEW c, NEW l \in Listeners, NEW m, Frame(c, l, m),
         LocalListener(c, l, m), c \in Conns => LocalConn(c, l, m),
         NEW d \in Conns
  PROVE  ConnInv(d)'
<1>1. CASE d = c
  BY <1>1, Zenon DEF LocalConn
<1>2. CASE d # c
  <2>1. conn'[d] = conn[d] /\ ConnInv(d) /\ (d \in exempt => d \in exempt')
    BY <1>2, Zenon DEF RelayInv, Frame
  <2>2. CASE conn[d].pc = "none"
    BY <2>1, <2>2, Zenon DEF ConnInv, Relaying, Admission
  <2>3. CASE conn[d].pc # "none"
    <3> DEFINE x == conn[d].l
    <3>1. x \in Listeners /\ ~Gone(x)
      BY <2>1, <2>3, Zenon DEF ConnInv, Gone
    <3>2. /\ lst'[x].rule = lst[x].rule /\ lst'[x].permit = lst[x].permit
          /\ lst'[x].gen = lst[x].gen /\ lst'[x].closed = lst[x].closed
          /\ lst'[x].serve = "none" <=> lst[x].serve = "none"
      BY <3>1, LocalFields, Zenon
    <3>3. /\ lst[x].admitting = d => lst'[x].admitting = d
          /\ d \in lst[x].conns => d \in lst'[x].conns
          /\ d \in lst[x].delivering => d \in lst'[x].delivering
      BY <1>2, <3>1, Zenon DEF Frame, LocalListener
    <3> QED
      BY <2>1, <2>3, <3>1, <3>2, <3>3, Zenon DEF ConnInv, Recorded, Relaying, Uncut
  <2> QED
    BY <2>2, <2>3, Zenon
<1> QED
  BY <1>1, <1>2, Zenon

LEMMA LocalKeeps ==
  ASSUME RelayInv, NEW c, NEW l \in Listeners, NEW m, Frame(c, l, m),
         LocalListener(c, l, m), LocalCounts(c, l, m), c \in Conns => LocalConn(c, l, m)
  PROVE  RelayInv'
<1>1. TypeOK'
  BY LocalKeepsTypes, Zenon
<1>2. ManagerInv'
  BY LocalKeepsManager, Zenon
<1>3. CountsHold'
  BY LocalKeepsCounts, Zenon
<1>4. \A x \in Listeners : ListenerInv(x)'
  BY LocalKeepsListeners, Zenon
<1>5. \A d \in Conns : ConnInv(d)'
  BY LocalKeepsConns, Zenon
<1> QED
  BY <1>1, <1>2, <1>3, <1>4, <1>5, Zenon DEF RelayInv

----------------------------------------------------------------------------
(* The accept loop.                                                        *)

\* The constants of a record that is nothing.
LEMMA NoneRecords ==
  /\ DOMAIN NoConn = {"pc", "l", "src", "agent", "gen", "down", "up"}
  /\ NoConn.pc = "none" /\ NoConn.l = None /\ NoConn.src = None
  /\ NoConn.agent = None /\ NoConn.gen = 0 /\ NoConn.down = "open"
  /\ NoConn.up = "none" /\ ConnType(NoConn)
<1>1. /\ DOMAIN NoConn = {"pc", "l", "src", "agent", "gen", "down", "up"}
      /\ NoConn.pc = "none" /\ NoConn.l = None /\ NoConn.src = None
      /\ NoConn.agent = None /\ NoConn.gen = 0 /\ NoConn.down = "open"
      /\ NoConn.up = "none"
  BY DEF NoConn
<1>2. 0 \in Nat
  OBVIOUS
<1> QED
  BY <1>1, <1>2, Zenon DEF ConnType

\* The types and the invariants of one listener and one connection.
LEMMA Parts ==
  ASSUME RelayInv
  PROVE  /\ DOMAIN lst = Listeners /\ DOMAIN conn = Conns /\ exempt \subseteq Conns
         /\ inUse \in Nat /\ inUse <= Limit /\ Limit \in Nat
         /\ \A l \in Listeners : ListenerType(lst[l]) /\ ListenerInv(l)
         /\ \A c \in Conns : ConnType(conn[c]) /\ ConnInv(c)
<1>1. inUse \in Nat /\ inUse <= Limit /\ Limit \in Nat
  BY RelayAssumption DEF RelayInv, TypeOK
<1> QED
  BY <1>1, Zenon DEF RelayInv, TypeOK

LEMMA LoopStep ==
  ASSUME RelayInv, NEW l \in Listeners, NEW s \in {"accept", "backoff", "done"},
         lst[l].serve \in {"accept", "backoff"},
         lst' = [lst EXCEPT ![l].serve = s],
         UNCHANGED <<manager, conn, inUse, hold, exempt>>
  PROVE  RelayInv'
<1> DEFINE m == [lst[l] EXCEPT !.serve = s]
<1>1. ListenerType(lst[l]) /\ ListenerInv(l) /\ DOMAIN lst = Listeners
  BY Parts, Zenon
<1>2. /\ DOMAIN m = DOMAIN lst[l] /\ m.serve = s
      /\ m.rule = lst[l].rule /\ m.permit = lst[l].permit /\ m.stopping = lst[l].stopping
      /\ m.closed = lst[l].closed /\ m.gen = lst[l].gen /\ m.pending = lst[l].pending
      /\ m.admitting = lst[l].admitting /\ m.conns = lst[l].conns
      /\ m.delivering = lst[l].delivering
  BY <1>1, Zenon DEF ListenerType
<1>3. lst' = [lst EXCEPT ![l] = m]
  OBVIOUS
<1> HIDE DEF m
<1>4. Frame(None, l, m)
  BY <1>1, <1>3, Parts, Zenon DEF Frame
<1>5. LocalListener(None, l, m)
  <2>1. ListenerType(m)
    BY <1>1, <1>2, Zenon DEF ListenerType
  <2>2. lst[l].admitting = None /\ l \in OnPorts
    BY <1>1, Zenon DEF ListenerInv
  <2>3. lst[l].closed => lst[l].conns = {} /\ lst[l].delivering = {}
    BY <1>1, Zenon DEF ListenerInv, Recorded
  <2> QED
    BY <1>2, <2>1, <2>2, <2>3, Zenon DEF LocalListener
<1>6. LocalCounts(None, l, m)
  <2>1. /\ None \notin ChargedConns /\ None \notin ChargedConns'
        /\ None \notin PendingAt(l) /\ None \notin PendingAfter(l)
    BY RelayAssumption, Zenon DEF ChargedConns, PendingAt, PendingAfter, Workers
  <2>2. lst[l].pending \in Nat /\ inUse \in Nat /\ inUse <= Limit /\ inUse' = inUse
    BY <1>1, Parts, Zenon DEF ListenerType
  <2> QED
    BY <1>2, <2>1, <2>2 DEF LocalCounts, One
<1>7. None \notin Conns
  BY RelayAssumption, Zenon
<1> QED
  BY <1>4, <1>5, <1>6, <1>7, LocalKeeps, Zenon

\* AcceptFails, Retry and ServeEnds keep the invariant.
LEMMA LoopSteps ==
  ASSUME RelayInv, NEW l \in Listeners, AcceptFails(l) \/ Retry(l) \/ ServeEnds(l)
  PROVE  RelayInv'
<1>1. CASE AcceptFails(l)
  BY <1>1, LoopStep, Zenon DEF AcceptFails
<1>2. CASE Retry(l)
  BY <1>2, LoopStep, Zenon DEF Retry
<1>3. CASE ServeEnds(l)
  BY <1>3, LoopStep, Zenon DEF ServeEnds
<1> QED
  BY <1>1, <1>2, <1>3, Zenon

\* What the invariant asks of a connection under admission.
LEMMA AdmissionConn ==
  ASSUME NEW c \in Conns, NEW l \in Listeners, conn'[c].l = l,
         conn'[c].pc \in Admission, lst'[l].serve # "none", lst'[l].admitting = c,
         ~lst'[l].closed =>
           /\ conn'[c].gen <= lst'[l].gen
           /\ conn'[c].gen = lst'[l].gen => conn'[c].agent = lst'[l].rule.agent,
         conn'[c].pc = "taking" =>
           lst'[l].closed \/ conn'[c].src \in lst'[l].permit \/ c \in exempt'
  PROVE  ConnInv(c)'
<1>1. /\ conn'[c].pc # "none"
      /\ conn'[c].pc \in {"taking", "dial", "tracking"} => conn'[c].pc = "taking"
      /\ conn'[c].pc \notin {"piping", "delivering"}
  BY DEF Admission
<1>2. ~Relaying(c)'
  BY <1>1, Zenon DEF Relaying
<1> QED
  BY <1>1, <1>2, Zenon DEF ConnInv

LEMMA AcceptStep ==
  ASSUME RelayInv, NEW c \in Conns, NEW l \in Listeners, NEW s \in Sources,
         Accept(c, l, s)
  PROVE  RelayInv'
<1> DEFINE m == [lst[l] EXCEPT !.admitting = c, !.serve = "admit"]
           next == CASE hold -> "policy"
                     [] s \in lst[l].rule.allow -> "taking"
                     [] OTHER -> "refused"
           k == [NoConn EXCEPT !.l = l, !.src = s, !.gen = lst[l].gen,
                               !.agent = lst[l].rule.agent, !.pc = next]
<1>1. /\ ListenerType(lst[l]) /\ ListenerInv(l) /\ DOMAIN lst = Listeners
      /\ ConnType(conn[c]) /\ ConnInv(c) /\ DOMAIN conn = Conns
  BY Parts, Zenon
<1>2. /\ DOMAIN m = DOMAIN lst[l] /\ m.serve = "admit" /\ m.admitting = c
      /\ m.rule = lst[l].rule /\ m.permit = lst[l].permit /\ m.stopping = lst[l].stopping
      /\ m.closed = lst[l].closed /\ m.gen = lst[l].gen /\ m.pending = lst[l].pending
      /\ m.conns = lst[l].conns /\ m.delivering = lst[l].delivering
  BY <1>1, Zenon DEF ListenerType
<1>3. /\ conn[c].pc = "none" /\ lst[l].serve = "accept" /\ ~lst[l].stopping
      /\ lst' = [lst EXCEPT ![l] = m] /\ conn' = [conn EXCEPT ![c] = k]
      /\ UNCHANGED <<manager, inUse, hold, exempt>>
  BY Zenon DEF Accept, At
<1>4. /\ next \in Admission
      /\ next = "taking" => s \in lst[l].rule.allow
  BY DEF Admission
<1> HIDE DEF m, next
<1>5. /\ DOMAIN k = DOMAIN NoConn /\ k.l = l /\ k.src = s /\ k.gen = lst[l].gen
      /\ k.agent = lst[l].rule.agent /\ k.pc = next /\ k.down = NoConn.down
      /\ k.up = NoConn.up
  BY NoneRecords, Zenon
<1> HIDE DEF k
<1>6. /\ lst[l].admitting = None /\ l \in OnPorts /\ ~lst[l].closed
      /\ lst[l].rule \in Rules /\ lst[l].permit = lst[l].rule.allow
  BY <1>1, <1>3, Zenon DEF ListenerInv
<1>7. conn[c] = NoConn /\ conn'[c] = k /\ lst'[l] = m
  BY <1>1, <1>3, Zenon DEF ConnInv
<1>8. Frame(c, l, m)
  BY <1>1, <1>3, Parts, Zenon DEF Frame
<1>9. LocalListener(c, l, m)
  <2>1. ListenerType(m)
    BY <1>1, <1>2, Zenon DEF ListenerType
  <2> QED
    BY <1>2, <1>3, <1>6, <2>1, RelayAssumption, Zenon DEF LocalListener
<1>10. LocalConn(c, l, m)
  <2>1. ConnType(k)
    <3>1. lst[l].rule.agent \in Agents
      BY <1>6, RelayAssumption, SMT
    <3>2. /\ k.gen \in Nat /\ k.down = "open" /\ k.up = "none"
          /\ DOMAIN k = {"pc", "l", "src", "agent", "gen", "down", "up"}
      BY <1>1, <1>5, NoneRecords, Zenon DEF ListenerType
    <3> QED
      BY <1>4, <1>5, <3>1, <3>2, Zenon DEF ConnType
  <2>2. k.gen <= lst[l].gen
    <3>1. lst[l].gen \in Nat
      BY <1>1, Zenon DEF ListenerType
    <3> QED
      BY <1>5, <3>1
  <2>3. /\ k.pc # "none" /\ k.pc \notin {"dial", "tracking", "piping", "delivering"}
        /\ k.pc \in Admission
    BY <1>4, <1>5 DEF Admission
  <2>4. ConnInv(c)'
    <3>1. /\ conn'[c].l = l /\ conn'[c].pc \in Admission
          /\ lst'[l].serve = "admit" /\ lst'[l].admitting = c
          /\ conn'[c].gen <= lst'[l].gen /\ conn'[c].agent = lst'[l].rule.agent
      BY <1>2, <1>5, <1>7, <2>2, <2>3, Zenon
    <3>2. conn'[c].pc = "taking" => conn'[c].src \in lst'[l].permit
      BY <1>2, <1>4, <1>5, <1>6, <1>7, Zenon
    <3> QED
      BY <3>1, <3>2, AdmissionConn, Zenon
  <2>5. c \notin lst[l].conns /\ c \notin lst[l].delivering
    BY <1>1, <1>3, Zenon DEF ListenerInv
  <2> QED
    BY <1>2, <1>5, <1>7, <2>1, <2>3, <2>4, <2>5, NoneRecords, Zenon DEF LocalConn
<1>11. LocalCounts(c, l, m)
  <2>1. /\ c \notin ChargedConns /\ c \notin ChargedConns'
        /\ c \notin PendingAt(l) /\ c \notin PendingAfter(l)
    BY <1>3, <1>4, <1>5, <1>7
       DEF ChargedConns, PendingAt, PendingAfter, Workers, Charged, Pending, Admission
  <2>2. lst[l].pending \in Nat /\ inUse \in Nat /\ inUse <= Limit /\ inUse' = inUse
    BY <1>1, <1>3, Parts, Zenon DEF ListenerType
  <2> QED
    BY <1>2, <2>1, <2>2 DEF LocalCounts, One
<1> QED
  BY <1>8, <1>9, <1>10, <1>11, LocalKeeps, Zenon

\* The connection of a worker, and of an admission, has a listener that serves.
LEMMA WorkerFacts ==
  ASSUME RelayInv, NEW c \in Conns, conn[c].pc # "none"
  PROVE  /\ conn[c].l \in Listeners /\ conn[c].l # None
         /\ ListenerType(lst[conn[c].l]) /\ ListenerInv(conn[c].l)
         /\ ConnType(conn[c]) /\ ConnInv(c)
         /\ lst[conn[c].l].serve # "none"
         /\ conn[c].l \notin OnPorts => lst[conn[c].l].serve = "done"
         /\ lst[conn[c].l].closed =>
              lst[conn[c].l].conns = {} /\ lst[conn[c].l].delivering = {}
         /\ c \in lst[conn[c].l].conns => conn[c].pc = "piping"
         /\ c \in lst[conn[c].l].delivering => conn[c].pc = "delivering"
         /\ c = lst[conn[c].l].admitting <=> conn[c].pc \in Admission
         /\ conn[c].pc \in Admission =>
              lst[conn[c].l].serve = "admit" /\ conn[c].l \in OnPorts
<1>1. ConnType(conn[c]) /\ ConnInv(c)
  BY Parts, Zenon
<1>2. conn[c].l \in Listeners /\ conn[c].l # None /\ lst[conn[c].l].serve # "none"
  BY <1>1, RelayAssumption, Zenon DEF ConnInv
<1>3. ListenerType(lst[conn[c].l]) /\ ListenerInv(conn[c].l)
  BY <1>2, Parts, Zenon
<1>4. /\ conn[c].l \notin OnPorts => lst[conn[c].l].serve = "done"
      /\ lst[conn[c].l].closed =>
           lst[conn[c].l].conns = {} /\ lst[conn[c].l].delivering = {}
  BY <1>2, <1>3, Zenon DEF ListenerInv, Recorded
<1>5. /\ c \in lst[conn[c].l].conns => conn[c].pc = "piping"
      /\ c \in lst[conn[c].l].delivering => conn[c].pc = "delivering"
  BY <1>3, Zenon DEF ListenerInv
<1>6. c = lst[conn[c].l].admitting <=> conn[c].pc \in Admission
  BY <1>1, <1>3, Zenon DEF ListenerInv, ConnInv
<1>7. ASSUME conn[c].pc \in Admission
      PROVE  lst[conn[c].l].serve = "admit" /\ conn[c].l \in OnPorts
  <2>1. lst[conn[c].l].admitting # None
    BY <1>6, <1>7, RelayAssumption, Zenon
  <2>2. lst[conn[c].l].serve = "admit"
    BY <1>3, <2>1, Zenon DEF ListenerInv
  <2> QED
    BY <1>3, <2>2, Zenon DEF ListenerInv
<1> QED
  BY <1>1, <1>2, <1>3, <1>4, <1>5, <1>6, <1>7, Zenon

\* A step that leaves the listeners alone.
LEMMA SameListener ==
  ASSUME RelayInv, NEW c \in Conns, conn[c].pc # "none"
  PROVE  LocalListener(c, conn[c].l, lst[conn[c].l])
<1>1. lst[conn[c].l].admitting # None <=> lst[conn[c].l].serve = "admit"
  BY WorkerFacts, Zenon DEF ListenerInv
<1> QED
  BY <1>1, WorkerFacts, Zenon DEF LocalListener

LEMMA MoveFields ==
  ASSUME NEW c \in Conns, NEW pc, DOMAIN conn = Conns, ConnType(conn[c]), Move(c, pc)
  PROVE  /\ DOMAIN conn' = Conns /\ \A d \in Conns \ {c} : conn'[d] = conn[d]
         /\ DOMAIN conn'[c] = DOMAIN conn[c] /\ conn'[c].pc = pc
         /\ conn'[c].l = conn[c].l /\ conn'[c].src = conn[c].src
         /\ conn'[c].agent = conn[c].agent /\ conn'[c].gen = conn[c].gen
         /\ conn'[c].down = conn[c].down /\ conn'[c].up = conn[c].up
<1> DEFINE k == [conn[c] EXCEPT !.pc = pc]
<1>1. conn' = [conn EXCEPT ![c] = k]
  BY DEF Move
<1>2. /\ DOMAIN k = DOMAIN conn[c] /\ k.pc = pc
      /\ k.l = conn[c].l /\ k.src = conn[c].src
      /\ k.agent = conn[c].agent /\ k.gen = conn[c].gen
      /\ k.down = conn[c].down /\ k.up = conn[c].up
  BY Zenon DEF ConnType
<1> HIDE DEF k
<1>3. conn'[c] = k
  BY <1>1, Zenon
<1> QED
  BY <1>1, <1>2, <1>3, Zenon

\* The end of an admission, and the policy: the connection moves on and the
\* listener stays as it is.
LEMMA AdmissionMoves ==
  ASSUME RelayInv, NEW c \in Conns, conn[c].pc \in {"policy", "taking"},
         NEW pc \in {"taking", "refused"}, Move(c, pc),
         exempt' = exempt \/ exempt' = exempt \cup {c},
         pc = "taking" => conn[c].src \in lst[conn[c].l].permit \/ c \in exempt',
         UNCHANGED <<manager, lst, inUse, hold>>
  PROVE  RelayInv'
<1> DEFINE l == conn[c].l
           m == lst[l]
<1>1. /\ conn[c].pc # "none" /\ conn[c].pc \in Admission
      /\ conn[c].pc \notin Charged /\ conn[c].pc \notin Pending
      /\ pc \in Admission /\ pc \notin Charged /\ pc \notin Pending
      /\ pc # "none" /\ pc \notin {"dial", "tracking", "piping", "delivering"}
  BY DEF Admission, Charged, Pending
<1>2. /\ l \in Listeners /\ ListenerType(m) /\ ListenerInv(l)
      /\ ConnType(conn[c]) /\ ConnInv(c) /\ m.serve # "none" /\ m.admitting = c
      /\ c \notin m.conns /\ c \notin m.delivering
  <2>1. conn[c].pc # "piping" /\ conn[c].pc # "delivering"
    OBVIOUS
  <2> QED
    BY <1>1, <2>1, WorkerFacts, Zenon
<1>3. /\ DOMAIN conn' = Conns /\ \A d \in Conns \ {c} : conn'[d] = conn[d]
      /\ DOMAIN conn'[c] = DOMAIN conn[c] /\ conn'[c].pc = pc
      /\ conn'[c].l = conn[c].l /\ conn'[c].src = conn[c].src
      /\ conn'[c].agent = conn[c].agent /\ conn'[c].gen = conn[c].gen
      /\ conn'[c].down = conn[c].down /\ conn'[c].up = conn[c].up
  BY <1>2, Parts, MoveFields, Zenon
<1>4. Frame(c, l, m)
  BY <1>3, Parts, Zenon DEF Frame
<1>5. LocalListener(c, l, m)
  BY <1>1, SameListener, Zenon
<1>6. LocalConn(c, l, m)
  <2>1. ConnType(conn'[c])
    BY <1>1, <1>2, <1>3, Zenon DEF ConnType
  <2>2. ConnInv(c)'
    <3>1. ~m.closed => /\ conn[c].gen <= m.gen
                       /\ conn[c].gen = m.gen => conn[c].agent = m.rule.agent
      BY <1>1, <1>2, Zenon DEF ConnInv
    <3> QED
      BY <1>1, <1>2, <1>3, <3>1, AdmissionConn, Zenon
  <2> QED
    BY <1>1, <1>2, <1>3, <2>1, <2>2, Zenon DEF LocalConn
<1>7. LocalCounts(c, l, m)
  <2>1. /\ c \notin ChargedConns /\ c \notin ChargedConns'
        /\ c \notin PendingAt(l) /\ c \notin PendingAfter(l)
    BY <1>1, <1>3, Zenon DEF ChargedConns, PendingAt, PendingAfter, Workers
  <2>2. m.pending \in Nat /\ inUse \in Nat /\ inUse <= Limit /\ inUse' = inUse
    BY <1>2, Parts, Zenon DEF ListenerType
  <2> HIDE DEF m, l
  <2> QED
    BY <2>1, <2>2 DEF LocalCounts, One, m
<1> QED
  BY <1>2, <1>4, <1>5, <1>6, <1>7, LocalKeeps, Zenon

LEMMA PolicyStep ==
  ASSUME RelayInv, NEW c \in Conns, Policy(c)
  PROVE  RelayInv'
<1>1. conn[c].pc = "policy" /\ UNCHANGED <<manager, lst, inUse, hold>>
  BY Zenon DEF Policy, At
<1>2. CASE Move(c, "refused") /\ UNCHANGED exempt
  <2>1. "refused" # "taking"
    OBVIOUS
  <2> QED
    BY <1>1, <1>2, <2>1, AdmissionMoves, Zenon
<1>3. CASE /\ Move(c, "taking")
           /\ exempt' = IF conn[c].src \in lst[conn[c].l].permit
                        THEN exempt ELSE exempt \cup {c}
  <2>1. /\ exempt' = exempt \/ exempt' = exempt \cup {c}
        /\ conn[c].src \in lst[conn[c].l].permit \/ c \in exempt'
    BY <1>3, Zenon
  <2> QED
    BY <1>1, <1>3, <2>1, AdmissionMoves, Zenon
<1> QED
  BY <1>2, <1>3, Zenon DEF Policy

\* What the invariant asks of a connection that has passed admission.
LEMMA ChargedConn ==
  ASSUME NEW c \in Conns, NEW l \in Listeners, conn'[c].l = l,
         conn'[c].pc \in Charged, lst'[l].serve # "none",
         ~lst'[l].closed =>
           /\ conn'[c].gen <= lst'[l].gen
           /\ conn'[c].gen = lst'[l].gen => conn'[c].agent = lst'[l].rule.agent,
         Relaying(c)' =>
           /\ c \in lst'[l].conns \/ c \in lst'[l].delivering
           /\ conn'[c].agent = lst'[l].rule.agent,
         conn'[c].pc \in {"dial", "tracking"} \/ Relaying(c)' =>
           lst'[l].closed \/ conn'[c].src \in lst'[l].permit \/ c \in exempt'
  PROVE  ConnInv(c)'
<1>1. /\ conn'[c].pc # "none" /\ conn'[c].pc \notin Admission
      /\ conn'[c].pc \in {"taking", "dial", "tracking"} =>
           conn'[c].pc \in {"dial", "tracking"}
  BY DEF Admission, Charged, Pending
<1> QED
  BY <1>1, Zenon DEF ConnInv, Recorded

\* A step of a worker that lives on: its listener is not collected.
LEMMA WorkerStep ==
  ASSUME RelayInv, NEW c \in Conns, NEW l \in Listeners, NEW m,
         conn[c].l = l, conn[c].pc # "none", conn'[c].pc \in Charged,
         lst' = [lst EXCEPT ![l] = m], DOMAIN conn' = Conns,
         \A d \in Conns \ {c} : conn'[d] = conn[d],
         UNCHANGED <<manager, hold, exempt>>,
         ConnType(conn'[c]), conn'[c].l = l, ConnInv(c)',
         LocalListener(c, l, m), m.admitting # c,
         c \in m.conns => conn'[c].pc = "piping",
         c \in m.delivering => conn'[c].pc = "delivering",
         inUse' = inUse + 1 - One(conn[c].pc \in Charged), inUse' <= Limit,
         m.pending = lst[l].pending + One(conn'[c].pc \in Pending)
                       - One(conn[c].pc \in Pending)
  PROVE  RelayInv'
<1>1. Frame(c, l, m)
  BY Parts, Zenon DEF Frame
<1>2. LocalConn(c, l, m)
  BY Zenon DEF LocalConn
<1>3. LocalCounts(c, l, m)
  <2>1. /\ c \in ChargedConns' /\ (c \in ChargedConns <=> conn[c].pc \in Charged)
        /\ c \in PendingAt(l) <=> conn[c].pc \in Pending
        /\ c \in PendingAfter(l) <=> conn'[c].pc \in Pending
    BY Zenon DEF ChargedConns, PendingAt, PendingAfter, Workers
  <2>2. /\ One(c \in ChargedConns') = 1
        /\ One(c \in ChargedConns) = One(conn[c].pc \in Charged)
        /\ One(c \in PendingAt(l)) = One(conn[c].pc \in Pending)
        /\ One(c \in PendingAfter(l)) = One(conn'[c].pc \in Pending)
    BY <2>1, Zenon DEF One
  <2> QED
    BY <2>2, Zenon DEF LocalCounts
<1> QED
  BY <1>1, <1>2, <1>3, LocalKeeps, Zenon

LEMMA AcquireStep ==
  ASSUME RelayInv, NEW c \in Conns, Acquire(c)
  PROVE  RelayInv'
<1> DEFINE l == conn[c].l
           m == [lst[l] EXCEPT !.admitting = None, !.pending = @ + 1,
                               !.serve = "accept"]
<1>1. conn[c].pc = "taking" /\ UNCHANGED <<manager, hold, exempt>>
  BY Zenon DEF Acquire, At
<1>2. CASE lst[l].stopping \/ Stale(c) \/ inUse = Limit
  <2>1. Move(c, "refused") /\ UNCHANGED <<lst, inUse>> /\ "refused" # "taking"
    BY <1>2 DEF Acquire
  <2> QED
    BY <1>1, <2>1, AdmissionMoves, Zenon
<1>3. CASE ~(lst[l].stopping \/ Stale(c) \/ inUse = Limit)
  <2>1. /\ Move(c, "dial") /\ lst' = [lst EXCEPT ![l] = m]
        /\ inUse' = inUse + 1
    BY <1>3, Zenon DEF Acquire
  <2>2. /\ conn[c].pc # "none" /\ conn[c].pc \in Admission
        /\ conn[c].pc \notin Charged /\ conn[c].pc \notin Pending
        /\ "dial" \in Charged /\ "dial" \in Pending
        /\ conn[c].pc # "piping" /\ conn[c].pc # "delivering"
    BY <1>1 DEF Admission, Charged, Pending
  <2>3. /\ l \in Listeners /\ ListenerType(lst[l]) /\ ListenerInv(l)
        /\ ConnType(conn[c]) /\ ConnInv(c) /\ lst[l].admitting = c
        /\ lst[l].serve = "admit" /\ l \in OnPorts
        /\ c \notin lst[l].conns /\ c \notin lst[l].delivering
    BY <2>2, WorkerFacts, Zenon
  <2>4. /\ DOMAIN m = DOMAIN lst[l] /\ m.serve = "accept" /\ m.admitting = None
        /\ m.rule = lst[l].rule /\ m.permit = lst[l].permit
        /\ m.stopping = lst[l].stopping /\ m.closed = lst[l].closed
        /\ m.gen = lst[l].gen /\ m.pending = lst[l].pending + 1
        /\ m.conns = lst[l].conns /\ m.delivering = lst[l].delivering
    BY <2>3, Zenon DEF ListenerType
  <2> HIDE DEF m
  <2>5. /\ DOMAIN conn' = Conns /\ \A d \in Conns \ {c} : conn'[d] = conn[d]
        /\ DOMAIN conn'[c] = DOMAIN conn[c] /\ conn'[c].pc = "dial"
        /\ conn'[c].l = conn[c].l /\ conn'[c].src = conn[c].src
        /\ conn'[c].agent = conn[c].agent /\ conn'[c].gen = conn[c].gen
        /\ conn'[c].down = conn[c].down /\ conn'[c].up = conn[c].up
    BY <2>1, <2>3, Parts, MoveFields, Zenon
  <2>6. lst'[l] = m
    BY <2>1, <2>3, Parts, Zenon
  <2>7. ~lst[l].closed /\ lst[l].gen = conn[c].gen /\ lst[l].pending \in Nat
    BY <1>3, <2>3, Zenon DEF Stale, ListenerType
  <2>8. ListenerType(m)
    <3>1. m.pending \in Nat
      BY <2>4, <2>7
    <3> QED
      BY <2>3, <2>4, <3>1, Zenon DEF ListenerType
  <2>9. LocalListener(c, l, m)
    BY <2>3, <2>4, <2>7, <2>8, RelayAssumption, Zenon DEF LocalListener
  <2>10. ConnType(conn'[c])
    BY <2>2, <2>3, <2>5, Zenon DEF ConnType
  <2>11. ConnInv(c)'
    <3>1. /\ conn[c].gen <= lst[l].gen
          /\ conn[c].gen = lst[l].gen => conn[c].agent = lst[l].rule.agent
          /\ conn[c].src \in lst[l].permit \/ c \in exempt
      BY <1>1, <2>2, <2>3, <2>7, Zenon DEF ConnInv
    <3>2. ~Relaying(c)'
      BY <2>5 DEF Relaying
    <3> QED
      BY <1>1, <2>2, <2>3, <2>4, <2>5, <2>6, <3>1, <3>2, ChargedConn, Zenon
  <2>12. /\ inUse' = inUse + 1 - One(conn[c].pc \in Charged) /\ inUse' <= Limit
         /\ m.pending = lst[l].pending + One(conn'[c].pc \in Pending)
                          - One(conn[c].pc \in Pending)
    <3>1. /\ One(conn[c].pc \in Charged) = 0 /\ One(conn'[c].pc \in Pending) = 1
          /\ One(conn[c].pc \in Pending) = 0
      BY <2>2, <2>5, Zenon DEF One
    <3>2. inUse \in Nat /\ inUse <= Limit /\ Limit \in Nat /\ inUse # Limit
      BY <1>3, Parts, Zenon
    <3> QED
      BY <2>1, <2>4, <2>7, <3>1, <3>2
  <2>13. None # c
    BY RelayAssumption, Zenon
  <2> QED
    BY <1>1, <2>1, <2>2, <2>3, <2>4, <2>5, <2>9, <2>10, <2>11, <2>12, <2>13,
       WorkerStep, Zenon
<1> QED
  BY <1>2, <1>3, Zenon

\* The end of a connection: it holds nothing any more.
LEMMA NoConnInv ==
  ASSUME NEW c \in Conns, conn'[c] = NoConn
  PROVE  ConnType(conn'[c]) /\ ConnInv(c)'
<1>1. /\ conn'[c].pc = "none" /\ ConnType(conn'[c])
      /\ "none" \notin {"piping", "delivering"} /\ "none" \notin Admission
      /\ "none" \notin {"taking", "dial", "tracking"}
  <2>1. /\ "none" \notin {"piping", "delivering"} /\ "none" \notin Admission
        /\ "none" \notin {"taking", "dial", "tracking"}
    BY DEF Admission
  <2> QED
    BY <2>1, NoneRecords, Zenon
<1>2. ~Relaying(c)'
  BY <1>1, Zenon DEF Relaying
<1> QED
  BY <1>1, <1>2, Zenon DEF ConnInv

LEMMA RefuseStep ==
  ASSUME RelayInv, NEW c \in Conns, Refuse(c)
  PROVE  RelayInv'
<1> DEFINE l == conn[c].l
           m == [lst[l] EXCEPT !.admitting = None, !.serve = "accept"]
<1>1. /\ conn[c].pc = "refused" /\ conn' = [conn EXCEPT ![c] = NoConn]
      /\ lst' = [lst EXCEPT ![l] = m] /\ exempt' = exempt \ {c}
      /\ UNCHANGED <<manager, inUse, hold>>
  BY Zenon DEF Refuse, At
<1>2. /\ conn[c].pc # "none" /\ conn[c].pc \in Admission
      /\ conn[c].pc \notin Charged /\ conn[c].pc \notin Pending
      /\ conn[c].pc # "piping" /\ conn[c].pc # "delivering"
      /\ "none" \notin Charged /\ "none" \notin Pending
  BY <1>1 DEF Admission, Charged, Pending
<1>3. /\ l \in Listeners /\ ListenerType(lst[l]) /\ ListenerInv(l)
      /\ lst[l].admitting = c /\ lst[l].serve = "admit" /\ l \in OnPorts
      /\ c \notin lst[l].conns /\ c \notin lst[l].delivering
      /\ lst[l].closed => lst[l].conns = {} /\ lst[l].delivering = {}
  BY <1>2, WorkerFacts, Zenon
<1>4. /\ DOMAIN m = DOMAIN lst[l] /\ m.serve = "accept" /\ m.admitting = None
      /\ m.rule = lst[l].rule /\ m.permit = lst[l].permit
      /\ m.stopping = lst[l].stopping /\ m.closed = lst[l].closed
      /\ m.gen = lst[l].gen /\ m.pending = lst[l].pending
      /\ m.conns = lst[l].conns /\ m.delivering = lst[l].delivering
  BY <1>3, Zenon DEF ListenerType
<1> HIDE DEF m
<1>5. conn'[c] = NoConn /\ conn'[c].pc = "none" /\ conn'[c].l = None
  BY <1>1, Parts, NoneRecords, Zenon
<1>6. Frame(c, l, m)
  BY <1>1, <1>3, Parts, Zenon DEF Frame
<1>7. LocalListener(c, l, m)
  <2>1. ListenerType(m)
    BY <1>3, <1>4, Zenon DEF ListenerType
  <2> QED
    BY <1>3, <1>4, <2>1, RelayAssumption, Zenon DEF LocalListener
<1>8. LocalConn(c, l, m)
  <2>1. c # None
    BY RelayAssumption, Zenon
  <2> QED
    BY <1>3, <1>4, <1>5, <2>1, NoConnInv, Zenon DEF LocalConn
<1>9. LocalCounts(c, l, m)
  <2>1. /\ c \notin ChargedConns /\ c \notin ChargedConns'
        /\ c \notin PendingAt(l) /\ c \notin PendingAfter(l)
    BY <1>2, <1>5, Zenon DEF ChargedConns, PendingAt, PendingAfter, Workers
  <2>2. lst[l].pending \in Nat /\ inUse \in Nat /\ inUse <= Limit /\ inUse' = inUse
    BY <1>1, <1>3, Parts, Zenon DEF ListenerType
  <2> QED
    BY <1>4, <2>1, <2>2 DEF LocalCounts, One
<1> QED
  BY <1>3, <1>6, <1>7, <1>8, <1>9, LocalKeeps, Zenon

----------------------------------------------------------------------------
(* The workers.                                                            *)

\* Done: the worker gives back what it holds, and the collector takes the
\* listeners nobody refers to.
LEMMA DoneStep ==
  ASSUME RelayInv, NEW c \in Conns, NEW l \in Listeners, NEW m,
         conn[c].l = l, conn[c].pc \in Charged, NEW L,
         L[l] = m, \A x \in Listeners \ {l} : L[x] = lst[x],
         Done(c, L), UNCHANGED <<manager, hold>>,
         LocalListener(c, l, m), m.admitting # c, c \notin m.conns, c \notin m.delivering,
         m.pending = lst[l].pending - One(conn[c].pc \in Pending)
  PROVE  RelayInv'
<1>1. /\ conn' = [conn EXCEPT ![c] = NoConn] /\ inUse' = inUse - 1
      /\ lst' = Collected(L, Known \cup mgr.stopped, conn') /\ exempt' = exempt \ {c}
  BY Zenon DEF Done
<1>2. /\ DOMAIN lst = Listeners /\ DOMAIN conn = Conns /\ exempt \subseteq Conns
      /\ inUse \in Nat /\ inUse <= Limit /\ Limit \in Nat
  BY Parts, Zenon
<1>3. conn'[c] = NoConn /\ conn'[c].pc = "none" /\ conn'[c].l = None
  BY <1>1, <1>2, NoneRecords, Zenon
<1>4. DOMAIN lst' = Listeners /\ \A x \in Listeners : lst'[x] = L[x] \/ Gone(x)
  BY <1>1, Zenon DEF Collected, Gone
<1>5. Frame(c, l, m)
  BY <1>1, <1>2, <1>4, Zenon DEF Frame
<1>6. LocalConn(c, l, m)
  BY <1>3, NoConnInv, Zenon DEF LocalConn
<1>7. LocalCounts(c, l, m)
  <2>1. "none" \notin Charged /\ "none" \notin Pending
    BY DEF Charged, Pending
  <2>2. /\ c \in ChargedConns /\ c \notin ChargedConns'
        /\ c \in PendingAt(l) <=> conn[c].pc \in Pending
        /\ c \notin PendingAfter(l)
    BY <1>3, <2>1, Zenon DEF ChargedConns, PendingAt, PendingAfter, Workers
  <2>3. /\ One(c \in ChargedConns) = 1 /\ One(c \in ChargedConns') = 0
        /\ One(c \in PendingAt(l)) = One(conn[c].pc \in Pending)
        /\ One(c \in PendingAfter(l)) = 0
        /\ One(conn[c].pc \in Pending) \in {0, 1}
    BY <2>2, Zenon DEF One
  <2>4. lst[l].pending \in Nat
    BY Parts, Zenon DEF ListenerType
  <2> QED
    BY <1>1, <1>2, <2>3, <2>4 DEF LocalCounts
<1> QED
  BY <1>5, <1>6, <1>7, LocalKeeps, Zenon

\* What the listener of a worker keeps when only the records and the count
\* change.
LEMMA WorkerListener ==
  ASSUME RelayInv, NEW c \in Conns, NEW l \in Listeners, NEW m,
         conn[c].l = l, conn[c].pc \in Charged,
         DOMAIN m = DOMAIN lst[l], m.serve = lst[l].serve,
         m.admitting = lst[l].admitting, m.rule = lst[l].rule,
         m.permit = lst[l].permit, m.stopping = lst[l].stopping,
         m.closed = lst[l].closed, m.gen = lst[l].gen,
         m.pending = lst[l].pending \/
           (conn[c].pc \in Pending /\ m.pending = lst[l].pending - 1),
         m.conns \subseteq Conns, m.delivering \subseteq Conns,
         \A d \in Conns \ {c} : /\ d \in m.conns <=> d \in lst[l].conns
                                /\ d \in m.delivering <=> d \in lst[l].delivering,
         m.closed => c \notin m.conns /\ c \notin m.delivering
  PROVE  LocalListener(c, l, m) /\ m.admitting # c
<1>1. conn[c].pc # "none" /\ conn[c].pc \notin Admission
  BY DEF Charged, Pending, Admission
<1>2. /\ ListenerType(lst[l]) /\ ListenerInv(l) /\ lst[l].serve # "none"
      /\ l \notin OnPorts => lst[l].serve = "done"
      /\ lst[l].closed => lst[l].conns = {} /\ lst[l].delivering = {}
      /\ lst[l].admitting # c
  BY <1>1, WorkerFacts, Zenon
<1>3. m.pending \in Nat
  <2>1. lst[l].pending = Cardinality(PendingAt(l)) /\ lst[l].pending \in Nat
    BY <1>2, Zenon DEF RelayInv, CountsHold, PendingAt, ListenerType
  <2>2. CASE conn[c].pc \in Pending
    <3>1. c \in PendingAt(l)
      BY <2>2, Zenon DEF PendingAt, Workers
    <3>2. Cardinality(PendingAt(l)) # 0
      BY <3>1, CountedFinite, FS_EmptySet, Zenon
    <3> QED
      BY <2>1, <3>2
  <2> QED
    BY <2>1, <2>2
<1>4. ListenerType(m)
  BY <1>2, <1>3, Zenon DEF ListenerType
<1>5. lst[l].admitting # None <=> lst[l].serve = "admit"
  BY <1>2, Zenon DEF ListenerInv
<1>6. m.closed => m.conns = {} /\ m.delivering = {}
  BY <1>2, SMT
<1> QED
  BY <1>2, <1>4, <1>5, <1>6, Zenon DEF LocalListener

\* A worker's listener with one less pending.
LEMMA LessPending ==
  ASSUME RelayInv, NEW c \in Conns, NEW l \in Listeners, conn[c].l = l,
         conn[c].pc \in Pending
  PROVE  LET m == [lst[l] EXCEPT !.pending = @ - 1]
         IN  /\ LocalListener(c, l, m) /\ m.admitting # c
             /\ c \notin m.conns /\ c \notin m.delivering
             /\ m.pending = lst[l].pending - 1
             /\ m.gen = lst[l].gen /\ m.rule = lst[l].rule
             /\ m.permit = lst[l].permit /\ m.closed = lst[l].closed
             /\ m.serve # "none"
<1> DEFINE m == [lst[l] EXCEPT !.pending = @ - 1]
<1>1. /\ conn[c].pc # "none" /\ conn[c].pc \in Charged
      /\ conn[c].pc # "piping" /\ conn[c].pc # "delivering"
  BY DEF Pending, Charged
<1>2. /\ ListenerType(lst[l]) /\ c \notin lst[l].conns /\ c \notin lst[l].delivering
      /\ lst[l].serve # "none"
  BY <1>1, WorkerFacts, Zenon
<1>3. /\ DOMAIN m = DOMAIN lst[l] /\ m.serve = lst[l].serve
      /\ m.admitting = lst[l].admitting
      /\ m.rule = lst[l].rule /\ m.permit = lst[l].permit
      /\ m.stopping = lst[l].stopping /\ m.closed = lst[l].closed
      /\ m.gen = lst[l].gen /\ m.pending = lst[l].pending - 1
      /\ m.conns = lst[l].conns /\ m.delivering = lst[l].delivering
  BY <1>2, Zenon DEF ListenerType
<1> HIDE DEF m
<1>4. m.conns \subseteq Conns /\ m.delivering \subseteq Conns
  BY <1>2, <1>3, Zenon DEF ListenerType
<1>5. LocalListener(c, l, m) /\ m.admitting # c
  BY <1>1, <1>2, <1>3, <1>4, WorkerListener, Zenon
<1> QED
  BY <1>2, <1>3, <1>5, Zenon DEF m

LEMMA UnpendStep ==
  ASSUME RelayInv, NEW c \in Conns, Unpend(c)
  PROVE  RelayInv'
<1> DEFINE l == conn[c].l
           m == [lst[l] EXCEPT !.pending = @ - 1]
           L == [lst EXCEPT ![l] = m]
<1>1. conn[c].pc = "unpend" /\ Done(c, L) /\ UNCHANGED <<manager, hold>>
  BY Zenon DEF Unpend, At
<1>2. conn[c].pc \in Pending /\ conn[c].pc \in Charged /\ conn[c].pc # "none"
  BY <1>1 DEF Pending, Charged
<1>3. l \in Listeners /\ DOMAIN lst = Listeners
  BY <1>2, Parts, WorkerFacts, Zenon
<1>4. /\ LocalListener(c, l, m) /\ m.admitting # c
      /\ c \notin m.conns /\ c \notin m.delivering
      /\ m.pending = lst[l].pending - One(conn[c].pc \in Pending)
  BY <1>2, <1>3, LessPending, Zenon DEF One
<1> HIDE DEF m
<1>5. L[l] = m /\ \A x \in Listeners \ {l} : L[x] = lst[x]
  BY <1>3, Zenon
<1> HIDE DEF L
<1> QED
  BY <1>1, <1>2, <1>3, <1>4, <1>5, DoneStep, Zenon

\* A record that is taken out.
LEMMA LessRecords ==
  ASSUME RelayInv, NEW c \in Conns, NEW l \in Listeners, conn[c].l = l,
         conn[c].pc \in {"piping", "delivering"}, NEW m,
         \/ m = [lst[l] EXCEPT !.conns = @ \ {c}] /\ conn[c].pc = "piping"
         \/ m = [lst[l] EXCEPT !.delivering = @ \ {c}] /\ conn[c].pc = "delivering"
  PROVE  /\ LocalListener(c, l, m) /\ m.admitting # c
         /\ c \notin m.conns /\ c \notin m.delivering
         /\ m.pending = lst[l].pending - One(conn[c].pc \in Pending)
<1>1. /\ conn[c].pc # "none" /\ conn[c].pc \in Charged /\ conn[c].pc \notin Pending
      /\ "piping" # "delivering"
  BY DEF Pending, Charged
<1>2. /\ ListenerType(lst[l])
      /\ c \in lst[l].conns => conn[c].pc = "piping"
      /\ c \in lst[l].delivering => conn[c].pc = "delivering"
  BY <1>1, WorkerFacts, Zenon
<1>3. /\ DOMAIN m = DOMAIN lst[l] /\ m.serve = lst[l].serve
      /\ m.admitting = lst[l].admitting
      /\ m.rule = lst[l].rule /\ m.permit = lst[l].permit
      /\ m.stopping = lst[l].stopping /\ m.closed = lst[l].closed
      /\ m.gen = lst[l].gen /\ m.pending = lst[l].pending
      /\ \/ /\ m.conns = lst[l].conns \ {c} /\ m.delivering = lst[l].delivering
            /\ conn[c].pc = "piping"
         \/ /\ m.conns = lst[l].conns /\ m.delivering = lst[l].delivering \ {c}
            /\ conn[c].pc = "delivering"
  BY <1>2, Zenon DEF ListenerType
<1>4. c \notin m.conns /\ c \notin m.delivering
  BY <1>1, <1>2, <1>3, Zenon
<1>5. m.conns \subseteq Conns /\ m.delivering \subseteq Conns
  BY <1>2, <1>3, Zenon DEF ListenerType
<1>6. \A d \in Conns \ {c} : /\ d \in m.conns <=> d \in lst[l].conns
                             /\ d \in m.delivering <=> d \in lst[l].delivering
  BY <1>3, Zenon
<1>7. LocalListener(c, l, m) /\ m.admitting # c
  <2>1. /\ DOMAIN m = DOMAIN lst[l] /\ m.serve = lst[l].serve
        /\ m.admitting = lst[l].admitting
        /\ m.rule = lst[l].rule /\ m.permit = lst[l].permit
        /\ m.stopping = lst[l].stopping /\ m.closed = lst[l].closed
        /\ m.gen = lst[l].gen /\ m.pending = lst[l].pending
    BY <1>3, Zenon
  <2> QED
    BY <1>1, <1>4, <1>5, <1>6, <2>1, WorkerListener, SMT
<1>8. m.pending = lst[l].pending - One(conn[c].pc \in Pending)
  <2>1. One(conn[c].pc \in Pending) = 0
    BY <1>1, Zenon DEF One
  <2>2. lst[l].pending \in Nat
    BY <1>2, Zenon DEF ListenerType
  <2> QED
    BY <1>3, <2>1, <2>2
<1> QED
  BY <1>4, <1>7, <1>8, Zenon

LEMMA EndDeliveryStep ==
  ASSUME RelayInv, NEW c \in Conns, EndDelivery(c)
  PROVE  RelayInv'
<1> DEFINE l == conn[c].l
           m == [lst[l] EXCEPT !.delivering = @ \ {c}]
           L == [lst EXCEPT ![l] = m]
<1>1. conn[c].pc = "delivering" /\ Done(c, L) /\ UNCHANGED <<manager, hold>>
  BY Zenon DEF EndDelivery, At
<1>2. conn[c].pc \in Charged /\ conn[c].pc # "none"
  BY <1>1 DEF Charged
<1>3. l \in Listeners /\ DOMAIN lst = Listeners
  BY <1>2, Parts, WorkerFacts, Zenon
<1>4. /\ LocalListener(c, l, m) /\ m.admitting # c
      /\ c \notin m.conns /\ c \notin m.delivering
      /\ m.pending = lst[l].pending - One(conn[c].pc \in Pending)
  BY <1>1, <1>3, LessRecords, Zenon
<1> HIDE DEF m
<1>5. L[l] = m /\ \A x \in Listeners \ {l} : L[x] = lst[x]
  BY <1>3, Zenon
<1> HIDE DEF L
<1> QED
  BY <1>1, <1>2, <1>3, <1>4, <1>5, DoneStep, Zenon

\* A worker that goes on moves to its next place.
LEMMA WorkerMoves ==
  ASSUME RelayInv, NEW c \in Conns, NEW l \in Listeners, NEW m,
         conn[c].l = l, conn[c].pc \in Charged, conn'[c].pc \in Charged,
         lst' = [lst EXCEPT ![l] = m], DOMAIN conn' = Conns,
         \A d \in Conns \ {c} : conn'[d] = conn[d],
         UNCHANGED <<manager, hold, exempt, inUse>>,
         ConnType(conn'[c]), conn'[c].l = l, ConnInv(c)',
         LocalListener(c, l, m), m.admitting # c,
         c \in m.conns => conn'[c].pc = "piping",
         c \in m.delivering => conn'[c].pc = "delivering",
         m.pending = lst[l].pending + One(conn'[c].pc \in Pending)
                       - One(conn[c].pc \in Pending)
  PROVE  RelayInv'
<1>1. conn[c].pc # "none"
  BY DEF Charged, Pending
<1>2. inUse' = inUse + 1 - One(conn[c].pc \in Charged) /\ inUse' <= Limit
  <2>1. One(conn[c].pc \in Charged) = 1
    BY Zenon DEF One
  <2>2. inUse \in Nat /\ inUse <= Limit /\ inUse' = inUse
    BY Parts, Zenon
  <2> QED
    BY <2>1, <2>2
<1> QED
  BY <1>1, <1>2, WorkerStep, Zenon

LEMMA PipeEndsStep ==
  ASSUME RelayInv, NEW c \in Conns, PipeEnds(c)
  PROVE  RelayInv'
<1> DEFINE l == conn[c].l
<1>1. conn[c].pc = "piping" /\ UNCHANGED <<manager, hold>>
  BY Zenon DEF PipeEnds, At
<1>2. /\ conn[c].pc \in Charged /\ conn[c].pc # "none" /\ conn[c].pc \notin Pending
      /\ "delivering" \in Charged /\ "delivering" \notin Pending
      /\ "delivering" # "piping"
      /\ "delivering" \notin {"dial", "tracking"}
  BY <1>1 DEF Charged, Pending
<1>3. /\ l \in Listeners /\ DOMAIN lst = Listeners /\ DOMAIN conn = Conns
      /\ ListenerType(lst[l]) /\ ListenerInv(l) /\ ConnType(conn[c]) /\ ConnInv(c)
      /\ lst[l].serve # "none" /\ c \notin lst[l].delivering
      /\ lst[l].closed => lst[l].conns = {}
  BY <1>1, <1>2, Parts, WorkerFacts, Zenon
<1>4. CASE hold /\ c \in lst[l].conns
  <2> DEFINE m == [lst[l] EXCEPT !.conns = @ \ {c}, !.delivering = @ \cup {c}]
  <2>1. /\ Move(c, "delivering") /\ lst' = [lst EXCEPT ![l] = m]
        /\ UNCHANGED <<inUse, exempt>>
    BY <1>4, Zenon DEF PipeEnds
  <2>2. /\ DOMAIN m = DOMAIN lst[l] /\ m.serve = lst[l].serve
        /\ m.admitting = lst[l].admitting
        /\ m.rule = lst[l].rule /\ m.permit = lst[l].permit
        /\ m.stopping = lst[l].stopping /\ m.closed = lst[l].closed
        /\ m.gen = lst[l].gen /\ m.pending = lst[l].pending
        /\ m.conns = lst[l].conns \ {c} /\ m.delivering = lst[l].delivering \cup {c}
    BY <1>3, Zenon DEF ListenerType
  <2> HIDE DEF m
  <2>3. /\ DOMAIN conn' = Conns /\ \A d \in Conns \ {c} : conn'[d] = conn[d]
        /\ DOMAIN conn'[c] = DOMAIN conn[c] /\ conn'[c].pc = "delivering"
        /\ conn'[c].l = conn[c].l /\ conn'[c].src = conn[c].src
        /\ conn'[c].agent = conn[c].agent /\ conn'[c].gen = conn[c].gen
        /\ conn'[c].down = conn[c].down /\ conn'[c].up = conn[c].up
    BY <1>3, <2>1, MoveFields, Zenon
  <2>4. lst'[l] = m /\ ~lst[l].closed
    BY <1>3, <1>4, <2>1, Zenon
  <2>5. LocalListener(c, l, m) /\ m.admitting # c
    <3>1. m.conns \subseteq Conns /\ m.delivering \subseteq Conns
      BY <1>3, <2>2, Zenon DEF ListenerType
    <3>2. \A d \in Conns \ {c} : /\ d \in m.conns <=> d \in lst[l].conns
                                 /\ d \in m.delivering <=> d \in lst[l].delivering
      BY <2>2, Zenon
    <3> QED
      BY <1>2, <1>3, <2>2, <2>4, <3>1, <3>2, WorkerListener, Zenon
  <2>6. ConnType(conn'[c])
    BY <1>2, <1>3, <2>3, Zenon DEF ConnType
  <2>7. ConnInv(c)'
    <3>1. Relaying(c)' => Relaying(c)
      BY <1>1, <2>3, Zenon DEF Relaying, Uncut
    <3>2. /\ conn[c].gen <= lst[l].gen
          /\ conn[c].gen = lst[l].gen => conn[c].agent = lst[l].rule.agent
          /\ Relaying(c) => conn[c].agent = lst[l].rule.agent
          /\ Relaying(c) => conn[c].src \in lst[l].permit \/ c \in exempt
      BY <1>2, <1>3, <2>4, Zenon DEF ConnInv
    <3>3. c \in m.delivering
      BY <2>2, Zenon
    <3> QED
      BY <1>2, <1>3, <2>1, <2>2, <2>3, <2>4, <3>1, <3>2, <3>3, ChargedConn, Zenon
  <2>8. m.pending = lst[l].pending + One(conn'[c].pc \in Pending)
                      - One(conn[c].pc \in Pending)
    <3>1. One(conn[c].pc \in Pending) = 0 /\ One(conn'[c].pc \in Pending) = 0
      BY <1>2, <2>3, Zenon DEF One
    <3>2. lst[l].pending \in Nat
      BY <1>3, Zenon DEF ListenerType
    <3> QED
      BY <2>2, <3>1, <3>2
  <2>9. c \notin m.conns
    BY <2>2, Zenon
  <2> QED
    BY <1>1, <1>2, <1>3, <2>1, <2>3, <2>5, <2>6, <2>7, <2>8, <2>9, WorkerMoves, Zenon
<1>5. CASE ~(hold /\ c \in lst[l].conns)
  <2> DEFINE m == [lst[l] EXCEPT !.conns = @ \ {c}]
             L == [lst EXCEPT ![l] = m]
  <2>1. Done(c, L)
    BY <1>5, Zenon DEF PipeEnds
  <2>2. /\ LocalListener(c, l, m) /\ m.admitting # c
        /\ c \notin m.conns /\ c \notin m.delivering
        /\ m.pending = lst[l].pending - One(conn[c].pc \in Pending)
    BY <1>1, <1>3, LessRecords, Zenon
  <2> HIDE DEF m
  <2>3. L[l] = m /\ \A x \in Listeners \ {l} : L[x] = lst[x]
    BY <1>3, Zenon
  <2> HIDE DEF L
  <2> QED
    BY <1>1, <1>2, <1>3, <2>1, <2>2, <2>3, DoneStep, Zenon
<1> QED
  BY <1>4, <1>5, Zenon

\* finishPending and track: a worker whose generation is the listener's goes
\* on record.
LEMMA RecordStep ==
  ASSUME RelayInv, NEW c \in Conns, NEW l \in Listeners, NEW m, conn[c].l = l,
         conn[c].pc \in {"dial", "tracking"}, ~Stale(c),
         conn'[c].pc \in {"piping", "delivering"}, DOMAIN conn' = Conns,
         \A d \in Conns \ {c} : conn'[d] = conn[d],
         DOMAIN conn'[c] = DOMAIN conn[c], conn'[c].l = conn[c].l,
         conn'[c].src = conn[c].src, conn'[c].agent = conn[c].agent,
         conn'[c].gen = conn[c].gen, conn'[c].down = conn[c].down,
         conn'[c].up \in {"none", "open", "reset"},
         lst' = [lst EXCEPT ![l] = m], UNCHANGED <<manager, hold, exempt, inUse>>,
         DOMAIN m = DOMAIN lst[l], m.serve = lst[l].serve,
         m.admitting = lst[l].admitting, m.rule = lst[l].rule,
         m.permit = lst[l].permit, m.stopping = lst[l].stopping,
         m.closed = lst[l].closed, m.gen = lst[l].gen,
         m.pending = lst[l].pending - One(conn[c].pc \in Pending),
         m.conns = IF conn'[c].pc = "piping" THEN lst[l].conns \cup {c}
                                             ELSE lst[l].conns,
         m.delivering = IF conn'[c].pc = "piping" THEN lst[l].delivering
                                                  ELSE lst[l].delivering \cup {c}
  PROVE  RelayInv'
<1>1. /\ conn[c].pc \in Charged /\ conn[c].pc # "none"
      /\ conn[c].pc # "piping" /\ conn[c].pc # "delivering"
      /\ conn'[c].pc \in Charged /\ conn'[c].pc \notin Pending
      /\ conn'[c].pc # "piping" => conn'[c].pc = "delivering"
      /\ conn'[c].pc \notin {"dial", "tracking"}
      /\ conn[c].pc \in {"taking", "dial", "tracking"}
  BY DEF Charged, Pending
<1>2. /\ DOMAIN lst = Listeners /\ ListenerType(lst[l]) /\ ListenerInv(l)
      /\ ConnType(conn[c]) /\ ConnInv(c) /\ lst[l].serve # "none"
      /\ c \notin lst[l].conns /\ c \notin lst[l].delivering
  BY <1>1, Parts, WorkerFacts, Zenon
<1>3. ~lst[l].closed /\ lst[l].gen = conn[c].gen /\ lst'[l] = m
  BY <1>2, Zenon DEF Stale
<1>4. /\ m.conns \subseteq Conns /\ m.delivering \subseteq Conns
      /\ c \in m.conns \/ c \in m.delivering
      /\ c \in m.conns => conn'[c].pc = "piping"
      /\ c \in m.delivering => conn'[c].pc = "delivering"
      /\ \A d \in Conns \ {c} : /\ d \in m.conns <=> d \in lst[l].conns
                                /\ d \in m.delivering <=> d \in lst[l].delivering
  <2>1. lst[l].conns \subseteq Conns /\ lst[l].delivering \subseteq Conns
    BY <1>2, Zenon DEF ListenerType
  <2>2. CASE conn'[c].pc = "piping"
    <3>1. m.conns = lst[l].conns \cup {c} /\ m.delivering = lst[l].delivering
      BY <2>2, Zenon
    <3>2. c \in m.conns /\ c \notin m.delivering
      BY <1>2, <3>1, Zenon
    <3>3. m.conns \subseteq Conns /\ m.delivering \subseteq Conns
      BY <2>1, <3>1, Zenon
    <3>4. \A d \in Conns \ {c} : /\ d \in m.conns <=> d \in lst[l].conns
                                /\ d \in m.delivering <=> d \in lst[l].delivering
      BY <3>1, Zenon
    <3> QED
      BY <2>2, <3>2, <3>3, <3>4, Zenon
  <2>3. CASE conn'[c].pc # "piping"
    <3>1. m.conns = lst[l].conns /\ m.delivering = lst[l].delivering \cup {c}
      BY <2>3, Zenon
    <3>2. c \notin m.conns /\ c \in m.delivering /\ conn'[c].pc = "delivering"
      BY <1>1, <1>2, <2>3, <3>1, Zenon
    <3>3. m.conns \subseteq Conns /\ m.delivering \subseteq Conns
      BY <2>1, <3>1, Zenon
    <3>4. \A d \in Conns \ {c} : /\ d \in m.conns <=> d \in lst[l].conns
                                /\ d \in m.delivering <=> d \in lst[l].delivering
      BY <3>1, Zenon
    <3> QED
      BY <3>2, <3>3, <3>4, Zenon
  <2> QED
    BY <2>2, <2>3, Zenon
<1>5. LocalListener(c, l, m) /\ m.admitting # c
  <2>1. m.pending = lst[l].pending \/
          (conn[c].pc \in Pending /\ m.pending = lst[l].pending - 1)
    <3>1. lst[l].pending \in Nat
      BY <1>2, Zenon DEF ListenerType
    <3>2. CASE conn[c].pc \in Pending
      BY <3>1, <3>2 DEF One
    <3>3. CASE conn[c].pc \notin Pending
      BY <3>1, <3>3 DEF One
    <3> QED
      BY <3>2, <3>3, Zenon
  <2>2. m.closed => c \notin m.conns /\ c \notin m.delivering
    BY <1>3, Zenon
  <2> QED
    BY <1>1, <1>4, <2>1, <2>2, WorkerListener, Zenon
<1>6. ConnType(conn'[c])
  <2>1. conn'[c].pc \in {"none"} \cup Admission \cup Charged
    BY <1>1, Zenon
  <2> QED
    BY <1>2, <2>1, Zenon DEF ConnType
<1>7. ConnInv(c)'
  <2>1. /\ conn[c].gen <= lst[l].gen /\ conn[c].agent = lst[l].rule.agent
        /\ conn[c].src \in lst[l].permit \/ c \in exempt
    BY <1>1, <1>2, <1>3, Zenon DEF ConnInv
  <2>2. /\ conn'[c].gen <= lst'[l].gen /\ conn'[c].agent = lst'[l].rule.agent
        /\ conn'[c].src \in lst'[l].permit \/ c \in exempt'
        /\ lst'[l].serve # "none"
        /\ c \in lst'[l].conns \/ c \in lst'[l].delivering
    BY <1>2, <1>3, <1>4, <2>1, Zenon
  <2> QED
    BY <1>1, <2>2, ChargedConn, Zenon
<1>8. m.pending = lst[l].pending + One(conn'[c].pc \in Pending)
                    - One(conn[c].pc \in Pending)
  <2>1. One(conn'[c].pc \in Pending) = 0 /\ One(conn[c].pc \in Pending) \in {0, 1}
    BY <1>1, Zenon DEF One
  <2>2. lst[l].pending \in Nat
    BY <1>2, Zenon DEF ListenerType
  <2> QED
    BY <2>1, <2>2
<1> QED
  BY <1>1, <1>4, <1>5, <1>6, <1>7, <1>8, WorkerMoves, Zenon

LEMMA TrackStep ==
  ASSUME RelayInv, NEW c \in Conns, Track(c)
  PROVE  RelayInv'
<1> DEFINE l == conn[c].l
<1>1. conn[c].pc = "tracking" /\ UNCHANGED <<manager, hold>>
  BY Zenon DEF Track, At
<1>2. /\ conn[c].pc \in Charged /\ conn[c].pc # "none" /\ conn[c].pc \notin Pending
      /\ conn[c].pc \notin Admission /\ conn[c].pc # "piping"
      /\ conn[c].pc # "delivering"
  BY <1>1 DEF Charged, Pending, Admission
<1>3. /\ l \in Listeners /\ DOMAIN lst = Listeners /\ DOMAIN conn = Conns
      /\ ListenerType(lst[l]) /\ ConnType(conn[c]) /\ lst[l].admitting # c
      /\ c \notin lst[l].conns /\ c \notin lst[l].delivering
  BY <1>2, Parts, WorkerFacts, Zenon
<1>4. One(conn[c].pc \in Pending) = 0 /\ lst[l].pending \in Nat
  BY <1>2, <1>3, Zenon DEF One, ListenerType
<1>5. lst[l].pending = lst[l].pending - One(conn[c].pc \in Pending)
  BY <1>4
<1>6. CASE Stale(c)
  <2>1. Done(c, lst)
    BY <1>6, Zenon DEF Track
  <2>2. LocalListener(c, l, lst[l])
    BY <1>2, SameListener, Zenon
  <2> QED
    BY <1>1, <1>2, <1>3, <1>5, <2>1, <2>2, DoneStep, Zenon
<1>7. CASE ~Stale(c)
  <2> DEFINE m == [lst[l] EXCEPT !.conns = @ \cup {c}]
  <2>1. /\ Move(c, "piping") /\ lst' = [lst EXCEPT ![l] = m]
        /\ UNCHANGED <<inUse, exempt>>
    BY <1>7, Zenon DEF Track
  <2>2. /\ DOMAIN m = DOMAIN lst[l] /\ m.serve = lst[l].serve
        /\ m.admitting = lst[l].admitting
        /\ m.rule = lst[l].rule /\ m.permit = lst[l].permit
        /\ m.stopping = lst[l].stopping /\ m.closed = lst[l].closed
        /\ m.gen = lst[l].gen /\ m.pending = lst[l].pending
        /\ m.conns = lst[l].conns \cup {c} /\ m.delivering = lst[l].delivering
    BY <1>3, Zenon DEF ListenerType
  <2> HIDE DEF m
  <2>3. /\ DOMAIN conn' = Conns /\ \A d \in Conns \ {c} : conn'[d] = conn[d]
        /\ DOMAIN conn'[c] = DOMAIN conn[c] /\ conn'[c].pc = "piping"
        /\ conn'[c].l = conn[c].l /\ conn'[c].src = conn[c].src
        /\ conn'[c].agent = conn[c].agent /\ conn'[c].gen = conn[c].gen
        /\ conn'[c].down = conn[c].down /\ conn'[c].up = conn[c].up
    BY <1>3, <2>1, MoveFields, Zenon
  <2>4. conn'[c].up \in {"none", "open", "reset"}
    BY <1>3, <2>3, Zenon DEF ConnType
  <2> QED
    BY <1>1, <1>3, <1>5, <1>7, <2>1, <2>2, <2>3, <2>4, RecordStep, Zenon
<1> QED
  BY <1>6, <1>7, Zenon

LEMMA DialKernelStep ==
  ASSUME RelayInv, NEW c \in Conns, DialKernel(c)
  PROVE  RelayInv'
<1> DEFINE l == conn[c].l
           m == [lst[l] EXCEPT !.pending = @ - 1]
           L == [lst EXCEPT ![l] = m]
           k == [conn[c] EXCEPT !.pc = "tracking", !.up = "open"]
<1>1. /\ conn[c].pc = "dial" /\ UNCHANGED <<manager, hold>>
      /\ \/ Done(c, L)
         \/ /\ conn' = [conn EXCEPT ![c] = k] /\ lst' = L
            /\ UNCHANGED <<inUse, exempt>>
  BY Zenon DEF DialKernel, At
<1>2. /\ conn[c].pc \in Charged /\ conn[c].pc # "none" /\ conn[c].pc \in Pending
      /\ conn[c].pc \in {"taking", "dial", "tracking"}
      /\ "tracking" \in Charged /\ "tracking" \notin Pending
      /\ "tracking" \notin {"piping", "delivering"}
      /\ "tracking" # "piping" /\ "tracking" # "delivering"
  BY <1>1 DEF Charged, Pending
<1>3. /\ l \in Listeners /\ DOMAIN lst = Listeners /\ DOMAIN conn = Conns
      /\ ListenerType(lst[l]) /\ ConnType(conn[c]) /\ ConnInv(c)
  BY <1>2, Parts, WorkerFacts, Zenon
<1>4. /\ LocalListener(c, l, m) /\ m.admitting # c
      /\ c \notin m.conns /\ c \notin m.delivering
      /\ m.pending = lst[l].pending - 1
      /\ m.gen = lst[l].gen /\ m.rule = lst[l].rule
      /\ m.permit = lst[l].permit /\ m.closed = lst[l].closed
      /\ m.serve # "none"
  BY <1>2, <1>3, LessPending, Zenon
<1>5. One(conn[c].pc \in Pending) = 1
  BY <1>2, Zenon DEF One
<1> HIDE DEF m
<1>6. L[l] = m /\ \A x \in Listeners \ {l} : L[x] = lst[x]
  BY <1>3, Zenon
<1>7. CASE Done(c, L)
  <2> HIDE DEF L
  <2> QED
    BY <1>1, <1>2, <1>3, <1>4, <1>5, <1>6, <1>7, DoneStep, Zenon
<1>8. CASE conn' = [conn EXCEPT ![c] = k] /\ lst' = L /\ UNCHANGED <<inUse, exempt>>
  <2>1. /\ DOMAIN k = DOMAIN conn[c] /\ k.pc = "tracking" /\ k.up = "open"
        /\ k.l = conn[c].l /\ k.src = conn[c].src /\ k.agent = conn[c].agent
        /\ k.gen = conn[c].gen /\ k.down = conn[c].down
    BY <1>3, Zenon DEF ConnType
  <2> HIDE DEF k
  <2>2. /\ conn'[c] = k /\ DOMAIN conn' = Conns /\ lst'[l] = m
        /\ \A d \in Conns \ {c} : conn'[d] = conn[d]
    BY <1>3, <1>6, <1>8, Zenon
  <2>3. ConnType(conn'[c])
    <3>1. /\ k.pc \in {"none"} \cup Admission \cup Charged
          /\ k.up \in {"none", "open", "reset"}
      BY <1>2, <2>1, Zenon
    <3> QED
      BY <1>3, <2>1, <2>2, <3>1, Zenon DEF ConnType
  <2>4. ConnInv(c)'
    <3>1. ~Relaying(c)'
      BY <1>2, <2>1, <2>2, Zenon DEF Relaying
    <3>2. /\ ~lst[l].closed =>
               /\ conn[c].gen <= lst[l].gen
               /\ conn[c].gen = lst[l].gen => conn[c].agent = lst[l].rule.agent
          /\ lst[l].closed \/ conn[c].src \in lst[l].permit \/ c \in exempt
      BY <1>2, <1>3, Zenon DEF ConnInv
    <3>3. /\ ~lst'[l].closed =>
               /\ conn'[c].gen <= lst'[l].gen
               /\ conn'[c].gen = lst'[l].gen => conn'[c].agent = lst'[l].rule.agent
          /\ lst'[l].closed \/ conn'[c].src \in lst'[l].permit \/ c \in exempt'
          /\ lst'[l].serve # "none" /\ conn'[c].l = l /\ conn'[c].pc \in Charged
      BY <1>2, <1>4, <1>8, <2>1, <2>2, <3>2, Zenon
    <3> QED
      BY <1>3, <3>1, <3>3, ChargedConn, Zenon
  <2>5. m.pending = lst[l].pending + One(conn'[c].pc \in Pending)
                      - One(conn[c].pc \in Pending)
    <3>1. One(conn'[c].pc \in Pending) = 0
      BY <1>2, <2>1, <2>2, Zenon DEF One
    <3>2. lst[l].pending \in Nat
      BY <1>3, Zenon DEF ListenerType
    <3> QED
      BY <1>4, <1>5, <3>1, <3>2
  <2> QED
    BY <1>1, <1>2, <1>3, <1>4, <1>8, <2>1, <2>2, <2>3, <2>4, <2>5, WorkerMoves, Zenon
<1> QED
  BY <1>1, <1>7, <1>8, Zenon

\* The places of a dialled connection.
LEMMA DialedFields ==
  ASSUME NEW c \in Conns, NEW up, NEW pc, DOMAIN conn = Conns, ConnType(conn[c]),
         conn' = [[conn EXCEPT ![c].up = up] EXCEPT ![c].pc = pc]
  PROVE  /\ DOMAIN conn' = Conns /\ \A d \in Conns \ {c} : conn'[d] = conn[d]
         /\ DOMAIN conn'[c] = DOMAIN conn[c] /\ conn'[c].pc = pc
         /\ conn'[c].l = conn[c].l /\ conn'[c].src = conn[c].src
         /\ conn'[c].agent = conn[c].agent /\ conn'[c].gen = conn[c].gen
         /\ conn'[c].down = conn[c].down /\ conn'[c].up = up
<1> DEFINE u == [conn[c] EXCEPT !.up = up]
           k == [u EXCEPT !.pc = pc]
           dialed == [conn EXCEPT ![c].up = up]
<1>1. /\ DOMAIN u = DOMAIN conn[c] /\ u.up = up /\ u.l = conn[c].l
      /\ u.src = conn[c].src /\ u.agent = conn[c].agent /\ u.gen = conn[c].gen
      /\ u.down = conn[c].down
  BY Zenon DEF ConnType
<1>2. /\ dialed[c] = u /\ DOMAIN dialed = Conns
      /\ \A d \in Conns \ {c} : dialed[d] = conn[d]
  BY Zenon
<1>3. conn' = [dialed EXCEPT ![c].pc = pc]
  OBVIOUS
<1> HIDE DEF u, dialed
<1>4. /\ DOMAIN k = DOMAIN conn[c] /\ k.up = up /\ k.l = conn[c].l
      /\ k.src = conn[c].src /\ k.agent = conn[c].agent /\ k.gen = conn[c].gen
      /\ k.down = conn[c].down /\ k.pc = pc
  BY <1>1, Zenon DEF ConnType
<1>5. /\ conn'[c] = k /\ DOMAIN conn' = Conns
      /\ \A d \in Conns \ {c} : conn'[d] = conn[d]
  BY <1>2, <1>3, Zenon
<1> HIDE DEF k
<1> QED
  BY <1>4, <1>5, Zenon

\* A dial that comes back to a stale listener: both sides are cut.
LEMMA StaleDial ==
  ASSUME RelayInv, NEW c \in Conns, NEW up \in {"none", "open"}, conn[c].pc = "dial",
         conn' = [Cut([conn EXCEPT ![c].up = up], {c}) EXCEPT ![c].pc = "unpend"],
         UNCHANGED <<manager, lst, hold, exempt, inUse>>
  PROVE  RelayInv'
<1> DEFINE l == conn[c].l
           dialed == [conn EXCEPT ![c].up = up]
           u == [conn[c] EXCEPT !.up = up]
           w == [u EXCEPT !.down = "closed", !.up = IF @ = "none" THEN @ ELSE "reset"]
           k == [w EXCEPT !.pc = "unpend"]
<1>1. /\ conn[c].pc \in Charged /\ conn[c].pc # "none" /\ conn[c].pc \in Pending
      /\ conn[c].pc # "piping" /\ conn[c].pc # "delivering"
      /\ conn[c].pc \notin Admission
      /\ "unpend" \in Charged /\ "unpend" \in Pending
      /\ "unpend" \notin {"piping", "delivering"} /\ "unpend" \notin {"dial", "tracking"}
  BY DEF Charged, Pending, Admission
<1>2. /\ l \in Listeners /\ DOMAIN lst = Listeners /\ DOMAIN conn = Conns
      /\ ListenerType(lst[l]) /\ ConnType(conn[c]) /\ ConnInv(c)
      /\ lst[l].admitting # c /\ lst[l].serve # "none"
      /\ c \notin lst[l].conns /\ c \notin lst[l].delivering
      /\ LocalListener(c, l, lst[l])
  BY <1>1, Parts, WorkerFacts, SameListener, Zenon
<1>3. /\ DOMAIN u = DOMAIN conn[c] /\ u.up = up /\ u.l = conn[c].l
      /\ u.src = conn[c].src /\ u.agent = conn[c].agent /\ u.gen = conn[c].gen
  BY <1>2, Zenon DEF ConnType
<1>4. /\ dialed[c] = u /\ DOMAIN dialed = Conns
      /\ \A d \in Conns \ {c} : dialed[d] = conn[d]
  BY <1>2, Zenon
<1>5. conn' = [Cut(dialed, {c}) EXCEPT ![c].pc = "unpend"]
  OBVIOUS
<1> HIDE DEF u, dialed
<1>6. /\ DOMAIN w = DOMAIN conn[c] /\ w.up \in {"none", "reset"} /\ w.l = conn[c].l
      /\ w.src = conn[c].src /\ w.agent = conn[c].agent /\ w.gen = conn[c].gen
      /\ w.down = "closed"
  <2>1. /\ DOMAIN w = DOMAIN conn[c] /\ w.up = IF u.up = "none" THEN u.up ELSE "reset"
        /\ w.l = conn[c].l
        /\ w.src = conn[c].src /\ w.agent = conn[c].agent /\ w.gen = conn[c].gen
        /\ w.down = "closed"
    BY <1>2, <1>3, Zenon DEF ConnType
  <2> QED
    BY <2>1, Zenon
<1>7. /\ Cut(dialed, {c})[c] = w /\ DOMAIN Cut(dialed, {c}) = Conns
      /\ \A d \in Conns \ {c} : Cut(dialed, {c})[d] = conn[d]
  BY <1>4, Zenon DEF Cut
<1> HIDE DEF w
<1>8. /\ DOMAIN k = DOMAIN conn[c] /\ k.up \in {"none", "reset"} /\ k.l = conn[c].l
      /\ k.src = conn[c].src /\ k.agent = conn[c].agent /\ k.gen = conn[c].gen
      /\ k.down = "closed" /\ k.pc = "unpend"
  BY <1>2, <1>6, Zenon DEF ConnType
<1>9. /\ conn'[c] = k /\ DOMAIN conn' = Conns
      /\ \A d \in Conns \ {c} : conn'[d] = conn[d]
  BY <1>5, <1>7, Zenon
<1> HIDE DEF k
<1>10. ConnType(conn'[c])
  <2>1. /\ k.pc \in {"none"} \cup Admission \cup Charged
        /\ k.up \in {"none", "open", "reset"} /\ k.down \in {"open", "closed"}
    BY <1>1, <1>8, Zenon
  <2> QED
    BY <1>2, <1>8, <1>9, <2>1, Zenon DEF ConnType
<1>11. ConnInv(c)'
  <2>1. ~Relaying(c)' /\ conn'[c].pc \notin {"dial", "tracking"}
    BY <1>1, <1>8, <1>9, Zenon DEF Relaying
  <2>2. ~lst[l].closed =>
          /\ conn[c].gen <= lst[l].gen
          /\ conn[c].gen = lst[l].gen => conn[c].agent = lst[l].rule.agent
    BY <1>1, <1>2, Zenon DEF ConnInv
  <2>3. /\ ~lst'[l].closed =>
             /\ conn'[c].gen <= lst'[l].gen
             /\ conn'[c].gen = lst'[l].gen => conn'[c].agent = lst'[l].rule.agent
        /\ lst'[l].serve # "none" /\ conn'[c].l = l /\ conn'[c].pc \in Charged
    BY <1>1, <1>2, <1>8, <1>9, <2>2, Zenon
  <2> QED
    BY <1>2, <2>1, <2>3, ChargedConn, Zenon
<1>12. Frame(c, l, lst[l])
  BY <1>2, <1>9, Parts, Zenon DEF Frame
<1>13. LocalConn(c, l, lst[l])
  BY <1>2, <1>8, <1>9, <1>10, <1>11, Zenon DEF LocalConn
<1>14. LocalCounts(c, l, lst[l])
  <2>1. /\ c \in ChargedConns /\ c \in ChargedConns'
        /\ c \in PendingAt(l) /\ c \in PendingAfter(l)
    BY <1>1, <1>8, <1>9, Zenon DEF ChargedConns, PendingAt, PendingAfter, Workers
  <2>2. /\ lst[l].pending \in Nat /\ inUse \in Nat /\ inUse <= Limit
        /\ inUse' = inUse
    BY <1>2, Parts, Zenon DEF ListenerType
  <2> QED
    BY <2>1, <2>2 DEF LocalCounts, One
<1> QED
  BY <1>2, <1>12, <1>13, <1>14, LocalKeeps, Zenon

LEMMA RegisterStep ==
  ASSUME RelayInv, NEW c \in Conns, Register(c)
  PROVE  RelayInv'
<1> DEFINE l == conn[c].l
<1>1. conn[c].pc = "dial" /\ UNCHANGED <<manager, inUse, hold, exempt>>
  BY Zenon DEF Register, At
<1>2. PICK up \in {"none", "open"}, failed \in BOOLEAN :
        LET dialed == [conn EXCEPT ![c].up = up]
        IN  /\ up = "none" => failed
            /\ IF Stale(c)
               THEN /\ conn' = [Cut(dialed, {c}) EXCEPT ![c].pc = "unpend"]
                    /\ UNCHANGED lst
               ELSE IF failed
               THEN /\ conn' = [dialed EXCEPT ![c].pc = "delivering"]
                    /\ lst' = [lst EXCEPT ![l].pending = @ - 1,
                                          ![l].delivering = @ \cup {c}]
               ELSE /\ conn' = [dialed EXCEPT ![c].pc = "piping"]
                    /\ lst' = [lst EXCEPT ![l].pending = @ - 1,
                                          ![l].conns = @ \cup {c}]
  BY Zenon DEF Register
<1>3. CASE Stale(c)
  <2>1. /\ conn' = [Cut([conn EXCEPT ![c].up = up], {c}) EXCEPT ![c].pc = "unpend"]
        /\ UNCHANGED lst
    BY <1>2, <1>3, Zenon
  <2> QED
    BY <1>1, <2>1, StaleDial, Zenon
<1>4. CASE ~Stale(c)
  <2>1. /\ conn[c].pc \in Pending /\ conn[c].pc # "none" /\ "delivering" # "piping"
        /\ up \in {"none", "open", "reset"}
    BY <1>1 DEF Pending
  <2>2. /\ l \in Listeners /\ DOMAIN lst = Listeners /\ DOMAIN conn = Conns
        /\ ListenerType(lst[l]) /\ ConnType(conn[c])
    BY <2>1, Parts, WorkerFacts, Zenon
  <2>3. One(conn[c].pc \in Pending) = 1
    BY <2>1, Zenon DEF One
  <2>4. CASE failed
    <3> DEFINE m == [lst[l] EXCEPT !.pending = @ - 1, !.delivering = @ \cup {c}]
    <3>1. /\ conn' = [[conn EXCEPT ![c].up = up] EXCEPT ![c].pc = "delivering"]
          /\ lst' = [lst EXCEPT ![l] = m]
      BY <1>2, <1>4, <2>4, Zenon
    <3>2. /\ DOMAIN m = DOMAIN lst[l] /\ m.serve = lst[l].serve
          /\ m.admitting = lst[l].admitting
          /\ m.rule = lst[l].rule /\ m.permit = lst[l].permit
          /\ m.stopping = lst[l].stopping /\ m.closed = lst[l].closed
          /\ m.gen = lst[l].gen /\ m.pending = lst[l].pending - 1
          /\ m.conns = lst[l].conns /\ m.delivering = lst[l].delivering \cup {c}
      BY <2>2, Zenon DEF ListenerType
    <3> HIDE DEF m
    <3>3. /\ DOMAIN conn' = Conns /\ \A d \in Conns \ {c} : conn'[d] = conn[d]
          /\ DOMAIN conn'[c] = DOMAIN conn[c] /\ conn'[c].pc = "delivering"
          /\ conn'[c].l = conn[c].l /\ conn'[c].src = conn[c].src
          /\ conn'[c].agent = conn[c].agent /\ conn'[c].gen = conn[c].gen
          /\ conn'[c].down = conn[c].down /\ conn'[c].up = up
      BY <2>2, <3>1, DialedFields, Zenon
    <3> QED
      BY <1>1, <1>4, <2>1, <2>2, <2>3, <3>1, <3>2, <3>3, RecordStep, Zenon
  <2>5. CASE ~failed
    <3> DEFINE m == [lst[l] EXCEPT !.pending = @ - 1, !.conns = @ \cup {c}]
    <3>1. /\ conn' = [[conn EXCEPT ![c].up = up] EXCEPT ![c].pc = "piping"]
          /\ lst' = [lst EXCEPT ![l] = m]
      BY <1>2, <1>4, <2>5, Zenon
    <3>2. /\ DOMAIN m = DOMAIN lst[l] /\ m.serve = lst[l].serve
          /\ m.admitting = lst[l].admitting
          /\ m.rule = lst[l].rule /\ m.permit = lst[l].permit
          /\ m.stopping = lst[l].stopping /\ m.closed = lst[l].closed
          /\ m.gen = lst[l].gen /\ m.pending = lst[l].pending - 1
          /\ m.conns = lst[l].conns \cup {c} /\ m.delivering = lst[l].delivering
      BY <2>2, Zenon DEF ListenerType
    <3> HIDE DEF m
    <3>3. /\ DOMAIN conn' = Conns /\ \A d \in Conns \ {c} : conn'[d] = conn[d]
          /\ DOMAIN conn'[c] = DOMAIN conn[c] /\ conn'[c].pc = "piping"
          /\ conn'[c].l = conn[c].l /\ conn'[c].src = conn[c].src
          /\ conn'[c].agent = conn[c].agent /\ conn'[c].gen = conn[c].gen
          /\ conn'[c].down = conn[c].down /\ conn'[c].up = up
      BY <2>2, <3>1, DialedFields, Zenon
    <3> QED
      BY <1>1, <1>4, <2>1, <2>2, <2>3, <3>1, <3>2, <3>3, RecordStep, Zenon
  <2> QED
    BY <2>4, <2>5, Zenon
<1> QED
  BY <1>3, <1>4, Zenon

----------------------------------------------------------------------------
(* The Manager.  Its steps change several listeners at once, but a         *)
(* connection only by closing its sides.                                   *)

Severed(c) ==
  /\ ConnType(conn'[c]) /\ conn'[c].pc = conn[c].pc /\ conn'[c].l = conn[c].l
  /\ conn'[c].src = conn[c].src /\ conn'[c].agent = conn[c].agent
  /\ conn'[c].gen = conn[c].gen
  /\ conn'[c] = conn[c] \/ (conn[c].pc # "none" /\ conn'[c].down = "closed")

\* Cut closes the sides of the connections it is given.
LEMMA CutSevers ==
  ASSUME NEW c \in Conns, ConnType(conn[c]), NEW C, c \in C => conn[c].pc # "none",
         NEW k, k = Cut(conn, C)[c]
  PROVE  /\ ConnType(k) /\ k.pc = conn[c].pc /\ k.l = conn[c].l
         /\ k.src = conn[c].src /\ k.agent = conn[c].agent /\ k.gen = conn[c].gen
         /\ k = conn[c] \/ (conn[c].pc # "none" /\ k.down = "closed")
         /\ c \in C => k.down = "closed"
<1>1. CASE c \notin C
  BY <1>1, Zenon DEF Cut
<1>2. CASE c \in C
  <2> DEFINE w == [conn[c] EXCEPT !.down = "closed",
                                  !.up = IF @ = "none" THEN @ ELSE "reset"]
  <2>1. k = w
    BY <1>2, Zenon DEF Cut
  <2>2. /\ DOMAIN w = DOMAIN conn[c] /\ w.pc = conn[c].pc /\ w.l = conn[c].l
        /\ w.src = conn[c].src /\ w.agent = conn[c].agent /\ w.gen = conn[c].gen
        /\ w.down = "closed"
        /\ w.up = IF conn[c].up = "none" THEN conn[c].up ELSE "reset"
    BY Zenon DEF ConnType
  <2> HIDE DEF w
  <2>3. w.up \in {"none", "open", "reset"} /\ w.down \in {"open", "closed"}
    BY <2>2, Zenon
  <2>4. ConnType(w)
    BY <2>2, <2>3, Zenon DEF ConnType
  <2> QED
    BY <1>2, <2>1, <2>2, <2>4, Zenon
<1> QED
  BY <1>1, <1>2, Zenon

\* stopLocked closes the connection under admission as well.
LEMMA StopSevers ==
  ASSUME RelayInv, NEW c \in Conns, NEW C, c \in C => conn[c].pc # "none",
         conn'[c] = Cut(conn, C)[c] \/
           (conn[c].l \in Listeners /\ conn'[c] = StopConns(conn[c].l, Cut(conn, C))[c])
  PROVE  Severed(c) /\ (c \in C => conn'[c].down = "closed")
<1>1. ConnType(conn[c])
  BY Parts, Zenon
<1> DEFINE k == Cut(conn, C)[c]
           l == conn[c].l
<1>2. /\ ConnType(k) /\ k.pc = conn[c].pc /\ k.l = conn[c].l
      /\ k.src = conn[c].src /\ k.agent = conn[c].agent /\ k.gen = conn[c].gen
      /\ k = conn[c] \/ (conn[c].pc # "none" /\ k.down = "closed")
      /\ c \in C => k.down = "closed"
  BY <1>1, CutSevers, Zenon
<1>3. CASE conn'[c] = k
  BY <1>2, <1>3, Zenon DEF Severed
<1>4. CASE l \in Listeners /\ conn'[c] = StopConns(l, Cut(conn, C))[c] /\ conn'[c] # k
  <2> DEFINE w == [k EXCEPT !.down = "closed"]
  <2>1. DOMAIN Cut(conn, C) = Conns
    BY Zenon DEF Cut
  <2>2. lst[l].admitting = c /\ conn'[c] = w
    <3>1. /\ lst[l].admitting # None
          /\ conn'[c] = [Cut(conn, C) EXCEPT ![lst[l].admitting].down = "closed"][c]
      BY <1>4, Zenon DEF StopConns
    <3>2. lst[l].admitting \in Conns
      BY <1>4, <3>1, Parts, Zenon DEF ListenerType
    <3> QED
      BY <1>4, <2>1, <3>1, <3>2, Zenon
  <2>3. conn[c].pc # "none"
    <3>1. conn[c].pc \in Admission
      BY <1>4, <2>2, Parts, Zenon DEF ListenerInv
    <3> QED
      BY <3>1 DEF Admission
  <2> HIDE DEF k
  <2>4. /\ DOMAIN w = DOMAIN k /\ w.pc = k.pc /\ w.l = k.l
        /\ w.src = k.src /\ w.agent = k.agent /\ w.gen = k.gen
        /\ w.down = "closed" /\ w.up = k.up
    BY <1>2, Zenon DEF ConnType
  <2> HIDE DEF w
  <2>5. ConnType(w)
    <3>1. w.down \in {"open", "closed"}
      BY <2>4, Zenon
    <3> QED
      BY <1>2, <2>4, <3>1, Zenon DEF ConnType
  <2> QED
    BY <1>2, <2>2, <2>3, <2>4, <2>5, Zenon DEF Severed
<1> QED
  BY <1>3, <1>4, Zenon

\* The counts do not change with what is closed.
LEMMA SeveredCounts ==
  ASSUME RelayInv, \A c \in Conns : Severed(c), inUse' = inUse,
         \A l \in Listeners : \/ lst'[l].pending = lst[l].pending
                              \/ /\ lst'[l].pending = 0
                                 /\ \A c \in Conns : conn[c].l # l
  PROVE  CountsHold'
<1>1. ChargedConns' = ChargedConns
  BY Zenon DEF ChargedConns, Severed
<1>2. \A l \in Listeners : PendingAt(l)' = PendingAt(l)
  BY Zenon DEF PendingAt, Workers, Severed
<1>3. /\ inUse = Cardinality(ChargedConns)
      /\ \A x \in Listeners : lst[x].pending = Cardinality(PendingAt(x))
  BY Zenon DEF RelayInv, CountsHold, ChargedConns, PendingAt
<1>4. ASSUME NEW l \in Listeners PROVE lst'[l].pending = Cardinality(PendingAt(l)')
  <2>1. CASE \A c \in Conns : conn[c].l # l
    <3>1. PendingAt(l) = {}
      BY <2>1, Zenon DEF PendingAt, Workers
    <3>2. Cardinality(PendingAt(l)) = 0
      BY <3>1, FS_EmptySet, Zenon
    <3> QED
      BY <1>2, <1>3, <3>2, Zenon
  <2>2. CASE lst'[l].pending = lst[l].pending
    BY <1>2, <1>3, <2>2, Zenon
  <2> QED
    BY <2>1, <2>2, Zenon
<1> QED
  BY <1>1, <1>3, <1>4, Zenon DEF CountsHold, ChargedConns, PendingAt

\* What a connection needs of its listener's new state.
Follows(c, x) ==
  /\ lst'[x].serve = lst[x].serve /\ lst'[x].admitting = lst[x].admitting
  /\ ~lst'[x].closed =>
       /\ ~lst[x].closed /\ lst[x].gen <= lst'[x].gen
       /\ lst'[x].gen \in Nat
       /\ lst'[x].gen = lst[x].gen => lst'[x].rule.agent = lst[x].rule.agent
  /\ c \in Recorded(x) /\ conn'[c].down = "open" =>
       /\ c \in lst'[x].conns \cup lst'[x].delivering
       /\ lst'[x].rule.agent = lst[x].rule.agent
       /\ \/ conn[c].src \in lst'[x].permit
          \/ lst'[x].permit = lst[x].permit /\ (c \in exempt => c \in exempt')
  /\ c \notin Recorded(x) =>
       \/ lst'[x].closed \/ c \in exempt'
       \/ lst'[x].permit = lst[x].permit /\ (c \in exempt => c \in exempt')

\* A listener that does not change.
LEMMA SameFollows ==
  ASSUME NEW c \in Conns, NEW x \in Listeners, lst'[x] = lst[x], ListenerType(lst[x]),
         c \in exempt => c \in exempt'
  PROVE  Follows(c, x)
<1>1. lst[x].gen \in Nat
  BY Zenon DEF ListenerType
<1>2. lst[x].gen <= lst'[x].gen /\ lst'[x].gen \in Nat
  BY <1>1
<1>3. lst'[x].conns \cup lst'[x].delivering = Recorded(x)
  BY Zenon DEF Recorded
<1>4. /\ lst'[x].serve = lst[x].serve /\ lst'[x].admitting = lst[x].admitting
      /\ lst'[x].closed = lst[x].closed /\ lst'[x].rule.agent = lst[x].rule.agent
      /\ lst'[x].permit = lst[x].permit
  BY Zenon
<1>5. ~lst'[x].closed =>
        /\ ~lst[x].closed /\ lst[x].gen <= lst'[x].gen
        /\ lst'[x].gen \in Nat
        /\ lst'[x].gen = lst[x].gen => lst'[x].rule.agent = lst[x].rule.agent
  BY <1>2, <1>4, Zenon
<1>6. c \in Recorded(x) => c \in lst'[x].conns \cup lst'[x].delivering
  BY <1>3, Zenon
<1> QED
  BY <1>4, <1>5, <1>6, Zenon DEF Follows

LEMMA ManagerConn ==
  ASSUME RelayInv, NEW c \in Conns, Severed(c),
         conn[c].pc # "none" => Follows(c, conn[c].l)
  PROVE  ConnInv(c)'
<1>1. ConnInv(c) /\ ConnType(conn[c])
  BY Parts, Zenon
<1>2. CASE conn[c].pc = "none"
  <2>1. conn'[c] = NoConn
    BY <1>1, <1>2, Zenon DEF Severed, ConnInv
  <2> QED
    BY <2>1, NoConnInv, Zenon
<1>3. CASE conn[c].pc # "none"
  <2> DEFINE x == conn[c].l
  <2>1. /\ conn'[c].l = x /\ conn'[c].pc = conn[c].pc /\ conn'[c].src = conn[c].src
        /\ conn'[c].agent = conn[c].agent /\ conn'[c].gen = conn[c].gen
    BY Zenon DEF Severed
  <2>2. x \in Listeners /\ lst[x].serve # "none" /\ ListenerType(lst[x])
    BY <1>3, WorkerFacts, Zenon
  <2>3. Relaying(c)' => Relaying(c) /\ conn'[c].down = "open"
    <3>1. "open" # "closed"
      OBVIOUS
    <3> QED
      BY <3>1, Zenon DEF Relaying, Uncut, Severed
  <2>4. ~lst'[x].closed => /\ conn[c].gen <= lst'[x].gen
                           /\ conn[c].gen = lst'[x].gen => conn[c].agent = lst'[x].rule.agent
    <3>1. SUFFICES ASSUME ~lst'[x].closed
                   PROVE  /\ conn[c].gen <= lst'[x].gen
                          /\ conn[c].gen = lst'[x].gen => conn[c].agent = lst'[x].rule.agent
      OBVIOUS
    <3>2. /\ conn[c].gen <= lst[x].gen
          /\ conn[c].gen = lst[x].gen => conn[c].agent = lst[x].rule.agent
          /\ lst[x].gen <= lst'[x].gen
          /\ lst'[x].gen = lst[x].gen => lst'[x].rule.agent = lst[x].rule.agent
      BY <1>1, <1>3, <3>1, Zenon DEF Follows, ConnInv
    <3>3. conn[c].gen \in Nat /\ lst[x].gen \in Nat /\ lst'[x].gen \in Nat
      BY <1>1, <1>3, <2>2, <3>1, Zenon DEF Follows, ConnType, ListenerType
    <3>4. conn[c].gen <= lst'[x].gen
      BY <3>2, <3>3
    <3>5. conn[c].gen = lst'[x].gen => conn[c].gen = lst[x].gen /\ lst'[x].gen = lst[x].gen
      BY <3>2, <3>3
    <3> QED
      BY <3>2, <3>4, <3>5, Zenon
  <2>5. conn[c].pc \in Admission => lst'[x].admitting = c
    BY <1>1, <1>3, Zenon DEF ConnInv, Follows
  <2>6. Relaying(c)' => /\ c \in lst'[x].conns \cup lst'[x].delivering
                        /\ conn[c].agent = lst'[x].rule.agent
    BY <1>1, <1>3, <2>3, Zenon DEF ConnInv, Follows
  <2>7. ASSUME conn[c].pc \in {"taking", "dial", "tracking"} \/ Relaying(c)'
        PROVE  \/ lst'[x].closed
               \/ conn[c].src \in lst'[x].permit \/ c \in exempt'
    <3>1. \/ lst[x].closed
          \/ conn[c].src \in lst[x].permit \/ c \in exempt
      BY <1>1, <2>3, <2>7, Zenon DEF ConnInv
    <3>2. CASE c \in Recorded(x) /\ conn'[c].down = "open"
      BY <1>3, <3>1, <3>2, Zenon DEF Follows
    <3>3. CASE c \notin Recorded(x)
      BY <1>3, <3>1, <3>3, Zenon DEF Follows
    <3>4. CASE c \in Recorded(x) /\ conn'[c].down # "open"
      <4>1. conn[c].pc \in {"piping", "delivering"}
        BY <2>2, <3>4, Parts, Zenon DEF ListenerInv, Recorded
      <4>2. conn[c].pc \notin {"taking", "dial", "tracking"}
        BY <4>1
      <4> QED
        BY <2>3, <2>7, <3>4, <4>2, Zenon
    <3> QED
      BY <3>2, <3>3, <3>4, Zenon
  <2>8. lst'[x].serve # "none"
    BY <1>3, <2>2, Zenon DEF Follows
  <2> QED
    BY <1>3, <2>1, <2>2, <2>4, <2>5, <2>6, <2>7, <2>8, Zenon DEF ConnInv, Recorded
<1> QED
  BY <1>2, <1>3, Zenon

\* What the invariant asks of a listener that goes on, and of one that is
\* nothing.
LEMMA ManagerListener ==
  ASSUME RelayInv, \A c \in Conns : Severed(c), NEW l \in Listeners,
         lst[l].serve # "none", lst'[l].serve = lst[l].serve,
         lst'[l].admitting = lst[l].admitting,
         lst'[l].conns \subseteq lst[l].conns,
         lst'[l].delivering \subseteq lst[l].delivering,
         l \notin OnPorts' => lst[l].serve = "done",
         lst'[l].closed =>
           lst'[l].stopping /\ lst'[l].conns = {} /\ lst'[l].delivering = {},
         ~lst'[l].closed =>
           l \in Known' /\ lst'[l].rule \in Rules /\ lst'[l].rule.agent \notin revoked',
         ~lst'[l].stopping => lst'[l].permit = lst'[l].rule.allow
  PROVE  ListenerInv(l)'
<1>1. ListenerInv(l) /\ ListenerType(lst[l])
  BY Parts, Zenon
<1>2. ASSUME NEW c \in Conns
      PROVE  /\ lst'[l].admitting = c => conn'[c].l = l /\ conn'[c].pc \in Admission
             /\ c \in lst'[l].conns => conn'[c].l = l /\ conn'[c].pc = "piping"
             /\ c \in lst'[l].delivering => conn'[c].l = l /\ conn'[c].pc = "delivering"
  <2>1. conn'[c].l = conn[c].l /\ conn'[c].pc = conn[c].pc
    BY Zenon DEF Severed
  <2> QED
    BY <1>1, <2>1, Zenon DEF ListenerInv
<1>3. lst'[l].admitting # None <=> lst'[l].serve = "admit"
  BY <1>1, Zenon DEF ListenerInv
<1>4. lst'[l].closed => Recorded(l)' = {}
  BY Zenon DEF Recorded
<1> QED
  BY <1>2, <1>3, <1>4, Zenon DEF ListenerInv

LEMMA NoListenerFields ==
  /\ NoListener.serve = "none" /\ NoListener.closed = FALSE
  /\ NoListener.stopping = FALSE /\ NoListener.rule = None
  /\ NoListener.permit = {} /\ NoListener.gen = 0 /\ NoListener.pending = 0
  /\ NoListener.admitting = None /\ NoListener.conns = {}
  /\ NoListener.delivering = {} /\ ListenerType(NoListener)
  /\ DOMAIN NoListener = {"rule", "permit", "stopping", "closed", "gen", "pending",
                          "admitting", "conns", "delivering", "serve"}
BY Zenon DEF NoListener, ListenerType

LEMMA NothingListener ==
  ASSUME NEW l \in Listeners, lst'[l] = NoListener, l \notin Known' \cup (mgr.stopped)'
  PROVE  ListenerInv(l)'
<1>1. \A c \in Conns : c # None
  BY RelayAssumption, Zenon
<1> QED
  BY <1>1, NoListenerFields, Zenon DEF ListenerInv, Recorded

LEMMA CloseListenerFields ==
  ASSUME NEW m, ListenerType(m)
  PROVE  /\ ListenerType(CloseListener(m))
         /\ CloseListener(m).closed = TRUE /\ CloseListener(m).stopping = TRUE
         /\ CloseListener(m).conns = {} /\ CloseListener(m).delivering = {}
         /\ CloseListener(m).serve = m.serve /\ CloseListener(m).pending = m.pending
         /\ CloseListener(m).admitting = m.admitting
<1> DEFINE w == CloseListener(m)
<1>1. /\ DOMAIN w = DOMAIN NoListener /\ w.closed = TRUE /\ w.stopping = TRUE
      /\ w.conns = NoListener.conns /\ w.delivering = NoListener.delivering
      /\ w.rule = NoListener.rule /\ w.permit = NoListener.permit
      /\ w.gen = NoListener.gen
      /\ w.serve = m.serve /\ w.pending = m.pending /\ w.admitting = m.admitting
  BY NoListenerFields, Zenon DEF CloseListener
<1> HIDE DEF w
<1>2. ListenerType(w)
  <2>1. ListenerType(NoListener)
    BY NoListenerFields, Zenon
  <2>2. w.closed \in BOOLEAN /\ w.stopping \in BOOLEAN
    BY <1>1, Zenon
  <2> QED
    BY <1>1, <2>1, <2>2, Zenon DEF ListenerType
<1>3. /\ w.conns = {} /\ w.delivering = {}
  BY <1>1, NoListenerFields, Zenon
<1> QED
  BY <1>1, <1>2, <1>3, Zenon DEF w

\* The fields of the Manager's operations.
LEMMA QuietFields ==
  /\ DOMAIN Quiet = {"op", "stopped", "want", "opened", "agent"}
  /\ Quiet.op = "idle" /\ Quiet.stopped = {} /\ Quiet.agent = None
BY DEF Quiet

\* Known listeners are listeners that serve or have served.
LEMMA KnownFacts ==
  ASSUME RelayInv
  PROVE  /\ Known \subseteq Listeners
         /\ \A l \in Known : lst[l].serve # "none"
         /\ \A l \in Known : ~lst[l].closed =>
              lst[l].rule \in Rules /\ lst[l].rule.agent \notin revoked
         /\ \A l \in mgr.stopped : l \in Listeners /\ lst[l].serve # "none"
         /\ retiring \subseteq Known
         /\ \A p \in Ports : ls[p] # None => ls[p] \in Known
<1>1. Known \subseteq Listeners /\ mgr.stopped \subseteq Listeners
  BY Zenon DEF RelayInv, TypeOK, Known
<1>2. retiring \subseteq Known /\ \A p \in Ports : ls[p] # None => ls[p] \in Known
  BY Zenon DEF Known
<1>3. \A l \in Listeners : ListenerInv(l)
  BY Parts, Zenon
<1>4. \A l \in Known : lst[l].serve # "none"
  BY <1>1, <1>3, Zenon DEF ListenerInv
<1>5. \A l \in mgr.stopped : l \in Listeners /\ lst[l].serve # "none"
  BY <1>1, <1>3, Zenon DEF ListenerInv
<1>6. \A l \in Known : ~lst[l].closed =>
        lst[l].rule \in Rules /\ lst[l].rule.agent \notin revoked
  BY <1>1, <1>3, <1>4, Zenon DEF ListenerInv
<1> QED
  BY <1>1, <1>2, <1>4, <1>5, <1>6, Zenon

\* A connection on record belongs to the listener that has the record.
LEMMA RecordedFacts ==
  ASSUME RelayInv, NEW l \in Listeners, NEW c \in Recorded(l)
  PROVE  c \in Conns /\ conn[c].l = l /\ conn[c].pc \in {"piping", "delivering"}
<1>1. ListenerInv(l) /\ ListenerType(lst[l])
  BY Parts, Zenon
<1>2. c \in lst[l].conns \/ c \in lst[l].delivering
  BY Zenon DEF Recorded
<1>3. c \in Conns
  BY <1>1, <1>2, Zenon DEF ListenerType
<1> QED
  BY <1>1, <1>2, <1>3, Zenon DEF ListenerInv

LEMMA CloseAllStep ==
  ASSUME RelayInv, mgr.op = "idle", NEW L, L \subseteq Known, NEW op, NEW agent,
         CloseAll(L, op, agent), op \in {"closeAgent", "close"}, UNCHANGED revoked,
         op = "closeAgent" => \A l \in Known \ L : lst[l].rule.agent # agent,
         op = "close" => agent = None /\ L = Known
  PROVE  RelayInv'
<1> DEFINE C == UNION {Recorded(m) : m \in L}
<1>1. /\ \A l \in Listeners :
           /\ l \in L => lst'[l] = CloseListener(lst[l])
           /\ l \notin L => lst'[l] = lst[l]
      /\ DOMAIN lst' = Listeners /\ DOMAIN conn' = Conns
      /\ ls' = ls /\ retiring' = retiring /\ inUse' = inUse /\ hold' = hold
      /\ exempt' = exempt
      /\ \A c \in Conns :
           /\ conn[c].l \in L => conn'[c] = StopConns(conn[c].l, Cut(conn, C))[c]
           /\ conn[c].l \notin L => conn'[c] = Cut(conn, C)[c]
  BY Zenon DEF CloseAll
<1>2. mgr'.op = op /\ mgr'.stopped = L /\ mgr'.agent = agent
  BY QuietFields, Zenon DEF CloseAll
<1>3. L \subseteq Listeners /\ Known \subseteq Listeners
  BY KnownFacts, Zenon
<1>4. Known' = Known /\ OnPorts' = OnPorts
  BY <1>1, Zenon DEF Known, OnPorts
<1>5. \A l \in Known : ~lst[l].closed
  BY Zenon DEF RelayInv, ManagerInv
<1>6. \A l \in L : \A c \in Recorded(l) : c \in C
  BY Zenon
<1>7. \A c \in C : conn[c].l \in L /\ conn[c].pc # "none"
  <2>1. SUFFICES ASSUME NEW l \in L, NEW c \in Recorded(l)
                 PROVE  conn[c].l \in L /\ conn[c].pc # "none"
    BY Zenon
  <2>2. conn[c].l = l /\ conn[c].pc \in {"piping", "delivering"}
    BY <1>3, RecordedFacts, Zenon
  <2> QED
    BY <2>2
<1> HIDE DEF C
<1>8. ASSUME NEW c \in Conns
      PROVE  Severed(c) /\ (c \in C => conn'[c].down = "closed")
  <2>1. conn'[c] = Cut(conn, C)[c] \/
          (conn[c].l \in Listeners /\ conn'[c] = StopConns(conn[c].l, Cut(conn, C))[c])
    BY <1>1, <1>3, Zenon
  <2> QED
    BY <1>7, <2>1, StopSevers, Zenon
<1>9. ASSUME NEW l \in Listeners
      PROVE  /\ ListenerType(lst'[l]) /\ lst'[l].serve = lst[l].serve
             /\ lst'[l].admitting = lst[l].admitting
             /\ lst'[l].pending = lst[l].pending
             /\ l \in L => /\ lst'[l].closed = TRUE /\ lst'[l].stopping = TRUE
                           /\ lst'[l].conns = {} /\ lst'[l].delivering = {}
  <2>1. ListenerType(lst[l])
    BY Parts, Zenon
  <2>2. CASE l \in L
    <3>1. lst'[l] = CloseListener(lst[l])
      BY <1>1, <2>2, Zenon
    <3> QED
      BY <2>1, <3>1, CloseListenerFields, Zenon
  <2>3. CASE l \notin L
    <3>1. lst'[l] = lst[l]
      BY <1>1, <2>3, Zenon
    <3> QED
      BY <2>1, <2>3, <3>1, Zenon
  <2> QED
    BY <2>2, <2>3, Zenon
<1>10. TypeOK'
  <2>1. \A c \in Conns : ConnType(conn'[c])
    BY <1>8, Zenon DEF Severed
  <2>2. mgr'.op \in {"idle", "commit", "closeAgent", "close"}
    BY <1>2
  <2> QED
    BY <1>1, <1>2, <1>3, <1>9, <2>1, <2>2, Zenon DEF RelayInv, TypeOK
<1>11. ManagerInv'
  <2>1. op # "commit" /\ op # "idle" /\ mgr.op # "commit"
    OBVIOUS
  <2>2. /\ \A p, q \in Ports : ls[p] = ls[q] /\ ls[p] # None => p = q
        /\ \A l \in retiring : lst[l].stopping
        /\ \A p \in Ports : ls[p] \notin retiring
    BY <2>1, Zenon DEF RelayInv, ManagerInv
  <2>3. \A l \in retiring : l \in Listeners /\ lst'[l].stopping
    BY <1>1, <1>3, <1>9, <2>2, KnownFacts, Zenon
  <2>4. \A l \in Known : lst'[l].closed <=> l \in L
    BY <1>1, <1>3, <1>5, <1>9, Zenon
  <2>5. \A l \in Known \ L : op = "closeAgent" => lst'[l].rule.agent # agent
    BY <1>1, <1>3, Zenon
  <2> QED
    BY <1>1, <1>2, <1>4, <2>1, <2>2, <2>3, <2>4, <2>5, Zenon DEF ManagerInv
<1>12. CountsHold'
  BY <1>1, <1>8, <1>9, SeveredCounts, Zenon
<1>13. ASSUME NEW l \in Listeners PROVE ListenerInv(l)'
  <2>1. ListenerInv(l)
    BY Parts, Zenon
  <2>2. CASE lst[l].serve = "none"
    <3>1. lst'[l] = NoListener /\ l \notin Known \cup L
      <4>1. l \notin Known /\ lst[l] = NoListener
        BY <2>1, <2>2, Zenon DEF ListenerInv
      <4> QED
        BY <1>1, <4>1, Zenon
    <3> QED
      BY <1>2, <1>4, <3>1, NothingListener, Zenon
  <2>3. CASE lst[l].serve # "none" /\ l \in L
    <3>1. lst'[l].conns \subseteq lst[l].conns /\ lst'[l].delivering \subseteq lst[l].delivering
      BY <1>9, <2>3, Zenon
    <3>2. l \notin OnPorts => lst[l].serve = "done"
      BY <2>1, <2>3, Zenon DEF ListenerInv
    <3> QED
      BY <1>4, <1>8, <1>9, <2>3, <3>1, <3>2, ManagerListener, Zenon
  <2>4. CASE lst[l].serve # "none" /\ l \notin L
    <3>1. lst'[l] = lst[l]
      BY <1>1, <2>4, Zenon
    <3>2. /\ l \notin OnPorts => lst[l].serve = "done"
          /\ lst[l].closed =>
               lst[l].stopping /\ lst[l].conns = {} /\ lst[l].delivering = {}
          /\ ~lst[l].closed =>
               l \in Known /\ lst[l].rule \in Rules /\ lst[l].rule.agent \notin revoked
          /\ ~lst[l].stopping => lst[l].permit = lst[l].rule.allow
      BY <2>1, <2>4, Zenon DEF ListenerInv, Recorded
    <3> QED
      BY <1>4, <1>8, <2>4, <3>1, <3>2, ManagerListener, Zenon
  <2> QED
    BY <2>2, <2>3, <2>4, Zenon
<1>14. ASSUME NEW c \in Conns PROVE ConnInv(c)'
  <2> DEFINE x == conn[c].l
  <2>1. ASSUME conn[c].pc # "none" PROVE Follows(c, x)
    <3>1. x \in Listeners /\ ListenerType(lst[x])
      BY <2>1, WorkerFacts, Zenon
    <3>2. CASE x \in L
      <4>1. lst'[x].closed
        BY <1>9, <3>1, <3>2, Zenon
      <4>2. c \in Recorded(x) => conn'[c].down # "open"
        <5>1. c \in Recorded(x) => conn'[c].down = "closed"
          BY <1>6, <1>8, <3>2, Zenon
        <5> QED
          BY <5>1
      <4> QED
        BY <1>9, <3>1, <4>1, <4>2, Zenon DEF Follows
    <3>3. CASE x \notin L
      <4>1. lst'[x] = lst[x]
        BY <1>1, <3>1, <3>3, Zenon
      <4> QED
        BY <1>1, <3>1, <4>1, SameFollows, Zenon
    <3> QED
      BY <3>2, <3>3, Zenon
  <2> QED
    BY <1>8, <2>1, ManagerConn, Zenon
<1> QED
  BY <1>10, <1>11, <1>12, <1>13, <1>14, Zenon DEF RelayInv

\* CloseAgent and Close, up to the wait.
LEMMA CloseSteps ==
  ASSUME RelayInv, Close \/ \E a \in Agents : CloseAgent(a)
  PROVE  RelayInv'
<1>1. CASE Close
  <2>1. /\ mgr.op = "idle" /\ CloseAll(Known, "close", None) /\ UNCHANGED revoked
        /\ "close" # "closeAgent"
    BY <1>1 DEF Close
  <2> QED
    BY <2>1, CloseAllStep, Zenon
<1>2. ASSUME NEW a \in Agents, CloseAgent(a) PROVE RelayInv'
  <2> DEFINE L == {l \in Known : lst[l].rule.agent = a}
  <2>1. /\ mgr.op = "idle" /\ CloseAll(L, "closeAgent", a) /\ UNCHANGED revoked
        /\ "close" # "closeAgent"
    BY <1>2 DEF CloseAgent
  <2>2. L \subseteq Known /\ \A l \in Known \ L : lst[l].rule.agent # a
    BY Zenon
  <2> HIDE DEF L
  <2> QED
    BY <2>1, <2>2, CloseAllStep, Zenon
<1> QED
  BY <1>1, <1>2, Zenon

\* The connections of a step that leaves them alone.
LEMMA SameSevered ==
  ASSUME RelayInv, NEW c \in Conns, conn'[c] = conn[c]
  PROVE  Severed(c)
<1>1. ConnType(conn[c])
  BY Parts, Zenon
<1> QED
  BY <1>1, Zenon DEF Severed

LEMMA CloseFinishStep ==
  ASSUME RelayInv, CloseFinish
  PROVE  RelayInv'
<1> DEFINE S == mgr.stopped
<1>1. /\ mgr.op \in {"closeAgent", "close"} /\ \A l \in S : lst[l].serve = "done"
      /\ ls' = [p \in Ports |-> IF ls[p] \in S THEN None ELSE ls[p]]
      /\ retiring' = retiring \ S
      /\ revoked' = revoked \cup ({mgr.agent} \ {None})
      /\ lst' = Collected(lst, Known \ S, conn) /\ mgr' = Quiet
      /\ UNCHANGED <<closed, conn, inUse, hold, exempt>>
  BY Zenon DEF CloseFinish, Joined
<1>2. /\ mgr.op # "commit" /\ mgr.op # "idle" /\ Quiet.op # "commit"
      /\ Quiet.op \notin {"closeAgent", "close"} /\ Quiet.op # "close"
      /\ mgr.op # "closeAgent" => mgr.op = "close"
  BY <1>1, QuietFields
<1>3. /\ Known \subseteq Listeners /\ S \subseteq Listeners /\ retiring \subseteq Known
      /\ None \notin S /\ ls \in [Ports -> Listeners \cup {None}]
  BY KnownFacts, RelayAssumption, Zenon DEF RelayInv, TypeOK
<1>4. /\ \A p, q \in Ports : ls[p] = ls[q] /\ ls[p] # None => p = q
      /\ \A l \in retiring : lst[l].stopping
      /\ \A p \in Ports : ls[p] \notin retiring
      /\ \A l \in Known : lst[l].closed <=> l \in S
      /\ \A l \in Known \ S : mgr.op = "closeAgent" => lst[l].rule.agent # mgr.agent
      /\ mgr.op = "close" => mgr.agent = None
  BY <1>1, <1>2, Zenon DEF RelayInv, ManagerInv
<1>5. /\ \A p \in Ports : ls'[p] \notin S
      /\ \A p \in Ports : ls[p] \notin S => ls'[p] = ls[p]
      /\ \A p \in Ports : ls'[p] # None => ls'[p] = ls[p]
      /\ ls' \in [Ports -> Listeners \cup {None}]
  BY <1>1, <1>3, Zenon
<1>6. Known' = Known \ S
  <2>1. ASSUME NEW l \in Known' PROVE l \in Known \ S
    <3>1. l \in retiring \ S \/ \E p \in Ports : l = ls'[p] /\ l # None
      BY <1>1, Zenon DEF Known
    <3> QED
      BY <1>3, <1>5, <3>1, Zenon DEF Known
  <2>2. ASSUME NEW l \in Known \ S PROVE l \in Known'
    <3>1. l \in retiring \ S \/ \E p \in Ports : l = ls[p] /\ l # None
      BY Zenon DEF Known
    <3>2. CASE l \in retiring \ S
      BY <1>1, <3>2, Zenon DEF Known
    <3>3. CASE \E p \in Ports : l = ls'[p] /\ l # None
      BY <3>3, Zenon DEF Known
    <3> QED
      BY <1>5, <3>1, <3>2, <3>3, Zenon
  <2> QED
    BY <2>1, <2>2, Zenon
<1>7. ASSUME NEW l \in Listeners
      PROVE  \/ lst'[l] = lst[l]
             \/ /\ lst'[l] = NoListener /\ l \notin Known'
                /\ \A c \in Conns : conn[c].l # l
  BY <1>1, <1>6, Zenon DEF Collected
<1>8. \A l \in Known' : lst'[l] = lst[l] /\ l \in Known
  BY <1>3, <1>6, <1>7, Zenon
<1>9. mgr'.op = "idle" /\ mgr'.stopped = {} /\ DOMAIN lst' = Listeners
  BY <1>1, QuietFields, Zenon DEF Collected
<1>10. TypeOK'
  <2>1. ASSUME NEW l \in Listeners PROVE ListenerType(lst'[l])
    <3>1. ListenerType(lst[l]) /\ ListenerType(NoListener)
      BY Parts, NoListenerFields, Zenon
    <3>2. lst'[l] = lst[l] \/ lst'[l] = NoListener
      BY <1>7, Zenon
    <3> QED
      BY <3>1, <3>2, Zenon
  <2>2. mgr'.op \in {"idle", "commit", "closeAgent", "close"} /\ mgr'.stopped \subseteq Listeners
    BY <1>9, Zenon
  <2>3. retiring' \subseteq Listeners
    BY <1>1, <1>3, Zenon
  <2> QED
    BY <1>1, <1>5, <1>9, <2>1, <2>2, <2>3, Zenon DEF RelayInv, TypeOK
<1>11. ManagerInv'
  <2>1. ASSUME NEW p \in Ports, NEW q \in Ports, ls'[p] = ls'[q], ls'[p] # None
        PROVE  p = q
    <3>1. ls[p] = ls'[p] /\ ls[q] = ls'[q]
      BY <1>5, <2>1, Zenon
    <3> QED
      BY <1>4, <2>1, <3>1, Zenon
  <2>2. \A l \in retiring' : lst'[l].stopping
    <3>1. \A l \in retiring' : l \in retiring /\ l \in Known'
      BY <1>1, <1>3, <1>6, Zenon
    <3> QED
      BY <1>4, <1>8, <3>1, Zenon
  <2>3. \A p \in Ports : ls'[p] \notin retiring'
    <3>1. None \notin retiring
      BY <1>3, RelayAssumption, Zenon
    <3> QED
      BY <1>1, <1>4, <1>5, <3>1, Zenon
  <2>4. \A l \in Known' : ~lst'[l].closed
    BY <1>4, <1>6, <1>8, Zenon
  <2> QED
    BY <1>1, <1>2, <1>9, <2>1, <2>2, <2>3, <2>4, Zenon DEF ManagerInv
<1>12. \A c \in Conns : Severed(c)
  BY <1>1, SameSevered, Zenon
<1>13. CountsHold'
  <2>1. NoListener.pending = 0
    BY NoListenerFields, Zenon
  <2>2. \A l \in Listeners : \/ lst'[l].pending = lst[l].pending
                             \/ /\ lst'[l].pending = 0
                                /\ \A c \in Conns : conn[c].l # l
    BY <1>7, <2>1, Zenon
  <2> QED
    BY <1>1, <1>12, <2>2, SeveredCounts, Zenon
<1>14. ASSUME NEW l \in Listeners PROVE ListenerInv(l)'
  <2>1. ListenerInv(l)
    BY Parts, Zenon
  <2>2. CASE lst'[l] = NoListener /\ l \notin Known'
    BY <1>9, <2>2, NothingListener, Zenon
  <2>3. CASE lst'[l] = lst[l] /\ lst[l].serve = "none"
    <3>1. lst'[l] = NoListener /\ l \notin Known'
      BY <1>6, <2>1, <2>3, Zenon DEF ListenerInv
    <3> QED
      BY <1>9, <3>1, NothingListener, Zenon
  <2>4. CASE lst'[l] = lst[l] /\ lst[l].serve # "none"
    <3>1. l \notin OnPorts' => lst[l].serve = "done"
      <4>1. l \notin OnPorts => lst[l].serve = "done"
        BY <2>1, <2>4, Zenon DEF ListenerInv
      <4>2. l \in OnPorts /\ l \notin S => l \in OnPorts'
        BY <1>5, Zenon DEF OnPorts
      <4> QED
        BY <1>1, <4>1, <4>2, Zenon
    <3>2. /\ lst[l].closed =>
               lst[l].stopping /\ lst[l].conns = {} /\ lst[l].delivering = {}
          /\ ~lst[l].closed =>
               l \in Known /\ lst[l].rule \in Rules /\ lst[l].rule.agent \notin revoked
          /\ ~lst[l].stopping => lst[l].permit = lst[l].rule.allow
      BY <2>1, <2>4, Zenon DEF ListenerInv, Recorded
    <3>3. ~lst[l].closed => l \in Known' /\ lst[l].rule.agent \notin revoked'
      BY <1>1, <1>2, <1>4, <1>6, <3>2, Zenon
    <3> QED
      BY <1>12, <2>4, <3>1, <3>2, <3>3, ManagerListener, Zenon
  <2> QED
    BY <1>7, <2>2, <2>3, <2>4, Zenon
<1>15. ASSUME NEW c \in Conns PROVE ConnInv(c)'
  <2>1. ASSUME conn[c].pc # "none" PROVE Follows(c, conn[c].l)
    <3>1. conn[c].l \in Listeners /\ ListenerType(lst[conn[c].l])
      BY <2>1, WorkerFacts, Zenon
    <3>2. lst'[conn[c].l] = lst[conn[c].l]
      BY <1>7, <3>1, Zenon
    <3> QED
      BY <1>1, <3>1, <3>2, SameFollows, Zenon
  <2> QED
    BY <1>12, <2>1, ManagerConn, Zenon
<1> QED
  BY <1>10, <1>11, <1>13, <1>14, <1>15, Zenon DEF RelayInv
=============================================================================
