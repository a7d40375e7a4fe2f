-------------------------- MODULE ProxyRelayProofs --------------------------
(***************************************************************************)
(* Proofs about the server's TCP relay: the two halves of Commit keep its  *)
(* invariant, and with the steps of ProxyRelayStepProofs, the theorems.    *)
(***************************************************************************)
EXTENDS ProxyRelayStepProofs

(* Commit, up to the wait.                                                 *)

\* Retire on a listener: the records of the refused go, the rest stays.
Thinned(l, kept) ==
  /\ ListenerType(lst'[l]) /\ lst'[l].rule = lst[l].rule /\ lst'[l].gen = lst[l].gen
  /\ lst'[l].closed = lst[l].closed /\ lst'[l].pending = lst[l].pending
  /\ lst'[l].admitting = lst[l].admitting /\ lst'[l].serve = lst[l].serve
  /\ lst'[l].conns = lst[l].conns \ Refused(l, kept)
  /\ lst'[l].delivering = lst[l].delivering \ Refused(l, kept)
  /\ lst'[l].permit = kept
  /\ lst[l].stopping => lst'[l].stopping

\* What Commit does before it waits: it closes the listeners in shut, stops
\* the ones in stop, and thins the ones in thin.
CommitShape(shut, stop, thin, stays, want, opened) ==
  /\ shut \subseteq Known /\ thin \subseteq Known /\ stop \subseteq thin
  /\ thin = (retiring \ shut) \cup stop
  /\ \A l \in shut : l \notin thin
  /\ \A p \in Ports : ls[p] # None => (want[p] = None <=> ls[p] \in shut \cup stop)
  /\ \A l \in Listeners :
       /\ l \in shut => lst'[l] = CloseListener(lst[l])
       /\ l \in thin => Thinned(l, stays[l])
       /\ l \in stop => lst'[l].stopping
       /\ l \notin shut \cup thin => lst'[l] = lst[l]
  /\ \A c \in Conns :
       /\ Severed(c)
       /\ \A l \in shut : c \in Recorded(l) => conn'[c].down = "closed"
       /\ \A l \in thin : c \in Refused(l, stays[l]) => conn'[c].down = "closed"
       /\ c \in exempt /\ conn[c].l \notin shut \cup thin => c \in exempt'
       /\ \A l \in thin : conn[c].l = l /\ c \notin Recorded(l) => c \in exempt'
  /\ DOMAIN lst' = Listeners /\ DOMAIN conn' = Conns /\ exempt' \subseteq Conns
  /\ retiring' = (retiring \ shut) \cup stop
  /\ mgr'.op = "commit" /\ mgr'.stopped = shut \cup stop
  /\ mgr'.want = want /\ mgr'.opened = opened
  /\ UNCHANGED <<ls, closed, inUse, hold, revoked>>

LEMMA CommitShapeStep ==
  ASSUME RelayInv, mgr.op = "idle", NEW want \in [Ports -> Rules \cup {None}],
         NEW opened \in SUBSET Ports, \A p \in opened : want[p] # None,
         NEW shut, NEW stop, NEW thin, NEW stays,
         CommitShape(shut, stop, thin, stays, want, opened)
  PROVE  RelayInv'
<1>1. /\ Known \subseteq Listeners /\ retiring \subseteq Known
      /\ \A p \in Ports : ls[p] # None => ls[p] \in Known
      /\ None \notin Listeners
  BY KnownFacts, RelayAssumption, Zenon
<1>2. /\ \A l \in Known : ~lst[l].closed
      /\ \A p, q \in Ports : ls[p] = ls[q] /\ ls[p] # None => p = q
      /\ \A l \in retiring : lst[l].stopping
      /\ \A p \in Ports : ls[p] \notin retiring
  <2>1. mgr.op # "commit"
    OBVIOUS
  <2> QED
    BY <2>1, Zenon DEF RelayInv, ManagerInv
<1>3. /\ shut \subseteq Known /\ thin \subseteq Known /\ stop \subseteq thin
      /\ thin = (retiring \ shut) \cup stop /\ \A l \in shut : l \notin thin
      /\ \A p \in Ports : ls[p] # None => (want[p] = None <=> ls[p] \in shut \cup stop)
      /\ retiring' = (retiring \ shut) \cup stop
  BY Zenon DEF CommitShape
<1>4. ASSUME NEW l \in Listeners
      PROVE  /\ l \in shut => lst'[l] = CloseListener(lst[l])
             /\ l \in thin => Thinned(l, stays[l])
             /\ l \in stop => lst'[l].stopping
             /\ l \notin shut \cup thin => lst'[l] = lst[l]
  BY Zenon DEF CommitShape
<1>5. /\ DOMAIN lst' = Listeners /\ DOMAIN conn' = Conns /\ exempt' \subseteq Conns
      /\ mgr'.op = "commit" /\ mgr'.stopped = shut \cup stop
      /\ mgr'.want = want /\ mgr'.opened = opened
      /\ ls' = ls /\ inUse' = inUse /\ hold' = hold /\ revoked' = revoked
  BY Zenon DEF CommitShape
<1>6. \A c \in Conns : Severed(c)
  BY Zenon DEF CommitShape
<1>7. OnPorts' = OnPorts
  BY <1>5, Zenon DEF OnPorts
<1>8. \A l \in Known : l \in shut \/ l \in Known'
  BY <1>3, <1>5, Zenon DEF Known
<1>9. Known' \subseteq Known
  BY <1>1, <1>3, <1>5, Zenon DEF Known
<1>10. ASSUME NEW l \in Listeners
       PROVE  /\ ListenerType(lst'[l]) /\ lst'[l].serve = lst[l].serve
              /\ lst'[l].admitting = lst[l].admitting
              /\ lst'[l].pending = lst[l].pending
              /\ lst'[l].conns \subseteq lst[l].conns
              /\ lst'[l].delivering \subseteq lst[l].delivering
              /\ l \in shut => /\ lst'[l].closed = TRUE /\ lst'[l].stopping = TRUE
                               /\ lst'[l].conns = {} /\ lst'[l].delivering = {}
              /\ l \notin shut => /\ lst'[l].closed = lst[l].closed
                                  /\ lst'[l].rule = lst[l].rule
                                  /\ lst[l].stopping => lst'[l].stopping
  <2>1. ListenerType(lst[l])
    BY Parts, Zenon
  <2>2. CASE l \in shut
    <3>1. lst'[l] = CloseListener(lst[l])
      BY <1>4, <2>2, Zenon
    <3>2. /\ ListenerType(lst'[l]) /\ lst'[l].serve = lst[l].serve
          /\ lst'[l].admitting = lst[l].admitting /\ lst'[l].pending = lst[l].pending
          /\ lst'[l].closed = TRUE /\ lst'[l].stopping = TRUE
          /\ lst'[l].conns = {} /\ lst'[l].delivering = {}
      BY <2>1, <3>1, CloseListenerFields, Zenon
    <3> QED
      BY <2>2, <3>2, Zenon
  <2>3. CASE l \in thin
    <3>1. l \notin shut /\ Thinned(l, stays[l])
      BY <1>3, <1>4, <2>3, Zenon
    <3> QED
      BY <3>1, Zenon DEF Thinned
  <2>4. CASE l \notin shut \cup thin
    <3>1. l \notin shut /\ lst'[l] = lst[l]
      BY <1>4, <2>4, Zenon
    <3> QED
      BY <2>1, <3>1, Zenon
  <2> QED
    BY <2>2, <2>3, <2>4, Zenon
<1>11. TypeOK'
  <2>1. \A c \in Conns : ConnType(conn'[c])
    BY <1>6, Zenon DEF Severed
  <2>2. mgr'.op \in {"idle", "commit", "closeAgent", "close"}
    BY <1>5
  <2>3. mgr'.stopped \subseteq Listeners /\ retiring' \subseteq Listeners
    BY <1>1, <1>3, <1>5, Zenon
  <2> QED
    BY <1>5, <1>10, <2>1, <2>2, <2>3, Zenon DEF RelayInv, TypeOK
<1>12. ManagerInv'
  <2>1. "commit" # "idle" /\ "commit" # "close" /\ "commit" \notin {"closeAgent", "close"}
    OBVIOUS
  <2>2. \A l \in retiring' : l \in Listeners /\ l \notin shut /\ l \in Known
    BY <1>1, <1>3, Zenon
  <2>3. \A l \in retiring' : lst'[l].stopping
    BY <1>2, <1>3, <1>4, <1>10, <2>2, Zenon
  <2>4. \A l \in retiring' : ~lst'[l].closed
    BY <1>2, <1>10, <2>2, Zenon
  <2>5. ASSUME NEW p \in Ports, ls[p] # None
        PROVE  IF want[p] = None
               THEN ls[p] \in shut \cup stop /\ (lst'[ls[p]].closed \/ ls[p] \in retiring')
               ELSE ls[p] \notin retiring' /\ ~lst'[ls[p]].closed
    <3>1. ls[p] \in Listeners /\ ls[p] \in Known
      BY <1>1, <2>5, Zenon
    <3>2. CASE want[p] = None
      BY <1>3, <1>10, <2>5, <3>1, <3>2, Zenon
    <3>3. CASE want[p] # None
      BY <1>2, <1>3, <1>10, <2>5, <3>1, <3>3, Zenon
    <3> QED
      BY <3>2, <3>3, Zenon
  <2> QED
    BY <1>2, <1>5, <2>1, <2>3, <2>4, <2>5, Zenon DEF ManagerInv
<1>13. CountsHold'
  BY <1>5, <1>6, <1>10, SeveredCounts, Zenon
<1>14. ASSUME NEW l \in Listeners PROVE ListenerInv(l)'
  <2>1. ListenerInv(l)
    BY Parts, Zenon
  <2>2. CASE lst[l].serve = "none"
    <3>1. l \notin Known /\ lst[l] = NoListener
      BY <2>1, <2>2, Zenon DEF ListenerInv
    <3>2. l \notin shut \cup thin /\ l \notin shut \cup stop
      BY <1>3, <3>1, Zenon
    <3>3. lst'[l] = NoListener /\ l \notin Known' \cup (mgr.stopped)'
      BY <1>4, <1>5, <1>9, <3>1, <3>2, Zenon
    <3> QED
      BY <3>3, NothingListener, Zenon
  <2>3. CASE lst[l].serve # "none"
    <3>1. /\ l \notin OnPorts => lst[l].serve = "done"
          /\ lst[l].closed =>
               lst[l].stopping /\ lst[l].conns = {} /\ lst[l].delivering = {}
          /\ ~lst[l].closed =>
               l \in Known /\ lst[l].rule \in Rules /\ lst[l].rule.agent \notin revoked
          /\ ~lst[l].stopping => lst[l].permit = lst[l].rule.allow
      BY <2>1, <2>3, Zenon DEF ListenerInv, Recorded
    <3>2. lst'[l].closed =>
            lst'[l].stopping /\ lst'[l].conns = {} /\ lst'[l].delivering = {}
      <4>1. CASE l \in shut
        BY <1>10, <4>1, Zenon
      <4>2. CASE l \notin shut
        BY <1>10, <3>1, <4>2, Zenon
      <4> QED
        BY <4>1, <4>2, Zenon
    <3>3. ~lst'[l].closed =>
            l \in Known' /\ lst'[l].rule \in Rules /\ lst'[l].rule.agent \notin revoked'
      BY <1>5, <1>8, <1>10, <3>1, Zenon
    <3>4. ~lst'[l].stopping => lst'[l].permit = lst'[l].rule.allow
      <4>1. CASE l \in shut \cup thin
        BY <1>2, <1>3, <1>4, <1>10, <4>1, Zenon
      <4>2. CASE l \notin shut \cup thin
        BY <1>4, <3>1, <4>2, Zenon
      <4> QED
        BY <4>1, <4>2, Zenon
    <3> QED
      BY <1>6, <1>7, <1>10, <2>3, <3>1, <3>2, <3>3, <3>4, ManagerListener, Zenon
  <2> QED
    BY <2>2, <2>3, Zenon
<1>15. ASSUME NEW c \in Conns PROVE ConnInv(c)'
  <2> DEFINE x == conn[c].l
  <2>1. /\ \A l \in shut : c \in Recorded(l) => conn'[c].down = "closed"
        /\ \A l \in thin : c \in Refused(l, stays[l]) => conn'[c].down = "closed"
        /\ c \in exempt /\ conn[c].l \notin shut \cup thin => c \in exempt'
        /\ \A l \in thin : conn[c].l = l /\ c \notin Recorded(l) => c \in exempt'
        /\ "open" # "closed"
    BY DEF CommitShape
  <2>2. ASSUME conn[c].pc # "none" PROVE Follows(c, x)
    <3>1. x \in Listeners /\ ListenerType(lst[x])
      BY <2>2, WorkerFacts, Zenon
    <3>2. CASE x \in shut
      <4>1. lst'[x].closed /\ (c \in Recorded(x) => conn'[c].down # "open")
        BY <1>10, <2>1, <3>1, <3>2, Zenon
      <4> QED
        BY <1>10, <3>1, <4>1, Zenon DEF Follows
    <3>3. CASE x \in thin
      <4>1. Thinned(x, stays[x])
        BY <1>4, <3>1, <3>3, Zenon
      <4>2. lst[x].gen \in Nat /\ lst'[x].gen = lst[x].gen
        BY <3>1, <4>1, Zenon DEF ListenerType, Thinned
      <4>3. lst[x].gen <= lst'[x].gen /\ lst'[x].gen \in Nat
        BY <4>2
      <4>4. /\ lst'[x].serve = lst[x].serve /\ lst'[x].admitting = lst[x].admitting
            /\ lst'[x].closed = lst[x].closed /\ lst'[x].rule.agent = lst[x].rule.agent
            /\ lst'[x].permit = stays[x]
        BY <4>1, Zenon DEF Thinned
      <4>5. ASSUME c \in Recorded(x), conn'[c].down = "open"
            PROVE  /\ c \in lst'[x].conns \cup lst'[x].delivering
                   /\ conn[c].src \in stays[x]
        <5>1. c \notin Refused(x, stays[x])
          BY <2>1, <3>3, <4>5, Zenon
        <5>2. conn[c].src \in stays[x]
          BY <4>5, <5>1, Zenon DEF Refused
        <5>3. c \in lst'[x].conns \cup lst'[x].delivering
          <6>1. /\ lst'[x].conns = lst[x].conns \ Refused(x, stays[x])
                /\ lst'[x].delivering = lst[x].delivering \ Refused(x, stays[x])
            BY <4>1, Zenon DEF Thinned
          <6> QED
            BY <4>5, <5>1, <6>1, Zenon DEF Recorded
        <5> QED
          BY <5>2, <5>3, Zenon
      <4>6. c \notin Recorded(x) => c \in exempt'
        BY <2>1, <3>3, Zenon
      <4>7. ~lst'[x].closed =>
              /\ ~lst[x].closed /\ lst[x].gen <= lst'[x].gen
              /\ lst'[x].gen \in Nat
              /\ lst'[x].gen = lst[x].gen => lst'[x].rule.agent = lst[x].rule.agent
        BY <4>3, <4>4, Zenon
      <4> QED
        BY <4>4, <4>5, <4>6, <4>7, Zenon DEF Follows
    <3>4. CASE x \notin shut \cup thin
      <4>1. lst'[x] = lst[x] /\ (c \in exempt => c \in exempt')
        BY <1>4, <2>1, <3>1, <3>4, Zenon
      <4> QED
        BY <3>1, <4>1, SameFollows, Zenon
    <3> QED
      BY <3>2, <3>3, <3>4, Zenon
  <2> QED
    BY <1>6, <2>2, ManagerConn, Zenon
<1> QED
  BY <1>11, <1>12, <1>13, <1>14, <1>15, Zenon DEF RelayInv

\* Retire and StopAccepting on one listener.
LEMMA RetireFields ==
  ASSUME NEW m, ListenerType(m), NEW gone, NEW kept \in SUBSET Sources, NEW n,
         n = Retire(m, gone, kept) \/ n = StopAccepting(Retire(m, gone, kept))
  PROVE  /\ ListenerType(n) /\ n.rule = m.rule /\ n.gen = m.gen
         /\ n.closed = m.closed /\ n.pending = m.pending
         /\ n.admitting = m.admitting /\ n.serve = m.serve
         /\ n.conns = m.conns \ gone /\ n.delivering = m.delivering \ gone
         /\ n.permit = kept /\ (m.stopping => n.stopping)
         /\ n = StopAccepting(Retire(m, gone, kept)) => n.stopping
<1> DEFINE r == Retire(m, gone, kept)
<1>1. /\ DOMAIN r = DOMAIN m /\ r.rule = m.rule /\ r.gen = m.gen
      /\ r.closed = m.closed /\ r.pending = m.pending /\ r.stopping = m.stopping
      /\ r.admitting = m.admitting /\ r.serve = m.serve
      /\ r.conns = m.conns \ gone /\ r.delivering = m.delivering \ gone
      /\ r.permit = kept
  BY Zenon DEF Retire, ListenerType
<1> HIDE DEF r
<1>2. r.conns \subseteq Conns /\ r.delivering \subseteq Conns
  BY <1>1, Zenon DEF ListenerType
<1>3. ListenerType(r)
  BY <1>1, <1>2, Zenon DEF ListenerType
<1>4. CASE n = StopAccepting(r)
  <2>1. /\ DOMAIN n = DOMAIN r /\ n.rule = r.rule /\ n.gen = r.gen
        /\ n.closed = r.closed /\ n.pending = r.pending /\ n.stopping = TRUE
        /\ n.admitting = r.admitting /\ n.serve = r.serve
        /\ n.conns = r.conns /\ n.delivering = r.delivering
        /\ n.permit = r.permit
    BY <1>3, <1>4, Zenon DEF StopAccepting, ListenerType
  <2>2. ListenerType(n)
    BY <1>3, <2>1, Zenon DEF ListenerType
  <2> QED
    BY <1>1, <2>1, <2>2, Zenon
<1>5. CASE n = r /\ n # StopAccepting(r)
  BY <1>1, <1>3, <1>5, Zenon DEF r
<1> QED
  BY <1>4, <1>5, Zenon DEF r

LEMMA CommitStopShape ==
  ASSUME RelayInv, NEW want \in [Ports -> Rules \cup {None}],
         NEW opened \in SUBSET Ports, NEW keep \in [Ids -> Keeps \cup {None}],
         CommitStop(want, opened, keep)
  PROVE  /\ mgr.op = "idle"
         /\ \E shut, stop, thin, stays :
              CommitShape(shut, stop, thin, stays, want, opened)
<1> DEFINE Keep(l) == keep[lst[l].rule.id]
           left    == {ls[p] : p \in {q \in Ports : want[q] = None}} \ {None}
           stays(l) == IF Keep(l) = None THEN {} ELSE Keep(l)
           over    == {l \in retiring :
                         \/ Keep(l) = None
                         \/ IdleListener(Retire(lst[l], Refused(l, Keep(l)), {}))}
           shut    == over \cup {l \in left : Keep(l) = None}
           stop    == {l \in left : Keep(l) # None}
           thin    == (retiring \ shut) \cup stop
           cut     == UNION ({Recorded(l) : l \in shut} \cup
                             {Refused(l, stays(l)) : l \in thin})
           kept(l) == Retire(lst[l], Refused(l, stays(l)), stays(l))
<1>1. /\ mgr.op = "idle"
      /\ lst' = [l \in Listeners |->
                   CASE l \in shut -> CloseListener(lst[l])
                     [] l \in stop -> StopAccepting(kept(l))
                     [] l \in thin \ stop -> kept(l)
                     [] OTHER -> lst[l]]
      /\ conn' = [c \in Conns |->
                    IF conn[c].l \in shut \cup stop
                    THEN StopConns(conn[c].l, Cut(conn, cut))[c]
                    ELSE Cut(conn, cut)[c]]
      /\ mgr' = [Quiet EXCEPT !.op = "commit", !.stopped = shut \cup stop,
                              !.want = want, !.opened = opened]
      /\ retiring' = (retiring \ over) \cup stop
      /\ exempt' = (exempt \ cut) \cup UNION {Unrecorded(l) : l \in thin}
      /\ UNCHANGED <<ls, closed, inUse, hold, revoked>>
  BY Zenon DEF CommitStop
<1>2. /\ Known \subseteq Listeners /\ retiring \subseteq Known
      /\ \A p \in Ports : ls[p] # None => ls[p] \in Known
      /\ \A l \in Known : ~lst[l].closed /\ lst[l].rule \in Rules
      /\ \A p, q \in Ports : ls[p] = ls[q] /\ ls[p] # None => p = q
      /\ \A p \in Ports : ls[p] \notin retiring
  <2>1. /\ \A l \in Known : ~lst[l].closed
        /\ \A p, q \in Ports : ls[p] = ls[q] /\ ls[p] # None => p = q
        /\ \A p \in Ports : ls[p] \notin retiring
    <3>1. mgr.op = "idle" /\ "idle" # "commit"
      BY <1>1, Zenon
    <3> QED
      BY <3>1, Zenon DEF RelayInv, ManagerInv
  <2> QED
    BY <2>1, KnownFacts, Zenon
<1>3. \A l \in Known : stays(l) \subseteq Sources
  <2>1. SUFFICES ASSUME NEW l \in Known PROVE stays(l) \subseteq Sources
    OBVIOUS
  <2>2. lst[l].rule.id \in Ids
    BY <1>2, RelayAssumption, SMT
  <2>3. Keep(l) \in Keeps \cup {None}
    BY <2>2, Zenon
  <2> QED
    BY <2>3, RelayAssumption, Zenon
<1>4. /\ left \subseteq Known /\ \A l \in left : l \notin retiring
      /\ \A l \in left : \E p \in Ports : ls[p] = l /\ want[p] = None /\ l # None
      /\ \A p \in Ports : ls[p] # None /\ want[p] = None => ls[p] \in left
      /\ \A p \in Ports : ls[p] \in left => want[p] = None
  BY <1>2, Zenon
<1> HIDE DEF left
<1>5. /\ shut \subseteq Known /\ thin \subseteq Known /\ stop \subseteq thin
      /\ stop \subseteq left /\ over \subseteq retiring
      /\ \A l \in shut : l \notin thin
      /\ \A l \in left : l \in shut \cup stop
      /\ \A l \in shut \cup stop : l \in left \/ l \in retiring
      /\ retiring \ over = retiring \ shut
  BY <1>2, <1>4, Zenon
<1>6. \A c \in cut : \E l \in shut \cup thin : c \in Recorded(l) /\ l \in Listeners
  <2>1. \A l : \A c \in Refused(l, stays(l)) : c \in Recorded(l)
    BY Zenon DEF Refused
  <2>2. \A l \in shut \cup thin : l \in Listeners
    BY <1>2, <1>5, Zenon
  <2> HIDE DEF shut, thin, stays
  <2> QED
    BY <2>1, <2>2, Zenon
<1>7. \A c \in cut : conn[c].pc # "none" /\ conn[c].l \in shut \cup thin
  <2> HIDE DEF cut, shut, thin
  <2>1. SUFFICES ASSUME NEW c \in cut PROVE conn[c].pc # "none" /\ conn[c].l \in shut \cup thin
    BY Zenon
  <2>2. PICK l \in shut \cup thin : c \in Recorded(l) /\ l \in Listeners
    BY <1>6, Zenon
  <2>3. conn[c].l = l /\ conn[c].pc \in {"piping", "delivering"}
    BY <2>2, RecordedFacts, Zenon
  <2>4. conn[c].pc # "none"
    BY <2>3
  <2> QED
    BY <2>3, <2>4, Zenon
<1>8. /\ \A l \in shut : \A c \in Recorded(l) : c \in cut
      /\ \A l \in thin : \A c \in Refused(l, stays(l)) : c \in cut
  BY Zenon
<1>9. \A c \in exempt' : c \in exempt \/ c \in Conns
  BY <1>1, Zenon DEF Unrecorded, Workers
<1>10. \A l \in thin : \A c \in Unrecorded(l) : c \in exempt'
  BY <1>1, Zenon
<1>11. \A c \in exempt : c \notin cut => c \in exempt'
  BY <1>1, Zenon
<1> HIDE DEF cut, shut, stop, thin, over, stays
<1> DEFINE S == [l \in Listeners |-> stays(l)]
<1>12. \A l \in Listeners : S[l] = stays(l)
  BY Zenon
<1> HIDE DEF S
<1>13. ASSUME NEW l \in Listeners
       PROVE  /\ l \in shut => lst'[l] = CloseListener(lst[l])
              /\ l \in thin => Thinned(l, S[l])
              /\ l \in stop => lst'[l].stopping
              /\ l \notin shut \cup thin => lst'[l] = lst[l]
  <2>1. /\ l \in shut => l \notin stop /\ l \notin thin \ stop
        /\ l \in stop => l \notin shut /\ l \notin thin \ stop /\ l \in thin
        /\ l \in thin \ stop => l \notin shut /\ l \notin stop
    BY <1>5, Zenon
  <2>2. lst'[l] = CASE l \in shut -> CloseListener(lst[l])
                    [] l \in stop -> StopAccepting(kept(l))
                    [] l \in thin \ stop -> kept(l)
                    [] OTHER -> lst[l]
    BY <1>1, Zenon
  <2>3. l \in shut => lst'[l] = CloseListener(lst[l])
    BY <2>1, <2>2, Zenon
  <2>4. l \in stop => lst'[l] = StopAccepting(kept(l))
    BY <2>1, <2>2, Zenon
  <2>5. l \in thin \ stop => lst'[l] = kept(l)
    BY <2>1, <2>2, Zenon
  <2>6. l \notin shut \cup thin => lst'[l] = lst[l]
    BY <2>1, <2>2, Zenon
  <2>7. ASSUME l \in thin PROVE Thinned(l, stays(l)) /\ (l \in stop => lst'[l].stopping)
    <3> DEFINE gone == Refused(l, stays(l))
    <3>1. stays(l) \in SUBSET Sources /\ ListenerType(lst[l])
      BY <1>3, <1>5, <2>7, Parts, Zenon
    <3>2. /\ lst'[l] = Retire(lst[l], gone, stays(l)) \/
             lst'[l] = StopAccepting(Retire(lst[l], gone, stays(l)))
          /\ l \in stop => lst'[l] = StopAccepting(Retire(lst[l], gone, stays(l)))
      BY <2>4, <2>5, <2>7, Zenon
    <3> HIDE DEF gone
    <3>3. /\ ListenerType(lst'[l]) /\ lst'[l].rule = lst[l].rule
          /\ lst'[l].gen = lst[l].gen
          /\ lst'[l].closed = lst[l].closed /\ lst'[l].pending = lst[l].pending
          /\ lst'[l].admitting = lst[l].admitting /\ lst'[l].serve = lst[l].serve
          /\ lst'[l].conns = lst[l].conns \ gone
          /\ lst'[l].delivering = lst[l].delivering \ gone
          /\ lst'[l].permit = stays(l) /\ (lst[l].stopping => lst'[l].stopping)
          /\ lst'[l] = StopAccepting(Retire(lst[l], gone, stays(l))) => lst'[l].stopping
      BY <3>1, <3>2, RetireFields, SMT
    <3>4. Thinned(l, stays(l))
      BY <3>3, Zenon DEF Thinned, gone
    <3> QED
      BY <3>2, <3>3, <3>4, Zenon
  <2> QED
    BY <1>5, <1>12, <2>3, <2>6, <2>7, Zenon
<1>14. ASSUME NEW c \in Conns
       PROVE  /\ Severed(c)
              /\ \A l \in shut : c \in Recorded(l) => conn'[c].down = "closed"
              /\ \A l \in thin : c \in Refused(l, S[l]) => conn'[c].down = "closed"
              /\ c \in exempt /\ conn[c].l \notin shut \cup thin => c \in exempt'
              /\ \A l \in thin : conn[c].l = l /\ c \notin Recorded(l) => c \in exempt'
  <2>1. conn'[c] = Cut(conn, cut)[c] \/
          (conn[c].l \in Listeners /\ conn'[c] = StopConns(conn[c].l, Cut(conn, cut))[c])
    BY <1>1, <1>2, <1>5, Zenon
  <2>2. Severed(c) /\ (c \in cut => conn'[c].down = "closed")
    BY <1>7, <2>1, StopSevers, Zenon
  <2>3. \A l \in thin : conn[c].l = l /\ c \notin Recorded(l) => c \in exempt'
    BY <1>10, Zenon DEF Unrecorded, Workers
  <2>4. c \in exempt /\ conn[c].l \notin shut \cup thin => c \in exempt'
    BY <1>7, <1>11, Zenon
  <2>5. \A l \in thin : c \in Refused(l, S[l]) => conn'[c].down = "closed"
    BY <1>2, <1>5, <1>8, <1>12, <2>2, Zenon
  <2> QED
    BY <1>8, <2>2, <2>3, <2>4, <2>5, Zenon
<1>15. \A p \in Ports : ls[p] # None => (want[p] = None <=> ls[p] \in shut \cup stop)
  BY <1>2, <1>4, <1>5, Zenon
<1>16. /\ mgr'.op = "commit" /\ mgr'.stopped = shut \cup stop
       /\ mgr'.want = want /\ mgr'.opened = opened
  BY <1>1, QuietFields, Zenon
<1>17. /\ DOMAIN lst' = Listeners /\ DOMAIN conn' = Conns /\ exempt' \subseteq Conns
       /\ retiring' = (retiring \ shut) \cup stop
       /\ UNCHANGED <<ls, closed, inUse, hold, revoked>>
  BY <1>1, <1>5, <1>9, Parts, Zenon
<1>18. thin = (retiring \ shut) \cup stop
  BY Zenon DEF thin
<1>19. CommitShape(shut, stop, thin, S, want, opened)
  BY <1>5, <1>13, <1>14, <1>15, <1>16, <1>17, <1>18, Zenon DEF CommitShape
<1> QED
  BY <1>1, <1>19, Zenon

LEMMA CommitStep ==
  ASSUME RelayInv, Commit
  PROVE  RelayInv'
<1>1. PICK want \in [Ports -> Rules \cup {None}], opened \in SUBSET Ports :
        LET active == {want[p].id : p \in {q \in Ports : want[q] # None}}
            known  == {lst[l].rule.id : l \in Known}
        IN  /\ Prepared(want, opened)
            /\ \E keep \in [known \ active -> Keeps \cup {None}] :
                 CommitStop(want, opened,
                            [i \in Ids |-> IF i \in DOMAIN keep THEN keep[i]
                                           ELSE None])
  BY Zenon DEF Commit
<1> DEFINE active == {want[p].id : p \in {q \in Ports : want[q] # None}}
           known  == {lst[l].rule.id : l \in Known}
<1>2. PICK kp \in [known \ active -> Keeps \cup {None}] :
        CommitStop(want, opened, [i \in Ids |-> IF i \in DOMAIN kp THEN kp[i] ELSE None])
  BY <1>1, Zenon
<1> HIDE DEF active, known
<1> DEFINE keep == [i \in Ids |-> IF i \in DOMAIN kp THEN kp[i] ELSE None]
<1>3. keep \in [Ids -> Keeps \cup {None}]
  BY Zenon
<1>4. CommitStop(want, opened, keep)
  BY <1>2, Zenon
<1> HIDE DEF keep
<1>5. \A p \in opened : want[p] # None
  BY <1>1, Zenon DEF Prepared
<1>6. mgr.op = "idle"
  BY <1>3, <1>4, CommitStopShape, Zenon
<1>7. PICK shut, stop, thin, stays : CommitShape(shut, stop, thin, stays, want, opened)
  BY <1>3, <1>4, CommitStopShape, Zenon
<1> QED
  BY <1>5, <1>6, <1>7, CommitShapeStep, Zenon
----------------------------------------------------------------------------
(* Commit, after the wait.                                                 *)

\* updateRestriction on a listener.
Updated(l, r, n) ==
  /\ ListenerType(n) /\ n.rule = r /\ n.permit = r.allow
  /\ n.gen = (IF Retargets(l, r) THEN lst[l].gen + 1 ELSE lst[l].gen)
  /\ n.delivering = lst[l].delivering \ CutByUpdate(l, r)
  /\ n.conns = lst[l].conns /\ n.stopping = lst[l].stopping
  /\ n.closed = lst[l].closed /\ n.pending = lst[l].pending
  /\ n.admitting = lst[l].admitting /\ n.serve = lst[l].serve

LEMMA UpdateFields ==
  ASSUME NEW l, ListenerType(lst[l]), NEW r \in Rules
  PROVE  Updated(l, r, UpdateRestriction(l, r))
<1> DEFINE n == UpdateRestriction(l, r)
<1>1. /\ n.rule = r /\ n.permit = r.allow /\ DOMAIN n = DOMAIN lst[l]
      /\ n.gen = (IF Retargets(l, r) THEN lst[l].gen + 1 ELSE lst[l].gen)
      /\ n.delivering = lst[l].delivering \ CutByUpdate(l, r)
      /\ n.conns = lst[l].conns /\ n.stopping = lst[l].stopping
      /\ n.closed = lst[l].closed /\ n.pending = lst[l].pending
      /\ n.admitting = lst[l].admitting /\ n.serve = lst[l].serve
  BY Zenon DEF UpdateRestriction, ListenerType
<1> HIDE DEF n
<1>2. n.gen \in Nat
  <2>1. lst[l].gen \in Nat
    BY Zenon DEF ListenerType
  <2>2. lst[l].gen + 1 \in Nat
    BY <2>1
  <2> QED
    BY <1>1, <2>1, <2>2, Zenon
<1>3. n.permit \subseteq Sources
  <2>1. r.allow \in SUBSET Sources
    BY RelayAssumption
  <2> QED
    BY <1>1, <2>1, Zenon
<1>4. n.delivering \subseteq Conns
  BY <1>1, Zenon DEF ListenerType
<1>5. ListenerType(n)
  BY <1>1, <1>2, <1>3, <1>4, Zenon DEF ListenerType
<1>6. Updated(l, r, n)
  BY <1>1, <1>5, Zenon DEF Updated
<1> QED
  BY <1>6, Zenon DEF n

\* newListener and its accept loop.
Opened(r) == [NoListener EXCEPT !.rule = r, !.permit = r.allow, !.serve = "accept"]
Started(r, n) ==
  /\ ListenerType(n) /\ n.rule = r /\ n.permit = r.allow /\ n.serve = "accept"
  /\ n.closed = FALSE /\ n.pending = 0 /\ n.admitting = None
  /\ n.conns = {} /\ n.delivering = {}

LEMMA OpenedFields ==
  ASSUME NEW r \in Rules
  PROVE  Started(r, Opened(r))
<1> DEFINE n == Opened(r)
<1>1. /\ n.rule = r /\ n.permit = r.allow /\ n.serve = "accept"
      /\ DOMAIN n = DOMAIN NoListener /\ n.closed = NoListener.closed
      /\ n.stopping = NoListener.stopping /\ n.gen = NoListener.gen
      /\ n.pending = NoListener.pending /\ n.admitting = NoListener.admitting
      /\ n.conns = NoListener.conns /\ n.delivering = NoListener.delivering
  BY NoListenerFields, Zenon DEF Opened
<1> HIDE DEF n
<1>2. r.allow \in SUBSET Sources
  BY RelayAssumption
<1>3. n.permit \subseteq Sources /\ n.serve \in {"none", "accept", "backoff", "admit", "done"}
  BY <1>1, <1>2, Zenon
<1>4. ListenerType(n)
  BY <1>1, <1>3, NoListenerFields, Zenon DEF ListenerType
<1>5. Started(r, n)
  BY <1>1, <1>4, NoListenerFields, Zenon DEF Started
<1> QED
  BY <1>5, Zenon DEF n

\* A relay that a listener's new rule does not cut is as that rule wants it.
LEMMA UpdateFollows ==
  ASSUME NEW c \in Conns, NEW x \in Listeners, ListenerType(lst[x]), ~lst[x].closed,
         NEW r, Updated(x, r, lst'[x]),
         c \in CutByUpdate(x, r) => conn'[c].down # "open",
         c \notin Recorded(x) => c \in exempt'
  PROVE  Follows(c, x)
<1>1. /\ ListenerType(lst'[x]) /\ lst'[x].rule = r /\ lst'[x].permit = r.allow
      /\ lst'[x].gen = (IF Retargets(x, r) THEN lst[x].gen + 1 ELSE lst[x].gen)
      /\ lst'[x].delivering = lst[x].delivering \ CutByUpdate(x, r)
      /\ lst'[x].conns = lst[x].conns
      /\ lst'[x].admitting = lst[x].admitting /\ lst'[x].serve = lst[x].serve
  BY Zenon DEF Updated
<1>2. lst[x].gen \in Nat /\ lst'[x].gen \in Nat
  BY <1>1, Zenon DEF ListenerType
<1>3. lst[x].gen <= lst'[x].gen
  BY <1>1, <1>2
<1>4. lst'[x].gen = lst[x].gen => ~Retargets(x, r)
  BY <1>1, <1>2
<1>5. ~Retargets(x, r) => lst'[x].rule.agent = lst[x].rule.agent
  BY <1>1, Zenon DEF Retargets
<1>6. ASSUME c \in Recorded(x), conn'[c].down = "open"
      PROVE  /\ c \in lst'[x].conns \cup lst'[x].delivering
             /\ ~Retargets(x, r) /\ conn[c].src \in r.allow
  <2>1. c \notin CutByUpdate(x, r)
    BY <1>6, Zenon
  <2>2. ~Retargets(x, r) /\ c \notin Refused(x, r.allow)
    BY <1>6, <2>1, Zenon DEF CutByUpdate
  <2>3. conn[c].src \in r.allow
    BY <1>6, <2>2, Zenon DEF Refused
  <2>4. c \in lst'[x].conns \cup lst'[x].delivering
    BY <1>1, <1>6, <2>1, Zenon DEF Recorded
  <2> QED
    BY <2>2, <2>3, <2>4, Zenon
<1> QED
  BY <1>1, <1>2, <1>3, <1>4, <1>5, <1>6, Zenon DEF Follows

\* What Commit does after it has waited: the listeners of the ports in stay
\* take their new rule, those of the ports in fresh start, and the others are
\* left to the collector.
StayPort(p, want) ==
  /\ p \in Ports /\ ls[p] \in Known /\ ls[p] \in Listeners
  /\ ls[p] # None /\ ls[p] \notin retiring /\ ~lst[ls[p]].closed
  /\ want[p] \in Rules /\ lst[ls[p]].serve # "none"
FreshPort(p, new, want) ==
  /\ p \in Ports /\ ls[p] = None /\ new[p] \in Listeners /\ new[p] # None
  /\ lst[new[p]].serve = "none" /\ new[p] \notin Known /\ want[p] \in Rules
Apart(l, stay, fresh, new) ==
  (\A p \in stay : ls[p] # l) /\ (\A p \in fresh : new[p] # l)

FinishPorts(stay, fresh, new, want) ==
  /\ \A p \in stay : StayPort(p, want) /\ ls'[p] = ls[p] /\ ls[p] \in OnPorts'
  /\ \A p \in fresh : FreshPort(p, new, want) /\ ls'[p] = new[p] /\ new[p] \in OnPorts'
  /\ \A p, q \in fresh : new[p] = new[q] => p = q
  /\ \A p \in Ports : p \notin fresh /\ p \notin stay =>
       ls'[p] = None /\ (ls[p] # None => want[p] = None)
  /\ \A p \in stay : ls[p] \in Known'
  /\ \A p \in fresh : new[p] \in Known'
  /\ retiring \subseteq Known'
  /\ \A l \in Known' : l \in retiring \/ ~Apart(l, stay, fresh, new)
  /\ ls' \in [Ports -> Listeners \cup {None}]

FinishListeners(stay, fresh, new, want) ==
  /\ \A p \in stay : Updated(ls[p], want[p], lst'[ls[p]])
  /\ \A p \in fresh : Started(want[p], lst'[new[p]])
  /\ \A l \in Listeners : Apart(l, stay, fresh, new) =>
       \/ lst'[l] = lst[l]
       \/ lst'[l] = NoListener /\ l \notin Known' /\ \A c \in Conns : conn[c].l # l
  /\ DOMAIN lst' = Listeners

FinishConns(stay, want) ==
  /\ \A c \in Conns :
       /\ Severed(c)
       /\ \A p \in stay : c \in CutByUpdate(ls[p], want[p]) => conn'[c].down = "closed"
       /\ \A p \in stay : conn[c].l = ls[p] /\ c \notin Recorded(ls[p]) => c \in exempt'
       /\ c \in exempt /\ (\A p \in stay : conn[c].l # ls[p]) => c \in exempt'
  /\ DOMAIN conn' = Conns /\ exempt' \subseteq Conns

FinishRest(stay, fresh, want) ==
  /\ mgr.op = "commit" /\ \A l \in mgr.stopped : lst[l].serve = "done"
  /\ mgr.want = want /\ mgr'.op = "idle" /\ mgr'.stopped = {}
  /\ retiring' = retiring /\ inUse' = inUse /\ hold' = hold
  /\ \A a \in revoked' : a \in revoked
  /\ \A p \in stay : want[p].agent \notin revoked'
  /\ \A p \in fresh : want[p].agent \notin revoked'

FinishShape(stay, fresh, new, want) ==
  /\ FinishPorts(stay, fresh, new, want) /\ FinishListeners(stay, fresh, new, want)
  /\ FinishConns(stay, want) /\ FinishRest(stay, fresh, want)

\* The Manager's invariant while a commit waits.
LEMMA WaitingFacts ==
  ASSUME RelayInv, mgr.op = "commit"
  PROVE  /\ \A p, q \in Ports : ls[p] = ls[q] /\ ls[p] # None => p = q
         /\ \A l \in retiring : lst[l].stopping /\ ~lst[l].closed
         /\ mgr.want \in [Ports -> Rules \cup {None}] /\ mgr.opened \subseteq Ports
         /\ \A p \in mgr.opened : mgr.want[p] # None
         /\ \A p \in Ports : ls[p] # None /\ mgr.want[p] = None =>
              ls[p] \in mgr.stopped /\ (lst[ls[p]].closed \/ ls[p] \in retiring)
         /\ \A p \in Ports : ls[p] # None /\ mgr.want[p] # None =>
              ls[p] \notin retiring /\ ~lst[ls[p]].closed
BY Zenon DEF RelayInv, ManagerInv

\* The listener that each port in stay or fresh gets.
Taken(stay, fresh, new, want) ==
  [l \in Listeners |->
     CASE \E p \in stay : ls[p] = l ->
            UpdateRestriction(l, want[CHOOSE p \in stay : ls[p] = l])
       [] \E p \in fresh : new[p] = l -> Opened(want[CHOOSE p \in fresh : new[p] = l])
       [] OTHER -> lst[l]]

Placed(stay, fresh, new) ==
  /\ \A p, q \in stay : ls[p] = ls[q] => p = q
  /\ \A p, q \in fresh : new[p] = new[q] => p = q
  /\ \A p \in stay : ls[p] \in Listeners
  /\ \A p \in fresh : new[p] \in Listeners
  /\ \A p \in stay : \A q \in fresh : ls[p] # new[q]

TakenAs(m, stay, fresh, new, want) ==
  /\ \A p \in stay : m[ls[p]] = UpdateRestriction(ls[p], want[p])
  /\ \A p \in fresh : m[new[p]] = Opened(want[p])
  /\ \A l \in Listeners : Apart(l, stay, fresh, new) => m[l] = lst[l]

LEMMA TakenFields ==
  ASSUME NEW stay, NEW fresh, NEW new, NEW want, Placed(stay, fresh, new)
  PROVE  TakenAs(Taken(stay, fresh, new, want), stay, fresh, new, want)
<1> DEFINE m == Taken(stay, fresh, new, want)
<1>1. ASSUME NEW p \in stay PROVE m[ls[p]] = UpdateRestriction(ls[p], want[p])
  <2>1. (CHOOSE q \in stay : ls[q] = ls[p]) = p
    <3>1. /\ (CHOOSE q \in stay : ls[q] = ls[p]) \in stay
          /\ ls[CHOOSE q \in stay : ls[q] = ls[p]] = ls[p]
      BY Zenon
    <3> QED
      BY <3>1, Zenon DEF Placed
  <2>2. ~\E q \in fresh : new[q] = ls[p]
    BY Zenon DEF Placed
  <2> QED
    BY <2>1, <2>2, Zenon DEF Taken, Placed
<1>2. ASSUME NEW p \in fresh PROVE m[new[p]] = Opened(want[p])
  <2>1. (CHOOSE q \in fresh : new[q] = new[p]) = p
    <3>1. /\ (CHOOSE q \in fresh : new[q] = new[p]) \in fresh
          /\ new[CHOOSE q \in fresh : new[q] = new[p]] = new[p]
      BY Zenon
    <3> QED
      BY <3>1, Zenon DEF Placed
  <2>2. ~\E q \in stay : ls[q] = new[p]
    BY Zenon DEF Placed
  <2> QED
    BY <2>1, <2>2, Zenon DEF Taken, Placed
<1>3. ASSUME NEW l \in Listeners, Apart(l, stay, fresh, new) PROVE m[l] = lst[l]
  BY <1>3, Zenon DEF Apart, Taken
<1> QED
  BY <1>1, <1>2, <1>3, Zenon DEF TakenAs

LEMMA CommitFinishShape ==
  ASSUME RelayInv, CommitFinish
  PROVE  \E stay, fresh, new, want : FinishShape(stay, fresh, new, want)
<1> DEFINE want  == mgr.want
           stay  == {p \in Ports : ls[p] # None /\ want[p] # None}
           fresh == {p \in mgr.opened : ls[p] = None}
           cut   == UNION {CutByUpdate(ls[p], want[p]) : p \in stay}
<1>1. /\ mgr.op = "commit" /\ \A l \in mgr.stopped : lst[l].serve = "done"
      /\ mgr' = Quiet /\ retiring' = retiring /\ inUse' = inUse /\ hold' = hold
  BY Zenon DEF CommitFinish, Joined
<1>2. /\ \A p \in Ports : p \in stay <=> ls[p] # None /\ want[p] # None
      /\ \A p \in stay : p \in Ports /\ ls[p] # None /\ want[p] # None
      /\ \A p \in fresh : p \in mgr.opened /\ ls[p] = None
      /\ \A c : c \in cut <=> \E p \in stay : c \in CutByUpdate(ls[p], want[p])
  BY Zenon
<1>3. PICK new \in [fresh -> {l \in Listeners : lst[l].serve = "none"}] :
        /\ \A p, q \in fresh : new[p] = new[q] => p = q
        /\ ls' = [p \in Ports |-> CASE p \in fresh -> new[p]
                                    [] p \in stay -> ls[p]
                                    [] OTHER -> None]
        /\ lst' = Collected(Taken(stay, fresh, new, want),
                            ({ls'[p] : p \in Ports} \ {None}) \cup retiring, conn)
        /\ conn' = Cut(conn, cut)
        /\ exempt' = (exempt \ cut) \cup UNION {Unrecorded(ls[p]) : p \in stay}
        /\ revoked' = revoked \ {want[p].agent : p \in stay \cup fresh}
  BY Zenon DEF CommitFinish, Opened, Taken
<1> HIDE DEF want, stay, fresh, cut
<1>4. /\ Known \subseteq Listeners /\ retiring \subseteq Known
      /\ \A l \in Known : lst[l].serve # "none"
      /\ \A p \in Ports : ls[p] # None => ls[p] \in Known
      /\ None \notin Listeners
  BY KnownFacts, RelayAssumption, Zenon
<1>5. /\ \A p, q \in Ports : ls[p] = ls[q] /\ ls[p] # None => p = q
      /\ want \in [Ports -> Rules \cup {None}] /\ mgr.opened \subseteq Ports
      /\ \A p \in mgr.opened : want[p] # None
      /\ \A p \in Ports : ls[p] # None /\ want[p] # None =>
           ls[p] \notin retiring /\ ~lst[ls[p]].closed
  BY <1>1, WaitingFacts, Zenon DEF want
<1>6. ASSUME NEW p \in stay PROVE StayPort(p, want) /\ p \notin fresh
  BY <1>2, <1>4, <1>5, Zenon DEF StayPort
<1>7. ASSUME NEW p \in fresh PROVE FreshPort(p, new, want) /\ p \notin stay
  <2>1. new[p] \in Listeners /\ lst[new[p]].serve = "none"
    BY <1>3, Zenon
  <2>2. p \in Ports /\ ls[p] = None /\ want[p] # None /\ p \notin stay
    BY <1>2, <1>5, Zenon
  <2>3. new[p] # None /\ new[p] \notin Known /\ want[p] \in Rules
    BY <1>4, <1>5, <2>1, <2>2, Zenon
  <2> QED
    BY <2>1, <2>2, <2>3, Zenon DEF FreshPort
<1>8. FinishPorts(stay, fresh, new, want)
  <2> DEFINE to(p) == CASE p \in fresh -> new[p]
                        [] p \in stay -> ls[p]
                        [] OTHER -> None
  <2>1. ls' = [p \in Ports |-> to(p)]
    BY <1>3, Zenon
  <2>2. ASSUME NEW p \in stay PROVE to(p) = ls[p] /\ to(p) \in Listeners /\ to(p) # None
    BY <1>6, Zenon DEF StayPort
  <2>3. ASSUME NEW p \in fresh PROVE to(p) = new[p] /\ to(p) \in Listeners /\ to(p) # None
    BY <1>7, Zenon DEF FreshPort
  <2>4. ASSUME NEW p, p \notin fresh, p \notin stay PROVE to(p) = None
    BY <2>4, Zenon
  <2> HIDE DEF to
  <2>5. ls' \in [Ports -> Listeners \cup {None}]
    BY <2>1, <2>2, <2>3, <2>4, Zenon
  <2>6. \A p \in stay : p \in Ports /\ ls'[p] = ls[p] /\ ls[p] # None
    BY <1>6, <2>1, <2>2, Zenon DEF StayPort
  <2>7. \A p \in fresh : p \in Ports /\ ls'[p] = new[p] /\ new[p] # None
    BY <1>7, <2>1, <2>3, Zenon DEF FreshPort
  <2>8. \A p \in Ports : p \notin fresh /\ p \notin stay =>
          ls'[p] = None /\ (ls[p] # None => want[p] = None)
    BY <1>2, <2>1, <2>4, Zenon
  <2>9. /\ \A p \in stay : ls[p] \in Known' /\ ls[p] \in OnPorts'
        /\ \A p \in fresh : new[p] \in Known' /\ new[p] \in OnPorts'
        /\ retiring \subseteq Known'
    BY <1>1, <2>6, <2>7, Zenon DEF Known, OnPorts
  <2>10. ASSUME NEW l \in Known' PROVE l \in retiring \/ ~Apart(l, stay, fresh, new)
    <3>1. CASE \E p \in Ports : ls'[p] = l /\ l # None
      BY <2>6, <2>7, <2>8, <3>1, Zenon DEF Apart
    <3>2. l \in retiring \/ \E p \in Ports : ls'[p] = l /\ l # None
      BY <1>1, Zenon DEF Known
    <3> QED
      BY <3>1, <3>2, Zenon
  <2> QED
    BY <1>3, <1>6, <1>7, <2>5, <2>6, <2>7, <2>8, <2>9, <2>10, Zenon DEF FinishPorts
<1>9. FinishListeners(stay, fresh, new, want)
  <2> DEFINE m == Taken(stay, fresh, new, want)
  <2>1. /\ \A p \in stay : ls[p] \in Listeners /\ ls[p] \in Known'
        /\ \A p \in fresh : new[p] \in Listeners /\ new[p] \in Known'
    <3>1. /\ \A p \in stay : ls[p] \in Known'
          /\ \A p \in fresh : new[p] \in Known'
      BY <1>8, Zenon DEF FinishPorts
    <3> QED
      BY <1>6, <1>7, <3>1, Zenon DEF StayPort, FreshPort
  <2>2. TakenAs(m, stay, fresh, new, want)
    <3>1. \A p, q \in stay : ls[p] = ls[q] => p = q
      BY <1>5, <1>6, Zenon DEF StayPort
    <3>2. \A p \in stay : \A q \in fresh : ls[p] # new[q]
      BY <1>6, <1>7, Zenon DEF StayPort, FreshPort
    <3>3. \A p, q \in fresh : new[p] = new[q] => p = q
      BY <1>3, Zenon
    <3>4. Placed(stay, fresh, new)
      BY <2>1, <3>1, <3>2, <3>3, Zenon DEF Placed
    <3> QED
      BY <3>4, TakenFields, Zenon
  <2> HIDE DEF m
  <2>3. lst' = Collected(m, Known', conn)
    BY <1>1, <1>3, Zenon DEF Known, m
  <2>4. /\ DOMAIN lst' = Listeners
        /\ \A l \in Listeners : l \in Known' => lst'[l] = m[l]
        /\ \A l \in Listeners : \/ lst'[l] = m[l]
                                \/ /\ lst'[l] = NoListener /\ l \notin Known'
                                   /\ \A c \in Conns : conn[c].l # l
    BY <2>3, Zenon DEF Collected
  <2>5. ASSUME NEW p \in stay PROVE Updated(ls[p], want[p], lst'[ls[p]])
    <3>1. ListenerType(lst[ls[p]]) /\ want[p] \in Rules
      BY <1>6, Parts, Zenon DEF StayPort
    <3>2. lst'[ls[p]] = UpdateRestriction(ls[p], want[p])
      BY <2>1, <2>2, <2>4, Zenon DEF TakenAs
    <3>3. Updated(ls[p], want[p], UpdateRestriction(ls[p], want[p]))
      BY <3>1, UpdateFields, Zenon
    <3> QED
      BY <3>2, <3>3, Zenon
  <2>6. ASSUME NEW p \in fresh PROVE Started(want[p], lst'[new[p]])
    <3>1. want[p] \in Rules
      BY <1>7, Zenon DEF FreshPort
    <3>2. lst'[new[p]] = Opened(want[p])
      BY <2>1, <2>2, <2>4, Zenon DEF TakenAs
    <3>3. Started(want[p], Opened(want[p]))
      BY <3>1, OpenedFields, Zenon
    <3> QED
      BY <3>2, <3>3, Zenon
  <2>7. ASSUME NEW l \in Listeners, Apart(l, stay, fresh, new)
        PROVE  \/ lst'[l] = lst[l]
               \/ lst'[l] = NoListener /\ l \notin Known' /\ \A c \in Conns : conn[c].l # l
    BY <2>2, <2>4, <2>7, Zenon DEF TakenAs
  <2> QED
    BY <2>4, <2>5, <2>6, <2>7, Zenon DEF FinishListeners
<1>10. FinishConns(stay, want)
  <2>1. ASSUME NEW c \in cut
        PROVE  \E p \in stay : conn[c].l = ls[p] /\ conn[c].pc # "none"
    <3>1. PICK p \in stay : c \in CutByUpdate(ls[p], want[p])
      BY <1>2, Zenon
    <3>2. c \in Recorded(ls[p])
      BY <3>1, Zenon DEF CutByUpdate, Refused
    <3>3. conn[c].l = ls[p] /\ conn[c].pc \in {"piping", "delivering"}
      BY <1>6, <3>2, RecordedFacts, Zenon DEF StayPort
    <3>4. conn[c].pc # "none"
      BY <3>3
    <3> QED
      BY <3>3, <3>4, Zenon
  <2>2. ASSUME NEW c \in Conns PROVE Severed(c) /\ (c \in cut => conn'[c].down = "closed")
    <3>1. c \in cut => conn[c].pc # "none"
      BY <2>1, Zenon
    <3>2. conn'[c] = Cut(conn, cut)[c]
      BY <1>3, Zenon
    <3> QED
      BY <3>1, <3>2, StopSevers, Zenon
  <2>3. ASSUME NEW c \in Conns, NEW p \in stay, c \in CutByUpdate(ls[p], want[p])
        PROVE  conn'[c].down = "closed"
    BY <1>2, <2>2, <2>3, Zenon
  <2>4. ASSUME NEW c \in Conns, NEW p \in stay, conn[c].l = ls[p], c \notin Recorded(ls[p])
        PROVE  c \in exempt'
    <3>1. c \in Unrecorded(ls[p])
      BY <2>4, Zenon DEF Unrecorded, Workers
    <3> QED
      BY <1>3, <3>1, Zenon
  <2>5. ASSUME NEW c \in exempt, \A p \in stay : conn[c].l # ls[p] PROVE c \in exempt'
    BY <1>3, <2>1, <2>5, Zenon
  <2>6. DOMAIN conn' = Conns
    BY <1>3, Zenon DEF Cut
  <2>7. exempt' \subseteq Conns
    BY <1>3, Parts, Zenon DEF Unrecorded, Workers
  <2> QED
    BY <2>2, <2>3, <2>4, <2>5, <2>6, <2>7, Zenon DEF FinishConns
<1>11. FinishRest(stay, fresh, want)
  <2>1. mgr'.op = "idle" /\ mgr'.stopped = {}
    BY <1>1, QuietFields, Zenon
  <2> QED
    BY <1>1, <1>3, <2>1, Zenon DEF FinishRest, want
<1> QED
  BY <1>8, <1>9, <1>10, <1>11, Zenon DEF FinishShape

LEMMA FinishTypes ==
  ASSUME RelayInv, NEW stay, NEW fresh, NEW new, NEW want,
         FinishShape(stay, fresh, new, want)
  PROVE  TypeOK'
<1>1. ASSUME NEW l \in Listeners PROVE ListenerType(lst'[l])
  <2>1. CASE \E p \in stay : ls[p] = l
    BY <2>1, Zenon DEF FinishShape, FinishListeners, Updated
  <2>2. CASE \E p \in fresh : new[p] = l
    BY <2>2, Zenon DEF FinishShape, FinishListeners, Started
  <2>3. CASE lst'[l] = lst[l] \/ lst'[l] = NoListener
    BY <2>3, Parts, NoListenerFields, Zenon
  <2> QED
    BY <2>1, <2>2, <2>3, Zenon DEF FinishShape, FinishListeners, Apart
<1>2. /\ \A c \in Conns : ConnType(conn'[c])
      /\ DOMAIN conn' = Conns /\ exempt' \subseteq Conns /\ DOMAIN lst' = Listeners
      /\ ls' \in [Ports -> Listeners \cup {None}]
  BY Zenon DEF FinishShape, FinishConns, FinishListeners, FinishPorts, Severed
<1>3. /\ mgr'.op \in {"idle", "commit", "closeAgent", "close"}
      /\ mgr'.stopped \subseteq Listeners
      /\ retiring' = retiring /\ inUse' = inUse /\ hold' = hold
  BY Zenon DEF FinishShape, FinishRest
<1> QED
  BY <1>1, <1>2, <1>3, Zenon DEF RelayInv, TypeOK

LEMMA FinishManager ==
  ASSUME RelayInv, NEW stay, NEW fresh, NEW new, NEW want,
         FinishShape(stay, fresh, new, want)
  PROVE  ManagerInv'
<1>1. /\ mgr.op = "commit" /\ retiring' = retiring
      /\ mgr'.op = "idle" /\ mgr'.stopped = {}
  BY Zenon DEF FinishShape, FinishRest
<1>2. /\ \A p \in stay : /\ StayPort(p, want) /\ ls'[p] = ls[p]
      /\ \A p \in fresh : FreshPort(p, new, want) /\ ls'[p] = new[p]
      /\ \A p, q \in fresh : new[p] = new[q] => p = q
      /\ \A p \in Ports : p \notin fresh /\ p \notin stay => ls'[p] = None
      /\ retiring \subseteq Known'
      /\ \A l \in Known' : l \in retiring \/ ~Apart(l, stay, fresh, new)
  BY Zenon DEF FinishShape, FinishPorts
<1>3. /\ retiring \subseteq Known /\ retiring \subseteq Listeners /\ None \notin retiring
  BY KnownFacts, RelayAssumption, Zenon
<1>4. /\ \A p, q \in Ports : ls[p] = ls[q] /\ ls[p] # None => p = q
      /\ \A l \in retiring : lst[l].stopping /\ ~lst[l].closed
  BY <1>1, WaitingFacts, Zenon
<1>5. ASSUME NEW l \in retiring PROVE lst'[l] = lst[l]
  <2>1. Apart(l, stay, fresh, new)
    <3>1. \A p \in stay : ls[p] \notin retiring
      BY <1>2, Zenon DEF StayPort
    <3>2. \A p \in fresh : new[p] \notin Known
      BY <1>2, Zenon DEF FreshPort
    <3> QED
      BY <1>3, <3>1, <3>2, Zenon DEF Apart
  <2> QED
    BY <1>2, <1>3, <2>1, Zenon DEF FinishShape, FinishListeners
<1>6. ASSUME NEW p \in Ports, NEW q \in Ports, ls'[p] = ls'[q], ls'[p] # None
      PROVE  p = q
  <2>1. (p \in stay \/ p \in fresh) /\ (q \in stay \/ q \in fresh)
    BY <1>2, <1>6, Zenon
  <2>2. CASE p \in stay /\ q \in stay
    BY <1>2, <1>4, <1>6, <2>2, Zenon
  <2>3. CASE p \in fresh /\ q \in fresh
    BY <1>2, <1>6, <2>3, Zenon
  <2>4. \A i \in stay : \A j \in fresh : ls'[i] # ls'[j]
    BY <1>2, Zenon DEF StayPort, FreshPort
  <2> QED
    BY <1>6, <2>1, <2>2, <2>3, <2>4, Zenon
<1>7. \A l \in retiring' : lst'[l].stopping
  BY <1>1, <1>4, <1>5, Zenon
<1>8. ASSUME NEW p \in Ports PROVE ls'[p] \notin retiring'
  <2>1. CASE p \in stay
    BY <1>1, <1>2, <2>1, Zenon DEF StayPort
  <2>2. CASE p \in fresh
    BY <1>1, <1>2, <1>3, <2>2, Zenon DEF FreshPort
  <2>3. CASE p \notin stay /\ p \notin fresh
    BY <1>1, <1>2, <1>3, <2>3, Zenon
  <2> QED
    BY <2>1, <2>2, <2>3, Zenon
<1>9. ASSUME NEW l \in Known' PROVE ~lst'[l].closed
  <2>1. CASE \E p \in stay : ls[p] = l
    <3>1. PICK p \in stay : ls[p] = l
      BY <2>1, Zenon
    <3>2. StayPort(p, want) /\ Updated(ls[p], want[p], lst'[ls[p]])
      BY <1>2, Zenon DEF FinishShape, FinishListeners
    <3> QED
      BY <3>1, <3>2, Zenon DEF Updated, StayPort
  <2>2. CASE \E p \in fresh : new[p] = l
    BY <2>2, Zenon DEF FinishShape, FinishListeners, Started
  <2>3. CASE l \in retiring
    BY <1>4, <1>5, <2>3, Zenon
  <2> QED
    BY <1>2, <2>1, <2>2, <2>3, Zenon DEF Apart
<1>10. "idle" # "commit" /\ "idle" # "close" /\ "idle" \notin {"closeAgent", "close"}
  OBVIOUS
<1> QED
  BY <1>1, <1>6, <1>7, <1>8, <1>9, <1>10, Zenon DEF ManagerInv

LEMMA FinishCounts ==
  ASSUME RelayInv, NEW stay, NEW fresh, NEW new, NEW want,
         FinishShape(stay, fresh, new, want)
  PROVE  CountsHold'
<1>1. ASSUME NEW l \in Listeners
      PROVE  \/ lst'[l].pending = lst[l].pending
             \/ /\ lst'[l].pending = 0
                /\ \A c \in Conns : conn[c].l # l
  <2>1. CASE \E p \in fresh : new[p] = l
    <3>1. PICK p \in fresh : new[p] = l
      BY <2>1, Zenon
    <3>2. FreshPort(p, new, want) /\ Started(want[p], lst'[new[p]])
      BY Zenon DEF FinishShape, FinishPorts, FinishListeners
    <3>3. lst'[l].pending = 0 /\ lst[l].serve = "none"
      BY <3>1, <3>2, Zenon DEF FreshPort, Started
    <3>4. ASSUME NEW c \in Conns PROVE conn[c].l # l
      <4>1. CASE conn[c].pc # "none"
        BY <3>3, <4>1, WorkerFacts, Zenon
      <4>2. CASE conn[c].pc = "none"
        <5>1. conn[c] = NoConn
          BY <4>2, Parts, Zenon DEF ConnInv
        <5> QED
          BY <5>1, NoneRecords, RelayAssumption, Zenon
      <4> QED
        BY <4>1, <4>2, Zenon
    <3> QED
      BY <3>3, <3>4, Zenon
  <2>2. CASE \E p \in stay : ls[p] = l
    <3>1. PICK p \in stay : ls[p] = l
      BY <2>2, Zenon
    <3>2. Updated(ls[p], want[p], lst'[ls[p]])
      BY Zenon DEF FinishShape, FinishListeners
    <3> QED
      BY <3>1, <3>2, Zenon DEF Updated
  <2>3. NoListener.pending = 0
    BY NoListenerFields, Zenon
  <2>4. CASE Apart(l, stay, fresh, new)
    BY <2>3, <2>4, Zenon DEF FinishShape, FinishListeners
  <2> QED
    BY <2>1, <2>2, <2>4, Zenon DEF Apart
<1>2. inUse' = inUse /\ \A c \in Conns : Severed(c)
  BY Zenon DEF FinishShape, FinishRest, FinishConns
<1> QED
  BY <1>1, <1>2, SeveredCounts, Zenon

LEMMA FinishListener ==
  ASSUME RelayInv, NEW stay, NEW fresh, NEW new, NEW want,
         FinishShape(stay, fresh, new, want), NEW l \in Listeners
  PROVE  ListenerInv(l)'
<1>1. ListenerInv(l)
  BY Parts, Zenon
<1>2. /\ mgr.op = "commit" /\ mgr.want = want /\ \A x \in mgr.stopped : lst[x].serve = "done"
      /\ mgr'.stopped = {} /\ \A a \in revoked' : a \in revoked
      /\ \A c \in Conns : Severed(c)
  BY Zenon DEF FinishShape, FinishRest, FinishConns
<1>3. CASE \E p \in stay : ls[p] = l
  <2>1. PICK p \in stay : ls[p] = l
    BY <1>3, Zenon
  <2>2. /\ StayPort(p, want) /\ l \in Known' /\ l \in OnPorts'
        /\ Updated(l, want[p], lst'[l]) /\ want[p].agent \notin revoked'
    BY <2>1, Zenon DEF FinishShape, FinishPorts, FinishListeners, FinishRest
  <2>3. /\ lst'[l].rule = want[p] /\ lst'[l].permit = want[p].allow
        /\ lst'[l].delivering \subseteq lst[l].delivering
        /\ lst'[l].conns \subseteq lst[l].conns /\ ~lst'[l].closed
        /\ lst'[l].admitting = lst[l].admitting /\ lst'[l].serve = lst[l].serve
        /\ want[p] \in Rules /\ lst[l].serve # "none"
    BY <2>1, <2>2, Zenon DEF StayPort, Updated
  <2> QED
    BY <1>2, <2>2, <2>3, ManagerListener, Zenon
<1>4. CASE \E p \in fresh : new[p] = l
  <2>1. PICK p \in fresh : new[p] = l
    BY <1>4, Zenon
  <2>2. /\ FreshPort(p, new, want) /\ l \in Known' /\ l \in OnPorts'
        /\ Started(want[p], lst'[l]) /\ want[p].agent \notin revoked'
    BY <2>1, Zenon DEF FinishShape, FinishPorts, FinishListeners, FinishRest
  <2>3. /\ lst'[l].rule = want[p] /\ lst'[l].permit = want[p].allow
        /\ lst'[l].serve = "accept" /\ ~lst'[l].closed /\ lst'[l].admitting = None
        /\ lst'[l].conns = {} /\ lst'[l].delivering = {} /\ want[p] \in Rules
    BY <2>2, Zenon DEF FreshPort, Started
  <2>4. "accept" # "none" /\ "accept" # "admit"
    OBVIOUS
  <2>5. \A c \in Conns : c # None
    BY RelayAssumption, Zenon
  <2> QED
    BY <2>2, <2>3, <2>4, <2>5, Zenon DEF ListenerInv
<1>5. CASE lst'[l] = NoListener /\ l \notin Known'
  BY <1>2, <1>5, NothingListener, Zenon
<1>6. CASE Apart(l, stay, fresh, new) /\ lst'[l] = lst[l]
  <2>1. l \in Known' => l \in retiring
    BY <1>6, Zenon DEF FinishShape, FinishPorts
  <2>2. CASE lst[l].serve = "none"
    <3>1. lst[l] = NoListener /\ l \notin Known
      BY <1>1, <2>2, Zenon DEF ListenerInv
    <3>2. l \notin Known'
      BY <2>1, <3>1, Zenon DEF Known
    <3> QED
      BY <1>2, <1>6, <3>1, <3>2, NothingListener, Zenon
  <2>3. CASE lst[l].serve # "none"
    <3>1. /\ l \notin OnPorts => lst[l].serve = "done"
          /\ lst[l].closed =>
               lst[l].stopping /\ lst[l].conns = {} /\ lst[l].delivering = {}
          /\ ~lst[l].closed =>
               l \in Known /\ lst[l].rule \in Rules /\ lst[l].rule.agent \notin revoked
          /\ ~lst[l].stopping => lst[l].permit = lst[l].rule.allow
      BY <1>1, <2>3, Zenon DEF ListenerInv, Recorded
    <3>2. ASSUME NEW p \in Ports, ls[p] = l
          PROVE  l \in mgr.stopped /\ (lst[l].closed \/ l \in retiring)
      <4>1. ls[p] # None
        BY <3>2, RelayAssumption, Zenon
      <4>2. want[p] = None
        <5>1. p \notin stay
          BY <1>6, <3>2, Zenon DEF Apart
        <5>2. p \notin fresh
          BY <4>1, Zenon DEF FinishShape, FinishPorts, FreshPort
        <5> QED
          BY <4>1, <5>1, <5>2, Zenon DEF FinishShape, FinishPorts
      <4> QED
        BY <1>2, <3>2, <4>1, <4>2, WaitingFacts, Zenon
    <3>3. lst[l].serve = "done"
      BY <1>2, <3>1, <3>2, Zenon DEF OnPorts
    <3>4. ~lst[l].closed => l \in retiring
      BY <3>1, <3>2, Zenon DEF Known
    <3>5. ~lst[l].closed => l \in Known' /\ lst[l].rule.agent \notin revoked'
      BY <1>2, <3>1, <3>4, Zenon DEF FinishShape, FinishPorts
    <3> QED
      BY <1>2, <1>6, <2>3, <3>1, <3>3, <3>5, ManagerListener, Zenon
  <2> QED
    BY <2>2, <2>3, Zenon
<1> QED
  BY <1>3, <1>4, <1>5, <1>6, Zenon DEF FinishShape, FinishListeners, Apart

LEMMA FinishConn ==
  ASSUME RelayInv, NEW stay, NEW fresh, NEW new, NEW want,
         FinishShape(stay, fresh, new, want), NEW c \in Conns
  PROVE  ConnInv(c)'
<1>1. ASSUME conn[c].pc # "none" PROVE Follows(c, conn[c].l)
  <2>1. PICK x \in Listeners : x = conn[c].l
    BY <1>1, WorkerFacts, Zenon
  <2>2. ListenerType(lst[x]) /\ lst[x].serve # "none"
    BY <1>1, <2>1, WorkerFacts, Zenon
  <2>3. CASE \E p \in stay : ls[p] = x
    <3>1. PICK p \in stay : ls[p] = x
      BY <2>3, Zenon
    <3>2. Updated(x, want[p], lst'[x]) /\ ~lst[x].closed
      BY <3>1, Zenon DEF FinishShape, FinishPorts, FinishListeners, StayPort
    <3>3. /\ c \in CutByUpdate(x, want[p]) => conn'[c].down = "closed"
          /\ c \notin Recorded(x) => c \in exempt'
      BY <2>1, <3>1, Zenon DEF FinishShape, FinishConns
    <3>4. "open" # "closed"
      OBVIOUS
    <3>5. Follows(c, x)
      BY <2>2, <3>2, <3>3, <3>4, UpdateFollows, Zenon
    <3> QED
      BY <2>1, <3>5, Zenon
  <2>4. CASE \A p \in stay : ls[p] # x
    <3>1. Apart(x, stay, fresh, new)
      BY <2>2, <2>4, Zenon DEF Apart, FinishShape, FinishPorts, FreshPort
    <3>2. lst'[x] = lst[x]
      BY <2>1, <3>1, Zenon DEF FinishShape, FinishListeners
    <3>3. c \in exempt => c \in exempt'
      BY <2>1, <2>4, Zenon DEF FinishShape, FinishConns
    <3>4. Follows(c, x)
      BY <2>2, <3>2, <3>3, SameFollows, Zenon
    <3> QED
      BY <2>1, <3>4, Zenon
  <2> QED
    BY <2>3, <2>4, Zenon
<1>2. Severed(c)
  BY Zenon DEF FinishShape, FinishConns
<1> QED
  BY <1>1, <1>2, ManagerConn, Zenon

LEMMA CommitFinishStep ==
  ASSUME RelayInv, CommitFinish
  PROVE  RelayInv'
<1>1. PICK stay, fresh, new, want : FinishShape(stay, fresh, new, want)
  BY CommitFinishShape, Zenon
<1>2. TypeOK' /\ ManagerInv' /\ CountsHold'
  BY <1>1, FinishTypes, FinishManager, FinishCounts, Zenon
<1> QED
  BY <1>1, <1>2, FinishListener, FinishConn, Zenon DEF RelayInv

----------------------------------------------------------------------------
(* The theorems.                                                           *)

LEMMA RelayInitially ==
  ASSUME Init
  PROVE  RelayInv
<1>1. /\ ls = [p \in Ports |-> None] /\ retiring = {} /\ mgr = Quiet
      /\ lst = [l \in Listeners |-> NoListener] /\ conn = [c \in Conns |-> NoConn]
      /\ inUse = 0 /\ hold \in BOOLEAN /\ exempt = {}
  BY Zenon DEF Init
<1>2. /\ DOMAIN lst = Listeners /\ DOMAIN conn = Conns
      /\ \A l \in Listeners : lst[l] = NoListener
      /\ \A c \in Conns : conn[c] = NoConn
      /\ mgr.op = "idle" /\ mgr.stopped = {}
  BY <1>1, QuietFields, Zenon
<1>3. Known = {}
  BY <1>1, Zenon DEF Known
<1>4. TypeOK
  <2>1. inUse \in 0 .. Limit
    BY <1>1, RelayAssumption
  <2>2. mgr.op \in {"idle", "commit", "closeAgent", "close"} /\ mgr.stopped \subseteq Listeners
    BY <1>2, Zenon
  <2>3. ls \in [Ports -> Listeners \cup {None}] /\ retiring \subseteq Listeners
    BY <1>1, Zenon
  <2> QED
    BY <1>1, <1>2, <2>1, <2>2, <2>3, NoListenerFields, NoneRecords, Zenon DEF TypeOK
<1>5. ManagerInv
  <2>1. "idle" # "commit" /\ "idle" # "close" /\ "idle" \notin {"closeAgent", "close"}
    OBVIOUS
  <2> QED
    BY <1>1, <1>2, <1>3, <2>1, Zenon DEF ManagerInv
<1>6. CountsHold
  <2>1. "none" \notin Charged /\ "none" \notin Pending
    BY DEF Charged, Pending
  <2>2. {c \in Conns : conn[c].pc \in Charged} = {}
    BY <1>2, <2>1, NoneRecords, Zenon
  <2>3. \A l \in Listeners : {c \in Workers(l) : conn[c].pc \in Pending} = {}
    BY <1>2, <2>1, NoneRecords, Zenon DEF Workers
  <2> QED
    BY <1>1, <1>2, <2>2, <2>3, NoListenerFields, FS_EmptySet, Zenon DEF CountsHold
<1>7. ASSUME NEW l \in Listeners PROVE ListenerInv(l)
  <2>1. \A c \in Conns : c # None
    BY RelayAssumption, Zenon
  <2>2. lst[l] = NoListener /\ l \notin Known \cup mgr.stopped
    BY <1>2, <1>3, Zenon
  <2> QED
    BY <2>1, <2>2, NoListenerFields, Zenon DEF ListenerInv, Recorded
<1>8. ASSUME NEW c \in Conns PROVE ConnInv(c)
  <2>1. /\ "none" \notin Admission /\ "none" \notin {"piping", "delivering"}
        /\ "none" \notin {"taking", "dial", "tracking"}
    BY DEF Admission
  <2>2. conn[c] = NoConn /\ conn[c].pc = "none"
    BY <1>2, NoneRecords, Zenon
  <2> QED
    BY <2>1, <2>2, Zenon DEF ConnInv, Relaying
<1> QED
  BY <1>4, <1>5, <1>6, <1>7, <1>8, Zenon DEF RelayInv

LEMMA RelayNext ==
  ASSUME RelayInv, [Next]_vars
  PROVE  RelayInv'
<1>1. CASE UNCHANGED vars
  <2>1. /\ ls' = ls /\ retiring' = retiring /\ mgr' = mgr /\ lst' = lst /\ conn' = conn
        /\ inUse' = inUse /\ hold' = hold /\ revoked' = revoked /\ exempt' = exempt
    BY <1>1, Zenon DEF vars
  <2>2. Known' = Known /\ OnPorts' = OnPorts
    BY <2>1, Zenon DEF Known, OnPorts
  <2>3. TypeOK'
    BY <2>1, Zenon DEF RelayInv, TypeOK
  <2>4. ManagerInv'
    BY <2>1, <2>2, Zenon DEF RelayInv, ManagerInv
  <2>5. CountsHold'
    BY <2>1, Zenon DEF RelayInv, CountsHold, Workers
  <2>6. ASSUME NEW l \in Listeners PROVE ListenerInv(l)'
    BY <2>1, <2>2, Parts, Zenon DEF ListenerInv, Recorded
  <2>7. ASSUME NEW c \in Conns PROVE ConnInv(c)'
    BY <2>1, Parts, Zenon DEF ConnInv, Relaying, Uncut, Recorded
  <2> QED
    BY <2>3, <2>4, <2>5, <2>6, <2>7, Zenon DEF RelayInv
<1>2. CASE Commit
  BY <1>2, CommitStep, Zenon
<1>3. CASE CommitFinish
  BY <1>3, CommitFinishStep, Zenon
<1>4. CASE Close \/ \E a \in Agents : CloseAgent(a)
  BY <1>4, CloseSteps, Zenon
<1>5. CASE CloseFinish
  BY <1>5, CloseFinishStep, Zenon
<1>6. ASSUME NEW c \in Conns,
             \/ \E l \in Listeners, s \in Sources : Accept(c, l, s)
             \/ Step(c) \/ PipeEnds(c) \/ EndDelivery(c)
      PROVE  RelayInv'
  <2>1. CASE \E l \in Listeners, s \in Sources : Accept(c, l, s)
    BY <2>1, AcceptStep, Zenon
  <2>2. CASE PipeEnds(c) \/ EndDelivery(c)
    BY <2>2, PipeEndsStep, EndDeliveryStep, Zenon
  <2>3. CASE Policy(c) \/ Acquire(c) \/ Refuse(c)
    BY <2>3, PolicyStep, AcquireStep, RefuseStep, Zenon
  <2>4. CASE Register(c) \/ Unpend(c) \/ DialKernel(c) \/ Track(c)
    BY <2>4, RegisterStep, UnpendStep, DialKernelStep, TrackStep, Zenon
  <2> QED
    BY <1>6, <2>1, <2>2, <2>3, <2>4, Zenon DEF Step
<1>7. ASSUME NEW l \in Listeners, AcceptFails(l) \/ Retry(l) \/ ServeEnds(l)
      PROVE  RelayInv'
  BY <1>7, LoopSteps, Zenon
<1> QED
  BY <1>1, <1>2, <1>3, <1>4, <1>5, <1>6, <1>7, Zenon DEF Next

\* The inductive invariant of the relay, for every number of ports, listeners,
\* connections and agents, every set of rules and every budget.
THEOREM RelayInvHolds == Spec => []RelayInv
<1>1. Init => RelayInv
  BY RelayInitially
<1>2. RelayInv /\ [Next]_vars => RelayInv'
  BY RelayNext
<1> QED
  BY <1>1, <1>2, PTL DEF Spec

\* What is relayed is what is declared: the agent is the port's and is not
\* revoked, and the source is one the rule admits (Commit, CloseAgent, and
\* relayAdmitted, which judges again after the dial).
THEOREM RelaysAreDeclaredHolds == Spec => []RelaysAreDeclared
<1>1. RelayInv => RelaysAreDeclared
  <2> SUFFICES ASSUME RelayInv PROVE RelaysAreDeclared
    OBVIOUS
  <2>1. ASSUME NEW c \in Conns, Relaying(c)
        PROVE  /\ c \in Recorded(conn[c].l)
               /\ conn[c].agent = lst[conn[c].l].rule.agent
               /\ \/ lst[conn[c].l].closed
                  \/ conn[c].src \in lst[conn[c].l].permit \/ c \in exempt
               /\ conn[c].agent \notin revoked
    <3>1. ConnInv(c)
      BY Parts, Zenon
    <3>2. conn[c].pc # "none"
      BY <2>1 DEF Relaying
    <3>3. ListenerInv(conn[c].l) /\ lst[conn[c].l].serve # "none"
      BY <3>2, WorkerFacts, Zenon
    <3>4. /\ c \in Recorded(conn[c].l)
          /\ conn[c].agent = lst[conn[c].l].rule.agent
          /\ \/ lst[conn[c].l].closed
             \/ conn[c].src \in lst[conn[c].l].permit \/ c \in exempt
      BY <2>1, <3>1, Zenon DEF ConnInv
    <3>5. conn[c].agent \notin revoked
      BY <3>3, <3>4, Zenon DEF ListenerInv
    <3> QED
      BY <3>4, <3>5, Zenon
  <2> QED
    BY <2>1, Zenon DEF RelaysAreDeclared, RelaysToDeclaredAgent, RevokedAgentIsCut,
       RefusedSourcesAreCut
<1> QED
  BY <1>1, RelayInvHolds, PTL

\* No connection and no accept loop is forgotten: a relay's listener is known
\* to the Manager, pending and the budget are exact counts, and a listener
\* that was stopped has ended when the operation returns (track, finishPending,
\* charge.Release, wg.Wait).
THEOREM RelaysAccountedHolds == Spec => []RelaysAccounted
<1>1. RelayInv => RelaysAccounted
  <2> SUFFICES ASSUME RelayInv PROVE RelaysAccounted
    OBVIOUS
  <2>1. EveryRelayIsKnown
    <3>1. SUFFICES ASSUME NEW c \in Conns, Relaying(c) PROVE conn[c].l \in Known
      BY Zenon DEF EveryRelayIsKnown
    <3>2. ConnInv(c)
      BY Parts, Zenon
    <3>3. conn[c].pc # "none"
      BY <3>1 DEF Relaying
    <3>4. ListenerInv(conn[c].l) /\ lst[conn[c].l].serve # "none"
      BY <3>3, WorkerFacts, Zenon
    <3>5. c \in Recorded(conn[c].l)
      BY <3>1, <3>2, Zenon DEF ConnInv
    <3> QED
      BY <3>4, <3>5, Zenon DEF ListenerInv
  <2>2. StoppedIsJoined
    BY Parts, Zenon DEF StoppedIsJoined, ListenerInv
  <2>3. CountsHold
    BY Zenon DEF RelayInv
  <2> QED
    BY <2>1, <2>2, <2>3, Zenon DEF RelaysAccounted
<1> QED
  BY <1>1, RelayInvHolds, PTL
=============================================================================
