-------------------------- MODULE ReconcilerProofs --------------------------
(***************************************************************************)
(* The Reconciler, for any rules, agents, ports and bounds: its status is  *)
(* truthful, a repair is never forgotten, and no flow outlives the         *)
(* convergence that should have ended it.  Once settled, the device, the   *)
(* relay and the delivery snapshot are what the database asks for, and a   *)
(* dispatched packet always finds its peer on the device.                  *)
(***************************************************************************)
EXTENDS Reconciler, TLAPS

-----------------------------------------------------------------------------
(* What the operators return                                               *)

LEMMA InputType ==
    ASSUME TypeOK PROVE Input \in Inputs
BY ReconcilerAssumption DEF TypeOK, Input, Inputs, Decls, RuleRecord, Port

LEMMA PlanOfType ==
    ASSUME NEW in \in Inputs PROVE PlanOf(in) \in Plans
BY ReconcilerAssumption DEF PlanOf, Inputs, Plans

LEMMA WithoutType ==
    ASSUME NEW plan \in Plans, NEW rs PROVE Without(plan, rs) \in Plans
BY DEF Without, Plans

LEMMA RetireType ==
    ASSUME TypeOK, NEW plan \in Plans, NEW fs \in SUBSET Forwarded(plan)
    PROVE  Retire(plan, fs) \in Retirings
<1>1. \A r \in Rules : Previous(r) # None => Previous(r) \in Port
  BY ReconcilerAssumption DEF TypeOK, Previous, Plans, Retirings, Retired
<1>2. \A r \in fs : r \in Rules /\ plan[r].allow \in SUBSET Sources
  BY DEF Forwarded, Plans, Port
<1> QED BY <1>1, <1>2 DEF Retire, Retirings, Retired

LEMMA DesiredPeersType ==
    ASSUME TypeOK PROVE DesiredPeers \in PeerSets
<1> SUFFICES ASSUME NEW a \in Addrs, \E g \in Agents : addrOf[g] = a
             PROVE  keyOf[CHOOSE g \in Agents : addrOf[g] = a] \in Keys \cup {None}
  BY DEF DesiredPeers, PeerSets
<1>1. (CHOOSE g \in Agents : addrOf[g] = a) \in Agents
  OBVIOUS
<1> QED BY <1>1 DEF TypeOK

LEMMA PeerUnionType ==
    ASSUME NEW want \in PeerSets, NEW have \in PeerSets
    PROVE  PeerUnion(want, have) \in PeerSets
BY DEF PeerUnion, PeerSets

LEMMA RuleStatesType ==
    ASSUME NEW in, NEW act, NEW flds, NEW rsync, NEW err
    PROVE  RuleStates(in, act, flds, rsync, err)
              \in [Rules -> {"none", "active", "pending", "not_active"}]
BY DEF RuleStates

LEMMA NoTxType == NoTx \in Transactions /\ NoPlan \in Plans /\ NoPlan \in Retirings
                  /\ NoPlan \in Inputs /\ NoPeers \in PeerSets
BY DEF NoTx, Transactions, NoPlan, Plans, Retirings, Inputs, NoPeers, PeerSets

LEMMA ForcedTxType == [NoTx EXCEPT !.forced = TRUE] \in Transactions
BY NoTxType, Zenon DEF NoTx, Transactions

LEMMA StartType ==
    ASSUME Start(TRUE) \/ Start(FALSE)
    PROVE  tx' \in Transactions /\ ~tx'.noop /\ pc' = "begin"
BY NoTxType, Zenon DEF Start, NoTx, Transactions

-----------------------------------------------------------------------------
(* Types                                                                   *)

LEMMA UnboundForwarded ==
    ASSUME NEW plan PROVE Unbound(plan) \subseteq Forwarded(plan)
BY DEF Unbound

LEMMA FailType ==
    ASSUME TypeOK, NEW in, NEW rsync \in BOOLEAN, Fail(in, rsync)
    PROVE  /\ resync' \in BOOLEAN /\ lastError' \in BOOLEAN /\ needsRetry' \in BOOLEAN
           /\ ruleState' \in [Rules -> {"none", "active", "pending", "not_active"}]
BY RuleStatesType, Zenon DEF Fail

(* A transaction that gives up, with the kernel state the caller typed.    *)
LEMMA GiveUpType ==
    ASSUME TypeOK, NEW rsync \in BOOLEAN, GiveUp(rsync),
           observed' \in BOOLEAN, lastIn' \in Inputs, activePeers' \in PeerSets,
           table' \in Plans \cup {None}, kpeers' \in PeerSets,
           flows' = flows, blocked' = blocked,
           touched' \in {"no", "lost", "outside"},
           peersTouched' \in {"no", "lost", "outside"}
    PROVE  TypeOK'
<1>1. Fail(Input, rsync)
  BY DEF GiveUp
<1>2. /\ active' = active /\ failed' = failed /\ published' = published
      /\ activeGen' = activeGen /\ retiring' = retiring /\ repair' = repair
      /\ activeGeneration' = activeGeneration /\ serving' = serving
  BY <1>1 DEF Fail
<1> QED
  BY <1>1, <1>2, FailType, NoTxType, Zenon DEF GiveUp, Finished, TypeOK, desiredVars, backendVars

LEMMA RestorePeersType ==
    ASSUME TypeOK, NEW held \in PeerSets, RestorePeers(held)
    PROVE  kpeers' \in PeerSets /\ peersTouched' \in {"no", "lost", "outside"}
BY DEF RestorePeers, TypeOK

LEMMA PreparedPeersType ==
    ASSUME TypeOK PROVE PreparedPeers \in PeerSets
BY DesiredPeersType, PeerUnionType DEF TypeOK, PreparedPeers

(* The type invariant in parts, so that a step only has to speak of the    *)
(* parts that it changes.                                                  *)
TypeDesired ==
    /\ gen \in Nat /\ decl \in Decls
    /\ addrOf \in [Agents -> Addrs \cup {None}]
    /\ keyOf \in [Agents -> Keys \cup {None}]
TypeTx ==
    /\ pc \in {"idle", "begin", "prepare", "flush", "peers", "converge",
               "readback", "finish"}
    /\ tx \in Transactions
TypeRec ==
    /\ observed \in BOOLEAN /\ lastIn \in Inputs /\ active \in Plans
    /\ failed \subseteq Rules /\ published \in BOOLEAN
    /\ activePeers \in PeerSets /\ activeGen \in [Rules -> Nat]
    /\ retiring \in Retirings /\ resync \in BOOLEAN /\ repair \in BOOLEAN
    /\ activeGeneration \in Nat /\ lastError \in BOOLEAN /\ needsRetry \in BOOLEAN
    /\ ruleState \in [Rules -> {"none", "active", "pending", "not_active"}]
    /\ serving \subseteq Listens
TypeBackend ==
    /\ last \in Baselines \cup {None}
    /\ pendPeers \in PeerSets \cup {None}
    /\ pendRules \in FlowRepairs \cup {None}
TypeDaemon == gate \in BOOLEAN /\ pending \in BOOLEAN
TypeTable == table \in Plans \cup {None} /\ touched \in {"no", "lost", "outside"}
TypePeers == kpeers \in PeerSets /\ peersTouched \in {"no", "lost", "outside"}
TypeWorld == flows \subseteq Flows /\ blocked \subseteq Listens

LEMMA TypeParts ==
    ASSUME TypeOK
    PROVE  /\ TypeDesired /\ TypeTx /\ TypeRec /\ TypeBackend /\ TypeDaemon
           /\ TypeTable /\ TypePeers /\ TypeWorld
BY DEF TypeOK, TypeDesired, TypeTx, TypeRec, TypeBackend, TypeDaemon, TypeTable,
       TypePeers, TypeWorld

LEMMA TypeWhole ==
    ASSUME TypeDesired', TypeTx', TypeRec', TypeBackend', TypeDaemon',
           TypeTable', TypePeers', TypeWorld'
    PROVE  TypeOK'
BY DEF TypeOK, TypeDesired, TypeTx, TypeRec, TypeBackend, TypeDaemon, TypeTable,
       TypePeers, TypeWorld

LEMMA TypeKept ==
    ASSUME TypeOK
    PROVE  /\ UNCHANGED <<gen, decl, addrOf, keyOf>> => TypeDesired'
           /\ UNCHANGED <<pc, tx>> => TypeTx'
           /\ UNCHANGED recVars => TypeRec'
           /\ UNCHANGED backendVars => TypeBackend'
           /\ UNCHANGED <<gate, pending>> => TypeDaemon'
           /\ UNCHANGED <<table, touched>> => TypeTable'
           /\ UNCHANGED <<kpeers, peersTouched>> => TypePeers'
           /\ UNCHANGED <<flows, blocked>> => TypeWorld'
<1>1. UNCHANGED <<gen, decl, addrOf, keyOf>> => TypeDesired'
  BY TypeParts DEF TypeDesired
<1>2. UNCHANGED <<pc, tx>> => TypeTx'
  BY TypeParts DEF TypeTx
<1>3. UNCHANGED recVars => TypeRec'
  BY TypeParts DEF TypeRec, recVars
<1>4. UNCHANGED backendVars => TypeBackend'
  BY TypeParts DEF TypeBackend, backendVars
<1>5. UNCHANGED <<gate, pending>> => TypeDaemon'
  BY TypeParts DEF TypeDaemon
<1>6. UNCHANGED <<table, touched>> => TypeTable'
  BY TypeParts DEF TypeTable
<1>7. UNCHANGED <<kpeers, peersTouched>> => TypePeers'
  BY TypeParts DEF TypePeers
<1>8. UNCHANGED <<flows, blocked>> => TypeWorld'
  BY TypeParts DEF TypeWorld
<1> QED BY <1>1, <1>2, <1>3, <1>4, <1>5, <1>6, <1>7, <1>8

LEMMA TypeStep ==
    ASSUME TypeOK, [Next]_vars PROVE TypeOK'
<1> USE DEF desiredVars, recVars, backendVars, daemonVars, kernelVars, histVars
<1> Input \in Inputs /\ PlanOf(Input) \in Plans /\ DesiredPeers \in PeerSets
  BY InputType, PlanOfType, DesiredPeersType
<1>1. CASE ReadFails
  BY <1>1, NoTxType DEF ReadFails, Finished, TypeOK
<1>2. CASE BeginFails
  <2>1. (resync \/ (observed /\ ChecksRepair)) \in BOOLEAN
    OBVIOUS
  <2> QED BY <1>2, <2>1, GiveUpType DEF BeginFails, TypeOK
<1>3. CASE Begin
  <2> DEFINE plan == PlanOf(Input)
  <2> DEFINE fs == Unbound(plan)
  <2>1. fs \subseteq Forwarded(plan) /\ fs \subseteq Rules
    BY UnboundForwarded DEF Forwarded
  <2>2. Without(plan, fs) \in Plans /\ Retire(plan, fs) \in Retirings
    BY <2>1, WithoutType, RetireType
  <2>3. tx' \in Transactions /\ resync' \in BOOLEAN /\ activePeers' \in PeerSets
    BY <1>3, <2>1, <2>2, Zenon DEF Begin, TypeOK, Transactions
  <2> QED BY <1>3, <2>3 DEF Begin, TypeOK
<1>4. CASE Prepare
  <2>1. tx' \in Transactions
    BY <1>4, Zenon DEF Prepare, TypeOK, Transactions, SamePublication
  <2> QED BY <1>4, <2>1, PreparedPeersType DEF Prepare, TypeOK
<1>5. CASE PrepareFails
  <2>1. kpeers' \in PeerSets /\ peersTouched' \in {"no", "lost", "outside"}
    BY <1>5, PreparedPeersType, RestorePeersType DEF PrepareFails, TypeOK
  <2> QED BY <1>5, <2>1, GiveUpType DEF PrepareFails, TypeOK
<1> HIDE DEF desiredVars, recVars, backendVars, daemonVars, kernelVars, histVars
<1>6. CASE Flush
  <2>1. tx.ports \in Plans /\ pendRules' \in FlowRepairs
    BY <1>6, TypeParts DEF Flush, TypeTx, Transactions, FlowRepairs
  <2>2. TypeTx' /\ TypeTable'
    BY <1>6, <2>1, TypeParts DEF Flush, TypeTx, TypeTable
  <2>3. TypeBackend'
    BY <1>6, <2>1, TypeParts DEF Flush, TypeBackend
  <2>4. UNCHANGED <<desiredVars, recVars, daemonVars, kpeers, flows, blocked, peersTouched>>
    BY <1>6 DEF Flush
  <2> QED BY <2>2, <2>3, <2>4, TypeKept, TypeWhole DEF desiredVars, daemonVars
<1>7. ASSUME NEW replaced \in BOOLEAN, FlushFails(replaced) PROVE TypeOK'
  <2>1. kpeers' \in PeerSets /\ peersTouched' \in {"no", "lost", "outside"}
    BY <1>7, RestorePeersType DEF FlushFails, TypeOK
  <2>2. table' \in Plans \cup {None}
    BY <1>7 DEF FlushFails, TypeOK, Transactions
  <2> QED BY <1>7, <2>1, <2>2, GiveUpType DEF FlushFails, TypeOK
<1>8. CASE RepairPeers
  <2>1. TypeTx' /\ TypeBackend' /\ TypePeers'
    BY <1>8, TypeParts DEF RepairPeers, TypeTx, TypeBackend, TypePeers
  <2>2. UNCHANGED <<desiredVars, recVars, daemonVars, table, flows, blocked, touched>>
    BY <1>8 DEF RepairPeers
  <2> QED BY <2>1, <2>2, TypeKept, TypeWhole DEF desiredVars, daemonVars
<1>9. CASE Converge
  <2>1. flows' \subseteq flows
    BY <1>9 DEF Converge
  <2>2. TypeTx' /\ TypeBackend'
    BY <1>9, TypeParts DEF Converge, TypeTx, TypeBackend
  <2>3. UNCHANGED <<desiredVars, recVars, daemonVars, table, kpeers, blocked, touched,
                    peersTouched>>
    BY <1>9 DEF Converge
  <2>4. TypeWorld'
    BY <2>1, <2>3, TypeParts DEF TypeWorld
  <2> QED BY <2>2, <2>3, <2>4, TypeKept, TypeWhole DEF desiredVars, daemonVars
<1>10. CASE ReadBack
  <2>1. last' \in Baselines
    BY <1>10, TypeParts DEF ReadBack, Baselines, TypeTable
  <2>2. TypeTx' /\ TypeBackend'
    BY <1>10, <2>1, TypeParts DEF ReadBack, TypeTx, TypeBackend
  <2>3. UNCHANGED <<desiredVars, recVars, daemonVars, kernelVars, touched, peersTouched>>
    BY <1>10 DEF ReadBack
  <2> QED BY <2>2, <2>3, TypeKept, TypeWhole DEF desiredVars, daemonVars, kernelVars
<1>11. CASE Finish
  <2>1. /\ tx.ports \in Plans /\ tx.retiring \in Retirings /\ tx.failed \subseteq Rules
    BY TypeParts DEF TypeTx, Transactions
  <2>2. RelayListens(tx.ports) \subseteq Listens
    BY <2>1, ReconcilerAssumption DEF RelayListens, Forwarded, Plans, Port
  <2>3. activeGen' \in [Rules -> Nat]
    BY <1>11, TypeParts DEF Finish, TypeDesired, TypeRec
  <2>4. ruleState' \in [Rules -> {"none", "active", "pending", "not_active"}]
    BY <1>11, RuleStatesType, Zenon DEF Finish
  <2>5. RepairLeft \in BOOLEAN
    BY DEF RepairLeft
  <2>6. (tx.failed # {} \/ RepairLeft) \in BOOLEAN
    OBVIOUS
  <2>7. /\ published' = TRUE /\ active' = tx.ports /\ failed' = tx.failed
        /\ retiring' = tx.retiring /\ activePeers' = DesiredPeers
        /\ resync' = FALSE /\ repair' = RepairLeft /\ lastError' = RepairLeft
        /\ activeGeneration' = gen /\ needsRetry' = (tx.failed # {} \/ RepairLeft)
        /\ serving' \in {serving, RelayListens(tx.ports)}
        /\ UNCHANGED <<observed, lastIn>>
    BY <1>11 DEF Finish
  <2>8. TypeRec'
    <3>1. /\ observed' \in BOOLEAN /\ lastIn' \in Inputs /\ active' \in Plans
          /\ failed' \subseteq Rules /\ published' \in BOOLEAN
          /\ activePeers' \in PeerSets /\ retiring' \in Retirings
      BY <2>1, <2>7, TypeParts DEF TypeRec
    <3>2. serving' \subseteq Listens /\ activeGeneration' \in Nat
      BY <2>2, <2>7, TypeParts DEF TypeRec, TypeDesired
    <3>3. /\ resync' \in BOOLEAN /\ repair' \in BOOLEAN /\ lastError' \in BOOLEAN
          /\ needsRetry' \in BOOLEAN
      BY <2>5, <2>6, <2>7, Zenon
    <3> QED BY <2>3, <2>4, <3>1, <3>2, <3>3 DEF TypeRec
  <2>9. TypeTx' /\ TypeDaemon'
    BY <1>11, NoTxType, ForcedTxType, TypeParts, Zenon DEF Finish, Finished, TypeTx, TypeDaemon
  <2>10. UNCHANGED <<desiredVars, backendVars, kernelVars, histVars>>
    BY <1>11 DEF Finish
  <2> QED BY <2>8, <2>9, <2>10, TypeKept, TypeWhole DEF desiredVars, kernelVars, histVars
<1>12. ASSUME NEW d \in ValidDecls, ChangeRules(d) PROVE TypeOK'
  <2>1. TypeDesired'
    BY <1>12, TypeParts DEF ChangeRules, ValidDecls, TypeDesired
  <2>2. TypeTx'
    BY <1>12, StartType DEF ChangeRules, TypeTx
  <2>3. UNCHANGED <<recVars, backendVars, gate, pending, kernelVars, histVars>>
    BY <1>12 DEF ChangeRules, daemonVars
  <2> QED BY <2>1, <2>2, <2>3, TypeKept, TypeWhole DEF kernelVars, histVars
<1>13. ASSUME NEW g \in Agents, Register(g) PROVE TypeOK'
  <2>1. TypeDesired'
    BY <1>13, TypeParts DEF Register, ChangeAgents, FreeAddrs, TypeDesired
  <2>2. TypeTx'
    BY <1>13, StartType DEF Register, ChangeAgents, TypeTx
  <2>3. UNCHANGED <<recVars, backendVars, gate, pending, kernelVars, histVars>>
    BY <1>13 DEF Register, ChangeAgents
  <2> QED BY <2>1, <2>2, <2>3, TypeKept, TypeWhole DEF kernelVars, histVars
<1>14. ASSUME NEW g \in Agents, Revoke(g) PROVE TypeOK'
  <2>1. TypeDesired'
    BY <1>14, TypeParts DEF Revoke, ChangeAgents, TypeDesired
  <2>2. TypeTx'
    BY <1>14, StartType, Zenon DEF Revoke, ChangeAgents, TypeTx
  <2>3. TypeRec' /\ TypeDaemon'
    BY <1>14, TypeParts DEF Revoke, ChangeAgents, TypeRec, TypeDaemon
  <2>4. UNCHANGED <<backendVars, kernelVars, histVars>>
    BY <1>14, Zenon DEF Revoke, ChangeAgents
  <2> QED BY <2>1, <2>2, <2>3, <2>4, TypeKept, TypeWhole DEF kernelVars, histVars
<1>15. ASSUME NEW g \in Agents, NEW k \in Keys, SetPublicKey(g, k) PROVE TypeOK'
  <2>1. TypeDesired'
    BY <1>15, TypeParts, Zenon DEF SetPublicKey, ChangeAgents, TypeDesired
  <2>2. TypeTx'
    BY <1>15, StartType DEF SetPublicKey, ChangeAgents, TypeTx
  <2>3. UNCHANGED <<recVars, backendVars, gate, pending, kernelVars, histVars>>
    BY <1>15 DEF SetPublicKey, ChangeAgents
  <2> QED BY <2>1, <2>2, <2>3, TypeKept, TypeWhole DEF kernelVars, histVars
<1>16. CASE RetryOnce
  <2>1. TypeTx'
    BY <1>16, StartType DEF RetryOnce, TypeTx
  <2>2. UNCHANGED <<desiredVars, recVars, backendVars, daemonVars, kernelVars, histVars>>
    BY <1>16 DEF RetryOnce
  <2> QED BY <2>1, <2>2, TypeKept, TypeWhole DEF desiredVars, daemonVars, kernelVars, histVars
<1>17. CASE ObserveOnce
  <2>1. TypeTx'
    BY <1>17, StartType, TypeParts, Zenon DEF ObserveOnce, TypeTx
  <2>2. resync' \in BOOLEAN
    BY <1>17 DEF ObserveOnce
  <2>3. activePeers' \in PeerSets
    BY <1>17, TypeParts DEF ObserveOnce, TypeRec, TypePeers
  <2>4. UNCHANGED <<observed, lastIn, active, failed, published, activeGen, retiring,
                    repair, activeGeneration, lastError, needsRetry, ruleState, serving>>
    BY <1>17 DEF ObserveOnce
  <2>5. TypeRec'
    BY <2>2, <2>3, <2>4, TypeParts DEF TypeRec
  <2>6. UNCHANGED <<desiredVars, backendVars, daemonVars, kernelVars, histVars>>
    BY <1>17 DEF ObserveOnce
  <2> QED BY <2>1, <2>5, <2>6, TypeKept, TypeWhole DEF desiredVars, daemonVars, kernelVars,
                                                       histVars
<1>18. CASE ObserveFails
  <2>1. Fail(lastIn, TRUE)
    BY <1>18, Zenon DEF ObserveFails
  <2>2. /\ resync' \in BOOLEAN /\ lastError' \in BOOLEAN /\ needsRetry' \in BOOLEAN
        /\ ruleState' \in [Rules -> {"none", "active", "pending", "not_active"}]
    BY <2>1, FailType, Zenon
  <2>3. UNCHANGED <<active, failed, published, activeGen, retiring, repair,
                    activeGeneration, serving>>
    BY <2>1 DEF Fail
  <2>4. UNCHANGED <<observed, lastIn, activePeers>>
    BY <1>18 DEF ObserveFails
  <2>5. TypeRec'
    BY <2>2, <2>3, <2>4, TypeParts DEF TypeRec
  <2>6. UNCHANGED <<desiredVars, pc, tx, backendVars, daemonVars, kernelVars, touched,
                    peersTouched>>
    BY <1>18 DEF ObserveFails
  <2> QED BY <2>5, <2>6, TypeKept, TypeWhole DEF desiredVars, daemonVars, kernelVars
<1>19. CASE GateOpens
  <2>1. TypeDaemon'
    BY <1>19, TypeParts DEF GateOpens, TypeDaemon
  <2>2. UNCHANGED <<desiredVars, pc, tx, recVars, backendVars, kernelVars, histVars>>
    BY <1>19 DEF GateOpens
  <2> QED BY <2>1, <2>2, TypeKept, TypeWhole DEF desiredVars, kernelVars, histVars
<1>20. ASSUME NEW f \in Flows, NewFlow(f) PROVE TypeOK'
  <2>1. TypeWorld'
    BY <1>20, TypeParts DEF NewFlow, TypeWorld
  <2>2. UNCHANGED <<desiredVars, pc, tx, recVars, backendVars, daemonVars, table, kpeers,
                    histVars>>
    BY <1>20 DEF NewFlow
  <2> QED BY <2>1, <2>2, TypeKept, TypeWhole DEF desiredVars, daemonVars, histVars
<1>21. ASSUME NEW t \in {None, NoPlan}, DriftTable(t) PROVE TypeOK'
  <2>1. TypeTable'
    BY <1>21, NoTxType DEF DriftTable, TypeTable
  <2>2. UNCHANGED <<desiredVars, pc, tx, recVars, backendVars, daemonVars, kpeers, flows,
                    blocked, peersTouched>>
    BY <1>21 DEF DriftTable
  <2> QED BY <2>1, <2>2, TypeKept, TypeWhole DEF desiredVars, daemonVars
<1>22. ASSUME NEW a \in Addrs, NEW k \in Keys \cup {None}, DriftPeers(a, k) PROVE TypeOK'
  <2>1. TypePeers'
    BY <1>22, TypeParts DEF DriftPeers, TypePeers, PeerSets
  <2>2. UNCHANGED <<desiredVars, pc, tx, recVars, backendVars, daemonVars, table, flows,
                    blocked, touched>>
    BY <1>22 DEF DriftPeers
  <2> QED BY <2>1, <2>2, TypeKept, TypeWhole DEF desiredVars, daemonVars
<1>23. ASSUME NEW l \in Listens, PortChanges(l) PROVE TypeOK'
  <2>1. TypeWorld'
    BY <1>23, TypeParts DEF PortChanges, TypeWorld
  <2>2. UNCHANGED <<desiredVars, pc, tx, recVars, backendVars, daemonVars, table, kpeers,
                    histVars>>
    BY <1>23 DEF PortChanges
  <2> QED BY <2>1, <2>2, TypeKept, TypeWhole DEF desiredVars, daemonVars, histVars
<1>24. CASE Crash
  <2>1. TypeTx'
    BY <1>24, StartType DEF Crash, TypeTx
  <2>2. TypeRec'
    BY <1>24, NoTxType, Zenon DEF Crash, TypeRec
  <2>3. TypeBackend' /\ TypeDaemon'
    BY <1>24, Zenon DEF Crash, TypeBackend, TypeDaemon
  <2>4. UNCHANGED <<desiredVars, kernelVars, touched, peersTouched>>
    BY <1>24 DEF Crash
  <2> QED BY <2>1, <2>2, <2>3, <2>4, TypeKept, TypeWhole DEF desiredVars, kernelVars
<1>25. CASE UNCHANGED vars
  BY <1>25, TypeKept, TypeWhole DEF vars, desiredVars, daemonVars, kernelVars, histVars
<1> QED
  BY <1>1, <1>2, <1>3, <1>4, <1>5, <1>6, <1>7, <1>8, <1>9, <1>10, <1>11, <1>12,
     <1>13, <1>14, <1>15, <1>16, <1>17, <1>18, <1>19, <1>20, <1>21, <1>22, <1>23,
     <1>24, <1>25 DEF Next, Transaction, Operator, World

-----------------------------------------------------------------------------
(* The steps of the inductive invariant                                    *)

Core == TxInv /\ RecordInv /\ RepairInv /\ FlowRepairInv /\ FlowInv

(* The variables the invariant reads beside pc, tx and the kernel's.       *)
records == <<lastIn, active, failed, retiring, published, ruleState, repair,
             needsRetry, lastError>>

(* While the transaction runs, what it was computed from does not change.  *)
LEMMA TxComputed ==
    ASSUME TxInv, pc \notin {"idle", "begin"},
           UNCHANGED <<decl, addrOf, lastIn, active, retiring>>,
           tx'.failed = tx.failed, tx'.ports = tx.ports, tx'.retiring = tx.retiring
    PROVE  /\ (lastIn = Input)'
           /\ (tx.failed \subseteq Forwarded(PlanOf(Input)))'
           /\ (tx.ports = Without(PlanOf(Input), tx.failed))'
           /\ (tx.retiring = Retire(PlanOf(Input), tx.failed))'
<1>1. /\ lastIn = Input /\ tx.failed \subseteq Forwarded(PlanOf(Input))
      /\ tx.ports = Without(PlanOf(Input), tx.failed)
      /\ tx.retiring = Retire(PlanOf(Input), tx.failed)
  BY Zenon DEF TxInv
<1>2. Input' = Input
  BY Zenon DEF Input
<1>3. PlanOf(Input)' = PlanOf(Input)
  BY <1>2
<1>4. Retire(PlanOf(Input), tx.failed)' = Retire(PlanOf(Input), tx.failed)
  BY <1>3, Zenon DEF Retire, Previous
<1> QED BY <1>1, <1>2, <1>3, <1>4, Zenon

LEMMA TxKept ==
    ASSUME TxInv, UNCHANGED <<decl, addrOf, pc, tx, records>> PROVE TxInv'
<1>1. UNCHANGED <<lastIn, active, failed, retiring, published>>
  BY DEF records
<1>2. CASE pc \in {"idle", "begin"}
  BY <1>1, <1>2, Zenon DEF TxInv
<1>3. CASE pc \notin {"idle", "begin"}
  BY <1>1, <1>3, TxComputed, Zenon DEF TxInv
<1> QED BY <1>2, <1>3

(* A step that leaves what the invariant reads alone.                      *)
LEMMA FrameStep ==
    ASSUME ReconInv, UNCHANGED <<decl, addrOf, pc, tx, records, last, pendPeers,
                                 pendRules, table, touched, flows>>
    PROVE  Core'
<1>1. TxInv'
  BY TxKept DEF ReconInv
<1>2. Unpublished' = Unpublished
  BY DEF Unpublished
<1>3. RecordInv'
  BY <1>2, Zenon DEF ReconInv, RecordInv, records
<1>4. RepairInv'
  BY <1>2 DEF ReconInv, RepairInv, RepairPending, records
<1>5. FlowRepairInv'
  BY <1>2, Zenon DEF ReconInv, FlowRepairInv, records
<1>6. FlowInv'
  BY <1>2, Zenon DEF ReconInv, FlowInv, records, Established, Admitted, Forwarded, Dispatches
<1> QED BY <1>1, <1>3, <1>4, <1>5, <1>6 DEF Core

(* An operation that saves and starts a transaction, or starts a retry.    *)
LEMMA StartStep ==
    ASSUME ReconInv, pc \in {"idle", "begin"}, pc' \in {"idle", "begin"}, ~tx'.noop,
           UNCHANGED <<records, last, pendPeers, pendRules, table, touched, flows>>
    PROVE  Core'
<1>1. TxInv'
  BY DEF TxInv
<1>2. Unpublished /\ Unpublished'
  BY DEF Unpublished
<1>3. RecordInv'
  BY <1>2, Zenon DEF ReconInv, RecordInv, records
<1>4. RepairInv'
  BY <1>2 DEF ReconInv, RepairInv, RepairPending, records
<1>5. FlowRepairInv'
  BY <1>2, Zenon DEF ReconInv, FlowRepairInv, records
<1>6. FlowInv'
  BY <1>2, Zenon DEF ReconInv, FlowInv, records, Established, Admitted, Forwarded, Dispatches
<1> QED BY <1>1, <1>3, <1>4, <1>5, <1>6 DEF Core

(* What ruleStates says of a failed transaction is true of Active.         *)
LEMMA FailStates ==
    ASSUME NEW in, NEW rsync, NEW r \in Rules
    PROVE  LET st == RuleStates(in, active, {}, rsync, TRUE)[r]
           IN  /\ st = "active" => active[r] = in[r]
               /\ st = "not_active" => active[r] = None
BY Zenon DEF RuleStates

(* A transaction that gives up before the point of no return.              *)
LEMMA GiveUpStep ==
    ASSUME ReconInv, pc \in {"begin", "prepare", "flush"}, lastIn' = Input,
           NEW rsync, GiveUp(rsync), flows' = flows,
           touched' # "no" \/ (touched' = touched /\ table' = table)
    PROVE  Core'
<1>1. /\ pc' = "idle" /\ ~tx'.noop
      /\ UNCHANGED <<active, failed, published, retiring, repair, last, pendPeers, pendRules>>
      /\ needsRetry' /\ lastError'
      /\ ruleState' = RuleStates(Input, active, {}, rsync, TRUE)
  BY DEF GiveUp, Fail, Finished, NoTx, backendVars
<1>2. TxInv'
  BY <1>1, Zenon DEF TxInv
<1>3. Unpublished /\ Unpublished'
  BY <1>1 DEF Unpublished
<1>4. RecordInv'
  <2>1. \A r \in Rules : /\ ruleState'[r] = "active" => active[r] = Input[r]
                         /\ ruleState'[r] = "not_active" => active[r] = None
    BY <1>1, FailStates, Zenon
  <2> QED BY <1>1, <1>3, <2>1, Zenon DEF ReconInv, RecordInv
<1>5. RepairInv'
  BY <1>1, <1>3 DEF ReconInv, RepairInv, RepairPending
<1>6. FlowRepairInv'
  BY <1>1, <1>3, Zenon DEF ReconInv, FlowRepairInv
<1>7. FlowInv'
  BY <1>1, <1>3, Zenon DEF ReconInv, FlowInv, Established, Admitted, Forwarded, Dispatches
<1> QED BY <1>2, <1>4, <1>5, <1>6, <1>7 DEF Core

LEMMA BeginStep ==
    ASSUME ReconInv, Begin PROVE Core'
<1> USE DEF desiredVars, recVars, backendVars, daemonVars, kernelVars, histVars
<1> DEFINE fs == Unbound(PlanOf(Input))
<1>1. /\ pc' = "prepare" /\ lastIn' = Input
      /\ tx'.failed = fs /\ tx'.ports = Without(PlanOf(Input), fs)
      /\ tx'.retiring = Retire(PlanOf(Input), fs) /\ ~tx'.noop
  <2>1. pc = "begin" /\ ~tx.noop
    BY DEF Begin, ReconInv, TxInv
  <2>2. /\ tx'.failed = fs /\ tx'.ports = Without(PlanOf(Input), fs)
        /\ tx'.retiring = Retire(PlanOf(Input), fs) /\ tx'.noop = tx.noop
    BY DEF Begin, ReconInv, TypeOK, Transactions
  <2> QED BY <2>1, <2>2 DEF Begin
<1>2. UNCHANGED <<decl, addrOf, active, failed, retiring, published, repair,
                  needsRetry, lastError, last, pendPeers, pendRules, table, touched, flows>>
  BY DEF Begin
<1>3. fs \subseteq Forwarded(PlanOf(Input))
  BY UnboundForwarded
<1>4. TxInv'
  <2>1. Input' = Input
    BY <1>2, Zenon DEF Input
  <2>2. \A plan, xs : Retire(plan, xs)' = Retire(plan, xs)
    BY <1>2, Zenon DEF Retire, Previous
  <2>3. tx'.failed \subseteq Forwarded(PlanOf(Input))
    BY <1>1, <1>3, Zenon
  <2>4. (tx.retiring = Retire(PlanOf(Input), tx.failed))'
    BY <1>1, <2>1, <2>2
  <2> QED BY <1>1, <2>1, <2>3, <2>4, Zenon DEF TxInv
<1>5. Unpublished /\ Unpublished'
  BY <1>1 DEF Begin, Unpublished
<1>6. RecordInv'
  BY <1>1, <1>2, <1>5, Zenon DEF ReconInv, RecordInv
<1>7. RepairInv'
  BY <1>2, <1>5 DEF ReconInv, RepairInv, RepairPending
<1>8. FlowRepairInv'
  BY <1>2, <1>5, Zenon DEF ReconInv, FlowRepairInv
<1>9. FlowInv'
  BY <1>2, <1>5, Zenon DEF ReconInv, FlowInv, Established, Admitted, Forwarded, Dispatches
<1> QED BY <1>4, <1>6, <1>7, <1>8, <1>9 DEF Core

LEMMA PrepareStep ==
    ASSUME ReconInv, Prepare PROVE Core'
<1> USE DEF desiredVars, recVars, backendVars, daemonVars, kernelVars, histVars
<1>1. /\ tx'.failed = tx.failed /\ tx'.ports = tx.ports /\ tx'.retiring = tx.retiring
      /\ tx'.noop = SamePublication
  BY DEF Prepare, ReconInv, TypeOK, Transactions
<1>2. UNCHANGED <<decl, addrOf, records, last, pendPeers, pendRules, table, touched, flows>>
  BY DEF Prepare, records
<1>3. /\ pc = "prepare" /\ pc' \in {"flush", "peers", "finish"}
      /\ pc' = "flush" <=> ~SamePublication
  BY DEF Prepare
<1>4. SamePublication => published /\ tx.ports = active /\ tx.failed = failed
  BY DEF SamePublication
<1>5. TxInv'
  BY <1>1, <1>2, <1>3, <1>4, TxComputed, Zenon DEF ReconInv, TxInv, records
<1>6. Unpublished /\ Unpublished'
  BY <1>1, <1>3 DEF Unpublished
<1>7. RecordInv'
  BY <1>2, <1>3, <1>6, Zenon DEF ReconInv, RecordInv, records
<1>8. RepairInv'
  BY <1>2, <1>6 DEF ReconInv, RepairInv, RepairPending, records
<1>9. FlowRepairInv'
  BY <1>2, <1>6, Zenon DEF ReconInv, FlowRepairInv, records
<1>10. FlowInv'
  BY <1>2, <1>6, Zenon DEF ReconInv, FlowInv, records, Established, Admitted, Forwarded, Dispatches
<1> QED BY <1>5, <1>7, <1>8, <1>9, <1>10 DEF Core

LEMMA FlushStep ==
    ASSUME ReconInv, Flush PROVE Core'
<1> USE DEF desiredVars, recVars, backendVars, daemonVars, kernelVars, histVars
<1>1. /\ pc = "flush" /\ pc' = "peers" /\ UNCHANGED <<decl, addrOf, records, tx>>
      /\ table' = tx.ports /\ pendRules' = [plan |-> tx.ports, retiring |-> tx.retiring]
  BY DEF Flush, records
<1>2. ~tx.noop /\ ~Unpublished'
  BY <1>1, Zenon DEF ReconInv, TxInv, Unpublished
<1>3. pendRules' # None
  <2>1. tx.ports \in Plans /\ tx.retiring \in Retirings
    BY TypeParts DEF ReconInv, TypeTx, Transactions
  <2>2. pendRules' \in FlowRepairs
    BY <1>1, <2>1 DEF FlowRepairs
  <2> QED BY <2>2, ReconcilerAssumption
<1>4. TxInv'
  BY <1>1, <1>2, TxComputed, Zenon DEF ReconInv, TxInv, records
<1>5. RecordInv'
  BY <1>1, <1>2, Zenon DEF ReconInv, RecordInv, records
<1>6. RepairInv' /\ FlowRepairInv' /\ FlowInv'
  BY <1>1, <1>2, <1>3, Zenon DEF RepairInv, FlowRepairInv, FlowInv
<1> QED BY <1>4, <1>5, <1>6 DEF Core

LEMMA RepairPeersStep ==
    ASSUME ReconInv, RepairPeers PROVE Core'
<1> USE DEF desiredVars, recVars, backendVars, daemonVars, kernelVars, histVars
<1>1. /\ pc = "peers" /\ pc' = "converge"
      /\ UNCHANGED <<decl, addrOf, records, tx, last, pendRules, table, touched, flows>>
      /\ pendPeers' \in {pendPeers, None}
  BY DEF RepairPeers, records
<1>2. Unpublished' = Unpublished
  BY <1>1 DEF Unpublished
<1>3. TxInv'
  BY <1>1, TxComputed, Zenon DEF ReconInv, TxInv, records
<1>4. RecordInv'
  BY <1>1, <1>2, Zenon DEF ReconInv, RecordInv, records
<1>5. RepairInv'
  BY <1>1, <1>2 DEF ReconInv, RepairInv, RepairPending, records
<1>6. FlowRepairInv'
  BY <1>1, <1>2, Zenon DEF ReconInv, FlowRepairInv, records
<1>7. FlowInv'
  BY <1>1, <1>2, Zenon DEF ReconInv, FlowInv, records, Established, Admitted, Forwarded, Dispatches
<1> QED BY <1>3, <1>4, <1>5, <1>6, <1>7 DEF Core

(* What the convergence keeps is established under the publication.        *)
LEMMA ConvergeStep ==
    ASSUME ReconInv, Converge PROVE Core'
<1> USE DEF desiredVars, recVars, backendVars, daemonVars, kernelVars, histVars
<1>1. /\ pc = "converge" /\ pc' = IF tx.noop THEN "finish" ELSE "readback"
      /\ UNCHANGED <<decl, addrOf, records, tx, last, pendPeers, table, touched>>
      /\ pendRules' \in {pendRules, None}
  BY DEF Converge, records
<1>2. Unpublished' = Unpublished
  BY <1>1 DEF Unpublished
<1>3. TxInv'
  BY <1>1, TxComputed, Zenon DEF ReconInv, TxInv, records
<1>4. RecordInv'
  BY <1>1, <1>2, Zenon DEF ReconInv, RecordInv, records
<1>5. RepairInv'
  BY <1>1, <1>2 DEF ReconInv, RepairInv, RepairPending, records
<1>6. FlowRepairInv'
  BY <1>1, <1>2, Zenon DEF ReconInv, FlowRepairInv, records
<1>7. FlowInv'
  <2> SUFFICES ASSUME pendRules' = None, touched = "no", ~DeleteMayFail, NEW f \in flows'
               PROVE  /\ (published /\ Unpublished) => Established(active, retiring, f)
                      /\ ~Unpublished => Established(tx.ports, tx.retiring, f)
    BY <1>1, <1>2, Zenon DEF FlowInv, records, Established, Admitted, Forwarded, Dispatches
  <2>1. CASE pendRules = None
    <3>1. f \in flows
      BY <2>1 DEF Converge
    <3> QED BY <2>1, <3>1 DEF ReconInv, FlowInv
  <2>2. CASE pendRules # None
    <3>1. Kept(pendRules.plan, pendRules.retiring, f)
      BY <2>2 DEF Converge
    <3>2. CASE Unpublished
      <4>1. /\ pendRules.plan = active
            /\ \A r \in Rules : pendRules.retiring[r] # None =>
                  /\ retiring[r] # None
                  /\ pendRules.retiring[r].previous = retiring[r].previous
        BY <2>2, <3>2 DEF ReconInv, FlowRepairInv
      <4>2. CASE Admitted(pendRules.plan, f)
        BY <3>2, <4>1, <4>2, Zenon DEF Established
      <4>3. CASE KeptRetiring(pendRules.retiring, f)
        <5>1. PICK r \in Rules : /\ pendRules.retiring[r] # None
                                 /\ Dispatches(pendRules.retiring[r].previous, f)
                                 /\ f.src \in pendRules.retiring[r].previous.allow
          BY <4>3, Zenon DEF KeptRetiring
        <5>2. /\ retiring[r] # None
              /\ pendRules.retiring[r].previous = retiring[r].previous
          BY <4>1, <5>1, Zenon
        <5>3. Dispatches(retiring[r].previous, f) /\ f.src \in retiring[r].previous.allow
          BY <5>1, <5>2
        <5> QED BY <3>2, <5>2, <5>3, Zenon DEF Established
      <4> QED BY <3>1, <4>2, <4>3 DEF Kept
    <3>3. CASE ~Unpublished
      <4>1. pendRules = [plan |-> tx.ports, retiring |-> tx.retiring]
        BY <2>2, <3>3 DEF ReconInv, FlowRepairInv
      <4>2. Kept(tx.ports, tx.retiring, f)
        BY <3>1, <4>1
      <4>3. Established(tx.ports, tx.retiring, f)
        BY <4>2, Zenon DEF Kept, KeptRetiring, Established
      <4> QED BY <3>3, <4>3
    <3> QED BY <3>2, <3>3
  <2> QED BY <2>1, <2>2
<1> QED BY <1>3, <1>4, <1>5, <1>6, <1>7 DEF Core

LEMMA ReadBackStep ==
    ASSUME ReconInv, ReadBack PROVE Core'
<1> USE DEF desiredVars, recVars, backendVars, daemonVars, kernelVars, histVars
<1>1. /\ pc = "readback" /\ pc' = "finish"
      /\ UNCHANGED <<decl, addrOf, records, tx, pendPeers, pendRules, table, touched, flows>>
  BY DEF ReadBack, records
<1>2. ~Unpublished /\ ~Unpublished'
  BY <1>1, Zenon DEF ReconInv, TxInv, Unpublished
<1>3. TxInv'
  BY <1>1, TxComputed, Zenon DEF ReconInv, TxInv, records
<1>4. RecordInv'
  BY <1>1, <1>2, Zenon DEF ReconInv, RecordInv, records
<1>5. RepairInv'
  BY <1>2 DEF RepairInv
<1>6. FlowRepairInv'
  BY <1>1, <1>2, Zenon DEF ReconInv, FlowRepairInv, records
<1>7. FlowInv'
  BY <1>1, <1>2, Zenon DEF ReconInv, FlowInv, records, Established, Admitted, Forwarded, Dispatches
<1> QED BY <1>3, <1>4, <1>5, <1>6, <1>7 DEF Core

(* A retry that publishes nothing keeps what is retiring as it is.         *)
LEMMA NoopRetiring ==
    ASSUME ReconInv, pc \notin {"idle", "begin"}, tx.noop,
           NEW r \in Rules, retiring[r] # None
    PROVE  tx.retiring[r] # None /\ tx.retiring[r].previous = retiring[r].previous
<1>1. r \in tx.failed /\ active[r] = None
  BY Zenon DEF ReconInv, TxInv, RecordInv
<1>2. retiring[r].previous \in Port /\ Previous(r) = retiring[r].previous
  BY <1>1, Zenon DEF ReconInv, TypeOK, Retirings, Retired, Previous
<1>3. PlanOf(Input)[r] \in Port
  <2>1. PlanOf(Input) \in Plans
    BY InputType, PlanOfType DEF ReconInv
  <2>2. r \in Forwarded(PlanOf(Input))
    BY <1>1, Zenon DEF ReconInv, TxInv
  <2> QED BY <2>1, <2>2 DEF Forwarded, Plans
<1>4. tx.retiring[r] = [previous |-> retiring[r].previous, allow |-> PlanOf(Input)[r].allow]
  <2>1. tx.retiring = Retire(PlanOf(Input), tx.failed)
    BY Zenon DEF ReconInv, TxInv
  <2>2. Previous(r) # None
    BY <1>2, ReconcilerAssumption
  <2> QED BY <1>1, <1>2, <2>1, <2>2, Zenon DEF Retire
<1>5. tx.retiring[r] \in Retired
  <2>1. PlanOf(Input)[r].allow \in SUBSET Sources
    BY <1>3, Zenon DEF Port
  <2>2. \A p \in Port, al \in SUBSET Sources : [previous |-> p, allow |-> al] \in Retired
    BY DEF Retired
  <2>3. [previous |-> retiring[r].previous, allow |-> PlanOf(Input)[r].allow] \in Retired
    BY <1>2, <2>1, <2>2, Zenon
  <2> QED BY <1>4, <2>3, Zenon
<1>6. tx.retiring[r] # None
  BY <1>5, ReconcilerAssumption
<1>7. tx.retiring[r].previous = retiring[r].previous
  <2>1. \A p, al : [previous |-> p, allow |-> al].previous = p
    OBVIOUS
  <2> QED BY <1>4, <2>1, SMTT(30)
<1> QED BY <1>6, <1>7

LEMMA FinishStep ==
    ASSUME ReconInv, Finish PROVE Core'
<1> USE DEF desiredVars, recVars, backendVars, daemonVars, kernelVars, histVars
<1>1. /\ pc = "finish" /\ pc' \in {"idle", "begin"} /\ ~tx'.noop
      /\ published' /\ active' = tx.ports /\ failed' = tx.failed /\ retiring' = tx.retiring
      /\ ruleState' = RuleStates(Input, tx.ports, tx.failed, FALSE, FALSE)
      /\ UNCHANGED <<lastIn, last, pendPeers, pendRules, table, touched, flows>>
  BY DEF Finish, Finished, NoTx
<1>2. /\ lastIn = Input /\ tx.failed \subseteq Rules
      /\ tx.ports = Without(PlanOf(Input), tx.failed)
      /\ tx.retiring = Retire(PlanOf(Input), tx.failed)
  BY <1>1, Zenon DEF ReconInv, TxInv, TypeOK, Transactions
<1>3. TxInv' /\ Unpublished'
  BY <1>1, Zenon DEF TxInv, Unpublished
<1>4. RecordInv'
  <2>1. \A r \in tx.failed : tx.ports[r] = None
    BY <1>2 DEF Without
  <2>2. \A r \in Rules : tx.retiring[r] # None => r \in tx.failed
    BY <1>2, Zenon DEF Retire
  <2>3. \A r \in Rules : /\ ruleState'[r] = "active" => tx.ports[r] = Input[r]
                         /\ ruleState'[r] = "not_active" => tx.ports[r] = None
    BY <1>1, <1>2, Zenon DEF RuleStates, Without, PlanOf
  <2>4. touched = "no" => table = tx.ports
    BY <1>1, Zenon DEF ReconInv, RecordInv, TxInv, Unpublished
  <2> QED BY <1>1, <1>2, <1>3, <2>1, <2>2, <2>3, <2>4, Zenon DEF RecordInv
<1>5. RepairInv'
  <2>1. RepairPending' = RepairPending
    BY <1>1 DEF RepairPending
  <2>2. RepairPending => RepairLeft
    BY DEF RepairLeft, ReconInv, RepairInv, Unpublished
  <2>3. RepairLeft => repair' /\ needsRetry' /\ lastError'
    BY Zenon DEF Finish
  <2> QED BY <2>1, <2>2, <2>3 DEF RepairInv
<1>6. FlowRepairInv'
  <2> SUFFICES ASSUME pendRules # None
               PROVE  /\ pendRules.plan = tx.ports
                      /\ \A r \in Rules : pendRules.retiring[r] # None =>
                            /\ tx.retiring[r] # None
                            /\ pendRules.retiring[r].previous = tx.retiring[r].previous
    BY <1>1, <1>3, Zenon DEF FlowRepairInv
  <2>1. CASE tx.noop
    <3>1. Unpublished /\ tx.ports = active
      BY <2>1, Zenon DEF ReconInv, TxInv, Unpublished
    <3> QED BY <1>1, <2>1, <3>1, NoopRetiring, Zenon DEF ReconInv, FlowRepairInv
  <2>2. CASE ~tx.noop
    <3>1. ~Unpublished
      BY <1>1, <2>2 DEF Unpublished
    <3>2. pendRules = [plan |-> tx.ports, retiring |-> tx.retiring]
      BY <3>1 DEF ReconInv, FlowRepairInv
    <3>3. pendRules.plan = tx.ports /\ pendRules.retiring = tx.retiring
      BY <3>2
    <3> QED BY <3>3
  <2> QED BY <2>1, <2>2
<1>7. FlowInv'
  <2> SUFFICES ASSUME pendRules = None, touched = "no", ~DeleteMayFail, NEW f \in flows
               PROVE  Established(tx.ports, tx.retiring, f)
    BY <1>1, <1>3, Zenon DEF FlowInv, Established, Admitted, Forwarded, Dispatches
  <2>1. CASE tx.noop
    <3>1. published /\ Unpublished /\ tx.ports = active
      BY <2>1, Zenon DEF ReconInv, TxInv, Unpublished
    <3>2. Established(active, retiring, f)
      BY <3>1 DEF ReconInv, FlowInv
    <3> QED BY <1>1, <2>1, <3>1, <3>2, NoopRetiring, Zenon DEF Established
  <2>2. CASE ~tx.noop
    <3>1. ~Unpublished
      BY <1>1, <2>2 DEF Unpublished
    <3> QED BY <3>1 DEF ReconInv, FlowInv
  <2> QED BY <2>1, <2>2
<1> QED BY <1>3, <1>4, <1>5, <1>6, <1>7 DEF Core

LEMMA ObserveFailsStep ==
    ASSUME ReconInv, ObserveFails PROVE Core'
<1> USE DEF desiredVars, recVars, backendVars, daemonVars, kernelVars, histVars
<1>1. /\ pc = "idle" /\ pc' = "idle" /\ tx' = tx
      /\ UNCHANGED <<lastIn, active, failed, published, retiring, repair, last,
                     pendPeers, pendRules, table, touched, flows>>
      /\ needsRetry' /\ lastError'
      /\ ruleState' = RuleStates(lastIn, active, {}, TRUE, TRUE)
  BY DEF ObserveFails, Fail
<1>2. TxInv' /\ Unpublished /\ Unpublished'
  BY <1>1, Zenon DEF ReconInv, TxInv, Unpublished
<1>3. RecordInv'
  <2>1. \A r \in Rules : /\ ruleState'[r] = "active" => active[r] = lastIn[r]
                         /\ ruleState'[r] = "not_active" => active[r] = None
    BY <1>1, FailStates, Zenon
  <2> QED BY <1>1, <1>2, <2>1, Zenon DEF ReconInv, RecordInv
<1>4. RepairInv'
  BY <1>1, <1>2 DEF ReconInv, RepairInv, RepairPending
<1>5. FlowRepairInv'
  BY <1>1, <1>2, Zenon DEF ReconInv, FlowRepairInv
<1>6. FlowInv'
  BY <1>1, <1>2, Zenon DEF ReconInv, FlowInv, Established, Admitted, Forwarded, Dispatches
<1> QED BY <1>2, <1>3, <1>4, <1>5, <1>6 DEF Core

LEMMA KernelStep ==
    ASSUME ReconInv,
           \/ \E f \in Flows : NewFlow(f)
           \/ \E t \in {None, NoPlan} : DriftTable(t)
    PROVE  Core'
<1> USE DEF desiredVars, recVars, backendVars, daemonVars, kernelVars, histVars
<1>1. UNCHANGED <<decl, addrOf, pc, tx, records, last, pendPeers, pendRules>>
  BY Zenon DEF NewFlow, DriftTable, records
<1>2. touched' = "no" => /\ touched = "no" /\ table' = table
                         /\ \A f \in flows' : f \in flows \/ Admitted(table, f)
  BY Zenon DEF NewFlow, DriftTable
<1>3. TxInv'
  BY <1>1, TxKept DEF ReconInv
<1>4. Unpublished' = Unpublished
  BY <1>1 DEF Unpublished
<1>5. RecordInv'
  BY <1>1, <1>2, <1>4, Zenon DEF ReconInv, RecordInv, records
<1>6. RepairInv'
  BY <1>1, <1>4, Zenon DEF ReconInv, RepairInv, RepairPending, records
<1>7. FlowRepairInv'
  BY <1>1, <1>4, Zenon DEF ReconInv, FlowRepairInv, records
<1>8. FlowInv'
  <2> SUFFICES ASSUME pendRules = None, touched' = "no", ~DeleteMayFail, NEW f \in flows'
               PROVE  /\ (published /\ Unpublished) => Established(active, retiring, f)
                      /\ ~Unpublished => Established(tx.ports, tx.retiring, f)
    BY <1>1, <1>4, Zenon DEF FlowInv, records, Established, Admitted, Forwarded, Dispatches
  <2>1. CASE f \in flows
    BY <1>2, <2>1 DEF ReconInv, FlowInv
  <2>2. CASE Admitted(table, f)
    <3>1. (published /\ Unpublished) => table = active
      BY <1>2, Zenon DEF ReconInv, RecordInv
    <3>2. ~Unpublished => table = tx.ports
      BY <1>2, Zenon DEF ReconInv, RecordInv
    <3> QED BY <2>2, <3>1, <3>2, Zenon DEF Established
  <2> QED BY <1>2, <2>1, <2>2
<1> QED BY <1>3, <1>5, <1>6, <1>7, <1>8 DEF Core

LEMMA CrashStep ==
    ASSUME Crash PROVE Core'
<1>1. /\ pc' = "begin" /\ ~tx'.noop /\ ~published'
      /\ failed' = {} /\ retiring' = NoPlan
      /\ last' = None /\ pendPeers' = None /\ pendRules' = None
  BY StartType DEF Crash
<1>2. Unpublished'
  BY <1>1 DEF Unpublished
<1> QED
  BY <1>1, <1>2, Zenon DEF Core, TxInv, RecordInv, RepairInv, FlowRepairInv, FlowInv,
     RepairPending, NoPlan

-----------------------------------------------------------------------------
(* The theorems                                                            *)

LEMMA InitInv ==
    ASSUME Init PROVE ReconInv
<1>1. TypeOK
  BY NoTxType, Zenon DEF Init, TypeOK, ValidDecls
<1>2. ~tx.noop /\ Unpublished
  BY Zenon DEF Init, NoTx, Unpublished
<1> QED
  BY <1>1, <1>2, Zenon DEF Init, ReconInv, TxInv, RecordInv, RepairInv, FlowRepairInv,
     FlowInv, RepairPending, NoPlan

LEMMA CoreStep ==
    ASSUME ReconInv, [Next]_vars PROVE Core'
<1> USE DEF desiredVars, recVars, backendVars, daemonVars, kernelVars, histVars
<1>1. CASE ReadFails
  BY <1>1, StartStep, Zenon DEF ReadFails, Finished, NoTx, records
<1>2. CASE BeginFails
  BY <1>2, GiveUpStep DEF BeginFails
<1>3. CASE PrepareFails
  <2>1. lastIn' = Input
    BY <1>3, Zenon DEF PrepareFails, ReconInv, TxInv
  <2> QED BY <1>3, <2>1, GiveUpStep DEF PrepareFails
<1>4. ASSUME NEW replaced \in BOOLEAN, FlushFails(replaced) PROVE Core'
  <2>1. lastIn' = Input
    BY <1>4, Zenon DEF FlushFails, ReconInv, TxInv
  <2>2. touched' # "no" \/ (touched' = touched /\ table' = table)
    BY <1>4 DEF FlushFails
  <2> QED BY <1>4, <2>1, <2>2, GiveUpStep DEF FlushFails
<1>5. CASE Operator \/ RetryOnce
  <2>1. /\ pc = "idle" /\ (Start(TRUE) \/ Start(FALSE))
        /\ UNCHANGED <<records, last, pendPeers, pendRules, table, touched, flows>>
    BY <1>5, Zenon DEF Operator, RetryOnce, ChangeRules, Register, Revoke, SetPublicKey,
       ChangeAgents, records
  <2> QED BY <2>1, StartType, StartStep, Zenon
<1>6. CASE ObserveOnce
  <2>1. pc = "idle" /\ UNCHANGED <<decl, addrOf, records, last, pendPeers, pendRules,
                                   table, touched, flows>>
    BY <1>6 DEF ObserveOnce, records
  <2>2. CASE Start(TRUE)
    BY <2>1, <2>2, StartType, StartStep
  <2>3. CASE UNCHANGED <<pc, tx>>
    BY <2>1, <2>3, FrameStep
  <2> QED BY <1>6, <2>2, <2>3, Zenon DEF ObserveOnce
<1>7. CASE \/ GateOpens \/ UNCHANGED vars
           \/ \E a \in Addrs, k \in Keys \cup {None} : DriftPeers(a, k)
           \/ \E l \in Listens : PortChanges(l)
  <2>1. UNCHANGED <<decl, addrOf, pc, tx, records, last, pendPeers, pendRules,
                    table, touched, flows>>
    BY <1>7, Zenon DEF GateOpens, DriftPeers, PortChanges, vars, records
  <2> QED BY <2>1, FrameStep
<1> QED
  BY <1>1, <1>2, <1>3, <1>4, <1>5, <1>6, <1>7, BeginStep, PrepareStep, FlushStep,
     RepairPeersStep, ConvergeStep, ReadBackStep, FinishStep, ObserveFailsStep,
     KernelStep, CrashStep DEF Next, Transaction, World

(* Every reachable state of the Reconciler satisfies the inductive         *)
(* invariant: a transaction, its records, the kernel and the pending       *)
(* repairs agree at every step.                                            *)
THEOREM ReconInvHolds == Spec => []ReconInv
<1>1. Init => ReconInv
  BY InitInv
<1>2. ReconInv /\ [Next]_vars => ReconInv'
  BY TypeStep, CoreStep DEF ReconInv, Core
<1> QED BY <1>1, <1>2, PTL DEF Spec

(* What the admin API reports of a rule is what the table forwards.        *)
THEOREM StatusTruthfulHolds == Spec => []StatusTruthful
<1>1. ReconInv => StatusTruthful
  BY Zenon DEF ReconInv, RecordInv, StatusTruthful, Unpublished
<1> QED BY <1>1, ReconInvHolds, PTL

(* A repair after the point of no return is retried and reported until it  *)
(* is done.                                                                *)
THEOREM RepairTrackedHolds == Spec => []RepairTracked
<1>1. ReconInv => RepairTracked
  BY DEF ReconInv, RepairInv, RepairTracked, Unpublished
<1> QED BY <1>1, ReconInvHolds, PTL

(* Once the convergence ran, every established flow is one the publication *)
(* admits, as long as the kernel deletes the flows it is told to delete.   *)
THEOREM FlowsConvergedHolds ==
    ASSUME ~DeleteMayFail PROVE Spec => []FlowsConverged
<1>1. ReconInv => FlowsConverged
  BY Zenon DEF ReconInv, RecordInv, FlowInv, FlowsConverged, Unpublished
<1> QED BY <1>1, ReconInvHolds, PTL

-----------------------------------------------------------------------------
(* The device, the relay and the delivery snapshot                         *)

(* What is computed of the database only changes with it.                  *)
LEMMA DerivedKept ==
    /\ UNCHANGED <<addrOf, keyOf>> => DesiredPeers' = DesiredPeers
    /\ UNCHANGED <<decl, addrOf>> => Input' = Input /\ PlanOf(Input)' = PlanOf(Input)
<1>1. UNCHANGED <<addrOf, keyOf>> => DesiredPeers' = DesiredPeers
  BY DEF DesiredPeers
<1>2. UNCHANGED <<decl, addrOf>> => Input' = Input
  BY DEF Input
<1> QED BY <1>1, <1>2 DEF PlanOf

LEMMA NotNoop ==
    ASSUME Finished \/ Start(TRUE) \/ Start(FALSE) PROVE ~tx'.noop
<1>1. CASE Finished
  BY <1>1 DEF Finished, NoTx
<1>2. CASE Start(TRUE) \/ Start(FALSE)
  BY <1>2, StartType, Zenon
<1> QED BY <1>1, <1>2, Zenon

Peers == PeerTxInv /\ PeerInv

(* Outside a transaction: what the record says of the peers stays, or is   *)
(* taken from the device and everything is to be done again.               *)
LEMMA PeersAtRest ==
    ASSUME PeerTxInv, PeerInv, pc \in {"idle", "begin"}, pc' \in {"idle", "begin"},
           ~tx'.noop, observed' = observed, resync => resync',
           \/ activePeers' = activePeers
           \/ activePeers' = kpeers /\ resync',
           UNCHANGED <<pendPeers, kpeers, peersTouched, published>>
    PROVE  Peers'
<1>1. Unpublished /\ Unpublished'
  BY DEF Unpublished
<1>2. PeerTxInv'
  BY <1>1 DEF PeerTxInv
<1>3. PeerInv'
  BY DEF PeerInv
<1> QED BY <1>2, <1>3 DEF Peers

LEMMA PeersFrame ==
    ASSUME PeerTxInv, PeerInv,
           UNCHANGED <<addrOf, keyOf, pc, tx, observed, published, activePeers, resync,
                       pendPeers>>,
           UNCHANGED <<kpeers, peersTouched>> \/ peersTouched' # "no"
    PROVE  Peers'
<1>1. DesiredPeers' = DesiredPeers /\ (Unpublished <=> Unpublished')
  BY DerivedKept DEF Unpublished
<1>2. PeerTxInv'
  BY <1>1 DEF PeerTxInv
<1>3. PeerInv'
  BY <1>1 DEF PeerInv
<1> QED BY <1>2, <1>3 DEF Peers

LEMMA PeersBegin ==
    ASSUME ReconInv, PeerTxInv, PeerInv, Begin PROVE Peers'
<1> DEFINE drift == ChecksRepair /\ Drifted
<1>1. /\ pc = "begin" /\ pc' = "prepare" /\ observed'
      /\ activePeers' = (IF ~observed \/ drift THEN kpeers ELSE activePeers)
      /\ resync' = (resync \/ drift)
      /\ UNCHANGED <<addrOf, keyOf, pendPeers, kpeers, peersTouched>>
  BY Zenon DEF Begin, desiredVars, backendVars, kernelVars, histVars
<1>2. /\ tx'.noop = tx.noop /\ tx'.resync = resync'
      /\ tx'.peersChanged = (DesiredPeers # activePeers' \/ resync')
  <2>1. tx \in Transactions
    BY DEF ReconInv, TypeOK
  <2> QED BY <2>1, Zenon DEF Begin, Transactions
<1>3. ~tx.noop
  BY <1>1, Zenon DEF ReconInv, TxInv
<1>4. DesiredPeers' = DesiredPeers
  BY <1>1, DerivedKept
<1>5. Unpublished /\ Unpublished'
  BY <1>1 DEF Unpublished
<1>6. PeerTxInv'
  BY <1>1, <1>2, <1>3, <1>4, <1>5, Zenon DEF PeerTxInv
<1>7. PeerInv'
  BY <1>1 DEF PeerInv, PeerTxInv
<1> QED BY <1>6, <1>7 DEF Peers

LEMMA PeersPrepare ==
    ASSUME ReconInv, PeerTxInv, PeerInv, Prepare PROVE Peers'
<1>1. /\ pc = "prepare" /\ kpeers' = PreparedPeers
      /\ pc' = (IF ~SamePublication THEN "flush" ELSE IF repair THEN "peers" ELSE "finish")
      /\ UNCHANGED <<addrOf, keyOf, observed, activePeers, resync, pendPeers, peersTouched>>
  BY Zenon DEF Prepare, desiredVars, recVars, backendVars, histVars
<1>2. /\ tx'.noop = SamePublication /\ tx'.resync = tx.resync
      /\ tx'.peersChanged = tx.peersChanged
  <2>1. tx \in Transactions
    BY DEF ReconInv, TypeOK
  <2> QED BY <2>1, Zenon DEF Prepare, Transactions
<1>3. DesiredPeers' = DesiredPeers
  BY <1>1, DerivedKept
<1>4. Unpublished /\ Unpublished'
  BY <1>1, <1>2 DEF Unpublished
<1>5. /\ tx.resync = resync /\ tx.peersChanged = (DesiredPeers # activePeers \/ resync)
      /\ observed /\ ((pendPeers # None /\ ~resync) => pendPeers = activePeers)
  BY <1>1, <1>4 DEF PeerTxInv
<1>6. SamePublication => ~resync /\ DesiredPeers = activePeers
  BY <1>5 DEF SamePublication
<1>7. PeerTxInv'
  BY <1>1, <1>2, <1>3, <1>4, <1>5, <1>6, Zenon DEF PeerTxInv
<1>8. ASSUME peersTouched' = "no"
      PROVE  /\ \A a \in Addrs : DesiredPeers[a] # None => kpeers'[a] = DesiredPeers[a]
             /\ (pendPeers = None /\ ~tx.peersChanged) => kpeers' = DesiredPeers
             /\ \A a \in Addrs :
                    \/ activePeers[a] = None \/ kpeers'[a] # None
                    \/ \E b \in Addrs \ {a} : DesiredPeers[b] = activePeers[a]
  <2>1. /\ \A a \in Addrs : activePeers[a] # None => kpeers[a] = activePeers[a]
        /\ pendPeers = None => kpeers = activePeers
    BY <1>1, <1>5, <1>8 DEF PeerInv
  <2>2. CASE tx.peersChanged
    <3>1. kpeers' = PeerUnion(DesiredPeers, activePeers)
      BY <1>1, <2>2 DEF PreparedPeers
    <3> QED BY <2>2, <3>1 DEF PeerUnion
  <2>3. CASE ~tx.peersChanged
    <3>1. kpeers' = kpeers /\ DesiredPeers = activePeers
      BY <1>1, <1>5, <2>3, Zenon DEF PreparedPeers
    <3> QED BY <2>1, <2>3, <3>1
  <2> QED BY <2>2, <2>3
<1>9. SamePublication => ~tx.peersChanged
  BY <1>5, <1>6, Zenon
<1>10. pc' \in {"flush", "peers", "finish"} /\ (pc' # "flush" => ~tx.peersChanged)
  BY <1>1, <1>9
<1>11. PeerInv'
  BY <1>1, <1>2, <1>3, <1>8, <1>10, Zenon DEF PeerInv
<1> QED BY <1>7, <1>11 DEF Peers

(* A transaction that gives up: the device has what it had, or the peers   *)
(* of the record, or else peersTouched tells.                              *)
LEMMA PeersGiveUp ==
    ASSUME PeerTxInv, pc \in {"prepare", "flush"}, GiveUp(resync),
           UNCHANGED <<observed, activePeers>>,
           peersTouched' # "no" \/ kpeers' = activePeers
             \/ (/\ peersTouched' = peersTouched /\ kpeers' = kpeers
                 /\ pc = "flush" => ~tx.peersChanged),
           PeerInv
    PROVE  Peers'
<1>1. /\ pc' = "idle" /\ resync' = resync
      /\ UNCHANGED <<addrOf, keyOf, pendPeers>>
  BY DEF GiveUp, Fail, Finished, desiredVars, backendVars
<1>2. ~tx'.noop
  BY NotNoop DEF GiveUp
<1>3. Unpublished /\ Unpublished'
  BY <1>1 DEF Unpublished
<1>4. PeerTxInv'
  BY <1>1, <1>2, <1>3 DEF PeerTxInv
<1>5. pc = "flush" /\ ~tx.peersChanged => DesiredPeers = activePeers
  BY Zenon DEF PeerTxInv
<1>6. PeerInv'
  BY <1>1, <1>5 DEF PeerInv
<1> QED BY <1>4, <1>6 DEF Peers

LEMMA RestoredPeers ==
    ASSUME TypeOK, NEW held, RestorePeers(held), tx.peersChanged \/ held = kpeers
    PROVE  \/ peersTouched' # "no" \/ kpeers' = activePeers
           \/ peersTouched' = peersTouched /\ kpeers' = kpeers /\ ~tx.peersChanged
BY DEF RestorePeers

LEMMA PeersFlush ==
    ASSUME ReconInv, PeerTxInv, PeerInv, Flush PROVE Peers'
<1>1. /\ pc = "flush" /\ pc' = "peers"
      /\ pendPeers' = (IF tx.peersChanged \/ pendPeers # None THEN DesiredPeers ELSE None)
      /\ UNCHANGED <<addrOf, keyOf, tx, observed, activePeers, resync, kpeers, peersTouched>>
  BY Zenon DEF Flush, desiredVars, recVars
<1>2. DesiredPeers' = DesiredPeers /\ DesiredPeers # None
  <2>1. DesiredPeers \in PeerSets
    BY DesiredPeersType DEF ReconInv
  <2> QED BY <1>1, <2>1, DerivedKept, ReconcilerAssumption, Zenon
<1>3. ~tx.noop /\ ~Unpublished'
  BY <1>1, Zenon DEF ReconInv, TxInv, Unpublished
<1>4. PeerTxInv'
  BY <1>1, <1>2, <1>3, Zenon DEF PeerTxInv
<1>5. PeerInv'
  BY <1>1, <1>2 DEF PeerInv
<1> QED BY <1>4, <1>5 DEF Peers

(* runRepairs and readBack: past the decision to commit, the peers only    *)
(* change by the removal that was to be done.                              *)
LEMMA PeersRepair ==
    ASSUME ReconInv, PeerTxInv, PeerInv, RepairPeers PROVE Peers'
<1>1. /\ pc = "peers" /\ pc' = "converge"
      /\ UNCHANGED <<addrOf, keyOf, tx, observed, activePeers, resync>>
      /\ \/ UNCHANGED <<kpeers, pendPeers, peersTouched>>
         \/ pendPeers # None /\ kpeers' = pendPeers /\ pendPeers' = None
  BY Zenon DEF RepairPeers, desiredVars, recVars
<1>2. DesiredPeers' = DesiredPeers
  BY <1>1, DerivedKept
<1>3. Unpublished <=> Unpublished'
  BY <1>1 DEF Unpublished
<1>4. PeerTxInv'
  BY <1>1, <1>2, <1>3, Zenon DEF PeerTxInv
<1>5. pendPeers # None => pendPeers = DesiredPeers
  BY <1>1 DEF PeerTxInv, Unpublished
<1>6. PeerInv'
  BY <1>1, <1>2, <1>5 DEF PeerInv
<1> QED BY <1>4, <1>6 DEF Peers

LEMMA PeersAfter ==
    ASSUME PeerTxInv, PeerInv,
           \/ pc = "converge" /\ pc' \in {"readback", "finish"}
           \/ pc = "readback" /\ pc' = "finish",
           UNCHANGED <<addrOf, keyOf, tx, observed, activePeers, resync, pendPeers,
                       kpeers, peersTouched>>
    PROVE  Peers'
<1>1. DesiredPeers' = DesiredPeers
  BY DerivedKept
<1>2. Unpublished <=> Unpublished'
  BY DEF Unpublished
<1>3. PeerTxInv'
  BY <1>1, <1>2, Zenon DEF PeerTxInv
<1>4. PeerInv'
  BY <1>1 DEF PeerInv
<1> QED BY <1>3, <1>4 DEF Peers

LEMMA PeersFinish ==
    ASSUME ReconInv, PeerTxInv, PeerInv, Finish PROVE Peers'
<1>1. /\ pc = "finish" /\ pc' \in {"idle", "begin"}
      /\ activePeers' = DesiredPeers /\ ~resync'
      /\ UNCHANGED <<addrOf, keyOf, observed, pendPeers, kpeers, peersTouched>>
  BY Zenon DEF Finish, Finished, desiredVars, backendVars, kernelVars, histVars
<1>2. ~tx'.noop
  <2>1. tx' = NoTx \/ tx' = [NoTx EXCEPT !.forced = TRUE]
    BY Zenon DEF Finish, Finished
  <2> QED BY <2>1 DEF NoTx
<1>3. DesiredPeers' = DesiredPeers
  BY <1>1, DerivedKept
<1>4. Unpublished'
  BY <1>1 DEF Unpublished
<1>5. pendPeers # None => pendPeers = DesiredPeers
  BY <1>1 DEF PeerTxInv, Unpublished
<1>6. PeerTxInv'
  BY <1>1, <1>2, <1>3, <1>4, <1>5, Zenon DEF PeerTxInv
<1>7. PeerInv'
  BY <1>1, <1>3 DEF PeerInv
<1> QED BY <1>6, <1>7 DEF Peers

LEMMA PeersCrash ==
    ASSUME Crash PROVE Peers'
<1>1. pc' = "begin" /\ ~observed' /\ pendPeers' = None /\ ~published'
  BY DEF Crash, Start
<1>2. ~tx'.noop
  BY NotNoop, Zenon DEF Crash
<1> QED BY <1>1, <1>2 DEF Peers, PeerTxInv, PeerInv

LEMMA PeersStep ==
    ASSUME ReconInv, PeerTxInv, PeerInv, [Next]_vars PROVE Peers'
<1> DEFINE still == UNCHANGED <<observed, published, resync, activePeers, pendPeers, kpeers,
                               peersTouched>>
<1>1. ASSUME pc = "idle" \/ pc = "begin", Finished \/ Start(TRUE) \/ Start(FALSE), still
      PROVE  Peers'
  <2>1. pc' \in {"idle", "begin"} /\ ~tx'.noop
    BY <1>1, NotNoop, Zenon DEF Finished, Start
  <2> QED BY <1>1, <2>1, PeersAtRest
<1>2. CASE ReadFails
  BY <1>1, <1>2, Zenon DEF ReadFails, recVars, backendVars, kernelVars
<1>3. CASE BeginFails
  <2>1. /\ pc = "begin" /\ pc' = "idle" /\ (resync => resync')
        /\ UNCHANGED <<observed, published, activePeers, pendPeers, kpeers, peersTouched>>
    BY <1>3, Zenon DEF BeginFails, GiveUp, Fail, Finished, backendVars, kernelVars
  <2>2. ~tx'.noop
    BY <1>3, NotNoop, Zenon DEF BeginFails, GiveUp
  <2> QED BY <2>1, <2>2, PeersAtRest
<1>4. CASE Begin
  BY <1>4, PeersBegin
<1>5. CASE Prepare
  BY <1>5, PeersPrepare
<1>6. CASE PrepareFails
  <2>1. pc = "prepare" /\ GiveUp(resync) /\ UNCHANGED <<observed, activePeers>>
    BY <1>6 DEF PrepareFails
  <2>2. PICK held \in {kpeers, PreparedPeers} : RestorePeers(held)
    BY <1>6 DEF PrepareFails
  <2>3. tx.peersChanged \/ held = kpeers
    BY <2>2 DEF PreparedPeers
  <2>4. \/ peersTouched' # "no" \/ kpeers' = activePeers
        \/ peersTouched' = peersTouched /\ kpeers' = kpeers /\ ~tx.peersChanged
    BY <2>2, <2>3, RestoredPeers DEF ReconInv
  <2> QED BY <2>1, <2>4, PeersGiveUp
<1>7. CASE Flush
  BY <1>7, PeersFlush
<1>8. ASSUME NEW replaced \in BOOLEAN, FlushFails(replaced) PROVE Peers'
  <2>1. /\ pc = "flush" /\ GiveUp(resync) /\ UNCHANGED <<observed, activePeers>>
        /\ RestorePeers(kpeers)
    BY <1>8 DEF FlushFails
  <2>2. \/ peersTouched' # "no" \/ kpeers' = activePeers
        \/ peersTouched' = peersTouched /\ kpeers' = kpeers /\ ~tx.peersChanged
    BY <2>1, RestoredPeers DEF ReconInv
  <2> QED BY <2>1, <2>2, PeersGiveUp
<1>9. CASE RepairPeers
  BY <1>9, PeersRepair
<1>10. CASE Converge
  <2>1. /\ pc = "converge" /\ pc' \in {"readback", "finish"}
        /\ UNCHANGED <<addrOf, keyOf, tx, observed, activePeers, resync, pendPeers,
                       kpeers, peersTouched>>
    BY <1>10 DEF Converge, desiredVars, recVars
  <2> QED BY <2>1, PeersAfter
<1>11. CASE ReadBack
  <2>1. /\ pc = "readback" /\ pc' = "finish"
        /\ UNCHANGED <<addrOf, keyOf, tx, observed, activePeers, resync, pendPeers,
                       kpeers, peersTouched>>
    BY <1>11 DEF ReadBack, desiredVars, recVars, kernelVars
  <2> QED BY <2>1, PeersAfter
<1>12. CASE Finish
  BY <1>12, PeersFinish
<1>13. ASSUME NEW d \in ValidDecls, ChangeRules(d) PROVE Peers'
  BY <1>1, <1>13, Zenon DEF ChangeRules, recVars, backendVars, kernelVars, histVars
<1>14. ASSUME NEW g \in Agents, Register(g) PROVE Peers'
  BY <1>1, <1>14, Zenon DEF Register, ChangeAgents, recVars, backendVars, kernelVars, histVars
<1>15. ASSUME NEW g \in Agents, Revoke(g) PROVE Peers'
  BY <1>1, <1>15, Zenon DEF Revoke, ChangeAgents, backendVars, kernelVars, histVars
<1>16. ASSUME NEW g \in Agents, NEW k \in Keys, SetPublicKey(g, k) PROVE Peers'
  BY <1>1, <1>16, Zenon DEF SetPublicKey, ChangeAgents, recVars, backendVars, kernelVars, histVars
<1>17. CASE RetryOnce
  BY <1>1, <1>17, Zenon DEF RetryOnce, recVars, backendVars, kernelVars, histVars
<1>18. CASE ObserveOnce
  <2>1. /\ pc = "idle" /\ (resync => resync')
        /\ activePeers' = activePeers \/ (activePeers' = kpeers /\ resync')
        /\ Start(TRUE) \/ UNCHANGED <<pc, tx>>
        /\ UNCHANGED <<observed, published, pendPeers, kpeers, peersTouched>>
    BY <1>18, Zenon DEF ObserveOnce, backendVars, kernelVars, histVars
  <2>2. ~tx.noop
    BY <2>1 DEF ReconInv, TxInv
  <2>3. pc' \in {"idle", "begin"} /\ ~tx'.noop
    BY <2>1, <2>2, NotNoop, Zenon DEF Start
  <2> QED BY <2>1, <2>3, PeersAtRest
<1>19. CASE ObserveFails
  <2>1. /\ pc = "idle" /\ pc' = "idle" /\ resync' /\ ~tx'.noop
        /\ UNCHANGED <<observed, published, activePeers, pendPeers, kpeers, peersTouched>>
    BY <1>19, Zenon DEF ObserveFails, Fail, backendVars, kernelVars, ReconInv, TxInv
  <2> QED BY <2>1, PeersAtRest
<1>20. ASSUME NEW a \in Addrs, NEW k \in Keys \cup {None}, DriftPeers(a, k) PROVE Peers'
  BY <1>20, PeersFrame, Zenon DEF DriftPeers, desiredVars, recVars, backendVars
<1>21. CASE GateOpens \/ (\E f \in Flows : NewFlow(f)) \/ (\E t \in {None, NoPlan} : DriftTable(t))
           \/ (\E l \in Listens : PortChanges(l)) \/ UNCHANGED vars
  <2>1. UNCHANGED <<addrOf, keyOf, pc, tx, observed, published, activePeers, resync,
                    pendPeers, kpeers, peersTouched>>
    BY <1>21, Zenon DEF GateOpens, NewFlow, DriftTable, PortChanges, vars, desiredVars,
       recVars, backendVars, kernelVars, histVars
  <2> QED BY <2>1, PeersFrame
<1>22. CASE Crash
  BY <1>22, PeersCrash
<1> QED
  BY Zenon, <1>2, <1>3, <1>4, <1>5, <1>6, <1>7, <1>8, <1>9, <1>10, <1>11, <1>12, <1>13, <1>14,
     <1>15, <1>16, <1>17, <1>18, <1>19, <1>20, <1>21, <1>22, Zenon
  DEF Next, Transaction, Operator, World

(* A planned port is that of a declared rule whose agent has an address.   *)
LEMMA PlannedPort ==
    ASSUME TypeOK, NEW fs, NEW r \in Forwarded(Without(PlanOf(Input), fs))
    PROVE  LET port == Without(PlanOf(Input), fs)[r] IN
           /\ r \in Rules /\ decl[r] # None /\ decl[r].agent \in Agents
           /\ port.listen = decl[r].listen
           /\ port.addr = addrOf[decl[r].agent] /\ addrOf[decl[r].agent] # None
<1>1. r \in Rules /\ Without(PlanOf(Input), fs)[r] # None
  BY DEF Forwarded
<1>2. Input[r] # None /\ Input[r] # Excluded /\ Without(PlanOf(Input), fs)[r] = Input[r]
  BY <1>1 DEF Without, PlanOf
<1>3. /\ decl[r] # None /\ addrOf[decl[r].agent] # None
      /\ Input[r].listen = decl[r].listen /\ Input[r].addr = addrOf[decl[r].agent]
  BY <1>1, <1>2, Zenon DEF Input
<1>4. decl[r].agent \in Agents
  BY <1>1, <1>3, ReconcilerAssumption, Zenon DEF TypeOK, Decls, RuleRecord
<1> QED BY <1>1, <1>2, <1>3, <1>4

LEMMA PlannedListens ==
    ASSUME TypeOK, DistinctInv, NEW fs
    PROVE  DistinctListens(Without(PlanOf(Input), fs))
<1> DEFINE plan == Without(PlanOf(Input), fs)
<1> SUFFICES ASSUME NEW r \in Forwarded(plan), NEW s \in Forwarded(plan), r # s
             PROVE  plan[r].listen # plan[s].listen
  BY DEF DistinctListens
<1>1. /\ r \in Rules /\ decl[r] # None /\ plan[r].listen = decl[r].listen
      /\ s \in Rules /\ decl[s] # None /\ plan[s].listen = decl[s].listen
  BY PlannedPort
<1>2. decl[r].listen # decl[s].listen
  BY <1>1, Zenon DEF DistinctInv, ValidDecls
<1> QED BY <1>1, <1>2, Zenon

(* What a transaction that records itself leaves of the plan.              *)
LEMMA FinishFacts ==
    ASSUME ReconInv, Finish
    PROVE  /\ pc = "finish" /\ active' = tx.ports /\ activePeers' = DesiredPeers
           /\ tx.ports = Without(PlanOf(Input), tx.failed)
           /\ needsRetry' = (tx.failed # {} \/ RepairLeft)
           /\ tx.noop => tx.ports = active /\ UNCHANGED <<serving, delivered>>
           /\ (tx.noop /\ pc' = "idle") => delivered = Candidate
           /\ ~tx.noop => serving' = RelayListens(tx.ports) /\ delivered' = Candidate
           /\ UNCHANGED <<gen, decl, addrOf, keyOf, peersTouched>>
<1>1. /\ pc = "finish" /\ active' = tx.ports /\ activePeers' = DesiredPeers
      /\ needsRetry' = (tx.failed # {} \/ RepairLeft)
      /\ UNCHANGED <<gen, decl, addrOf, keyOf, peersTouched>>
      /\ ~tx.noop => serving' = RelayListens(tx.ports) /\ delivered' = Candidate
      /\ tx.noop => UNCHANGED <<serving, delivered>>
  BY Zenon DEF Finish, desiredVars, histVars
<1>2. (tx.noop /\ pc' = "idle") => delivered = Candidate
  BY DEF Finish
<1>3. /\ tx.ports = Without(PlanOf(Input), tx.failed)
      /\ tx.noop => tx.ports = active
  BY <1>1, Zenon DEF ReconInv, TxInv
<1> QED BY <1>1, <1>2, <1>3, Zenon

LEMMA CandidateType ==
    ASSUME TypeOK
    PROVE  /\ Candidate \in [Agents -> Entries \cup {None}]
           /\ \A g \in Agents : Candidate[g] # None <=> addrOf[g] # None
<1>1. \A g \in Agents : [key |-> keyOf[g], gen |-> gen] \in Entries
  BY DEF TypeOK, Entries
<1> QED BY <1>1, ReconcilerAssumption DEF Candidate

Relayed == DistinctInv /\ ServingInv

LEMMA RelayedFrame ==
    ASSUME DistinctInv, ServingInv, decl' \in ValidDecls,
           UNCHANGED <<active, addrOf, serving, delivered>>
    PROVE  Relayed'
<1>1. DistinctInv'
  BY DEF DistinctInv, DistinctListens, Forwarded
<1>2. ServingInv'
  BY DEF ServingInv, Forwarded
<1> QED BY <1>1, <1>2 DEF Relayed

LEMMA RelayedRegister ==
    ASSUME ReconInv, DistinctInv, ServingInv, NEW g \in Agents, Register(g)
    PROVE  Relayed'
<1>1. PICK a \in FreeAddrs : addrOf' = [addrOf EXCEPT ![g] = a]
  BY Zenon DEF Register
<1>2. addrOf[g] = None /\ UNCHANGED <<decl, active, serving, delivered>>
  BY Zenon DEF Register, ChangeAgents, recVars
<1>3. /\ addrOf' = [addrOf EXCEPT ![g] = a] /\ addrOf \in [Agents -> Addrs \cup {None}]
      /\ \A h \in Agents : addrOf[h] # a
  BY <1>1 DEF FreeAddrs, ReconInv, TypeOK
<1>4. DistinctInv'
  <2>1. \A h, k \in Agents : h # k => addrOf'[h] = None \/ addrOf'[h] # addrOf'[k]
    BY <1>3 DEF DistinctInv
  <2> QED BY <1>2, <2>1, Zenon DEF DistinctInv, DistinctListens, Forwarded
<1>5. \A h \in Agents : delivered[h] # None => h # g /\ addrOf'[h] = addrOf[h]
  BY <1>2, <1>3 DEF ServingInv
<1>6. ServingInv'
  BY <1>2, <1>5 DEF ServingInv, Forwarded
<1> QED BY <1>4, <1>6 DEF Relayed

(* Revoke: the ports the relay closes are those of the agent it removes.   *)
LEMMA RelayedRevoke ==
    ASSUME ReconInv, DistinctInv, ServingInv, NEW g \in Agents, Revoke(g)
    PROVE  Relayed'
<1> DEFINE closed == {active[r].listen :
                        r \in {q \in Forwarded(active) : active[q].addr = addrOf[g]}}
<1>1. /\ addrOf[g] # None /\ addrOf' = [addrOf EXCEPT ![g] = None]
      /\ delivered' = [delivered EXCEPT ![g] = None] /\ serving' = serving \ closed
      /\ UNCHANGED <<decl, active>>
  BY Zenon DEF Revoke, ChangeAgents
<1>2. addrOf \in [Agents -> Addrs \cup {None}] /\ delivered \in [Agents -> Entries \cup {None}]
  BY DEF ReconInv, TypeOK, ServingInv
<1>3. DistinctInv'
  <2>1. \A h, k \in Agents : h # k => addrOf'[h] = None \/ addrOf'[h] # addrOf'[k]
    BY <1>1, <1>2, Zenon DEF DistinctInv
  <2> QED BY <1>1, <2>1, Zenon DEF DistinctInv, DistinctListens, Forwarded
<1>4. \A h \in Agents : delivered'[h] # None =>
         h # g /\ delivered[h] # None /\ addrOf'[h] = addrOf[h]
  BY <1>1, <1>2, Zenon
<1>5. ASSUME NEW r \in Forwarded(active), NEW h \in Agents, active[r].relay,
             active[r].listen \notin serving', delivered'[h] # None
      PROVE  addrOf'[h] # active[r].addr
  <2>1. h # g /\ delivered[h] # None /\ addrOf'[h] = addrOf[h]
    BY <1>4, <1>5, Zenon
  <2>2. CASE active[r].listen \notin serving
    BY <1>5, <2>1, <2>2, Zenon DEF ServingInv
  <2>3. CASE active[r].listen \in closed
    <3>1. PICK q \in Forwarded(active) : active[q].addr = addrOf[g] /\ active[q].listen = active[r].listen
      BY <2>3, Zenon
    <3>2. q = r
      BY <3>1, Zenon DEF DistinctInv, DistinctListens
    <3> QED BY <1>1, <2>1, <3>1, <3>2 DEF DistinctInv
  <2> QED BY <1>1, <1>5, <2>2, <2>3, Zenon
<1>6. delivered' \in [Agents -> Entries \cup {None}]
  BY <1>1, <1>2
<1>7. Forwarded(active)' = Forwarded(active) /\ active' = active
  BY <1>1 DEF Forwarded
<1>8. ServingInv'
  BY <1>4, <1>5, <1>6, <1>7, Zenon DEF ServingInv
<1> QED BY <1>3, <1>8 DEF Relayed

LEMMA RelayedFinish ==
    ASSUME ReconInv, DistinctInv, ServingInv, Finish PROVE Relayed'
<1>1. TypeOK /\ UNCHANGED <<decl, addrOf>> /\ active' = tx.ports
  BY FinishFacts, Zenon DEF ReconInv
<1>2. DistinctListens(active)'
  <2>1. DistinctListens(tx.ports)
    BY <1>1, PlannedListens, FinishFacts
  <2> QED BY <1>1, <2>1 DEF DistinctListens, Forwarded
<1>3. DistinctInv'
  BY <1>1, <1>2 DEF DistinctInv
<1>4. CASE tx.noop
  <2>1. UNCHANGED <<active, serving, delivered>>
    BY <1>1, <1>4, FinishFacts, Zenon
  <2> QED BY <1>1, <2>1, RelayedFrame DEF DistinctInv
<1>5. CASE ~tx.noop
  <2>1. serving' = RelayListens(tx.ports) /\ delivered' = Candidate
    BY <1>5, FinishFacts, Zenon
  <2>2. \A r \in Forwarded(active') : active'[r].relay => active'[r].listen \in serving'
    BY <1>1, <2>1 DEF RelayListens, Forwarded
  <2>3. /\ delivered' \in [Agents -> Entries \cup {None}]
        /\ \A g \in Agents : delivered'[g] # None => addrOf'[g] # None
    BY <1>1, <2>1, CandidateType
  <2>4. ServingInv'
    BY <2>2, <2>3 DEF ServingInv
  <2> QED BY <1>3, <2>4 DEF Relayed
<1> QED BY <1>4, <1>5

LEMMA RelayedCrash ==
    ASSUME DistinctInv, Crash PROVE Relayed'
<1>1. /\ active' = NoPlan /\ delivered' = [g \in Agents |-> None]
      /\ UNCHANGED <<decl, addrOf>>
  BY DEF Crash, desiredVars
<1>2. Forwarded(active)' = {}
  BY <1>1 DEF Forwarded, NoPlan
<1>3. DistinctInv'
  BY <1>1, <1>2 DEF DistinctInv, DistinctListens
<1>4. ServingInv'
  BY <1>1, <1>2 DEF ServingInv
<1> QED BY <1>3, <1>4 DEF Relayed

LEMMA RelayedStep ==
    ASSUME ReconInv, DistinctInv, ServingInv, [Next]_vars PROVE Relayed'
<1> decl \in ValidDecls
  BY DEF DistinctInv
<1>1. ASSUME UNCHANGED <<decl, addrOf, active, serving, delivered>> PROVE Relayed'
  BY <1>1, RelayedFrame
<1>2. CASE ReadFails \/ BeginFails \/ Begin
  <2>1. UNCHANGED <<decl, addrOf, active, serving, delivered>>
    BY <1>2, Zenon DEF ReadFails, BeginFails, Begin, GiveUp, Fail, desiredVars, recVars, daemonVars
  <2> QED BY <1>1, <2>1
<1>3. CASE Prepare \/ PrepareFails \/ Flush
  <2>1. UNCHANGED <<decl, addrOf, active, serving, delivered>>
    BY <1>3, Zenon DEF Prepare, PrepareFails, Flush, GiveUp, Fail, desiredVars, recVars, daemonVars
  <2> QED BY <1>1, <2>1
<1>4. CASE (\E replaced \in BOOLEAN : FlushFails(replaced)) \/ RepairPeers \/ Converge \/ ReadBack
  <2>1. UNCHANGED <<decl, addrOf, active, serving, delivered>>
    BY <1>4, Zenon DEF FlushFails, RepairPeers, Converge, ReadBack, GiveUp, Fail, desiredVars,
       recVars, daemonVars
  <2> QED BY <1>1, <2>1
<1>5. CASE Finish
  BY <1>5, RelayedFinish
<1>6. ASSUME NEW d \in ValidDecls, ChangeRules(d) PROVE Relayed'
  <2>1. decl' = d /\ UNCHANGED <<addrOf, active, serving, delivered>>
    BY <1>6, Zenon DEF ChangeRules, recVars, daemonVars
  <2> QED BY <2>1, RelayedFrame
<1>7. ASSUME NEW g \in Agents, Register(g) PROVE Relayed'
  BY <1>7, RelayedRegister
<1>8. ASSUME NEW g \in Agents, Revoke(g) PROVE Relayed'
  BY <1>8, RelayedRevoke
<1>9. ASSUME NEW g \in Agents, NEW k \in Keys, SetPublicKey(g, k) PROVE Relayed'
  <2>1. UNCHANGED <<decl, addrOf, active, serving, delivered>>
    BY <1>9, Zenon DEF SetPublicKey, ChangeAgents, recVars
  <2> QED BY <1>1, <2>1
<1>10. CASE RetryOnce \/ ObserveOnce \/ ObserveFails \/ GateOpens
  <2>1. UNCHANGED <<decl, addrOf, active, serving, delivered>>
    BY <1>10, Zenon DEF RetryOnce, ObserveOnce, ObserveFails, GateOpens, Fail, desiredVars,
       recVars, daemonVars
  <2> QED BY <1>1, <2>1
<1>11. CASE (\E f \in Flows : NewFlow(f)) \/ (\E t \in {None, NoPlan} : DriftTable(t))
            \/ (\E a \in Addrs, k \in Keys \cup {None} : DriftPeers(a, k))
            \/ (\E l \in Listens : PortChanges(l)) \/ UNCHANGED vars
  <2>1. UNCHANGED <<decl, addrOf, active, serving, delivered>>
    BY <1>11, Zenon DEF NewFlow, DriftTable, DriftPeers, PortChanges, vars, desiredVars, recVars,
       daemonVars
  <2> QED BY <1>1, <2>1
<1>12. CASE Crash
  BY <1>12, RelayedCrash
<1> QED
  BY <1>2, <1>3, <1>4, <1>5, <1>6, <1>7, <1>8, <1>9, <1>10, <1>11, <1>12, Zenon
  DEF Next, Transaction, Operator, World

(* With nothing left to retry, the retry that publishes nothing has told   *)
(* apart a relay that still serves its ports from one that does not.       *)
LEMMA SettledFinish ==
    ASSUME ReconInv, DistinctInv, ServingInv, Finish PROVE SettledInv'
<1> SUFFICES ASSUME pc' = "idle", ~needsRetry'
             PROVE  /\ active' = PlanOf(Input)' /\ RelayListens(active)' \subseteq serving'
                    /\ activePeers' = DesiredPeers'
  BY DEF SettledInv
<1>1. /\ TypeOK /\ active' = tx.ports /\ activePeers' = DesiredPeers
      /\ tx.ports = Without(PlanOf(Input), tx.failed) /\ tx.failed = {}
      /\ UNCHANGED <<decl, addrOf, keyOf>>
  BY FinishFacts, Zenon DEF ReconInv
<1>2. PlanOf(Input)' = PlanOf(Input) /\ DesiredPeers' = DesiredPeers
  BY <1>1, DerivedKept
<1>3. tx.ports = PlanOf(Input)
  BY <1>1 DEF Without, PlanOf
<1>4. RelayListens(active)' = RelayListens(tx.ports)
  BY <1>1 DEF RelayListens, Forwarded
<1>5. CASE tx.noop
  <2>1. delivered = Candidate /\ active = tx.ports /\ serving' = serving
    BY <1>5, FinishFacts, Zenon
  <2>2. ASSUME NEW r \in Forwarded(tx.ports), tx.ports[r].relay
        PROVE  tx.ports[r].listen \in serving
    <3> DEFINE g == decl[r].agent
    <3>1. g \in Agents /\ tx.ports[r].addr = addrOf[g] /\ addrOf[g] # None
      BY <1>1, PlannedPort
    <3>2. delivered[g] # None
      BY <1>1, <2>1, <3>1, CandidateType, Zenon
    <3> QED BY <2>1, <2>2, <3>1, <3>2 DEF ServingInv
  <2>3. RelayListens(tx.ports) \subseteq serving
    BY <2>2 DEF RelayListens
  <2> QED BY <1>1, <1>2, <1>3, <1>4, <2>1, <2>3
<1>6. CASE ~tx.noop
  <2>1. serving' = RelayListens(tx.ports)
    BY <1>6, FinishFacts, Zenon
  <2> QED BY <1>1, <1>2, <1>3, <1>4, <2>1
<1> QED BY <1>5, <1>6

LEMMA SettledFrame ==
    ASSUME SettledInv,
           UNCHANGED <<decl, addrOf, keyOf, pc, published, needsRetry, active, serving, pending>>,
           UNCHANGED <<activePeers, peersTouched>> \/ peersTouched' # "no"
    PROVE  SettledInv'
<1>1. PlanOf(Input)' = PlanOf(Input) /\ DesiredPeers' = DesiredPeers
  BY DerivedKept
<1>2. RelayListens(active)' = RelayListens(active)
  BY DEF RelayListens, Forwarded
<1> QED BY <1>1, <1>2 DEF SettledInv

(* ObserveOnce at rest: with no removal of peers left to do, what it finds *)
(* on the device is what is recorded.                                      *)
LEMMA SettledObserve ==
    ASSUME ReconInv, PeerTxInv, PeerInv, SettledInv, ObserveOnce PROVE SettledInv'
<1>1. /\ pc = "idle" /\ published
      /\ activePeers' \in {activePeers, kpeers}
      /\ pc' = "begin" \/ UNCHANGED pc
      /\ UNCHANGED <<decl, addrOf, keyOf, published, needsRetry, active, serving, pending,
                     peersTouched>>
  BY Zenon DEF ObserveOnce, Start, desiredVars, daemonVars, histVars
<1>2. PlanOf(Input)' = PlanOf(Input) /\ DesiredPeers' = DesiredPeers
  BY <1>1, DerivedKept
<1>3. RelayListens(active)' = RelayListens(active)
  BY <1>1 DEF RelayListens, Forwarded
<1>4. ~needsRetry => pendPeers = None
  BY <1>1 DEF ReconInv, RepairInv, RepairPending, Unpublished
<1>5. (~needsRetry /\ observed /\ peersTouched = "no") => activePeers' = activePeers
  BY <1>1, <1>4 DEF PeerInv
<1>6. observed
  BY <1>1 DEF PeerTxInv
<1> QED BY <1>1, <1>2, <1>3, <1>5, <1>6 DEF SettledInv

LEMMA SettledStep ==
    ASSUME ReconInv, DeviceInv, [Next]_vars PROVE SettledInv'
<1> DistinctInv /\ ServingInv /\ PeerTxInv /\ PeerInv /\ SettledInv
  BY DEF DeviceInv
<1>1. ASSUME pc' # "idle" \/ needsRetry' \/ pending' PROVE SettledInv'
  BY <1>1 DEF SettledInv
<1>2. CASE ReadFails \/ BeginFails \/ PrepareFails \/ (\E replaced \in BOOLEAN : FlushFails(replaced))
  <2>1. pending'
    BY <1>2, Zenon DEF ReadFails, BeginFails, PrepareFails, FlushFails, GiveUp
  <2> QED BY <1>1, <2>1
<1>3. CASE Begin \/ Prepare \/ Flush \/ RepairPeers \/ Converge \/ ReadBack
  <2>1. pc' # "idle"
    BY <1>3 DEF Begin, Prepare, Flush, RepairPeers, Converge, ReadBack
  <2> QED BY <1>1, <2>1
<1>4. CASE Finish
  BY <1>4, SettledFinish
<1>5. CASE Operator \/ RetryOnce \/ Crash
  <2>1. Start(TRUE) \/ Start(FALSE)
    BY <1>5, Zenon DEF Operator, RetryOnce, Crash, ChangeRules, Register, Revoke, SetPublicKey,
       ChangeAgents
  <2>2. pc' # "idle"
    BY <2>1 DEF Start
  <2> QED BY <1>1, <2>2
<1>6. CASE ObserveOnce
  BY <1>6, SettledObserve
<1>7. CASE ObserveFails
  <2>1. needsRetry'
    BY <1>7 DEF ObserveFails, Fail
  <2> QED BY <1>1, <2>1
<1>8. CASE \E a \in Addrs, k \in Keys \cup {None} : DriftPeers(a, k)
  <2>1. /\ UNCHANGED <<decl, addrOf, keyOf, pc, published, needsRetry, active, serving, pending>>
        /\ peersTouched' # "no"
    BY <1>8, Zenon DEF DriftPeers, desiredVars, recVars, daemonVars
  <2> QED BY <2>1, SettledFrame
<1>9. CASE GateOpens \/ (\E f \in Flows : NewFlow(f)) \/ (\E t \in {None, NoPlan} : DriftTable(t))
           \/ (\E l \in Listens : PortChanges(l)) \/ UNCHANGED vars
  <2>1. UNCHANGED <<decl, addrOf, keyOf, pc, published, needsRetry, active, serving, pending,
                    activePeers, peersTouched>>
    BY <1>9, Zenon DEF GateOpens, NewFlow, DriftTable, PortChanges, vars, desiredVars, recVars,
       daemonVars, histVars
  <2> QED BY <2>1, SettledFrame
<1> QED
  BY <1>2, <1>3, <1>4, <1>5, <1>6, <1>7, <1>8, <1>9, Zenon DEF Next, Transaction, World

LEMMA DeviceInit ==
    ASSUME Init PROVE DeviceInv
<1>1. Forwarded(active) = {}
  BY DEF Init, Forwarded, NoPlan
<1>2. DistinctInv
  BY <1>1 DEF Init, DistinctInv, DistinctListens
<1>3. ServingInv
  BY <1>1 DEF Init, ServingInv
<1>4. pc = "begin" /\ ~observed /\ pendPeers = None /\ ~published /\ ~tx.noop
  BY Zenon DEF Init, NoTx
<1>5. PeerTxInv /\ PeerInv /\ SettledInv
  BY <1>4 DEF PeerTxInv, PeerInv, SettledInv
<1> QED BY <1>2, <1>3, <1>5 DEF DeviceInv

(* At every step of a transaction, and between two of them, the device,    *)
(* the relay and the delivery snapshot hold what the publication in force  *)
(* needs of them (Prepare, Commit, runRepairs, CloseAgent and apply).      *)
THEOREM DeviceInvHolds == Spec => []DeviceInv
<1>1. Init => DeviceInv
  BY DeviceInit
<1>2. ReconInv /\ DeviceInv /\ [Next]_vars => DeviceInv'
  <2> SUFFICES ASSUME ReconInv, DeviceInv, [Next]_vars PROVE DeviceInv'
    OBVIOUS
  <2>1. Relayed' /\ Peers'
    BY RelayedStep, PeersStep DEF DeviceInv
  <2> QED BY <2>1, SettledStep DEF DeviceInv, Relayed, Peers
<1> QED BY <1>1, <1>2, ReconInvHolds, PTL DEF Spec

(* Nothing to retry and nothing pending means that the kernel and the      *)
(* relay have what the database says (NeedsRetry, samePublication and the  *)
(* forced commit of apply).                                                *)
THEOREM SettledIsDesiredHolds == Spec => []SettledIsDesired
<1>1. ReconInv /\ DeviceInv => SettledIsDesired
  <2> SUFFICES ASSUME ReconInv, DeviceInv, pc = "idle", published, ~needsRetry, ~pending,
                      touched = "no", peersTouched = "no"
               PROVE  /\ table = PlanOf(Input) /\ kpeers = DesiredPeers
                      /\ RelayListens(table) \subseteq serving
    BY DEF SettledIsDesired
  <2>1. table = active /\ pendPeers = None
    BY DEF ReconInv, RecordInv, RepairInv, RepairPending, Unpublished
  <2>2. observed /\ kpeers = activePeers
    BY <2>1 DEF DeviceInv, PeerTxInv, PeerInv
  <2> QED BY <2>1, <2>2 DEF DeviceInv, SettledInv
<1> QED BY <1>1, ReconInvHolds, DeviceInvHolds, PTL

(* A dispatch never loses its peer before it is withdrawn (Prepare's       *)
(* PeerUnion, the order of Commit, and restorePeers after a failure).      *)
THEOREM DispatchKeepsPeerHolds == Spec => []DispatchKeepsPeer
<1>1. ReconInv /\ DeviceInv => DispatchKeepsPeer
  <2> SUFFICES ASSUME ReconInv, DeviceInv, observed, peersTouched = "no", table # None,
                      NEW r \in Forwarded(table)
               PROVE  LET a == table[r].addr IN
                      \/ PeersOfTable[a] = None
                      \/ kpeers[a] # None
                      \/ \E b \in Addrs \ {a} : DesiredPeers[b] = PeersOfTable[a]
    BY DEF DispatchKeepsPeer
  <2>1. table[r].addr \in Addrs
    BY Zenon DEF ReconInv, TypeOK, Forwarded, Plans, Port
  <2>2. pc \in {"idle", "begin", "prepare", "flush", "peers", "converge", "readback", "finish"}
    BY DEF ReconInv, TypeOK
  <2> QED BY <2>1, <2>2 DEF DeviceInv, PeerInv, PeersOfTable
<1> QED BY <1>1, ReconInvHolds, DeviceInvHolds, PTL

=============================================================================
