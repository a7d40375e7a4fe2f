--------------------------- MODULE EnrolmentProofs ---------------------------
(***************************************************************************)
(* The store's join strings and agents, and what a host does with its      *)
(* credentials: for any number of hosts, names, addresses, join strings,   *)
(* rebuilt servers and faults.  First, two tables the server keeps by      *)
(* agent name: the per-agent locks of LockTable implement Mutex although   *)
(* the entry behind a name is dropped and made again, and GenLag's lag is  *)
(* exact, with a stable start and no record left by a revoked agent.       *)
(***************************************************************************)
EXTENDS Enrolment, LockTable, GenLag, FiniteSetTheorems, WellFoundedInduction, TLAPS

-----------------------------------------------------------------------------
(* The per-agent locks                                                     *)

Inv == TableTypeOK /\ TableInv

Step(u) == Pin(u) \/ LockEntry(u) \/ UnlockEntry(u) \/ Unpin(u)

LEMMA UsersFinite == IsFiniteSet(Users)
  BY LockTableAssumption, FS_Union, Zenon DEF Users

LEMMA PinnedFinite ==
  ASSUME NEW e
  PROVE  IsFiniteSet(Pinned(e)) /\ Cardinality(Pinned(e)) \in Nat
  <1>1. Pinned(e) \in SUBSET Users
    BY DEF Pinned
  <1> QED
    BY <1>1, UsersFinite, FS_Subset, FS_CardinalityType

LEMMA InitInv == TableInit => Inv
  BY LockTableAssumption DEF TableInit, Inv, TableTypeOK, TableInv

(* A new user joins the entry in the table, or makes one. *)
LEMMA PinInv ==
  ASSUME Inv, NEW u \in Users, Pin(u)
  PROVE  Inv'
  <1> USE LockTableAssumption DEF Inv, TableTypeOK, TableInv
  <1>1. CASE table # NoEntry /\ PinEntry(u, table)
    <2>1. Pinned(table)' = Pinned(table) \cup {u} /\ u \notin Pinned(table)
      BY <1>1 DEF Pin, PinEntry, Pinned
    <2>2. Cardinality(Pinned(table)') = Cardinality(Pinned(table)) + 1
      BY <2>1, PinnedFinite, FS_AddElement, Zenon
    <2>3. refs' = [refs EXCEPT ![table] = @ + 1] /\ table' = table
      BY <1>1 DEF PinEntry
    <2>4. TableTypeOK'
      BY <1>1, <2>3 DEF Pin, PinEntry
    <2>5. table' # NoEntry => refs'[table'] = Cardinality(Pinned(table)') /\ refs'[table'] > 0
      BY <1>1, <2>2, <2>3, PinnedFinite
    <2>6. /\ \A v \in Users : at'[v] = "idle" <=> entry'[v] = NoEntry
          /\ \A v \in Users : entry'[v] # NoEntry => entry'[v] = table'
          /\ \A v, w \in Users : at'[v] = "held" /\ at'[w] = "held" /\ SameMutex(v, w) => v = w
      BY <1>1 DEF Pin, PinEntry
    <2> QED
      BY <2>4, <2>5, <2>6
  <1>2. CASE table = NoEntry
    <2>1. PICK e \in Entries : Unreferenced(e) /\ PinEntry(u, e)
      BY <1>2 DEF Pin
    <2>2. \A v \in Users : entry[v] = NoEntry
      BY <1>2
    <2>3. Pinned(e)' = {u}
      BY <2>1, <2>2 DEF PinEntry, Pinned
    <2>4. Cardinality(Pinned(e)') = 1
      BY <2>3, FS_Singleton, Zenon
    <2>5. refs'[e] = 1 /\ table' = e
      BY <1>2, <2>1 DEF PinEntry
    <2>6. TableTypeOK'
      BY <1>2, <2>1 DEF Pin, PinEntry
    <2>7. /\ \A v \in Users : at'[v] = "idle" <=> entry'[v] = NoEntry
          /\ \A v \in Users : entry'[v] # NoEntry => entry'[v] = table'
          /\ \A v, w \in Users : at'[v] = "held" /\ at'[w] = "held" /\ SameMutex(v, w) => v = w
      BY <2>1, <2>2 DEF Pin, PinEntry
    <2> QED
      BY <2>4, <2>5, <2>6, <2>7
  <1> QED
    BY <1>1, <1>2 DEF Pin

(* The last user drops the entry; any other leaves it and its count. *)
LEMMA UnpinInv ==
  ASSUME Inv, NEW u \in Users, Unpin(u)
  PROVE  Inv'
  <1> USE LockTableAssumption DEF Inv, TableTypeOK, TableInv
  <1>1. at[u] = "unlocked" /\ entry[u] = table /\ table \in Entries
    BY DEF Unpin, Unref
  <1>2. u \in Pinned(table)
    BY <1>1 DEF Pinned
  <1>3. refs' = [refs EXCEPT ![table] = @ - 1] /\ refs[table] \in Nat /\ refs[table] > 0
    BY <1>1 DEF Unpin, Unref
  <1>4. TableTypeOK'
    BY <1>1, <1>3 DEF Unpin, Unref
  <1>5. /\ \A v \in Users : at'[v] = "idle" <=> entry'[v] = NoEntry
        /\ \A v, w \in Users : at'[v] = "held" /\ at'[w] = "held" /\ SameMutex(v, w) => v = w
    BY DEF Unpin, Unref
  <1>6. CASE refs[table] = 1
    <2>1. Pinned(table) = {u}
      BY <1>1, <1>2, <1>6, PinnedFinite, FS_Singleton
    <2>2. \A v \in Users : entry'[v] = NoEntry
      BY <1>1, <2>1 DEF Unpin, Unref, Pinned
    <2>3. table' = NoEntry
      BY <1>1, <1>6 DEF Unpin, Unref
    <2> QED
      BY <1>4, <1>5, <2>2, <2>3
  <1>7. CASE refs[table] # 1
    <2>1. table' = table
      BY <1>1, <1>7 DEF Unpin, Unref
    <2>2. Pinned(table)' = Pinned(table) \ {u}
      BY <1>1, <2>1, <1>7 DEF Unpin, Unref, Pinned
    <2>3. Cardinality(Pinned(table)') = Cardinality(Pinned(table)) - 1
      BY <1>2, <2>2, PinnedFinite, FS_RemoveElement, Zenon
    <2>4. refs'[table'] = Cardinality(Pinned(table)') /\ refs'[table'] > 0
      BY <1>1, <1>3, <1>7, <2>1, <2>3, PinnedFinite
    <2>5. \A v \in Users : entry'[v] # NoEntry => entry'[v] = table'
      BY <1>1, <2>1 DEF Unpin, Unref
    <2> QED
      BY <1>4, <1>5, <2>4, <2>5
  <1> QED
    BY <1>6, <1>7

(* Locking and unlocking leave the table alone.  That a mutex of an entry  *)
(* has one holder is a mutex of the name, because all users are on the     *)
(* same entry.                                                             *)
LEMMA LockInvStep ==
  ASSUME Inv, NEW u \in Users, LockEntry(u) \/ UnlockEntry(u)
  PROVE  Inv'
  <1> USE LockTableAssumption DEF Inv, TableTypeOK, TableInv
  <1>1. TableTypeOK'
    BY DEF LockEntry, UnlockEntry
  <1>2. /\ \A v \in Users : at'[v] = "idle" <=> entry'[v] = NoEntry
        /\ \A v \in Users : entry'[v] # NoEntry => entry'[v] = table'
    BY DEF LockEntry, UnlockEntry
  <1>3. \A v, w \in Users : at'[v] = "held" /\ at'[w] = "held" /\ SameMutex(v, w) => v = w
    BY DEF LockEntry, UnlockEntry, SameMutex
  <1>4. Pinned(table)' = Pinned(table) /\ table' = table /\ refs' = refs
    BY DEF LockEntry, UnlockEntry, Pinned
  <1> QED
    BY <1>1, <1>2, <1>3, <1>4

LEMMA InvNext == Inv /\ [TableNext]_tableVars => Inv'
  <1> SUFFICES ASSUME Inv, [TableNext]_tableVars
               PROVE  Inv'
    OBVIOUS
  <1>1. CASE TableNext
    BY <1>1, PinInv, UnpinInv, LockInvStep DEF TableNext
  <1>2. CASE UNCHANGED tableVars
    <2>1. Pinned(table)' = Pinned(table)
      BY <1>2 DEF tableVars, Pinned
    <2> QED
      BY <1>2, <2>1 DEF tableVars, Inv, TableTypeOK, TableInv
  <1> QED
    BY <1>1, <1>2

AgentOwners == {u \in Procs : at[u] = "held"}
HookOwners == {u \in Hooks : at[u] = "held"}

(* LockEntry makes an owner when there is none, UnlockEntry removes the    *)
(* only one, and the two mutexes of an entry do not touch each other.      *)
LEMMA StepMapsToMutexes ==
  ASSUME Inv, NEW u \in Users, Step(u)
  PROVE  [AgentMutex!MutexNext]_AgentOwners /\ [HookMutex!MutexNext]_HookOwners
  <1> USE LockTableAssumption DEF Inv, TableTypeOK, TableInv, Users, SameMutex
  <1>1. CASE Pin(u) \/ Unpin(u)
    <2>1. AgentOwners' = AgentOwners /\ HookOwners' = HookOwners
      BY <1>1 DEF Pin, PinEntry, Unpin, Unref, AgentOwners, HookOwners
    <2> QED
      BY <2>1
  <1>2. CASE LockEntry(u)
    <2>1. \A v \in Users : SameMutex(u, v) => at[v] # "held"
      BY <1>2 DEF LockEntry
    <2>2. CASE u \in Procs
      <3>1. AgentOwners = {} /\ AgentOwners' = {u} /\ HookOwners' = HookOwners
        BY <1>2, <2>1, <2>2 DEF LockEntry, AgentOwners, HookOwners
      <3> QED
        BY <2>2, <3>1 DEF AgentMutex!MutexNext, AgentMutex!MutexAcquire, AgentOwners
    <2>3. CASE u \in Hooks
      <3>1. HookOwners = {} /\ HookOwners' = {u} /\ AgentOwners' = AgentOwners
        BY <1>2, <2>1, <2>3 DEF LockEntry, AgentOwners, HookOwners
      <3> QED
        BY <2>3, <3>1 DEF HookMutex!MutexNext, HookMutex!MutexAcquire, HookOwners
    <2> QED
      BY <2>2, <2>3
  <1>3. CASE UnlockEntry(u)
    <2>1. \A v \in Users : SameMutex(u, v) /\ at[v] = "held" => v = u
      BY <1>3 DEF UnlockEntry
    <2>2. CASE u \in Procs
      <3>1. AgentOwners = {u} /\ AgentOwners' = {} /\ HookOwners' = HookOwners
        BY <1>3, <2>1, <2>2 DEF UnlockEntry, AgentOwners, HookOwners
      <3> QED
        BY <2>2, <3>1 DEF AgentMutex!MutexNext, AgentMutex!MutexRelease, AgentOwners
    <2>3. CASE u \in Hooks
      <3>1. HookOwners = {u} /\ HookOwners' = {} /\ AgentOwners' = AgentOwners
        BY <1>3, <2>1, <2>3 DEF UnlockEntry, AgentOwners, HookOwners
      <3> QED
        BY <2>3, <3>1 DEF HookMutex!MutexNext, HookMutex!MutexRelease, HookOwners
    <2> QED
      BY <2>2, <2>3
  <1> QED
    BY <1>1, <1>2, <1>3 DEF Step

(* agentLock and hookLock of a name are mutexes, each on its own, although *)
(* lockOf makes the entry on demand and unlock drops it with its last user *)
(* (hub.go: lockOf, unlock).                                               *)
THEOREM LockTableImplementsMutex == TableSpec => LockTableIsMutex
  <1>1. TableInit => AgentMutex!MutexInit /\ HookMutex!MutexInit
    BY LockTableAssumption DEF TableInit, AgentMutex!MutexInit, HookMutex!MutexInit, Users
  <1>2. Inv /\ [TableNext]_tableVars =>
          [AgentMutex!MutexNext]_AgentOwners /\ [HookMutex!MutexNext]_HookOwners
    <2> SUFFICES ASSUME Inv, [TableNext]_tableVars
                 PROVE  [AgentMutex!MutexNext]_AgentOwners /\ [HookMutex!MutexNext]_HookOwners
      OBVIOUS
    <2>1. CASE TableNext
      <3>1. PICK u \in Users : Step(u)
        BY <2>1 DEF TableNext, Step
      <3> QED
        BY <3>1, StepMapsToMutexes
    <2>2. CASE UNCHANGED tableVars
      BY <2>2 DEF tableVars, AgentOwners, HookOwners
    <2> QED
      BY <2>1, <2>2
  <1> QED
    BY <1>1, <1>2, InitInv, InvNext, PTL
    DEF TableSpec, LockTableIsMutex, AgentMutex!MutexSpec, HookMutex!MutexSpec, AgentOwners,
        HookOwners

(* An entry is in the table exactly while it has users, and its count is   *)
(* their number: an agent nobody talks about costs no memory.              *)
THEOREM TableInvariant == TableSpec => []TableInv
  BY InitInv, InvNext, PTL DEF TableSpec, Inv

-----------------------------------------------------------------------------
(* The lag                                                                 *)

(* Noting a generation above the known one keeps every record exact.       *)
LEMMA ServerAtKeepsRecords ==
    ASSUME NEW gen \in Gens, NEW now \in Times, now # Zero,
           LagInv, gen <= dbGen, ServerAt(gen, now)
    PROVE  /\ server' \in Gens /\ lags' \in [Agents -> Lags]
           /\ server' <= dbGen /\ gen <= server' /\ server <= server'
           /\ \A a \in Agents :
                 /\ lags[a].known => (lags'[a].since # Zero <=> lags'[a].gen < server')
                 /\ ~lags[a].known => lags'[a].since = Zero
                 /\ lags'[a].known = lags[a].known
                 /\ lags[a].since # Zero => lags'[a].since = lags[a].since
<1>1. CASE gen <= server
  BY <1>1 DEF ServerAt, LagInv, TypeOK, Gens, Times, Lags
<1>2. CASE ~(gen <= server)
  BY <1>2 DEF ServerAt, Noted, LagInv, TypeOK, Gens, Times, Lags, Zero
<1> QED BY <1>1, <1>2

(* Every reachable state satisfies the inductive invariant.                *)
THEOREM LagInvHolds == Spec => []LagInv
<1>1. Init => LagInv
  BY GenLagAssumption DEF Init, LagInv, TypeOK, Gens, Times, Zero, NoLag, Lags,
     Idle, AdminStates, BeatStates
<1>2. LagInv /\ [Next]_vars => LagInv'
  <2> SUFFICES ASSUME LagInv, [Next]_vars PROVE LagInv'
    OBVIOUS
  <2> USE GenLagAssumption DEF LagInv, TypeOK, Gens, Times, Zero, Idle,
          AdminStates, BeatStates
  <2>1. CASE Tick
    BY <2>1 DEF Tick
  <2>2. CASE SaveGeneration
    BY <2>2 DEF SaveGeneration
  <2>3. CASE NoteGeneration
    BY <2>3, ServerAtKeepsRecords DEF NoteGeneration
  <2>4. CASE RevokeForget
    BY <2>4 DEF RevokeForget, NoLag, Lags
  <2>5. ASSUME NEW a \in Agents, Connect(a) \/ Drop(a)
        PROVE  LagInv'
    BY <2>5 DEF Connect, Drop
  <2>6. ASSUME NEW a \in Agents, BeatNote(a)
        PROVE  LagInv'
    <3>1. /\ beat[a] \in [step : {"read", "noted"}, gen : Gens, db : Gens, now : Times]
          /\ beat[a].db <= dbGen /\ beat[a].now # Zero /\ a \in connected
      BY <2>6 DEF BeatNote
    <3>2. /\ server' \in Gens /\ lags' \in [Agents -> Lags]
          /\ server' <= dbGen /\ server <= server'
          /\ \A b \in Agents :
                /\ lags'[b].known => (lags'[b].since # Zero <=> lags'[b].gen < server')
                /\ ~lags'[b].known => lags'[b].since = Zero
      BY <2>6, <3>1, ServerAtKeepsRecords DEF BeatNote
    <3>3. /\ beat' \in [Agents -> BeatStates]
          /\ \A b \in Agents : beat'[b].step # "idle" =>
                (b \in connected /\ beat'[b].db <= dbGen /\ beat'[b].now # Zero)
      BY <2>6, <3>1 DEF BeatNote
    <3>4. UNCHANGED <<clock, dbGen, admin, connected>> /\ server \in Gens
      BY <2>6 DEF BeatNote
    <3>5. admin.step # "saved" => server' = dbGen
      BY <3>2, <3>4
    <3>6. TypeOK'
      BY <3>2, <3>3, <3>4
    <3> HIDE DEF TypeOK, AdminStates, BeatStates
    <3> QED BY <3>2, <3>3, <3>4, <3>5, <3>6
  <2>7. ASSUME NEW a \in Agents, BeatReport(a)
        PROVE  LagInv'
    BY <2>7 DEF BeatReport, Reported, Lags
  <2>8. ASSUME NEW a \in Agents, RevokeDisconnect(a)
        PROVE  LagInv'
    BY <2>8 DEF RevokeDisconnect
  <2>9. ASSUME NEW a \in Agents, NEW gen \in Gens,
               BeatRead(a, gen) \/ BeatReadFails(a, gen)
        PROVE  LagInv'
    BY <2>9 DEF BeatRead, BeatReadFails
  <2>10. CASE UNCHANGED vars
    BY <2>10 DEF vars
  <2> QED
    BY <2>1, <2>2, <2>3, <2>4, <2>5, <2>6, <2>7, <2>8, <2>9, <2>10, Zenon DEF Next
<1> QED BY <1>1, <1>2, PTL DEF Spec

(* generation_behind_since is exact whenever no change awaits its note.    *)
THEOREM BehindIsExactHolds == Spec => []BehindIsExact
<1>1. LagInv => BehindIsExact
  BY DEF LagInv, BehindIsExact
<1> QED BY <1>1, LagInvHolds, PTL

(* The start of a lag never moves while the lag lasts.                     *)
THEOREM LagStartStableHolds == Spec => LagStartStable
<1>1. LagInv /\ [Next]_vars =>
        [\A a \in Agents : (lags[a].since # Zero /\ lags'[a].since # Zero)
            => lags'[a].since = lags[a].since]_vars
  <2> SUFFICES ASSUME LagInv, Next, NEW a \in Agents,
                      lags[a].since # Zero, lags'[a].since # Zero
               PROVE  lags'[a].since = lags[a].since
    OBVIOUS
  <2> USE GenLagAssumption DEF LagInv, TypeOK, Gens, Times, Zero, Idle,
          AdminStates, BeatStates
  <2>1. CASE NoteGeneration
    BY <2>1, ServerAtKeepsRecords DEF NoteGeneration
  <2>2. CASE \E b \in Agents : BeatNote(b)
    BY <2>2, ServerAtKeepsRecords DEF BeatNote
  <2>3. CASE \E b \in Agents : BeatReport(b)
    BY <2>3 DEF BeatReport, Reported, Lags
  <2>4. CASE RevokeForget
    BY <2>4 DEF RevokeForget, NoLag, Lags
  <2> QED
    BY <2>1, <2>2, <2>3, <2>4 DEF Next, Tick, SaveGeneration, Connect, Drop,
       RevokeDisconnect, BeatRead, BeatReadFails
<1> QED BY <1>1, LagInvHolds, PTL DEF Spec, LagStartStable

(* A record appears only for an agent whose stream is installed.           *)
THEOREM NoRecordAfterRevokeHolds == Spec => NoRecordAfterRevoke
<1>1. LagInv /\ [Next]_vars =>
        [\A a \in Agents : (~lags[a].known /\ lags'[a].known) => a \in connected]_vars
  <2> SUFFICES ASSUME LagInv, Next, NEW a \in Agents,
                      ~lags[a].known, lags'[a].known
               PROVE  a \in connected
    OBVIOUS
  <2> USE GenLagAssumption DEF LagInv, TypeOK, Gens, Times, Zero, Idle,
          AdminStates, BeatStates
  <2>1. CASE NoteGeneration
    BY <2>1, ServerAtKeepsRecords DEF NoteGeneration
  <2>2. CASE \E b \in Agents : BeatNote(b)
    BY <2>2, ServerAtKeepsRecords DEF BeatNote
  <2>3. CASE \E b \in Agents : BeatReport(b)
    BY <2>3 DEF BeatReport, Reported, Lags
  <2>4. CASE RevokeForget
    BY <2>4 DEF RevokeForget, NoLag, Lags
  <2> QED
    BY <2>1, <2>2, <2>3, <2>4 DEF Next, Tick, SaveGeneration, Connect, Drop,
       RevokeDisconnect, BeatRead, BeatReadFails
<1> QED BY <1>1, LagInvHolds, PTL DEF Spec, NoRecordAfterRevoke

-----------------------------------------------------------------------------
(* The store and the hosts                                                 *)

USE EnrolmentAssumption

(* allocateAddress gives out a free address if there is one: a nonempty set *)
(* of numbers has a least.                                                 *)
LEMMA MinIsFree == Free # {} => Min(Free) \in Free
  <1> SUFFICES ASSUME Free # {} PROVE Min(Free) \in Free
    OBVIOUS
  <1>1. Free \subseteq Nat
    BY DEF Free, Addrs
  <1> DEFINE Less == {ss \in Nat \X Nat : ss[1] < ss[2]}
  <1>2. IsWellFoundedOn(Less, Nat)
    BY NatLessThanWellFounded DEF OpToRel
  <1>3. \E x \in Free : \A y \in Free : ~(<<y, x>> \in Less)
    <2> HIDE DEF Less
    <2> QED
      BY <1>1, <1>2, WFMin, Zenon
  <1>4. \E x \in Free : \A y \in Free : x <= y
    <2>1. PICK x \in Free : \A y \in Free : ~(<<y, x>> \in Less)
      BY <1>3
    <2>2. ASSUME NEW y \in Free PROVE x <= y
      <3>1. x \in Nat /\ y \in Nat /\ ~(<<y, x>> \in Less)
        BY <1>1, <2>1
      <3>2. ~(y < x)
        BY <3>1
      <3> QED
        BY <3>1, <3>2
    <2> QED
      BY <2>2
  <1> QED
    BY <1>4 DEF Min

(* What Register's transaction grants: the name of a token that was unused, *)
(* while the name was free, and an address nobody has.                     *)
LEMMA GrantedIs ==
  ASSUME EnrolTypeOK, StoreInv, NEW t \in Tokens, t <= issued
  PROVE  /\ Granted(t) \in Answers
         /\ Granted(t).kind = "ok" =>
               /\ joins[t] = "new" /\ nameOf[t] \in Names /\ agents[nameOf[t]] = Absent
               /\ Granted(t).token = t /\ Granted(t).name = nameOf[t]
               /\ Granted(t).addr \in Free /\ Granted(t).addr \in Addrs
  <1>1. nameOf[t] \in Names
    BY DEF StoreInv
  <1>2. Free # {} => Min(Free) \in Free /\ Min(Free) \in Addrs
    BY MinIsFree DEF Free
  <1> QED
    BY <1>1, <1>2 DEF Granted, Answers

-----------------------------------------------------------------------------
(* The type invariant. *)
LEMMA EnrolTypeInit == EnrolInit => EnrolTypeOK
  BY DEF EnrolInit, EnrolTypeOK, Tokens, NoCredentials, Credentials

(* The operator's operations and the clock, on the server. *)
LEMMA ServerTypes ==
  ASSUME EnrolInv,
         \/ \E n \in Names : IssueJoinToken(n) \/ Revoke(n)
         \/ \E t \in Tokens : Expire(t)
         \/ Rebuild
  PROVE  EnrolTypeOK'
  <1> USE DEF EnrolInv, EnrolTypeOK
  <1>0. \A n \in Names : Issued(n) \in [Tokens -> {"new", "used", "dead"}]
    BY DEF Issued
  <1>1. ASSUME NEW n \in Names, IssueJoinToken(n)
        PROVE  EnrolTypeOK'
    <2>1. issued' \in 0 .. MaxTokens /\ issued + 1 \in Tokens
      BY <1>1 DEF IssueJoinToken, Tokens
    <2> QED
      BY <1>0, <1>1, <2>1 DEF IssueJoinToken
  <1>2. ASSUME NEW n \in Names, Revoke(n)
        PROVE  EnrolTypeOK'
    BY <1>0, <1>2 DEF Revoke
  <1>3. ASSUME NEW t \in Tokens, Expire(t)
        PROVE  EnrolTypeOK'
    BY <1>3 DEF Expire
  <1>4. CASE Rebuild
    BY <1>4 DEF Rebuild
  <1> QED
    BY <1>1, <1>2, <1>3, <1>4

(* The hosts. *)
LEMMA HostTypes ==
  ASSUME EnrolInv, NEW h \in Hosts,
         \/ \E t \in Tokens : Provide(h, t)
         \/ HostStep(h) \/ DialFails(h) \/ AnswerLost(h) \/ Crash(h)
  PROVE  EnrolTypeOK'
  <1> USE DEF EnrolInv, EnrolTypeOK, serverTables
  <1>0. \A s \in {"off", "stopped"} :
           GivenUp(h, s) \in
             [Hosts -> [at : {"off", "stopped", "start", "again", "pinned", "run", "on"},
                        f : Credentials, join : Tokens \cup {Absent}]]
    BY DEF GivenUp
  <1>1. ASSUME NEW t \in Tokens, Provide(h, t)
        PROVE  EnrolTypeOK'
    BY <1>1, Zenon DEF Provide
  <1>2. CASE Start(h)
    BY <1>2 DEF Start
  <1>3. CASE ConnectStream(h)
    BY <1>3 DEF ConnectStream
  <1>4. CASE Disconnected(h)
    BY <1>4 DEF Disconnected
  <1>5. CASE DialFails(h) \/ Crash(h)
    <2>1. faults' \in Nat
      BY <1>5 DEF DialFails, Crash, Fault
    <2>5. answer' \in [Hosts -> Answers \cup {Absent}]
      BY <1>5 DEF DialFails, Crash
    <2>2. host' = [host EXCEPT ![h].at = "run"] \/ host' = [host EXCEPT ![h].at = "off"]
      BY <1>5 DEF DialFails, Crash
    <2>3. UNCHANGED <<serverTables, file>>
      BY <1>5 DEF DialFails, Crash
    <2>4. host' \in [Hosts -> [at : {"off", "stopped", "start", "again", "pinned", "run", "on"},
                              f : Credentials, join : Tokens \cup {Absent}]]
      BY <2>2
    <2> QED
      BY <2>1, <2>3, <2>4, <2>5
  <1>6. CASE Refused(h)
    BY <1>0, <1>6 DEF Refused
  <1>7. CASE AnswerLost(h)
    BY <1>0, <1>7 DEF AnswerLost, Fault
  <1>8. CASE Register(h)
    <2>1. host[h].join \in Tokens /\ host[h].join <= issued
      BY <1>8 DEF Register, Asking, HostInv, HostHolds
    <2>2. Granted(host[h].join) \in Answers
      BY <2>1, GrantedIs
    <2>3. answer' \in [Hosts -> Answers \cup {Absent}]
      BY <1>8, <2>2 DEF Register
    <2>4. CASE Granted(host[h].join).kind = "ok"
      <3>1. [token |-> host[h].join, addr |-> Granted(host[h].join).addr] \in Row
        BY <2>1, <2>4, GrantedIs DEF Row
      <3> QED
        BY <1>8, <2>1, <2>3, <2>4, <3>1 DEF Register, Spent
    <2>5. CASE Granted(host[h].join).kind # "ok"
      BY <1>8, <2>3, <2>5 DEF Register
    <2> QED
      BY <2>4, <2>5
  <1>9. CASE Registered(h)
    <2>1. host[h].join \in Tokens /\ certOf[host[h].join] \in Nat
      BY <1>9 DEF Registered, HostInv, HostHolds, StoreInv
    <2>2. answer[h].token \in Tokens /\ answer[h].name \in Names /\ answer[h].addr \in Addrs
      BY <1>9 DEF Registered, Answers
    <2> DEFINE f == [token |-> answer[h].token, name |-> answer[h].name, addr |-> answer[h].addr,
                     used |-> host[h].join, pin |-> certOf[host[h].join]]
    <2>3. f \in Credentials
      BY <2>1, <2>2 DEF Credentials
    <2>4. /\ answer' = [answer EXCEPT ![h] = Absent] /\ UNCHANGED serverTables
          /\ \/ file' = [file EXCEPT ![h] = f] /\ host' = [host EXCEPT ![h].f = f, ![h].at = "run"]
             \/ file' = file /\ host' = [GivenUp(h, "off") EXCEPT ![h].f = f]
      BY <1>9 DEF Registered
    <2>5. faults' \in Nat
      BY <1>9 DEF Registered, Fault
    <2> HIDE DEF f
    <2>6. file' \in [Hosts -> Credentials] /\ answer' \in [Hosts -> Answers \cup {Absent}]
      BY <2>3, <2>4
    <2>7. host' \in [Hosts -> [at : {"off", "stopped", "start", "again", "pinned", "run", "on"},
                              f : Credentials, join : Tokens \cup {Absent}]]
      <3>1. CASE host' = [host EXCEPT ![h].f = f, ![h].at = "run"]
        BY <2>3, <3>1, Zenon
      <3>2. CASE host' = [GivenUp(h, "off") EXCEPT ![h].f = f]
        <4>1. PICK g : g = GivenUp(h, "off")
          OBVIOUS
        <4>2. g \in [Hosts -> [at : {"off", "stopped", "start", "again", "pinned", "run", "on"},
                              f : Credentials, join : Tokens \cup {Absent}]]
          BY <1>0, <4>1
        <4>3. host' = [g EXCEPT ![h].f = f]
          BY <3>2, <4>1
        <4> QED
          BY <2>3, <4>2, <4>3, Zenon
      <3> QED
        BY <2>4, <3>1, <3>2
    <2> QED
      BY <2>4, <2>5, <2>6, <2>7
  <1> QED
    BY <1>1, <1>2, <1>3, <1>4, <1>5, <1>6, <1>7, <1>8, <1>9, Zenon DEF HostStep

-----------------------------------------------------------------------------
(* The store.  Rows are added only by Register and tokens only by          *)
(* IssueJoinToken; both look at the name first.                            *)
LEMMA StoreStep ==
  ASSUME EnrolInv,
         \/ \E n \in Names : IssueJoinToken(n) \/ Revoke(n)
         \/ \E t \in Tokens : Expire(t)
         \/ Rebuild
  PROVE  StoreInv'
  <1> USE DEF EnrolInv, EnrolTypeOK, StoreInv, RevokedStaysOut, AddressesDistinct, Row
  <1>1. ASSUME NEW n \in Names, IssueJoinToken(n)
        PROVE  StoreInv'
    <2>1. /\ issued' = issued + 1 /\ issued + 1 \in Tokens /\ agents[n] = Absent
          /\ UNCHANGED <<cert, agents, revoked>>
      BY <1>1 DEF IssueJoinToken, Tokens
    <2>2. /\ nameOf' = [nameOf EXCEPT ![issued + 1] = n]
          /\ certOf' = [certOf EXCEPT ![issued + 1] = cert]
      BY <1>1 DEF IssueJoinToken
    <2>3. \A t \in Tokens : t # issued + 1 =>
             joins'[t] = IF nameOf[t] = n /\ joins[t] = "new" THEN "dead" ELSE joins[t]
      BY <1>1 DEF IssueJoinToken, Issued
    <2>4. \A t \in Tokens : t # issued + 1 /\ joins'[t] = "new" => joins[t] = "new" /\ nameOf[t] # n
      BY <2>3
    <2>5. \A t \in Tokens : t \in Nat /\ (t <= issued' => t <= issued \/ t = issued + 1)
      BY <2>1 DEF Tokens
    <2> QED
      BY <2>1, <2>2, <2>4, <2>5
  <1>2. ASSUME NEW n \in Names, Revoke(n)
        PROVE  StoreInv'
    <2>1. /\ agents' = [agents EXCEPT ![n] = Absent] /\ revoked' = [revoked EXCEPT ![n] = issued]
          /\ UNCHANGED <<cert, nameOf, certOf, issued>>
      BY <1>2 DEF Revoke
    <2>2. \A t \in Tokens : joins'[t] = "new" => joins[t] = "new" /\ nameOf[t] # n
      BY <1>2 DEF Revoke, Issued
    <2> QED
      BY <2>1, <2>2
  <1>3. ASSUME NEW t \in Tokens, Expire(t)
        PROVE  StoreInv'
    BY <1>3 DEF Expire
  <1>4. CASE Rebuild
    BY <1>4 DEF Rebuild, Tokens
  <1> QED
    BY <1>1, <1>2, <1>3, <1>4

(* Register gives a row only for a new token of a name without one, and    *)
(* only a free address.                                                    *)
LEMMA RegisterStore ==
  ASSUME EnrolInv, NEW h \in Hosts, Register(h)
  PROVE  StoreInv'
  <1> USE DEF EnrolInv, EnrolTypeOK, StoreInv, RevokedStaysOut, AddressesDistinct
  <1> DEFINE t == host[h].join
  <1>1. t \in Tokens /\ t <= issued
    BY DEF Register, Asking, HostInv, HostHolds
  <1>2. CASE Granted(t).kind # "ok"
    BY <1>2 DEF Register
  <1>3. CASE Granted(t).kind = "ok"
    <2>1. /\ joins[t] = "new" /\ nameOf[t] \in Names /\ agents[nameOf[t]] = Absent
          /\ Granted(t).name = nameOf[t] /\ Granted(t).addr \in Free
      BY <1>1, <1>3, GrantedIs
    <2> DEFINE new == [token |-> t, addr |-> Granted(t).addr]
    <2>2. /\ agents' = [agents EXCEPT ![nameOf[t]] = new] /\ joins' = [joins EXCEPT ![t] = "used"]
          /\ UNCHANGED <<cert, nameOf, certOf, issued, revoked>>
      BY <1>3, <2>1 DEF Register, Spent
    <2>3. /\ new.token > revoked[nameOf[t]]
          /\ \A n \in Names : agents[n] # Absent => agents[n].addr # new.addr
      BY <1>1, <2>1 DEF Free, Used
    <2> HIDE DEF new
    <2> QED
      BY <1>1, <2>1, <2>2, <2>3
  <1> QED
    BY <1>2, <1>3

-----------------------------------------------------------------------------
(* The hosts.  The server's tables only move on: no token is made new      *)
(* again, and a row that was not there before is of a token that was new.  *)
MovesOn ==
  /\ issued' >= issued /\ cert' >= cert
  /\ \A t \in Tokens : t <= issued /\ joins'[t] = "new" => joins[t] = "new"
  /\ \A n \in Names : agents'[n] # Absent =>
        \/ agents'[n] = agents[n] /\ cert' = cert
        \/ joins[agents'[n].token] = "new"

(* So a spent token stays spent, and credentials that do not work never    *)
(* work again.                                                             *)
LEMMA StaysSpent ==
  ASSUME EnrolInv, EnrolTypeOK', MovesOn, NEW f \in Credentials, SpentToken(f)
  PROVE  SpentToken(f)' /\ (~Works(f) => ~Works(f)')
  <1> USE DEF EnrolInv, EnrolTypeOK, MovesOn, SpentToken, Credentials, Tokens
  <1>1. SpentToken(f)'
    OBVIOUS
  <1>2. ASSUME Works(f)'
        PROVE  Works(f)
    <2>1. PICK n \in Names : agents'[n] # Absent /\ agents'[n].token = f.token
      BY <1>2 DEF Works
    <2>2. f.token # Absent /\ f.pin = cert'
      BY <1>2, <2>1 DEF Works, Row
    <2>3. agents'[n] = agents[n] /\ cert' = cert
      BY <2>1, <2>2
    <2> QED
      BY <2>1, <2>2, <2>3 DEF Works
  <1> QED
    BY <1>1, <1>2

(* A host that takes no step keeps what is known of it. *)
LEMMA HostKept ==
  ASSUME EnrolInv, EnrolTypeOK', MovesOn, NEW h \in Hosts,
         host'[h] = host[h], file'[h] = file[h], answer'[h] = answer[h]
  PROVE  HostHolds(h)'
  <1>1. HostHolds(h) /\ file[h] \in Credentials /\ host[h].f \in Credentials
    BY DEF EnrolInv, EnrolTypeOK, HostInv
  <1>2. SpentToken(file[h])' /\ (~Works(file[h]) => ~Works(file[h])')
    BY <1>1, StaysSpent DEF HostHolds, SpentToken, Works
  <1>3. SpentToken(host[h].f)'
    BY <1>1, StaysSpent DEF HostHolds, SpentToken
  <1>4. host[h].join # Absent => host[h].join <= issued'
    BY <1>1 DEF HostHolds, MovesOn, EnrolInv, EnrolTypeOK, Tokens
  <1>5. answer[h] # Absent /\ answer[h].kind = "ok" => joins'[answer[h].token] # "new"
    BY <1>1 DEF HostHolds, MovesOn, EnrolInv, EnrolTypeOK
  <1> QED
    BY <1>1, <1>2, <1>3, <1>4, <1>5, Zenon DEF HostHolds

(* The server's own operations move its tables on and leave the hosts. *)
LEMMA ServerHosts ==
  ASSUME EnrolInv, EnrolTypeOK',
         \/ \E n \in Names : IssueJoinToken(n) \/ Revoke(n)
         \/ \E t \in Tokens : Expire(t)
         \/ Rebuild
  PROVE  HostInv'
  <1> USE DEF EnrolInv, EnrolTypeOK
  <1>1. MovesOn
    <2>1. ASSUME NEW n \in Names, IssueJoinToken(n) PROVE MovesOn
      BY <2>1 DEF IssueJoinToken, Issued, MovesOn, Tokens
    <2>2. ASSUME NEW n \in Names, Revoke(n) PROVE MovesOn
      BY <2>2 DEF Revoke, Issued, MovesOn
    <2>3. ASSUME NEW t \in Tokens, Expire(t) PROVE MovesOn
      BY <2>3 DEF Expire, MovesOn
    <2>4. CASE Rebuild
      BY <2>4 DEF Rebuild, MovesOn
    <2> QED
      BY <2>1, <2>2, <2>3, <2>4
  <1>2. UNCHANGED <<host, file, answer>>
    BY DEF IssueJoinToken, Revoke, Expire, Rebuild
  <1> QED
    BY <1>1, <1>2, HostKept DEF HostInv

(* Register moves the tables on, and the answer holds a spent token.       *)
LEMMA RegisterHosts ==
  ASSUME EnrolInv, EnrolTypeOK', NEW h \in Hosts, Register(h)
  PROVE  HostInv'
  <1> USE DEF EnrolInv, EnrolTypeOK
  <1> DEFINE t == host[h].join
  <1>1. t \in Tokens /\ t <= issued /\ Asking(h) /\ HostHolds(h)
    BY DEF Register, Asking, HostInv, HostHolds
  <1>2. UNCHANGED <<host, file, cert, issued>> /\ answer' = [answer EXCEPT ![h] = Granted(t)]
    BY DEF Register
  <1>3. Granted(t).kind = "ok" => joins[t] = "new" /\ Granted(t).token = t
    BY <1>1, GrantedIs
  <1>4. \/ UNCHANGED <<agents, joins>> /\ Granted(t).kind # "ok"
        \/ /\ Granted(t).kind = "ok" /\ joins' = [joins EXCEPT ![t] = "used"]
           /\ \E n \in Names, a \in Addrs :
                 agents' = [agents EXCEPT ![n] = [token |-> t, addr |-> a]]
    BY <1>1, GrantedIs DEF Register, Spent
  <1>5. MovesOn
    BY <1>1, <1>2, <1>3, <1>4 DEF MovesOn
  <1>6. \A g \in Hosts \ {h} : HostHolds(g)'
    BY <1>2, <1>5, HostKept
  <1>7. HostHolds(h)'
    <2>1. SpentToken(file[h])' /\ SpentToken(host[h].f)' /\ ~Works(file[h])'
      BY <1>1, <1>2, <1>5, StaysSpent, Zenon DEF HostHolds, SpentToken, Works, Asking
    <2>2. Granted(t).kind = "ok" => Granted(t).token = t /\ joins'[t] # "new"
      BY <1>1, <1>3, <1>4, Zenon
    <2> QED
      BY <1>1, <1>2, <2>1, <2>2, Zenon DEF HostHolds, Asking
  <1> QED
    BY <1>6, <1>7 DEF HostInv

(* A host's other steps leave the server's tables: what is to be shown is  *)
(* about that host.                                                        *)
LEMMA OwnStep ==
  ASSUME EnrolInv, EnrolTypeOK', NEW h \in Hosts, UNCHANGED serverTables,
         \A g \in Hosts \ {h} : host'[g] = host[g] /\ file'[g] = file[g] /\ answer'[g] = answer[g],
         HostHolds(h)'
  PROVE  HostInv' /\ StoreInv'
  <1> USE DEF EnrolInv, EnrolTypeOK
  <1>1. MovesOn
    BY DEF MovesOn, serverTables
  <1>2. \A g \in Hosts \ {h} : HostHolds(g)'
    BY <1>1, HostKept
  <1>3. StoreInv'
    BY DEF serverTables, StoreInv, RevokedStaysOut, AddressesDistinct
  <1> QED
    BY <1>2, <1>3, Zenon DEF HostInv

(* The process of a host comes and goes, connects and is disconnected; it  *)
(* asks for another token only when its own does not work.                 *)
LEMMA ProcessStep ==
  ASSUME EnrolInv, EnrolTypeOK', NEW h \in Hosts,
         \/ \E t \in Tokens : Provide(h, t)
         \/ Start(h) \/ ConnectStream(h) \/ Disconnected(h) \/ DialFails(h) \/ Crash(h)
  PROVE  HostInv' /\ StoreInv'
  <1> USE DEF EnrolInv, EnrolTypeOK
  <1>0. HostHolds(h)
    BY Zenon DEF HostInv
  <1>1. /\ UNCHANGED serverTables /\ UNCHANGED file
        /\ \A g \in Hosts \ {h} : host'[g] = host[g] /\ answer'[g] = answer[g]
    BY Zenon DEF Provide, Start, ConnectStream, Disconnected, DialFails, Crash
  <1>2. UNCHANGED <<cert, joins, agents, issued>>
    BY <1>1, Zenon DEF serverTables
  <1>3. file'[h] = file[h] /\ SpentToken(file[h])' /\ (Works(file[h])' => Works(file[h]))
    BY <1>0, <1>1, <1>2, Zenon DEF HostHolds, SpentToken, Works
  <1>4. ASSUME NEW t \in Tokens, Provide(h, t)
        PROVE  HostHolds(h)'
    <2>1. host'[h] = [host[h] EXCEPT !.join = t, !.at = "off"] /\ answer'[h] = Absent /\ t <= issued
      BY <1>4, Zenon DEF Provide
    <2> QED
      BY <1>0, <1>2, <1>3, <2>1 DEF HostHolds, SpentToken
  <1>5. ASSUME Start(h)
        PROVE  HostHolds(h)'
    <2>1. /\ host[h].at = "off" /\ answer'[h] = answer[h]
          /\ host'[h].f = file[h] /\ host'[h].join = host[h].join
          /\ \/ host'[h].at = "run"
             \/ host'[h].at = "stopped"
             \/ host'[h].at = "start" /\ file[h].token = Absent /\ host[h].join # Absent
      BY <1>5 DEF Start, Fresh
    <2>2. file[h].token = Absent => ~Works(file[h])
      BY DEF Works, Row, Tokens
    <2> QED
      BY <1>0, <1>2, <1>3, <2>1, <2>2, Zenon DEF HostHolds, SpentToken
  <1>6. ASSUME ConnectStream(h)
        PROVE  HostHolds(h)'
    <2>1. /\ host[h].at = "run" /\ answer'[h] = answer[h]
          /\ host'[h].f = host[h].f /\ host'[h].join = host[h].join
          /\ \/ host'[h].at \in {"on", "run", "stopped"}
             \/ host'[h].at \in {"again", "pinned"} /\ ~Works(host[h].f) /\ host[h].join # Absent
      BY <1>6 DEF ConnectStream, Fresh, JoinForNewPin, Works
    <2> QED
      BY <1>0, <1>2, <1>3, <2>1, Zenon DEF HostHolds, SpentToken
  <1>7. ASSUME Disconnected(h) \/ DialFails(h)
        PROVE  HostHolds(h)'
    <2>1. host[h].at = "on" /\ answer'[h] = answer[h] /\ host'[h] = [host[h] EXCEPT !.at = "run"]
      BY <1>7 DEF Disconnected, DialFails
    <2> QED
      BY <1>0, <1>2, <1>3, <2>1 DEF HostHolds, SpentToken
  <1>8. ASSUME Crash(h)
        PROVE  HostHolds(h)'
    <2>1. answer'[h] = Absent /\ host'[h] = [host[h] EXCEPT !.at = "off"]
      BY <1>8 DEF Crash
    <2> QED
      BY <1>0, <1>2, <1>3, <2>1 DEF HostHolds, SpentToken
  <1>9. HostHolds(h)'
    BY <1>4, <1>5, <1>6, <1>7, <1>8, Zenon
  <1> QED
    BY <1>1, <1>9, OwnStep, Zenon

(* What becomes of an answer: given up, or the new token is recorded.  The *)
(* one in the file did not work, and the new one is spent.                 *)
LEMMA AnswerStep ==
  ASSUME EnrolInv, EnrolTypeOK', NEW h \in Hosts,
         Refused(h) \/ AnswerLost(h) \/ Registered(h)
  PROVE  HostInv' /\ StoreInv'
  <1> USE DEF EnrolInv, EnrolTypeOK
  <1>0. HostHolds(h)
    BY DEF HostInv
  <1>1. /\ UNCHANGED serverTables /\ answer'[h] = Absent
        /\ \A g \in Hosts \ {h} : host'[g] = host[g] /\ file'[g] = file[g] /\ answer'[g] = answer[g]
    BY DEF Refused, AnswerLost, Registered, GivenUp
  <1>2. UNCHANGED <<cert, joins, agents, issued>>
    BY <1>1 DEF serverTables
  <1>3. ~Works(file[h]) /\ host[h].join \in Tokens /\ host[h].join <= issued
    BY <1>0 DEF Refused, AnswerLost, Registered, HostHolds, Asking
  <1>4. ASSUME Refused(h) \/ AnswerLost(h)
        PROVE  HostHolds(h)'
    <2>1. /\ file'[h] = file[h] /\ host'[h].f = host[h].f /\ host'[h].join = host[h].join
          /\ host'[h].at \in {"run", "off", "stopped"}
      BY <1>4 DEF Refused, AnswerLost, GivenUp
    <2>2. SpentToken(file[h])' /\ SpentToken(host[h].f)' /\ ~Works(file[h])'
      BY <1>0, <1>2, <1>3, <2>1, Zenon DEF HostHolds, SpentToken, Works
    <2> QED
      BY <1>1, <1>2, <1>3, <2>1, <2>2, Zenon DEF HostHolds
  <1>5. ASSUME Registered(h)
        PROVE  HostHolds(h)'
    <2> DEFINE f == [token |-> answer[h].token, name |-> answer[h].name, addr |-> answer[h].addr,
                     used |-> host[h].join, pin |-> certOf[host[h].join]]
    <2>1. f.token <= issued /\ joins[f.token] # "new" /\ f.pin <= cert
      BY <1>0, <1>3, <1>5 DEF Registered, HostHolds, StoreInv
    <2>2. /\ host'[h].f = f /\ host'[h].join = host[h].join
          /\ \/ file'[h] = f
             \/ file'[h] = file[h]
          /\ host'[h].at \in {"run", "off"}
      BY <1>5 DEF Registered, GivenUp
    <2> HIDE DEF f
    <2>3. SpentToken(host[h].f)' /\ SpentToken(file[h])'
      BY <1>0, <1>2, <2>1, <2>2, Zenon DEF HostHolds, SpentToken
    <2>4. file'[h] = host'[h].f \/ ~Works(file[h])'
      BY <1>2, <1>3, <2>2 DEF Works
    <2> QED
      BY <1>1, <1>2, <1>3, <2>2, <2>3, <2>4, Zenon DEF HostHolds
  <1> QED
    BY <1>1, <1>4, <1>5, OwnStep, Zenon

-----------------------------------------------------------------------------
(* The store and the hosts of a new server. *)
LEMMA EnrolInvInit == EnrolInit => EnrolInv
  <1> SUFFICES ASSUME EnrolInit PROVE EnrolInv
    OBVIOUS
  <1>1. StoreInv
    BY DEF EnrolInit, StoreInv, RevokedStaysOut, AddressesDistinct, Tokens
  <1>2. HostInv
    BY DEF EnrolInit, HostInv, HostHolds, NoCredentials, SpentToken
  <1> QED
    BY <1>1, <1>2, EnrolTypeInit DEF EnrolInv

(* Every step of the server and of a host keeps the invariant. *)
LEMMA EnrolInvStep == EnrolInv /\ [EnrolNext]_enrolVars => EnrolInv'
  <1> SUFFICES ASSUME EnrolInv, [EnrolNext]_enrolVars PROVE EnrolInv'
    OBVIOUS
  <1>1. CASE \/ \E n \in Names : IssueJoinToken(n) \/ Revoke(n)
             \/ \E t \in Tokens : Expire(t)
             \/ Rebuild
    BY <1>1, ServerTypes, StoreStep, ServerHosts DEF EnrolInv
  <1>2. ASSUME NEW h \in Hosts,
               \/ \E t \in Tokens : Provide(h, t)
               \/ HostStep(h) \/ DialFails(h) \/ AnswerLost(h) \/ Crash(h)
        PROVE  EnrolInv'
    <2>1. EnrolTypeOK'
      BY <1>2, HostTypes
    <2>2. CASE Register(h)
      BY <2>1, <2>2, RegisterStore, RegisterHosts DEF EnrolInv
    <2>3. CASE \/ \E t \in Tokens : Provide(h, t)
               \/ Start(h) \/ ConnectStream(h) \/ Disconnected(h) \/ DialFails(h) \/ Crash(h)
      BY <2>1, <2>3, ProcessStep DEF EnrolInv
    <2>4. CASE Refused(h) \/ AnswerLost(h) \/ Registered(h)
      BY <2>1, <2>4, AnswerStep DEF EnrolInv
    <2> QED
      BY <1>2, <2>2, <2>3, <2>4 DEF HostStep
  <1>3. CASE UNCHANGED enrolVars
    BY <1>3, Zenon DEF enrolVars, EnrolInv, EnrolTypeOK, StoreInv, RevokedStaysOut,
                AddressesDistinct, HostInv, HostHolds, SpentToken, Works
  <1> QED
    BY <1>1, <1>2, <1>3 DEF EnrolNext

(* The inductive invariant of enrolment: the tables' and the hosts'.       *)
THEOREM EnrolInvariant == EnrolSpec => []EnrolInv
  BY EnrolInvInit, EnrolInvStep, PTL DEF EnrolSpec

(* Of a name's join strings at most one registers, and none while the name *)
(* is registered; a removed agent's old join strings never bring it back;  *)
(* no two agents share an address (IssueJoinToken, Register, RevokeAgent,  *)
(* allocateAddress): for every number of hosts, names and addresses.       *)
THEOREM EnrolJoinStringsHold == EnrolSpec => []JoinStringsHold
  <1>1. ASSUME EnrolInv PROVE JoinStringsHold
    <2>1. ASSUME NEW n \in Names
          PROVE  LET good == {t \in Tokens : joins[t] = "new" /\ nameOf[t] = n}
                 IN  Cardinality(good) <= 1 /\ (agents[n] # Absent => good = {})
      <3> DEFINE good == {t \in Tokens : joins[t] = "new" /\ nameOf[t] = n}
      <3>1. \A t, u \in good : t = u
        BY <1>1 DEF EnrolInv, StoreInv
      <3>2. agents[n] # Absent => good = {}
        BY <1>1 DEF EnrolInv, StoreInv
      <3> HIDE DEF good
      <3>3. ASSUME good # {} PROVE \E t : good = {t}
        <4>1. PICK t : t \in good
          BY <3>3
        <4>2. good = {t}
          BY <3>1, <4>1
        <4> QED
          BY <4>2
      <3>4. Cardinality(good) <= 1
        <4>1. CASE good = {}
          BY <4>1, FS_EmptySet
        <4>2. CASE good # {}
          <5>1. PICK t : good = {t}
            BY <3>3, <4>2
          <5>2. Cardinality({t}) = 1
            BY FS_Singleton
          <5> QED
            BY <5>1, <5>2
        <4> QED
          BY <4>1, <4>2
      <3> QED
        BY <3>2, <3>4 DEF good
    <2> QED
      BY <1>1, <2>1 DEF EnrolInv, StoreInv, JoinStringsHold, OneGoodJoinString
  <1> QED
    BY <1>1, EnrolInvariant, PTL

(* A host's credentials file is replaced only when the token in it does    *)
(* not work any more (recover, ensureRegistered, joinForNewPin), whatever  *)
(* crashes, lost answers and removals came between.                        *)
THEOREM EnrolWorkingTokenIsKept == EnrolSpec => WorkingTokenIsKept
  <1>1. ASSUME EnrolInv, [EnrolNext]_enrolVars PROVE [TokenStep]_enrolVars
    <2>1. ASSUME NEW h \in Hosts, file'[h] # file[h]
          PROVE  ~Works(file[h])
      <3>1. PICK g \in Hosts : Registered(g)
        BY <1>1, <2>1, Zenon
         DEF EnrolNext, HostStep, enrolVars, IssueJoinToken, Revoke, Expire, Rebuild,
             Provide, Start, ConnectStream, Disconnected, Register, Refused, DialFails,
             AnswerLost, Crash
      <3>2. g = h
        BY <1>1, <2>1, <3>1 DEF Registered, EnrolInv, EnrolTypeOK
      <3> QED
        BY <1>1, <3>1, <3>2 DEF Registered, EnrolInv, HostInv, HostHolds
    <2> QED
      BY <2>1 DEF TokenStep
  <1> QED
    BY <1>1, EnrolInvariant, PTL DEF EnrolSpec, WorkingTokenIsKept
=============================================================================
