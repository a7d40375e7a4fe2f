------------------------------ MODULE HubProofs ------------------------------
(***************************************************************************)
(* The stream hub, for any number of streams, keys, operations and slots:  *)
(* the table agrees with what is published, no push is lost, the streams   *)
(* of an agent are bounded, and heartbeats and refusals are current.       *)
(***************************************************************************)
EXTENDS Hub, FiniteSetTheorems, TLAPS

USE HubAssumption

-----------------------------------------------------------------------------
(* The type invariant, one case per operation of the hub and of Daemon. *)
LEMMA TypeInit == HubInit => HubTypeOK
  <1> SUFFICES ASSUME HubInit PROVE HubTypeOK
    OBVIOUS
  <1>1. /\ row \in [id : Nat, key : Keys \cup {Nil}]
        /\ ops \in 0 .. MaxOps /\ misses \in 0 .. MaxMisses
    BY DEF HubInit
  <1>2. ver \in Nat /\ nextId \in Nat /\ pending \in Nat
    BY DEF HubInit
  <1>3. id \in [Streams -> Nat] /\ pick \in [Streams -> Nat] /\ sent \in [Streams -> Nat]
    BY DEF HubInit
  <1> QED
    BY <1>1, <1>2, <1>3, Zenon DEF HubInit, HubTypeOK, Places

(* What the holder of Daemon.mu does. *)
LEMMA DaemonTypes ==
  ASSUME HubTypeOK, DaemonInv, Operator \/ DaemonStep
  PROVE  HubTypeOK'
  <1> USE DEF HubTypeOK, hubLocks, hubVars, streamVars, sendVars
  <1>1. CASE Publish
    BY <1>1 DEF Publish, Entry
  <1>2. CASE RevokeAgent
    BY <1>2 DEF RevokeAgent
  <1>3. CASE RegisterAgent
    BY <1>3 DEF RegisterAgent, Entry
  <1>4. CASE RevokeEntry
    BY <1>4 DEF RevokeEntry
  <1>5. CASE Disconnect
    BY <1>5, Zenon DEF Disconnect, Detach
  <1>6. CASE RetireIfDifferent
    <2>1. CASE Detach
      BY <1>6, <2>1, Zenon DEF RetireIfDifferent, Detach
    <2>2. CASE UNCHANGED <<conns, hubConnected, refused, closed>>
      BY <1>6, <2>2 DEF RetireIfDifferent
    <2> QED
      BY <1>6, <2>1, <2>2 DEF RetireIfDifferent
  <1>7. CASE Push
    BY <1>7 DEF Push
  <1> QED
    BY <1>1, <1>2, <1>3, <1>4, <1>5, <1>6, <1>7 DEF Operator, DaemonStep

(* A stream up to its installation. *)
LEMMA PreparingTypes ==
  ASSUME HubTypeOK, SlotInv, NEW c \in Streams,
         Open(c) \/ FirstMessage(c) \/ Waiting(c) \/ KeyPublished(c)
  PROVE  HubTypeOK'
  <1> USE DEF HubTypeOK, daemonVars, hubLocks, hubVars, streamVars, sendVars, StreamTo, Places,
              Preparing
  <1>1. CASE Open(c)
    BY <1>1 DEF Open
  <1>2. CASE FirstMessage(c)
    BY <1>2 DEF FirstMessage
  <1>3. CASE TakeAgentLock(c)
    BY <1>3 DEF TakeAgentLock
  <1>4. CASE SetPublicKey(c)
    <2>1. CASE KeyRejected(c)
      BY <1>4, <2>1 DEF SetPublicKey, KeyRejected
    <2>2. CASE KeyUnchanged(c)
      BY <1>4, <2>2 DEF SetPublicKey, KeyUnchanged, KeyAccepted
    <2>3. CASE KeyLimited(c)
      BY <1>4, <2>3 DEF SetPublicKey, KeyLimited
    <2>4. CASE KeySaved(c)
      BY <1>4, <2>4 DEF SetPublicKey, KeySaved, Entry, OwnRow
    <2> QED
      BY <1>4, <2>1, <2>2, <2>3, <2>4, Zenon DEF SetPublicKey
  <1>5. CASE Admit(c)
    BY <1>5 DEF Admit
  <1>6. CASE KeyPublished(c)
    BY <1>6 DEF KeyPublished, KeyAccepted
  <1> QED
    BY <1>1, <1>2, <1>3, <1>4, <1>5, <1>6, Zenon DEF Waiting

(* A pending slot that is given back was counted. *)
LEMMA SlotCounted ==
  ASSUME HubTypeOK, SlotInv, NEW c \in Streams, slot[c] \in {"held", "waiting"}
  PROVE  /\ pending - 1 \in Nat
         /\ pending - 1 = Cardinality({d \in Streams : slot[d] \in {"held", "waiting"}} \ {c})
  <1> DEFINE Counted == {d \in Streams : slot[d] \in {"held", "waiting"}}
  <1>1. IsFiniteSet(Counted)
    BY FS_Subset
  <1>2. Cardinality(Counted \ {c}) = Cardinality(Counted) - 1 /\ IsFiniteSet(Counted \ {c})
    BY <1>1, FS_RemoveElement, Zenon
  <1>3. Cardinality(Counted \ {c}) \in Nat
    BY <1>2, FS_CardinalityType
  <1> QED
    BY <1>2, <1>3 DEF SlotInv

(* A stream from its installation to the end of serve. *)
LEMMA InstalledTypes ==
  ASSUME HubTypeOK, SlotInv, TableInv, NEW c \in Streams,
         \/ Install(c) \/ ReturnSlot(c) \/ FirstSelect(c) \/ FirstWrite(c) \/ DropUnsent(c)
         \/ ReadFails(c) \/ End(c)
  PROVE  HubTypeOK'
  <1> USE DEF HubTypeOK, daemonVars, hubLocks, hubVars, streamVars, sendVars, StreamTo, Places,
              Preparing,
              Installed
  <1>1. CASE Install(c)
    <2>1. slot[c] = "held"
      BY <1>1 DEF Install, SlotInv
    <2>2. pending - 1 \in Nat
      BY <2>1, SlotCounted, Zenon
    <2>3. pending' \in Nat
      BY <1>1, <2>2, Zenon DEF Install
    <2>4. slot' \in [Streams -> {"none", "held", "waiting", "free"}]
      BY <1>1 DEF Install
    <2>5. at' \in [Streams -> Places] /\ replaced' \in [Streams -> Streams \cup {Nil}]
      BY <1>1 DEF Install
    <2>6. closed' \in [Streams -> BOOLEAN]
      BY <1>1, Zenon DEF Install
    <2>7. /\ conns' = c /\ hubConnected' = TRUE /\ refused' = Nil /\ hook' = Nil
          /\ UNCHANGED <<daemonVars, agentLock, id, key, sendVars, hubBeat, decided>>
      BY <1>1 DEF Install
    <2> QED
      BY <2>3, <2>4, <2>5, <2>6, <2>7
  <1>2. CASE ReturnSlot(c)
    <2>1. pending' \in Nat
      BY <1>2, SlotCounted, Zenon DEF ReturnSlot
    <2>2. UNCHANGED <<ops, misses, ver, nextId, refused, id, pick, sent, row, latest, decided>>
      BY <1>2 DEF ReturnSlot
    <2> QED
      BY <1>2, <2>1, <2>2, Zenon DEF ReturnSlot
  <1>3. CASE FirstSelect(c)
    BY <1>3 DEF FirstSelect, StateFor, Entry
  <1>4. CASE FirstWrite(c)
    BY <1>4 DEF FirstWrite
  <1>5. CASE DropUnsent(c)
    BY <1>5 DEF DropUnsent, DropStream
  <1>6. CASE ReadFails(c)
    BY <1>6 DEF ReadFails, DropStream
  <1>7. CASE End(c)
    <2>1. pending' \in Nat
      BY <1>7, SlotCounted, Zenon DEF End
    <2>2. slot' \in [Streams -> {"none", "held", "waiting", "free"}]
      BY <1>7 DEF End
    <2>3. at' \in [Streams -> Places] /\ closed' \in [Streams -> BOOLEAN]
      BY <1>7 DEF End
    <2>4. UNCHANGED <<daemonVars, hubLocks, conns, hubConnected, refused, id, key, replaced,
                      sendVars,
                      hubBeat, decided>>
      BY <1>7 DEF End
    <2> QED
      BY <2>1, <2>2, <2>3, <2>4
  <1> QED
    BY <1>1, <1>2, <1>3, <1>4, <1>5, <1>6, <1>7, Zenon

(* The push worker and the heartbeats. *)
LEMMA WorkerTypes ==
  ASSUME HubTypeOK, NEW c \in Streams,
         \/ WorkerTake(c) \/ WorkerSelect(c) \/ WorkerWrite(c) \/ WorkerStops(c)
         \/ Heartbeat(c) \/ HeartbeatDone(c)
  PROVE  HubTypeOK'
  <1> USE DEF HubTypeOK, daemonVars, hubLocks, hubVars, streamVars, sendVars
  <1>1. CASE WorkerTake(c)
    BY <1>1 DEF WorkerTake
  <1>2. CASE WorkerSelect(c)
    <2>1. pick' \in [Streams -> Nat] /\ misses' \in 0 .. MaxMisses
      BY <1>2 DEF WorkerSelect, StateFor, Entry
    <2>2. /\ worker' \in [Streams -> {"off", "wait", "select", "write", "done"}]
          /\ missed' \in [Streams -> BOOLEAN]
      BY <1>2, Zenon DEF WorkerSelect
    <2> QED
      BY <1>2, <2>1, <2>2 DEF WorkerSelect
  <1>3. CASE WorkerWrite(c)
    <2>1. sent' \in [Streams -> Nat]
      BY <1>3 DEF WorkerWrite
    <2>2. missed' \in [Streams -> BOOLEAN] /\ closed' \in [Streams -> BOOLEAN]
      BY <1>3, Zenon DEF WorkerWrite
    <2>3. worker' \in [Streams -> {"off", "wait", "select", "write", "done"}]
      BY <1>3 DEF WorkerWrite
    <2>4. UNCHANGED <<daemonVars, hubLocks, hubVars, at, id, key, slot, replaced, pushCh, pick,
                      misses, hubBeat, decided>>
      BY <1>3, Zenon DEF WorkerWrite
    <2> QED
      BY <2>1, <2>2, <2>3, <2>4
  <1>4. CASE WorkerStops(c)
    BY <1>4 DEF WorkerStops
  <1>5. CASE Heartbeat(c)
    BY <1>5 DEF Heartbeat
  <1>6. CASE HeartbeatDone(c)
    BY <1>6 DEF HeartbeatDone
  <1> QED
    BY <1>1, <1>2, <1>3, <1>4, <1>5, <1>6, Zenon

(* Every operation keeps the types. *)
LEMMA TypeStep == HubInv /\ [HubNext]_hubAll => HubTypeOK'
  <1> SUFFICES ASSUME HubInv, [HubNext]_hubAll
               PROVE  HubTypeOK'
    OBVIOUS
  <1>1. CASE UNCHANGED hubAll
    BY <1>1 DEF hubAll, HubInv, HubTypeOK, daemonVars, hubLocks, hubVars, streamVars, sendVars
  <1>2. CASE HubNext
    BY <1>2, DaemonTypes, PreparingTypes, InstalledTypes, WorkerTypes, Zenon
       DEF HubNext, HubInv, Serve
  <1> QED
    BY <1>1, <1>2

-----------------------------------------------------------------------------
(* Of what a stream does only SetPublicKey touches what Daemon.mu guards.  *)
LEMMA StreamsOnlyAsk ==
  ASSUME NEW c \in Streams,
         Open(c) \/ Serve(c) \/ TakeAgentLock(c) \/ Admit(c) \/ ReadFails(c) \/ Heartbeat(c)
  PROVE  UNCHANGED daemonVars
  BY Zenon DEF Open, Serve, FirstMessage, KeyPublished, Install, ReturnSlot, FirstSelect,
         FirstWrite, DropUnsent, End, WorkerTake, WorkerSelect, WorkerWrite, WorkerStops,
         HeartbeatDone, TakeAgentLock, Admit, ReadFails, Heartbeat

(* Who holds Daemon.mu, and what it still has to do. *)
LEMMA DaemonStepInv == HubInv /\ [HubNext]_hubAll => DaemonInv'
  <1> SUFFICES ASSUME HubInv, [HubNext]_hubAll
               PROVE  DaemonInv'
    OBVIOUS
  <1> USE DEF HubInv, HubTypeOK, DaemonInv
  <1>1. CASE Operator
    BY <1>1 DEF Operator, Publish, RevokeAgent, RegisterAgent, Entry
  <1>2. CASE DaemonStep
    BY <1>2, Zenon DEF DaemonStep, RevokeEntry, Disconnect, RetireIfDifferent, Push
  <1>3. ASSUME NEW c \in Streams, SetPublicKey(c)
        PROVE  DaemonInv'
    <2>1. CASE KeySaved(c)
      BY <1>3, <2>1 DEF SetPublicKey, KeySaved, OwnRow, Entry
    <2>2. CASE ~KeySaved(c)
      BY <1>3, <2>2, Zenon DEF SetPublicKey, KeyRejected, KeyUnchanged, KeyLimited, KeyAccepted
    <2> QED
      BY <2>1, <2>2
  <1>4. CASE UNCHANGED daemonVars
    BY <1>4 DEF daemonVars
  <1> QED
    BY <1>1, <1>2, <1>3, <1>4, StreamsOnlyAsk, Zenon DEF HubNext, Waiting, hubAll

(* The hook lock and the table. *)
LEMMA HookStep == HubInv /\ [HubNext]_hubAll => HookInv'
  <1> SUFFICES ASSUME HubInv, [HubNext]_hubAll
               PROVE  HookInv'
    OBVIOUS
  <1> USE DEF HubInv, HubTypeOK, HookInv, Places, Preparing, Installed, StreamTo, daemonVars,
              hubLocks,
              hubVars, streamVars
  <1>1. CASE Operator
    BY <1>1 DEF Operator, Publish, RevokeAgent, RegisterAgent
  <1>2. CASE DaemonStep
    BY <1>2 DEF DaemonStep, RevokeEntry, Disconnect, RetireIfDifferent, Detach, Push
  <1>3. ASSUME NEW c \in Streams, Open(c) \/ FirstMessage(c) \/ TakeAgentLock(c) \/ KeyPublished(c)
        PROVE  HookInv'
    BY <1>3 DEF Open, FirstMessage, TakeAgentLock, KeyPublished, KeyAccepted
  <1>4. ASSUME NEW c \in Streams, SetPublicKey(c)
        PROVE  HookInv'
    <2>1. at' = [at EXCEPT ![c] = at'[c]] /\ at'[c] \in {"applying", "hook", "ending"}
      BY <1>4 DEF SetPublicKey, KeyRejected, KeyUnchanged, KeyLimited, KeySaved, KeyAccepted
    <2>2. at[c] = "setkey" /\ UNCHANGED <<hook, conns, hubBeat>>
      BY <1>4, Zenon DEF SetPublicKey
    <2> QED
      BY <2>1, <2>2
  <1>5. ASSUME NEW c \in Streams, Admit(c)
        PROVE  HookInv'
    BY <1>5 DEF Admit
  <1>6. ASSUME NEW c \in Streams, Install(c)
        PROVE  HookInv'
    <2>1. hook = c /\ \A d \in Streams : ~hubBeat[d]
      BY <1>6 DEF Install
    <2>2. /\ at' = [at EXCEPT ![c] = "send"] /\ conns' = c /\ hubBeat' = hubBeat
      BY <1>6 DEF Install
    <2> QED
      BY <2>1, <2>2
  <1>7. ASSUME NEW c \in Streams, ReturnSlot(c) \/ FirstSelect(c) \/ FirstWrite(c) \/ End(c)
        PROVE  HookInv'
    <2>1. UNCHANGED <<hook, conns, hubBeat>>
      BY <1>7, Zenon DEF ReturnSlot, FirstSelect, FirstWrite, End
    <2>2. \/ at' = at
          \/ /\ at[c] \in {"send", "write"} /\ at'[c] \in Installed
             /\ at' = [at EXCEPT ![c] = at'[c]]
          \/ at[c] = "ending" /\ at' = [at EXCEPT ![c] = "gone"]
      BY <1>7 DEF ReturnSlot, FirstSelect, FirstWrite, End
    <2> QED
      BY <2>1, <2>2
  <1>8. ASSUME NEW c \in Streams, DropUnsent(c) \/ ReadFails(c)
        PROVE  HookInv'
    BY <1>8 DEF DropUnsent, ReadFails, DropStream
  <1>9. ASSUME NEW c \in Streams,
               WorkerTake(c) \/ WorkerSelect(c) \/ WorkerWrite(c) \/ WorkerStops(c)
        PROVE  HookInv'
    BY <1>9, Zenon DEF WorkerTake, WorkerSelect, WorkerWrite, WorkerStops
  <1>10. ASSUME NEW c \in Streams, Heartbeat(c) \/ HeartbeatDone(c)
         PROVE  HookInv'
    BY <1>10 DEF Heartbeat, HeartbeatDone
  <1>11. CASE UNCHANGED hubAll
    BY <1>11 DEF hubAll
  <1> QED
    BY <1>1, <1>2, <1>3, <1>4, <1>5, <1>6, <1>7, <1>8, <1>9, <1>10, <1>11, Zenon
       DEF HubNext, Serve, Waiting

(* The table and what is published: a stream is admitted under the hook    *)
(* lock with StateFor, and who changes what is published looks at the      *)
(* table under the same lock before it gives Daemon.mu back.               *)
LEMMA TableStep == HubInv /\ [HubNext]_hubAll => TableInv'
  <1> SUFFICES ASSUME HubInv, [HubNext]_hubAll
               PROVE  TableInv'
    OBVIOUS
  <1> USE DEF HubInv, HubTypeOK, TableInv, HookInv, DaemonInv, StateFor, OwnRow, Places, Preparing,
              Installed, StreamTo, daemonVars, hubLocks, hubVars, streamVars
  <1>1. CASE Operator
    BY <1>1, Zenon DEF Operator, Publish, RevokeAgent, RegisterAgent
  <1>2. CASE RevokeEntry \/ Push
    BY <1>2, Zenon DEF RevokeEntry, Push
  <1>3. CASE Disconnect
    BY <1>3 DEF Disconnect, Detach
  <1>4. CASE RetireIfDifferent
    BY <1>4 DEF RetireIfDifferent, Detach
  <1>5. ASSUME NEW c \in Streams, Open(c) \/ FirstMessage(c) \/ TakeAgentLock(c) \/ KeyPublished(c)
        PROVE  TableInv'
    BY <1>5 DEF Open, FirstMessage, TakeAgentLock, KeyPublished, KeyAccepted
  <1>6. ASSUME NEW c \in Streams, SetPublicKey(c)
        PROVE  TableInv'
    <2>1. at' = [at EXCEPT ![c] = at'[c]] /\ at'[c] \in {"applying", "hook", "ending"}
      BY <1>6 DEF SetPublicKey, KeyRejected, KeyUnchanged, KeyLimited, KeySaved, KeyAccepted
    <2>2. step = "none" /\ UNCHANGED <<id, key, conns>>
      BY <1>6, Zenon DEF SetPublicKey
    <2>3. step' = "none" => latest' = latest
      BY <1>6, <2>2 DEF SetPublicKey, KeyRejected, KeyUnchanged, KeyLimited, KeySaved
    <2>4. step' \in {"none", "retire"} /\ (row # Nil => row' # Nil /\ row'.id = row.id)
      BY <1>6, <2>2 DEF SetPublicKey, KeyRejected, KeyUnchanged, KeyLimited, KeySaved
    <2> QED
      BY <2>1, <2>2, <2>3, <2>4
  <1>7. ASSUME NEW c \in Streams, Admit(c)
        PROVE  TableInv'
    BY <1>7 DEF Admit
  <1>8. ASSUME NEW c \in Streams, Install(c)
        PROVE  TableInv'
    BY <1>8 DEF Install
  <1>9. ASSUME NEW c \in Streams,
               \/ ReturnSlot(c) \/ FirstSelect(c) \/ FirstWrite(c)
               \/ End(c) \/ DropUnsent(c) \/ ReadFails(c)
        PROVE  TableInv'
    <2>1. UNCHANGED <<daemonVars, id, key>> /\ conns' \in {conns, Nil}
      BY <1>9, Zenon DEF ReturnSlot, FirstSelect, FirstWrite, End, DropUnsent, ReadFails, DropStream
    <2>2. \A d \in Streams : at'[d] = "install" => at[d] = "install"
      BY <1>9 DEF ReturnSlot, FirstSelect, FirstWrite, End, DropUnsent, ReadFails, DropStream
    <2> QED
      BY <2>1, <2>2
  <1>10. ASSUME NEW c \in Streams,
                \/ WorkerTake(c) \/ WorkerSelect(c) \/ WorkerWrite(c) \/ WorkerStops(c)
                \/ Heartbeat(c) \/ HeartbeatDone(c)
         PROVE  TableInv'
    BY <1>10 DEF WorkerTake, WorkerSelect, WorkerWrite, WorkerStops, Heartbeat, HeartbeatDone
  <1>11. CASE UNCHANGED hubAll
    BY <1>11, Zenon DEF hubAll
  <1> QED
    BY <1>1, <1>2, <1>3, <1>4, <1>5, <1>6, <1>7, <1>8, <1>9, <1>10, <1>11, Zenon
       DEF HubNext, DaemonStep, Serve, Waiting

-----------------------------------------------------------------------------
(* Registrations are numbered upwards, and a refusal is forgotten by the   *)
(* acceptance that follows it.                                             *)
LEMMA NumberStep == HubInv /\ [HubNext]_hubAll => NumberInv'
  <1> SUFFICES ASSUME HubInv, [HubNext]_hubAll
               PROVE  NumberInv'
    OBVIOUS
  <1> USE DEF HubInv, HubTypeOK, NumberInv, RefusalIsNewest, OwnRow, daemonVars, hubVars, streamVars
  <1>1. CASE Operator
    <2>1. UNCHANGED <<refused, id, decided>>
      BY <1>1, Zenon DEF Operator, Publish, RevokeAgent, RegisterAgent
    <2>2. CASE Publish
      BY <2>1, <2>2, Zenon DEF Publish
    <2>3. CASE RevokeAgent
      BY <2>1, <2>3, Zenon DEF RevokeAgent
    <2>4. CASE RegisterAgent
      <3>1. nextId' = nextId + 1 /\ row' = [id |-> nextId, key |-> Nil]
        BY <2>4, Zenon DEF RegisterAgent
      <3> QED
        BY <2>1, <3>1
    <2> QED
      BY <1>1, <2>2, <2>3, <2>4 DEF Operator
  <1>2. CASE DaemonStep
    <2>1. UNCHANGED <<row, nextId, id, decided>> /\ (refused' = refused \/ refused' = Nil)
      BY <1>2, Zenon DEF DaemonStep, RevokeEntry, Disconnect, RetireIfDifferent, Detach, Push
    <2> QED
      BY <2>1
  <1>3. ASSUME NEW c \in Streams, Open(c)
        PROVE  NumberInv'
    BY <1>3, Zenon DEF Open
  <1>4. ASSUME NEW c \in Streams, SetPublicKey(c)
        PROVE  NumberInv'
    <2>1. CASE KeyRejected(c)
      BY <1>4, <2>1, Zenon DEF SetPublicKey, KeyRejected
    <2>2. CASE KeyUnchanged(c)
      BY <1>4, <2>2, Zenon DEF SetPublicKey, KeyUnchanged, KeyAccepted
    <2>3. CASE KeyLimited(c)
      BY <1>4, <2>3, Zenon DEF SetPublicKey, KeyLimited
    <2>4. CASE KeySaved(c)
      BY <1>4, <2>4 DEF SetPublicKey, KeySaved
    <2> QED
      BY <1>4, <2>1, <2>2, <2>3, <2>4, Zenon DEF SetPublicKey
  <1>5. ASSUME NEW c \in Streams, KeyPublished(c) \/ Install(c)
        PROVE  NumberInv'
    BY <1>5 DEF KeyPublished, KeyAccepted, Install
  <1>6. CASE UNCHANGED <<row, nextId, refused, id, decided>>
    BY <1>6, Zenon
  <1>7. ASSUME NEW c \in Streams,
               \/ FirstMessage(c) \/ TakeAgentLock(c) \/ Admit(c) \/ ReturnSlot(c)
               \/ FirstSelect(c) \/ FirstWrite(c) \/ DropUnsent(c) \/ ReadFails(c) \/ End(c)
               \/ WorkerTake(c) \/ WorkerSelect(c) \/ WorkerWrite(c) \/ WorkerStops(c)
               \/ Heartbeat(c) \/ HeartbeatDone(c)
        PROVE  UNCHANGED <<row, nextId, refused, id, decided>>
    BY <1>7, Zenon
       DEF FirstMessage, TakeAgentLock, Admit, ReturnSlot, FirstSelect, FirstWrite, DropUnsent,
           ReadFails, DropStream, End, WorkerTake, WorkerSelect, WorkerWrite, WorkerStops,
           Heartbeat,
           HeartbeatDone
  <1>8. CASE UNCHANGED hubAll
    BY <1>8, Zenon DEF hubAll
  <1> QED
    BY <1>1, <1>2, <1>3, <1>4, <1>5, <1>6, <1>7, <1>8, Zenon DEF HubNext, Serve, Waiting

-----------------------------------------------------------------------------
(* What one stream's writers have in hand. *)
Writers(c) ==
  /\ at[c] = "live" => worker[c] \in {"wait", "select", "write"}
  /\ at[c] \in Preparing \cup {"none", "send", "write", "drop"} => worker[c] = "off"

Newest(c) ==
  /\ at[c] = "write" \/ worker[c] = "write" => pick[c] = latest.ver \/ pushCh[c]
  /\ worker[c] = "wait" /\ ~missed[c] /\ ~closed[c] => sent[c] = latest.ver \/ pushCh[c]

(* A worker runs for a stream whose first State was written. *)
LEMMA WritersStep ==
  ASSUME HubInv, [HubNext]_hubAll, NEW d \in Streams
  PROVE  Writers(d)'
  <1> USE DEF Writers, Places, Preparing, Installed, StreamTo, streamVars, sendVars
  <1>0. /\ Writers(d) /\ at \in [Streams -> Places]
        /\ worker \in [Streams -> {"off", "wait", "select", "write", "done"}]
    BY DEF HubInv, HubTypeOK, SendInv
  <1>1. CASE UNCHANGED <<at, worker>>
    BY <1>0, <1>1
  <1>2. CASE Operator \/ DaemonStep \/ UNCHANGED hubAll
    BY <1>1, <1>2, Zenon
       DEF Operator, Publish, RevokeAgent, RegisterAgent, DaemonStep, RevokeEntry, Disconnect,
           RetireIfDifferent, Push, hubAll
  <1>3. ASSUME NEW c \in Streams,
               \/ Open(c) \/ FirstMessage(c) \/ TakeAgentLock(c)
               \/ KeyPublished(c) \/ Admit(c) \/ Install(c)
        PROVE  Writers(d)'
    BY <1>0, <1>3, Zenon
       DEF Open, FirstMessage, TakeAgentLock, KeyPublished, KeyAccepted, Admit, Install
  <1>4. ASSUME NEW c \in Streams, SetPublicKey(c)
        PROVE  Writers(d)'
    BY <1>0, <1>4 DEF SetPublicKey, KeyRejected, KeyUnchanged, KeyLimited, KeySaved, KeyAccepted
  <1>5. ASSUME NEW c \in Streams,
               FirstSelect(c) \/ FirstWrite(c) \/ DropUnsent(c) \/ ReadFails(c) \/ End(c)
        PROVE  Writers(d)'
    BY <1>0, <1>5, Zenon DEF FirstSelect, FirstWrite, DropUnsent, ReadFails, DropStream, End
  <1>6. ASSUME NEW c \in Streams,
               WorkerTake(c) \/ WorkerSelect(c) \/ WorkerWrite(c) \/ WorkerStops(c)
        PROVE  Writers(d)'
    BY <1>0, <1>6, Zenon DEF WorkerTake, WorkerSelect, WorkerWrite, WorkerStops
  <1>7. ASSUME NEW c \in Streams, ReturnSlot(c) \/ Heartbeat(c) \/ HeartbeatDone(c)
        PROVE  Writers(d)'
    BY <1>1, <1>7, Zenon DEF ReturnSlot, Heartbeat, HeartbeatDone
  <1> QED
    BY <1>2, <1>3, <1>4, <1>5, <1>6, <1>7, Zenon DEF HubNext, Serve, Waiting

(* Steps that neither publish nor send for the stream in the table.        *)
LEMMA NewestKept ==
  ASSUME HubInv, NEW d \in Streams, step = "none", conns = d,
         UNCHANGED <<latest, pushCh>>, pick'[d] = pick[d], sent'[d] = sent[d],
         missed'[d] = missed[d], worker'[d] = worker[d],
         at'[d] = "write" => at[d] = "write", closed[d] => closed'[d]
  PROVE  Newest(d)'
  BY Zenon DEF Newest, HubInv, SendInv

(* sendState, from serve and from the push worker: what it writes was the  *)
(* newest when it was selected, and a publication since then left a push.  *)
LEMMA SendersNewest ==
  ASSUME HubInv, NEW d \in Streams, NEW c \in Streams, step = "none", conns = d,
         \/ FirstSelect(c) \/ FirstWrite(c)
         \/ WorkerTake(c) \/ WorkerSelect(c) \/ WorkerWrite(c) \/ WorkerStops(c)
  PROVE  Newest(d)'
  <1> USE DEF HubTypeOK, Places, Preparing, Installed, StreamTo, daemonVars, hubVars, streamVars,
              sendVars
  <1>0. Newest(d) /\ Writers(d) /\ StateFor(d) /\ HubTypeOK
    BY Zenon DEF HubInv, SendInv, TableInv, Newest, Writers
  <1>1. CASE c # d
    <2>1. /\ UNCHANGED latest /\ pushCh'[d] = pushCh[d] /\ pick'[d] = pick[d] /\ sent'[d] = sent[d]
          /\ missed'[d] = missed[d]
      BY <1>0, <1>1, Zenon
         DEF FirstSelect, FirstWrite, WorkerTake, WorkerSelect, WorkerWrite, WorkerStops
    <2>2. worker'[d] = worker[d] /\ at'[d] = at[d] /\ closed'[d] = closed[d]
      BY <1>0, <1>1, Zenon
         DEF FirstSelect, FirstWrite, WorkerTake, WorkerSelect, WorkerWrite, WorkerStops
    <2> QED
      BY <1>0, <2>1, <2>2, Zenon DEF Newest
  <1>2. CASE c = d
    <2>1. CASE FirstSelect(d)
      BY <1>0, <2>1, Zenon DEF FirstSelect, Newest, Writers
    <2>2. CASE FirstWrite(d)
      BY <1>0, <2>2, Zenon DEF FirstWrite, Newest, Writers
    <2>3. CASE WorkerTake(d) \/ WorkerStops(d)
      BY <1>0, <2>3 DEF WorkerTake, WorkerStops, Newest, Writers
    <2>4. CASE WorkerSelect(d)
      BY <1>0, <2>4 DEF WorkerSelect, Newest, Writers
    <2>5. CASE WorkerWrite(d)
      BY <1>0, <2>5, Zenon DEF WorkerWrite, Newest, Writers
    <2> QED
      BY <1>2, <2>1, <2>2, <2>3, <2>4, <2>5, Zenon
  <1> QED
    BY <1>1, <1>2, Zenon

(* sendState: the stream in place has what was published last, or somebody
   still has to write it. *)
LEMMA NewestStep ==
  ASSUME HubInv, [HubNext]_hubAll, NEW d \in Streams, step' = "none", conns' = d
  PROVE  Newest(d)'
  <1> USE DEF HubInv, HubTypeOK, DaemonInv, StreamTo, daemonVars, hubVars, streamVars, sendVars
  <1>1. CASE Push
    BY <1>1, Zenon DEF Push, Newest
  <1>2. CASE Operator \/ RevokeEntry \/ Disconnect \/ RetireIfDifferent \/ UNCHANGED hubAll
    <2>1. step = "none" /\ conns = d /\ UNCHANGED <<latest, sendVars, streamVars>>
      BY <1>2, Zenon DEF Operator, Publish, RevokeAgent, RegisterAgent, RevokeEntry, Disconnect,
                         Detach,
             RetireIfDifferent, hubAll
    <2> QED
      BY <2>1, NewestKept, Zenon
  <1>3. ASSUME NEW c \in Streams, Install(c)
        PROVE  Newest(d)'
    <2>1. c = d /\ worker[d] = "off" /\ UNCHANGED sendVars /\ at'[d] = "send"
      BY <1>3, Zenon DEF Install, SendInv, Preparing
    <2> QED
      BY <2>1, Zenon DEF Newest
  <1>4. ASSUME NEW c \in Streams, SetPublicKey(c)
        PROVE  Newest(d)'
    <2>1. step = "none" /\ conns = d /\ UNCHANGED <<sendVars, closed>>
      BY <1>4, Zenon DEF SetPublicKey
    <2>2. latest' = latest
      BY <1>4 DEF SetPublicKey, KeyRejected, KeyUnchanged, KeyLimited, KeySaved
    <2>3. at'[d] = "write" => at[d] = "write"
      BY <1>4 DEF SetPublicKey, KeyRejected, KeyUnchanged, KeyLimited, KeySaved, KeyAccepted
    <2> QED
      BY <2>1, <2>2, <2>3, NewestKept, Zenon
  <1>5. ASSUME NEW c \in Streams,
               \/ Open(c) \/ FirstMessage(c) \/ TakeAgentLock(c) \/ KeyPublished(c) \/ Admit(c)
               \/ ReturnSlot(c) \/ DropUnsent(c) \/ ReadFails(c) \/ End(c)
               \/ Heartbeat(c) \/ HeartbeatDone(c)
        PROVE  Newest(d)'
    <2>1. step = "none" /\ conns = d /\ UNCHANGED <<latest, sendVars>>
      BY <1>5, Zenon
         DEF Open, FirstMessage, TakeAgentLock, KeyPublished, KeyAccepted, Admit, ReturnSlot,
             DropUnsent, ReadFails, DropStream, End, Heartbeat, HeartbeatDone
    <2>2. (at'[d] = "write" => at[d] = "write") /\ (closed[d] => closed'[d])
      BY <1>5, Zenon
         DEF Open, FirstMessage, TakeAgentLock, KeyPublished, KeyAccepted, Admit, ReturnSlot,
             DropUnsent, ReadFails, DropStream, End, Heartbeat, HeartbeatDone
    <2> QED
      BY <2>1, <2>2, NewestKept, Zenon
  <1>6. ASSUME NEW c \in Streams,
               \/ FirstSelect(c) \/ FirstWrite(c)
               \/ WorkerTake(c) \/ WorkerSelect(c) \/ WorkerWrite(c) \/ WorkerStops(c)
        PROVE  Newest(d)'
    <2>1. step = "none" /\ conns = d
      BY <1>6, Zenon DEF FirstSelect, FirstWrite, WorkerTake, WorkerSelect, WorkerWrite, WorkerStops
    <2> QED
      BY <1>6, <2>1, SendersNewest, Zenon
  <1> QED
    BY <1>1, <1>2, <1>3, <1>4, <1>5, <1>6, Zenon DEF HubNext, DaemonStep, Serve, Waiting

(* So no push is lost, whoever writes. *)
LEMMA SendStep == HubInv /\ [HubNext]_hubAll => SendInv'
  BY WritersStep, NewestStep, Zenon DEF SendInv, Writers, Newest

-----------------------------------------------------------------------------
(* The pending slots.  Counted are the streams that hold one.              *)
Counted == {c \in Streams : slot[c] \in {"held", "waiting"}}

Slots(c) ==
  /\ at[c] \in Preparing => slot[c] = "held"
  /\ at[c] = "none" => slot[c] = "none"
  /\ at[c] \in Installed => slot[c] # "held"
  /\ slot[c] = "waiting" => replaced[c] # Nil
  /\ replaced[c] # Nil => at[replaced[c]] # "none"
  /\ replaced[c] # Nil /\ Open_(replaced[c]) => slot[c] = "waiting"

(* reservePending and releasePending: pending counts the streams that hold a
   slot, and never exceeds the limit. *)
LEMMA CountStep ==
  ASSUME HubInv, [HubNext]_hubAll
  PROVE  pending' = Cardinality(Counted') /\ pending' <= MaxPending
  <1> USE DEF HubInv, HubTypeOK, hubVars, streamVars
  <1>0. pending = Cardinality(Counted) /\ pending <= MaxPending /\ IsFiniteSet(Counted)
    BY FS_Subset, Zenon DEF SlotInv, Counted
  <1>1. CASE UNCHANGED <<pending, slot>>
    BY <1>0, <1>1 DEF Counted
  <1>2. ASSUME NEW c \in Streams, Open(c)
        PROVE  pending' = Cardinality(Counted') /\ pending' <= MaxPending
    <2>1. slot[c] = "none" /\ Counted' = Counted \cup {c} /\ c \notin Counted
      BY <1>2 DEF Open, SlotInv, Counted
    <2>2. pending' = pending + 1 /\ pending < MaxPending
      BY <1>2, Zenon DEF Open
    <2>3. Cardinality(Counted \cup {c}) = Cardinality(Counted) + 1
      BY <1>0, <2>1, FS_AddElement, Zenon
    <2> QED
      BY <1>0, <2>1, <2>2, <2>3
  <1>3. ASSUME NEW c \in Streams, slot[c] \in {"held", "waiting"},
               slot' = [slot EXCEPT ![c] = "free"], pending' = pending - 1
        PROVE  pending' = Cardinality(Counted') /\ pending' <= MaxPending
    <2>1. Counted' = Counted \ {c}
      BY <1>3 DEF Counted
    <2>2. pending - 1 = Cardinality(Counted \ {c})
      BY <1>3, SlotCounted, Zenon DEF Counted
    <2> QED
      BY <1>0, <1>3, <2>1, <2>2
  <1>4. ASSUME NEW c \in Streams, Install(c) \/ ReturnSlot(c) \/ End(c)
        PROVE  pending' = Cardinality(Counted') /\ pending' <= MaxPending
    <2>1. CASE Install(c) /\ conns # Nil
      <3>1. slot[c] = "held" /\ Counted' = Counted /\ pending' = pending
        BY <2>1, Zenon DEF Install, SlotInv, Preparing, Counted
      <3> QED
        BY <1>0, <3>1
    <2>2. CASE Install(c) /\ conns = Nil
      BY <1>3, <2>2, Zenon DEF Install, SlotInv, Preparing
    <2>3. CASE ReturnSlot(c)
      BY <1>3, <2>3, Zenon DEF ReturnSlot
    <2>4. CASE End(c)
      <3>1. CASE slot[c] = "held"
        BY <1>3, <2>4, <3>1, Zenon DEF End
      <3>2. CASE slot[c] # "held"
        BY <1>1, <2>4, <3>2 DEF End
      <3> QED
        BY <3>1, <3>2, Zenon
    <2> QED
      BY <1>4, <2>1, <2>2, <2>3, <2>4, Zenon
  <1>5. CASE Operator \/ DaemonStep \/ UNCHANGED hubAll
    BY <1>1, <1>5, Zenon
       DEF Operator, Publish, RevokeAgent, RegisterAgent, DaemonStep, RevokeEntry, Disconnect,
           RetireIfDifferent, Detach, Push, hubAll
  <1>6. ASSUME NEW c \in Streams,
               \/ FirstMessage(c) \/ KeyPublished(c) \/ FirstSelect(c) \/ FirstWrite(c)
               \/ DropUnsent(c) \/ ReadFails(c) \/ WorkerTake(c) \/ WorkerSelect(c)
               \/ WorkerWrite(c) \/ WorkerStops(c) \/ Heartbeat(c) \/ HeartbeatDone(c) \/ Waiting(c)
        PROVE  UNCHANGED <<pending, slot>>
    BY <1>6, Zenon
       DEF FirstMessage, KeyPublished, FirstSelect, FirstWrite, DropUnsent, ReadFails, DropStream,
           WorkerTake, WorkerSelect, WorkerWrite, WorkerStops, Heartbeat, HeartbeatDone, Waiting,
           TakeAgentLock, SetPublicKey, Admit
  <1> QED
    BY <1>1, <1>2, <1>4, <1>5, <1>6, Zenon DEF HubNext, Serve

(* Which streams hold a slot: those that are not installed yet, and one that
   waits for the stream it replaced. *)
LEMMA SlotsStep ==
  ASSUME HubInv, [HubNext]_hubAll, NEW d \in Streams
  PROVE  Slots(d)'
  <1> USE DEF HubTypeOK, Slots, Open_, Places, Preparing, Installed, StreamTo, hubVars, streamVars
  <1>0. HubTypeOK /\ \A c \in Streams : Slots(c) /\ (conns = c => at[c] \in Installed)
    BY Zenon DEF HubInv, SlotInv, HookInv
  <1>1. CASE Operator \/ DaemonStep \/ UNCHANGED hubAll
    <2>1. UNCHANGED <<at, slot, replaced>>
      BY <1>1, Zenon DEF Operator, Publish, RevokeAgent, RegisterAgent, DaemonStep, RevokeEntry,
                         Disconnect,
             RetireIfDifferent, Detach, Push, hubAll
    <2> QED
      BY <1>0, <2>1
  <1>2. ASSUME NEW c \in Streams, Open(c)
        PROVE  Slots(d)'
    BY <1>0, <1>2 DEF Open
  <1>3. ASSUME NEW c \in Streams, Install(c)
        PROVE  Slots(d)'
    <2>1. /\ at' = [at EXCEPT ![c] = "send"] /\ replaced' = [replaced EXCEPT ![c] = conns]
          /\ slot' = [slot EXCEPT ![c] = IF conns = Nil THEN "free" ELSE "waiting"]
      BY <1>0, <1>3 DEF Install
    <2>2. at[c] = "install"
      BY <1>3, Zenon DEF Install
    <2>3. CASE d = c
      BY <1>0, <2>1, <2>2, <2>3
    <2>4. CASE d # c
      BY <1>0, <2>1, <2>2, <2>4
    <2> QED
      BY <2>3, <2>4
  <1>4. ASSUME NEW c \in Streams, ReturnSlot(c)
        PROVE  Slots(d)'
    BY <1>0, <1>4 DEF ReturnSlot
  <1>5. ASSUME NEW c \in Streams, End(c)
        PROVE  Slots(d)'
    <2>1. at[c] = "ending" /\ at' = [at EXCEPT ![c] = "gone"] /\ UNCHANGED replaced
      BY <1>5 DEF End
    <2>2. \/ slot' = slot
          \/ slot[c] = "held" /\ slot' = [slot EXCEPT ![c] = "free"]
      BY <1>5 DEF End
    <2> QED
      BY <1>0, <2>1, <2>2
  <1>6. ASSUME NEW c \in Streams, UNCHANGED <<slot, replaced>>,
               \/ at' = at
               \/ /\ at' = [at EXCEPT ![c] = at'[c]]
                  /\ \/ at[c] \in Preparing /\ at'[c] \in Preparing \cup {"ending"}
                     \/ at[c] \in Installed /\ at'[c] \in Installed \cup {"ending"}
        PROVE  Slots(d)'
    BY <1>0, <1>6
  <1>7. ASSUME NEW c \in Streams, FirstMessage(c) \/ TakeAgentLock(c) \/ KeyPublished(c) \/ Admit(c)
        PROVE  Slots(d)'
    BY <1>0, <1>6, <1>7 DEF FirstMessage, TakeAgentLock, KeyPublished, KeyAccepted, Admit
  <1>8. ASSUME NEW c \in Streams, SetPublicKey(c)
        PROVE  Slots(d)'
    BY <1>0, <1>6, <1>8
       DEF SetPublicKey, KeyRejected, KeyUnchanged, KeyLimited, KeySaved, KeyAccepted
  <1>9. ASSUME NEW c \in Streams, FirstSelect(c) \/ FirstWrite(c) \/ DropUnsent(c) \/ ReadFails(c)
        PROVE  Slots(d)'
    BY <1>0, <1>6, <1>9 DEF FirstSelect, FirstWrite, DropUnsent, ReadFails, DropStream
  <1>10. ASSUME NEW c \in Streams,
                \/ WorkerTake(c) \/ WorkerSelect(c) \/ WorkerWrite(c) \/ WorkerStops(c)
                \/ Heartbeat(c) \/ HeartbeatDone(c)
         PROVE  Slots(d)'
    BY <1>0, <1>6, <1>10, Zenon DEF WorkerTake, WorkerSelect, WorkerWrite, WorkerStops, Heartbeat,
           HeartbeatDone
  <1> QED
    BY <1>1, <1>2, <1>3, <1>4, <1>5, <1>7, <1>8, <1>9, <1>10, Zenon DEF HubNext, Serve, Waiting

(* The slots, all of them. *)
LEMMA SlotStep == HubInv /\ [HubNext]_hubAll => SlotInv'
  BY CountStep, SlotsStep, Zenon DEF SlotInv, Slots, Counted

-----------------------------------------------------------------------------
(* A hub without streams. *)
LEMMA InvInit == HubInit => HubInv
  <1> SUFFICES ASSUME HubInit PROVE HubInv
    OBVIOUS
  <1>1. {c \in Streams : slot[c] \in {"held", "waiting"}} = {}
    BY Zenon DEF HubInit
  <1>2. SlotInv
    <2>1. pending = 0 /\ 0 <= MaxPending /\ Cardinality({}) = 0
      BY FS_EmptySet DEF HubInit
    <2>2. \A c \in Streams : at[c] = "none" /\ slot[c] = "none" /\ replaced[c] = Nil
      BY DEF HubInit
    <2> QED
      BY <1>1, <2>1, <2>2, Zenon DEF SlotInv, Preparing, Installed
  <1>3. DaemonInv /\ HookInv /\ TableInv /\ SendInv
    BY DEF HubInit, DaemonInv, HookInv, TableInv, SendInv
  <1>4. NumberInv
    BY DEF HubInit, NumberInv, RefusalIsNewest
  <1> QED
    BY <1>2, <1>3, <1>4, TypeInit DEF HubInv

(* The invariant behind the theorems below: the three locks are held by    *)
(* who is where they are needed, and the table, the versions in hand and   *)
(* the slots agree with them (hub.go: serve, pushWorker, Disconnect,       *)
(* RetireIfDifferent, reservePending, returnSlot).                         *)
THEOREM HubInvariant == HubSpec => []HubInv
  <1>1. HubInv /\ [HubNext]_hubAll => HubInv'
    BY TypeStep, DaemonStepInv, HookStep, TableStep, NumberStep, SendStep, SlotStep, Zenon
       DEF HubInv
  <1> QED
    BY <1>1, InvInit, PTL DEF HubSpec

(* Outside a commit or a revocation the stream in the table is one of the  *)
(* published registration and key (hub.go: StateFor under the hook lock),  *)
(* for any number of streams and operations.                               *)
THEOREM HubInstalledIsPublished == HubSpec => []InstalledIsPublished
  <1>1. HubInv => InstalledIsPublished
    BY DEF HubInv, HubTypeOK, DaemonInv, TableInv, InstalledIsPublished
  <1> QED
    BY <1>1, HubInvariant, PTL

(* A replaced stream is covered by the slot of the stream that replaced it,*)
(* so that what is open is no more than the slots and the current stream.  *)
LEMMA OpenAreCovered ==
  ASSUME HubInv
  PROVE  Cardinality({c \in Streams : Open_(c) /\ ~LeftByItself(c)}) <= MaxPending + 1
  <1> DEFINE Kept == {c \in Streams : Open_(c) /\ ~LeftByItself(c)}
             Stands == [c \in Counted |-> IF slot[c] = "held" THEN c ELSE replaced[c]]
             Covered == {Stands[c] : c \in Counted}
  <1>1. IsFiniteSet(Counted) /\ Cardinality(Counted) <= MaxPending
    BY FS_Subset DEF HubInv, SlotInv, Counted
  <1>2. Stands \in Surjection(Counted, Covered)
    BY DEF Surjection
  <1>3. IsFiniteSet(Covered) /\ Cardinality(Covered) <= Cardinality(Counted)
    BY <1>1, <1>2, FS_Surjection
  <1>4. /\ IsFiniteSet(Covered \cup {conns})
        /\ Cardinality(Covered \cup {conns}) <= Cardinality(Covered) + 1
    <2>1. Cardinality(Covered) \in Nat
      BY <1>3, FS_CardinalityType
    <2>2. /\ IsFiniteSet(Covered \cup {conns})
          /\ Cardinality(Covered \cup {conns})
               = IF conns \in Covered THEN Cardinality(Covered) ELSE Cardinality(Covered) + 1
      <3> HIDE DEF Covered
      <3> QED
        BY <1>3, FS_AddElement
    <2> HIDE DEF Covered
    <2> QED
      BY <2>1, <2>2
  <1>5. Kept \subseteq Covered \cup {conns}
    <2> SUFFICES ASSUME NEW c \in Streams, Open_(c), ~LeftByItself(c), c # conns
                 PROVE  \E d \in Counted : c = Stands[d]
      OBVIOUS
    <2>1. CASE slot[c] = "held"
      BY <2>1 DEF Counted
    <2>2. CASE slot[c] # "held"
      <3>1. PICK d \in Streams : replaced[d] = c
        BY <2>2 DEF LeftByItself
      <3>2. slot[d] = "waiting"
        BY <3>1 DEF HubInv, SlotInv
      <3> QED
        BY <3>1, <3>2 DEF Counted
    <2> QED
      BY <2>1, <2>2
  <1>6. Cardinality(Kept) <= Cardinality(Covered \cup {conns})
    BY <1>4, <1>5, FS_Subset, Zenon
  <1>7. /\ IsFiniteSet(Kept) /\ Cardinality(Kept) \in Nat /\ Cardinality(Covered) \in Nat
        /\ Cardinality(Counted) \in Nat /\ Cardinality(Covered \cup {conns}) \in Nat
    BY <1>1, <1>3, <1>4, <1>5, FS_Subset, FS_CardinalityType
  <1> QED
    BY <1>1, <1>3, <1>4, <1>6, <1>7

(* No push is lost, the open streams of an agent are bounded, a heartbeat  *)
(* is recorded for the current stream only, and a refusal shown is the     *)
(* newest decision (hub.go: pushWorker, returnSlot, serve), for any number *)
(* of streams, keys, operations and slots.                                 *)
THEOREM HubIsTruthful == HubSpec => []HubTruthful
  <1>1. HubInv => NoPushLost
    BY Zenon DEF HubInv, HubTypeOK, DaemonInv, SendInv, NoPushLost
  <1>2. HubInv => StreamsBounded
    BY OpenAreCovered DEF HubInv, SlotInv, StreamsBounded
  <1>3. HubInv => HeartbeatIsCurrent /\ RefusalIsNewest
    BY Zenon DEF HubInv, HookInv, NumberInv, HeartbeatIsCurrent
  <1> QED
    BY <1>1, <1>2, <1>3, HubInvariant, PTL DEF HubTruthful
=============================================================================
