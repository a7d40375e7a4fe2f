-------------------------------- MODULE Hub --------------------------------
(***************************************************************************)
(* The stream hub of the server (internal/vpsd/stream/hub.go) for one      *)
(* agent name: streams that authenticate, declare a key and are installed, *)
(* the push worker and the heartbeats of an installed stream, and the      *)
(* calls Daemon makes into the hub while it holds Daemon.mu (a commit      *)
(* retires streams and pushes, a revocation disconnects).                  *)
(*                                                                         *)
(* Three locks matter and are taken in one order: the agent lock, then     *)
(* Daemon.mu, then the hook lock.  Hub.mu is held for single steps only    *)
(* and is the atomicity of an action.  A registration is a number, a       *)
(* published State is its version.                                         *)
(***************************************************************************)
EXTENDS Naturals, FiniteSets

CONSTANTS
    Streams,      \* WebSocket connections of the agent
    Keys,         \* public keys
    Nil,         \* nothing
    Admin,        \* the holder of Daemon.mu that is not a stream
    MaxPending,   \* maxPendingPerAgent
    MaxOps,       \* bound on operations of the operator
    MaxMisses     \* bound on database errors while a State is selected

VARIABLES
    row,          \* the agents row: [id, key] or Nil
    latest,       \* the published entry: [id, key, ver] or Nil
    ver,          \* versions published so far
    nextId, ops, misses,
    daemon,       \* the holder of Daemon.mu, or Nil
    step,         \* what that holder does next
    agentLock, hook,          \* the holders of the per-agent locks
    conns,        \* Hub.conns[agent]
    hubConnected,    \* Status.Connected
    refused,      \* Status.KeyChangeRefusedBy
    pending,      \* Hub.pending[agent]
    at, id, key,  \* a stream: where serve is, identity, declared key
    slot,         \* its pending slot: "none", "held", "waiting", "free"
    replaced,     \* the stream it replaced, whose end it waits for
    closed,       \* its WebSocket is closed or broken
    pushCh,       \* a push is queued
    worker,       \* its pushWorker
    pick,         \* the version being written
    sent,         \* the last version written
    hubBeat,      \* its heartbeat is inside OnHeartbeat
    missed,       \* history: a selection failed and no push is queued since
    decided       \* history: the last key decision: [id, ok] or Nil

daemonVars == <<row, latest, ver, nextId, ops, daemon, step>>
hubLocks == <<agentLock, hook>>
hubVars == <<conns, hubConnected, refused, pending>>
streamVars == <<at, id, key, slot, replaced, closed>>
sendVars == <<pushCh, worker, pick, sent, missed, misses>>
hubAll == <<daemonVars, hubLocks, hubVars, streamVars, sendVars, hubBeat, decided>>

Preparing == {"first", "lock", "setkey", "applying", "hook", "install"}
Installed == {"send", "write", "drop", "live"}
Places == Preparing \cup Installed \cup {"none", "ending", "gone"}
Entry == [id : Nat, key : Keys \cup {Nil}, ver : Nat]

ASSUME HubAssumption ==
    /\ IsFiniteSet(Streams) /\ Nil \notin Streams \cup Keys \cup Nat
    /\ Admin \notin Streams \cup {Nil} /\ {MaxPending, MaxOps, MaxMisses} \subseteq Nat
    /\ Nil \notin [id : Nat, key : Keys \cup {Nil}] \cup Entry
    /\ Nil \notin [id : Nat, ok : BOOLEAN]

HubTypeOK ==
    /\ row \in [id : Nat, key : Keys \cup {Nil}] \cup {Nil}
    /\ latest \in Entry \cup {Nil}
    /\ ver \in Nat /\ nextId \in Nat /\ ops \in 0 .. MaxOps /\ misses \in 0 .. MaxMisses
    /\ daemon \in Streams \cup {Nil, Admin}
    /\ step \in {"none", "entry", "disconnect", "retire", "push"}
    /\ agentLock \in Streams \cup {Nil} /\ hook \in Streams \cup {Nil}
    /\ conns \in Streams \cup {Nil} /\ hubConnected \in BOOLEAN /\ refused \in Nat \cup {Nil}
    /\ pending \in Nat
    /\ at \in [Streams -> Places] /\ id \in [Streams -> Nat]
    /\ key \in [Streams -> Keys \cup {Nil}]
    /\ slot \in [Streams -> {"none", "held", "waiting", "free"}]
    /\ replaced \in [Streams -> Streams \cup {Nil}]
    /\ closed \in [Streams -> BOOLEAN] /\ pushCh \in [Streams -> BOOLEAN]
    /\ worker \in [Streams -> {"off", "wait", "select", "write", "done"}]
    /\ pick \in [Streams -> Nat] /\ sent \in [Streams -> Nat]
    /\ hubBeat \in [Streams -> BOOLEAN] /\ missed \in [Streams -> BOOLEAN]
    /\ decided \in [id : Nat, ok : BOOLEAN] \cup {Nil}

HubInit ==
    /\ row = [id |-> 0, key |-> Nil] /\ latest = Nil /\ ver = 0
    /\ nextId = 1 /\ ops = 0 /\ misses = 0
    /\ daemon = Nil /\ step = "none" /\ agentLock = Nil /\ hook = Nil
    /\ conns = Nil /\ hubConnected = FALSE /\ refused = Nil /\ pending = 0
    /\ at = [c \in Streams |-> "none"] /\ id = [c \in Streams |-> 0]
    /\ key = [c \in Streams |-> Nil] /\ slot = [c \in Streams |-> "none"]
    /\ replaced = [c \in Streams |-> Nil]
    /\ closed = [c \in Streams |-> FALSE] /\ pushCh = [c \in Streams |-> FALSE]
    /\ worker = [c \in Streams |-> "off"] /\ pick = [c \in Streams |-> 0]
    /\ sent = [c \in Streams |-> 0] /\ hubBeat = [c \in Streams |-> FALSE]
    /\ missed = [c \in Streams |-> FALSE] /\ decided = Nil

StreamTo(c, where) == at' = [at EXCEPT ![c] = where]

OwnRow(c) == row # Nil /\ row.id = id[c]

(* Daemon.StateFor: the row and the published entry are this stream's.     *)
StateFor(c) ==
    /\ OwnRow(c)
    /\ latest # Nil /\ latest.id = id[c] /\ latest.key = key[c]

-----------------------------------------------------------------------------
(* ServeHTTP: Authenticate, reservePending, Authenticated, Accept.         *)
Open(c) ==
    /\ at[c] = "none"
    /\ row # Nil
    /\ pending < MaxPending
    /\ pending' = pending + 1
    /\ slot' = [slot EXCEPT ![c] = "held"]
    /\ id' = [id EXCEPT ![c] = row.id]
    /\ StreamTo(c, "first")
    /\ UNCHANGED <<daemonVars, hubLocks, conns, hubConnected, refused, key, replaced, closed,
                   sendVars, hubBeat, decided>>

(* The first message: a key and a protocol range that pass the checks, or  *)
(* anything else, including none in time.                                  *)
FirstMessage(c) ==
    /\ at[c] = "first"
    /\ \/ /\ \E k \in Keys : key' = [key EXCEPT ![c] = k]
          /\ StreamTo(c, "lock")
       \/ /\ StreamTo(c, "ending")
          /\ UNCHANGED key
    /\ UNCHANGED <<daemonVars, hubLocks, hubVars, id, slot, replaced, closed, sendVars,
                   hubBeat, decided>>

TakeAgentLock(c) ==
    /\ at[c] = "lock"
    /\ agentLock = Nil
    /\ agentLock' = c
    /\ StreamTo(c, "setkey")
    /\ UNCHANGED <<daemonVars, hook, hubVars, id, key, slot, replaced, closed, sendVars,
                   hubBeat, decided>>

(* Daemon.SetPublicKey, which takes Daemon.mu.  Four outcomes: an error    *)
(* (registration changed, or the apply after saving failed), the key that  *)
(* is saved or published already, a refusal by the change-rate limit, and  *)
(* a saved and published key, after which apply retires and pushes.        *)
KeyRejected(c) ==
    /\ ~OwnRow(c)
    /\ agentLock' = Nil
    /\ StreamTo(c, "ending")
    /\ UNCHANGED <<row, latest, ver, daemon, step, refused, decided>>

(* The refusal notice stays after a later acceptance. *)
KeyAcceptedQuietly(c) ==
    /\ decided' = [id |-> id[c], ok |-> TRUE]
    /\ StreamTo(c, "hook")
    /\ UNCHANGED refused

KeyKnown(c) == row.key = key[c] \/ StateFor(c)

KeyAccepted(c) ==
    /\ refused' = Nil                                  \* clearKeyChangeRefused
    /\ decided' = [id |-> id[c], ok |-> TRUE]
    /\ StreamTo(c, "hook")

KeyUnchanged(c) ==
    /\ OwnRow(c) /\ KeyKnown(c)
    /\ KeyAccepted(c)
    /\ UNCHANGED <<row, latest, ver, daemon, step, agentLock>>

(* ErrKeyChangeLimited, noted before the agent lock is given back.         *)
KeyLimited(c) ==
    /\ OwnRow(c) /\ ~KeyKnown(c) /\ row.key # Nil
    /\ refused' = id[c]
    /\ decided' = [id |-> id[c], ok |-> FALSE]
    /\ agentLock' = Nil
    /\ StreamTo(c, "ending")
    /\ UNCHANGED <<row, latest, ver, daemon, step>>

KeySaved(c) ==
    /\ OwnRow(c) /\ ~KeyKnown(c)
    /\ row' = [row EXCEPT !.key = key[c]]
    /\ \/ /\ ver' = ver + 1                             \* committed
          /\ latest' = [id |-> row.id, key |-> key[c], ver |-> ver + 1]
          /\ daemon' = c /\ step' = "retire"
          /\ StreamTo(c, "applying")
          /\ UNCHANGED agentLock
       \/ /\ agentLock' = Nil                          \* the apply failed
          /\ StreamTo(c, "ending")
          /\ UNCHANGED <<latest, ver, daemon, step>>
    /\ UNCHANGED <<refused, decided>>

SetPublicKey(c) ==
    /\ at[c] = "setkey"
    /\ daemon = Nil
    /\ KeyRejected(c) \/ KeyUnchanged(c) \/ KeyLimited(c) \/ KeySaved(c)
    /\ UNCHANGED <<nextId, ops, hook, conns, hubConnected, pending, id, key, slot, replaced,
                   closed, sendVars, hubBeat>>

(* SetPublicKey returned nil after its apply.                              *)
KeyPublished(c) ==
    /\ at[c] = "applying"
    /\ daemon # c
    /\ KeyAccepted(c)
    /\ UNCHANGED <<daemonVars, hubLocks, conns, hubConnected, pending, id, key, slot, replaced,
                   closed, sendVars, hubBeat>>

(* The admission trusts what SetPublicKey found before the hook lock. *)
AdmitUnchecked(c) ==
    /\ at[c] = "hook"
    /\ hook = Nil
    /\ hook' = c
    /\ StreamTo(c, "install")
    /\ UNCHANGED <<daemonVars, agentLock, hubVars, id, key, slot, replaced, closed, sendVars,
                   hubBeat, decided>>

(* The refused admission returns without giving the agent lock back. *)
AdmitLeavesLock(c) ==
    /\ at[c] = "hook"
    /\ hook = Nil
    /\ IF StateFor(c)
       THEN hook' = c /\ StreamTo(c, "install")
       ELSE StreamTo(c, "ending") /\ UNCHANGED hook
    /\ UNCHANGED <<daemonVars, agentLock, hubVars, id, key, slot, replaced, closed, sendVars,
                   hubBeat, decided>>

(* hookLock and the admission check.                                       *)
Admit(c) ==
    /\ at[c] = "hook"
    /\ hook = Nil
    /\ \/ /\ StateFor(c)
          /\ hook' = c
          /\ StreamTo(c, "install")
          /\ UNCHANGED agentLock
       \/ /\ ~StateFor(c)
          /\ agentLock' = Nil
          /\ StreamTo(c, "ending")
          /\ UNCHANGED hook
    /\ UNCHANGED <<daemonVars, hubVars, id, key, slot, replaced, closed, sendVars, hubBeat,
                   decided>>

(* The slot goes back at once, whether or not a stream is replaced. *)
InstallReturnsSlot(c) ==
    /\ at[c] = "install"
    /\ conns' = c /\ hubConnected' = TRUE /\ refused' = Nil
    /\ hook' = Nil
    /\ replaced' = [replaced EXCEPT ![c] = conns]
    /\ slot' = [slot EXCEPT ![c] = "free"]
    /\ pending' = pending - 1
    /\ closed' = [d \in Streams |-> closed[d] \/ d = conns]
    /\ StreamTo(c, "send")
    /\ UNCHANGED <<daemonVars, agentLock, id, key, sendVars, hubBeat, decided>>

(* The stream enters the table; the one it replaces is closed, and its     *)
(* pending slot stands for that stream until its serve returns.            *)
Install(c) ==
    /\ at[c] = "install"
    /\ conns' = c /\ hubConnected' = TRUE /\ refused' = Nil
    /\ hook' = Nil
    /\ replaced' = [replaced EXCEPT ![c] = conns]
    /\ IF conns = Nil
       THEN /\ slot' = [slot EXCEPT ![c] = "free"]
            /\ pending' = pending - 1
            /\ UNCHANGED closed
       ELSE /\ slot' = [slot EXCEPT ![c] = "waiting"]
            /\ closed' = [closed EXCEPT ![conns] = TRUE]
            /\ UNCHANGED pending
    /\ StreamTo(c, "send")
    /\ UNCHANGED <<daemonVars, agentLock, id, key, sendVars, hubBeat, decided>>

(* returnSlot's goroutine: <-old; release().                               *)
ReturnSlot(c) ==
    /\ slot[c] = "waiting"
    /\ at[replaced[c]] = "gone"
    /\ slot' = [slot EXCEPT ![c] = "free"]
    /\ pending' = pending - 1
    /\ UNCHANGED <<daemonVars, hubLocks, conns, hubConnected, refused, at, id, key, replaced,
                   closed, sendVars, hubBeat, decided>>

(* sendState from serve: still the current stream, select, write.          *)
FirstSelect(c) ==
    /\ at[c] = "send"
    /\ IF conns = c /\ StateFor(c)
       THEN /\ pick' = [pick EXCEPT ![c] = latest.ver]
            /\ StreamTo(c, "write")
            /\ UNCHANGED agentLock
       ELSE /\ agentLock' = Nil
            /\ StreamTo(c, "drop")
            /\ UNCHANGED pick
    /\ UNCHANGED <<daemonVars, hook, hubVars, id, key, slot, replaced, closed, pushCh, worker,
                   sent, missed, misses, hubBeat, decided>>

FirstWrite(c) ==
    /\ at[c] = "write"
    /\ agentLock' = Nil
    /\ \/ /\ ~closed[c]
          /\ sent' = [sent EXCEPT ![c] = pick[c]]
          /\ worker' = [worker EXCEPT ![c] = "wait"]
          /\ StreamTo(c, "live")
       \/ /\ StreamTo(c, "drop")
          /\ UNCHANGED <<sent, worker>>
    /\ UNCHANGED <<daemonVars, hook, hubVars, id, key, slot, replaced, closed, pushCh, pick,
                   missed, misses, hubBeat, decided>>

(* drop, after a failed first State or a failed read.                      *)
DropStream(c) ==
    /\ conns' = IF conns = c THEN Nil ELSE conns
    /\ hubConnected' = (hubConnected /\ conns # c)
    /\ StreamTo(c, "ending")
    /\ UNCHANGED <<refused, pending>>

DropUnsent(c) ==
    /\ at[c] = "drop"
    /\ DropStream(c)
    /\ UNCHANGED <<daemonVars, hubLocks, id, key, slot, replaced, closed, sendVars, hubBeat,
                   decided>>

(* The read loop ends: the peer went, a timer fired, or the hub closed it. *)
ReadFails(c) ==
    /\ at[c] = "live" /\ ~hubBeat[c]
    /\ DropStream(c)
    /\ closed' = [closed EXCEPT ![c] = TRUE]
    /\ UNCHANGED <<daemonVars, hubLocks, id, key, slot, replaced, sendVars, hubBeat, decided>>

(* serve returns without the deferred release of its slot. *)
EndKeepsSlot(c) ==
    /\ at[c] = "ending"
    /\ worker[c] \in {"off", "done"}
    /\ StreamTo(c, "gone")
    /\ closed' = [closed EXCEPT ![c] = TRUE]
    /\ UNCHANGED <<daemonVars, hubLocks, hubVars, slot, id, key, replaced, sendVars, hubBeat,
                   decided>>

(* serve returns once its push worker has; a slot never returned goes back.*)
End(c) ==
    /\ at[c] = "ending"
    /\ worker[c] \in {"off", "done"}
    /\ StreamTo(c, "gone")
    /\ closed' = [closed EXCEPT ![c] = TRUE]
    /\ IF slot[c] = "held"
       THEN slot' = [slot EXCEPT ![c] = "free"] /\ pending' = pending - 1
       ELSE UNCHANGED <<slot, pending>>
    /\ UNCHANGED <<daemonVars, hubLocks, conns, hubConnected, refused, id, key, replaced,
                   sendVars, hubBeat, decided>>

-----------------------------------------------------------------------------
(* pushWorker.                                                             *)

WorkerTake(c) ==
    /\ worker[c] = "wait" /\ pushCh[c] /\ at[c] # "ending"
    /\ pushCh' = [pushCh EXCEPT ![c] = FALSE]
    /\ worker' = [worker EXCEPT ![c] = "select"]
    /\ UNCHANGED <<daemonVars, hubLocks, hubVars, streamVars, pick, sent, missed, misses,
                   hubBeat, decided>>

(* sendState: not current, nothing published for it, or a database error   *)
(* are logged and the worker waits for the next push.                      *)
WorkerSelect(c) ==
    /\ worker[c] = "select"
    /\ \/ /\ conns = c /\ StateFor(c)
          /\ pick' = [pick EXCEPT ![c] = latest.ver]
          /\ worker' = [worker EXCEPT ![c] = "write"]
          /\ UNCHANGED <<missed, misses>>
       \/ /\ ~(conns = c /\ StateFor(c))
          /\ worker' = [worker EXCEPT ![c] = "wait"]
          /\ UNCHANGED <<pick, missed, misses>>
       \/ /\ conns = c /\ StateFor(c) /\ misses < MaxMisses
          /\ misses' = misses + 1
          /\ missed' = [missed EXCEPT ![c] = TRUE]
          /\ worker' = [worker EXCEPT ![c] = "wait"]
          /\ UNCHANGED pick
    /\ UNCHANGED <<daemonVars, hubLocks, hubVars, streamVars, pushCh, sent, hubBeat, decided>>

(* A failed write leaves the WebSocket closed.                             *)
WorkerWrite(c) ==
    /\ worker[c] = "write"
    /\ worker' = [worker EXCEPT ![c] = "wait"]
    /\ \/ /\ ~closed[c]
          /\ sent' = [sent EXCEPT ![c] = pick[c]]
          /\ missed' = [missed EXCEPT ![c] = FALSE]
          /\ UNCHANGED closed
       \/ /\ closed' = [closed EXCEPT ![c] = TRUE]
          /\ UNCHANGED <<sent, missed>>
    /\ UNCHANGED <<daemonVars, hubLocks, hubVars, at, id, key, slot, replaced, pushCh, pick,
                   misses, hubBeat, decided>>

WorkerStops(c) ==
    /\ worker[c] = "wait" /\ at[c] = "ending"
    /\ worker' = [worker EXCEPT ![c] = "done"]
    /\ UNCHANGED <<daemonVars, hubLocks, hubVars, streamVars, pushCh, pick, sent, missed,
                   misses, hubBeat, decided>>

(* A heartbeat recorded outside the hook lock. *)
HeartbeatUnlocked(c) ==
    /\ at[c] = "live" /\ ~closed[c] /\ ~hubBeat[c]
    /\ conns = c
    /\ hubBeat' = [hubBeat EXCEPT ![c] = TRUE]
    /\ UNCHANGED <<daemonVars, hubLocks, hubVars, streamVars, sendVars, decided>>

(* A heartbeat: under the hook lock, recorded only for the current stream, *)
(* and OnHeartbeat runs before the lock is given back.                     *)
Heartbeat(c) ==
    /\ at[c] = "live" /\ ~closed[c] /\ ~hubBeat[c]
    /\ hook = Nil
    /\ conns = c
    /\ hook' = c
    /\ hubBeat' = [hubBeat EXCEPT ![c] = TRUE]
    /\ UNCHANGED <<daemonVars, agentLock, hubVars, streamVars, sendVars, decided>>

HeartbeatDone(c) ==
    /\ hubBeat[c]
    /\ hook' = Nil
    /\ hubBeat' = [hubBeat EXCEPT ![c] = FALSE]
    /\ UNCHANGED <<daemonVars, agentLock, hubVars, streamVars, sendVars, decided>>

-----------------------------------------------------------------------------
(* The Daemon side.                                                        *)

(* Batch, or a retry: a commit publishes the saved row.                    *)
Publish ==
    /\ daemon = Nil /\ ops < MaxOps /\ row # Nil
    /\ ops' = ops + 1
    /\ ver' = ver + 1
    /\ latest' = [id |-> row.id, key |-> row.key, ver |-> ver + 1]
    /\ daemon' = Admin /\ step' = "retire"
    /\ UNCHANGED <<row, nextId, hubLocks, hubVars, streamVars, sendVars, hubBeat, decided>>

(* Revoke: the row and its tokens in one transaction ...                   *)
RevokeAgent ==
    /\ daemon = Nil /\ ops < MaxOps /\ row # Nil
    /\ ops' = ops + 1
    /\ row' = Nil
    /\ daemon' = Admin /\ step' = "entry"
    /\ UNCHANGED <<latest, ver, nextId, hubLocks, hubVars, streamVars, sendVars, hubBeat, decided>>

(* ... then deliveryOwner.revoke ...                                       *)
RevokeEntry ==
    /\ step = "entry"
    /\ latest' = Nil
    /\ step' = "disconnect"
    /\ UNCHANGED <<row, ver, nextId, ops, daemon, hubLocks, hubVars, streamVars, sendVars,
                   hubBeat, decided>>

(* Removing the current stream from the table and closing it.              *)
Detach ==
    /\ conns' = Nil /\ hubConnected' = FALSE /\ refused' = Nil
    /\ closed' = [c \in Streams |-> closed[c] \/ c = conns]

(* ... then Disconnect, which waits for a running OnHeartbeat.             *)
Disconnect ==
    /\ step = "disconnect"
    /\ hook = Nil
    /\ Detach
    /\ daemon' = Nil /\ step' = "none"
    /\ UNCHANGED <<row, latest, ver, nextId, ops, hubLocks, pending, at, id, key, slot,
                   replaced, sendVars, hubBeat, decided>>

(* Register: a new row without a key, and the apply that follows it.       *)
RegisterAgent ==
    /\ daemon = Nil /\ ops < MaxOps /\ row = Nil
    /\ ops' = ops + 1
    /\ row' = [id |-> nextId, key |-> Nil]
    /\ nextId' = nextId + 1
    /\ \/ /\ ver' = ver + 1
          /\ latest' = [id |-> nextId, key |-> Nil, ver |-> ver + 1]
          /\ daemon' = Admin /\ step' = "retire"
       \/ UNCHANGED <<latest, ver, daemon, step>>       \* the apply failed
    /\ UNCHANGED <<hubLocks, hubVars, streamVars, sendVars, hubBeat, decided>>

(* retireChangedKeyStreams after a commit.                                 *)
RetireIfDifferent ==
    /\ step = "retire"
    /\ hook = Nil
    /\ IF conns # Nil /\ (id[conns] # latest.id \/ key[conns] # latest.key)
       THEN Detach
       ELSE UNCHANGED <<conns, hubConnected, refused, closed>>
    /\ step' = "push"
    /\ UNCHANGED <<row, latest, ver, nextId, ops, daemon, hubLocks, pending, at, id, key, slot,
                   replaced, sendVars, hubBeat, decided>>

(* A push to a stream whose worker is not waiting for one is thrown away. *)
PushIfWaiting ==
    /\ step = "push"
    /\ pushCh' = [c \in Streams |-> pushCh[c] \/ (c = conns /\ worker[c] = "wait")]
    /\ missed' = [c \in Streams |-> missed[c] /\ c # conns]
    /\ daemon' = Nil /\ step' = "none"
    /\ UNCHANGED <<row, latest, ver, nextId, ops, hubLocks, hubVars, streamVars, worker, pick,
                   sent, misses, hubBeat, decided>>

(* pushAgents: a queued push coalesces with the next.                      *)
Push ==
    /\ step = "push"
    /\ pushCh' = [c \in Streams |-> pushCh[c] \/ c = conns]
    /\ missed' = [c \in Streams |-> missed[c] /\ c # conns]
    /\ daemon' = Nil /\ step' = "none"
    /\ UNCHANGED <<row, latest, ver, nextId, ops, hubLocks, hubVars, streamVars, worker, pick,
                   sent, misses, hubBeat, decided>>

-----------------------------------------------------------------------------
DaemonStep == RevokeEntry \/ Disconnect \/ RetireIfDifferent \/ Push
Operator == Publish \/ RevokeAgent \/ RegisterAgent
Serve(c) ==
    \/ FirstMessage(c) \/ KeyPublished(c) \/ Install(c) \/ ReturnSlot(c)
    \/ FirstSelect(c) \/ FirstWrite(c) \/ DropUnsent(c) \/ End(c)
    \/ WorkerTake(c) \/ WorkerSelect(c) \/ WorkerWrite(c) \/ WorkerStops(c) \/ HeartbeatDone(c)
Waiting(c) == TakeAgentLock(c) \/ SetPublicKey(c) \/ Admit(c)

HubNext ==
    \/ Operator \/ DaemonStep
    \/ \E c \in Streams : Open(c) \/ Serve(c) \/ Waiting(c) \/ ReadFails(c) \/ Heartbeat(c)

HubSpec == HubInit /\ [][HubNext]_hubAll

(* Goroutines run, the three mutexes are starvation-free (sync.Mutex hands *)
(* over after a millisecond of waiting), reads and writes have deadlines,  *)
(* and a closed WebSocket fails the read.                                  *)
Fairness ==
    /\ SF_hubAll(RetireIfDifferent) /\ SF_hubAll(Disconnect) /\ WF_hubAll(RevokeEntry \/ Push)
    /\ \A c \in Streams :
          /\ WF_hubAll(FirstMessage(c)) /\ WF_hubAll(KeyPublished(c)) /\ WF_hubAll(Install(c))
          /\ WF_hubAll(ReturnSlot(c)) /\ WF_hubAll(FirstSelect(c)) /\ WF_hubAll(FirstWrite(c))
          /\ WF_hubAll(DropUnsent(c)) /\ WF_hubAll(End(c))
          /\ WF_hubAll(WorkerTake(c) \/ WorkerSelect(c) \/ WorkerWrite(c) \/ WorkerStops(c))
          /\ WF_hubAll(HeartbeatDone(c))
          /\ SF_hubAll(Waiting(c))
          /\ WF_hubAll(closed[c] /\ ReadFails(c))

HubFairSpec == HubSpec /\ Fairness

-----------------------------------------------------------------------------
(* A commit or a revocation that has returned leaves no stream in the      *)
(* table that authenticated as another registration or declared another    *)
(* key than the published one, however its admission interleaved with it   *)
(* (hub.go: StateFor under the hook lock, Disconnect, RetireIfDifferent).  *)
InstalledIsPublished ==
    daemon = Nil /\ conns # Nil => StateFor(conns)

(* A stream that is in the table and open has been sent the newest State,  *)
(* or will be: a push is queued, a selection is still to come, or the      *)
(* newest one is being written.  The only way it is left behind is a       *)
(* database error during the selection, which pushWorker logs and drops.   *)
NoPushLost ==
    \A c \in Streams :
        conns = c /\ at[c] = "live" /\ ~closed[c] /\ daemon = Nil /\ ~missed[c] =>
            \/ sent[c] = latest.ver
            \/ pushCh[c] \/ worker[c] = "select"
            \/ worker[c] = "write" /\ pick[c] = latest.ver

Open_(c) == at[c] \notin {"none", "gone"}
LeftByItself(c) == Open_(c) /\ slot[c] # "held" /\ conns # c /\ \A d \in Streams : replaced[d] # c

(* The number of streams one agent keeps open is bounded although a        *)
(* replaced stream lives on until its close is answered: its slot is given *)
(* back by the stream that replaced it (reservePending, returnSlot).       *)
StreamsBounded ==
    /\ pending = Cardinality({c \in Streams : slot[c] \in {"held", "waiting"}})
    /\ pending <= MaxPending
    /\ Cardinality({c \in Streams : Open_(c) /\ ~LeftByItself(c)}) <= MaxPending + 1

(* While OnHeartbeat runs, its stream is still the current one: neither a  *)
(* replacement nor a disconnection overtakes it.                           *)
HeartbeatIsCurrent == \A c \in Streams : hubBeat[c] => conns = c

(* A recorded refusal of the current registration is not older than an     *)
(* accepted declaration.                                                   *)
RefusalIsNewest ==
    row # Nil /\ refused = row.id => decided = [id |-> row.id, ok |-> FALSE]

(* What the hub says of an agent and keeps for it is so: its streams are   *)
(* bounded, the newest State is on its way, and heartbeats and refusals    *)
(* are those of the current stream and registration.                       *)
HubTruthful == NoPushLost /\ StreamsBounded /\ HeartbeatIsCurrent /\ RefusalIsNewest

(* The inductive invariant behind these.  The holder of Daemon.mu works    *)
(* through its steps with the saved row and the published entry in hand;   *)
(* the hook lock belongs to the stream that is being installed or whose    *)
(* heartbeat is being recorded; and before a step that retires or          *)
(* disconnects has been taken the table may be ahead of the database, but  *)
(* at no other time.                                                       *)
DaemonInv ==
    /\ daemon = Nil <=> step = "none"
    /\ step \in {"retire", "push"} => row # Nil /\ latest # Nil /\ latest.id = row.id

HookInv ==
    \A c \in Streams :
        /\ at[c] = "install" => hook = c
        /\ hubBeat[c] => hook = c /\ conns = c /\ at[c] = "live"
        /\ conns = c => at[c] \in Installed

TableInv ==
    step \in {"none", "push"} =>
        \A c \in Streams : conns = c \/ at[c] = "install" => StateFor(c)

(* Registrations are numbered upwards, so that a refusal of one cannot be  *)
(* taken for one of a later registration.                                  *)
NumberInv ==
    /\ row # Nil => row.id < nextId
    /\ refused # Nil => refused < nextId
    /\ \A c \in Streams : id[c] < nextId
    /\ RefusalIsNewest

(* What a writer has in hand is the newest version, or a push is queued    *)
(* behind it.                                                              *)
SendInv ==
    \A c \in Streams :
        /\ at[c] = "live" => worker[c] \in {"wait", "select", "write"}
        /\ at[c] \in Preparing \cup {"none", "send", "write", "drop"} => worker[c] = "off"
        /\ step = "none" /\ conns = c =>
              /\ at[c] = "write" \/ worker[c] = "write" => pick[c] = latest.ver \/ pushCh[c]
              /\ worker[c] = "wait" /\ ~missed[c] /\ ~closed[c] =>
                    sent[c] = latest.ver \/ pushCh[c]

(* A slot stands for a stream that prepares or for one that was replaced   *)
(* and is not gone yet.                                                    *)
SlotInv ==
    /\ pending = Cardinality({c \in Streams : slot[c] \in {"held", "waiting"}})
    /\ pending <= MaxPending
    /\ \A c \in Streams :
          /\ at[c] \in Preparing => slot[c] = "held"
          /\ at[c] = "none" => slot[c] = "none"
          /\ at[c] \in Installed => slot[c] # "held"
          /\ slot[c] = "waiting" => replaced[c] # Nil
          /\ replaced[c] # Nil => at[replaced[c]] # "none"
          /\ replaced[c] # Nil /\ Open_(replaced[c]) => slot[c] = "waiting"

HubInv ==
    HubTypeOK /\ DaemonInv /\ HookInv /\ TableInv /\ NumberInv /\ SendInv /\ SlotInv

(* Every stream that declared a key is served or refused: the locks are    *)
(* never held in a cycle.                                                  *)
DeclaredIsDecided ==
    \A c \in Streams : at[c] = "lock" ~> at[c] \in {"live", "drop", "ending", "gone"}

(* Every pending slot comes back.                                          *)
SlotsComeBack == \A c \in Streams : slot[c] # "none" ~> slot[c] = "free"

(* A stream that stays in the table ends up with the newest State, unless  *)
(* a selection failed.                                                     *)
NewestReachesStream ==
    \A c \in Streams :
        conns = c /\ at[c] = "live" ~>
            \/ conns # c \/ closed[c] \/ missed[c]
            \/ daemon = Nil /\ sent[c] = latest.ver

=============================================================================
