----------------------------- MODULE LockTable ------------------------------
(***************************************************************************)
(* The per-agent locks of the stream hub (lockOf and unlock in             *)
(* internal/vpsd/stream/hub.go), for one agent name.  The table holds an   *)
(* entry only while somebody uses it; an entry carries two mutexes, agent  *)
(* and hook, and a count of its users.  A user pins the entry under Hub.mu *)
(* before it waits for the mutex, so an entry is dropped from the table    *)
(* only when nobody waits on it or holds it.                               *)
(*                                                                         *)
(* A user is one call of agentLock or hookLock; a goroutine that takes     *)
(* both is two users.                                                      *)
(***************************************************************************)
EXTENDS Naturals, FiniteSets

CONSTANTS
    Procs,      \* users of the agent mutex
    Hooks,      \* users of the hook mutex
    Entries,    \* agentLocks objects
    NoEntry     \* no entry

ASSUME LockTableAssumption ==
    /\ NoEntry \notin Entries
    /\ IsFiniteSet(Procs) /\ IsFiniteSet(Hooks)
    /\ Procs \cap Hooks = {}

Users == Procs \cup Hooks

VARIABLES
    table,      \* Hub.locks[name]
    refs,       \* agentLocks.refs
    entry,      \* the entry a user has pinned
    at          \* where a user is

tableVars == <<table, refs, entry, at>>

TableTypeOK ==
    /\ table \in Entries \cup {NoEntry}
    /\ refs \in [Entries -> Nat]
    /\ entry \in [Users -> Entries \cup {NoEntry}]
    /\ at \in [Users -> {"idle", "waiting", "held", "unlocked"}]

TableInit ==
    /\ table = NoEntry
    /\ refs = [e \in Entries |-> 0]
    /\ entry = [u \in Users |-> NoEntry]
    /\ at = [u \in Users |-> "idle"]

SameMutex(u, v) == (u \in Hooks) = (v \in Hooks)

(* An entry nothing points to: a new allocation. *)
Unreferenced(e) == e # table /\ \A u \in Users : entry[u] # e

PinEntry(u, e) ==
    /\ table' = e
    /\ refs' = [refs EXCEPT ![e] = IF e = table THEN @ + 1 ELSE 1]
    /\ entry' = [entry EXCEPT ![u] = e]
    /\ at' = [at EXCEPT ![u] = "waiting"]

(* lockOf up to the release of Hub.mu. *)
Pin(u) ==
    /\ at[u] = "idle"
    /\ \/ table # NoEntry /\ PinEntry(u, table)
       \/ table = NoEntry /\ \E e \in Entries : Unreferenced(e) /\ PinEntry(u, e)

(* mu.Lock() in lockOf. *)
LockEntry(u) ==
    /\ at[u] = "waiting"
    /\ \A v \in Users : SameMutex(u, v) /\ entry[v] = entry[u] => at[v] # "held"
    /\ at' = [at EXCEPT ![u] = "held"]
    /\ UNCHANGED <<table, refs, entry>>

(* The mutex is released before Hub.mu is taken again. *)
UnlockEntry(u) ==
    /\ at[u] = "held"
    /\ at' = [at EXCEPT ![u] = "unlocked"]
    /\ UNCHANGED <<table, refs, entry>>

Unref(u, drop) ==
    /\ at[u] = "unlocked"
    /\ refs' = [refs EXCEPT ![entry[u]] = @ - 1]
    /\ table' = IF drop /\ table = entry[u] THEN NoEntry ELSE table
    /\ entry' = [entry EXCEPT ![u] = NoEntry]
    /\ at' = [at EXCEPT ![u] = "idle"]

UnpinAlways(u) == Unref(u, TRUE)

(* The rest of unlock: the last user drops the entry. *)
Unpin(u) == Unref(u, refs[entry[u]] = 1)

TableNext == \E u \in Users : Pin(u) \/ LockEntry(u) \/ UnlockEntry(u) \/ Unpin(u)

TableSpec == TableInit /\ [][TableNext]_tableVars

-----------------------------------------------------------------------------
(* Both locks of a name are locks, although the entry behind the name is   *)
(* dropped and made again.                                                 *)
AgentMutex == INSTANCE Mutex WITH owners <- {u \in Procs : at[u] = "held"}
HookMutex == INSTANCE Mutex WITH Procs <- Hooks, owners <- {u \in Hooks : at[u] = "held"}

LockTableIsMutex == AgentMutex!MutexSpec /\ HookMutex!MutexSpec

Pinned(e) == {u \in Users : entry[u] = e}

(* The inductive invariant: every user is pinned to the entry in the       *)
(* table, and the count is the number of its users.  It also says that an  *)
(* idle agent keeps no entry.                                              *)
TableInv ==
    /\ \A u \in Users : at[u] = "idle" <=> entry[u] = NoEntry
    /\ \A u \in Users : entry[u] # NoEntry => entry[u] = table
    /\ table # NoEntry => refs[table] = Cardinality(Pinned(table)) /\ refs[table] > 0
    /\ \A u, v \in Users : at[u] = "held" /\ at[v] = "held" /\ SameMutex(u, v) => u = v

=============================================================================
