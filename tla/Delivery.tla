------------------------------ MODULE Delivery ------------------------------
(***************************************************************************)
(* What the server delivers to its agents (internal/vpsd/delivery.go) and  *)
(* the operations that change it, each under Daemon.mu: the rule batch,    *)
(* disabling and enabling an agent, revocation, registration, a declared   *)
(* key, and the retry.  An operation saves to the database in one          *)
(* transaction and then applies; a stream selects an agent's State between *)
(* any two of its steps, without Daemon.mu.                                *)
(*                                                                         *)
(* The rules of an agent are one value with three parts: what only the     *)
(* data plane sees (allow), what only the agent is sent (body), and        *)
(* whether they are enabled.  The data-plane transaction itself            *)
(* (Reconciler) is the outcome of a step: committed, nothing to commit,    *)
(* or failed.                                                              *)
(***************************************************************************)
EXTENDS Naturals

CONSTANTS
    Agents,         \* agent names
    Keys,           \* public keys
    Vals,           \* the rule values an agent may be given
    None,           \* no row, no entry, no overlay, no key
    MaxId,          \* bound on registrations
    MaxOps,         \* bound on saved changes
    MaxFails,       \* bound on failed applies
    MaxCrashes      \* bound on restarts

Rows == [id : Nat, key : Keys \cup {None}, off : BOOLEAN]
Entries == [id : Nat, key : Keys \cup {None}, gen : Nat, off : BOOLEAN,
            body : {v.body : v \in Vals}, on : BOOLEAN, timeouts : BOOLEAN]
Plans == [key : Keys \cup {None}, allow : {v.allow : v \in Vals} \cup {None}]
Overlays == [id : Nat, gen : Nat]

ASSUME DeliveryAssumption ==
    /\ \A v \in Vals : v.on \in BOOLEAN
    /\ None \notin {v.allow : v \in Vals}
    /\ None \notin Keys
    /\ None \notin Agents
    /\ None \notin Rows /\ None \notin Entries /\ None \notin Overlays
    /\ None \notin [Agents -> Entries \cup {None}]
    /\ None \notin [Agents -> Plans]
    /\ MaxId \in Nat /\ MaxOps \in Nat /\ MaxFails \in Nat /\ MaxCrashes \in Nat

VARIABLES
    gen,        \* the saved generation
    row,        \* table agents: the row of a name, or None
    rules,      \* table rules: the rules whose owner is the name
    latest,     \* deliveryOwner.latest
    bound,      \* deliveryOwner.bound
    over,       \* deliveryOwner.disabled: the disable overlays
    pending,    \* deliveryOwner.pending
    dp,         \* the plan and peers of the last successful transaction
    needsRetry, \* the Reconciler's Status.NeedsRetry
    step,       \* what the holder of Daemon.mu does next
    who,        \* ... and for which agent
    retry,      \* ... and whether it applies as a retry
    toRetire,   \* the agents RetireIfDifferent has still to be called for
    changed,    \* the agents committed has something new for
    nextId, ops, fails, crashes,   \* registrations made, and counters of the bounds
    stale,      \* history: the agents given new contents and not told yet
    unread      \* history: the last saved change met no transaction, because
                \* the database could not be read for it

dbVars == <<gen, row, rules, nextId>>
ownVars == <<latest, bound, over, pending, stale>>
opVars == <<step, who, retry, toRetire, changed>>
vars == <<dbVars, ownVars, dp, needsRetry, opVars, ops, fails, crashes, unread>>

NoEntries == [a \in Agents |-> None]

-----------------------------------------------------------------------------
(* Database: the delivered copy of an agent's rules (DeliveredRule), and   *)
(* the projection whose change raises the generation (agentView).          *)

Delivered(val, off) == [body |-> val.body, on |-> val.on /\ ~off]

Off(a) == row[a] # None /\ row[a].off
AgentView(rs) == [a \in Agents |-> Delivered(rs[a], Off(a))]

(* deliveryCandidate: one entry for each registered agent.                 *)
Candidate ==
    [a \in Agents |->
        IF row[a] = None THEN None
        ELSE [id |-> row[a].id, key |-> row[a].key, gen |-> gen, off |-> row[a].off,
              body |-> rules[a].body, on |-> rules[a].on /\ ~row[a].off,
              timeouts |-> bound]]

(* buildPlan and agents(): the peer of each registered agent that has a    *)
(* key, and the forwarding of the enabled rules of a registered agent.     *)
Plan ==
    [a \in Agents |->
        [key   |-> IF row[a] = None THEN None ELSE row[a].key,
         allow |-> IF row[a] # None /\ ~Off(a) /\ rules[a].on
                   THEN rules[a].allow ELSE None]]

-----------------------------------------------------------------------------
(* deliveryOwner.                                                          *)

OverlayGeneration(ov) ==
    LET gens == {ov[a].gen : a \in {b \in Agents : ov[b] # None}}
    IN  IF gens = {} THEN 0 ELSE CHOOSE g \in gens : \A h \in gens : h <= g

(* applyOverlay                                                            *)
ApplyOverlay(e, o, g) ==
    [e EXCEPT !.gen = IF g > @ THEN g ELSE @,
              !.off = @ \/ (o # None /\ o.id = e.id),
              !.on  = @ /\ ~(o # None /\ o.id = e.id)]

(* effectiveDelivery                                                       *)
Effective(l, ov) ==
    [a \in Agents |-> IF l[a] = None THEN None
                      ELSE ApplyOverlay(l[a], ov[a], OverlayGeneration(ov))]

NoPublication == latest = None
Delivery == IF NoPublication THEN NoEntries ELSE Effective(latest, over)

(* deliveryOwner.state for an identity and, unless None, a connection key. *)
Selects(a, id, key) ==
    /\ bound /\ latest[a] # None
    /\ latest[a].id = id
    /\ key # None => latest[a].key = key

(* What an agent has to be told of: other contents, or a higher            *)
(* generation.                                                             *)
News(old, new) ==
    /\ new # None
    /\ old # None => (new.gen > old.gen \/ new # [old EXCEPT !.gen = new.gen])
Told(before, after, pushed) ==
    (stale \cup {a \in Agents : News(before[a], after[a])}) \ pushed

-----------------------------------------------------------------------------
(* A start on any saved database.  An identity is only compared with those *)
(* of the same name.                                                       *)
Init ==
    /\ gen = 0 /\ nextId = 1
    /\ row \in [Agents -> {None} \cup [id : {0}, key : Keys \cup {None}, off : BOOLEAN]]
    /\ rules \in [Agents -> Vals]
    /\ latest = None /\ over = [a \in Agents |-> None]
    /\ bound = FALSE /\ pending = FALSE /\ stale = {} /\ unread = FALSE
    /\ dp = None /\ needsRetry = FALSE
    /\ step = "apply" /\ who = None /\ retry = FALSE
    /\ toRetire = {} /\ changed = {}
    /\ ops = 0 /\ fails = 0 /\ crashes = 0

Change == step = "idle" /\ ops < MaxOps /\ ops' = ops + 1
Then(s, a) == step' = s /\ who' = a /\ retry' = FALSE /\ UNCHANGED <<toRetire, changed>>
OthersKept == UNCHANGED <<ownVars, dp, needsRetry, fails, crashes, unread>>

(* Batch: the rules of registered agents.                                  *)
Batch(a, val) ==
    /\ Change /\ row[a] # None /\ val # rules[a]
    /\ LET after == [rules EXCEPT ![a] = val]
       IN  /\ rules' = after
           /\ gen' = IF AgentView(after) = AgentView(rules) THEN gen ELSE gen + 1
    /\ Then("apply", None)
    /\ UNCHANGED <<row, nextId>> /\ OthersKept

(* DisableAgent saves, installs the overlay, pushes to everyone, applies.  *)
DisableAgent(a) ==
    /\ Change /\ row[a] # None /\ ~row[a].off
    /\ row' = [row EXCEPT ![a].off = TRUE] /\ gen' = gen + 1
    /\ Then("overlay", a)
    /\ UNCHANGED <<rules, nextId>> /\ OthersKept

(* Mutant: the overlay replaces those of the other agents.                 *)
DisableOverlayAlone ==
    /\ step = "overlay"
    /\ LET ov == [[a \in Agents |-> None] EXCEPT ![who] = [id |-> row[who].id, gen |-> gen]]
       IN  /\ over' = ov /\ pending' = TRUE
           /\ stale' = IF NoPublication THEN {}
                       ELSE Told(Delivery, Effective(latest, ov), {})
    /\ Then("pushall", who)
    /\ UNCHANGED <<dbVars, latest, bound, dp, needsRetry, ops, fails, crashes, unread>>

DisableOverlay ==
    /\ step = "overlay"
    /\ LET ov == [over EXCEPT ![who] = [id |-> row[who].id, gen |-> gen]]
       IN  /\ over' = ov /\ pending' = TRUE
           /\ stale' = IF NoPublication THEN {}
                       ELSE Told(Delivery, Effective(latest, ov), {})
    /\ Then("pushall", who)
    /\ UNCHANGED <<dbVars, latest, bound, dp, needsRetry, ops, fails, crashes, unread>>

PushAll ==
    /\ step = "pushall"
    /\ stale' = {}
    /\ Then("apply", None)
    /\ UNCHANGED <<dbVars, latest, bound, over, pending, dp, needsRetry, ops, fails, crashes, unread>>

(* EnableAgent saves and applies; the checks of its ports may refuse it    *)
(* before anything is saved.                                               *)
EnableAgent(a) ==
    /\ Change /\ row[a] # None /\ row[a].off
    /\ row' = [row EXCEPT ![a].off = FALSE] /\ gen' = gen + 1
    /\ Then("apply", None)
    /\ UNCHANGED <<rules, nextId>> /\ OthersKept

(* Register, on the agent API, which opens once the delivery is bound.     *)
Register(a) ==
    /\ bound /\ nextId <= MaxId /\ row[a] = None
    /\ Change
    /\ row' = [row EXCEPT ![a] = [id |-> nextId, key |-> None, off |-> FALSE]]
    /\ nextId' = nextId + 1
    /\ Then("rules", a)
    /\ UNCHANGED <<gen, rules>> /\ OthersKept

(* SetPublicKey, past its early returns: the registration is the current   *)
(* one, and the key is neither the saved one nor the published one.        *)
KeyIsNew(a, id, key) ==
    row[a].key # key /\ ~Selects(a, id, key)

SetPublicKey(a, key) ==
    /\ bound /\ row[a] # None /\ KeyIsNew(a, row[a].id, key)
    /\ Change
    /\ row' = [row EXCEPT ![a].key = key]
    /\ Then("rules", a)
    /\ UNCHANGED <<gen, rules, nextId>> /\ OthersKept

(* Revoke deletes the row, removes the entry and the overlay, disconnects  *)
(* the stream, applies.                                                    *)
Revoke(a) ==
    /\ Change /\ row[a] # None
    /\ row' = [row EXCEPT ![a] = None]
    /\ Then("revoke", a)
    /\ UNCHANGED <<gen, rules, nextId>> /\ OthersKept

RevokeEntry ==
    /\ step = "revoke"
    /\ latest' = IF NoPublication THEN None ELSE [latest EXCEPT ![who] = None]
    /\ over' = [over EXCEPT ![who] = None]
    /\ pending' = TRUE /\ stale' = stale \ {who}
    /\ Then("disconnect", who)
    /\ UNCHANGED <<dbVars, bound, dp, needsRetry, ops, fails, crashes, unread>>

RevokeDisconnect ==
    /\ step = "disconnect"
    /\ Then("rules", who)
    /\ UNCHANGED <<dbVars, ownVars, dp, needsRetry, ops, fails, crashes, unread>>

(* The three operations above read the rules for their apply ...           *)
ReadRules ==
    /\ step = "rules"
    /\ Then("apply", None)
    /\ UNCHANGED <<dbVars, ownVars, dp, needsRetry, ops, fails, crashes, unread>>

(* ... and do not apply when they cannot.                                  *)
ReadRulesFails ==
    /\ step = "rules" /\ fails < MaxFails
    /\ fails' = fails + 1
    /\ Then("idle", None)
    /\ unread' = TRUE
    /\ UNCHANGED <<dbVars, ownVars, dp, needsRetry, ops, crashes>>

-----------------------------------------------------------------------------
(* apply.                                                                  *)

(* retryOnce, and during the startup hold retryHold.                       *)
RetryOnce ==
    /\ step = "idle" /\ IF bound THEN needsRetry ELSE NoPublication
    /\ step' = "apply" /\ retry' = TRUE
    /\ UNCHANGED <<dbVars, ownVars, dp, needsRetry, who, toRetire, changed, ops, fails, crashes, unread>>

(* observeOnce found the kernel changed by another program.                *)
Observed ==
    /\ bound /\ Change
    /\ step' = "apply" /\ retry' = TRUE
    /\ UNCHANGED <<dbVars, ownVars, dp, needsRetry, who, toRetire, changed, fails, crashes, unread>>

(* Mutant: a failed transaction is not marked for the retry.               *)
ApplyFailsForgets ==
    /\ step \in {"apply", "forced"} /\ fails < MaxFails
    /\ fails' = fails + 1
    /\ pending' = TRUE
    /\ Then("idle", None)
    /\ unread' = FALSE
    /\ UNCHANGED <<dbVars, latest, bound, over, stale, dp, needsRetry, ops, crashes>>

(* The transaction fails, the one forced by ApplyNoOp too.                 *)
ApplyFails ==
    /\ step \in {"apply", "forced"} /\ fails < MaxFails
    /\ fails' = fails + 1
    /\ pending' = TRUE /\ needsRetry' = TRUE
    /\ Then("idle", None)
    /\ unread' = FALSE
    /\ UNCHANGED <<dbVars, latest, bound, over, stale, dp, ops, crashes>>

(* The agents or the generation cannot be read: no transaction is tried.   *)
ApplyReadFails ==
    /\ step = "apply" /\ fails < MaxFails
    /\ fails' = fails + 1
    /\ pending' = TRUE
    /\ Then("idle", None)
    /\ unread' = TRUE
    /\ UNCHANGED <<dbVars, latest, bound, over, stale, dp, needsRetry, ops, crashes>>

NothingToCommit == retry /\ dp = Plan

(* Mutant: the comparison of the delivered states is left out.             *)
ApplyNoOpBlind ==
    /\ step = "apply" /\ NothingToCommit
    /\ needsRetry' \in BOOLEAN
    /\ pending' = FALSE /\ Then("idle", None)
    /\ unread' = FALSE
    /\ UNCHANGED <<dbVars, latest, bound, over, stale, dp, ops, fails, crashes>>

(* A retry that would publish the same plan commits nothing.  When the     *)
(* delivered states differ all the same, one real commit is forced.        *)
ApplyNoOp ==
    /\ step = "apply" /\ NothingToCommit
    /\ needsRetry' \in BOOLEAN
    /\ IF Candidate = latest
       THEN pending' = FALSE /\ Then("idle", None)
       ELSE UNCHANGED pending /\ Then("forced", None)
    /\ unread' = FALSE
    /\ UNCHANGED <<dbVars, latest, bound, over, stale, dp, ops, fails, crashes>>

(* The transaction commits; a retry that would publish the same plan does  *)
(* too when the kernel was changed outside.  A rule that failed by itself  *)
(* or a repair that is left keeps NeedsRetry.                              *)
ApplyCommits ==
    /\ step \in {"apply", "forced"}
    /\ dp' = Plan /\ needsRetry' \in BOOLEAN
    /\ Then("committed", None)
    /\ UNCHANGED <<dbVars, ownVars, ops, fails, crashes, unread>>

(* Mutant: an agent whose rules are the same is not told of a generation.  *)
ChangedRules(before, after) ==
    {a \in Agents : /\ after[a] # None
                    /\ before[a] = None \/ after[a] # [before[a] EXCEPT !.gen = after[a].gen]}

Changed(before, after) == {a \in Agents : after[a] # None /\ after[a] # before[a]}

(* deliveryOwner.committed                                                 *)
Committed ==
    /\ step = "committed"
    /\ latest' = Candidate
    /\ over' = [a \in Agents |-> None]
    /\ pending' = FALSE
    /\ changed' = Changed(Delivery, Candidate)
    /\ toRetire' = {a \in Agents : Candidate[a] # None}
    /\ stale' = Told(Delivery, Candidate, {})
    /\ step' = "retire"
    /\ unread' = FALSE
    /\ UNCHANGED <<dbVars, bound, dp, needsRetry, who, retry, ops, fails, crashes>>

(* RetireIfDifferent, in the order of a Go map.                            *)
Retire(a) ==
    /\ step = "retire" /\ a \in toRetire
    /\ toRetire' = toRetire \ {a}
    /\ UNCHANGED <<dbVars, ownVars, dp, needsRetry, step, who, retry, changed, ops, fails, crashes, unread>>

PushAgents ==
    /\ step = "retire" /\ toRetire = {}
    /\ stale' = stale \ changed
    /\ changed' = {} /\ step' = "idle" /\ who' = None /\ retry' = FALSE
    /\ UNCHANGED <<dbVars, latest, bound, over, pending, dp, needsRetry, toRetire,
                   ops, fails, crashes, unread>>

(* bindDeliveryTimeouts, after the first successful apply.                 *)
Bind ==
    /\ step = "idle" /\ ~bound /\ ~NoPublication
    /\ latest' = [a \in Agents |-> IF latest[a] = None THEN None
                                   ELSE [latest[a] EXCEPT !.timeouts = TRUE]]
    /\ bound' = TRUE
    /\ UNCHANGED <<dbVars, over, pending, stale, dp, needsRetry, opVars, ops, fails, crashes, unread>>

(* The process ends and starts again: only the database is kept.           *)
Crash ==
    /\ crashes < MaxCrashes /\ crashes' = crashes + 1
    /\ latest' = None /\ over' = [a \in Agents |-> None]
    /\ bound' = FALSE /\ pending' = FALSE /\ stale' = {}
    /\ dp' = None /\ needsRetry' = FALSE
    /\ step' = "apply" /\ who' = None /\ retry' = FALSE
    /\ toRetire' = {} /\ changed' = {}
    /\ unread' = FALSE
    /\ UNCHANGED <<dbVars, ops, fails>>

-----------------------------------------------------------------------------
Apply ==
    \/ ApplyFails \/ ApplyReadFails \/ ApplyNoOp \/ ApplyCommits
    \/ Committed \/ PushAgents
    \/ \E a \in Agents : Retire(a)

Operation ==
    \/ DisableOverlay \/ PushAll \/ RevokeEntry \/ RevokeDisconnect
    \/ ReadRules \/ ReadRulesFails

Request ==
    \/ RetryOnce \/ Observed \/ Bind
    \/ \E a \in Agents :
          \/ DisableAgent(a) \/ EnableAgent(a) \/ Register(a) \/ Revoke(a)
          \/ \E val \in Vals : Batch(a, val)
          \/ \E key \in Keys : SetPublicKey(a, key)

Next == Apply \/ Operation \/ Request \/ Crash

Spec == Init /\ [][Next]_vars

(* The holder of Daemon.mu goes on, the startup binds, and a failed apply  *)
(* is retried every 30 seconds.                                            *)
Fairness == WF_vars(Apply) /\ WF_vars(Operation) /\ WF_vars(RetryOnce) /\ WF_vars(Bind)

FairSpec == Spec /\ Fairness

-----------------------------------------------------------------------------
TypeOK ==
    /\ gen \in Nat /\ nextId \in Nat
    /\ row \in [Agents -> Rows \cup {None}]
    /\ rules \in [Agents -> Vals]
    /\ latest \in [Agents -> Entries \cup {None}] \cup {None}
    /\ over \in [Agents -> Overlays \cup {None}]
    /\ bound \in BOOLEAN /\ pending \in BOOLEAN /\ needsRetry \in BOOLEAN
    /\ retry \in BOOLEAN /\ unread \in BOOLEAN
    /\ stale \subseteq Agents /\ toRetire \subseteq Agents /\ changed \subseteq Agents
    /\ dp \in [Agents -> Plans] \cup {None}
    /\ step \in {"idle", "overlay", "pushall", "revoke", "disconnect", "rules",
                 "apply", "forced", "committed", "retire"}
    /\ who \in Agents \cup {None}

(* From the moment DisableAgent has installed its overlay until the agent  *)
(* is enabled again, every State that can be selected for that             *)
(* registration is disabled, whatever applies fail, succeed or are retried *)
(* in between (delivery.go: the overlay bridges a failed publication).     *)
DisabledStaysOff ==
    \A a \in Agents :
        (/\ Off(a) /\ ~(step = "overlay" /\ who = a)
         /\ ~NoPublication /\ latest[a] # None /\ latest[a].id = row[a].id)
        => Delivery[a].off /\ ~Delivery[a].on

(* What is delivered was published: the agent's key is its peer's key in   *)
(* the data plane and its rules are enabled exactly where the data plane   *)
(* forwards them, except while a successful transaction is being           *)
(* installed.  A failed apply changes no agent's rules.                    *)
DeliveredIsPublished ==
    (~NoPublication /\ step # "committed") =>
        \A a \in Agents : latest[a] # None =>
            /\ dp # None
            /\ dp[a].key = latest[a].key
            /\ latest[a].on <=> dp[a].allow # None

(* deliveryOwner.pending (the status's publication_pending) is false only  *)
(* when the saved declaration is what the agents are served, unless an     *)
(* operation saved and could not read the rules for its apply.             *)
PendingIsTruthful ==
    (step = "idle" /\ ~pending /\ bound /\ ~unread) =>
        latest = Candidate /\ Delivery = Candidate

(* The same without the exception, as the field's comment has it           *)
(* (delivery.go: "saved full declaration lacks a successful matching       *)
(* Commit").                                                               *)
PendingAsCommented ==
    (step = "idle" /\ ~pending /\ bound) => latest = Candidate

(* When an operation ends, every agent whose contents changed or whose     *)
(* generation rose has been pushed to since: no push is forgotten on any   *)
(* path through apply.                                                     *)
EveryoneTold == step = "idle" => stale = {}

(* The inductive strengthening of the four, in parts.  Where the holder of *)
(* Daemon.mu is: a transaction was planned from the database as it is, and *)
(* whoever is not told is among those about to be pushed to.               *)
StepInv ==
    /\ step \in {"overlay", "pushall", "revoke", "disconnect", "rules"} => who \in Agents
    /\ step = "overlay" => Off(who)
    /\ step = "revoke" => row[who] = None
    /\ step = "committed" => dp = Plan
    /\ step = "retire" => ~pending /\ ~NoPublication /\ stale \subseteq changed
    /\ step \notin {"pushall", "retire"} => stale = {}
    /\ bound => ~NoPublication

(* A published entry is not newer than the database, older once a disable  *)
(* was saved, and has no enabled rule when it is disabled.                 *)
EntryInv ==
    ~NoPublication => \A a \in Agents : latest[a] # None =>
        /\ latest[a].gen <= gen
        /\ step = "overlay" => latest[a].gen < gen
        /\ latest[a].off => ~latest[a].on

(* An overlay is newer than every published entry and belongs to a         *)
(* registered agent, so a saved declaration that equals the published one  *)
(* leaves no overlay.                                                      *)
OverlayInv ==
    \A a \in Agents : over[a] # None =>
        /\ over[a].gen <= gen
        /\ row[a] = None => (step = "revoke" /\ who = a)
        /\ ~NoPublication =>
              \A b \in Agents : latest[b] # None => latest[b].gen < over[a].gen

(* A saved disable is in the published entry or in an overlay.             *)
OffInv ==
    ~NoPublication => \A a \in Agents :
        (/\ Off(a) /\ ~(step = "overlay" /\ who = a)
         /\ latest[a] # None /\ latest[a].id = row[a].id)
        => latest[a].off \/ (over[a] # None /\ over[a].id = row[a].id)

(* With nothing pending, the saved declaration is the published one and no *)
(* overlay is left, from the commit on.                                    *)
SavedInv ==
    (~unread /\ step \in {"idle", "retire"} /\ ~pending /\ ~NoPublication)
        => latest = Candidate /\ over = NoEntries

(* The inductive invariant of the delivery.                                *)
DeliveryInv ==
    /\ TypeOK /\ StepInv /\ EntryInv /\ OverlayInv /\ OffInv
    /\ DeliveredIsPublished /\ SavedInv

(* Once the changes, failures and crashes stop, every agent is served the  *)
(* saved declaration and nothing is pending, unless the last change could  *)
(* not be read for its apply.                                              *)
Settled == bound /\ ~pending /\ latest = Candidate /\ Delivery = Candidate
DeliveryConverges == <>[](Settled \/ unread)
=============================================================================
