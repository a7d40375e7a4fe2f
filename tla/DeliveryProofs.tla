--------------------------- MODULE DeliveryProofs ---------------------------
(***************************************************************************)
(* The delivery, for any agents, keys, rules and bounds: a disabled agent  *)
(* stays disabled, only what was published is delivered, the pending flag  *)
(* is truthful and no agent with something new is left untold.             *)
(***************************************************************************)
EXTENDS Delivery, TLAPS

-----------------------------------------------------------------------------
(* What the operators return                                               *)

LEMMA CandidateType ==
    ASSUME TypeOK
    PROVE  /\ Candidate \in [Agents -> Entries \cup {None}]
           /\ Candidate # None
           /\ \A a \in Agents : row[a] # None =>
                 /\ Candidate[a] \in Entries
                 /\ Candidate[a].id = row[a].id /\ Candidate[a].key = row[a].key
                 /\ Candidate[a].gen = gen /\ Candidate[a].off = row[a].off
                 /\ Candidate[a].on = (rules[a].on /\ ~row[a].off)
           /\ \A a \in Agents : row[a] = None => Candidate[a] = None
<1>1. \A a \in Agents : /\ row[a] # None => row[a] \in Rows
                        /\ rules[a].body \in {v.body : v \in Vals}
                        /\ rules[a].on \in BOOLEAN
  BY DeliveryAssumption DEF TypeOK
<1>2. \A a \in Agents : row[a] # None =>
         /\ Candidate[a] = [id |-> row[a].id, key |-> row[a].key, gen |-> gen,
                            off |-> row[a].off, body |-> rules[a].body,
                            on |-> rules[a].on /\ ~row[a].off, timeouts |-> bound]
         /\ Candidate[a] \in Entries
  BY <1>1 DEF Candidate, Entries, Rows, TypeOK
<1>3. \A a \in Agents : row[a] = None => Candidate[a] = None
  BY DEF Candidate
<1>4. Candidate \in [Agents -> Entries \cup {None}]
  <2>1. Candidate = [a \in Agents |-> Candidate[a]]
    BY DEF Candidate
  <2> HIDE DEF Candidate
  <2> QED BY <1>2, <1>3, <2>1
<1>5. Candidate # None
  BY <1>4, DeliveryAssumption
<1> QED BY <1>2, <1>3, <1>4, <1>5

LEMMA PlanType ==
    ASSUME TypeOK
    PROVE  Plan \in [Agents -> Plans] /\ Plan # None
<1>1. \A a \in Agents : /\ row[a] # None => row[a] \in Rows
                        /\ rules[a].allow \in {v.allow : v \in Vals}
  BY DEF TypeOK
<1>2. Plan \in [Agents -> Plans]
  BY <1>1 DEF Plan, Plans, Rows
<1> QED BY <1>2, DeliveryAssumption

(* The candidate is what the plan forwards.                                *)
LEMMA CandidatePublished ==
    ASSUME TypeOK, NEW a \in Agents, row[a] # None
    PROVE  /\ Plan[a].key = Candidate[a].key
           /\ Candidate[a].on <=> Plan[a].allow # None
<1>1. rules[a].allow # None
  BY DeliveryAssumption DEF TypeOK
<1> QED BY <1>1, CandidateType, Zenon DEF Plan, Off

(* An agent with news is among those committed returns.                    *)
LEMMA NewsChanged ==
    ASSUME NEW old, NEW new \in Entries, News(old, new)
    PROVE  new # old
BY DEF News, Entries

-----------------------------------------------------------------------------
(* The initial state                                                       *)

LEMMA InitInv == Init => DeliveryInv
<1> SUFFICES ASSUME Init PROVE DeliveryInv
  OBVIOUS
<1>1. TypeOK
  <2>1. row \in [Agents -> Rows \cup {None}]
    <3>1. [id : {0}, key : Keys \cup {None}, off : BOOLEAN] \subseteq Rows
      BY DEF Rows
    <3> QED BY <3>1 DEF Init
  <2> QED BY <2>1, Zenon DEF Init, TypeOK
<1>2. StepInv /\ EntryInv /\ OverlayInv /\ OffInv /\ DeliveredIsPublished /\ SavedInv
  BY DEF Init, StepInv, EntryInv, OverlayInv, OffInv, DeliveredIsPublished, SavedInv,
         NoPublication
<1> QED BY <1>1, <1>2 DEF DeliveryInv

-----------------------------------------------------------------------------
(* The steps.  A step that leaves the database alone leaves the plan, and  *)
(* the candidate unless it binds.                                          *)

LEMMA DbFrame ==
    ASSUME UNCHANGED dbVars
    PROVE  /\ Plan' = Plan /\ \A a : Off(a)' = Off(a)
           /\ bound' = bound => Candidate' = Candidate
BY DEF dbVars, Plan, Off, Candidate

(* Steps that move the operation on and leave the database, the owner and  *)
(* the recorded publication as they are.                                   *)
LEMMA OnwardInv ==
    ASSUME DeliveryInv, UNCHANGED <<dbVars, ownVars, dp>>,
           needsRetry' = needsRetry, retry' \in BOOLEAN, unread' \in BOOLEAN,
           toRetire' \subseteq Agents, changed' = changed,
           who' \in Agents \cup {None},
           \/ step = "disconnect" /\ step' = "rules" /\ who' = who
           \/ step = "rules" /\ step' = "apply"
           \/ step = "rules" /\ step' = "idle" /\ unread' = TRUE
           \/ step = "idle" /\ step' = "apply"
           \/ step = "retire" /\ step' = "retire" /\ unread' = unread
    PROVE  DeliveryInv'
<1> USE DbFrame
<1>0. NoPublication' = NoPublication /\ Candidate' = Candidate
  BY DEF NoPublication, ownVars
<1>1. TypeOK'
  BY DEF DeliveryInv, TypeOK, dbVars, ownVars
<1>2. StepInv'
  BY <1>0 DEF DeliveryInv, TypeOK, StepInv, ownVars, dbVars
<1>3. EntryInv' /\ OverlayInv' /\ OffInv'
  BY <1>0 DEF DeliveryInv, EntryInv, OverlayInv, OffInv, ownVars, dbVars
<1>4. DeliveredIsPublished'
  BY <1>0 DEF DeliveryInv, DeliveredIsPublished, ownVars
<1>5. SavedInv'
  BY <1>0 DEF DeliveryInv, SavedInv, ownVars
<1> QED BY <1>1, <1>2, <1>3, <1>4, <1>5 DEF DeliveryInv

(* A saved change: the owner and the recorded publication are as they      *)
(* were, the generation does not go back.                                  *)
LEMMA ChangeInv ==
    ASSUME DeliveryInv, step = "idle", UNCHANGED <<ownVars, dp, needsRetry, unread>>,
           gen' \in Nat, gen <= gen', nextId' \in Nat,
           row' \in [Agents -> Rows \cup {None}], rules' \in [Agents -> Vals],
           retry' = FALSE, UNCHANGED <<toRetire, changed>>,
           NEW a \in Agents, \A b \in Agents \ {a} : row'[b] = row[b],
           \/ /\ step' = "apply" /\ who' = None
              /\ row'[a] # None
              /\ row'[a].off => (row[a] # None /\ row[a].off /\ row'[a].id = row[a].id)
           \/ /\ step' = "rules" /\ who' = a
              /\ row'[a] # None
              /\ row'[a].off => (row[a] # None /\ row[a].off /\ row'[a].id = row[a].id)
           \/ step' = "overlay" /\ who' = a /\ row'[a] # None /\ row'[a].off /\ gen < gen'
           \/ step' = "revoke" /\ who' = a /\ row'[a] = None
    PROVE  DeliveryInv'
<1>0. NoPublication' = NoPublication
  BY DEF NoPublication, ownVars
<1>1. TypeOK'
  BY Zenon DEF DeliveryInv, TypeOK, ownVars
<1>2. StepInv'
  BY <1>0 DEF DeliveryInv, TypeOK, StepInv, Off, ownVars
<1>3. EntryInv'
  <2> SUFFICES ASSUME ~NoPublication, NEW b \in Agents, latest[b] # None
               PROVE  /\ latest[b].gen <= gen'
                      /\ step' = "overlay" => latest[b].gen < gen'
                      /\ latest[b].off => ~latest[b].on
    BY <1>0 DEF EntryInv, ownVars
  <2>1. latest[b] \in Entries /\ latest[b].gen \in Nat /\ gen \in Nat
    BY DEF DeliveryInv, TypeOK, NoPublication, Entries
  <2>2. latest[b].gen <= gen /\ (latest[b].off => ~latest[b].on)
    BY DEF DeliveryInv, EntryInv
  <2> QED BY <2>1, <2>2
<1>4. OverlayInv'
  <2> SUFFICES ASSUME NEW b \in Agents, over[b] # None
               PROVE  /\ over[b].gen <= gen'
                      /\ row'[b] = None => (step' = "revoke" /\ who' = b)
    BY <1>0 DEF DeliveryInv, OverlayInv, ownVars
  <2>1. over[b].gen \in Nat /\ gen \in Nat
    BY DEF DeliveryInv, TypeOK, Overlays
  <2>2. over[b].gen <= gen /\ row[b] # None
    BY DEF DeliveryInv, OverlayInv
  <2> QED BY <2>1, <2>2
<1>5. OffInv'
  BY <1>0 DEF DeliveryInv, OffInv, Off, ownVars
<1>6. DeliveredIsPublished'
  BY <1>0 DEF DeliveryInv, DeliveredIsPublished, ownVars
<1>7. SavedInv'
  BY DEF SavedInv
<1> QED BY <1>1, <1>2, <1>3, <1>4, <1>5, <1>6, <1>7 DEF DeliveryInv

LEMMA DisableOverlayInv ==
    ASSUME DeliveryInv, DisableOverlay PROVE DeliveryInv'
<1> USE DbFrame
<1>0. /\ NoPublication' = NoPublication /\ UNCHANGED dbVars /\ UNCHANGED <<latest, dp>>
      /\ step = "overlay" /\ step' = "pushall" /\ who \in Agents /\ who' = who
      /\ Off(who) /\ row[who] \in Rows
  BY DEF DisableOverlay, Then, NoPublication, DeliveryInv, StepInv, TypeOK, Off
<1>1. /\ over' \in [Agents -> Overlays \cup {None}]
      /\ over'[who] = [id |-> row[who].id, gen |-> gen] /\ over'[who] \in Overlays
      /\ \A b \in Agents \ {who} : over'[b] = over[b]
  BY <1>0 DEF DisableOverlay, DeliveryInv, TypeOK, Overlays, Rows
<1>2. TypeOK'
  <2>1. stale' \subseteq Agents
    BY DEF DisableOverlay, Told, DeliveryInv, TypeOK
  <2> QED BY <1>0, <1>1, <2>1, Zenon DEF DisableOverlay, Then, DeliveryInv, TypeOK, dbVars
<1>3. StepInv'
  BY <1>0 DEF DisableOverlay, DeliveryInv, StepInv, dbVars
<1>4. EntryInv'
  BY <1>0 DEF DeliveryInv, EntryInv, dbVars
<1>5. OverlayInv'
  <2> SUFFICES ASSUME NEW a \in Agents, over'[a] # None
               PROVE  /\ over'[a].gen <= gen /\ row[a] # None
                      /\ ~NoPublication => \A b \in Agents :
                            latest[b] # None => latest[b].gen < over'[a].gen
    BY <1>0 DEF OverlayInv, dbVars
  <2>1. CASE a = who
    BY <1>0, <1>1, <2>1 DEF DeliveryInv, EntryInv, TypeOK, Off
  <2>2. CASE a # who
    BY <1>0, <1>1, <2>2 DEF DeliveryInv, OverlayInv
  <2> QED BY <2>1, <2>2
<1>6. OffInv'
  <2> SUFFICES ASSUME ~NoPublication, NEW a \in Agents, Off(a), latest[a] # None,
                      latest[a].id = row[a].id
               PROVE  latest[a].off \/ (over'[a] # None /\ over'[a].id = row[a].id)
    BY <1>0 DEF OffInv, dbVars
  <2>1. CASE a = who
    BY <1>1, <2>1, DeliveryAssumption
  <2>2. CASE a # who
    BY <1>0, <1>1, <2>2 DEF DeliveryInv, OffInv
  <2> QED BY <2>1, <2>2
<1>7. DeliveredIsPublished'
  BY <1>0 DEF DeliveryInv, DeliveredIsPublished
<1>8. SavedInv'
  BY <1>0 DEF SavedInv
<1> QED BY <1>2, <1>3, <1>4, <1>5, <1>6, <1>7, <1>8 DEF DeliveryInv

LEMMA PushAllInv ==
    ASSUME DeliveryInv, PushAll PROVE DeliveryInv'
<1> USE DbFrame
<1>0. /\ NoPublication' = NoPublication /\ UNCHANGED <<dbVars, latest, over, bound, dp>>
      /\ step = "pushall" /\ step' = "apply"
  BY DEF PushAll, Then, NoPublication
<1>1. TypeOK'
  BY <1>0, Zenon DEF PushAll, Then, DeliveryInv, TypeOK, dbVars
<1>2. StepInv'
  <2>1. stale' = {} /\ (bound => ~NoPublication)
    BY DEF PushAll, DeliveryInv, StepInv
  <2> QED BY <1>0, <2>1 DEF StepInv
<1>3. EntryInv' /\ OverlayInv' /\ OffInv'
  BY <1>0 DEF DeliveryInv, EntryInv, OverlayInv, OffInv, dbVars
<1>4. DeliveredIsPublished' /\ SavedInv'
  BY <1>0 DEF DeliveryInv, DeliveredIsPublished, SavedInv
<1> QED BY <1>1, <1>2, <1>3, <1>4 DEF DeliveryInv

LEMMA RevokeEntryInv ==
    ASSUME DeliveryInv, RevokeEntry PROVE DeliveryInv'
<1> USE DbFrame
<1>0. /\ UNCHANGED <<dbVars, bound, dp>>
      /\ step = "revoke" /\ step' = "disconnect" /\ who \in Agents /\ who' = who
      /\ row[who] = None /\ pending' = TRUE
  BY DEF RevokeEntry, Then, DeliveryInv, StepInv
<1>1. /\ over' \in [Agents -> Overlays \cup {None}]
      /\ over'[who] = None /\ \A b \in Agents \ {who} : over'[b] = over[b]
  BY <1>0 DEF RevokeEntry, DeliveryInv, TypeOK
<1>2. /\ NoPublication' = NoPublication
      /\ latest' \in [Agents -> Entries \cup {None}] \cup {None}
      /\ ~NoPublication => /\ latest'[who] = None
                           /\ \A b \in Agents \ {who} : latest'[b] = latest[b]
  <2>1. CASE NoPublication
    BY <2>1 DEF RevokeEntry, NoPublication
  <2>2. CASE ~NoPublication
    <3>1. latest' = [latest EXCEPT ![who] = None]
      BY <2>2 DEF RevokeEntry
    <3>2. latest \in [Agents -> Entries \cup {None}]
      BY <2>2 DEF DeliveryInv, TypeOK, NoPublication
    <3>3. /\ latest' \in [Agents -> Entries \cup {None}] /\ latest'[who] = None
          /\ \A b \in Agents \ {who} : latest'[b] = latest[b]
      BY <1>0, <3>1, <3>2
    <3>4. ~NoPublication'
      BY <3>3, DeliveryAssumption DEF NoPublication
    <3> QED BY <2>2, <3>3, <3>4 DEF NoPublication
  <2> QED BY <2>1, <2>2
<1>3. TypeOK'
  BY <1>0, <1>1, <1>2, Zenon DEF RevokeEntry, Then, DeliveryInv, TypeOK, dbVars
<1>4. StepInv'
  BY <1>0, <1>2 DEF RevokeEntry, DeliveryInv, StepInv
<1>5. EntryInv' /\ OffInv'
  BY <1>0, <1>1, <1>2 DEF DeliveryInv, EntryInv, OffInv, dbVars
<1>6. OverlayInv'
  BY <1>0, <1>1, <1>2 DEF DeliveryInv, OverlayInv, dbVars
<1>7. DeliveredIsPublished' /\ SavedInv'
  BY <1>0, <1>2 DEF DeliveryInv, DeliveredIsPublished, SavedInv
<1> QED BY <1>3, <1>4, <1>5, <1>6, <1>7 DEF DeliveryInv

(* An apply that ends with nothing published leaves the declaration        *)
(* pending.                                                                *)
LEMMA ApplyFailsInv ==
    ASSUME DeliveryInv, ApplyFails \/ ApplyReadFails PROVE DeliveryInv'
<1> USE DbFrame
<1>0. /\ NoPublication' = NoPublication /\ UNCHANGED <<dbVars, latest, over, bound, stale, dp>>
      /\ step \in {"apply", "forced"} /\ step' = "idle" /\ who' = None /\ pending' = TRUE
      /\ retry' = FALSE /\ UNCHANGED <<toRetire, changed>>
      /\ unread' \in BOOLEAN /\ needsRetry' \in BOOLEAN
  BY Zenon DEF ApplyFails, ApplyReadFails, Then, NoPublication, DeliveryInv, TypeOK
<1>1. TypeOK'
  BY <1>0, Zenon DEF DeliveryInv, TypeOK, dbVars
<1>2. StepInv'
  BY <1>0 DEF DeliveryInv, StepInv
<1>3. EntryInv' /\ OverlayInv' /\ OffInv'
  BY <1>0 DEF DeliveryInv, EntryInv, OverlayInv, OffInv, dbVars
<1>4. DeliveredIsPublished' /\ SavedInv'
  BY <1>0 DEF DeliveryInv, DeliveredIsPublished, SavedInv
<1> QED BY <1>1, <1>2, <1>3, <1>4 DEF DeliveryInv

(* A declaration that equals the published one leaves no overlay: the      *)
(* overlay's agent is registered, so the candidate has its entry, at a     *)
(* generation the published entries are below.                             *)
LEMMA SameLeavesNoOverlay ==
    ASSUME DeliveryInv, Candidate = latest, step # "revoke"
    PROVE  ~NoPublication /\ over = NoEntries
<1>1. TypeOK /\ OverlayInv
  BY DEF DeliveryInv
<1>2. ~NoPublication
  BY <1>1, CandidateType DEF NoPublication
<1>3. ASSUME NEW a \in Agents, over[a] # None PROVE FALSE
  <2>1. row[a] # None /\ over[a].gen <= gen /\ over[a].gen \in Nat /\ gen \in Nat
    BY <1>1, <1>3 DEF OverlayInv, TypeOK, Overlays
  <2>2. latest[a] \in Entries /\ latest[a].gen = gen
    BY <1>1, <2>1, CandidateType
  <2>3. latest[a].gen < over[a].gen
    BY <1>1, <1>2, <1>3, <2>2, DeliveryAssumption DEF OverlayInv
  <2> QED BY <2>1, <2>2, <2>3
<1>4. over = [a \in Agents |-> over[a]]
  BY <1>1 DEF TypeOK
<1> QED BY <1>2, <1>3, <1>4 DEF NoEntries

LEMMA ApplyNoOpInv ==
    ASSUME DeliveryInv, ApplyNoOp PROVE DeliveryInv'
<1> USE DbFrame
<1>0. /\ NoPublication' = NoPublication /\ UNCHANGED <<dbVars, latest, over, bound, stale, dp>>
      /\ step = "apply" /\ step' \in {"idle", "forced"} /\ who' = None
      /\ retry' = FALSE /\ UNCHANGED <<toRetire, changed>>
      /\ unread' \in BOOLEAN /\ needsRetry' \in BOOLEAN /\ pending' \in BOOLEAN
      /\ step' = "idle" => Candidate = latest
      /\ Candidate' = Candidate
  BY Zenon DEF ApplyNoOp, Then, NoPublication, DeliveryInv, TypeOK
<1>1. TypeOK'
  BY <1>0, Zenon DEF DeliveryInv, TypeOK, dbVars
<1>2. StepInv'
  BY <1>0 DEF DeliveryInv, StepInv
<1>3. EntryInv' /\ OverlayInv' /\ OffInv'
  BY <1>0 DEF DeliveryInv, EntryInv, OverlayInv, OffInv, dbVars
<1>4. DeliveredIsPublished'
  BY <1>0 DEF DeliveryInv, DeliveredIsPublished
<1>5. SavedInv'
  <2>1. CASE step' = "idle"
    BY <1>0, <2>1, SameLeavesNoOverlay DEF SavedInv, NoEntries
  <2>2. CASE step' = "forced"
    BY <2>2 DEF SavedInv
  <2> QED BY <1>0, <2>1, <2>2
<1> QED BY <1>1, <1>2, <1>3, <1>4, <1>5 DEF DeliveryInv

LEMMA ApplyCommitsInv ==
    ASSUME DeliveryInv, ApplyCommits PROVE DeliveryInv'
<1> USE DbFrame
<1>0. /\ NoPublication' = NoPublication /\ UNCHANGED <<dbVars, ownVars, unread>>
      /\ dp' = Plan /\ needsRetry' \in BOOLEAN
      /\ step \in {"apply", "forced"} /\ step' = "committed" /\ who' = None
      /\ retry' = FALSE /\ UNCHANGED <<toRetire, changed>>
  BY DEF ApplyCommits, Then, NoPublication, ownVars
<1>1. TypeOK'
  BY <1>0, PlanType, Zenon DEF DeliveryInv, TypeOK, dbVars, ownVars
<1>2. StepInv'
  BY <1>0 DEF DeliveryInv, StepInv, ownVars
<1>3. EntryInv' /\ OverlayInv' /\ OffInv'
  BY <1>0 DEF DeliveryInv, EntryInv, OverlayInv, OffInv, dbVars, ownVars
<1>4. DeliveredIsPublished' /\ SavedInv'
  BY <1>0 DEF DeliveredIsPublished, SavedInv
<1> QED BY <1>1, <1>2, <1>3, <1>4 DEF DeliveryInv

LEMMA CommittedInv ==
    ASSUME DeliveryInv, Committed PROVE DeliveryInv'
<1> USE DbFrame
<1>0. /\ UNCHANGED <<dbVars, bound, dp, needsRetry, who, retry>>
      /\ latest' = Candidate /\ over' = NoEntries /\ pending' = FALSE
      /\ step = "committed" /\ step' = "retire" /\ unread' = FALSE
      /\ dp = Plan /\ stale = {} /\ TypeOK /\ Candidate' = Candidate
  BY DEF Committed, NoEntries, DeliveryInv, StepInv
<1>1. ~NoPublication' /\ \A a \in Agents : over'[a] = None
  BY <1>0, CandidateType DEF NoPublication, NoEntries
<1>2. changed' \subseteq Agents /\ toRetire' \subseteq Agents
  BY Zenon DEF Committed, Changed
<1>3. stale' \subseteq changed'
  <2> SUFFICES ASSUME NEW a \in stale' PROVE a \in changed'
    OBVIOUS
  <2>1. a \in Agents /\ News(Delivery[a], Candidate[a])
    BY <1>0 DEF Committed, Told
  <2>2. Candidate[a] # None /\ Candidate[a] \in Entries
    BY <1>0, <2>1, CandidateType DEF News
  <2>3. Candidate[a] # Delivery[a]
    BY <2>1, <2>2, NewsChanged
  <2> QED BY <2>1, <2>2, <2>3 DEF Committed, Changed
<1>4. TypeOK'
  <2>1. over' \in [Agents -> Overlays \cup {None}]
    BY <1>0 DEF NoEntries
  <2>2. latest' \in [Agents -> Entries \cup {None}]
    BY <1>0, CandidateType
  <2>3. stale' \subseteq Agents
    BY <1>2, <1>3
  <2> QED BY <1>0, <1>2, <2>1, <2>2, <2>3, Zenon DEF TypeOK, dbVars
<1>5. StepInv'
  BY <1>0, <1>1, <1>3 DEF StepInv
<1>6. EntryInv'
  <2> SUFFICES ASSUME NEW a \in Agents, Candidate[a] # None
               PROVE  /\ Candidate[a].gen <= gen
                      /\ Candidate[a].off => ~Candidate[a].on
    BY <1>0, <1>1 DEF EntryInv, dbVars
  <2>1. row[a] # None
    BY <1>0, CandidateType
  <2>2. Candidate[a].gen = gen /\ gen \in Nat
    BY <1>0, <2>1, CandidateType DEF TypeOK
  <2>3. Candidate[a].off => ~Candidate[a].on
    BY <1>0, <2>1, CandidateType, Zenon
  <2> QED BY <2>2, <2>3
<1>7. OverlayInv'
  BY <1>1 DEF OverlayInv
<1>8. OffInv'
  <2> SUFFICES ASSUME NEW a \in Agents, Off(a) PROVE Candidate[a].off
    BY <1>0 DEF OffInv
  <2> QED BY <1>0, CandidateType DEF Off
<1>9. DeliveredIsPublished'
  <2> SUFFICES ASSUME NEW a \in Agents, Candidate[a] # None
               PROVE  /\ dp # None /\ dp[a].key = Candidate[a].key
                      /\ Candidate[a].on <=> dp[a].allow # None
    BY <1>0 DEF DeliveredIsPublished
  <2>1. row[a] # None
    BY <1>0, CandidateType
  <2> QED BY <1>0, <2>1, CandidatePublished, PlanType
<1>10. SavedInv'
  BY <1>0 DEF SavedInv, NoEntries
<1> QED BY <1>4, <1>5, <1>6, <1>7, <1>8, <1>9, <1>10 DEF DeliveryInv

LEMMA PushAgentsInv ==
    ASSUME DeliveryInv, PushAgents PROVE DeliveryInv'
<1> USE DbFrame
<1>0. /\ NoPublication' = NoPublication
      /\ UNCHANGED <<dbVars, latest, bound, over, pending, dp, needsRetry, toRetire, unread>>
      /\ step = "retire" /\ step' = "idle" /\ who' = None /\ retry' = FALSE
      /\ changed' = {} /\ stale' = {} /\ Candidate' = Candidate
  BY DEF PushAgents, NoPublication, DeliveryInv, StepInv
<1>1. TypeOK'
  BY <1>0, Zenon DEF DeliveryInv, TypeOK, dbVars
<1>2. StepInv'
  BY <1>0 DEF DeliveryInv, StepInv
<1>3. EntryInv' /\ OverlayInv' /\ OffInv'
  BY <1>0 DEF DeliveryInv, EntryInv, OverlayInv, OffInv, dbVars
<1>4. DeliveredIsPublished' /\ SavedInv'
  BY <1>0 DEF DeliveryInv, DeliveredIsPublished, SavedInv, NoEntries
<1> QED BY <1>1, <1>2, <1>3, <1>4 DEF DeliveryInv

(* Binding the timeouts changes them in every entry and nothing else.      *)
LEMMA BindInv ==
    ASSUME DeliveryInv, Bind PROVE DeliveryInv'
<1> USE DbFrame
<1>0. /\ UNCHANGED <<dbVars, over, pending, stale, dp, needsRetry, opVars, unread>>
      /\ UNCHANGED <<step, who, retry, toRetire, changed>>
      /\ step = "idle" /\ bound' = TRUE /\ bound = FALSE /\ ~NoPublication
      /\ latest \in [Agents -> Entries \cup {None}] /\ TypeOK
  BY DEF Bind, opVars, DeliveryInv, TypeOK, NoPublication
<1>1. /\ latest' \in [Agents -> Entries \cup {None}]
      /\ \A a \in Agents : latest[a] = None <=> latest'[a] = None
      /\ \A a \in Agents : latest[a] # None =>
            /\ latest'[a] \in Entries
            /\ latest'[a].gen = latest[a].gen /\ latest'[a].off = latest[a].off
            /\ latest'[a].on = latest[a].on /\ latest'[a].id = latest[a].id
            /\ latest'[a].key = latest[a].key
  <2>1. \A a \in Agents : latest[a] # None =>
            /\ latest'[a] = [latest[a] EXCEPT !.timeouts = TRUE]
            /\ latest[a] \in Entries
    BY <1>0 DEF Bind
  <2>2. \A e \in Entries :
           LET n == [e EXCEPT !.timeouts = TRUE]
           IN  /\ n \in Entries /\ n.gen = e.gen /\ n.off = e.off /\ n.on = e.on
               /\ n.id = e.id /\ n.key = e.key
    BY Zenon DEF Entries
  <2>3. \A a \in Agents : latest[a] = None => latest'[a] = None
    BY DEF Bind
  <2>4. latest' = [a \in Agents |-> latest'[a]]
    BY DEF Bind
  <2>5. \A a \in Agents : latest[a] # None =>
            /\ latest'[a] \in Entries
            /\ latest'[a].gen = latest[a].gen /\ latest'[a].off = latest[a].off
            /\ latest'[a].on = latest[a].on /\ latest'[a].id = latest[a].id
            /\ latest'[a].key = latest[a].key
    <3> SUFFICES ASSUME NEW a \in Agents, latest[a] # None
                 PROVE  /\ latest'[a] \in Entries
                        /\ latest'[a].gen = latest[a].gen /\ latest'[a].off = latest[a].off
                        /\ latest'[a].on = latest[a].on /\ latest'[a].id = latest[a].id
                        /\ latest'[a].key = latest[a].key
      OBVIOUS
    <3>1. latest'[a] = [latest[a] EXCEPT !.timeouts = TRUE] /\ latest[a] \in Entries
      BY <2>1
    <3> QED BY <2>2, <3>1
  <2>6. \A a \in Agents : latest[a] = None <=> latest'[a] = None
    BY <2>3, <2>5, DeliveryAssumption
  <2>7. \A a \in Agents : latest'[a] \in Entries \cup {None}
    BY <2>3, <2>5
  <2>8. latest' \in [Agents -> Entries \cup {None}]
    BY <2>4, <2>7
  <2> QED BY <2>5, <2>6, <2>8
<1>2. ~NoPublication'
  BY <1>1, DeliveryAssumption DEF NoPublication
<1>3. TypeOK'
  BY <1>0, <1>1 DEF TypeOK, dbVars
<1>4. StepInv'
  BY <1>0, <1>2, Zenon DEF DeliveryInv, StepInv
<1>5. EntryInv'
  BY <1>0, <1>1, <1>2 DEF DeliveryInv, EntryInv, dbVars
<1>6. OverlayInv' /\ OffInv'
  BY <1>0, <1>1, <1>2, Zenon DEF DeliveryInv, OverlayInv, OffInv, dbVars
<1>7. DeliveredIsPublished'
  BY <1>0, <1>1, <1>2, Zenon DEF DeliveryInv, DeliveredIsPublished
<1>8. SavedInv'
  <2> SUFFICES ASSUME latest = Candidate, over = NoEntries
               PROVE  latest' = Candidate' /\ over' = NoEntries
    BY <1>0 DEF DeliveryInv, SavedInv, NoEntries
  <2>1. \A a \in Agents : latest'[a] = Candidate'[a]
    <3> SUFFICES ASSUME NEW a \in Agents PROVE latest'[a] = Candidate'[a]
      OBVIOUS
    <3>1. CASE row[a] = None
      BY <1>0, <3>1 DEF Bind, Candidate, dbVars
    <3>2. CASE row[a] # None
      <4>1. latest[a] # None
        BY <1>0, <3>2, CandidateType, DeliveryAssumption
      <4>2. latest'[a] = [Candidate[a] EXCEPT !.timeouts = TRUE]
        BY <4>1 DEF Bind
      <4> QED BY <1>0, <3>2, <4>2, Zenon DEF Candidate, dbVars
    <3> QED BY <3>1, <3>2
  <2>2. latest' = [a \in Agents |-> latest'[a]] /\ Candidate' = [a \in Agents |-> Candidate'[a]]
    BY DEF Bind, Candidate
  <2> QED BY <1>0, <2>1, <2>2
<1> QED BY <1>3, <1>4, <1>5, <1>6, <1>7, <1>8 DEF DeliveryInv

LEMMA CrashInv ==
    ASSUME DeliveryInv, Crash PROVE DeliveryInv'
<1>1. TypeOK'
  BY Zenon DEF Crash, DeliveryInv, TypeOK, dbVars
<1>2. StepInv' /\ EntryInv' /\ OverlayInv' /\ OffInv' /\ DeliveredIsPublished' /\ SavedInv'
  BY DEF Crash, StepInv, EntryInv, OverlayInv, OffInv, DeliveredIsPublished, SavedInv,
         NoPublication
<1> QED BY <1>1, <1>2 DEF DeliveryInv

LEMMA NextInv == DeliveryInv /\ [Next]_vars => DeliveryInv'
<1> SUFFICES ASSUME DeliveryInv, [Next]_vars PROVE DeliveryInv'
  OBVIOUS
<1>0. TypeOK
  BY DEF DeliveryInv
<1>1. ASSUME NEW a \in Agents, NEW val \in Vals, Batch(a, val) PROVE DeliveryInv'
  <2>1. gen' \in Nat /\ gen <= gen'
    <3>1. gen \in Nat
      BY <1>0 DEF TypeOK
    <3>2. gen' = gen \/ gen' = gen + 1
      BY <1>1 DEF Batch
    <3> QED BY <3>1, <3>2
  <2>2. rules' \in [Agents -> Vals]
    BY <1>0, <1>1 DEF Batch, TypeOK
  <2>3. /\ step = "idle" /\ UNCHANGED <<ownVars, dp, needsRetry, unread, row, nextId>>
        /\ row[a] # None /\ step' = "apply" /\ who' = None
        /\ retry' = FALSE /\ UNCHANGED <<toRetire, changed>>
    BY <1>1 DEF Batch, Change, Then, OthersKept
  <2> QED BY <1>0, <2>1, <2>2, <2>3, ChangeInv, Zenon DEF TypeOK
<1>2. ASSUME NEW a \in Agents,
             \/ DisableAgent(a) \/ EnableAgent(a) \/ Register(a) \/ Revoke(a)
             \/ \E key \in Keys : SetPublicKey(a, key)
      PROVE  DeliveryInv'
  <2>0. /\ step = "idle" /\ UNCHANGED <<ownVars, dp, needsRetry, unread>>
        /\ retry' = FALSE /\ UNCHANGED <<toRetire, changed>> /\ rules' = rules
        /\ gen' \in Nat /\ gen <= gen' /\ nextId' \in Nat
    BY <1>0, <1>2 DEF DisableAgent, EnableAgent, Register, Revoke, SetPublicKey, Change,
                      Then, OthersKept, TypeOK
  <2>1. row[a] # None => row[a] \in Rows
    BY <1>0 DEF TypeOK
  <2>2. CASE DisableAgent(a)
    <3>1. row' = [row EXCEPT ![a] = [row[a] EXCEPT !.off = TRUE]] /\ row[a] \in Rows
          /\ gen < gen'
      BY <1>0, <2>1, <2>2 DEF DisableAgent, TypeOK
    <3>2. [row[a] EXCEPT !.off = TRUE] \in Rows /\ [row[a] EXCEPT !.off = TRUE].off
      BY <3>1, Zenon DEF Rows
    <3>3. step' = "overlay" /\ who' = a
      BY <2>2 DEF DisableAgent, Then
    <3>4. /\ row' \in [Agents -> Rows \cup {None}] /\ row'[a] \in Rows /\ row'[a].off
          /\ \A b \in Agents \ {a} : row'[b] = row[b]
      BY <1>0, <3>1, <3>2 DEF TypeOK
    <3> QED BY <1>0, <2>0, <3>1, <3>3, <3>4, ChangeInv, DeliveryAssumption, Zenon DEF TypeOK
  <2>3. CASE EnableAgent(a)
    <3>1. row' = [row EXCEPT ![a] = [row[a] EXCEPT !.off = FALSE]] /\ row[a] \in Rows
      BY <2>1, <2>3 DEF EnableAgent
    <3>2. [row[a] EXCEPT !.off = FALSE] \in Rows /\ ~[row[a] EXCEPT !.off = FALSE].off
      BY <3>1, Zenon DEF Rows
    <3>3. step' = "apply" /\ who' = None
      BY <2>3 DEF EnableAgent, Then
    <3>4. /\ row' \in [Agents -> Rows \cup {None}] /\ row'[a] \in Rows /\ ~row'[a].off
          /\ \A b \in Agents \ {a} : row'[b] = row[b]
      BY <1>0, <3>1, <3>2 DEF TypeOK
    <3> QED BY <1>0, <2>0, <3>3, <3>4, ChangeInv, DeliveryAssumption, Zenon DEF TypeOK
  <2>4. CASE Register(a)
    <3>2. [id |-> nextId, key |-> None, off |-> FALSE] \in Rows
      BY <1>0 DEF Rows, TypeOK
    <3>3. step' = "rules" /\ who' = a
      BY <2>4 DEF Register, Then
    <3>4. /\ row' \in [Agents -> Rows \cup {None}] /\ row'[a] \in Rows /\ ~row'[a].off
          /\ \A b \in Agents \ {a} : row'[b] = row[b]
      BY <1>0, <2>4, <3>2 DEF TypeOK, Register
    <3> QED BY <1>0, <2>0, <3>3, <3>4, ChangeInv, DeliveryAssumption, Zenon DEF TypeOK
  <2>5. CASE Revoke(a)
    <3>3. step' = "revoke" /\ who' = a
      BY <2>5 DEF Revoke, Then
    <3>4. /\ row' \in [Agents -> Rows \cup {None}] /\ row'[a] = None
          /\ \A b \in Agents \ {a} : row'[b] = row[b]
      BY <1>0, <2>5 DEF TypeOK, Revoke
    <3> QED BY <1>0, <2>0, <3>3, <3>4, ChangeInv, Zenon DEF TypeOK
  <2>6. ASSUME NEW key \in Keys, SetPublicKey(a, key) PROVE DeliveryInv'
    <3>1. row' = [row EXCEPT ![a] = [row[a] EXCEPT !.key = key]] /\ row[a] \in Rows
      BY <2>1, <2>6 DEF SetPublicKey
    <3>2. LET r == [row[a] EXCEPT !.key = key]
          IN  r \in Rows /\ r.off = row[a].off /\ r.id = row[a].id
      BY <3>1 DEF Rows
    <3>3. step' = "rules" /\ who' = a
      BY <2>6 DEF SetPublicKey, Then
    <3>4. /\ row' \in [Agents -> Rows \cup {None}] /\ row'[a] \in Rows
          /\ row'[a].off = row[a].off /\ row'[a].id = row[a].id
          /\ \A b \in Agents \ {a} : row'[b] = row[b]
      BY <1>0, <3>1, <3>2 DEF TypeOK
    <3> QED BY <1>0, <2>0, <3>1, <3>3, <3>4, ChangeInv, DeliveryAssumption, Zenon DEF TypeOK
  <2> QED BY <1>2, <2>2, <2>3, <2>4, <2>5, <2>6
<1>3. CASE RevokeDisconnect \/ ReadRules \/ ReadRulesFails \/ RetryOnce \/ Observed
  BY <1>0, <1>3, OnwardInv, Zenon DEF RevokeDisconnect, ReadRules, ReadRulesFails, RetryOnce,
     Observed, Change, Then, TypeOK
<1>4. ASSUME NEW a \in Agents, Retire(a) PROVE DeliveryInv'
  BY <1>0, <1>4, OnwardInv DEF Retire, TypeOK
<1>5. CASE UNCHANGED vars
  <2>1. UNCHANGED <<dbVars, ownVars, dp, needsRetry, opVars, unread>>
    BY <1>5 DEF vars
  <2>2. NoPublication' = NoPublication /\ Candidate' = Candidate /\ Plan' = Plan
        /\ \A a : Off(a)' = Off(a)
    BY <2>1, DbFrame DEF NoPublication, ownVars
  <2>3. TypeOK'
    <3>1. /\ gen' = gen /\ nextId' = nextId /\ row' = row /\ rules' = rules
          /\ latest' = latest /\ over' = over /\ bound' = bound /\ pending' = pending
          /\ stale' = stale /\ dp' = dp /\ needsRetry' = needsRetry /\ unread' = unread
      BY <2>1 DEF dbVars, ownVars
    <3>2. /\ step' = step /\ who' = who /\ retry' = retry
          /\ toRetire' = toRetire /\ changed' = changed
      BY <2>1 DEF opVars
    <3>3. /\ gen' \in Nat /\ nextId' \in Nat /\ row' \in [Agents -> Rows \cup {None}]
          /\ rules' \in [Agents -> Vals]
          /\ latest' \in [Agents -> Entries \cup {None}] \cup {None}
          /\ over' \in [Agents -> Overlays \cup {None}]
          /\ dp' \in [Agents -> Plans] \cup {None}
      BY <1>0, <3>1 DEF TypeOK
    <3>4. /\ bound' \in BOOLEAN /\ pending' \in BOOLEAN /\ needsRetry' \in BOOLEAN
          /\ unread' \in BOOLEAN /\ stale' \subseteq Agents
      BY <1>0, <3>1 DEF TypeOK
    <3>5. /\ retry' \in BOOLEAN /\ toRetire' \subseteq Agents /\ changed' \subseteq Agents
          /\ who' \in Agents \cup {None}
      BY <1>0, <3>2 DEF TypeOK
    <3> QED BY <1>0, <3>2, <3>3, <3>4, <3>5 DEF TypeOK
  <2>6. StepInv'
    <3>1. /\ step' = step /\ who' = who /\ row' = row /\ dp' = dp /\ pending' = pending
          /\ stale' = stale /\ changed' = changed /\ bound' = bound
      BY <2>1 DEF dbVars, ownVars, opVars
    <3> QED BY <2>2, <3>1 DEF DeliveryInv, StepInv
  <2>4. EntryInv' /\ OverlayInv' /\ OffInv'
    BY <2>1, <2>2, Zenon DEF DeliveryInv, EntryInv, OverlayInv, OffInv, dbVars, ownVars, opVars
  <2>5. DeliveredIsPublished' /\ SavedInv'
    BY <2>1, <2>2, Zenon DEF DeliveryInv, DeliveredIsPublished, SavedInv, ownVars, opVars, NoEntries
  <2> QED BY <2>3, <2>4, <2>5, <2>6 DEF DeliveryInv
<1> QED
  BY <1>1, <1>2, <1>3, <1>4, <1>5, DisableOverlayInv, PushAllInv, RevokeEntryInv,
     ApplyFailsInv, ApplyNoOpInv, ApplyCommitsInv, CommittedInv, PushAgentsInv, BindInv,
     CrashInv DEF Next, Apply, Operation, Request

-----------------------------------------------------------------------------
(* The overlays, on what is selected                                       *)

LEMMA CoveredIsOff ==
    ASSUME NEW e \in Entries, NEW o, NEW g,
           e.off => ~e.on, e.off \/ (o # None /\ o.id = e.id)
    PROVE  ApplyOverlay(e, o, g).off /\ ~ApplyOverlay(e, o, g).on
<1> DEFINE c == o # None /\ o.id = e.id
<1>1. /\ ApplyOverlay(e, o, g).off = (e.off \/ c)
      /\ ApplyOverlay(e, o, g).on = (e.on /\ ~c)
  BY DEF ApplyOverlay, Entries
<1> QED BY <1>1, Zenon

LEMMA UncoveredIsSame ==
    ASSUME NEW e \in Entries PROVE ApplyOverlay(e, None, 0) = e
<1>1. /\ e.gen \in Nat /\ ~(0 > e.gen) /\ e.off \in BOOLEAN /\ e.on \in BOOLEAN
  BY DEF Entries
<1>2. ApplyOverlay(e, None, 0) = [e EXCEPT !.gen = @, !.off = @, !.on = @]
  BY <1>1, Zenon DEF ApplyOverlay
<1> QED BY <1>2, Zenon DEF Entries

LEMMA NoOverlayGeneration == OverlayGeneration(NoEntries) = 0
BY DEF OverlayGeneration, NoEntries

-----------------------------------------------------------------------------
(* The theorems                                                            *)

(* The inductive invariant of the delivery: what is published was          *)
(* committed, a saved disable is published or covered by an overlay, and   *)
(* with nothing pending the saved declaration is the published one.        *)
THEOREM DeliveryInvHolds == Spec => []DeliveryInv
BY InitInv, NextInv, PTL DEF Spec

(* From DisableAgent's overlay to the next EnableAgent, through failed     *)
(* applies, retries, crashes and other agents' operations, every State     *)
(* selected for the registration is disabled.                              *)
THEOREM DisabledStaysOffHolds == Spec => []DisabledStaysOff
<1>1. DeliveryInv => DisabledStaysOff
  <2> SUFFICES ASSUME DeliveryInv, NEW a \in Agents, Off(a), ~(step = "overlay" /\ who = a),
                      ~NoPublication, latest[a] # None, latest[a].id = row[a].id
               PROVE  Delivery[a].off /\ ~Delivery[a].on
    BY DEF DisabledStaysOff
  <2>1. latest[a] \in Entries
    BY DEF DeliveryInv, TypeOK, NoPublication
  <2>2. latest[a].off => ~latest[a].on
    BY DEF DeliveryInv, EntryInv
  <2>3. latest[a].off \/ (over[a] # None /\ over[a].id = latest[a].id)
    BY DEF DeliveryInv, OffInv
  <2>4. Delivery[a] = ApplyOverlay(latest[a], over[a], OverlayGeneration(over))
    BY DEF Delivery, Effective
  <2> QED BY <2>1, <2>2, <2>3, <2>4, CoveredIsOff
<1> QED BY <1>1, DeliveryInvHolds, PTL

(* No agent is served a key or enabled rules that the data plane did not   *)
(* commit: a failed apply delivers nothing of its own.                     *)
THEOREM DeliveredIsPublishedHolds == Spec => []DeliveredIsPublished
<1>1. DeliveryInv => DeliveredIsPublished
  BY DEF DeliveryInv
<1> QED BY <1>1, DeliveryInvHolds, PTL

(* publication_pending is false only when every agent is served the saved  *)
(* declaration, or the declaration could not be read for its apply.        *)
THEOREM PendingIsTruthfulHolds == Spec => []PendingIsTruthful
<1>1. DeliveryInv => PendingIsTruthful
  <2> SUFFICES ASSUME DeliveryInv, step = "idle", ~pending, bound, ~unread
               PROVE  latest = Candidate /\ Delivery = Candidate
    BY DEF PendingIsTruthful
  <2>1. ~NoPublication
    BY DEF DeliveryInv, StepInv
  <2>2. latest = Candidate /\ over = NoEntries
    BY <2>1 DEF DeliveryInv, SavedInv
  <2>3. latest \in [Agents -> Entries \cup {None}]
    BY <2>1 DEF DeliveryInv, TypeOK, NoPublication
  <2>4. Delivery = [a \in Agents |-> IF latest[a] = None THEN None
                                     ELSE ApplyOverlay(latest[a], None, 0)]
    BY <2>1, <2>2, NoOverlayGeneration DEF Delivery, Effective, NoEntries
  <2>5. \A a \in Agents : latest[a] # None => ApplyOverlay(latest[a], None, 0) = latest[a]
    BY <2>3, UncoveredIsSame
  <2>6. Delivery = latest
    BY <2>3, <2>4, <2>5
  <2> QED BY <2>2, <2>6
<1> QED BY <1>1, DeliveryInvHolds, PTL

(* No operation ends with an agent that has new contents or a higher       *)
(* generation and was not pushed to.                                       *)
THEOREM EveryoneToldHolds == Spec => []EveryoneTold
<1>1. DeliveryInv => EveryoneTold
  BY DEF DeliveryInv, StepInv, EveryoneTold
<1> QED BY <1>1, DeliveryInvHolds, PTL
=============================================================================
