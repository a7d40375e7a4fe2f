---------------------------- MODULE AgentProofs -----------------------------
(***************************************************************************)
(* The agent's runtime, for any states, keys, generations and bounds, in   *)
(* both modes: what it says of its tunnel is so, it keeps the newest state *)
(* it was handed, and it recognises its interface after a crash at any     *)
(* point.                                                                  *)
(***************************************************************************)
EXTENDS Agent, TLAPS

-----------------------------------------------------------------------------
(* The records                                                             *)

LEMMA StateFields ==
    ASSUME NEW st \in States
    PROVE  st # None /\ st.gen \in Gens /\ st.wg \in WGs /\ st.rules \in RuleSets
BY AgentAssumption DEF States, WGs, RuleSets

LEMMA OutcomeFields ==
    ASSUME NEW o \in Outcomes
    PROVE  o.rules \in {"ok", "link", "publish", "fatal"} /\ o.build \in BOOLEAN /\ o.save \in BOOLEAN
<1> DEFINE Fields == [build : BOOLEAN, rules : {"ok", "link", "publish", "fatal"}, save : BOOLEAN]
<1>1. AllWell \in Fields
  BY DEF AllWell
<1>2. [AllWell EXCEPT !.build = FALSE] \in Fields
  BY Zenon DEF AllWell
<1>3. [AllWell EXCEPT !.save = FALSE] \in Fields
  BY Zenon DEF AllWell
<1>4. \A r \in {"link", "publish", "fatal"} : [AllWell EXCEPT !.rules = r] \in Fields
  BY Zenon DEF AllWell
<1>5. o \in Fields
  BY <1>1, <1>2, <1>3, <1>4, Zenon DEF Outcomes
<1> QED BY <1>5

(* The tunnel a state asks for. *)
Tunnel(a, st) == [key |-> a.key, wg |-> st.wg]

LEMMA TunnelType ==
    ASSUME NEW a, RuntimeType(a), a.key # None, NEW st \in States
    PROVE  Tunnel(a, st) \in Tunnels /\ Tunnel(a, st) # None
BY AgentAssumption, StateFields DEF Tunnel, Tunnels, RuntimeType

(* Closing and starting a tunnel leave all of this alone. *)
Kept1(a, b) ==
    /\ b.kernel = a.kernel /\ b.key = a.key /\ b.prev = a.prev /\ b.last = a.last
    /\ b.gen = a.gen /\ b.pending = a.pending /\ b.held = a.held /\ b.refused = a.refused
    /\ b.converged = a.converged /\ b.fatal = a.fatal /\ b.file = a.file

ClosedFrom(a, b) ==
    /\ Kept1(a, b)
    /\ b.retry = None /\ b.due = FALSE /\ b.built = None
    /\ b.link = (IF a.kernel THEN a.link ELSE None)

StartedFrom(a, st, b) ==
    /\ Kept1(a, b)
    /\ b.retry = None /\ b.due = FALSE /\ b.built = Tunnel(a, st)
    /\ b.link = (IF a.kernel THEN a.link ELSE Tunnel(a, st))

LEMMA CloseFacts ==
    ASSUME NEW a, RuntimeType(a)
    PROVE  RuntimeType(Close(a)) /\ ClosedFrom(a, Close(a))
<1>0. PICK b : b = Close(a)
  OBVIOUS
<1>1. /\ b.kernel = a.kernel /\ b.key = a.key /\ b.prev = a.prev /\ b.last = a.last
      /\ b.gen = a.gen /\ b.pending = a.pending /\ b.held = a.held /\ b.refused = a.refused
      /\ b.converged = a.converged /\ b.fatal = a.fatal /\ b.file = a.file
      /\ b.retry = None /\ b.due = FALSE /\ b.built = None
      /\ b.link = (IF a.kernel THEN a.link ELSE None)
      /\ b.table = (IF a.kernel THEN a.table ELSE NoRules)
      /\ DOMAIN b = RuntimeFields
  BY <1>0, Zenon DEF Close, RuntimeType, RuntimeFields
<1>2. RuntimeType(b)
  BY <1>1, Zenon DEF RuntimeType
<1>3. ClosedFrom(a, b)
  BY <1>1, Zenon DEF ClosedFrom, Kept1
<1> QED BY <1>0, <1>2, <1>3, Zenon

LEMMA StartedFacts ==
    ASSUME NEW a, RuntimeType(a), a.key # None, NEW st \in States
    PROVE  RuntimeType(Started(a, st)) /\ StartedFrom(a, st, Started(a, st))
<1>1. PICK c : c = Close(a)
  OBVIOUS
<1>2. PICK b : b = Started(a, st)
  OBVIOUS
<1>3. b = [c EXCEPT !.built = Tunnel(a, st), !.link = IF a.kernel THEN @ ELSE Tunnel(a, st)]
  BY <1>1, <1>2 DEF Started, Tunnel
<1>4. RuntimeType(c) /\ ClosedFrom(a, c)
  BY <1>1, CloseFacts, Zenon
<1>5. /\ b.kernel = c.kernel /\ b.key = c.key /\ b.prev = c.prev /\ b.last = c.last
      /\ b.gen = c.gen /\ b.pending = c.pending /\ b.held = c.held /\ b.refused = c.refused
      /\ b.converged = c.converged /\ b.fatal = c.fatal /\ b.file = c.file
      /\ b.retry = c.retry /\ b.due = c.due /\ b.table = c.table
      /\ b.built = Tunnel(a, st) /\ b.link = (IF a.kernel THEN c.link ELSE Tunnel(a, st))
      /\ DOMAIN b = RuntimeFields
  BY <1>3, <1>4, Zenon DEF RuntimeType, RuntimeFields
<1>6. Tunnel(a, st) \in Tunnels
  BY TunnelType
<1>7. RuntimeType(b)
  BY <1>4, <1>5, <1>6, Zenon DEF RuntimeType
<1>8. StartedFrom(a, st, b)
  BY <1>4, <1>5, Zenon DEF StartedFrom, ClosedFrom, Kept1
<1> QED BY <1>2, <1>7, <1>8, Zenon

-----------------------------------------------------------------------------
(* How an application ends                                                 *)

(* Published: the state is in force, processed and saved. *)
InForce(a, st, b) ==
    /\ b.link = Tunnel(a, st) /\ b.converged /\ b.table = st.rules
    /\ b.gen = st.gen /\ b.last = st /\ b.fatal = a.fatal
    /\ IF a.pending # None /\ a.pending.gen <= st.gen
       THEN b.pending = None /\ ~b.held
       ELSE b.pending = a.pending /\ b.held = a.held
    /\ b.file.key = a.file.key /\ b.file.prev = a.file.prev /\ b.file.last \in {a.file.last, st}

(* Not published: the newest such state is pending. *)
Waits(a, st, b) ==
    /\ a.kernel
    /\ b.last = a.last /\ b.gen = a.gen /\ b.fatal = a.fatal /\ b.file = a.file
    /\ \/ b.link = Tunnel(a, st) /\ b.converged
       \/ b.link = a.link /\ b.converged = a.converged
    /\ IF a.pending = None \/ st.gen >= a.pending.gen
       THEN b.pending = st /\ ~b.held
       ELSE b.pending = a.pending /\ b.held = a.held

(* An error that ends the process. *)
Ends(a, b) ==
    /\ a.kernel /\ ~a.converged /\ ~b.converged /\ b.fatal
    /\ b.last = a.last /\ b.gen = a.gen /\ b.link = a.link /\ b.file = a.file
    /\ b.pending = a.pending /\ b.held = a.held

FinishedFrom(a, st, b) ==
    /\ b.kernel = a.kernel /\ b.key = a.key /\ b.prev = a.prev
    /\ b.retry = a.retry /\ b.due = a.due /\ b.built = a.built
    /\ InForce(a, st, b) \/ Waits(a, st, b) \/ Ends(a, b)

LEMMA FinishCases ==
    ASSUME NEW a, RuntimeType(a), NEW st \in States, NEW o \in Outcomes,
           a.key # None, a.built = Tunnel(a, st), a.file.key = a.key, a.file.prev = a.prev
    PROVE  RuntimeType(FinishApply(a, st, o)) /\ FinishedFrom(a, st, FinishApply(a, st, o))
<1>0. PICK b : b = FinishApply(a, st, o)
  OBVIOUS
<1>1. PICK r : r = RulesResult(a, o)
  OBVIOUS
<1>2. PICK m : m = RulesApplied(a, st, r)
  OBVIOUS
<1>3. /\ r \in {"ok", "link", "publish", "fatal"}
      /\ ~a.kernel => r = "ok"
      /\ r = "fatal" => ~a.converged
  BY <1>1, OutcomeFields DEF RulesResult
<1>4. a.built \in Tunnels /\ st.gen \in Gens /\ st.rules \in RuleSets /\ st # None
  BY TunnelType, StateFields
<1>5. CASE r = "ok"
  <2>1. m = [a EXCEPT !.link = a.built, !.converged = TRUE, !.table = st.rules]
    BY <1>2, <1>5 DEF RulesApplied
  <2>2. b = Processed(m, st, o.save)
    BY <1>0, <1>1, <1>2, <1>5 DEF FinishApply
  <2>3. /\ m.kernel = a.kernel /\ m.key = a.key /\ m.prev = a.prev
        /\ m.refused = a.refused /\ m.retry = a.retry /\ m.due = a.due /\ m.built = a.built
        /\ m.link = a.built /\ m.converged = TRUE /\ m.table = st.rules /\ m.fatal = a.fatal
        /\ m.pending = a.pending /\ m.held = a.held /\ m.file = a.file
        /\ DOMAIN m = RuntimeFields
    BY <2>1, Zenon DEF RuntimeType, RuntimeFields
  <2>4. /\ b.kernel = m.kernel /\ b.key = m.key /\ b.prev = m.prev
        /\ b.refused = m.refused /\ b.retry = m.retry /\ b.due = m.due /\ b.built = m.built
        /\ b.link = m.link /\ b.converged = m.converged /\ b.table = m.table /\ b.fatal = m.fatal
        /\ b.gen = st.gen /\ b.last = st
        /\ b.file = (IF o.save THEN [key |-> m.key, prev |-> m.prev, last |-> st] ELSE m.file)
        /\ b.pending = (IF m.pending # None /\ m.pending.gen <= st.gen THEN None ELSE m.pending)
        /\ b.held = (m.held /\ ~(m.pending # None /\ m.pending.gen <= st.gen))
        /\ DOMAIN b = RuntimeFields
    BY <2>2, <2>3, Zenon DEF Processed, RuntimeFields
  <2>5. b.file \in Files /\ b.file.key = a.key /\ b.file.prev = a.prev /\ b.file.last \in {a.file.last, st}
    BY <2>3, <2>4, OutcomeFields DEF Files, RuntimeType
  <2>6. InForce(a, st, b)
    <3>1. IF a.pending # None /\ a.pending.gen <= st.gen
          THEN b.pending = None /\ ~b.held
          ELSE b.pending = a.pending /\ b.held = a.held
      <4>1. CASE a.pending # None /\ a.pending.gen <= st.gen
        BY <2>3, <2>4, <4>1, Zenon
      <4>2. CASE ~(a.pending # None /\ a.pending.gen <= st.gen)
        <5>1. b.pending = a.pending /\ b.held = (a.held /\ TRUE)
          BY <2>3, <2>4, <4>2, Zenon
        <5>2. b.held = a.held
          BY <5>1, Zenon DEF RuntimeType
        <5> QED BY <4>2, <5>1, <5>2, Zenon
      <4> QED BY <4>1, <4>2
    <3> QED BY <2>3, <2>4, <2>5, <3>1, Zenon DEF InForce
  <2>7. RuntimeType(b)
    <3>1. b.pending \in States \cup {None} /\ b.gen \in Gens \cup {0} /\ b.last \in States \cup {None}
      BY <1>4, <2>3, <2>4, Zenon DEF RuntimeType
    <3>2. b.held \in BOOLEAN
      BY <2>4, Zenon
    <3>3. b.link \in Tunnels \cup {None} /\ b.table \in RuleSets \cup {NoRules} /\ b.converged \in BOOLEAN
      BY <1>4, <2>3, <2>4, Zenon
    <3>4. /\ b.kernel = a.kernel /\ b.key = a.key /\ b.prev = a.prev /\ b.refused = a.refused
          /\ b.retry = a.retry /\ b.due = a.due /\ b.built = a.built /\ b.fatal = a.fatal
          /\ DOMAIN b = RuntimeFields
      BY <2>3, <2>4, Zenon
    <3> QED BY <2>5, <3>1, <3>2, <3>3, <3>4, Zenon DEF RuntimeType
  <2> QED BY <1>0, <2>3, <2>4, <2>6, <2>7, Zenon DEF FinishedFrom
<1>6. CASE r \in {"link", "publish"}
  <2>1. m = a \/ m = [a EXCEPT !.link = a.built, !.converged = TRUE]
    BY <1>2, <1>6 DEF RulesApplied
  <2>2. b = KeepPending(m, st)
    BY <1>0, <1>1, <1>2, <1>6 DEF FinishApply
  <2>3. /\ m.kernel = a.kernel /\ m.key = a.key /\ m.prev = a.prev
        /\ m.refused = a.refused /\ m.retry = a.retry /\ m.due = a.due /\ m.built = a.built
        /\ m.last = a.last /\ m.gen = a.gen /\ m.fatal = a.fatal /\ m.table = a.table
        /\ m.pending = a.pending /\ m.held = a.held /\ m.file = a.file
        /\ \/ m.link = a.built /\ m.converged = TRUE
           \/ m.link = a.link /\ m.converged = a.converged
        /\ DOMAIN m = RuntimeFields
    BY <2>1, Zenon DEF RuntimeType, RuntimeFields
  <2>4. /\ b.kernel = m.kernel /\ b.key = m.key /\ b.prev = m.prev
        /\ b.refused = m.refused /\ b.retry = m.retry /\ b.due = m.due /\ b.built = m.built
        /\ b.link = m.link /\ b.converged = m.converged /\ b.fatal = m.fatal /\ b.table = m.table
        /\ b.gen = m.gen /\ b.last = m.last /\ b.file = m.file
        /\ IF m.pending = None \/ st.gen >= m.pending.gen
           THEN b.pending = st /\ b.held = FALSE
           ELSE b.pending = m.pending /\ b.held = m.held
        /\ DOMAIN b = RuntimeFields
    BY <2>2, <2>3, Zenon DEF KeepPending, RuntimeFields
  <2>5. Waits(a, st, b)
    BY <1>3, <1>6, <2>3, <2>4, Zenon DEF Waits
  <2>6. RuntimeType(b)
    <3>1. b.pending \in States \cup {None} /\ b.held \in BOOLEAN
      BY <2>3, <2>4, Zenon DEF RuntimeType
    <3>2. b.link \in Tunnels \cup {None} /\ b.converged \in BOOLEAN
      BY <1>4, <2>3, <2>4, Zenon DEF RuntimeType
    <3> QED BY <2>3, <2>4, <3>1, <3>2, Zenon DEF RuntimeType
  <2> QED BY <1>0, <2>3, <2>4, <2>5, <2>6, Zenon DEF FinishedFrom
<1>7. CASE r = "fatal"
  <2>1. b = [a EXCEPT !.fatal = TRUE]
    BY <1>0, <1>1, <1>2, <1>7 DEF FinishApply, RulesApplied
  <2>2. /\ b.kernel = a.kernel /\ b.key = a.key /\ b.prev = a.prev
        /\ b.refused = a.refused /\ b.retry = a.retry /\ b.due = a.due /\ b.built = a.built
        /\ b.link = a.link /\ b.converged = a.converged /\ b.fatal = TRUE /\ b.table = a.table
        /\ b.gen = a.gen /\ b.last = a.last /\ b.file = a.file
        /\ b.pending = a.pending /\ b.held = a.held
        /\ DOMAIN b = RuntimeFields
    BY <2>1, Zenon DEF RuntimeType, RuntimeFields
  <2>3. RuntimeType(b)
    BY <2>2, Zenon DEF RuntimeType
  <2>4. Ends(a, b)
    BY <1>3, <1>7, <2>2, Zenon DEF Ends
  <2> QED BY <1>0, <2>2, <2>3, <2>4, Zenon DEF FinishedFrom
<1> QED BY <1>3, <1>5, <1>6, <1>7, Zenon

(* The tunnel could not be built: the state is kept to build it from. *)
NotBuilt(a, st, b) ==
    /\ a.kernel => st.wg \in BadWG
    /\ b.last = a.last /\ b.gen = a.gen /\ b.pending = a.pending /\ b.held = a.held
    /\ b.converged = a.converged /\ b.fatal = a.fatal /\ b.file = a.file
    /\ b.retry = st /\ b.due = (st.wg \notin BadWG) /\ b.built = None
    /\ b.link = (IF a.kernel THEN a.link ELSE None)

(* It was, or was there already. *)
HasTunnel(a, st, b) ==
    /\ st.wg \notin BadWG /\ b.built = Tunnel(a, st)
    /\ InForce(a, st, b) \/ Waits(a, st, b) \/ Ends(a, b)

Credentials(a, b) == b.kernel = a.kernel /\ b.key = a.key /\ b.prev = a.prev

LEMMA NotBuiltFacts ==
    ASSUME NEW a, RuntimeType(a), NEW st \in States, NEW b,
           b = [Close(a) EXCEPT !.retry = st, !.due = (st.wg \notin BadWG)],
           a.kernel => st.wg \in BadWG
    PROVE  RuntimeType(b) /\ NotBuilt(a, st, b) /\ Credentials(a, b)
<1>1. PICK c : c = Close(a)
  OBVIOUS
<1>2. RuntimeType(c) /\ ClosedFrom(a, c)
  BY <1>1, CloseFacts, Zenon
<1>3. b = [c EXCEPT !.retry = st, !.due = (st.wg \notin BadWG)]
  BY <1>1
<1>4. /\ b.kernel = c.kernel /\ b.key = c.key /\ b.prev = c.prev /\ b.last = c.last
      /\ b.gen = c.gen /\ b.pending = c.pending /\ b.held = c.held /\ b.refused = c.refused
      /\ b.converged = c.converged /\ b.fatal = c.fatal /\ b.file = c.file /\ b.built = c.built
      /\ b.link = c.link /\ b.table = c.table /\ b.retry = st /\ b.due = (st.wg \notin BadWG)
      /\ DOMAIN b = RuntimeFields
  BY <1>2, <1>3, Zenon DEF RuntimeType, RuntimeFields
<1>5. RuntimeType(b)
  BY <1>2, <1>4, Zenon DEF RuntimeType
<1>6. NotBuilt(a, st, b) /\ Credentials(a, b)
  BY <1>2, <1>4, Zenon DEF NotBuilt, Credentials, ClosedFrom, Kept1
<1> QED BY <1>5, <1>6, Zenon

BuiltFrom(a, st, b) ==
    /\ Credentials(a, b)
    /\ \/ NotBuilt(a, st, b)
       \/ HasTunnel(a, st, b) /\ b.retry = None /\ b.due = FALSE

LEMMA BuildCases ==
    ASSUME NEW a, RuntimeType(a), NEW st \in States, NEW o \in Outcomes,
           a.key # None, a.file.key = a.key, a.file.prev = a.prev
    PROVE  RuntimeType(Build(a, st, FALSE, o)) /\ BuiltFrom(a, st, Build(a, st, FALSE, o))
<1>0. PICK b : b = Build(a, st, FALSE, o)
  BY Zenon
<1>1. CASE st.wg \in BadWG
  <2>1. PICK c : c = Close(a)
    OBVIOUS
  <2>2. b = [c EXCEPT !.retry = st]
    BY <1>0, <1>1, <2>1 DEF Build
  <2>3. RuntimeType(c) /\ ClosedFrom(a, c)
    BY <2>1, CloseFacts, Zenon
  <2>4. b = [c EXCEPT !.retry = st, !.due = (st.wg \notin BadWG)]
    BY <1>1, <2>2, <2>3, Zenon DEF RuntimeType, RuntimeFields, ClosedFrom
  <2>5. b = [Close(a) EXCEPT !.retry = st, !.due = (st.wg \notin BadWG)]
    BY <2>1, <2>4
  <2>6. RuntimeType(b) /\ NotBuilt(a, st, b) /\ Credentials(a, b)
    BY <1>1, <2>5, NotBuiltFacts, Zenon
  <2> QED BY <1>0, <2>6, Zenon DEF BuiltFrom
<1>2. CASE st.wg \notin BadWG /\ ~a.kernel /\ ~o.build
  <2>1. b = [Close(a) EXCEPT !.retry = st, !.due = (st.wg \notin BadWG)]
    BY <1>0, <1>2, Zenon DEF Build
  <2>2. RuntimeType(b) /\ NotBuilt(a, st, b) /\ Credentials(a, b)
    BY <1>2, <2>1, NotBuiltFacts, Zenon
  <2> QED BY <1>0, <2>2, Zenon DEF BuiltFrom
<1>3. CASE st.wg \notin BadWG /\ ~(~a.kernel /\ ~o.build)
  <2>1. PICK m : m = Started(a, st)
    OBVIOUS
  <2>2. b = FinishApply(m, st, o)
    BY <1>0, <1>3, <2>1 DEF Build
  <2>3. RuntimeType(m) /\ StartedFrom(a, st, m)
    BY <2>1, StartedFacts, Zenon
  <2>4. Tunnel(m, st) = Tunnel(a, st) /\ m.key # None /\ m.built = Tunnel(m, st)
        /\ m.file.key = m.key /\ m.file.prev = m.prev
    BY <2>3 DEF Tunnel, StartedFrom, Kept1
  <2>5. RuntimeType(b) /\ FinishedFrom(m, st, b)
    BY <2>2, <2>3, <2>4, FinishCases, Zenon
  <2>6. InForce(m, st, b) => InForce(a, st, b)
    BY <2>3, <2>4, Zenon DEF InForce, StartedFrom, Kept1
  <2>7. Waits(m, st, b) => Waits(a, st, b)
    BY <2>3, <2>4, Zenon DEF Waits, StartedFrom, Kept1
  <2>8. Ends(m, b) => Ends(a, b)
    BY <2>3, Zenon DEF Ends, StartedFrom, Kept1
  <2>9. Credentials(a, b) /\ b.retry = None /\ b.due = FALSE /\ b.built = Tunnel(a, st)
    BY <2>3, <2>5, Zenon DEF Credentials, FinishedFrom, StartedFrom, Kept1
  <2>10. HasTunnel(a, st, b)
    BY <1>3, <2>5, <2>6, <2>7, <2>8, <2>9, Zenon DEF HasTunnel, FinishedFrom
  <2> QED BY <1>0, <2>5, <2>9, <2>10, Zenon DEF BuiltFrom
<1> QED BY <1>1, <1>2, <1>3, Zenon

(* The state was refused before anything was touched. *)
Refused(a, st, b) ==
    /\ Refuses(a, st)
    /\ b.last = a.last /\ b.gen = a.gen /\ b.pending = a.pending /\ b.held = a.held
    /\ b.converged = a.converged /\ b.fatal = a.fatal /\ b.file = a.file
    /\ b.retry = a.retry /\ b.due = a.due /\ b.built = a.built /\ b.link = a.link
    /\ b.table = a.table

AppliedFrom(a, st, b) ==
    /\ Credentials(a, b)
    /\ \/ Refused(a, st, b)
       \/ NotBuilt(a, st, b)
       \/ /\ HasTunnel(a, st, b)
          /\ b.retry \in {None, a.retry} /\ b.due \in {FALSE, a.due}

(* Only the refusal changes. *)
OnlyRefused(a, b) ==
    /\ b.kernel = a.kernel /\ b.key = a.key /\ b.prev = a.prev /\ b.last = a.last
    /\ b.gen = a.gen /\ b.pending = a.pending /\ b.held = a.held
    /\ b.converged = a.converged /\ b.fatal = a.fatal /\ b.file = a.file
    /\ b.retry = a.retry /\ b.due = a.due /\ b.built = a.built /\ b.link = a.link
    /\ b.table = a.table

LEMMA RefusedField ==
    ASSUME NEW a, RuntimeType(a), NEW v \in Gens \cup {None}
    PROVE  RuntimeType([a EXCEPT !.refused = v]) /\ OnlyRefused(a, [a EXCEPT !.refused = v])
<1>0. PICK b : b = [a EXCEPT !.refused = v]
  BY Zenon
<1>1. /\ b.kernel = a.kernel /\ b.key = a.key /\ b.prev = a.prev
      /\ b.last = a.last /\ b.gen = a.gen /\ b.pending = a.pending /\ b.held = a.held
      /\ b.converged = a.converged /\ b.fatal = a.fatal /\ b.file = a.file
      /\ b.retry = a.retry /\ b.due = a.due /\ b.built = a.built /\ b.link = a.link
      /\ b.table = a.table /\ b.refused = v /\ DOMAIN b = RuntimeFields
  BY <1>0, Zenon DEF RuntimeType, RuntimeFields
<1>2. RuntimeType(b)
  BY <1>1, Zenon DEF RuntimeType
<1>3. OnlyRefused(a, b)
  BY <1>1, Zenon DEF OnlyRefused
<1> QED BY <1>0, <1>2, <1>3, Zenon

LEMMA ApplyCases ==
    ASSUME NEW a, RuntimeType(a), NEW st \in States, NEW o \in Outcomes,
           a.key # None, a.file.key = a.key, a.file.prev = a.prev,
           a.built # None => a.built.key = a.key /\ a.built.wg \notin BadWG
    PROVE  RuntimeType(Apply(a, st, o)) /\ AppliedFrom(a, st, Apply(a, st, o))
<1>0. PICK b : b = Apply(a, st, o)
  OBVIOUS
<1>1. CASE Refuses(a, st)
  <2>1. b = NoteRefused(a, st)
    BY <1>0, <1>1 DEF Apply
  <2>2. b = a \/ b = [a EXCEPT !.refused = st.gen]
    BY <2>1 DEF NoteRefused
  <2>3. RuntimeType(b) /\ (b = a \/ OnlyRefused(a, b))
    <3>1. st.gen \in Gens \cup {None}
      BY StateFields
    <3> QED BY <2>2, <3>1, RefusedField, Zenon
  <2>4. Credentials(a, b) /\ Refused(a, st, b)
    BY <1>1, <2>3, Zenon DEF OnlyRefused, Credentials, Refused
  <2> QED BY <1>0, <2>3, <2>4, Zenon DEF AppliedFrom
<1>2. CASE ~Refuses(a, st)
  <2>1. PICK c : c = NoteAccepted(a, st)
    OBVIOUS
  <2>2. c = a \/ c = [a EXCEPT !.refused = None]
    BY <2>1 DEF NoteAccepted
  <2>3. RuntimeType(c) /\ (c = a \/ OnlyRefused(a, c))
    BY <2>2, RefusedField, Zenon
  <2>4. c.key # None /\ c.file.key = c.key /\ c.file.prev = c.prev /\ Tunnel(c, st) = Tunnel(a, st)
    <3>1. c.key = a.key /\ c.prev = a.prev /\ c.file = a.file
      BY <2>3, Zenon DEF OnlyRefused
    <3> QED BY <3>1 DEF Tunnel
  <2>5. Credentials(c, b) => Credentials(a, b)
    BY <2>3, Zenon DEF OnlyRefused, Credentials
  <2>6. NotBuilt(c, st, b) => NotBuilt(a, st, b)
    BY <2>3, Zenon DEF OnlyRefused, NotBuilt
  <2>7. /\ InForce(c, st, b) => InForce(a, st, b)
        /\ Waits(c, st, b) => Waits(a, st, b)
        /\ Ends(c, b) => Ends(a, b)
    <3>1. InForce(c, st, b) => InForce(a, st, b)
      BY <2>3, <2>4, Zenon DEF OnlyRefused, InForce
    <3>2. Waits(c, st, b) => Waits(a, st, b)
      BY <2>3, <2>4, Zenon DEF OnlyRefused, Waits
    <3>3. Ends(c, b) => Ends(a, b)
      BY <2>3, Zenon DEF OnlyRefused, Ends
    <3> QED BY <3>1, <3>2, <3>3, Zenon
  <2>8. CASE c.built = None \/ c.built.wg # st.wg
    <3>1. b = Build(c, st, FALSE, o)
      BY <1>0, <1>2, <2>1, <2>8, Zenon DEF Apply
    <3>2. RuntimeType(b) /\ BuiltFrom(c, st, b)
      BY <2>3, <2>4, <3>1, BuildCases, Zenon
    <3>3. HasTunnel(c, st, b) => HasTunnel(a, st, b)
      BY <2>4, <2>7, Zenon DEF HasTunnel
    <3> QED BY <1>0, <2>5, <2>6, <3>2, <3>3, Zenon DEF AppliedFrom, BuiltFrom
  <2>9. CASE ~(c.built = None \/ c.built.wg # st.wg)
    <3>1. b = FinishApply(c, st, o)
      BY <1>0, <1>2, <2>1, <2>9 DEF Apply
    <3>2. c.built = a.built /\ a.built # None /\ a.built.wg = st.wg
      BY <2>3, <2>9, Zenon DEF OnlyRefused
    <3>3. c.built = Tunnel(c, st) /\ st.wg \notin BadWG
      BY <2>4, <3>2, Zenon DEF RuntimeType, Tunnels, Tunnel
    <3>4. RuntimeType(b) /\ FinishedFrom(c, st, b)
      BY <2>3, <2>4, <3>1, <3>3, FinishCases, Zenon
    <3>5. b.retry = a.retry /\ b.due = a.due /\ b.built = Tunnel(a, st) /\ Credentials(c, b)
      BY <2>3, <2>4, <3>3, <3>4, Zenon DEF OnlyRefused, FinishedFrom, Credentials
    <3>6. HasTunnel(a, st, b)
      BY <2>7, <3>3, <3>4, <3>5, Zenon DEF HasTunnel, FinishedFrom
    <3> QED BY <1>0, <2>5, <3>4, <3>5, <3>6, Zenon DEF AppliedFrom
  <2> QED BY <2>8, <2>9
<1> QED BY <1>1, <1>2

-----------------------------------------------------------------------------
(* An application keeps the runtime's invariant                            *)

LEMMA AppliedKeys ==
    ASSUME NEW a, RuntimeType(a), NEW st \in States, NEW b, RuntimeType(b), NEW n \in Nat,
           a.key # None, KeysInv(a, n), AppliedFrom(a, st, b)
    PROVE  KeysInv(b, n)
<1>1. b.kernel = a.kernel /\ b.key = a.key /\ b.prev = a.prev
  BY Zenon DEF AppliedFrom, Credentials
<1>2. b.file.key = a.file.key /\ b.file.prev = a.file.prev
  BY Zenon DEF AppliedFrom, Refused, NotBuilt, HasTunnel, InForce, Waits, Ends
<1>3. b.link = a.link \/ b.link = Tunnel(a, st) \/ b.link = None
  BY Zenon DEF AppliedFrom, Refused, NotBuilt, HasTunnel, InForce, Waits, Ends
<1>4. Tunnel(a, st).key = a.key
  BY DEF Tunnel
<1>5. b.link # None => /\ b.link.key <= n
                       /\ \/ b.link.key \in {b.key, b.prev}
                          \/ b.prev # None /\ b.prev > b.link.key
  BY <1>1, <1>3, <1>4, Zenon DEF KeysInv
<1> QED BY <1>1, <1>2, <1>5, Zenon DEF KeysInv

LEMMA AppliedStates ==
    ASSUME NEW a, NEW st \in States, NEW b, GoodStates(a), AppliedFrom(a, st, b)
    PROVE  GoodStates(b)
<1>1. CASE Refused(a, st, b)
  BY <1>1, Zenon DEF Refused, GoodStates
<1>2. CASE NotBuilt(a, st, b)
  BY <1>2, Zenon DEF NotBuilt, GoodStates
<1>3. CASE HasTunnel(a, st, b)
  <2>1. Buildable(st) /\ Buildable(None)
    BY <1>3, Zenon DEF HasTunnel, Buildable
  <2>2. /\ b.last = a.last \/ b.last = st
        /\ b.pending = a.pending \/ b.pending = st \/ b.pending = None
        /\ b.file.last = a.file.last \/ b.file.last = st
    BY <1>3, Zenon DEF HasTunnel, InForce, Waits, Ends
  <2> QED BY <2>1, <2>2, Zenon DEF GoodStates
<1> QED BY <1>1, <1>2, <1>3, Zenon DEF AppliedFrom

LEMMA AppliedMode ==
    ASSUME NEW a, RuntimeType(a), NEW st \in States, NEW b, RuntimeType(b),
           ModeInv(a), AppliedFrom(a, st, b)
    PROVE  ModeInv(b)
<1>1. b.kernel = a.kernel /\ st # None
  BY StateFields, Zenon DEF AppliedFrom, Credentials
<1>2. CASE Refused(a, st, b)
  BY <1>1, <1>2, Zenon DEF Refused, ModeInv
<1>3. CASE NotBuilt(a, st, b)
  BY <1>1, <1>3, Zenon DEF NotBuilt, ModeInv
<1>4. CASE HasTunnel(a, st, b) /\ b.due \in {FALSE, a.due}
  <2>1. b.built = Tunnel(a, st)
    BY <1>4, Zenon DEF HasTunnel
  <2>2. b.kernel => ~b.due
    BY <1>1, <1>4, Zenon DEF ModeInv
  <2>3. CASE InForce(a, st, b)
    BY <1>1, <2>1, <2>2, <2>3, Zenon DEF InForce, ModeInv
  <2>4. CASE Waits(a, st, b)
    BY <1>1, <2>2, <2>4, Zenon DEF Waits, ModeInv
  <2>5. CASE Ends(a, b)
    BY <1>1, <2>2, <2>5, Zenon DEF Ends, ModeInv
  <2> QED BY <1>4, <2>3, <2>4, <2>5, Zenon DEF HasTunnel
<1> QED BY <1>2, <1>3, <1>4, Zenon DEF AppliedFrom

(* What was pending or in force before matters only to a state that was
   refused, or not built. *)
LEMMA AppliedForce ==
    ASSUME NEW a, RuntimeType(a), NEW st \in States, NEW b, RuntimeType(b),
           a.key # None, AppliedFrom(a, st, b),
           ForceInv(a) \/ (a.built = None /\ Buildable(st))
    PROVE  ForceInv(b)
<1>1. b.kernel = a.kernel /\ b.key = a.key /\ st # None
  BY StateFields, Zenon DEF AppliedFrom, Credentials
<1>2. CASE Refused(a, st, b)
  <2>1. ForceInv(a)
    BY <1>2, Zenon DEF Refused, Refuses
  <2> QED BY <1>1, <1>2, <2>1, Zenon DEF Refused, ForceInv
<1>3. CASE NotBuilt(a, st, b)
  <2>1. b.kernel => ForceInv(a)
    BY <1>1, <1>3, Zenon DEF NotBuilt, Buildable
  <2>2. b.built = None /\ (b.kernel => /\ b.last = a.last /\ b.converged = a.converged
                                       /\ b.fatal = a.fatal /\ b.pending = a.pending)
    BY <1>3, Zenon DEF NotBuilt
  <2> QED BY <1>1, <2>1, <2>2, Zenon DEF ForceInv
<1>4. CASE HasTunnel(a, st, b)
  <2>1. b.built = Tunnel(a, st) /\ st.wg \notin BadWG
    BY <1>4, Zenon DEF HasTunnel
  <2>2. b.built.key = b.key /\ b.built.wg \notin BadWG /\ Tunnel(a, st) = [key |-> b.key, wg |-> st.wg]
    BY <1>1, <2>1 DEF Tunnel
  <2>3. CASE InForce(a, st, b)
    BY <1>1, <2>2, <2>3, Zenon DEF InForce, ForceInv
  <2>4. CASE Waits(a, st, b)
    BY <1>1, <2>2, <2>4, Zenon DEF Waits, ForceInv
  <2>5. CASE Ends(a, b)
    BY <1>1, <2>2, <2>5, Zenon DEF Ends, ForceInv
  <2> QED BY <1>4, <2>3, <2>4, <2>5, Zenon DEF HasTunnel
<1> QED BY <1>2, <1>3, <1>4, Zenon DEF AppliedFrom

-----------------------------------------------------------------------------
(* Types                                                                   *)

Readers == [pc : {"idle", "dial", "read", "same", "apply"}, first : BOOLEAN,
            st : States \cup {None}, got : States \cup {None}]
Rotations == [pc : {"idle", "apply", "reconnect"}, last : States \cup {None}]

(* TypeOK of everything but the runtime. *)
OthersType ==
    /\ up \in BOOLEAN /\ reader \in Readers /\ tick \in {"check", "pending", "retry"}
    /\ rot \in Rotations
    /\ conn \in KeyNumbers \cup {None} /\ cut \in BOOLEAN
    /\ chan \in Seq(States) /\ Len(chan) <= MaxChan
    /\ srv \in States /\ dirty \in BOOLEAN /\ fails \in 0 .. MaxFails /\ issued \in KeyNumbers

LEMMA TypeSplit == TypeOK <=> RuntimeType(rt) /\ OthersType
BY Zenon DEF TypeOK, OthersType, Readers, Rotations

LEMMA SpendType ==
    ASSUME fails \in 0 .. MaxFails, NEW n \in Nat, Spend(n)
    PROVE  fails' \in 0 .. MaxFails
BY AgentAssumption DEF Spend

LEMMA CostType == \A o \in Outcomes : Cost(o) \in Nat
BY DEF Cost

LEMMA NoneTypes == NoReader \in Readers /\ NoRotation \in Rotations
BY DEF NoReader, NoRotation, Readers, Rotations

LEMMA StreamTypes ==
    ASSUME TypeOK, Arm \/ Dial \/ Hangup \/ Read \/ Same \/ \E o \in Outcomes : StreamApply(o)
    PROVE  OthersType'
<1>0. OthersType /\ rt.key \in KeyNumbers \cup {None}
  BY TypeSplit, Zenon DEF RuntimeType
<1> USE DEF OthersType
<1>1. CASE Arm
  <2>1. reader' \in Readers
    BY <1>1, Zenon DEF Arm, NoReader, Readers
  <2> QED BY <1>0, <1>1, <2>1, Zenon DEF Arm
<1>2. CASE Dial
  <2>1. reader' \in Readers
    BY <1>0, <1>2, Zenon DEF Dial, Readers
  <2> QED BY <1>0, <1>2, <2>1, Zenon DEF Dial
<1>3. CASE Hangup
  <2>1. <<>> \in Seq(States) /\ Len(<<>>) <= MaxChan
    BY AgentAssumption
  <2> QED BY <1>0, <1>3, <2>1, NoneTypes, Zenon DEF Hangup
<1>4. CASE Read
  <2>1. Head(chan) \in States /\ chan' \in Seq(States) /\ Len(chan') <= MaxChan
    BY <1>0, <1>4, AgentAssumption DEF Read
  <2>2. reader' \in Readers
    <3>1. PICK pc \in {"apply", "read", "same"}, st \in States \cup {None} :
            reader' = [reader EXCEPT !.pc = pc, !.st = st]
      BY <1>4, <2>1, Zenon DEF Read
    <3> QED BY <1>0, <3>1, Zenon DEF Readers
  <2> QED BY <1>0, <1>4, <2>1, <2>2, Zenon DEF Read
<1>5. CASE Same
  <2>1. reader' \in Readers
    <3>1. \/ reader' = [reader EXCEPT !.pc = "read", !.st = None]
          \/ reader' = [reader EXCEPT !.pc = "apply"]
      BY <1>5, Zenon DEF Same
    <3> QED BY <1>0, <3>1, Zenon DEF Readers
  <2> QED BY <1>0, <1>5, <2>1, Zenon DEF Same
<1>6. ASSUME NEW o \in Outcomes, StreamApply(o) PROVE OthersType'
  <2>1. reader' \in Readers
    BY <1>0, <1>6 DEF StreamApply, Readers
  <2>2. fails' \in 0 .. MaxFails
    BY <1>0, <1>6, SpendType, CostType, Zenon DEF StreamApply
  <2> QED BY <1>0, <1>6, <2>1, <2>2, Zenon DEF StreamApply
<1> QED BY <1>1, <1>2, <1>3, <1>4, <1>5, <1>6, Zenon

LEMMA TickTypes ==
    ASSUME TypeOK, NEW o \in Outcomes,
           CheckQuiet \/ PendingRead \/ CheckRetry(o) \/ CheckRebuild(o) \/ PendingApply(o)
    PROVE  OthersType'
<1>0. OthersType
  BY TypeSplit, Zenon
<1> USE DEF OthersType
<1>1. CASE CheckQuiet \/ PendingRead
  <2>1. tick' \in {"check", "pending", "retry"}
    BY <1>1, Zenon DEF CheckQuiet, PendingRead
  <2> QED BY <1>0, <1>1, <2>1, Zenon DEF CheckQuiet, PendingRead
<1>2. CASE CheckRetry(o) \/ CheckRebuild(o) \/ PendingApply(o)
  <2>1. \E n \in Nat : Spend(n)
    BY <1>2, CostType, Zenon DEF CheckRetry, CheckRebuild, PendingApply
  <2>2. fails' \in 0 .. MaxFails
    BY <1>0, <2>1, SpendType, Zenon
  <2> QED BY <1>0, <1>2, <2>2, Zenon DEF CheckRetry, CheckRebuild, PendingApply
<1> QED BY <1>1, <1>2, Zenon

LEMMA RotateTypes ==
    ASSUME TypeOK, RotateReconnect \/ (\E o \in Outcomes : RotateApply(o))
                   \/ (\E ok \in BOOLEAN : RotateSave(ok))
    PROVE  OthersType'
<1>0. OthersType /\ rt.last \in States \cup {None}
  BY TypeSplit, Zenon DEF RuntimeType
<1> USE DEF OthersType
<1>1. CASE RotateReconnect
  BY <1>0, <1>1, NoneTypes, Zenon DEF RotateReconnect
<1>2. ASSUME NEW o \in Outcomes, RotateApply(o) PROVE OthersType'
  <2>1. rot' \in Rotations
    BY <1>2 DEF RotateApply, Rotations
  <2>2. fails' \in 0 .. MaxFails
    BY <1>0, <1>2, SpendType, CostType, Zenon DEF RotateApply
  <2> QED BY <1>0, <1>2, <2>1, <2>2, Zenon DEF RotateApply
<1>3. ASSUME NEW ok \in BOOLEAN, RotateSave(ok) PROVE OthersType'
  <2>1. rot' \in Rotations
    <3>1. [pc |-> "apply", last |-> rt.last] \in Rotations
      BY <1>0 DEF Rotations
    <3> QED BY <1>0, <1>3, <3>1, Zenon DEF RotateSave
  <2>2. fails' \in 0 .. MaxFails
    <3>1. \E n \in {0, 1} : Spend(n)
      BY <1>3, Zenon DEF RotateSave
    <3>2. \E n \in Nat : Spend(n)
      BY <3>1
    <3> QED BY <1>0, <3>2, SpendType, Zenon
  <2>3. issued' \in KeyNumbers
    <3>1. issued < MaxKey /\ (issued' = issued \/ issued' = issued + 1)
      BY <1>3, Zenon DEF RotateSave
    <3> QED BY <1>0, <3>1, AgentAssumption DEF KeyNumbers
  <2> QED BY <1>0, <1>3, <2>1, <2>2, <2>3, Zenon DEF RotateSave
<1> QED BY <1>1, <1>2, <1>3, Zenon

LEMMA ServerTypes ==
    ASSUME TypeOK, NEW s \in States, Publish(s) \/ Restored(s) \/ Send \/ Lose
    PROVE  OthersType'
<1>0. OthersType
  BY TypeSplit, Zenon
<1>1. <<>> \in Seq(States) /\ Len(<<>>) <= MaxChan
  BY AgentAssumption
<1> USE DEF OthersType
<1>2. CASE Publish(s)
  <2>1. dirty' \in BOOLEAN
    BY <1>2, Zenon DEF Publish
  <2> QED BY <1>0, <1>2, <2>1, Zenon DEF Publish
<1>3. CASE Restored(s)
  <2>1. fails' \in 0 .. MaxFails
    BY <1>0, <1>3, SpendType DEF Restored
  <2> QED BY <1>0, <1>1, <1>3, <2>1, Zenon DEF Restored
<1>4. CASE Send
  <2>1. chan' \in Seq(States) /\ Len(chan') <= MaxChan
    BY <1>0, <1>4, AgentAssumption DEF Send
  <2> QED BY <1>0, <1>4, <2>1, Zenon DEF Send
<1>5. CASE Lose
  <2>1. fails' \in 0 .. MaxFails
    BY <1>0, <1>5, SpendType DEF Lose
  <2> QED BY <1>0, <1>1, <1>5, <2>1, Zenon DEF Lose
<1> QED BY <1>2, <1>3, <1>4, <1>5, Zenon

LEMMA ProcessTypes ==
    ASSUME TypeOK, Crash \/ Exit \/ StoppedRotate \/ \E o \in Outcomes : Start(o)
    PROVE  OthersType'
<1>0. OthersType
  BY TypeSplit, Zenon
<1>1. <<>> \in Seq(States) /\ Len(<<>>) <= MaxChan
  BY AgentAssumption
<1> USE DEF OthersType
<1>2. CASE Crash
  <2>1. fails' \in 0 .. MaxFails
    BY <1>0, <1>2, SpendType DEF Crash
  <2> QED BY <1>0, <1>1, <1>2, <2>1, NoneTypes, Zenon DEF Crash, Ended
<1>3. CASE Exit
  BY <1>0, <1>1, <1>3, NoneTypes, Zenon DEF Exit, Ended
<1>4. CASE StoppedRotate
  BY <1>0, <1>4, Zenon DEF StoppedRotate
<1>5. ASSUME NEW o \in Outcomes, Start(o) PROVE OthersType'
  <2>1. fails' \in 0 .. MaxFails
    BY <1>0, <1>5, SpendType, CostType, Zenon DEF Start
  <2>2. issued' \in KeyNumbers /\ up' \in BOOLEAN
    BY <1>0, <1>5, Zenon DEF Start
  <2>3. UNCHANGED <<reader, tick, rot, conn, cut, chan, srv, dirty>>
    BY <1>5, Zenon DEF Start
  <2> QED BY <1>0, <2>1, <2>2, <2>3, Zenon
<1> QED BY <1>2, <1>3, <1>4, <1>5, Zenon

-----------------------------------------------------------------------------
(* What the goroutines do to the runtime                                   *)

(* An application keeps the mode, the key and a saved state, and leaves no
   runtime without a tunnel and without a reason. *)
AfterApply(a, b) ==
    /\ b.kernel = a.kernel /\ b.key = a.key
    /\ a.last # None => b.last # None
    /\ b.built = None => b.retry # None /\ (b.due \/ b.retry.wg \in BadWG)

(* Everything the invariant asks of a runtime that runs. *)
Running(a, n) == RuntimeType(a) /\ RuntimeInv(a, n) /\ ForceInv(a) /\ a.key # None

LEMMA AppliedAfter ==
    ASSUME NEW a, RuntimeType(a), NEW st \in States, NEW b, a.key # None, AppliedFrom(a, st, b)
    PROVE  AfterApply(a, b)
<1>1. b.kernel = a.kernel /\ b.key = a.key /\ st # None
  BY StateFields, Zenon DEF AppliedFrom, Credentials
<1>2. CASE Refused(a, st, b)
  BY <1>1, <1>2, Zenon DEF Refused, Refuses, AfterApply
<1>3. CASE NotBuilt(a, st, b)
  BY <1>1, <1>3, Zenon DEF NotBuilt, AfterApply
<1>4. CASE HasTunnel(a, st, b)
  <2>1. b.built # None
    BY <1>4, TunnelType, Zenon DEF HasTunnel
  <2>2. b.last = a.last \/ b.last = st
    BY <1>4, Zenon DEF HasTunnel, InForce, Waits, Ends
  <2> QED BY <1>1, <2>1, <2>2, Zenon DEF AfterApply
<1> QED BY <1>2, <1>3, <1>4, Zenon DEF AppliedFrom

LEMMA AppliedRuns ==
    ASSUME NEW n \in Nat, NEW a, Running(a, n), NEW st \in States, NEW b, RuntimeType(b),
           AppliedFrom(a, st, b)
    PROVE  Running(b, n) /\ AfterApply(a, b)
<1>1. RuntimeType(a) /\ KeysInv(a, n) /\ GoodStates(a) /\ ModeInv(a) /\ ForceInv(a) /\ a.key # None
  BY Zenon DEF Running, RuntimeInv
<1>2. KeysInv(b, n)
  BY <1>1, AppliedKeys, Zenon
<1>3. GoodStates(b)
  BY <1>1, AppliedStates, Zenon
<1>4. ModeInv(b)
  BY <1>1, AppliedMode, Zenon
<1>5. ForceInv(b)
  BY <1>1, AppliedForce, Zenon
<1>6. AfterApply(a, b)
  BY <1>1, AppliedAfter, Zenon
<1>7. b.key # None
  BY <1>1, <1>6, Zenon DEF AfterApply
<1> QED BY <1>2, <1>3, <1>4, <1>5, <1>6, <1>7, Zenon DEF Running, RuntimeInv

LEMMA RunningApplies ==
    ASSUME NEW n, NEW a, Running(a, n), NEW st \in States, NEW o \in Outcomes
    PROVE  /\ RuntimeType(Apply(a, st, o)) /\ AppliedFrom(a, st, Apply(a, st, o))
           /\ RuntimeType(Build(a, st, FALSE, o)) /\ AppliedFrom(a, st, Build(a, st, FALSE, o))
<1>1. /\ RuntimeType(a) /\ a.key # None /\ a.file.key = a.key /\ a.file.prev = a.prev
      /\ a.built # None => a.built.key = a.key /\ a.built.wg \notin BadWG
  BY Zenon DEF Running, RuntimeInv, KeysInv, ForceInv
<1>2. RuntimeType(Apply(a, st, o)) /\ AppliedFrom(a, st, Apply(a, st, o))
  BY <1>1, ApplyCases, Zenon
<1>3. PICK b : b = Build(a, st, FALSE, o)
  BY Zenon
<1>4. RuntimeType(b) /\ BuiltFrom(a, st, b)
  BY <1>1, <1>3, BuildCases, Zenon
<1>5. AppliedFrom(a, st, b)
  BY <1>4, Zenon DEF BuiltFrom, AppliedFrom
<1> QED BY <1>2, <1>3, <1>4, <1>5, Zenon

(* An error that ends the process elsewhere is survived: the state that was
   pending before wgft0 was converged still is. *)
LEMMA SurvivedRuns ==
    ASSUME NEW n \in Nat, NEW a, Running(a, n), NEW st \in States, NEW b, RuntimeType(b),
           AppliedFrom(a, st, b), a.kernel => a.last # None
    PROVE  Running(Survived(a, b), n) /\ AfterApply(a, Survived(a, b))
<1>1. Running(b, n) /\ AfterApply(a, b)
  BY AppliedRuns, Zenon
<1>2. PICK c : c = Survived(a, b)
  BY Zenon
<1>3. /\ c.kernel = b.kernel /\ c.key = b.key /\ c.prev = b.prev /\ c.last = b.last
      /\ c.gen = b.gen /\ c.pending = b.pending /\ c.held = b.held /\ c.refused = b.refused
      /\ c.converged = b.converged /\ c.fatal = a.fatal /\ c.file = b.file /\ c.built = b.built
      /\ c.link = b.link /\ c.table = b.table /\ c.retry = b.retry /\ c.due = b.due
      /\ DOMAIN c = RuntimeFields
  BY <1>2, Zenon DEF Survived, RuntimeType, RuntimeFields
<1>4. a.fatal \in BOOLEAN
  BY Zenon DEF Running, RuntimeType
<1>5. RuntimeType(c)
  BY <1>3, <1>4, Zenon DEF RuntimeType
<1>6. AfterApply(a, c)
  BY <1>1, <1>3, Zenon DEF AfterApply
<1>7. KeysInv(c, n) /\ GoodStates(c) /\ c.key # None
  <2>1. KeysInv(b, n) /\ GoodStates(b) /\ b.key # None
    BY <1>1, Zenon DEF Running, RuntimeInv
  <2>2. KeysInv(c, n)
    BY <1>3, <2>1, Zenon DEF KeysInv
  <2> QED BY <1>3, <2>1, <2>2, Zenon DEF GoodStates
<1>8. ModeInv(c)
  <2>1. ModeInv(b) /\ ModeInv(a) /\ b.kernel = a.kernel
    BY <1>1, Zenon DEF Running, RuntimeInv, AfterApply
  <2> QED BY <1>3, <2>1, Zenon DEF ModeInv
<1>9. ForceInv(c)
  <2>1. ForceInv(a) /\ ForceInv(b)
    BY <1>1, Zenon DEF Running
  <2>2. CASE b.fatal = a.fatal
    BY <1>3, <2>1, <2>2, Zenon DEF ForceInv
  <2>3. CASE b.fatal # a.fatal
    <3>1. Ends(a, b) /\ HasTunnel(a, st, b)
      BY <2>3, Zenon DEF AppliedFrom, Refused, NotBuilt, HasTunnel, InForce, Waits
    <3>2. ~a.fatal
      BY <1>4, <2>3, <3>1, Zenon DEF Ends
    <3>3. a.pending # None
      BY <2>1, <3>1, <3>2, Zenon DEF ForceInv, Ends
    <3>4. c.pending # None
      BY <1>3, <3>1, <3>3, Zenon DEF Ends
    <3> QED BY <1>3, <2>1, <3>4, Zenon DEF ForceInv
  <2> QED BY <2>2, <2>3
<1> QED BY <1>2, <1>5, <1>6, <1>7, <1>8, <1>9, Zenon DEF Running, RuntimeInv

(* All but what retryPending holds on to. *)
OnlyHeld(a, b) ==
    /\ b.kernel = a.kernel /\ b.key = a.key /\ b.prev = a.prev /\ b.last = a.last
    /\ b.gen = a.gen /\ b.pending = a.pending /\ b.refused = a.refused
    /\ b.converged = a.converged /\ b.fatal = a.fatal /\ b.file = a.file /\ b.built = a.built
    /\ b.link = a.link /\ b.table = a.table /\ b.retry = a.retry /\ b.due = a.due

LEMMA HeldRuns ==
    ASSUME NEW n, NEW a, Running(a, n), NEW h \in BOOLEAN, h => a.pending # None
    PROVE  Running([a EXCEPT !.held = h], n) /\ OnlyHeld(a, [a EXCEPT !.held = h])
<1>1. PICK b : b = [a EXCEPT !.held = h]
  BY Zenon
<1>2. RuntimeType(a) /\ KeysInv(a, n) /\ GoodStates(a) /\ ModeInv(a) /\ ForceInv(a) /\ a.key # None
  BY Zenon DEF Running, RuntimeInv
<1>3. OnlyHeld(a, b) /\ b.held = h /\ DOMAIN b = RuntimeFields
  BY <1>1, <1>2, Zenon DEF OnlyHeld, RuntimeType, RuntimeFields
<1>4. RuntimeType(b)
  BY <1>2, <1>3, Zenon DEF RuntimeType, OnlyHeld
<1>5. KeysInv(b, n)
  BY <1>2, <1>3, Zenon DEF KeysInv, OnlyHeld
<1>6. GoodStates(b) /\ ModeInv(b)
  BY <1>2, <1>3, Zenon DEF GoodStates, ModeInv, OnlyHeld
<1>7. ForceInv(b) /\ b.key # None
  BY <1>2, <1>3, Zenon DEF ForceInv, OnlyHeld
<1> QED BY <1>1, <1>3, <1>4, <1>5, <1>6, <1>7, Zenon DEF Running, RuntimeInv

(* The watchdog's rebuild brings the saved state back into force, or leaves it
   to be built again. *)
LEMMA RebuildCases ==
    ASSUME NEW n, NEW a, Running(a, n), ~a.kernel, a.built # None, a.last # None, NEW o \in Outcomes
    PROVE  /\ RuntimeType(Build(a, a.last, TRUE, o))
           /\ AppliedFrom(a, a.last, Build(a, a.last, TRUE, o))
<1>1. PICK st : st = a.last
  BY Zenon
<1>2. PICK b : b = Build(a, st, TRUE, o)
  BY Zenon
<1>3. /\ RuntimeType(a) /\ a.key # None /\ a.file.key = a.key /\ a.file.prev = a.prev
      /\ st \in States /\ st.wg \notin BadWG /\ a.pending = None /\ ~a.fatal
  BY <1>1, Zenon DEF Running, RuntimeInv, KeysInv, GoodStates, Buildable, ModeInv, RuntimeType
<1>4. a.gen = st.gen
  BY <1>1, <1>3, Zenon DEF Running, ForceInv
<1>5. CASE ~o.build
  <2>1. b = [Close(a) EXCEPT !.retry = st, !.due = (st.wg \notin BadWG)]
    BY <1>2, <1>3, <1>5, Zenon DEF Build
  <2>2. RuntimeType(b) /\ NotBuilt(a, st, b) /\ Credentials(a, b)
    BY <1>3, <2>1, NotBuiltFacts, Zenon
  <2> QED BY <1>1, <1>2, <2>2, Zenon DEF AppliedFrom
<1>6. CASE o.build
  <2>1. PICK m : m = Started(a, st)
    BY Zenon
  <2>2. RuntimeType(m) /\ StartedFrom(a, st, m)
    BY <1>3, <2>1, StartedFacts, Zenon
  <2>3. ~m.kernel
    BY <2>2, Zenon DEF StartedFrom, Kept1
  <2>4. b = RulesApplied(m, st, RulesResult(m, o))
    BY <1>2, <1>3, <1>6, <2>1, Zenon DEF Build
  <2>5. RulesResult(m, o) = "ok"
    BY <2>3 DEF RulesResult
  <2>6. b = [m EXCEPT !.link = m.built, !.converged = TRUE, !.table = st.rules]
    BY <2>4, <2>5 DEF RulesApplied
  <2>7. /\ b.kernel = m.kernel /\ b.key = m.key /\ b.prev = m.prev /\ b.last = m.last
        /\ b.gen = m.gen /\ b.pending = m.pending /\ b.held = m.held /\ b.refused = m.refused
        /\ b.converged = TRUE /\ b.fatal = m.fatal /\ b.file = m.file /\ b.built = m.built
        /\ b.link = m.built /\ b.table = st.rules /\ b.retry = m.retry /\ b.due = m.due
        /\ DOMAIN b = RuntimeFields
    BY <2>2, <2>6, Zenon DEF RuntimeType, RuntimeFields
  <2>8. st.rules \in RuleSets
    BY <1>3, StateFields
  <2>9. RuntimeType(b)
    BY <2>2, <2>7, <2>8, Zenon DEF RuntimeType
  <2>10. InForce(a, st, b)
    BY <1>1, <1>3, <1>4, <2>2, <2>7, Zenon DEF InForce, StartedFrom, Kept1
  <2>11. Credentials(a, b) /\ HasTunnel(a, st, b) /\ b.retry = None /\ b.due = FALSE
    BY <1>3, <2>2, <2>7, <2>10, Zenon DEF Credentials, HasTunnel, StartedFrom, Kept1
  <2> QED BY <1>1, <1>2, <2>9, <2>11, Zenon DEF AppliedFrom
<1> QED BY <1>5, <1>6, Zenon

(* A rotation changes the keys and closes the tunnel. *)
RotatedFrom(a, b, key) ==
    /\ b.kernel = a.kernel /\ b.key = key /\ b.prev = (IF a.kernel THEN a.key ELSE a.prev)
    /\ b.last = a.last /\ b.gen = a.gen /\ b.pending = a.pending /\ b.held = a.held
    /\ b.converged = a.converged /\ b.fatal = a.fatal
    /\ b.file = [key |-> b.key, prev |-> b.prev, last |-> a.last]
    /\ b.retry = None /\ b.due = FALSE /\ b.built = None
    /\ b.link = (IF a.kernel THEN a.link ELSE None)

LEMMA RotatedFacts ==
    ASSUME NEW a, RuntimeType(a), NEW key \in KeyNumbers
    PROVE  RuntimeType(Rotated(a, key)) /\ RotatedFrom(a, Rotated(a, key), key)
<1>1. PICK c : c = [a EXCEPT !.prev = IF a.kernel THEN a.key ELSE @, !.key = key]
  BY Zenon
<1>2. PICK d : d = Save(c, TRUE)
  BY Zenon
<1>3. PICK b : b = Rotated(a, key)
  BY Zenon
<1>4. b = Close(d)
  BY <1>1, <1>2, <1>3 DEF Rotated
<1>5. /\ c.kernel = a.kernel /\ c.key = key /\ c.prev = (IF a.kernel THEN a.key ELSE a.prev)
      /\ c.last = a.last /\ c.gen = a.gen /\ c.pending = a.pending /\ c.held = a.held
      /\ c.refused = a.refused /\ c.converged = a.converged /\ c.fatal = a.fatal
      /\ c.built = a.built /\ c.link = a.link /\ c.table = a.table /\ c.retry = a.retry
      /\ c.due = a.due /\ DOMAIN c = RuntimeFields
  BY <1>1, Zenon DEF RuntimeType, RuntimeFields
<1>6. d = [c EXCEPT !.file = [key |-> c.key, prev |-> c.prev, last |-> c.last]]
  BY <1>2 DEF Save
<1>7. /\ d.kernel = c.kernel /\ d.key = c.key /\ d.prev = c.prev
      /\ d.last = c.last /\ d.gen = c.gen /\ d.pending = c.pending /\ d.held = c.held
      /\ d.refused = c.refused /\ d.converged = c.converged /\ d.fatal = c.fatal
      /\ d.built = c.built /\ d.link = c.link /\ d.table = c.table /\ d.retry = c.retry
      /\ d.due = c.due /\ DOMAIN d = RuntimeFields
      /\ d.file = [key |-> c.key, prev |-> c.prev, last |-> c.last]
  BY <1>5, <1>6, Zenon DEF RuntimeFields
<1>8. d.prev \in KeyNumbers \cup {None} /\ d.key \in KeyNumbers \cup {None} /\ d.last \in States \cup {None}
  BY <1>5, <1>7, Zenon DEF RuntimeType
<1>9. d.file \in Files
  BY <1>7, <1>8 DEF Files
<1>10. RuntimeType(d)
  BY <1>5, <1>7, <1>8, <1>9, Zenon DEF RuntimeType
<1>11. RuntimeType(b) /\ ClosedFrom(d, b)
  BY <1>4, <1>10, CloseFacts, Zenon
<1>12. RotatedFrom(a, b, key)
  BY <1>5, <1>7, <1>11, Zenon DEF ClosedFrom, Kept1, RotatedFrom
<1> QED BY <1>3, <1>11, <1>12, Zenon

LEMMA RotatedRuns ==
    ASSUME NEW n \in Nat, NEW a, Running(a, n), n + 1 \in KeyNumbers
    PROVE  Running(Rotated(a, n + 1), n + 1) /\ RotatedFrom(a, Rotated(a, n + 1), n + 1)
<1>1. RuntimeType(a) /\ KeysInv(a, n) /\ GoodStates(a) /\ ModeInv(a) /\ ForceInv(a) /\ a.key # None
  BY Zenon DEF Running, RuntimeInv
<1>2. PICK b : b = Rotated(a, n + 1)
  BY Zenon
<1>3. RuntimeType(b) /\ RotatedFrom(a, b, n + 1)
  BY <1>1, <1>2, RotatedFacts, Zenon
<1>4. b.key = n + 1 /\ b.key # None
  BY <1>3, AgentAssumption, Zenon DEF RotatedFrom
<1>5. KeysInv(b, n + 1)
  <2>1. b.file.key = b.key /\ b.file.prev = b.prev
    <3>1. b.file = [key |-> b.key, prev |-> b.prev, last |-> a.last]
      BY <1>3, Zenon DEF RotatedFrom
    <3> QED BY <3>1
  <2>2. CASE a.kernel
    <3>1. b.kernel /\ b.prev = a.key /\ b.link = a.link
      BY <1>3, <2>2, Zenon DEF RotatedFrom
    <3>2. a.key \in Nat /\ a.key <= n /\ a.key # None /\ (a.prev # None => a.prev \in Nat /\ a.prev < a.key)
      BY <1>1 DEF KeysInv, RuntimeType, KeyNumbers
    <3>3. b.link # None => b.link.key \in Nat
      BY <1>3 DEF RuntimeType, Tunnels, KeyNumbers
    <3>4. b.link # None => /\ b.link.key <= n
                           /\ \/ b.link.key \in {a.key, a.prev}
                              \/ a.prev # None /\ a.prev > b.link.key
      BY <1>1, <3>1, Zenon DEF KeysInv
    <3>5. b.link # None => b.link.key = a.key \/ a.key > b.link.key
      <4> SUFFICES ASSUME b.link # None PROVE b.link.key = a.key \/ a.key > b.link.key
        OBVIOUS
      <4>1. PICK l \in Nat : l = b.link.key
        BY <3>3
      <4>2. CASE a.prev = None
        <5>1. l # None
          BY <1>3, <4>1, AgentAssumption DEF RuntimeType, Tunnels
        <5> QED BY <3>4, <4>1, <4>2, <5>1
      <4>3. CASE a.prev # None
        BY <3>2, <3>4, <4>1, <4>3
      <4> QED BY <4>2, <4>3
    <3>6. b.link # None => b.link.key <= n + 1
      BY <3>3, <3>4
    <3>7. b.key <= n + 1 /\ b.prev <= n + 1 /\ b.prev < b.key
      BY <1>4, <3>1, <3>2
    <3> QED BY <2>1, <3>1, <3>2, <3>5, <3>6, <3>7, Zenon DEF KeysInv
  <2>3. CASE ~a.kernel
    <3>1. b.prev = None /\ b.link = None
      BY <1>1, <1>3, <2>3, Zenon DEF RotatedFrom, KeysInv
    <3>2. b.key <= n + 1
      BY <1>4
    <3> QED BY <2>1, <3>1, <3>2, Zenon DEF KeysInv
  <2> QED BY <2>2, <2>3, Zenon
<1>6. GoodStates(b)
  <2>1. b.last = a.last /\ b.file.last = a.last /\ b.pending = a.pending
    <3>1. /\ b.last = a.last /\ b.pending = a.pending
          /\ b.file = [key |-> b.key, prev |-> b.prev, last |-> a.last]
      BY <1>3, Zenon DEF RotatedFrom
    <3> QED BY <3>1
  <2> QED BY <1>1, <2>1, Zenon DEF GoodStates
<1>7. ModeInv(b)
  BY <1>1, <1>3, Zenon DEF RotatedFrom, ModeInv
<1>8. ForceInv(b)
  BY <1>1, <1>3, Zenon DEF RotatedFrom, ForceInv
<1> QED BY <1>2, <1>3, <1>4, <1>5, <1>6, <1>7, <1>8, Zenon DEF Running, RuntimeInv

(* The runtime of a process that starts, or ended. *)
FreshFrom(k, f, l, t, b) ==
    /\ b.kernel = k /\ b.key = f.key /\ b.prev = f.prev /\ b.last = f.last /\ b.file = f
    /\ b.link = l /\ b.table = t /\ b.gen = 0 /\ b.pending = None /\ b.held = FALSE
    /\ b.refused = None /\ b.retry = None /\ b.due = FALSE /\ b.built = None
    /\ b.converged = FALSE /\ b.fatal = FALSE
    /\ b = Fresh(b.kernel, b.file, b.link, b.table)

LEMMA FreshFacts ==
    ASSUME NEW k \in Modes, NEW f \in Files, NEW l \in Tunnels \cup {None},
           NEW t \in RuleSets \cup {NoRules}
    PROVE  RuntimeType(Fresh(k, f, l, t)) /\ FreshFrom(k, f, l, t, Fresh(k, f, l, t))
<1>1. PICK b : b = Fresh(k, f, l, t)
  BY Zenon
<1>2. /\ b.kernel = k /\ b.key = f.key /\ b.prev = f.prev /\ b.last = f.last /\ b.file = f
      /\ b.link = l /\ b.table = t /\ b.gen = 0 /\ b.pending = None /\ b.held = FALSE
      /\ b.refused = None /\ b.retry = None /\ b.due = FALSE /\ b.built = None
      /\ b.converged = FALSE /\ b.fatal = FALSE
  BY <1>1, Zenon DEF Fresh
<1>3. DOMAIN b = RuntimeFields
  BY <1>1 DEF Fresh, RuntimeFields
<1>4. f.key \in KeyNumbers \cup {None} /\ f.prev \in KeyNumbers \cup {None} /\ f.last \in States \cup {None}
  BY DEF Files
<1>5. RuntimeType(b)
  BY <1>2, <1>3, <1>4, Zenon DEF RuntimeType
<1>6. b = Fresh(b.kernel, b.file, b.link, b.table)
  BY <1>1, <1>2, Zenon
<1> QED BY <1>1, <1>2, <1>5, <1>6, Zenon DEF FreshFrom

(* The end of a process keeps what the file and the kernel keep. *)
LEMMA EndedKeeps ==
    ASSUME NEW n, NEW a, RuntimeType(a), RuntimeInv(a, n), NEW l, NEW t \in RuleSets \cup {NoRules},
           l = IF a.kernel THEN a.link ELSE None
    PROVE  /\ RuntimeType(Fresh(a.kernel, a.file, l, t)) /\ RuntimeInv(Fresh(a.kernel, a.file, l, t), n)
           /\ FreshFrom(a.kernel, a.file, l, t, Fresh(a.kernel, a.file, l, t))
<1>1. a.kernel \in Modes /\ a.file \in Files /\ l \in Tunnels \cup {None}
  BY Zenon DEF RuntimeType
<1>2. PICK b : b = Fresh(a.kernel, a.file, l, t)
  BY Zenon
<1>3. RuntimeType(b) /\ FreshFrom(a.kernel, a.file, l, t, b)
  BY <1>1, <1>2, FreshFacts, Zenon
<1>4. KeysInv(b, n)
  BY <1>3, Zenon DEF FreshFrom, RuntimeInv, KeysInv
<1>5. GoodStates(b)
  BY <1>3, Zenon DEF FreshFrom, RuntimeInv, GoodStates, Buildable
<1>6. ModeInv(b)
  BY <1>3, Zenon DEF FreshFrom, RuntimeInv, ModeInv
<1> QED BY <1>2, <1>3, <1>4, <1>5, <1>6, Zenon DEF RuntimeInv

-----------------------------------------------------------------------------
(* Every step keeps the invariant                                          *)

LEMMA InvParts ==
    AgentInv <=> /\ RuntimeType(rt) /\ OthersType /\ RuntimeInv(rt, issued)
                 /\ (up => ForceInv(rt)) /\ DownInv /\ ReasonInv
BY TypeSplit, Zenon DEF AgentInv

LEMMA InvPartsNext ==
    ASSUME RuntimeType(rt'), OthersType', RuntimeInv(rt', issued'), up' => ForceInv(rt'),
           DownInv', ReasonInv'
    PROVE  AgentInv'
<1>1. TypeOK'
  BY Zenon DEF TypeOK, OthersType, Readers, Rotations
<1> QED BY <1>1, Zenon DEF AgentInv

LEMMA InvRunning ==
    ASSUME AgentInv, up
    PROVE  Running(rt, issued) /\ issued \in Nat
<1>1. Running(rt, issued)
  BY InvParts, Zenon DEF Running, DownInv
<1>2. issued \in KeyNumbers
  BY InvParts, Zenon DEF OthersType
<1> QED BY <1>1, <1>2 DEF KeyNumbers

(* The stream loop's own steps, and the network's, leave the runtime alone. *)
LEMMA SameRuntime ==
    ASSUME AgentInv, UNCHANGED <<rt, up, issued>>, OthersType', DownInv', ReasonInv'
    PROVE  AgentInv'
<1>1. rt' = rt /\ up' = up /\ issued' = issued
  BY Zenon
<1>2. RuntimeType(rt) /\ RuntimeInv(rt, issued) /\ (up => ForceInv(rt))
  BY InvParts, Zenon
<1>3. RuntimeType(rt') /\ RuntimeInv(rt', issued') /\ (up' => ForceInv(rt'))
  BY <1>1, <1>2
<1> QED BY <1>3, InvPartsNext, Zenon

LEMMA StreamKeeps ==
    ASSUME AgentInv, Arm \/ Dial \/ Hangup \/ Read \/ Same
    PROVE  AgentInv'
<1>1. OthersType /\ DownInv /\ ReasonInv /\ TypeOK
  BY InvParts, TypeSplit, Zenon
<1>2. OthersType'
  BY <1>1, StreamTypes, Zenon
<1>3. up /\ UNCHANGED <<rt, up, tick, rot, issued>>
  BY Zenon DEF Arm, Dial, Hangup, Read, Same
<1>4. /\ reader'.pc = "idle" => reader' = NoReader
      /\ reader'.pc \in {"idle", "dial"} => conn' = None
      /\ reader'.pc \in {"same", "apply"} => reader'.st # None
  <2>1. CASE Arm
    <3>1. reader'.pc = "dial" /\ conn' = conn /\ reader.pc = "idle"
      BY <2>1 DEF Arm, NoReader
    <3> QED BY <1>1, <3>1 DEF DownInv
  <2>2. CASE Dial
    <3>1. reader'.pc = "read"
      BY <1>1, <2>2 DEF Dial, OthersType, Readers
    <3> QED BY <3>1
  <2>3. CASE Hangup
    BY <2>3 DEF Hangup, NoReader
  <2>4. CASE Read
    <3>1. Head(chan) \in States
      BY <1>1, <2>4 DEF Read, OthersType
    <3>2. Head(chan) # None
      BY <3>1, StateFields
    <3>3. \/ reader' = [reader EXCEPT !.pc = "read", !.st = None]
          \/ \E pc \in {"apply", "same"} : reader' = [reader EXCEPT !.pc = pc, !.st = Head(chan)]
      BY <2>4, Zenon DEF Read
    <3>4. reader'.pc = "read" \/ (reader'.pc \in {"apply", "same"} /\ reader'.st = Head(chan))
      BY <1>1, <3>3, Zenon DEF OthersType, Readers
    <3> QED BY <3>2, <3>4
  <2>5. CASE Same
    <3>1. \/ reader' = [reader EXCEPT !.pc = "read", !.st = None]
          \/ reader' = [reader EXCEPT !.pc = "apply"]
      BY <2>5, Zenon DEF Same
    <3>2. reader'.pc = "read" \/ (reader'.pc = "apply" /\ reader'.st = reader.st)
      BY <1>1, <3>1, Zenon DEF OthersType, Readers
    <3>3. reader.st # None
      BY <1>1, <2>5 DEF DownInv, Same
    <3> QED BY <3>2, <3>3
  <2> QED BY <2>1, <2>2, <2>3, <2>4, <2>5
<1>5. DownInv'
  BY <1>1, <1>3, <1>4, Zenon DEF DownInv
<1>6. conn' # None /\ conn' # rt.key => cut' \/ rot.pc \in {"apply", "reconnect"}
  <2>1. CASE Arm
    BY <1>1, <2>1, Zenon DEF Arm, DownInv
  <2>2. CASE Dial \/ Hangup
    BY <2>2, Zenon DEF Dial, Hangup
  <2>3. CASE Read \/ Same
    BY <1>1, <2>3, Zenon DEF Read, Same, ReasonInv
  <2> QED BY <2>1, <2>2, <2>3
<1>7. ReasonInv'
  BY <1>1, <1>3, <1>6, Zenon DEF ReasonInv
<1> QED BY <1>2, <1>3, <1>5, <1>7, SameRuntime, Zenon

LEMMA NetworkKeeps ==
    ASSUME AgentInv, NEW s \in States, Publish(s) \/ Restored(s) \/ Send \/ Lose
    PROVE  AgentInv'
<1>1. DownInv /\ ReasonInv /\ TypeOK
  BY InvParts, TypeSplit, Zenon
<1>2. OthersType'
  BY <1>1, ServerTypes, Zenon
<1>3. UNCHANGED <<rt, up, reader, tick, rot, cut, issued>> /\ (conn' = conn \/ conn' = None)
  BY Zenon DEF Publish, Restored, Send, Lose
<1>4. ~up => chan' = <<>>
  <2>1. ~up => conn = None /\ chan = <<>>
    BY <1>1, Zenon DEF DownInv
  <2> QED BY <2>1, Zenon DEF Publish, Restored, Send, Lose
<1>5. DownInv'
  BY <1>1, <1>3, <1>4, Zenon DEF DownInv
<1>6. ReasonInv'
  BY <1>1, <1>3, Zenon DEF ReasonInv
<1> QED BY <1>2, <1>3, <1>5, <1>6, SameRuntime, Zenon

(* A step that applies a state: the runtime after it is one that runs. *)
LEMMA AppliedKeeps ==
    ASSUME AgentInv, up, up' = up, issued' = issued, OthersType',
           Running(rt', issued), AfterApply(rt, rt'),
           UNCHANGED <<conn, cut, chan>>,
           /\ reader'.pc = "idle" => reader' = NoReader
           /\ reader'.pc \in {"idle", "dial"} => conn' = None
           /\ reader'.pc \in {"same", "apply"} => reader'.st # None,
           rot' = rot \/ (rot'.pc = "reconnect" /\ rot'.last = None)
    PROVE  AgentInv'
<1>1. DownInv /\ ReasonInv
  BY InvParts, Zenon
<1>2. RuntimeType(rt') /\ RuntimeInv(rt', issued') /\ ForceInv(rt') /\ rt'.key # None
  BY Zenon DEF Running
<1>3. DownInv'
  BY <1>2, Zenon DEF DownInv
<1>4. ReasonInv'
  <2>1. /\ rt'.key = rt.key
        /\ rt.last # None => rt'.last # None
        /\ rt'.built = None => rt'.retry # None /\ (rt'.due \/ rt'.retry.wg \in BadWG)
    BY Zenon DEF AfterApply
  <2>2. conn' # None /\ conn' # rt'.key => cut' \/ rot'.pc \in {"apply", "reconnect"}
    BY <1>1, <2>1, Zenon DEF ReasonInv
  <2>3. rot'.last # None => rot'.pc = "apply" /\ rt'.last # None /\ Buildable(rot'.last)
    BY <1>1, <2>1, Zenon DEF ReasonInv
  <2> QED BY <2>1, <2>2, <2>3, Zenon DEF ReasonInv
<1> QED BY <1>2, <1>3, <1>4, InvPartsNext, Zenon

LEMMA StreamApplyKeeps ==
    ASSUME AgentInv, NEW o \in Outcomes, StreamApply(o)
    PROVE  AgentInv'
<1>1. /\ up /\ up' = up /\ issued' = issued /\ UNCHANGED <<conn, cut, chan>> /\ rot' = rot
      /\ reader.pc = "apply" /\ rt' = Apply(rt, reader.st, o)
      /\ reader' = [pc |-> "read", first |-> FALSE, st |-> None, got |-> reader.st]
  BY Zenon DEF StreamApply
<1>2. OthersType' /\ OthersType /\ DownInv
  BY StreamTypes, InvParts, TypeSplit, Zenon
<1>3. reader.st \in States
  BY <1>1, <1>2 DEF DownInv, OthersType, Readers
<1>4. Running(rt, issued) /\ issued \in Nat
  BY <1>1, InvRunning, Zenon
<1>5. RuntimeType(rt') /\ AppliedFrom(rt, reader.st, rt')
  BY <1>1, <1>3, <1>4, RunningApplies, Zenon
<1>6. Running(rt', issued) /\ AfterApply(rt, rt')
  BY <1>3, <1>4, <1>5, AppliedRuns, Zenon
<1>7. reader'.pc = "read"
  BY <1>1
<1> QED BY <1>1, <1>2, <1>6, <1>7, AppliedKeeps, Zenon

LEMMA TickKeeps ==
    ASSUME AgentInv, NEW o \in Outcomes,
           CheckQuiet \/ PendingRead \/ CheckRetry(o) \/ CheckRebuild(o) \/ PendingApply(o)
    PROVE  AgentInv'
<1>1. up /\ up' = up /\ issued' = issued /\ UNCHANGED <<reader, conn, cut, chan>> /\ rot' = rot
  BY Zenon DEF CheckQuiet, PendingRead, CheckRetry, CheckRebuild, PendingApply
<1>2. OthersType' /\ OthersType /\ DownInv /\ ReasonInv
  BY TickTypes, InvParts, TypeSplit, Zenon
<1>3. /\ reader'.pc = "idle" => reader' = NoReader
      /\ reader'.pc \in {"idle", "dial"} => conn' = None
      /\ reader'.pc \in {"same", "apply"} => reader'.st # None
  BY <1>1, <1>2, Zenon DEF DownInv
<1>4. Running(rt, issued) /\ issued \in Nat
  BY <1>1, InvRunning, Zenon
<1>5. CASE CheckQuiet
  <2>1. rt' = rt
    BY <1>5, Zenon DEF CheckQuiet
  <2>2. DownInv' /\ ReasonInv'
    BY <1>1, <1>2, <2>1, Zenon DEF DownInv, ReasonInv
  <2> QED BY <1>1, <1>2, <2>1, <2>2, SameRuntime, Zenon
<1>6. CASE PendingRead
  <2>1. PICK h \in BOOLEAN : h = (rt.pending # None /\ rt.built # None)
    BY Zenon
  <2>2. rt' = [rt EXCEPT !.held = h]
    BY <1>6, <2>1, Zenon DEF PendingRead
  <2>3. Running(rt', issued) /\ OnlyHeld(rt, rt')
    BY <1>4, <2>1, <2>2, HeldRuns, Zenon
  <2>4. DownInv' /\ ReasonInv'
    BY <1>1, <1>2, <2>3, Zenon DEF DownInv, ReasonInv, OnlyHeld
  <2>5. RuntimeType(rt') /\ RuntimeInv(rt', issued') /\ ForceInv(rt')
    BY <1>1, <2>3, Zenon DEF Running
  <2> QED BY <1>2, <2>4, <2>5, InvPartsNext, Zenon
<1>7. CASE CheckRetry(o)
  <2>1. rt' = Survived(rt, Build(rt, rt.retry, FALSE, o)) /\ rt.retry # None /\ rt.due
    BY <1>7, Zenon DEF CheckRetry
  <2>2. rt.retry \in States /\ ~rt.kernel
    BY <1>4, <2>1, Zenon DEF Running, RuntimeType, RuntimeInv, ModeInv
  <2>3. PICK b : b = Build(rt, rt.retry, FALSE, o)
    BY Zenon
  <2>4. RuntimeType(b) /\ AppliedFrom(rt, rt.retry, b)
    BY <1>4, <2>2, <2>3, RunningApplies, Zenon
  <2>5. Running(rt', issued) /\ AfterApply(rt, rt')
    BY <1>4, <2>1, <2>2, <2>3, <2>4, SurvivedRuns, Zenon
  <2> QED BY <1>1, <1>2, <1>3, <2>5, AppliedKeeps, Zenon
<1>8. CASE CheckRebuild(o)
  <2>1. rt' = Build(rt, rt.last, TRUE, o) /\ ~rt.kernel /\ rt.built # None /\ rt.last # None
    BY <1>8, Zenon DEF CheckRebuild
  <2>2. rt.last \in States
    BY <1>4, <2>1, Zenon DEF Running, RuntimeType
  <2>3. RuntimeType(rt') /\ AppliedFrom(rt, rt.last, rt')
    BY <1>4, <2>1, RebuildCases, Zenon
  <2>4. Running(rt', issued) /\ AfterApply(rt, rt')
    BY <1>4, <2>2, <2>3, AppliedRuns, Zenon
  <2> QED BY <1>1, <1>2, <1>3, <2>4, AppliedKeeps, Zenon
<1>9. CASE PendingApply(o) /\ ~(rt.held /\ rt.built # None)
  <2>1. rt' = [rt EXCEPT !.held = FALSE]
    BY <1>9, Zenon DEF PendingApply
  <2>2. Running(rt', issued) /\ OnlyHeld(rt, rt')
    BY <1>4, <2>1, HeldRuns, Zenon
  <2>3. DownInv' /\ ReasonInv'
    BY <1>1, <1>2, <2>2, Zenon DEF DownInv, ReasonInv, OnlyHeld
  <2>4. RuntimeType(rt') /\ RuntimeInv(rt', issued') /\ ForceInv(rt')
    BY <1>1, <2>2, Zenon DEF Running
  <2> QED BY <1>2, <2>3, <2>4, InvPartsNext, Zenon
<1>10. CASE PendingApply(o) /\ rt.held /\ rt.built # None
  <2>1. PICK b : b = Apply(rt, rt.pending, o)
    BY Zenon
  <2>2. rt' = [b EXCEPT !.held = FALSE]
    BY <1>10, <2>1, Zenon DEF PendingApply
  <2>3. rt.pending \in States
    BY <1>4, <1>10, Zenon DEF Running, RuntimeType, RuntimeInv, ModeInv
  <2>4. RuntimeType(b) /\ AppliedFrom(rt, rt.pending, b)
    BY <1>4, <2>1, <2>3, RunningApplies, Zenon
  <2>5. Running(b, issued) /\ AfterApply(rt, b)
    BY <1>4, <2>3, <2>4, AppliedRuns, Zenon
  <2>6. Running(rt', issued) /\ OnlyHeld(b, rt')
    BY <2>2, <2>5, HeldRuns, Zenon
  <2>7. AfterApply(rt, rt')
    BY <2>5, <2>6, Zenon DEF AfterApply, OnlyHeld
  <2> QED BY <1>1, <1>2, <1>3, <2>6, <2>7, AppliedKeeps, Zenon
<1> QED BY <1>5, <1>6, <1>7, <1>8, <1>9, <1>10, Zenon

LEMMA RotateKeeps ==
    ASSUME AgentInv, RotateReconnect \/ (\E o \in Outcomes : RotateApply(o))
                     \/ (\E ok \in BOOLEAN : RotateSave(ok))
    PROVE  AgentInv'
<1>1. up /\ up' = up /\ UNCHANGED <<reader, conn, chan>>
  BY Zenon DEF RotateReconnect, RotateApply, RotateSave
<1>2. OthersType' /\ OthersType /\ DownInv /\ ReasonInv
  BY RotateTypes, InvParts, TypeSplit, Zenon
<1>3. /\ reader'.pc = "idle" => reader' = NoReader
      /\ reader'.pc \in {"idle", "dial"} => conn' = None
      /\ reader'.pc \in {"same", "apply"} => reader'.st # None
  BY <1>1, <1>2, Zenon DEF DownInv
<1>4. Running(rt, issued) /\ issued \in Nat
  BY <1>1, InvRunning, Zenon
<1>5. CASE RotateReconnect
  <2>1. rt' = rt /\ issued' = issued /\ cut' /\ rot' = NoRotation /\ rot.pc = "reconnect"
    BY <1>5, Zenon DEF RotateReconnect
  <2>2. rot'.last = None
    BY <2>1 DEF NoRotation
  <2>3. DownInv'
    BY <1>1, <1>2, <1>3, <2>1, Zenon DEF DownInv
  <2>4. rot.pc # "apply"
    BY <2>1
  <2>5. ReasonInv'
    BY <1>1, <1>2, <2>1, <2>2, <2>4, Zenon DEF ReasonInv
  <2> QED BY <1>1, <1>2, <2>1, <2>3, <2>5, SameRuntime, Zenon
<1>6. ASSUME NEW o \in Outcomes, RotateApply(o) PROVE AgentInv'
  <2>1. /\ issued' = issued /\ cut' = cut /\ rot.pc = "apply"
        /\ rot' = [pc |-> "reconnect", last |-> None]
        /\ rt' = IF rot.last = None THEN rt ELSE Survived(rt, Apply(rt, rot.last, o))
    BY <1>6, Zenon DEF RotateApply
  <2>2. rot'.pc = "reconnect" /\ rot'.last = None
    BY <2>1
  <2>3. CASE rot.last = None
    <3>1. rt' = rt
      BY <2>1, <2>3, Zenon
    <3>2. DownInv'
      BY <1>1, <1>2, <1>3, <3>1, Zenon DEF DownInv
    <3>3. ReasonInv'
      BY <1>1, <1>2, <2>1, <2>2, <2>3, <3>1, Zenon DEF ReasonInv
    <3> QED BY <1>1, <1>2, <2>1, <3>1, <3>2, <3>3, SameRuntime, Zenon
  <2>4. CASE rot.last # None
    <3>1. rot.last \in States /\ rt.last # None
      BY <1>2, <2>4 DEF OthersType, Rotations, ReasonInv
    <3>2. PICK b : b = Apply(rt, rot.last, o)
      BY Zenon
    <3>3. RuntimeType(b) /\ AppliedFrom(rt, rot.last, b)
      BY <1>4, <3>1, <3>2, RunningApplies, Zenon
    <3>4. rt' = Survived(rt, b)
      BY <2>1, <2>4, <3>2, Zenon
    <3>5. Running(rt', issued) /\ AfterApply(rt, rt')
      BY <1>4, <3>1, <3>3, <3>4, SurvivedRuns, Zenon
    <3>6. UNCHANGED <<conn, cut, chan>>
      BY <1>1, <2>1, Zenon
    <3> QED BY <1>1, <1>2, <1>3, <2>1, <2>2, <3>5, <3>6, AppliedKeeps, Zenon
  <2> QED BY <2>3, <2>4
<1>7. ASSUME NEW ok \in BOOLEAN, RotateSave(ok) PROVE AgentInv'
  <2>1. CASE ~ok
    <3>1. UNCHANGED <<rt, rot, issued, cut>>
      BY <1>7, <2>1, Zenon DEF RotateSave
    <3>2. DownInv' /\ ReasonInv'
      BY <1>1, <1>2, <3>1, Zenon DEF DownInv, ReasonInv
    <3> QED BY <1>1, <1>2, <3>1, <3>2, SameRuntime, Zenon
  <2>2. CASE ok
    <3>1. /\ rot' = [pc |-> "apply", last |-> rt.last] /\ rt' = Rotated(rt, issued + 1)
          /\ issued' = issued + 1 /\ issued < MaxKey /\ cut' = cut
      BY <1>7, <2>2, Zenon DEF RotateSave
    <3>2. issued + 1 \in KeyNumbers
      BY <1>4, <3>1, AgentAssumption DEF KeyNumbers
    <3>3. Running(rt', issued') /\ RotatedFrom(rt, rt', issued + 1)
      BY <1>4, <3>1, <3>2, RotatedRuns, Zenon
    <3>4. RuntimeType(rt') /\ RuntimeInv(rt', issued') /\ ForceInv(rt') /\ rt'.key # None
      BY <3>3, Zenon DEF Running
    <3>5. rot'.pc = "apply" /\ rot'.last = rt.last /\ rt'.last = rt.last
      <4>1. rt'.last = rt.last
        BY <3>3, Zenon DEF RotatedFrom
      <4> QED BY <3>1, <4>1
    <3>6. Buildable(rt.last)
      BY <1>4, Zenon DEF Running, RuntimeInv, GoodStates
    <3>7. DownInv'
      BY <1>1, <1>3, <3>4, Zenon DEF DownInv
    <3>8. ReasonInv'
      BY <3>5, <3>6, Zenon DEF ReasonInv
    <3> QED BY <1>2, <3>4, <3>7, <3>8, InvPartsNext, Zenon
  <2> QED BY <2>1, <2>2
<1> QED BY <1>5, <1>6, <1>7, Zenon

(* A process that does not run. *)
LEMMA DownKeeps ==
    ASSUME RuntimeType(rt'), RuntimeInv(rt', issued'), OthersType', ~up',
           rt' = Fresh(rt'.kernel, rt'.file, rt'.link, rt'.table),
           reader' = NoReader, tick' = "check", rot' = NoRotation, conn' = None, chan' = <<>>
    PROVE  AgentInv'
<1>1. reader'.pc = "idle" /\ rot'.last = None
  BY DEF NoReader, NoRotation
<1>2. DownInv'
  BY <1>1, Zenon DEF DownInv
<1>3. ReasonInv'
  BY <1>1, Zenon DEF ReasonInv
<1> QED BY <1>2, <1>3, InvPartsNext, Zenon

LEMMA EndKeeps ==
    ASSUME AgentInv, Crash \/ Exit
    PROVE  AgentInv'
<1>1. Ended
  BY Zenon DEF Crash, Exit
<1>2. OthersType' /\ RuntimeType(rt) /\ RuntimeInv(rt, issued)
  BY ProcessTypes, InvParts, TypeSplit, Zenon
<1>3. PICK l : l = IF rt.kernel THEN rt.link ELSE None
  BY Zenon
<1>4. PICK t \in RuleSets \cup {NoRules} : t = IF rt.kernel THEN rt.table ELSE NoRules
  BY <1>2, Zenon DEF RuntimeType
<1>5. rt' = Fresh(rt.kernel, rt.file, l, t) /\ issued' = issued
  BY <1>1, <1>3, <1>4, Zenon DEF Ended
<1>6. RuntimeType(rt') /\ RuntimeInv(rt', issued') /\ FreshFrom(rt.kernel, rt.file, l, t, rt')
  BY <1>2, <1>3, <1>5, EndedKeeps, Zenon
<1>7. rt' = Fresh(rt'.kernel, rt'.file, rt'.link, rt'.table)
  BY <1>6, Zenon DEF FreshFrom
<1>8. ~up' /\ reader' = NoReader /\ tick' = "check" /\ rot' = NoRotation /\ conn' = None /\ chan' = <<>>
  BY <1>1, Zenon DEF Ended
<1> QED BY <1>2, <1>6, <1>7, <1>8, DownKeeps, Zenon

(* wgft0 may fall behind by more than one key only when a key that it never
   had is the previous one. *)
LEMMA LinkBehind ==
    ASSUME NEW n \in Nat, NEW a, RuntimeType(a), KeysInv(a, n), a.link # None, a.key # None
    PROVE  a.link.key = a.key \/ a.key > a.link.key
<1>1. a.key \in Nat /\ a.link.key \in Nat /\ a.link.key # None
  BY AgentAssumption DEF RuntimeType, Tunnels, KeyNumbers
<1>2. PICK l \in Nat : l = a.link.key
  BY <1>1
<1>3. CASE a.prev = None
  BY <1>1, <1>2, <1>3 DEF KeysInv
<1>4. CASE a.prev # None
  <2>1. a.prev \in Nat
    BY <1>4 DEF RuntimeType, KeyNumbers
  <2> QED BY <1>1, <1>2, <1>4, <2>1 DEF KeysInv
<1> QED BY <1>3, <1>4

LEMMA StoppedKeeps ==
    ASSUME AgentInv, StoppedRotate
    PROVE  AgentInv'
<1>1. OthersType' /\ OthersType /\ RuntimeType(rt) /\ RuntimeInv(rt, issued) /\ DownInv
  BY ProcessTypes, InvParts, TypeSplit, Zenon
<1>2. PICK p : p = IF rt.kernel /\ rt.file.key # None THEN rt.file.key ELSE rt.file.prev
  BY Zenon
<1>3. PICK f : f = [key |-> None, prev |-> p, last |-> None]
  BY Zenon
<1>4. /\ ~up /\ ~up' /\ UNCHANGED <<reader, tick, rot, conn, chan>> /\ issued' = issued
      /\ rt' = Fresh(rt.kernel, f, rt.link, rt.table)
  BY <1>2, <1>3, Zenon DEF StoppedRotate
<1>5. rt.file.key = rt.key /\ rt.file.prev = rt.prev
  BY <1>1, Zenon DEF RuntimeInv, KeysInv
<1>6. f \in Files /\ f.key = None /\ f.prev = p /\ f.last = None
  <2>1. p \in KeyNumbers \cup {None}
    BY <1>1, <1>2, <1>5, Zenon DEF RuntimeType
  <2> QED BY <1>3, <2>1 DEF Files
<1>7. RuntimeType(rt') /\ FreshFrom(rt.kernel, f, rt.link, rt.table, rt')
  BY <1>1, <1>4, <1>6, FreshFacts, Zenon DEF RuntimeType
<1>8. /\ rt'.kernel = rt.kernel /\ rt'.key = None /\ rt'.prev = p /\ rt'.last = None
      /\ rt'.file.key = None /\ rt'.file.prev = p /\ rt'.file.last = None /\ rt'.link = rt.link
      /\ rt'.pending = None /\ ~rt'.held /\ ~rt'.due /\ rt'.built = None /\ ~rt'.fatal
  BY <1>6, <1>7, Zenon DEF FreshFrom
<1>9. ~rt.kernel => rt.link = None
  <2>1. rt.built = None
    <3>1. rt = Fresh(rt.kernel, rt.file, rt.link, rt.table)
      BY <1>1, <1>4, Zenon DEF DownInv
    <3>2. FreshFrom(rt.kernel, rt.file, rt.link, rt.table, rt)
      BY <1>1, <3>1, FreshFacts, Zenon DEF RuntimeType
    <3> QED BY <3>2, Zenon DEF FreshFrom
  <2> QED BY <1>1, <2>1, Zenon DEF RuntimeInv, ModeInv
<1>10. issued \in Nat
  BY <1>1 DEF OthersType, KeyNumbers
<1>11. KeysInv(rt', issued')
  <2>1. p # None => p <= issued
    BY <1>1, <1>2, <1>5, Zenon DEF RuntimeInv, KeysInv
  <2>2. ~rt'.kernel => p = None
    BY <1>1, <1>2, <1>5, <1>8, Zenon DEF RuntimeInv, KeysInv
  <2>3. rt'.link # None => /\ rt'.link.key <= issued
                           /\ \/ rt'.link.key \in {None, p}
                              \/ p # None /\ p > rt'.link.key
    <3> SUFFICES ASSUME rt.link # None
                 PROVE  /\ rt.link.key <= issued
                        /\ rt.link.key \in {None, p} \/ (p # None /\ p > rt.link.key)
      BY <1>8, Zenon
    <3>1. rt.link.key <= issued
      BY <1>1, Zenon DEF RuntimeInv, KeysInv
    <3>2. CASE rt.key = None
      BY <1>1, <1>2, <1>5, <3>1, <3>2, Zenon DEF RuntimeInv, KeysInv
    <3>3. CASE rt.key # None
      <4>1. p = rt.key
        BY <1>2, <1>5, <1>9, <3>3, Zenon
      <4>2. rt.link.key = rt.key \/ rt.key > rt.link.key
        BY <1>1, <1>10, <3>3, LinkBehind, Zenon DEF RuntimeInv
      <4> QED BY <3>1, <3>3, <4>1, <4>2, Zenon
    <3> QED BY <3>2, <3>3
  <2> QED BY <1>4, <1>8, <2>1, <2>2, <2>3, Zenon DEF KeysInv
<1>12. GoodStates(rt') /\ ModeInv(rt')
  BY <1>8, <1>9, Zenon DEF GoodStates, Buildable, ModeInv
<1>13. rt' = Fresh(rt'.kernel, rt'.file, rt'.link, rt'.table)
  BY <1>7, Zenon DEF FreshFrom
<1>14. reader' = NoReader /\ tick' = "check" /\ rot' = NoRotation /\ conn' = None /\ chan' = <<>>
  BY <1>1, <1>4, Zenon DEF DownInv
<1> QED BY <1>1, <1>4, <1>7, <1>11, <1>12, <1>13, <1>14, DownKeeps, Zenon DEF RuntimeInv

(* The runtime Run has loaded, before it applies the saved state. *)
LoadedAs(a, n) ==
    /\ RuntimeType(a) /\ RuntimeInv(a, n) /\ a.key # None /\ a.built = None
    /\ a.last = rt.file.last /\ a.kernel = rt.kernel /\ a.file.last = rt.file.last
    /\ a.pending = None /\ a.retry = None /\ ~a.fatal

LEMMA LoadedFacts ==
    ASSUME AgentInv, ~up, NEW k \in KeyNumbers, NEW n \in Nat, NEW a,
           \/ rt.file.key # None /\ k = rt.file.key /\ n = issued
           \/ rt.file.key = None /\ k = issued + 1 /\ n = issued + 1,
           a = Fresh(rt.kernel, [rt.file EXCEPT !.key = k], rt.link, rt.table)
    PROVE  LoadedAs(a, n)
<1>1. OthersType /\ RuntimeType(rt) /\ RuntimeInv(rt, issued) /\ DownInv
  BY InvParts, Zenon
<1>2. PICK f : f = [rt.file EXCEPT !.key = k]
  BY Zenon
<1>3. f \in Files /\ f.key = k /\ f.prev = rt.file.prev /\ f.last = rt.file.last
  BY <1>1, <1>2 DEF RuntimeType, Files
<1>4. RuntimeType(a) /\ FreshFrom(rt.kernel, f, rt.link, rt.table, a)
  BY <1>1, <1>2, <1>3, FreshFacts, Zenon DEF RuntimeType
<1>5. rt.file.key = rt.key /\ rt.file.prev = rt.prev
  BY <1>1, Zenon DEF RuntimeInv, KeysInv
<1>6. /\ a.kernel = rt.kernel /\ a.key = k /\ a.prev = rt.prev /\ a.last = rt.file.last
      /\ a.file.key = k /\ a.file.prev = rt.prev /\ a.file.last = rt.file.last /\ a.link = rt.link
      /\ a.pending = None /\ ~a.held /\ ~a.due /\ a.built = None /\ ~a.fatal /\ a.retry = None
  BY <1>3, <1>4, <1>5, Zenon DEF FreshFrom
<1>7. k # None /\ issued \in Nat
  BY <1>1, AgentAssumption DEF OthersType, KeyNumbers
<1>8. rt.built = None
  <2>1. rt = Fresh(rt.kernel, rt.file, rt.link, rt.table)
    BY <1>1, Zenon DEF DownInv
  <2>2. FreshFrom(rt.kernel, rt.file, rt.link, rt.table, rt)
    BY <1>1, <2>1, FreshFacts, Zenon DEF RuntimeType
  <2> QED BY <2>2, Zenon DEF FreshFrom
<1>9. KeysInv(a, n)
  <2>1. CASE rt.file.key # None /\ k = rt.file.key /\ n = issued
    BY <1>1, <1>5, <1>6, <2>1, Zenon DEF RuntimeInv, KeysInv
  <2>2. CASE rt.file.key = None /\ k = issued + 1 /\ n = issued + 1
    <3>1. k <= n
      BY <1>7, <2>2
    <3>2. rt.prev # None => rt.prev <= n /\ rt.prev < k
      BY <1>1, <1>7, <2>2 DEF RuntimeInv, KeysInv, RuntimeType, KeyNumbers
    <3>3. rt.link # None => rt.link.key <= n
      BY <1>1, <1>7, <2>2 DEF RuntimeInv, KeysInv, RuntimeType, Tunnels, KeyNumbers
    <3>4. rt.link # None => \/ rt.link.key \in {k, rt.prev}
                            \/ rt.prev # None /\ rt.prev > rt.link.key
      <4>1. rt.link # None => rt.link.key # None
        BY <1>1, AgentAssumption DEF RuntimeType, Tunnels
      <4> QED BY <1>1, <1>5, <2>2, <4>1, Zenon DEF RuntimeInv, KeysInv
    <3>5. ~a.kernel => a.prev = None
      BY <1>1, <1>6, Zenon DEF RuntimeInv, KeysInv
    <3> QED BY <1>6, <3>1, <3>2, <3>3, <3>4, <3>5, Zenon DEF KeysInv
  <2> QED BY <2>1, <2>2
<1>10. GoodStates(a)
  BY <1>1, <1>6, Zenon DEF RuntimeInv, GoodStates, Buildable
<1>11. ModeInv(a)
  BY <1>1, <1>6, <1>8, Zenon DEF RuntimeInv, ModeInv
<1> QED BY <1>4, <1>6, <1>7, <1>9, <1>10, <1>11, Zenon DEF RuntimeInv, LoadedAs

(* The saved state, if there is one, was applied to what was loaded. *)
StartedAs(a, b) ==
    /\ IF a.last = None THEN b = a ELSE RuntimeType(b) /\ AppliedFrom(a, a.last, b)
    /\ rt' = IF b.fatal THEN Fresh(b.kernel, b.file, b.link, b.table) ELSE b
    /\ up' = ~b.fatal

LEMMA StartCases ==
    ASSUME AgentInv, NEW o \in Outcomes, Start(o)
    PROVE  issued' \in Nat /\ \E a, b : LoadedAs(a, issued') /\ StartedAs(a, b)
<1>1. OthersType /\ RuntimeType(rt) /\ OthersType'
  BY InvParts, ProcessTypes, TypeSplit, Zenon
<1>2. issued \in Nat /\ issued' \in Nat
  BY <1>1 DEF OthersType, KeyNumbers
<1>3. PICK k : k = IF rt.file.key = None THEN issued + 1 ELSE rt.file.key
  BY Zenon
<1>4. PICK a : a = Fresh(rt.kernel, [rt.file EXCEPT !.key = k], rt.link, rt.table)
  BY Zenon
<1>5. PICK b : b = IF a.last = None THEN a ELSE Apply(a, a.last, o)
  BY Zenon
<1>6. /\ ~up /\ k \in KeyNumbers
      /\ issued' = IF rt.file.key = None THEN k ELSE issued
      /\ rt' = IF b.fatal THEN Fresh(rt.kernel, b.file, b.link, b.table) ELSE b
      /\ up' = ~b.fatal
  BY <1>3, <1>4, <1>5, Zenon DEF Start
<1>7. \/ rt.file.key # None /\ k = rt.file.key /\ issued' = issued
      \/ rt.file.key = None /\ k = issued + 1 /\ issued' = issued + 1
  BY <1>3, <1>6, Zenon
<1>8. LoadedAs(a, issued')
  BY <1>2, <1>4, <1>6, <1>7, LoadedFacts, Zenon
<1>9. CASE a.last = None
  <2>1. b = a /\ a.kernel = rt.kernel
    BY <1>5, <1>8, <1>9, Zenon DEF LoadedAs
  <2>2. StartedAs(a, b)
    BY <1>6, <1>9, <2>1, Zenon DEF StartedAs
  <2> QED BY <1>2, <1>8, <2>2, Zenon
<1>10. CASE a.last # None
  <2>1. /\ RuntimeType(a) /\ a.last \in States /\ a.key # None /\ a.built = None
        /\ a.file.key = a.key /\ a.file.prev = a.prev
    BY <1>8, <1>10, Zenon DEF LoadedAs, RuntimeInv, KeysInv, RuntimeType
  <2>2. RuntimeType(b) /\ AppliedFrom(a, a.last, b)
    BY <1>5, <1>10, <2>1, ApplyCases, Zenon
  <2>3. b.kernel = rt.kernel
    BY <1>8, <2>2, Zenon DEF AppliedFrom, Credentials, LoadedAs
  <2>4. StartedAs(a, b)
    BY <1>6, <1>10, <2>2, <2>3, Zenon DEF StartedAs
  <2> QED BY <1>2, <1>8, <2>4, Zenon
<1> QED BY <1>9, <1>10

LEMMA StartKeeps ==
    ASSUME AgentInv, NEW o \in Outcomes, Start(o)
    PROVE  AgentInv'
<1>1. OthersType' /\ DownInv /\ ReasonInv
  BY InvParts, ProcessTypes, TypeSplit, Zenon
<1>2. issued' \in Nat /\ ~up /\ UNCHANGED <<reader, tick, rot, conn, cut, chan>>
  BY StartCases, Zenon DEF Start
<1>3. PICK a, b : LoadedAs(a, issued') /\ StartedAs(a, b)
  BY StartCases, Zenon
<1>4. reader' = NoReader /\ tick' = "check" /\ rot' = NoRotation /\ conn' = None /\ chan' = <<>>
  BY <1>1, <1>2, Zenon DEF DownInv
<1>5. reader'.pc = "idle" /\ rot'.last = None
  BY <1>4 DEF NoReader, NoRotation
<1>6. /\ RuntimeType(a) /\ KeysInv(a, issued') /\ GoodStates(a) /\ ModeInv(a)
      /\ a.key # None /\ a.built = None /\ ~a.fatal
  BY <1>3, Zenon DEF LoadedAs, RuntimeInv
<1>7. CASE a.last = None
  <2>1. rt' = a /\ up'
    BY <1>3, <1>6, <1>7, Zenon DEF StartedAs
  <2>2. ForceInv(a)
    BY <1>6, <1>7, Zenon DEF ForceInv
  <2>3. DownInv'
    BY <1>4, <1>5, <1>6, <2>1, Zenon DEF DownInv
  <2>4. ReasonInv'
    BY <1>4, <1>5, <1>7, <2>1, Zenon DEF ReasonInv
  <2>5. RuntimeType(rt') /\ RuntimeInv(rt', issued') /\ ForceInv(rt')
    BY <1>6, <2>1, <2>2, Zenon DEF RuntimeInv
  <2> QED BY <1>1, <2>3, <2>4, <2>5, InvPartsNext, Zenon
<1>8. CASE a.last # None
  <2>1. /\ RuntimeType(b) /\ AppliedFrom(a, a.last, b) /\ up' = ~b.fatal
        /\ rt' = IF b.fatal THEN Fresh(b.kernel, b.file, b.link, b.table) ELSE b
    BY <1>3, <1>8, Zenon DEF StartedAs
  <2>2. a.last \in States /\ Buildable(a.last)
    BY <1>6, <1>8, Zenon DEF RuntimeType, GoodStates
  <2>3. KeysInv(b, issued')
    BY <1>2, <1>6, <2>1, <2>2, AppliedKeys, Zenon
  <2>4. GoodStates(b) /\ ModeInv(b)
    BY <1>6, <2>1, <2>2, AppliedStates, AppliedMode, Zenon
  <2>5. ForceInv(b) /\ AfterApply(a, b)
    BY <1>6, <2>1, <2>2, AppliedForce, AppliedAfter, Zenon
  <2>6. RuntimeInv(b, issued') /\ b.key # None
    BY <1>6, <2>3, <2>4, <2>5, Zenon DEF RuntimeInv, AfterApply
  <2>7. CASE b.fatal
    <3>1. rt' = Fresh(b.kernel, b.file, b.link, b.table) /\ ~up'
      BY <2>1, <2>7, Zenon
    <3>2. b.link = IF b.kernel THEN b.link ELSE None
      BY <2>4, <2>7, Zenon DEF ModeInv
    <3>3. RuntimeType(rt') /\ RuntimeInv(rt', issued') /\ FreshFrom(b.kernel, b.file, b.link, b.table, rt')
      <4>1. b.table \in RuleSets \cup {NoRules}
        BY <2>1, Zenon DEF RuntimeType
      <4> QED BY <2>1, <2>6, <3>1, <3>2, <4>1, EndedKeeps, Zenon
    <3>4. rt' = Fresh(rt'.kernel, rt'.file, rt'.link, rt'.table)
      BY <3>3, Zenon DEF FreshFrom
    <3> QED BY <1>1, <1>4, <3>1, <3>3, <3>4, DownKeeps, Zenon
  <2>8. CASE ~b.fatal
    <3>1. rt' = b /\ up'
      BY <2>1, <2>8, Zenon
    <3>2. DownInv'
      BY <1>4, <1>5, <2>6, <3>1, Zenon DEF DownInv
    <3>3. ReasonInv'
      BY <1>4, <1>5, <2>5, <3>1, Zenon DEF ReasonInv, AfterApply
    <3>4. RuntimeType(rt') /\ RuntimeInv(rt', issued') /\ ForceInv(rt')
      BY <2>1, <2>5, <2>6, <3>1, Zenon
    <3> QED BY <1>1, <3>2, <3>3, <3>4, InvPartsNext, Zenon
  <2> QED BY <2>7, <2>8
<1> QED BY <1>7, <1>8

LEMMA AgentInit ==
    ASSUME Init
    PROVE  AgentInv
<1>1. PICK f : f = [key |-> 1, prev |-> None, last |-> None]
  BY Zenon
<1>2. 1 \in KeyNumbers /\ 1 # None
  BY AgentAssumption DEF KeyNumbers
<1>3. f \in Files /\ f.key = 1 /\ f.prev = None /\ f.last = None
  BY <1>1, <1>2 DEF Files
<1>4. PICK k \in Modes : rt = Fresh(k, f, None, NoRules)
  BY <1>1, Zenon DEF Init
<1>5. RuntimeType(rt) /\ FreshFrom(k, f, None, NoRules, rt)
  BY <1>3, <1>4, FreshFacts, Zenon
<1>6. OthersType
  <2>1. <<>> \in Seq(States) /\ Len(<<>>) <= MaxChan /\ 0 \in 0 .. MaxFails
    BY AgentAssumption
  <2> QED BY <1>2, <2>1, NoneTypes, Zenon DEF Init, OthersType
<1>7. KeysInv(rt, issued)
  <2>1. 1 <= issued
    BY DEF Init
  <2> QED BY <1>3, <1>5, <2>1, Zenon DEF FreshFrom, KeysInv
<1>8. GoodStates(rt) /\ ModeInv(rt)
  BY <1>3, <1>5, Zenon DEF FreshFrom, GoodStates, Buildable, ModeInv
<1>9. reader.pc = "idle" /\ rot.last = None
  BY DEF Init, NoReader, NoRotation
<1>10. DownInv
  BY <1>5, <1>9, Zenon DEF Init, FreshFrom, DownInv
<1>11. ReasonInv
  BY <1>9, Zenon DEF Init, ReasonInv
<1>12. ~up
  BY Zenon DEF Init
<1> QED BY <1>5, <1>6, <1>7, <1>8, <1>10, <1>11, <1>12, InvParts, Zenon DEF RuntimeInv

LEMMA AgentStep ==
    ASSUME AgentInv, [Next]_vars
    PROVE  AgentInv'
<1>1. CASE StreamLoop
  BY <1>1, StreamKeeps, StreamApplyKeeps, Zenon DEF StreamLoop
<1>2. CASE TickLoop
  <2>1. AllWell \in Outcomes
    BY Zenon DEF Outcomes
  <2> QED BY <1>2, <2>1, TickKeeps, Zenon DEF TickLoop
<1>3. CASE RotateKey \/ \E ok \in BOOLEAN : RotateSave(ok)
  BY <1>3, RotateKeeps, Zenon DEF RotateKey
<1>4. CASE Process \/ Crash
  BY <1>4, EndKeeps, StartKeeps, Zenon DEF Process
<1>5. CASE StoppedRotate
  BY <1>5, StoppedKeeps, Zenon
<1>6. CASE (\E s \in States : Publish(s) \/ Restored(s)) \/ Send \/ Lose
  <2>1. srv \in States
    BY InvParts, Zenon DEF OthersType
  <2> QED BY <1>6, <2>1, NetworkKeeps, Zenon
<1>7. CASE UNCHANGED vars
  BY <1>7 DEF vars, AgentInv, TypeOK, DownInv, ReasonInv
<1> QED BY <1>1, <1>2, <1>3, <1>4, <1>5, <1>6, <1>7, Zenon DEF Next

(* For any states, keys, failures and crashes, in both modes: the inductive
   invariant of the agent's runtime, its credentials file and its goroutines
   (internal/agent: Run, streamOnce, checkTunnel, retryPending, rotateKey). *)
THEOREM AgentInvHolds == Spec => []AgentInv
<1>1. Init => AgentInv
  BY AgentInit
<1>2. AgentInv /\ [Next]_vars => AgentInv'
  BY AgentStep
<1> QED BY <1>1, <1>2, PTL DEF Spec

(* What the agent says of its tunnel is so: the state it reports as processed
   is in force, with the current key, and where there is no tunnel there is a
   reason (buildLocked, finishApplyLocked, rotateKey). *)
THEOREM TunnelTruthfulHolds == Spec => []TunnelTruthful
<1>1. AgentInv => TunnelTruthful
  <2> SUFFICES ASSUME AgentInv PROVE TunnelTruthful
    OBVIOUS
  <2>1. (up => ForceInv(rt)) /\ ReasonInv
    BY InvParts, Zenon
  <2>2. ProcessedInForce
    BY <2>1, Zenon DEF ForceInv, ProcessedInForce
  <2>3. NoTunnelHasReason
    BY <2>1, Zenon DEF ReasonInv, NoTunnelHasReason
  <2>4. CurrentKeyOnly
    BY <2>1, Zenon DEF ForceInv, ReasonInv, CurrentKeyOnly
  <2> QED BY <2>2, <2>3, <2>4 DEF TunnelTruthful
<1> QED BY <1>1, AgentInvHolds, PTL

(* wgft0 holds the key of the credentials file or the one before it, after a
   crash or an error at any point, until a key that wgft0 never had has itself
   been replaced (Credentials.KeepPreviousKey, rotateKey). *)
THEOREM InterfaceStaysOursHolds == Spec => []InterfaceStaysOurs
<1>1. AgentInv => InterfaceStaysOurs
  <2> SUFFICES ASSUME AgentInv, rt.link # None
               PROVE  \/ rt.link.key \in {rt.file.key, rt.file.prev}
                      \/ rt.file.prev # None /\ rt.file.prev > rt.link.key
    BY DEF InterfaceStaysOurs
  <2>1. KeysInv(rt, issued)
    BY InvParts, Zenon DEF RuntimeInv
  <2> QED BY <2>1, Zenon DEF KeysInv
<1> QED BY <1>1, AgentInvHolds, PTL

-----------------------------------------------------------------------------
(* The newest state                                                        *)

(* The states a runtime keeps. *)
States4(a) == {a.last, a.file.last, a.pending, a.retry}

LEMMA AppliedSources ==
    ASSUME NEW a, NEW st, NEW b, AppliedFrom(a, st, b)
    PROVE  b.kernel = a.kernel /\ States4(b) \subseteq States4(a) \cup {st, None}
<1>1. b.kernel = a.kernel
  BY Zenon DEF AppliedFrom, Credentials
<1>2. /\ b.last = a.last \/ b.last = st
      /\ b.file.last = a.file.last \/ b.file.last = st
      /\ b.pending = a.pending \/ b.pending = st \/ b.pending = None
      /\ b.retry = a.retry \/ b.retry = st \/ b.retry = None
  BY Zenon DEF AppliedFrom, Refused, NotBuilt, HasTunnel, InForce, Waits, Ends
<1> QED BY <1>1, <1>2, Zenon DEF States4

LEMMA SurvivedSources ==
    ASSUME NEW a, NEW b, RuntimeType(b)
    PROVE  Survived(a, b).kernel = b.kernel /\ States4(Survived(a, b)) = States4(b)
<1>1. PICK c : c = Survived(a, b)
  BY Zenon
<1>2. /\ c.kernel = b.kernel /\ c.last = b.last /\ c.file = b.file /\ c.pending = b.pending
      /\ c.retry = b.retry
  BY <1>1, Zenon DEF Survived, RuntimeType, RuntimeFields
<1>3. States4(c) = States4(b)
  BY <1>2 DEF States4
<1> QED BY <1>1, <1>2, <1>3, Zenon

LEMMA KeptStates ==
    ASSUME AgentInv
    PROVE  Kept \subseteq States /\ Kept = (States4(rt) \cup {rot.last}) \ {None}
<1>1. RuntimeType(rt) /\ rot.last \in States \cup {None}
  BY InvParts DEF OthersType, Rotations
<1>2. rt.file.last \in States \cup {None}
  BY <1>1 DEF RuntimeType, Files
<1> QED BY <1>1, <1>2, Zenon DEF Kept, States4, RuntimeType

(* A step that keeps only what was kept, or takes what the stream loop read,
   keeps the order. *)
LEMMA OrderStep ==
    ASSUME AgentInv, OrderInv, rt'.kernel = rt.kernel,
           \/ reader'.st \in {reader.st, None} /\ Kept' \subseteq Kept
           \/ reader'.st = None /\ Kept' \subseteq Kept \cup ({reader.st} \ {None}),
           chan' \in {chan, <<>>}, srv' \in States, srv'.gen >= srv.gen
    PROVE  OrderInv'
<1> SUFFICES ASSUME rt.kernel \notin Restore
             PROVE  /\ \A x \in (Kept \cup ({reader.st} \ {None}))' :
                          /\ x.gen <= srv'.gen
                          /\ \A i \in DOMAIN chan' : x.gen <= chan'[i].gen
                    /\ \A x \in Kept' : reader'.st # None => x.gen <= reader'.st.gen
                    /\ \A i \in DOMAIN chan' : /\ chan'[i].gen <= srv'.gen
                                               /\ \A j \in 1 .. i : chan'[j].gen <= chan'[i].gen
  BY Zenon DEF OrderInv
<1>1. Kept \subseteq States /\ OthersType
  BY KeptStates, InvParts, Zenon
<1>2. \A s \in States : s.gen \in Nat
  BY StateFields DEF Gens
<1>3. srv \in States /\ (reader.st # None => reader.st \in States) /\ chan \in Seq(States)
  BY <1>1 DEF OthersType, Readers
<1>4. \A i \in DOMAIN chan : chan[i] \in States
  BY <1>3
<1>5. (Kept \cup ({reader.st} \ {None}))' \subseteq Kept \cup ({reader.st} \ {None})
  BY Zenon
<1>6. \A x \in (Kept \cup ({reader.st} \ {None}))' : x.gen <= srv'.gen
  <2>1. TAKE x \in (Kept \cup ({reader.st} \ {None}))'
  <2>2. x.gen <= srv.gen /\ x \in States
    BY <1>1, <1>3, <1>5, <2>1, Zenon DEF OrderInv
  <2> QED BY <1>2, <1>3, <2>2
<1>7. \A i \in DOMAIN chan' : i \in DOMAIN chan /\ chan'[i] = chan[i] /\ chan' = chan
  BY <1>3
<1>8. \A x \in (Kept \cup ({reader.st} \ {None}))' : \A i \in DOMAIN chan' : x.gen <= chan'[i].gen
  BY <1>5, <1>7, Zenon DEF OrderInv
<1>9. \A x \in Kept' : reader'.st # None => x.gen <= reader'.st.gen
  BY Zenon DEF OrderInv
<1>10. \A i \in DOMAIN chan' : chan'[i].gen <= srv'.gen
  <2>1. TAKE i \in DOMAIN chan'
  <2>2. chan[i].gen <= srv.gen /\ chan[i] \in States /\ chan'[i] = chan[i]
    BY <1>4, <1>7, <2>1, Zenon DEF OrderInv
  <2> QED BY <1>2, <1>3, <2>2
<1>11. \A i \in DOMAIN chan' : \A j \in 1 .. i : chan'[j].gen <= chan'[i].gen
  BY <1>7, Zenon DEF OrderInv
<1> QED BY <1>6, <1>8, <1>9, <1>10, <1>11, Zenon

(* The two kinds of step on what is kept: by the goroutines, and by the
   process coming and going, which leaves what the file keeps. *)
LEMMA KeptFrom ==
    ASSUME AgentInv, NEW st, States4(rt') \subseteq States4(rt) \cup {st, None},
           rot'.last \in {rot.last, rt.last, None}
    PROVE  Kept' \subseteq Kept \cup ({st} \ {None})
<1>1. Kept = (States4(rt) \cup {rot.last}) \ {None} /\ rt.last \in States4(rt)
  BY KeptStates, Zenon DEF States4
<1>2. Kept' \subseteq (States4(rt') \cup {rot'.last}) \ {None}
  BY Zenon DEF Kept, States4
<1> QED BY <1>1, <1>2, Zenon

LEMMA StreamOrder ==
    ASSUME AgentInv, OrderInv, Arm \/ Dial \/ Hangup \/ Same \/ \E o \in Outcomes : StreamApply(o)
    PROVE  OrderInv'
<1>1. OthersType /\ DownInv /\ srv' = srv /\ srv \in States
  BY InvParts, Zenon DEF OthersType, Arm, Dial, Hangup, Same, StreamApply
<1>2. srv' \in States /\ srv'.gen >= srv.gen
  BY <1>1, StateFields DEF Gens
<1>3. CASE Arm \/ Dial \/ Hangup \/ Same
  <2>1. rt' = rt /\ rot' = rot
    BY <1>3, Zenon DEF Arm, Dial, Hangup, Same
  <2>2. Kept' = Kept
    BY <2>1, Zenon DEF Kept
  <2>3. NoReader.st = None /\ [NoReader EXCEPT !.pc = "dial"].st = None
    BY DEF NoReader
  <2>4. chan' \in {chan, <<>>}
    BY <1>3, Zenon DEF Arm, Dial, Hangup, Same
  <2>5. reader'.st \in {reader.st, None}
    <3>1. CASE Arm \/ Hangup
      BY <2>3, <3>1, Zenon DEF Arm, Hangup
    <3>2. CASE Dial
      BY <1>1, <3>2, Zenon DEF Dial, OthersType, Readers
    <3>3. CASE Same
      <4>1. \/ reader' = [reader EXCEPT !.pc = "read", !.st = None]
            \/ reader' = [reader EXCEPT !.pc = "apply"]
        BY <3>3, Zenon DEF Same
      <4> QED BY <1>1, <4>1, Zenon DEF OthersType, Readers
    <3> QED BY <1>3, <3>1, <3>2, <3>3
  <2> QED BY <1>2, <2>1, <2>2, <2>4, <2>5, OrderStep, Zenon
<1>4. ASSUME NEW o \in Outcomes, StreamApply(o) PROVE OrderInv'
  <2>1. /\ up /\ chan' = chan /\ rot' = rot /\ reader.pc = "apply" /\ rt' = Apply(rt, reader.st, o)
        /\ reader' = [pc |-> "read", first |-> FALSE, st |-> None, got |-> reader.st]
    BY <1>4, Zenon DEF StreamApply
  <2>2. reader.st \in States /\ reader'.st = None
    BY <1>1, <2>1 DEF DownInv, OthersType, Readers
  <2>3. RuntimeType(rt') /\ AppliedFrom(rt, reader.st, rt')
    BY <2>1, <2>2, InvRunning, RunningApplies, Zenon
  <2>4. rt'.kernel = rt.kernel /\ States4(rt') \subseteq States4(rt) \cup {reader.st, None}
    BY <2>3, AppliedSources, Zenon
  <2>5. Kept' \subseteq Kept \cup ({reader.st} \ {None})
    BY <2>1, <2>4, KeptFrom, Zenon
  <2> QED BY <1>2, <2>1, <2>2, <2>4, <2>5, OrderStep, Zenon
<1> QED BY <1>3, <1>4, Zenon

LEMMA LoopOrder ==
    ASSUME AgentInv, OrderInv, NEW o \in Outcomes,
           \/ CheckQuiet \/ PendingRead \/ CheckRetry(o) \/ CheckRebuild(o) \/ PendingApply(o)
           \/ RotateReconnect \/ RotateApply(o) \/ \E ok \in BOOLEAN : RotateSave(ok)
    PROVE  OrderInv'
<1>1. up /\ OthersType /\ ReasonInv /\ srv' = srv /\ srv \in States /\ chan' = chan /\ reader' = reader
  BY InvParts, Zenon DEF OthersType, CheckQuiet, PendingRead, CheckRetry, CheckRebuild, PendingApply,
                         RotateReconnect, RotateApply, RotateSave
<1>2. srv' \in States /\ srv'.gen >= srv.gen
  BY <1>1, StateFields DEF Gens
<1>3. Running(rt, issued) /\ issued \in Nat
  BY <1>1, InvRunning, Zenon
<1>4. ASSUME rt'.kernel = rt.kernel, States4(rt') \subseteq States4(rt) \cup {None},
             rot'.last \in {rot.last, rt.last, None}
      PROVE  OrderInv'
  <2>1. Kept' \subseteq Kept \cup ({None} \ {None})
    BY <1>4, KeptFrom, Zenon
  <2>2. Kept' \subseteq Kept
    BY <2>1, Zenon
  <2> QED BY <1>1, <1>2, <1>4, <2>2, OrderStep, Zenon
<1>5. CASE CheckQuiet \/ RotateReconnect
  <2>1. rt' = rt /\ rot'.last \in {rot.last, None}
    <3>1. NoRotation.last = None
      BY DEF NoRotation
    <3> QED BY <1>5, <3>1, Zenon DEF CheckQuiet, RotateReconnect
  <2> QED BY <1>4, <2>1, Zenon
<1>6. CASE CheckRetry(o)
  <2>1. rt' = Survived(rt, Build(rt, rt.retry, FALSE, o)) /\ rt.retry # None /\ rot' = rot
    BY <1>6, Zenon DEF CheckRetry
  <2>2. rt.retry \in States
    BY <1>3, <2>1, Zenon DEF Running, RuntimeType
  <2>3. PICK b : b = Build(rt, rt.retry, FALSE, o)
    BY Zenon
  <2>4. RuntimeType(b) /\ AppliedFrom(rt, rt.retry, b)
    BY <1>3, <2>2, <2>3, RunningApplies, Zenon
  <2>5. b.kernel = rt.kernel /\ States4(b) \subseteq States4(rt) \cup {rt.retry, None}
    BY <2>4, AppliedSources, Zenon
  <2>6. rt'.kernel = b.kernel /\ States4(rt') = States4(b)
    BY <2>1, <2>3, <2>4, SurvivedSources, Zenon
  <2>7. States4(rt') \subseteq States4(rt) \cup {None}
    BY <2>5, <2>6, Zenon DEF States4
  <2> QED BY <1>4, <2>1, <2>5, <2>6, <2>7, Zenon
<1>7. CASE CheckRebuild(o)
  <2>1. rt' = Build(rt, rt.last, TRUE, o) /\ ~rt.kernel /\ rt.built # None /\ rt.last # None /\ rot' = rot
    BY <1>7, Zenon DEF CheckRebuild
  <2>2. AppliedFrom(rt, rt.last, rt')
    BY <1>3, <2>1, RebuildCases, Zenon
  <2>3. rt'.kernel = rt.kernel /\ States4(rt') \subseteq States4(rt) \cup {rt.last, None}
    BY <2>2, AppliedSources, Zenon
  <2>4. States4(rt') \subseteq States4(rt) \cup {None}
    BY <2>3, Zenon DEF States4
  <2> QED BY <1>4, <2>1, <2>3, <2>4, Zenon
<1>8. CASE PendingRead \/ PendingApply(o)
  <2>1. rot' = rot
    BY <1>8, Zenon DEF PendingRead, PendingApply
  <2>2. PICK b : b = IF PendingApply(o) /\ rt.held /\ rt.built # None THEN Apply(rt, rt.pending, o) ELSE rt
    BY Zenon
  <2>3. \E h : rt' = [b EXCEPT !.held = h]
    BY <1>8, <2>2, Zenon DEF PendingRead, PendingApply
  <2>4. RuntimeType(b) /\ (b = rt \/ AppliedFrom(rt, rt.pending, b))
    <3>1. rt.held => rt.pending \in States
      BY <1>3, Zenon DEF Running, RuntimeType, RuntimeInv, ModeInv
    <3>2. RuntimeType(rt)
      BY <1>3, Zenon DEF Running
    <3> QED BY <1>3, <2>2, <3>1, <3>2, RunningApplies, Zenon
  <2>5. b.kernel = rt.kernel /\ States4(b) \subseteq States4(rt) \cup {rt.pending, None}
    BY <2>4, AppliedSources, Zenon
  <2>6. /\ rt'.kernel = b.kernel /\ rt'.last = b.last /\ rt'.file = b.file
        /\ rt'.pending = b.pending /\ rt'.retry = b.retry
    BY <2>3, <2>4, Zenon DEF RuntimeType, RuntimeFields
  <2>7. rt'.kernel = rt.kernel /\ States4(rt') \subseteq States4(rt) \cup {None}
    BY <2>5, <2>6, Zenon DEF States4
  <2> QED BY <1>4, <2>1, <2>7, Zenon
<1>9. CASE RotateApply(o)
  <2>1. /\ rt' = IF rot.last = None THEN rt ELSE Survived(rt, Apply(rt, rot.last, o))
        /\ rot' = [pc |-> "reconnect", last |-> None]
    BY <1>9, Zenon DEF RotateApply
  <2>2. rot'.last = None
    BY <2>1
  <2>3. CASE rot.last = None
    BY <1>4, <2>1, <2>2, <2>3, Zenon
  <2>4. CASE rot.last # None
    <3>1. rot.last \in States
      BY <1>1, <2>4 DEF OthersType, Rotations
    <3>2. PICK b : b = Apply(rt, rot.last, o)
      BY Zenon
    <3>3. RuntimeType(b) /\ AppliedFrom(rt, rot.last, b)
      BY <1>3, <3>1, <3>2, RunningApplies, Zenon
    <3>4. b.kernel = rt.kernel /\ States4(b) \subseteq States4(rt) \cup {rot.last, None}
      BY <3>3, AppliedSources, Zenon
    <3>5. rt'.kernel = b.kernel /\ States4(rt') = States4(b)
      BY <2>1, <2>4, <3>2, <3>3, SurvivedSources, Zenon
    <3>6. Kept' \subseteq Kept \cup ({rot.last} \ {None})
      BY <2>2, <3>4, <3>5, KeptFrom, Zenon
    <3>7. Kept' \subseteq Kept
      BY <3>6, Zenon DEF Kept
    <3> QED BY <1>1, <1>2, <3>4, <3>5, <3>7, OrderStep, Zenon
  <2> QED BY <2>3, <2>4
<1>10. ASSUME NEW ok \in BOOLEAN, RotateSave(ok) PROVE OrderInv'
  <2>1. CASE ~ok
    BY <1>4, <1>10, <2>1, Zenon DEF RotateSave
  <2>2. CASE ok
    <3>1. /\ rot' = [pc |-> "apply", last |-> rt.last] /\ rt' = Rotated(rt, issued + 1)
          /\ issued < MaxKey
      BY <1>10, <2>2, Zenon DEF RotateSave
    <3>2. issued + 1 \in KeyNumbers
      BY <1>3, <3>1, AgentAssumption DEF KeyNumbers
    <3>3. RotatedFrom(rt, rt', issued + 1)
      BY <1>3, <3>1, <3>2, RotatedRuns, Zenon
    <3>4. /\ rt'.kernel = rt.kernel /\ rt'.last = rt.last /\ rt'.pending = rt.pending /\ rt'.retry = None
          /\ rt'.file = [key |-> rt'.key, prev |-> rt'.prev, last |-> rt.last]
      BY <3>3, Zenon DEF RotatedFrom
    <3>5. rt'.file.last = rt.last /\ rot'.last = rt.last
      BY <3>1, <3>4
    <3>6. States4(rt') \subseteq States4(rt) \cup {None}
      BY <3>4, <3>5, Zenon DEF States4
    <3> QED BY <1>4, <3>4, <3>5, <3>6, Zenon
  <2> QED BY <2>1, <2>2
<1> QED BY <1>5, <1>6, <1>7, <1>8, <1>9, <1>10, Zenon

LEMMA ReadOrder ==
    ASSUME AgentInv, OrderInv, Read
    PROVE  OrderInv'
<1>1. OthersType /\ UNCHANGED <<rt, rot, srv>>
  BY InvParts, Zenon DEF Read
<1>2. Kept' = Kept /\ rt' = rt /\ srv' = srv
  BY <1>1, Zenon DEF Kept
<1> SUFFICES ASSUME rt.kernel \notin Restore
             PROVE  /\ \A x \in Kept \cup ({reader'.st} \ {None}) :
                          /\ x.gen <= srv.gen
                          /\ \A i \in DOMAIN chan' : x.gen <= chan'[i].gen
                    /\ \A x \in Kept : reader'.st # None => x.gen <= reader'.st.gen
                    /\ \A i \in DOMAIN chan' : /\ chan'[i].gen <= srv.gen
                                               /\ \A j \in 1 .. i : chan'[j].gen <= chan'[i].gen
  BY <1>2, Zenon DEF OrderInv
<1>3. chan \in Seq(States) /\ chan # <<>> /\ chan' = Tail(chan)
  BY <1>1, Zenon DEF Read, OthersType
<1>4. /\ DOMAIN chan = 1 .. Len(chan) /\ 1 \in DOMAIN chan /\ Head(chan) = chan[1]
      /\ \A i \in DOMAIN chan' : i \in Nat /\ i + 1 \in DOMAIN chan /\ chan'[i] = chan[i + 1] /\ 1 \in 1 .. (i + 1)
  BY <1>3
<1>5. reader'.st = None \/ reader'.st = Head(chan)
  <2>1. \/ reader' = [reader EXCEPT !.pc = "read", !.st = None]
        \/ \E pc \in {"apply", "same"} : reader' = [reader EXCEPT !.pc = pc, !.st = Head(chan)]
    BY Zenon DEF Read
  <2> QED BY <1>1, <2>1, Zenon DEF OthersType, Readers
<1>6. \A x \in Kept : /\ x.gen <= srv.gen
                       /\ \A i \in DOMAIN chan : x.gen <= chan[i].gen
  BY Zenon DEF OrderInv
<1>7. \A i \in DOMAIN chan : /\ chan[i].gen <= srv.gen
                             /\ \A j \in 1 .. i : chan[j].gen <= chan[i].gen
  BY Zenon DEF OrderInv
<1>8. /\ \A x \in Kept : \A i \in DOMAIN chan' : x.gen <= chan'[i].gen
      /\ \A i \in DOMAIN chan' : chan'[i].gen <= srv.gen /\ Head(chan).gen <= chan'[i].gen
      /\ Head(chan).gen <= srv.gen
      /\ \A x \in Kept : x.gen <= Head(chan).gen
  BY <1>4, <1>6, <1>7, Zenon
<1>9. \A i \in DOMAIN chan' : \A j \in 1 .. i : chan'[j].gen <= chan'[i].gen
  <2> SUFFICES ASSUME NEW i \in DOMAIN chan', NEW j \in 1 .. i
               PROVE  chan'[j].gen <= chan'[i].gen
    BY Zenon
  <2>1. i \in DOMAIN chan' /\ j \in 1 .. i
    BY Zenon
  <2>2. i + 1 \in DOMAIN chan /\ chan'[i] = chan[i + 1] /\ i \in Nat
    BY <1>4, <2>1, Zenon
  <2>3. j \in DOMAIN chan' /\ j + 1 \in 1 .. (i + 1)
    BY <1>3, <2>1, <2>2
  <2>4. chan'[j] = chan[j + 1]
    BY <1>4, <2>3, Zenon
  <2> QED BY <1>7, <2>2, <2>3, <2>4, Zenon
<1> QED BY <1>5, <1>6, <1>8, <1>9, Zenon

LEMMA SendOrder ==
    ASSUME AgentInv, OrderInv, Send
    PROVE  OrderInv'
<1>1. OthersType /\ UNCHANGED <<rt, rot, srv, reader>>
  BY InvParts, Zenon DEF Send
<1>2. Kept' = Kept /\ rt' = rt /\ srv' = srv /\ reader' = reader
  BY <1>1, Zenon DEF Kept
<1> SUFFICES ASSUME rt.kernel \notin Restore
             PROVE  /\ \A x \in Kept \cup ({reader.st} \ {None}) :
                          /\ x.gen <= srv.gen
                          /\ \A i \in DOMAIN chan' : x.gen <= chan'[i].gen
                    /\ \A x \in Kept : reader.st # None => x.gen <= reader.st.gen
                    /\ \A i \in DOMAIN chan' : /\ chan'[i].gen <= srv.gen
                                               /\ \A j \in 1 .. i : chan'[j].gen <= chan'[i].gen
  BY <1>2, Zenon DEF OrderInv
<1>3. chan \in Seq(States) /\ srv \in States /\ chan' = Append(chan, srv)
  BY <1>1, Zenon DEF Send, OthersType
<1>4. srv.gen <= srv.gen
  BY <1>3, StateFields DEF Gens
<1>5. \A i \in DOMAIN chan' : \/ i \in DOMAIN chan /\ chan'[i] = chan[i]
                              \/ i = Len(chan) + 1 /\ chan'[i] = srv
  BY <1>3
<1>6. \A i \in DOMAIN chan : \A j \in 1 .. i : chan'[j] = chan[j]
  BY <1>3
<1>7. \A i \in DOMAIN chan : /\ chan[i].gen <= srv.gen
                             /\ \A j \in 1 .. i : chan[j].gen <= chan[i].gen
  BY Zenon DEF OrderInv
<1>8. \A x \in Kept \cup ({reader.st} \ {None}) :
         x.gen <= srv.gen /\ \A i \in DOMAIN chan' : x.gen <= chan'[i].gen
  BY <1>5, Zenon DEF OrderInv
<1>9. \A i \in DOMAIN chan' : chan'[i].gen <= srv.gen
  BY <1>4, <1>5, <1>7, Zenon
<1>10. \A i \in DOMAIN chan' : \A j \in 1 .. i : chan'[j].gen <= chan'[i].gen
  <2> SUFFICES ASSUME NEW i \in DOMAIN chan', NEW j \in 1 .. i
               PROVE  chan'[j].gen <= chan'[i].gen
    BY Zenon
  <2>1. i \in DOMAIN chan' /\ j \in 1 .. i
    BY Zenon
  <2>2. CASE i \in DOMAIN chan /\ chan'[i] = chan[i]
    BY <1>6, <1>7, <2>1, <2>2, Zenon
  <2>3. CASE i = Len(chan) + 1 /\ chan'[i] = srv
    <3>1. j \in DOMAIN chan'
      BY <1>3, <2>1, <2>3
    <3> QED BY <1>9, <2>3, <3>1, Zenon
  <2> QED BY <1>5, <2>2, <2>3, Zenon
<1>11. \A x \in Kept : reader.st # None => x.gen <= reader.st.gen
  BY Zenon DEF OrderInv
<1> QED BY <1>8, <1>9, <1>10, <1>11, Zenon

LEMMA ServerOrder ==
    ASSUME AgentInv, OrderInv, NEW s \in States, Publish(s) \/ Restored(s) \/ Lose
    PROVE  OrderInv'
<1>1. UNCHANGED <<rt, rot, reader>> /\ chan' \in {chan, <<>>} /\ srv \in States
  BY InvParts, Zenon DEF OthersType, Publish, Restored, Lose
<1>2. Kept' = Kept /\ rt' = rt /\ reader' = reader
  BY <1>1, Zenon DEF Kept
<1>3. CASE Restored(s)
  BY <1>2, <1>3, Zenon DEF Restored, OrderInv
<1>4. CASE Publish(s) \/ Lose
  <2>1. srv.gen >= srv.gen
    BY <1>1, StateFields DEF Gens
  <2>2. srv' \in States /\ srv'.gen >= srv.gen
    BY <1>1, <1>4, <2>1, Zenon DEF Publish, Lose
  <2> QED BY <1>1, <1>2, <2>2, OrderStep, Zenon
<1> QED BY <1>3, <1>4

LEMMA ProcessOrder ==
    ASSUME AgentInv, OrderInv, Crash \/ Exit \/ StoppedRotate \/ \E o \in Outcomes : Start(o)
    PROVE  OrderInv'
<1>1. srv \in States /\ srv' = srv /\ DownInv /\ RuntimeType(rt) /\ RuntimeInv(rt, issued)
  BY InvParts, Zenon DEF OthersType, Crash, Exit, Ended, StoppedRotate, Start
<1>2. srv' \in States /\ srv'.gen >= srv.gen
  BY <1>1, StateFields DEF Gens
<1>3. NoReader.st = None /\ NoRotation.last = None
  BY DEF NoReader, NoRotation
<1>4. reader'.st = None /\ rot'.last = None /\ chan' = <<>>
  BY <1>1, <1>3, Zenon DEF Crash, Exit, Ended, StoppedRotate, Start, DownInv
<1>5. ASSUME rt'.kernel = rt.kernel, States4(rt') \subseteq States4(rt) \cup {None}
      PROVE  OrderInv'
  <2>1. Kept' \subseteq Kept \cup ({None} \ {None})
    BY <1>4, <1>5, KeptFrom, Zenon
  <2>2. Kept' \subseteq Kept
    BY <2>1, Zenon
  <2> QED BY <1>2, <1>4, <1>5, <2>2, OrderStep, Zenon
<1>6. ASSUME NEW f \in Files, f.last \in {rt.file.last, None}, NEW l \in Tunnels \cup {None},
             NEW t \in RuleSets \cup {NoRules}, rt' = Fresh(rt.kernel, f, l, t)
      PROVE  OrderInv'
  <2>1. FreshFrom(rt.kernel, f, l, t, rt')
    BY <1>1, <1>6, FreshFacts, Zenon DEF RuntimeType
  <2>2. /\ rt'.kernel = rt.kernel /\ rt'.last = f.last /\ rt'.file = f /\ rt'.pending = None
        /\ rt'.retry = None
    BY <2>1, Zenon DEF FreshFrom
  <2>3. States4(rt') \subseteq States4(rt) \cup {None}
    BY <1>6, <2>2, Zenon DEF States4
  <2> QED BY <1>5, <2>2, <2>3, Zenon
<1>7. CASE Crash \/ Exit
  <2>1. PICK l : l = IF rt.kernel THEN rt.link ELSE None
    BY Zenon
  <2>2. PICK t : t = IF rt.kernel THEN rt.table ELSE NoRules
    BY Zenon
  <2>3. rt' = Fresh(rt.kernel, rt.file, l, t)
    BY <1>7, <2>1, <2>2, Zenon DEF Crash, Exit, Ended
  <2>4. l \in Tunnels \cup {None} /\ t \in RuleSets \cup {NoRules} /\ rt.file \in Files
    BY <1>1, <2>1, <2>2, Zenon DEF RuntimeType
  <2> QED BY <1>6, <2>3, <2>4, Zenon
<1>8. CASE StoppedRotate
  <2>1. PICK p : p = IF rt.kernel /\ rt.file.key # None THEN rt.file.key ELSE rt.file.prev
    BY Zenon
  <2>2. PICK f : f = [key |-> None, prev |-> p, last |-> None]
    BY Zenon
  <2>3. rt' = Fresh(rt.kernel, f, rt.link, rt.table)
    BY <1>8, <2>1, <2>2, Zenon DEF StoppedRotate
  <2>4. p \in KeyNumbers \cup {None}
    BY <1>1, <2>1 DEF RuntimeType, Files
  <2>5. f \in Files /\ f.last = None
    BY <2>2, <2>4 DEF Files
  <2>6. rt.link \in Tunnels \cup {None} /\ rt.table \in RuleSets \cup {NoRules}
    BY <1>1, Zenon DEF RuntimeType
  <2> QED BY <1>6, <2>3, <2>5, <2>6, Zenon
<1>9. ASSUME NEW o \in Outcomes, Start(o) PROVE OrderInv'
  <2>1. PICK a, b : LoadedAs(a, issued') /\ StartedAs(a, b)
    BY <1>9, StartCases, Zenon
  <2>2. a.kernel = rt.kernel /\ States4(a) \subseteq States4(rt) \cup {None} /\ a.last \in States4(a)
    BY <2>1, Zenon DEF LoadedAs, States4
  <2>3. RuntimeType(b) /\ b.kernel = a.kernel /\ States4(b) \subseteq States4(a) \cup {a.last, None}
    <3>1. CASE a.last = None
      BY <2>1, <3>1, Zenon DEF StartedAs, LoadedAs
    <3>2. CASE a.last # None
      BY <2>1, <3>2, AppliedSources, Zenon DEF StartedAs
    <3> QED BY <3>1, <3>2
  <2>4. States4(b) \subseteq States4(rt) \cup {None}
    BY <2>2, <2>3, Zenon
  <2>5. CASE b.fatal
    <3>1. rt' = Fresh(b.kernel, b.file, b.link, b.table)
      BY <2>1, <2>5, Zenon DEF StartedAs
    <3>2. FreshFrom(b.kernel, b.file, b.link, b.table, rt')
      BY <2>3, <3>1, FreshFacts, Zenon DEF RuntimeType
    <3>3. /\ rt'.kernel = rt.kernel /\ rt'.last = b.file.last /\ rt'.file = b.file /\ rt'.pending = None
          /\ rt'.retry = None
      BY <2>2, <2>3, <3>2, Zenon DEF FreshFrom
    <3>4. States4(rt') \subseteq States4(rt) \cup {None}
      BY <2>4, <3>3, Zenon DEF States4
    <3> QED BY <1>5, <3>3, <3>4, Zenon
  <2>6. CASE ~b.fatal
    <3>1. rt' = b
      BY <2>1, <2>6, Zenon DEF StartedAs
    <3> QED BY <1>5, <2>2, <2>3, <2>4, <3>1, Zenon
  <2> QED BY <2>5, <2>6
<1> QED BY <1>7, <1>8, <1>9, Zenon

LEMMA OrderKeeps ==
    ASSUME AgentInv, OrderInv, [Next]_vars
    PROVE  OrderInv'
<1>1. CASE StreamLoop
  BY <1>1, StreamOrder, ReadOrder, Zenon DEF StreamLoop
<1>2. CASE TickLoop \/ RotateKey \/ \E ok \in BOOLEAN : RotateSave(ok)
  <2>1. AllWell \in Outcomes
    BY Zenon DEF Outcomes
  <2> QED BY <1>2, <2>1, LoopOrder, Zenon DEF TickLoop, RotateKey
<1>3. CASE Process \/ Crash \/ StoppedRotate
  BY <1>3, ProcessOrder, Zenon DEF Process
<1>4. CASE (\E s \in States : Publish(s) \/ Restored(s)) \/ Send \/ Lose
  <2>1. srv \in States
    BY InvParts, Zenon DEF OthersType
  <2> QED BY <1>4, <2>1, ServerOrder, SendOrder, Zenon
<1>5. CASE UNCHANGED vars
  <2>1. UNCHANGED <<rt, reader, rot, chan, srv>>
    BY <1>5 DEF vars
  <2>2. Kept' = Kept
    BY <2>1, Zenon DEF Kept
  <2> QED BY <2>1, <2>2, Zenon DEF OrderInv
<1> QED BY <1>1, <1>2, <1>3, <1>4, <1>5, Zenon DEF Next

(* An applied state that nothing pending is newer than is where NewestInv
   says. *)
LEMMA AppliedNewest ==
    ASSUME NEW a, RuntimeType(a), NEW st \in States, NEW b, a.key # None,
           AppliedFrom(a, st, b), ~a.kernel \/ ~b.fatal,
           a.kernel /\ a.pending # None => a.pending.gen <= st.gen
    PROVE  Newest(b, st)
<1>1. b.kernel = a.kernel
  BY Zenon DEF AppliedFrom, Credentials
<1>2. CASE Refused(a, st, b)
  BY <1>1, <1>2, Zenon DEF Refused, Refuses, Newest
<1>3. CASE NotBuilt(a, st, b)
  BY <1>1, <1>3, Zenon DEF NotBuilt, Newest
<1>4. CASE HasTunnel(a, st, b)
  <2>1. b.built # None
    BY <1>4, TunnelType, Zenon DEF HasTunnel
  <2>2. CASE InForce(a, st, b)
    <3>1. b.last = st /\ (a.kernel => b.pending = None)
      BY <2>2, Zenon DEF InForce
    <3> QED BY <1>1, <2>1, <3>1, Zenon DEF Newest
  <2>3. CASE Waits(a, st, b)
    <3>1. a.kernel /\ (a.pending = None \/ st.gen >= a.pending.gen => b.pending = st)
      BY <2>3, Zenon DEF Waits
    <3>2. a.pending = None \/ st.gen >= a.pending.gen
      <4>1. a.pending # None => a.pending \in States
        BY Zenon DEF RuntimeType
      <4>2. a.pending # None => a.pending.gen \in Nat /\ st.gen \in Nat
        BY <4>1, StateFields DEF Gens
      <4> QED BY <3>1, <4>2
    <3> QED BY <1>1, <3>1, <3>2, Zenon DEF Newest
  <2>4. ~Ends(a, b)
    BY Zenon DEF Ends
  <2> QED BY <1>4, <2>2, <2>3, <2>4, Zenon DEF HasTunnel
<1> QED BY <1>2, <1>3, <1>4, Zenon DEF AppliedFrom

LEMMA AppliedFatal ==
    ASSUME NEW a, NEW st, NEW b, AppliedFrom(a, st, b), ~b.fatal
    PROVE  b.kernel = a.kernel /\ ~a.fatal
BY Zenon DEF AppliedFrom, Credentials, Refused, NotBuilt, HasTunnel, InForce, Waits, Ends

(* A step of the 30-second loop applies the newest state again, or leaves it
   where it is. *)
LEMMA TickNewest ==
    ASSUME AgentInv, NewestInv, NEW o \in Outcomes, ~rt'.fatal,
           conn # None, ~cut, rot.pc = "idle", reader.got # None,
           CheckQuiet \/ PendingRead \/ CheckRetry(o) \/ CheckRebuild(o) \/ PendingApply(o)
    PROVE  Newest(rt', reader.got)
<1>1. up
  BY Zenon DEF CheckQuiet, PendingRead, CheckRetry, CheckRebuild, PendingApply
<1>2. Running(rt, issued) /\ RuntimeType(rt) /\ ModeInv(rt) /\ rt.key # None
  BY <1>1, InvRunning, Zenon DEF Running, RuntimeInv
<1>3. ~rt.fatal => Newest(rt, reader.got)
  BY <1>1, Zenon DEF NewestInv
<1>4. ASSUME NEW h, NEW b, RuntimeType(b), rt' = [b EXCEPT !.held = h], ~b.fatal => Newest(b, reader.got)
      PROVE  Newest(rt', reader.got)
  <2>1. /\ rt'.kernel = b.kernel /\ rt'.pending = b.pending /\ rt'.last = b.last
        /\ rt'.built = b.built /\ rt'.retry = b.retry /\ rt'.fatal = b.fatal
    BY <1>4, Zenon DEF RuntimeType, RuntimeFields
  <2> QED BY <1>4, <2>1, Zenon DEF Newest
<1>5. CASE CheckQuiet
  BY <1>3, <1>5, Zenon DEF CheckQuiet
<1>6. CASE PendingRead
  BY <1>2, <1>3, <1>4, <1>6, Zenon DEF PendingRead
<1>7. CASE CheckRetry(o)
  <2>1. /\ rt' = Survived(rt, Build(rt, rt.retry, FALSE, o)) /\ rt.retry # None /\ rt.due
        /\ rt.built = None
    BY <1>7, Zenon DEF CheckRetry
  <2>2. rt.retry \in States /\ ~rt.kernel
    BY <1>2, <2>1, Zenon DEF RuntimeType, ModeInv
  <2>3. PICK b : b = Build(rt, rt.retry, FALSE, o)
    BY Zenon
  <2>4. RuntimeType(b) /\ AppliedFrom(rt, rt.retry, b)
    BY <1>2, <2>2, <2>3, RunningApplies, Zenon
  <2>5. ~rt.fatal
    BY <1>2, <2>2, Zenon DEF ModeInv
  <2>6. reader.got = rt.retry
    BY <1>3, <2>1, <2>2, <2>5, Zenon DEF Newest
  <2>7. Newest(b, rt.retry)
    BY <1>2, <2>2, <2>4, AppliedNewest, Zenon
  <2>8. /\ rt'.kernel = b.kernel /\ rt'.pending = b.pending /\ rt'.last = b.last
        /\ rt'.built = b.built /\ rt'.retry = b.retry
    BY <2>1, <2>3, <2>4, Zenon DEF Survived, RuntimeType, RuntimeFields
  <2> QED BY <2>6, <2>7, <2>8, Zenon DEF Newest
<1>8. CASE CheckRebuild(o)
  <2>1. rt' = Build(rt, rt.last, TRUE, o) /\ ~rt.kernel /\ rt.built # None /\ rt.last # None
    BY <1>8, Zenon DEF CheckRebuild
  <2>2. rt.last \in States /\ ~rt.fatal
    BY <1>2, <2>1, Zenon DEF RuntimeType, ModeInv
  <2>3. AppliedFrom(rt, rt.last, rt')
    BY <1>2, <2>1, RebuildCases, Zenon
  <2>4. reader.got = rt.last
    BY <1>3, <2>1, <2>2, Zenon DEF Newest
  <2> QED BY <1>2, <2>1, <2>2, <2>3, <2>4, AppliedNewest, Zenon
<1>9. CASE PendingApply(o) /\ ~(rt.held /\ rt.built # None)
  <2>1. rt' = [rt EXCEPT !.held = FALSE]
    BY <1>9, Zenon DEF PendingApply
  <2> QED BY <1>2, <1>3, <1>4, <2>1, Zenon
<1>10. CASE PendingApply(o) /\ rt.held /\ rt.built # None
  <2>1. PICK b : b = Apply(rt, rt.pending, o)
    BY Zenon
  <2>2. rt' = [b EXCEPT !.held = FALSE]
    BY <1>10, <2>1, Zenon DEF PendingApply
  <2>3. rt.pending # None /\ rt.pending \in States /\ rt.kernel
    BY <1>2, <1>10, Zenon DEF RuntimeType, ModeInv
  <2>4. RuntimeType(b) /\ AppliedFrom(rt, rt.pending, b)
    BY <1>2, <2>1, <2>3, RunningApplies, Zenon
  <2>5. ASSUME ~b.fatal PROVE Newest(b, reader.got)
    <3>1. b.kernel /\ ~rt.fatal
      BY <2>3, <2>4, <2>5, AppliedFatal, Zenon
    <3>2. CASE reader.got.wg \in BadWG
      BY <3>1, <3>2, Zenon DEF Newest
    <3>3. CASE reader.got = rt.pending
      <4>1. rt.pending.gen <= rt.pending.gen
        BY <2>3, StateFields DEF Gens
      <4> QED BY <1>2, <2>3, <2>4, <2>5, <3>3, <4>1, AppliedNewest, Zenon
    <3> QED BY <1>3, <2>3, <3>1, <3>2, <3>3, Zenon DEF Newest
  <2> QED BY <1>4, <2>2, <2>4, <2>5, Zenon
<1> QED BY <1>5, <1>6, <1>7, <1>8, <1>9, <1>10, Zenon

LEMMA StreamNewest ==
    ASSUME AgentInv, OrderInv, NewestInv, TRUE \notin Restore, StreamLoop
    PROVE  NewestInv'
<1>1. OthersType /\ DownInv /\ UNCHANGED <<up, rot>> /\ up
  BY InvParts, Zenon DEF StreamLoop, Arm, Dial, Hangup, Read, Same, StreamApply
<1>2. CASE Arm \/ Hangup
  <2>1. reader'.got = None
    <3>1. NoReader.got = None /\ [NoReader EXCEPT !.pc = "dial"].got = None
      BY DEF NoReader
    <3> QED BY <1>2, <3>1, Zenon DEF Arm, Hangup
  <2> QED BY <2>1, Zenon DEF NewestInv
<1>3. CASE Dial
  <2>1. reader'.got = reader.got /\ reader'.pc = "read" /\ reader.pc = "dial"
    BY <1>1, <1>3, Zenon DEF Dial, OthersType, Readers
  <2>2. reader'.got = None
    BY <2>1, Zenon DEF NewestInv
  <2> QED BY <2>2, Zenon DEF NewestInv
<1>4. CASE Read \/ Same
  <2>1. UNCHANGED <<rt, conn, cut>>
    BY <1>4, Zenon DEF Read, Same
  <2>2. \E pc \in {"read", "same", "apply"} : \E st : reader' = [reader EXCEPT !.pc = pc, !.st = st]
    <3>1. CASE Read
      BY <3>1, Zenon DEF Read
    <3>2. CASE Same
      <4>1. [reader EXCEPT !.pc = "apply"] = [reader EXCEPT !.pc = "apply", !.st = reader.st]
        BY <1>1, Zenon DEF OthersType, Readers
      <4> QED BY <3>2, <4>1, Zenon DEF Same
    <3> QED BY <1>4, <3>1, <3>2, Zenon
  <2>3. reader'.got = reader.got /\ reader'.pc \in {"read", "same", "apply"}
    BY <1>1, <2>2, Zenon DEF OthersType, Readers
  <2>4. reader'.pc # "dial"
    BY <2>3
  <2> QED BY <1>1, <2>1, <2>3, <2>4, Zenon DEF NewestInv
<1>5. ASSUME NEW o \in Outcomes, StreamApply(o) PROVE NewestInv'
  <2>1. /\ reader.pc = "apply" /\ rt' = Apply(rt, reader.st, o)
        /\ reader' = [pc |-> "read", first |-> FALSE, st |-> None, got |-> reader.st]
    BY <1>5, Zenon DEF StreamApply
  <2>2. reader.st \in States /\ reader'.got = reader.st /\ reader'.pc = "read"
    BY <1>1, <2>1 DEF DownInv, OthersType, Readers
  <2>3. Running(rt, issued) /\ issued \in Nat
    BY <1>1, InvRunning, Zenon
  <2>4. RuntimeType(rt') /\ AppliedFrom(rt, reader.st, rt')
    BY <2>1, <2>2, <2>3, RunningApplies, Zenon
  <2>5. rt.kernel /\ rt.pending # None => rt.pending.gen <= reader.st.gen
    <3>1. rt.kernel => rt.kernel = TRUE
      BY <2>3, AgentAssumption DEF Running, RuntimeType
    <3>2. reader.st # None
      BY <2>2, StateFields
    <3>3. rt.pending # None => rt.pending \in Kept
      BY Zenon DEF Kept
    <3> QED BY <3>1, <3>2, <3>3, Zenon DEF OrderInv
  <2>6. ~rt'.fatal => Newest(rt', reader.st)
    <3>1. RuntimeType(rt) /\ rt.key # None
      BY <2>3, Zenon DEF Running
    <3> QED BY <2>2, <2>4, <2>5, <3>1, AppliedNewest, Zenon
  <2>7. reader'.pc # "dial"
    BY <2>2
  <2> QED BY <2>2, <2>6, <2>7, Zenon DEF NewestInv
<1> QED BY <1>2, <1>3, <1>4, <1>5, Zenon DEF StreamLoop

LEMMA NewestKeeps ==
    ASSUME AgentInv, OrderInv, NewestInv, TRUE \notin Restore, [Next]_vars
    PROVE  NewestInv'
<1>1. DownInv
  BY InvParts, Zenon
<1>2. NoReader.got = None /\ NoReader.pc = "idle"
  BY DEF NoReader
<1>3. CASE StreamLoop
  BY <1>3, StreamNewest, Zenon
<1>4. ASSUME NEW o \in Outcomes,
             CheckQuiet \/ PendingRead \/ CheckRetry(o) \/ CheckRebuild(o) \/ PendingApply(o)
      PROVE  NewestInv'
  <2>1. UNCHANGED <<reader, conn, cut, rot>>
    BY <1>4, Zenon DEF CheckQuiet, PendingRead, CheckRetry, CheckRebuild, PendingApply
  <2> QED BY <1>4, <2>1, TickNewest, Zenon DEF NewestInv
<1>5. CASE TickLoop
  <2>1. AllWell \in Outcomes
    BY Zenon DEF Outcomes
  <2> QED BY <1>4, <1>5, <2>1, Zenon DEF TickLoop
<1>6. CASE RotateKey
  <2>1. reader' = reader /\ (cut' \/ rot'.pc = "reconnect")
    BY <1>6 DEF RotateKey, RotateReconnect, RotateApply
  <2>2. rot'.pc = "reconnect" => rot'.pc # "idle"
    OBVIOUS
  <2> QED BY <2>1, <2>2, Zenon DEF NewestInv
<1>7. ASSUME NEW ok \in BOOLEAN, RotateSave(ok) PROVE NewestInv'
  <2>1. reader' = reader
    BY <1>7, Zenon DEF RotateSave
  <2>2. CASE ok
    <3>1. rot'.pc # "idle"
      BY <1>7, <2>2 DEF RotateSave
    <3> QED BY <2>1, <3>1, Zenon DEF NewestInv
  <2>3. CASE ~ok
    <3>1. UNCHANGED <<rt, up, conn, cut, rot>>
      BY <1>7, <2>3, Zenon DEF RotateSave
    <3> QED BY <2>1, <3>1, Zenon DEF NewestInv
  <2> QED BY <2>2, <2>3
<1>8. CASE Process \/ Crash \/ StoppedRotate
  <2>1. reader' = NoReader
    BY <1>1, <1>8, Zenon DEF Process, Exit, Crash, Ended, StoppedRotate, Start, DownInv
  <2>2. reader'.got = None
    BY <1>2, <2>1
  <2> QED BY <2>2, Zenon DEF NewestInv
<1>9. CASE (\E s \in States : Publish(s) \/ Restored(s)) \/ Send \/ Lose
  <2>1. UNCHANGED <<rt, up, reader, rot, cut>> /\ (conn' = conn \/ conn' = None)
    BY <1>9, Zenon DEF Publish, Restored, Send, Lose
  <2> QED BY <2>1, Zenon DEF NewestInv
<1>10. CASE UNCHANGED vars
  BY <1>10 DEF vars, NewestInv
<1> QED BY <1>3, <1>5, <1>6, <1>7, <1>8, <1>9, <1>10, Zenon DEF Next

(* Where the kernel mode's server does not go back to an earlier generation,
   the newest state the connection handed over is in force or waits, whatever
   failed, was retried or rotated since (applyFromStream, finishApplyLocked,
   retryPending, retryBuildLocked).  The premise is needed: the kernel mode
   goes on with a pending state that is newer than the restored one. *)
THEOREM NewestKeptHolds ==
    ASSUME TRUE \notin Restore
    PROVE  Spec => []NewestKept
<1>1. Init => AgentInv /\ OrderInv /\ NewestInv
  <2> SUFFICES ASSUME Init PROVE AgentInv /\ OrderInv /\ NewestInv
    OBVIOUS
  <2>1. AgentInv /\ ~up /\ reader = NoReader /\ rot = NoRotation /\ chan = <<>>
    BY AgentInit, Zenon DEF Init
  <2>2. reader.st = None /\ reader.got = None /\ rot.last = None
    BY <2>1 DEF NoReader, NoRotation
  <2>3. rt.last = None /\ rt.file.last = None /\ rt.pending = None /\ rt.retry = None
    BY DEF Init, Fresh
  <2>4. Kept \cup ({reader.st} \ {None}) = {} /\ DOMAIN chan = {}
    BY <2>1, <2>2, <2>3 DEF Kept
  <2>5. OrderInv
    BY <2>4 DEF OrderInv
  <2>6. NewestInv
    BY <2>2, Zenon DEF NewestInv
  <2> QED BY <2>1, <2>5, <2>6
<1>2. (AgentInv /\ OrderInv /\ NewestInv) /\ [Next]_vars => (AgentInv /\ OrderInv /\ NewestInv)'
  BY AgentStep, OrderKeeps, NewestKeeps
<1>3. NewestInv => NewestKept
  BY Zenon DEF NewestInv, Newest, NewestKept
<1> QED BY <1>1, <1>2, <1>3, PTL DEF Spec

=============================================================================
