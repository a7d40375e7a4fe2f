------------------------------- MODULE GenLag -------------------------------
(***************************************************************************)
(* The record of how long an agent has been behind the server's rule-set   *)
(* generation (internal/vpsd/genlag.go), with the three paths that write   *)
(* it: an administrative change, which saves a generation and then notes   *)
(* it; a heartbeat, which reads the saved generation under the agent's     *)
(* hook lock and then records what the agent reported; and a revocation,   *)
(* which waits for that lock before it forgets the agent.                  *)
(*                                                                         *)
(* The administrative paths hold Daemon.mu, a heartbeat does not, so their *)
(* steps interleave.                                                       *)
(***************************************************************************)
EXTENDS Naturals

CONSTANTS
    Agents,     \* agent names
    MaxGen,     \* bound on the saved generation
    MaxTime     \* bound on the clock

ASSUME GenLagAssumption == MaxGen \in Nat /\ MaxTime \in Nat

VARIABLES
    clock,      \* the wall clock; 0 is Go's zero time.Time
    dbGen,      \* the generation in the server's database
    admin,      \* what the holder of Daemon.mu is doing
    beat,       \* per agent: the heartbeat handler that holds its hook lock
    connected,  \* the agents with a stream in Hub.conns
    server,     \* genLag.server
    lags        \* genLag.agents

vars == <<clock, dbGen, admin, beat, connected, server, lags>>

Gens  == 0..MaxGen
Times == 0..MaxTime
Zero  == 0
NoLag == [known |-> FALSE, gen |-> 0, since |-> Zero]
Lags  == [known : BOOLEAN, gen : Gens, since : Times]
Idle  == [step |-> "idle"]

AdminStates == {Idle}
               \cup [step : {"saved"}, gen : Gens, now : Times]
               \cup [step : {"revoking"}, agent : Agents]

BeatStates == {Idle}
              \cup [step : {"read", "noted"}, gen : Gens, db : Gens, now : Times]

TypeOK ==
    /\ clock \in Times
    /\ dbGen \in Gens
    /\ admin \in AdminStates
    /\ beat \in [Agents -> BeatStates]
    /\ connected \in SUBSET Agents
    /\ server \in Gens
    /\ lags \in [Agents -> Lags]

Init ==
    /\ clock = 1 /\ MaxTime >= 1
    /\ dbGen = 0
    /\ admin = Idle
    /\ beat = [a \in Agents |-> Idle]
    /\ connected = {}
    /\ server = 0
    /\ lags = [a \in Agents |-> NoLag]

Tick ==
    /\ clock < MaxTime
    /\ clock' = clock + 1
    /\ UNCHANGED <<dbGen, admin, beat, connected, server, lags>>

(* genLag.serverAt: only a generation above the known one counts, and it   *)
(* starts the lag of every known agent that reported less.                 *)
Noted(lag, gen, now) ==
    [a \in Agents |->
        IF lag[a].known /\ lag[a].gen < gen /\ lag[a].since = Zero
        THEN [lag[a] EXCEPT !.since = now] ELSE lag[a]]

ServerAt(gen, now) ==
    IF gen <= server
    THEN UNCHANGED <<server, lags>>
    ELSE server' = gen /\ lags' = Noted(lags, gen, now)

(* Mutant: an agent that reports the current generation is still behind.   *)
ReportedOffByOne(a, gen, now) ==
    lags' = [lags EXCEPT ![a] =
        [known |-> TRUE,
         gen   |-> gen,
         since |-> CASE gen > server          -> Zero
                     [] gen <= server /\ @.since = Zero -> now
                     [] OTHER                 -> @.since]]

(* genLag.reported                                                         *)
Reported(a, gen, now) ==
    lags' = [lags EXCEPT ![a] =
        [known |-> TRUE,
         gen   |-> gen,
         since |-> CASE gen >= server          -> Zero
                     [] gen < server /\ @.since = Zero -> now
                     [] OTHER                  -> @.since]]

(* Batch, DisableAgent, EnableAgent: the store saves the next generation.  *)
SaveGeneration ==
    /\ admin = Idle /\ dbGen < MaxGen
    /\ dbGen' = dbGen + 1
    /\ admin' = [step |-> "saved", gen |-> dbGen + 1, now |-> clock]
    /\ UNCHANGED <<clock, beat, connected, server, lags>>

(* ... and the handler notes it.                                           *)
NoteGeneration ==
    /\ admin.step = "saved"
    /\ ServerAt(admin.gen, admin.now)
    /\ admin' = Idle
    /\ UNCHANGED <<clock, dbGen, beat, connected>>

(* serve installs a connection.                                            *)
Connect(a) ==
    /\ a \notin connected
    /\ ~(admin.step = "revoking" /\ admin.agent = a)
    /\ connected' = connected \cup {a}
    /\ UNCHANGED <<clock, dbGen, admin, beat, server, lags>>

(* A heartbeat of the current connection takes the hook lock, and          *)
(* observeAgentGeneration reads the clock and the saved generation.        *)
BeatRead(a, gen) ==
    /\ a \in connected /\ beat[a] = Idle
    /\ beat' = [beat EXCEPT ![a] =
                   [step |-> "read", gen |-> gen, db |-> dbGen, now |-> clock]]
    /\ UNCHANGED <<clock, dbGen, admin, connected, server, lags>>

(* The read may fail; the report is recorded all the same.                 *)
BeatReadFails(a, gen) ==
    /\ a \in connected /\ beat[a] = Idle
    /\ beat' = [beat EXCEPT ![a] =
                   [step |-> "noted", gen |-> gen, db |-> dbGen, now |-> clock]]
    /\ UNCHANGED <<clock, dbGen, admin, connected, server, lags>>

BeatNote(a) ==
    /\ beat[a].step = "read"
    /\ ServerAt(beat[a].db, beat[a].now)
    /\ beat' = [beat EXCEPT ![a].step = "noted"]
    /\ UNCHANGED <<clock, dbGen, admin, connected>>

BeatReport(a) ==
    /\ beat[a].step = "noted"
    /\ Reported(a, beat[a].gen, beat[a].now)
    /\ beat' = [beat EXCEPT ![a] = Idle]
    /\ UNCHANGED <<clock, dbGen, admin, connected, server>>

(* The stream ends by itself.                                              *)
Drop(a) ==
    /\ a \in connected /\ beat[a] = Idle
    /\ connected' = connected \ {a}
    /\ UNCHANGED <<clock, dbGen, admin, beat, server, lags>>

(* Revoke: Hub.Disconnect waits for the hook lock and removes the          *)
(* connection ...                                                          *)
RevokeDisconnect(a) ==
    /\ admin = Idle /\ beat[a] = Idle
    /\ connected' = connected \ {a}
    /\ admin' = [step |-> "revoking", agent |-> a]
    /\ UNCHANGED <<clock, dbGen, beat, server, lags>>

(* ... and genLag.forget drops the record.                                 *)
RevokeForget ==
    /\ admin.step = "revoking"
    /\ lags' = [lags EXCEPT ![admin.agent] = NoLag]
    /\ admin' = Idle
    /\ UNCHANGED <<clock, dbGen, beat, connected, server>>

Next ==
    \/ Tick
    \/ SaveGeneration
    \/ NoteGeneration
    \/ RevokeForget
    \/ \E a \in Agents :
          \/ Connect(a) \/ Drop(a) \/ BeatNote(a) \/ BeatReport(a)
          \/ RevokeDisconnect(a)
          \/ \E gen \in Gens : BeatRead(a, gen) \/ BeatReadFails(a, gen)

Spec == Init /\ [][Next]_vars

-----------------------------------------------------------------------------
(* Whenever no administrative change is between its save and its note, an  *)
(* agent that has reported is shown as behind exactly when the generation  *)
(* it last reported is below the saved one, whatever heartbeats are under  *)
(* way: generation_behind_since is neither missing nor spurious.           *)
BehindIsExact ==
    admin.step # "saved" =>
        \A a \in Agents : lags[a].known =>
            (lags[a].since # Zero <=> lags[a].gen < dbGen)

(* The inductive strengthening: the noted generation never passes the      *)
(* saved one and equals it unless a change awaits its note, every clock    *)
(* reading in flight is a real one, and a record carries a start exactly   *)
(* when it is below the noted generation.                                  *)
LagInv ==
    /\ TypeOK
    /\ clock # Zero
    /\ server <= dbGen
    /\ admin.step = "saved" => (admin.gen = dbGen /\ admin.now # Zero)
    /\ admin.step # "saved" => server = dbGen
    /\ \A a \in Agents : beat[a].step # "idle" =>
          (a \in connected /\ beat[a].db <= dbGen /\ beat[a].now # Zero)
    /\ \A a \in Agents :
          /\ lags[a].known => (lags[a].since # Zero <=> lags[a].gen < server)
          /\ ~lags[a].known => lags[a].since = Zero

(* The start of a lag does not move while the lag lasts, however often the *)
(* server's generation advances meanwhile (genlag.go's comment: moving it  *)
(* would keep the threshold out of reach while changes continue).          *)
LagStartStable ==
    [][\A a \in Agents :
          (lags[a].since # Zero /\ lags'[a].since # Zero)
             => lags'[a].since = lags[a].since]_vars

(* A record only appears for an agent whose stream is installed: a         *)
(* heartbeat in flight cannot bring back what a revocation forgot, because *)
(* Disconnect waits for the hook lock before forget runs.                  *)
NoRecordAfterRevoke ==
    [][\A a \in Agents :
          (~lags[a].known /\ lags'[a].known) => a \in connected]_vars
=============================================================================
