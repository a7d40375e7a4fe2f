------------------------------- MODULE Agent -------------------------------
(***************************************************************************)
(* The agent's runtime (internal/agent): what one process does with the    *)
(* full states the server's stream delivers.                               *)
(*                                                                         *)
(* Three goroutines share the runtime under rt.mu, which is held for one   *)
(* application but released between the steps of each goroutine:           *)
(*   - the stream loop (streamLoop, streamOnce) dials, declares the public *)
(*     key, and applies the states it reads;                               *)
(*   - the 30-second loop (serve) rebuilds a tunnel that is missing or     *)
(*     dead and retries a state that could not be published;               *)
(*   - rotate-key (rotateKey) replaces the key, closes the tunnel, applies *)
(*     the saved state again and cuts the stream.                          *)
(* Around them: the credentials file that survives a crash, the dataplane, *)
(* and the server, which is here just the state it wants this agent to     *)
(* have and the push that carries it.                                      *)
(*                                                                         *)
(* Mode FALSE is the user-space dataplane: its tunnel and listeners live   *)
(* in the process, creating a tunnel may fail, publishing rules may not.   *)
(* Mode TRUE is the kernel dataplane: wgft0 and the nftables table outlive *)
(* the process, a wg configuration is checked before anything is touched,  *)
(* and publishing may fail.                                                *)
(***************************************************************************)
EXTENDS Naturals, Sequences

CONSTANTS
    Modes,       \* the modes: FALSE user space, TRUE kernel
    Bodies,      \* [wg, rules] contents a full state may carry
    BadWG,       \* wg configurations CheckWG and Build refuse
    MaxGen,      \* bound: generations 1 .. MaxGen
    MaxKey,      \* bound: keys 1 .. MaxKey, generated in order
    MaxFails,    \* bound: failures, lost connections and crashes
    MaxChan,     \* bound: states in flight on a connection
    Restore,     \* the modes in which the server may come back with an
                 \* earlier generation
    None, NoRules

Gens == 1 .. MaxGen
KeyNumbers == 1 .. MaxKey
States == {[gen |-> g, wg |-> b.wg, rules |-> b.rules] : g \in Gens, b \in Bodies}
WGs == {b.wg : b \in Bodies}
RuleSets == {b.rules : b \in Bodies}
Tunnels == [key : KeyNumbers, wg : WGs]
Files == [key : KeyNumbers \cup {None}, prev : KeyNumbers \cup {None}, last : States \cup {None}]

ASSUME AgentAssumption ==
    /\ Modes \subseteq BOOLEAN /\ Restore \subseteq BOOLEAN
    /\ MaxGen \in Nat \ {0} /\ MaxKey \in Nat \ {0}
    /\ MaxFails \in Nat /\ MaxChan \in Nat \ {0}
    /\ None \notin KeyNumbers /\ None \notin States /\ None \notin Tunnels /\ None \notin Gens
    /\ NoRules \notin RuleSets

(***************************************************************************)
(* What one application can meet.  build: the tunnel was created.  rules:  *)
(* "ok", or what ApplyRules failed at: "link" converging wgft0, "publish"  *)
(* replacing the table after wgft0 was converged, "fatal" an error that    *)
(* ends the process when wgft0 was never converged (agentdp.FatalError).   *)
(* save: the credentials file was written.                                 *)
(***************************************************************************)
AllWell == [build |-> TRUE, rules |-> "ok", save |-> TRUE]
Outcomes == {AllWell, [AllWell EXCEPT !.build = FALSE], [AllWell EXCEPT !.save = FALSE]}
            \cup {[AllWell EXCEPT !.rules = r] : r \in {"link", "publish", "fatal"}}
Cost(o) == IF o = AllWell THEN 0 ELSE 1

VARIABLES
    rt,      \* the runtime under rt.mu, with the dataplane and the file
    up,      \* the process runs
    reader,  \* the stream loop
    tick,    \* the 30-second loop
    rot,     \* rotate-key
    conn,    \* the key declared on the live connection, or None
    cut,     \* the connection's context was cancelled
    chan,    \* full states in flight to the agent
    srv,     \* the full state the server has for this agent
    dirty,   \* the server owes the connection a push
    fails,   \* failures so far
    issued   \* keys generated so far; a generated key is a new one

vars == <<rt, up, reader, tick, rot, conn, cut, chan, srv, dirty, fails, issued>>

-----------------------------------------------------------------------------
(***************************************************************************)
(* The runtime record.  kernel is the mode; key, prev, last are the        *)
(* credentials in memory; gen, pending, refused, retry, due the runtime's  *)
(* own; held says that retryPending's pointer still is rt.pendingSt; built *)
(* is what Build was given; link and table are the dataplane in force;     *)
(* converged says wgft0 was converged by this process; file is the         *)
(* credentials file.                                                       *)
(***************************************************************************)
Fresh(kernel, file, link, table) ==
    [kernel |-> kernel, key |-> file.key, prev |-> file.prev, last |-> file.last,
     gen |-> 0, pending |-> None, held |-> FALSE, refused |-> None,
     retry |-> None, due |-> FALSE, built |-> None, link |-> link, table |-> table,
     converged |-> FALSE, fatal |-> FALSE, file |-> file]

(* Credentials.Save: the whole file is replaced by a rename, or not at all. *)
Save(a, ok) ==
    IF ok THEN [a EXCEPT !.file = [key |-> a.key, prev |-> a.prev, last |-> a.last]] ELSE a

(* closeLocked and dp.Close: the user-space dataplane loses its tunnel and
   its listeners, the kernel one forgets only what it was given. *)
Close(a) ==
    [a EXCEPT !.retry = None, !.due = FALSE, !.built = None,
              !.link = IF a.kernel THEN @ ELSE None,
              !.table = IF a.kernel THEN @ ELSE NoRules]

(* startTunnelLocked after Close, when Build succeeds. *)
Started(a, st) ==
    LET tunnel == [key |-> a.key, wg |-> st.wg]
    IN  [Close(a) EXCEPT !.built = tunnel, !.link = IF a.kernel THEN @ ELSE tunnel]

(* wgft0 exists and holds neither the current nor the previous key. *)
NotOurs(a) == a.kernel /\ a.link # None /\ a.link.key \notin {a.key, a.prev}

(* What ApplyRules comes to.  The user-space dataplane has no failure of the
   whole; an interface that is not ours is never written to; the errors that
   end the process do so only before the first convergence. *)
RulesResult(a, o) ==
    LET seen == IF NotOurs(a) THEN "fatal" ELSE o.rules
    IN  IF ~a.kernel THEN "ok"
        ELSE IF seen = "fatal" /\ a.converged THEN "link" ELSE seen

(* ApplyRules on the dataplane itself. *)
RulesApplied(a, st, r) ==
    CASE r = "ok"      -> [a EXCEPT !.link = a.built, !.converged = TRUE, !.table = st.rules]
      [] r = "publish" -> [a EXCEPT !.link = a.built, !.converged = TRUE]
      [] r = "link"    -> a
      [] r = "fatal"   -> [a EXCEPT !.fatal = TRUE]

(* finishApplyLocked, ApplyRules failed: keep the newest state to retry. *)
KeepPending(a, st) ==
    IF a.pending = None \/ st.gen >= a.pending.gen
    THEN [a EXCEPT !.pending = st, !.held = FALSE] ELSE a

(* finishApplyLocked, ApplyRules succeeded: the state is processed and saved,
   and one that is not newer is no longer pending. *)
Processed(a, st, ok) ==
    LET clears == a.pending # None /\ a.pending.gen <= st.gen
    IN  [a EXCEPT !.gen = st.gen, !.last = st,
                  !.pending = IF clears THEN None ELSE @,
                  !.held = @ /\ ~clears,
                  !.file = IF ok THEN [key |-> a.key, prev |-> a.prev, last |-> st] ELSE @]

FinishApply(a, st, o) ==
    LET r == RulesResult(a, o)
        b == RulesApplied(a, st, r)
    IN  CASE r = "ok"    -> Processed(b, st, o.save)
          [] r = "fatal" -> b
          [] OTHER       -> KeepPending(b, st)

(* Mutant: the rules are not opened again after the watchdog's rebuild. *)
BuildNoRules(a, st, applied, o) ==
    IF st.wg \in BadWG THEN [Close(a) EXCEPT !.retry = st]
    ELSE IF ~a.kernel /\ ~o.build THEN [Close(a) EXCEPT !.retry = st, !.due = TRUE]
    ELSE IF applied THEN Started(a, st)
    ELSE FinishApply(Started(a, st), st, o)

(* buildLocked: the state of a failed build is kept, and scheduled again
   unless its wg configuration is wrong. *)
Build(a, st, applied, o) ==
    IF st.wg \in BadWG THEN [Close(a) EXCEPT !.retry = st]
    ELSE IF ~a.kernel /\ ~o.build THEN [Close(a) EXCEPT !.retry = st, !.due = TRUE]
    ELSE IF applied THEN RulesApplied(Started(a, st), st, RulesResult(Started(a, st), o))
    ELSE FinishApply(Started(a, st), st, o)

(* checkWGLocked: a state the kernel dataplane refuses touches nothing; one
   it accepts clears the refusal of a state that is not newer. *)
Refuses(a, st) == a.kernel /\ a.built # None /\ st.wg \in BadWG
NoteRefused(a, st) ==
    IF a.refused = None \/ st.gen >= a.refused THEN [a EXCEPT !.refused = st.gen] ELSE a
NoteAccepted(a, st) ==
    IF a.kernel /\ a.built # None /\ a.refused # None /\ st.gen >= a.refused
    THEN [a EXCEPT !.refused = None] ELSE a

(* applyLocked *)
Apply(a, st, o) ==
    IF Refuses(a, st) THEN NoteRefused(a, st)
    ELSE LET b == NoteAccepted(a, st)
         IN  IF b.built = None \/ b.built.wg # st.wg THEN Build(b, st, FALSE, o)
             ELSE FinishApply(b, st, o)

(* rotate-key and retryBuildLocked only log an error that would end the
   process elsewhere. *)
Survived(a, b) == [b EXCEPT !.fatal = a.fatal]

(* alreadyApplied *)
AlreadyApplied(a, st) ==
    /\ a.built # None /\ a.pending = None /\ a.refused = None
    /\ a.last = st /\ a.gen = st.gen

(* Mutants: the tunnel stays up with the old key; the old key is not kept. *)
RotatedKeepsTunnel(a, key) ==
    Save([a EXCEPT !.prev = IF a.kernel THEN a.key ELSE @, !.key = key], TRUE)
RotatedForgetsKey(a, key) == Close(Save([a EXCEPT !.key = key], TRUE))

(* rotateKey up to the unlock: the new key is saved with the one it replaces
   (KeepPreviousKey) and the tunnel is closed. *)
Rotated(a, key) ==
    Close(Save([a EXCEPT !.prev = IF a.kernel THEN a.key ELSE @, !.key = key], TRUE))

-----------------------------------------------------------------------------
NoReader == [pc |-> "idle", first |-> TRUE, st |-> None, got |-> None]
NoRotation == [pc |-> "idle", last |-> None]

Init ==
    /\ \E kernel \in Modes :
          rt = Fresh(kernel, [key |-> 1, prev |-> None, last |-> None], None, NoRules)
    /\ up = FALSE
    /\ reader = NoReader /\ tick = "check" /\ rot = NoRotation
    /\ conn = None /\ cut = FALSE /\ chan = <<>>
    /\ srv \in {s \in States : s.gen = 1 /\ s.wg \notin BadWG}
    /\ dirty = FALSE /\ fails = 0 /\ issued = 1

Spend(n) == fails + n <= MaxFails /\ fails' = fails + n

-----------------------------------------------------------------------------
(***************************************************************************)
(* The process.                                                            *)
(***************************************************************************)

(* Run: EnsureKey, the kernel dataplane's ownership check, and the saved
   state applied before the stream loop starts.  An error that ends the
   process ends it here. *)
Start(o) ==
    LET ensured == IF rt.file.key = None THEN issued + 1 ELSE rt.file.key
        loaded == Fresh(rt.kernel, [rt.file EXCEPT !.key = ensured], rt.link, rt.table)
        applied == IF loaded.last = None THEN loaded ELSE Apply(loaded, loaded.last, o)
    IN  /\ ~up
        /\ ensured \in KeyNumbers
        /\ issued' = IF rt.file.key = None THEN ensured ELSE issued
        /\ ~NotOurs(loaded)
        /\ loaded.last = None => o = AllWell
        /\ Spend(Cost(o))
        /\ rt' = IF applied.fatal THEN Fresh(rt.kernel, applied.file, applied.link, applied.table)
                                  ELSE applied
        /\ up' = ~applied.fatal
        /\ UNCHANGED <<reader, tick, rot, conn, cut, chan, srv, dirty>>

(* The end of the process, by a crash or by an error Run returns.  The
   user-space dataplane goes with it. *)
Ended ==
    /\ rt' = Fresh(rt.kernel, rt.file, IF rt.kernel THEN rt.link ELSE None,
                            IF rt.kernel THEN rt.table ELSE NoRules)
    /\ up' = FALSE
    /\ reader' = NoReader /\ tick' = "check" /\ rot' = NoRotation
    /\ conn' = None /\ cut' = FALSE /\ chan' = <<>> /\ dirty' = FALSE
    /\ UNCHANGED <<srv, issued>>

Crash == up /\ Spend(1) /\ Ended

(* serve returns on rt.fatal. *)
Exit == up /\ rt.fatal /\ Ended /\ UNCHANGED fails

(* rotate-key while the agent is stopped clears the key and the saved state;
   an empty key never replaces the previous one. *)
StoppedRotate ==
    LET file == [key |-> None,
                 prev |-> IF rt.kernel /\ rt.file.key # None THEN rt.file.key ELSE rt.file.prev,
                 last |-> None]
    IN  /\ ~up /\ issued < MaxKey
        /\ rt' = Fresh(rt.kernel, file, rt.link, rt.table)
        /\ UNCHANGED <<up, reader, tick, rot, conn, cut, chan, srv, dirty, fails, issued>>

-----------------------------------------------------------------------------
(***************************************************************************)
(* The stream loop.                                                        *)
(***************************************************************************)

(* streamLoop: a new context for the next connection. *)
Arm ==
    /\ up /\ reader.pc = "idle"
    /\ reader' = [NoReader EXCEPT !.pc = "dial"]
    /\ cut' = FALSE
    /\ UNCHANGED <<rt, up, tick, rot, conn, chan, srv, dirty, fails, issued>>

(* streamOnce dials and declares the key it reads outside rt.mu.  The server
   answers every new connection with the current full state. *)
Dial ==
    /\ up /\ reader.pc = "dial" /\ ~cut
    /\ reader' = [reader EXCEPT !.pc = "read"]
    /\ conn' = rt.key /\ dirty' = TRUE
    /\ UNCHANGED <<rt, up, tick, rot, cut, chan, srv, fails, issued>>

(* The dial or the read fails; streamOnce returns and its socket closes. *)
Hangup ==
    /\ up
    /\ \/ reader.pc = "dial" /\ cut
       \/ reader.pc = "read" /\ (cut \/ conn = None)
    /\ reader' = NoReader
    /\ conn' = None /\ chan' = <<>> /\ dirty' = FALSE
    /\ UNCHANGED <<rt, up, tick, rot, cut, srv, fails, issued>>

(* streamOnce's loop: the generation is compared only after the first state
   of a connection. *)
Read ==
    LET st == Head(chan)
        next == IF reader.first THEN "apply" ELSE IF st.gen < rt.gen THEN "read" ELSE "same"
    IN  /\ up /\ reader.pc = "read" /\ conn # None /\ chan # <<>>
        /\ chan' = Tail(chan)
        /\ reader' = [reader EXCEPT !.pc = next, !.st = IF next = "read" THEN None ELSE st]
        /\ UNCHANGED <<rt, up, tick, rot, conn, cut, srv, dirty, fails, issued>>

(* The second look at the runtime, under a lock of its own. *)
Same ==
    LET skip == AlreadyApplied(rt, reader.st)
    IN  /\ up /\ reader.pc = "same"
        /\ reader' = IF skip THEN [reader EXCEPT !.pc = "read", !.st = None]
                             ELSE [reader EXCEPT !.pc = "apply"]
        /\ UNCHANGED <<rt, up, tick, rot, conn, cut, chan, srv, dirty, fails, issued>>

(* applyFromStream *)
StreamApply(o) ==
    /\ up /\ reader.pc = "apply"
    /\ Spend(Cost(o))
    /\ reader' = [pc |-> "read", first |-> FALSE, st |-> None, got |-> reader.st]
    /\ UNCHANGED <<up, tick, rot, conn, cut, chan, srv, dirty, issued>>
    /\ rt' = Apply(rt, reader.st, o)

-----------------------------------------------------------------------------
(***************************************************************************)
(* The 30-second loop.                                                     *)
(***************************************************************************)

(* checkTunnel with nothing to do, or before the retry or the rebuild is due. *)
CheckQuiet ==
    /\ up /\ tick = "check"
    /\ tick' = "pending"
    /\ UNCHANGED <<rt, up, reader, rot, conn, cut, chan, srv, dirty, fails, issued>>

(* retryBuildLocked, its time come. *)
CheckRetry(o) ==
    /\ up /\ tick = "check"
    /\ rt.built = None /\ rt.retry # None /\ rt.due
    /\ Spend(Cost(o))
    /\ tick' = "pending"
    /\ UNCHANGED <<up, reader, rot, conn, cut, chan, srv, dirty, issued>>
    /\ rt' = Survived(rt, Build(rt, rt.retry, FALSE, o))

(* checkTunnel, no new handshake for too long: the tunnel is built again from
   the saved state.  The kernel mode has no threshold. *)
CheckRebuild(o) ==
    /\ up /\ tick = "check"
    /\ ~rt.kernel /\ rt.built # None /\ rt.last # None
    /\ Spend(1)
    /\ tick' = "pending"
    /\ UNCHANGED <<up, reader, rot, conn, cut, chan, srv, dirty, issued>>
    /\ rt' = Build(rt, rt.last, TRUE, o)

(* retryPending up to the unlock before the names are resolved. *)
PendingRead ==
    LET ok == rt.pending # None /\ rt.built # None
    IN  /\ up /\ tick = "pending"
        /\ rt' = [rt EXCEPT !.held = ok]
        /\ tick' = IF ok THEN "retry" ELSE "check"
        /\ UNCHANGED <<up, reader, rot, conn, cut, chan, srv, dirty, fails, issued>>

(* retryPending after the lock: another pending state, or no tunnel, and the
   preparation is thrown away. *)
PendingApply(o) ==
    LET go == rt.held /\ rt.built # None
    IN  /\ up /\ tick = "retry"
        /\ ~go => o = AllWell
        /\ Spend(Cost(o))
        /\ tick' = "check"
        /\ UNCHANGED <<up, reader, rot, conn, cut, chan, srv, dirty, issued>>
        /\ rt' = [(IF go THEN Apply(rt, rt.pending, o) ELSE rt) EXCEPT !.held = FALSE]

-----------------------------------------------------------------------------
(***************************************************************************)
(* rotate-key.                                                             *)
(***************************************************************************)

(* rotateKey up to the unlock.  A key that could not be saved is forgotten:
   both keys in memory are put back. *)
RotateSave(ok) ==
    /\ up /\ rot.pc = "idle" /\ issued < MaxKey
    /\ Spend(IF ok THEN 0 ELSE 1)
    /\ rot' = IF ok THEN [pc |-> "apply", last |-> rt.last] ELSE rot
    /\ rt' = IF ok THEN Rotated(rt, issued + 1) ELSE rt
    /\ issued' = IF ok THEN issued + 1 ELSE issued
    /\ UNCHANGED <<up, reader, tick, conn, cut, chan, srv, dirty>>

(* Mutant: the tunnel that was closed is left to the stream to build. *)
RotateApplyLeft(o) ==
    /\ up /\ rot.pc = "apply" /\ o = AllWell
    /\ rot' = [pc |-> "reconnect", last |-> None]
    /\ UNCHANGED <<rt, up, reader, tick, conn, cut, chan, srv, dirty, fails, issued>>

(* The state saved before the unlock is applied again under a new lock. *)
RotateApply(o) ==
    /\ up /\ rot.pc = "apply"
    /\ rot.last = None => o = AllWell
    /\ Spend(Cost(o))
    /\ rt' = IF rot.last = None THEN rt ELSE Survived(rt, Apply(rt, rot.last, o))
    /\ rot' = [pc |-> "reconnect", last |-> None]
    /\ UNCHANGED <<up, reader, tick, conn, cut, chan, srv, dirty, issued>>

(* Mutant: the stream is not cut. *)
RotateNoReconnect ==
    /\ up /\ rot.pc = "reconnect"
    /\ rot' = NoRotation
    /\ UNCHANGED <<rt, up, reader, tick, conn, cut, chan, srv, dirty, fails, issued>>

(* reconnect cancels the context of the stream loop's connection. *)
RotateReconnect ==
    /\ up /\ rot.pc = "reconnect"
    /\ rot' = NoRotation
    /\ cut' = TRUE
    /\ UNCHANGED <<rt, up, reader, tick, conn, chan, srv, dirty, fails, issued>>

-----------------------------------------------------------------------------
(***************************************************************************)
(* The server and the network.                                             *)
(***************************************************************************)

(* The server has another full state for the agent: a later generation, or
   the same one with other contents. *)
Publish(s) ==
    /\ s # srv /\ s.gen >= srv.gen
    /\ srv' = s
    /\ dirty' = (conn # None)
    /\ UNCHANGED <<rt, up, reader, tick, rot, conn, cut, chan, fails, issued>>

(* The server comes back from a backup, with an earlier generation. *)
Restored(s) ==
    /\ rt.kernel \in Restore /\ Spend(1)
    /\ s.gen < srv.gen
    /\ srv' = s
    /\ conn' = None /\ chan' = <<>> /\ dirty' = FALSE
    /\ UNCHANGED <<rt, up, reader, tick, rot, cut, issued>>

(* The push worker sends the state it selects when it sends. *)
Send ==
    /\ conn # None /\ dirty /\ Len(chan) < MaxChan
    /\ chan' = Append(chan, srv)
    /\ dirty' = FALSE
    /\ UNCHANGED <<rt, up, reader, tick, rot, conn, cut, srv, fails, issued>>

(* The connection is lost with everything in flight. *)
Lose ==
    /\ conn # None /\ Spend(1)
    /\ conn' = None /\ chan' = <<>> /\ dirty' = FALSE
    /\ UNCHANGED <<rt, up, reader, tick, rot, cut, srv, issued>>

-----------------------------------------------------------------------------
StreamLoop == Arm \/ Dial \/ Hangup \/ Read \/ Same \/ \E o \in Outcomes : StreamApply(o)

TickLoop ==
    \/ CheckQuiet \/ PendingRead
    \/ \E o \in Outcomes : CheckRetry(o) \/ CheckRebuild(o) \/ PendingApply(o)

RotateKey ==
    \/ RotateReconnect
    \/ \E o \in Outcomes : RotateApply(o)

Process == Exit \/ \E o \in Outcomes : Start(o)

Next ==
    \/ StreamLoop \/ TickLoop \/ RotateKey \/ Process
    \/ \E ok \in BOOLEAN : RotateSave(ok)
    \/ Crash \/ StoppedRotate
    \/ \E s \in States : Publish(s) \/ Restored(s)
    \/ Send \/ Lose

Spec == Init /\ [][Next]_vars

(***************************************************************************)
(* Fairness: a goroutine that can step does, the process manager starts a  *)
(* process that ended, the network delivers a push, a retry that is due is *)
(* tried at some later tick.  Nothing is assumed of failures, crashes, lost *)
(* connections, changes at the server, or rotate-key being asked for; only *)
(* their number is bounded.                                                *)
(***************************************************************************)
Fairness ==
    /\ WF_vars(StreamLoop) /\ WF_vars(TickLoop) /\ WF_vars(RotateKey)
    /\ WF_vars(Process) /\ WF_vars(Send)
    /\ SF_vars(\E o \in Outcomes : CheckRetry(o))

FairSpec == Spec /\ Fairness

-----------------------------------------------------------------------------
(***************************************************************************)
(* Properties.                                                             *)
(***************************************************************************)

(* What the runtime record may hold. *)
RuntimeFields ==
    {"kernel", "key", "prev", "last", "gen", "pending", "held", "refused", "retry", "due",
     "built", "link", "table", "converged", "fatal", "file"}
RuntimeType(a) ==
    /\ DOMAIN a = RuntimeFields
    /\ a.kernel \in Modes
    /\ a.key \in KeyNumbers \cup {None} /\ a.prev \in KeyNumbers \cup {None}
    /\ a.last \in States \cup {None} /\ a.gen \in Gens \cup {0}
    /\ a.pending \in States \cup {None} /\ a.held \in BOOLEAN
    /\ a.refused \in Gens \cup {None}
    /\ a.retry \in States \cup {None} /\ a.due \in BOOLEAN
    /\ a.built \in Tunnels \cup {None} /\ a.link \in Tunnels \cup {None}
    /\ a.table \in RuleSets \cup {NoRules}
    /\ a.converged \in BOOLEAN /\ a.fatal \in BOOLEAN /\ a.file \in Files

(* The runtime, the credentials and the goroutines hold what their types
   allow: generations, keys and states that were issued, never a mix. *)
TypeOK ==
    /\ RuntimeType(rt)
    /\ up \in BOOLEAN
    /\ reader \in [pc : {"idle", "dial", "read", "same", "apply"}, first : BOOLEAN,
                   st : States \cup {None}, got : States \cup {None}]
    /\ tick \in {"check", "pending", "retry"}
    /\ rot \in [pc : {"idle", "apply", "reconnect"}, last : States \cup {None}]
    /\ conn \in KeyNumbers \cup {None} /\ cut \in BOOLEAN
    /\ chan \in Seq(States) /\ Len(chan) <= MaxChan
    /\ srv \in States /\ dirty \in BOOLEAN /\ fails \in 0 .. MaxFails /\ issued \in KeyNumbers

(* What the agent reports as processed is what the dataplane forwards: while
   a tunnel is built and no state waits to be retried, the tunnel and the
   table in force are those of the saved state (gen, last_state). *)
ProcessedInForce ==
    up /\ rt.built # None /\ rt.pending = None /\ ~rt.fatal =>
        /\ rt.last # None /\ rt.gen = rt.last.gen
        /\ rt.link = [key |-> rt.key, wg |-> rt.last.wg]
        /\ rt.table = rt.last.rules

(* Once the agent has had a full state it is never left without a tunnel and
   without a reason: a rotation is about to build one, a build is scheduled,
   or the last build failed on a wg configuration that no retry can mend. *)
NoTunnelHasReason ==
    up /\ rt.last # None /\ rt.built = None =>
        \/ rot.pc = "apply"
        \/ rt.retry # None /\ (rt.due \/ rt.retry.wg \in BadWG)

(* Every tunnel runs with the current key, and a connection that declared an
   older key is being cut: rotate-key closes the tunnel before it lets rt.mu
   go, and reconnects after the key is in place. *)
CurrentKeyOnly ==
    up => /\ rt.built # None => rt.built.key = rt.key
          /\ conn # None /\ conn # rt.key => cut \/ rot.pc \in {"apply", "reconnect"}

(* What the agent says of its tunnel is so: the state it reports as processed
   is in force, its key is the current one, and where there is no tunnel
   there is a reason (buildLocked, finishApplyLocked, rotate-key). *)
TunnelTruthful == ProcessedInForce /\ NoTunnelHasReason /\ CurrentKeyOnly

(* The newest state the connection handed to the runtime is in force or
   waits: it is the saved state, or the pending one, or the one a build is
   retried from, unless the kernel dataplane refused its wg configuration.  A
   rotation may put an older one in its place only until it cuts the stream. *)
NewestKept ==
    up /\ conn # None /\ ~cut /\ rot.pc = "idle" /\ reader.got # None /\ ~rt.fatal =>
        \/ reader.got \in {rt.last, rt.pending, rt.retry}
        \/ rt.kernel /\ reader.got.wg \in BadWG

(* After a crash at any point the agent still recognises its interface: wgft0
   holds the key of the credentials file or the one before it
   (KeepPreviousKey, saved in the same write as the new key).  The file keeps
   one previous key, so this ends with a second replacement made before wgft0
   was ever given the first: then the previous key is newer than wgft0's. *)
InterfaceStaysOurs ==
    rt.link # None =>
        \/ rt.link.key \in {rt.file.key, rt.file.prev}
        \/ rt.file.prev # None /\ rt.file.prev > rt.link.key

(***************************************************************************)
(* The inductive invariant behind the properties above.                    *)
(***************************************************************************)

(* The key pair in memory is the one in the file; a key that replaced another
   is newer than it, and none is newer than the last one generated. *)
KeysInv(a, last) ==
    /\ a.file.key = a.key /\ a.file.prev = a.prev
    /\ a.key # None => a.key <= last
    /\ a.prev # None => a.prev <= last /\ (a.key # None => a.prev < a.key)
    /\ a.link # None => /\ a.link.key <= last
                        /\ \/ a.link.key \in {a.key, a.prev}
                           \/ a.prev # None /\ a.prev > a.link.key
    /\ ~a.kernel => a.prev = None

(* No state whose wg configuration is refused becomes the saved or the pending
   one, in memory or in the file. *)
Buildable(st) == st # None => st.wg \notin BadWG
GoodStates(a) == Buildable(a.last) /\ Buildable(a.file.last) /\ Buildable(a.pending)

(* The user-space dataplane is the tunnel it was given and never leaves a
   state pending; only its builds are scheduled again.  What retryPending
   holds on to is the pending state. *)
ModeInv(a) ==
    /\ ~a.kernel => a.link = a.built /\ a.pending = None /\ ~a.fatal
    /\ a.kernel => ~a.due
    /\ a.held => a.pending # None

(* ProcessedInForce, and why an application that ends the process elsewhere
   may be survived: before wgft0 was converged a state is pending already. *)
ForceInv(a) ==
    /\ a.built # None => a.built.key = a.key /\ a.built.wg \notin BadWG
    /\ a.kernel /\ ~a.converged /\ ~a.fatal /\ (a.last # None \/ a.built # None) => a.pending # None
    /\ a.built # None /\ a.pending = None /\ ~a.fatal =>
          /\ a.last # None /\ a.gen = a.last.gen
          /\ a.link = [key |-> a.key, wg |-> a.last.wg] /\ a.table = a.last.rules

RuntimeInv(a, last) == KeysInv(a, last) /\ GoodStates(a) /\ ModeInv(a)

(* A process that does not run has no connection and no goroutine, and of its
   runtime only what the file and the kernel keep. *)
DownInv ==
    /\ up => rt.key # None
    /\ ~up => /\ rt = Fresh(rt.kernel, rt.file, rt.link, rt.table)
              /\ reader = NoReader /\ tick = "check" /\ rot = NoRotation
              /\ conn = None /\ chan = <<>>
    /\ reader.pc = "idle" => reader = NoReader
    /\ reader.pc \in {"idle", "dial"} => conn = None
    /\ reader.pc \in {"same", "apply"} => reader.st # None

(* Without a tunnel there is a reason, and a rotation that is the reason has a
   state to build from, which is a saved one. *)
ReasonInv ==
    /\ up /\ rt.last # None /\ rt.built = None =>
          \/ rot.pc = "apply" /\ rot.last # None
          \/ rt.retry # None /\ (rt.due \/ rt.retry.wg \in BadWG)
    /\ rot.last # None => rot.pc = "apply" /\ rt.last # None /\ Buildable(rot.last)
    /\ conn # None /\ conn # rt.key => cut \/ rot.pc \in {"apply", "reconnect"}

AgentInv == TypeOK /\ RuntimeInv(rt, issued) /\ (up => ForceInv(rt)) /\ DownInv /\ ReasonInv

(* Where the server does not go back, nothing the agent has kept is newer than
   what is still on its way to it. *)
Kept == {rt.last, rt.file.last, rt.pending, rt.retry, rot.last} \ {None}
OrderInv ==
    rt.kernel \notin Restore =>
        /\ \A x \in Kept \cup ({reader.st} \ {None}) :
              /\ x.gen <= srv.gen
              /\ \A i \in DOMAIN chan : x.gen <= chan[i].gen
        /\ \A x \in Kept : reader.st # None => x.gen <= reader.st.gen
        /\ \A i \in DOMAIN chan : /\ chan[i].gen <= srv.gen
                                 /\ \A j \in 1 .. i : chan[j].gen <= chan[i].gen

(* NewestKept, with where the newest state is; a new connection has handed
   over none. *)
Newest(a, got) ==
    IF a.kernel
    THEN got.wg \in BadWG \/ got = a.pending \/ (got = a.last /\ a.pending = None)
    ELSE got = IF a.built = None THEN a.retry ELSE a.last
NewestInv ==
    /\ up /\ conn # None /\ ~cut /\ rot.pc = "idle" /\ reader.got # None /\ ~rt.fatal =>
          Newest(rt, reader.got)
    /\ reader.pc = "dial" => reader.got = None

(* When the server's state for the agent stops changing, the agent ends up
   with it in force for good, whatever failed, crashed, was retried or rotated
   on the way, unless its wg configuration is one the agent refuses. *)
Settled ==
    /\ up /\ conn = rt.key /\ rt.last = srv
    /\ rt.link = [key |-> rt.key, wg |-> srv.wg] /\ rt.table = srv.rules
Converges ==
    []<>(srv.wg \in BadWG) \/ []<><<srv' # srv>>_vars \/ <>[]Settled
=============================================================================
