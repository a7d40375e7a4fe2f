----------------------------- MODULE ServerLife -----------------------------
(***************************************************************************)
(* The life of a server installation on one host: servers that start, run  *)
(* and die (vpsd.Run), and teardowns that remove what they left            *)
(* (vpsd/teardown.run), all serialised by the lock file of FileLock.  What *)
(* they share is the database beside the lock file, the WireGuard links,   *)
(* table inet wgft, and net.ipv4.ip_forward.                               *)
(*                                                                         *)
(* A process may stop at any step; the kernel then closes its lock file    *)
(* and everything else stays as it is.                                     *)
(***************************************************************************)
EXTENDS FileLock

CONSTANTS
    Servers,       \* processes that run wgft server
    Teardowns,     \* processes that run wgft server teardown
    Ifaces,        \* interface names
    DefaultIface,  \* "wgft0"
    WGKeys,        \* server keys
    None,
    MayBeBlind     \* the look for leftovers may fail

VARIABLES
    db,            \* the database's meta rows, or None
    link,          \* the key of the WireGuard link of a name, or None
    table,         \* table inet wgft exists
    ipForward,     \* net.ipv4.ip_forward is 1
    opt,           \* a process's options
    stage,         \* where it is in Run or run
    plan,          \* what a teardown read: readPlan
    plannedErr,    \* saving the planned record failed in this start
    owed,          \* history: wgft turned ip_forward on and nobody was told
    excused        \* history: a warning said so, or the telling was cut short

kernelVars == <<link, table, ipForward>>
historyVars == <<owed, excused>>
lifeVars == <<db, link, table, ipForward, opt, stage, plan, plannedErr, owed, excused>>

Modes == {"kernel", "userspace"}
Options == [mode : Modes \cup {None}, iface : Ifaces, adopt : BOOLEAN, purge : BOOLEAN]
Meta == [mode : Modes \cup {None}, iface : Ifaces \cup {None}, key : WGKeys \cup {None},
         planned : BOOLEAN, confirmed : BOOLEAN]
Plan == [mode : Modes \cup {None}, iface : Ifaces, key : WGKeys \cup {None}, tells : BOOLEAN]

ASSUME ServerLifeAssumption ==
    /\ Procs = Servers \cup Teardowns /\ Servers \cap Teardowns = {}
    /\ DefaultIface \in Ifaces
    /\ None \notin WGKeys \cup Ifaces \cup Options \cup Meta \cup Plan
    /\ MayBeBlind \in BOOLEAN

LifeTypeOK ==
    /\ LockTypeOK
    /\ db \in Meta \cup {None}
    /\ link \in [Ifaces -> WGKeys \cup {None}]
    /\ table \in BOOLEAN /\ ipForward \in BOOLEAN
    /\ opt \in [Procs -> Options \cup {None}]
    /\ stage \in [Procs -> {"none", "locked", "mode", "key", "wg", "hints", "ipRead", "ipWrite",
                            "ipConfirm", "apply", "up", "table", "link", "purge",
                            "unlink", "print"}]
    /\ plan \in [Procs -> Plan \cup {None}]
    /\ plannedErr \in [Procs -> BOOLEAN]
    /\ owed \in BOOLEAN /\ excused \in BOOLEAN

LifeInit ==
    /\ LockInit
    /\ db = None
    /\ link = [i \in Ifaces |-> None] /\ table = FALSE /\ ipForward = FALSE
    /\ opt = [p \in Procs |-> None] /\ stage = [p \in Procs |-> "none"]
    /\ plan = [p \in Procs |-> None] /\ plannedErr = [p \in Procs |-> FALSE]
    /\ owed = FALSE /\ excused = FALSE

At(p, where) == stage[p] = where

Goto(p, where) == stage' = [stage EXCEPT ![p] = where]

Forget(p) ==
    /\ Goto(p, "none")
    /\ opt' = [opt EXCEPT ![p] = None]
    /\ plan' = [plan EXCEPT ![p] = None]
    /\ plannedErr' = [plannedErr EXCEPT ![p] = FALSE]

-----------------------------------------------------------------------------
(* Taking the lock.  A server asks with Acquire, a teardown that changes   *)
(* something with AcquireCreating; a dry run only looks, with Inspect.     *)
Begin(p, o) ==
    /\ stage[p] = "none"
    /\ Acquire(p)
    /\ creating' = [creating EXCEPT ![p] = p \in Teardowns]
    /\ opt' = [opt EXCEPT ![p] = o]
    /\ UNCHANGED <<db, kernelVars, stage, plan, plannedErr, historyVars>>

StartServer(s) ==
    \E m \in Modes \cup {None}, i \in Ifaces, a \in BOOLEAN :
        Begin(s, [mode |-> m, iface |-> i, adopt |-> a, purge |-> FALSE])

StartTeardown(t) ==
    \E a, u \in BOOLEAN :
        Begin(t, [mode |-> None, iface |-> DefaultIface, adopt |-> a, purge |-> u])

TakingLock(p) ==
    /\ OpenLockFile(p) \/ Reopen(p) \/ TryLock(p) \/ Verify(p) \/ AcquireFails(p)
    /\ opt' = [opt EXCEPT ![p] = IF pc'[p] = "idle" THEN None ELSE @]
    /\ stage' = [stage EXCEPT ![p] = IF pc'[p] = "held" THEN "locked" ELSE @]
    /\ UNCHANGED <<db, kernelVars, plan, plannedErr, historyVars>>

DryRun(t) ==
    /\ InspectOpen(t) \/ InspectLock(t) \/ InspectClose(t)
    /\ UNCHANGED lifeVars

(* The process returns or dies.  A purge cut short after the database is   *)
(* gone takes the manual list it read with it.                             *)
Stop(p) ==
    /\ Release(p)
    /\ Forget(p)
    /\ excused' = (excused \/ stage[p] \in {"unlink", "print"})
    /\ UNCHANGED <<db, kernelVars, owed>>

Leave(p) ==
    /\ Release(p)
    /\ Forget(p)
    /\ UNCHANGED <<db, kernelVars, historyVars>>

Step(p, from, to) ==
    /\ At(p, from)
    /\ Goto(p, to)
    /\ UNCHANGED <<lockVars, opt, plan>>

-----------------------------------------------------------------------------
(* A server start, in the order of Run.                                    *)

OpenStore(s) ==
    /\ Step(s, "locked", "mode")
    /\ db' = IF db # None THEN db
             ELSE [mode |-> None, iface |-> None, key |-> None,
                   planned |-> FALSE, confirmed |-> FALSE]
    /\ UNCHANGED <<kernelVars, plannedErr, historyVars>>

(* wgResidue looks for a link of the name this start is configured with;   *)
(* the look itself may fail, and then the change goes through.             *)
ModeGateAllows(have, want, i) ==
    have = "kernel" /\ want = "userspace" => link[i] = None

WantedMode(s) ==
    IF opt[s].mode # None THEN opt[s].mode
    ELSE IF db.mode # None THEN db.mode
    ELSE IF db.key # None THEN "kernel" ELSE None

RecordMode(s) ==
    /\ Step(s, "mode", "key")
    /\ WantedMode(s) # None
    /\ \/ db.mode = None \/ ModeGateAllows(db.mode, WantedMode(s), opt[s].iface)
       \/ MayBeBlind                                  \* "cannot confirm leftovers"
    /\ db' = [db EXCEPT !.mode = WantedMode(s)]
    /\ UNCHANGED <<kernelVars, plannedErr, historyVars>>

(* WGFT_MODE missing on the first start, or the gate is shut.              *)
RefuseMode(s) ==
    /\ At(s, "mode")
    /\ WantedMode(s) = None \/ ~ModeGateAllows(db.mode, WantedMode(s), opt[s].iface)
    /\ Leave(s)

ServerKey(s) ==
    /\ Step(s, "key", "wg")
    /\ \/ db.key # None /\ UNCHANGED db
       \/ db.key = None /\ \E k \in WGKeys : /\ \A i \in Ifaces : link[i] # k
                                             /\ db' = [db EXCEPT !.key = k]
    /\ UNCHANGED <<kernelVars, plannedErr, historyVars>>

OwnLink(i, k) == link[i] \in {None, k}

(* EnsureDevice: a foreign link of the name is taken over only on request. *)
BringUpWG(s) ==
    /\ Step(s, "wg", "hints")
    /\ IF db.mode = "kernel"
       THEN /\ OwnLink(opt[s].iface, db.key) \/ opt[s].adopt
            /\ link' = [link EXCEPT ![opt[s].iface] = db.key]
       ELSE UNCHANGED link
    /\ UNCHANGED <<db, table, ipForward, plannedErr, historyVars>>

RefuseForeignLink(s) ==
    /\ At(s, "wg")
    /\ db.mode = "kernel" /\ ~OwnLink(opt[s].iface, db.key) /\ ~opt[s].adopt
    /\ Leave(s)

(* A hint that cannot be saved is logged and the start goes on.            *)
RecordHints(s) ==
    /\ Step(s, "hints", IF db.mode = "kernel" THEN "ipRead" ELSE "apply")
    /\ db' = db \/ db' = [db EXCEPT !.iface = opt[s].iface]
    /\ UNCHANGED <<kernelVars, plannedErr, historyVars>>

-----------------------------------------------------------------------------
(* enableIPForward.                                                        *)

IPForwardIsOn(s) ==
    /\ Step(s, "ipRead", "apply")
    /\ ipForward
    /\ UNCHANGED <<db, kernelVars, plannedErr, historyVars>>

(* Unreadable: written, perhaps, and recorded nowhere.                     *)
IPForwardUnreadable(s) ==
    /\ Step(s, "ipRead", "apply")
    /\ ipForward' \in {ipForward, TRUE}
    /\ UNCHANGED <<db, link, table, plannedErr, historyVars>>

(* The planned record written after the value. *)
PlanIPForwardLater(s) ==
    /\ Step(s, "ipRead", "ipWrite")
    /\ ~ipForward
    /\ UNCHANGED <<db, plannedErr, kernelVars, historyVars>>

PlanIPForward(s) ==
    /\ Step(s, "ipRead", "ipWrite")
    /\ ~ipForward
    /\ \/ /\ db' = [db EXCEPT !.planned = TRUE]
          /\ excused' = FALSE
          /\ UNCHANGED plannedErr
       \/ /\ plannedErr' = [plannedErr EXCEPT ![s] = TRUE]
          /\ excused' = TRUE                            \* the warning of step 3
          /\ UNCHANGED db
    /\ UNCHANGED <<kernelVars, owed>>

WriteIPForward(s) ==
    /\ Step(s, "ipWrite", "ipConfirm")
    /\ ipForward' = TRUE
    /\ owed' = TRUE
    /\ UNCHANGED <<db, link, table, plannedErr, excused>>

WriteIPForwardFails(s) ==
    /\ Step(s, "ipWrite", "apply")
    /\ \/ ~plannedErr[s] /\ db' = [db EXCEPT !.planned = FALSE]
       \/ UNCHANGED db
    /\ UNCHANGED <<kernelVars, plannedErr, historyVars>>

ConfirmIPForward(s) ==
    /\ Step(s, "ipConfirm", "apply")
    /\ db' = db \/ db' = [db EXCEPT !.planned = FALSE, !.confirmed = TRUE]
    /\ UNCHANGED <<kernelVars, plannedErr, historyVars>>

ApplyTable(s) ==
    /\ Step(s, "apply", "up")
    /\ table' \in {table, table \/ db.mode = "kernel"}
    /\ UNCHANGED <<db, link, ipForward, plannedErr, historyVars>>

-----------------------------------------------------------------------------
(* A teardown that changes something, in the order of run.                 *)

NoDatabase == [mode |-> None, iface |-> DefaultIface, key |-> None, tells |-> FALSE]

(* tells: the manual list will carry a line about ip_forward that says     *)
(* wgft changed it or may have.  The list of userspace mode has no such    *)
(* line.                                                                   *)
FromDatabase ==
    [mode |-> db.mode,
     iface |-> IF db.iface = None THEN DefaultIface ELSE db.iface,
     key |-> db.key,
     tells |-> db.mode # "userspace" /\ (db.planned \/ db.confirmed)]

(* A teardown that looks at the lock and does not keep it. *)
ReadPlanUnlocked(t) ==
    /\ At(t, "locked")
    /\ LET p == IF db = None THEN NoDatabase ELSE FromDatabase
       IN  /\ opt[t].adopt \/ p.mode = "userspace" \/ OwnLink(p.iface, p.key)
           /\ plan' = [plan EXCEPT ![t] = p]
           /\ Goto(t, IF p.mode = "userspace" THEN "purge" ELSE "table")
    /\ CloseTo(t, "idle")
    /\ UNCHANGED <<path, tries, creating, db, kernelVars, opt, plannedErr, historyVars>>

ReadPlan(t) ==
    /\ At(t, "locked")
    /\ LET p == IF db = None THEN NoDatabase ELSE FromDatabase
       IN  /\ opt[t].adopt \/ p.mode = "userspace" \/ OwnLink(p.iface, p.key)
           /\ plan' = [plan EXCEPT ![t] = p]
           /\ Goto(t, IF p.mode = "userspace" THEN "purge" ELSE "table")
    /\ UNCHANGED <<lockVars, db, kernelVars, opt, plannedErr, historyVars>>

DeleteTable(t) ==
    /\ Step(t, "table", "link")
    /\ table' = FALSE
    /\ UNCHANGED <<db, link, ipForward, plannedErr, historyVars>>

DeleteLink(t) ==
    /\ Step(t, "link", "purge")
    /\ link' = [link EXCEPT ![plan[t].iface] = None]
    /\ UNCHANGED <<db, table, ipForward, plannedErr, historyVars>>

(* purgeState up to the lock file; a file that cannot be removed stays.    *)
PurgeDatabase(t) ==
    /\ Step(t, "purge", IF opt[t].purge THEN "unlink" ELSE "print")
    /\ db' \in IF opt[t].purge THEN {db, None} ELSE {db}
    /\ UNCHANGED <<kernelVars, plannedErr, historyVars>>

PurgeLockFile(t) ==
    /\ At(t, "unlink")
    /\ RemoveLockFile(t) \/ (pc[t] = "held" /\ UNCHANGED lockVars)
    /\ Goto(t, "print")
    /\ UNCHANGED <<db, kernelVars, opt, plan, plannedErr, historyVars>>

(* The database removed after the lock file. *)
PrintManualThenPurge(t) ==
    /\ At(t, "print")
    /\ Release(t)
    /\ Forget(t)
    /\ db' = IF opt[t].purge THEN None ELSE db
    /\ UNCHANGED <<kernelVars, historyVars>>

(* printManual and the deferred Release.  A database purged in userspace   *)
(* mode takes its ip_forward records with it.                              *)
PrintManual(t) ==
    /\ At(t, "print")
    /\ Release(t)
    /\ Forget(t)
    /\ owed' = (owed /\ ~plan[t].tells)
    /\ excused' = (excused \/ (opt[t].purge /\ plan[t].mode = "userspace"))
    /\ UNCHANGED <<db, kernelVars>>

(* The operator, told or not, turns forwarding off again.                  *)
OperatorResets ==
    /\ ipForward
    /\ ipForward' = FALSE
    /\ owed' = FALSE
    /\ UNCHANGED <<lockVars, db, link, table, opt, stage, plan, plannedErr, excused>>

-----------------------------------------------------------------------------
ServerStep(s) ==
    \/ OpenStore(s) \/ RecordMode(s) \/ RefuseMode(s) \/ ServerKey(s)
    \/ BringUpWG(s) \/ RefuseForeignLink(s) \/ RecordHints(s)
    \/ IPForwardIsOn(s) \/ IPForwardUnreadable(s) \/ PlanIPForward(s)
    \/ WriteIPForward(s) \/ WriteIPForwardFails(s) \/ ConfirmIPForward(s) \/ ApplyTable(s)

TeardownStep(t) ==
    \/ ReadPlan(t) \/ DeleteTable(t) \/ DeleteLink(t)
    \/ PurgeDatabase(t) \/ PurgeLockFile(t) \/ PrintManual(t)

LifeNext ==
    \/ \E s \in Servers : StartServer(s) \/ ServerStep(s)
    \/ \E t \in Teardowns : StartTeardown(t) \/ DryRun(t) \/ TeardownStep(t)
    \/ \E p \in Procs : TakingLock(p) \/ Stop(p)
    \/ OperatorResets

LifeSpec == LifeInit /\ [][LifeNext]_<<lockVars, lifeVars>>

-----------------------------------------------------------------------------
(* What a teardown judged before it deletes anything is still so when it   *)
(* deletes it: the recorded mode and interface, and the key of the link it *)
(* found to be wgft's own.  A server cannot start between the judgement    *)
(* and the deletion (teardown.go: run holds the lock from before readPlan).*)
PlanIsCurrent ==
    \A t \in Teardowns :
        /\ At(t, "table") \/ At(t, "link") =>
              /\ plan[t] = IF db = None THEN NoDatabase ELSE FromDatabase
              /\ opt[t].adopt \/ OwnLink(plan[t].iface, plan[t].key)
        /\ At(t, "purge") \/ At(t, "unlink") => (db # None => plan[t] = FromDatabase)

(* A server that has started is never pulled from under: the database it   *)
(* opened is at the path, and in kernel mode its link has its key          *)
(* (vpsd.go: Run takes the lock before it opens the database; teardown.go: *)
(* purgeState removes the lock file last).                                 *)
ServerUndisturbed ==
    \A s \in Servers :
        /\ stage[s] \notin {"none", "locked"} => db # None
        /\ stage[s] \in {"hints", "ipRead", "ipWrite", "ipConfirm", "apply", "up"} =>
              (db.mode = "kernel" => link[opt[s].iface] = db.key)

(* Whoever holds the lock is alone with the machine's state: a teardown    *)
(* deletes what it judged, and no server loses what it started on          *)
(* (flock.go, teardown.go: run, vpsd.go: Run).                             *)
TeardownIsAlone == PlanIsCurrent /\ ServerUndisturbed

(* Having turned ip_forward on is never forgotten: the database says so, a *)
(* teardown is about to, or a warning did (startup.go: the record before   *)
(* the write and the one after it, across every crash between them).       *)
IPForwardRemembered ==
    owed /\ ~excused =>
        \/ db # None /\ (db.planned \/ db.confirmed)
        \/ \E t \in Teardowns : At(t, "unlink") \/ At(t, "print")

(* The inductive invariant behind them.  Whoever is at work holds the lock *)
(* it took; only a teardown that has removed the lock file goes on without *)
(* one, and then it has nothing left to do but to print.                   *)
ServerStages == {"none", "locked", "mode", "key", "wg", "hints", "ipRead", "ipWrite",
                 "ipConfirm", "apply", "up"}
TeardownStages == {"none", "locked", "table", "link", "purge", "unlink", "print"}

StageInv ==
    /\ \A s \in Servers : stage[s] \in ServerStages
    /\ \A t \in Teardowns :
          /\ stage[t] \in TeardownStages
          /\ stage[t] \notin {"none", "locked"} => plan[t] # None
    /\ \A p \in Procs :
          /\ stage[p] # "none" <=> pc[p] \in {"held", "purged"}
          /\ pc[p] = "purged" => stage[p] = "print"
          /\ pc[p] \notin {"idle", "probe", "shared"} => opt[p] # None

(* Only a start turns forwarding on, with the record or the warning before *)
(* it; who removes the record has read it, and will tell, or the database  *)
(* was one of userspace mode.                                              *)
WillTell(t) ==
    /\ At(t, "unlink") \/ At(t, "print")
    /\ plan[t].tells \/ (opt[t].purge /\ plan[t].mode = "userspace")

OwedInv ==
    /\ owed => ipForward
    /\ \A s \in Servers : At(s, "ipWrite") => ~ipForward /\ (excused \/ db.planned)
    /\ owed /\ ~excused =>
          \/ db # None /\ (db.planned \/ db.confirmed)
          \/ \E t \in Teardowns : WillTell(t)

LifeInv == LifeTypeOK /\ LockInv /\ StageInv /\ TeardownIsAlone /\ OwedInv

(* In userspace mode the kernel holds nothing of wgft's (mode.go, modeGate; *)
(* teardown.go says so when it skips the kernel).                          *)
UserspaceLeavesNothing ==
    db # None /\ db.mode = "userspace" => ~table /\ \A i \in Ifaces : link[i] = None \/ link[i] # db.key

=============================================================================
