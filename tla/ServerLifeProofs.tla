-------------------------- MODULE ServerLifeProofs --------------------------
(***************************************************************************)
(* The lock file of FileLock implements Mutex; servers and teardowns that  *)
(* take it are alone with what they share, and forwarding that wgft turned *)
(* on is not forgotten: for any number of processes, inodes, interfaces,   *)
(* keys and attempts.                                                      *)
(***************************************************************************)
EXTENDS ServerLife, TLAPS

-----------------------------------------------------------------------------
(* The lock file                                                           *)

Inv == LockTypeOK /\ LockInv

LEMMA InitInv == LockInit => Inv
  BY FileLockAssumption DEF LockInit, Inv, LockTypeOK, LockInv, PCs, Exclusive, Owner

(* A descriptor moves only with its process: what one process does leaves  *)
(* the others' pc and fd alone.                                            *)
LEMMA StepIsLocal ==
  ASSUME NEW p \in Procs, LockStep(p), Inv
  PROVE  \A q \in Procs \ {p} : pc'[q] = pc[q] /\ fd'[q] = fd[q]
  BY DEF LockStep, Inv, LockTypeOK, Acquire, OpenLockFile, OpenCreates, OpenExisting, Again,
         Reopen, TryLock, Verify, AcquireFails, RemoveLockFile, Release, InspectOpen,
         InspectLock, InspectClose, CloseTo

(* The type invariant, one step per operation. *)
LEMMA TypeStep ==
  ASSUME Inv, NEW p \in Procs, LockStep(p)
  PROVE  LockTypeOK'
  <1> USE FileLockAssumption DEF Inv, LockTypeOK, PCs, CloseTo
  <1>1. CASE Acquire(p)
    BY <1>1 DEF Acquire
  <1>2. CASE OpenLockFile(p)
    BY <1>2 DEF OpenLockFile, OpenCreates, OpenExisting
  <1>3. CASE Reopen(p)
    BY <1>3 DEF Reopen, OpenExisting, Again
  <1>4. CASE TryLock(p)
    BY <1>4 DEF TryLock
  <1>5. CASE Verify(p)
    BY <1>5 DEF Verify, Again
  <1>6. CASE AcquireFails(p)
    BY <1>6 DEF AcquireFails
  <1>7. CASE RemoveLockFile(p)
    BY <1>7 DEF RemoveLockFile
  <1>8. CASE Release(p)
    BY <1>8 DEF Release
  <1>9. CASE InspectOpen(p)
    BY <1>9 DEF InspectOpen
  <1>10. CASE InspectLock(p)
    BY <1>10 DEF InspectLock
  <1>11. CASE InspectClose(p)
    BY <1>11 DEF InspectClose
  <1> QED
    BY <1>1, <1>2, <1>3, <1>4, <1>5, <1>6, <1>7, <1>8, <1>9, <1>10, <1>11 DEF LockStep

(* The second and third conjuncts of LockInv are what the comparison with  *)
(* the path is for; the guards of TryLock and Verify establish them.       *)
LEMMA InvStep ==
  ASSUME Inv, NEW p \in Procs, LockStep(p)
  PROVE  LockInv'
  <1> USE FileLockAssumption DEF Inv, LockTypeOK, LockInv, Exclusive, Owner, CloseTo
  <1>1. CASE Acquire(p)
    BY <1>1 DEF Acquire
  <1>2. CASE OpenLockFile(p)
    <2>1. CASE OpenCreates(p)
      BY <1>2, <2>1 DEF OpenLockFile, OpenCreates, FreshInode
    <2>2. CASE OpenExisting(p)
      BY <1>2, <2>2 DEF OpenLockFile, OpenExisting
    <2> QED
      BY <1>2, <2>1, <2>2 DEF OpenLockFile
  <1>3. CASE Reopen(p)
    BY <1>3 DEF Reopen, OpenExisting, Again
  <1>4. CASE TryLock(p)
    BY <1>4 DEF TryLock
  <1>5. CASE Verify(p)
    BY <1>5 DEF Verify, Again
  <1>6. CASE AcquireFails(p)
    BY <1>6 DEF AcquireFails
  <1>7. CASE RemoveLockFile(p)
    BY <1>7 DEF RemoveLockFile
  <1>8. CASE Release(p)
    BY <1>8 DEF Release
  <1>9. CASE InspectOpen(p)
    BY <1>9 DEF InspectOpen
  <1>10. CASE InspectLock(p)
    BY <1>10 DEF InspectLock
  <1>11. CASE InspectClose(p)
    BY <1>11 DEF InspectClose
  <1> QED
    BY <1>1, <1>2, <1>3, <1>4, <1>5, <1>6, <1>7, <1>8, <1>9, <1>10, <1>11 DEF LockStep

LEMMA InvNext == Inv /\ [LockNext]_lockVars => Inv'
  <1> SUFFICES ASSUME Inv, [LockNext]_lockVars
               PROVE  Inv'
    OBVIOUS
  <1>1. CASE LockNext
    <2>1. PICK p \in Procs : LockStep(p)
      BY <1>1 DEF LockNext
    <2> QED
      BY <2>1, TypeStep, InvStep DEF Inv
  <1>2. CASE UNCHANGED lockVars
    BY <1>2 DEF lockVars, Inv, LockTypeOK, LockInv, Exclusive, Owner
  <1> QED
    BY <1>1, <1>2

Owners == {p \in Procs : Owner(p)}

(* Only Verify makes an owner, and only RemoveLockFile and Release make    *)
(* one an owner no more.                                                   *)
LEMMA StepMapsToMutex ==
  ASSUME Inv, NEW p \in Procs, LockStep(p)
  PROVE  [Lock!MutexNext]_Owners
  <1>0. \A q \in Procs \ {p} : pc'[q] = pc[q]
    BY StepIsLocal
  <1>1. CASE Owner(p) /\ ~Owner(p)'
    <2>1. \A q \in Procs : Owner(q) => q = p
      BY <1>1 DEF Inv, LockInv, Owner, Exclusive
    <2>2. Owners = {p} /\ Owners' = {}
      BY <1>0, <1>1, <2>1 DEF Owners, Owner
    <2> QED
      BY <2>2 DEF Lock!MutexNext, Lock!MutexRelease, Owners
  <1>2. CASE ~Owner(p) /\ Owner(p)'
    <2>1. pc[p] = "verify" /\ fd[p] = path
      BY <1>2 DEF LockStep, Owner, Inv, LockTypeOK, Acquire, OpenLockFile, OpenCreates,
             OpenExisting, Again, Reopen, TryLock, Verify, AcquireFails, RemoveLockFile,
             Release, InspectOpen, InspectLock, InspectClose, CloseTo
    <2>2. \A q \in Procs : ~Owner(q)
      BY <1>2, <2>1 DEF Inv, LockInv, Owner, Exclusive
    <2>3. Owners = {} /\ Owners' = {p}
      BY <1>0, <1>2, <2>2 DEF Owners, Owner
    <2> QED
      BY <2>3 DEF Lock!MutexNext, Lock!MutexAcquire, Owners
  <1>3. CASE Owner(p) <=> Owner(p)'
    <2>1. Owners' = Owners
      BY <1>0, <1>3 DEF Owners, Owner
    <2> QED
      BY <2>1
  <1> QED
    BY <1>1, <1>2, <1>3

(* The lock file is a lock: at most one process passes the comparison of   *)
(* its descriptor with the path, and the next one does so only after that  *)
(* one has released the lock or removed the file (flock.go: acquire).      *)
THEOREM FileLockImplementsMutex == LockSpec => FileLockIsMutex
  <1>1. LockInit => Lock!MutexInit
    BY DEF LockInit, Lock!MutexInit, Owner
  <1>2. Inv /\ [LockNext]_lockVars => [Lock!MutexNext]_Owners
    <2> SUFFICES ASSUME Inv, [LockNext]_lockVars
                 PROVE  [Lock!MutexNext]_Owners
      OBVIOUS
    <2>1. CASE LockNext
      BY <2>1, StepMapsToMutex DEF LockNext
    <2>2. CASE UNCHANGED lockVars
      BY <2>2 DEF lockVars, Owners, Owner
    <2> QED
      BY <2>1, <2>2
  <1> QED
    BY <1>1, <1>2, InitInv, InvNext, PTL
    DEF LockSpec, FileLockIsMutex, Lock!MutexSpec, Owners

(* A process that owns the lock holds the file the path names, so whoever  *)
(* opens the path meets its flock (flock.go: isPathFile).                  *)
THEOREM LockInvariant == LockSpec => []LockInv
  BY InitInv, InvNext, PTL DEF LockSpec, Inv

-----------------------------------------------------------------------------
(* Servers and teardowns                                                   *)

USE ServerLifeAssumption

-----------------------------------------------------------------------------
(* A step of a server's or a teardown's life is a step of the lock file or *)
(* leaves it alone.                                                        *)
LEMMA LifeStepIsLockStep ==
  [LifeNext]_<<lockVars, lifeVars>> => [LockNext]_lockVars
  <1> SUFFICES ASSUME [LifeNext]_<<lockVars, lifeVars>>
               PROVE  [LockNext]_lockVars
    OBVIOUS
  <1> USE DEF LockNext, LockStep
  <1>1. CASE \E s \in Servers : StartServer(s)
    BY <1>1 DEF StartServer, Begin
  <1>2. CASE \E s \in Servers : ServerStep(s)
    BY <1>2, Zenon DEF ServerStep, OpenStore, RecordMode, RefuseMode, ServerKey, BringUpWG,
           RefuseForeignLink, RecordHints, IPForwardIsOn, IPForwardUnreadable, PlanIPForward,
           WriteIPForward, WriteIPForwardFails, ConfirmIPForward, ApplyTable, Step, Leave
  <1>3. CASE \E t \in Teardowns : StartTeardown(t) \/ DryRun(t)
    BY <1>3 DEF StartTeardown, Begin, DryRun
  <1>4. CASE \E t \in Teardowns : TeardownStep(t)
    BY <1>4 DEF TeardownStep, ReadPlan, DeleteTable, DeleteLink, PurgeDatabase,
           PurgeLockFile, PrintManual, Step
  <1>5. CASE \E p \in Procs : TakingLock(p) \/ Stop(p)
    BY <1>5 DEF TakingLock, Stop
  <1>6. CASE OperatorResets
    BY <1>6 DEF OperatorResets
  <1>7. CASE UNCHANGED <<lockVars, lifeVars>>
    BY <1>7
  <1> QED
    BY <1>1, <1>2, <1>3, <1>4, <1>5, <1>6, <1>7 DEF LifeNext

(* Two processes at work, neither of which is only printing, are one.      *)
Working(p) == stage[p] \notin {"none", "print"}

(* Between a lock taken and given back there is one process: both hold it. *)
LEMMA Alone ==
  ASSUME LifeInv, NEW p \in Procs, NEW q \in Procs, Working(p), Working(q)
  PROVE  p = q
  <1>1. Owner(p) /\ Owner(q)
    BY DEF LifeInv, StageInv, Working, Owner
  <1> QED
    BY <1>1 DEF LifeInv, LockInv, Owner, Exclusive

-----------------------------------------------------------------------------
(* The type invariant. *)
LEMMA LifeTypeInit == LifeInit => LifeTypeOK
  <1> SUFFICES ASSUME LifeInit PROVE LifeTypeOK
    OBVIOUS
  <1>1. LockTypeOK
    BY InitInv DEF LifeInit, Inv
  <1> QED
    BY <1>1, Zenon DEF LifeInit, LifeTypeOK

(* Acquire or AcquireCreating, with the options of a start. *)
LEMMA StartTypes ==
  ASSUME LifeTypeOK, LockTypeOK', NEW p \in Procs, NEW o \in Options, Begin(p, o)
  PROVE  LifeTypeOK'
  BY DEF LifeTypeOK, Begin, kernelVars, historyVars

(* What Run writes is a database of meta rows, a link, a value. *)
LEMMA ServerTypes ==
  ASSUME LifeInv, LockTypeOK', NEW s \in Servers, ServerStep(s)
  PROVE  LifeTypeOK'
  <1> USE DEF LifeInv, LifeTypeOK, Step, Goto, kernelVars, historyVars, At
  <1>0. s \in Procs /\ db \in Meta \cup {None}
    OBVIOUS
  <1>00. stage[s] \notin {"none", "locked"} => db \in Meta
    BY DEF TeardownIsAlone, ServerUndisturbed
  <1>01. stage[s] # "none" => opt[s] \in Options
    BY DEF StageInv
  <1>1. CASE OpenStore(s)
    BY <1>1 DEF OpenStore, Meta
  <1>2. CASE RecordMode(s)
    BY <1>2, <1>00, <1>01 DEF RecordMode, Meta, Options, WantedMode, Modes
  <1>3. CASE RefuseMode(s) \/ RefuseForeignLink(s)
    BY <1>3, Zenon DEF RefuseMode, RefuseForeignLink, Leave, Forget
  <1>4. CASE ServerKey(s)
    BY <1>4, <1>00 DEF ServerKey, Meta
  <1>5. CASE BringUpWG(s)
    BY <1>5, <1>00, <1>01 DEF BringUpWG, Meta, Options
  <1>6. CASE RecordHints(s)
    BY <1>6, <1>00, <1>01 DEF RecordHints, Meta, Options
  <1>7. CASE IPForwardIsOn(s) \/ IPForwardUnreadable(s)
    BY <1>7, Zenon DEF IPForwardIsOn, IPForwardUnreadable
  <1>8. CASE PlanIPForward(s)
    BY <1>8, <1>00, Zenon DEF PlanIPForward, Meta
  <1>9. CASE WriteIPForward(s)
    BY <1>9 DEF WriteIPForward
  <1>10. CASE WriteIPForwardFails(s)
    BY <1>10, <1>00, Zenon DEF WriteIPForwardFails, Meta
  <1>11. CASE ConfirmIPForward(s)
    BY <1>11, <1>00, Zenon DEF ConfirmIPForward, Meta
  <1>12. CASE ApplyTable(s)
    BY <1>12, Zenon DEF ApplyTable
  <1> QED
    BY <1>1, <1>2, <1>3, <1>4, <1>5, <1>6, <1>7, <1>8, <1>9, <1>10, <1>11, <1>12 DEF ServerStep

(* readPlan returns a plan with a database and without. *)
LEMMA PlanIsTyped ==
  ASSUME LifeTypeOK
  PROVE  NoDatabase \in Plan /\ (db # None => FromDatabase \in Plan)
  BY DEF LifeTypeOK, NoDatabase, FromDatabase, Plan, Meta, Modes

(* What run of a teardown writes. *)
LEMMA TeardownTypes ==
  ASSUME LifeInv, LockTypeOK', NEW t \in Teardowns, TeardownStep(t)
  PROVE  LifeTypeOK'
  <1> USE DEF LifeInv, LifeTypeOK, Step, Goto, kernelVars, historyVars, At
  <1>0. t \in Procs
    OBVIOUS
  <1>1. CASE ReadPlan(t)
    BY <1>1, PlanIsTyped DEF ReadPlan
  <1>2. CASE DeleteTable(t)
    BY <1>2, Zenon DEF DeleteTable
  <1>3. CASE DeleteLink(t)
    BY <1>3, Zenon DEF DeleteLink
  <1>4. CASE PurgeDatabase(t)
    BY <1>4 DEF PurgeDatabase
  <1>5. CASE PurgeLockFile(t)
    BY <1>5 DEF PurgeLockFile
  <1>6. CASE PrintManual(t)
    <2>1. plan[t] \in Plan /\ opt[t] \in Options
      BY <1>6 DEF PrintManual, StageInv
    <2> QED
      BY <1>6, <2>1 DEF PrintManual, Forget, Plan, Options
  <1> QED
    BY <1>1, <1>2, <1>3, <1>4, <1>5, <1>6 DEF TeardownStep

(* Every step of every process, and the operator's. *)
LEMMA LifeTypeStep ==
  ASSUME LifeInv, LockTypeOK', [LifeNext]_<<lockVars, lifeVars>>
  PROVE  LifeTypeOK'
  <1>1. CASE \E s \in Servers : StartServer(s)
    BY <1>1, StartTypes, Zenon DEF StartServer, Options, LifeInv
  <1>2. CASE \E s \in Servers : ServerStep(s)
    BY <1>2, ServerTypes
  <1>3. CASE \E t \in Teardowns : StartTeardown(t)
    BY <1>3, StartTypes DEF StartTeardown, Options, LifeInv
  <1>4. CASE \E t \in Teardowns : DryRun(t)
    BY <1>4 DEF DryRun, LifeInv, LifeTypeOK, lifeVars
  <1>5. CASE \E t \in Teardowns : TeardownStep(t)
    BY <1>5, TeardownTypes
  <1>6. CASE \E p \in Procs : TakingLock(p)
    BY <1>6 DEF TakingLock, LifeInv, LifeTypeOK, kernelVars, historyVars
  <1>7. CASE \E p \in Procs : Stop(p)
    BY <1>7 DEF Stop, Forget, Goto, LifeInv, LifeTypeOK, kernelVars
  <1>8. CASE OperatorResets
    BY <1>8, Zenon DEF OperatorResets, LifeInv, LifeTypeOK, lockVars
  <1>9. CASE UNCHANGED <<lockVars, lifeVars>>
    BY <1>9 DEF LifeInv, LifeTypeOK, lifeVars
  <1> QED
    BY <1>1, <1>2, <1>3, <1>4, <1>5, <1>6, <1>7, <1>8, <1>9 DEF LifeNext

-----------------------------------------------------------------------------
(* Who is at work holds the lock. *)
LEMMA ServersKeepStage ==
  ASSUME LifeInv, NEW s \in Servers, ServerStep(s)
  PROVE  StageInv'
  <1> USE DEF LifeInv, LifeTypeOK, LockTypeOK, StageInv, ServerStages, Step, Goto, At, lockVars
  <1>0. s \in Procs /\ s \notin Teardowns
    OBVIOUS
  <1>1. CASE RefuseMode(s) \/ RefuseForeignLink(s)
    BY <1>0, <1>1 DEF RefuseMode, RefuseForeignLink, Leave, Forget, Release, CloseTo
  <1>2. CASE \E from, to \in ServerStages \ {"none"} : Step(s, from, to)
    BY <1>0, <1>2
  <1>3. \/ RefuseMode(s) \/ RefuseForeignLink(s)
        \/ \E from, to \in ServerStages \ {"none"} : Step(s, from, to)
    BY Zenon DEF ServerStep, OpenStore, RecordMode, ServerKey, BringUpWG, RecordHints,
           IPForwardIsOn,
           IPForwardUnreadable, PlanIPForward, WriteIPForward, WriteIPForwardFails,
           ConfirmIPForward, ApplyTable
  <1> QED
    BY <1>1, <1>2, <1>3

(* The lock is kept up to the removal of the lock file. *)
LEMMA TeardownsKeepStage ==
  ASSUME LifeInv, NEW t \in Teardowns, TeardownStep(t)
  PROVE  StageInv'
  <1> USE DEF LifeInv, LifeTypeOK, LockTypeOK, StageInv, TeardownStages, Step, Goto, At, lockVars
  <1>0. t \in Procs /\ t \notin Servers
    OBVIOUS
  <1>1. CASE ReadPlan(t)
    BY <1>0, <1>1, PlanIsTyped DEF ReadPlan
  <1>2. CASE DeleteTable(t) \/ DeleteLink(t)
    BY <1>0, <1>2 DEF DeleteTable, DeleteLink
  <1>3. CASE PurgeDatabase(t)
    BY <1>0, <1>3 DEF PurgeDatabase
  <1>4. CASE PurgeLockFile(t)
    BY <1>0, <1>4 DEF PurgeLockFile, RemoveLockFile
  <1>5. CASE PrintManual(t)
    BY <1>0, <1>5 DEF PrintManual, Release, CloseTo, Forget
  <1> QED
    BY <1>1, <1>2, <1>3, <1>4, <1>5 DEF TeardownStep

(* The stages and the lock file move together. *)
LEMMA StageStep ==
  ASSUME LifeInv, [LifeNext]_<<lockVars, lifeVars>>
  PROVE  StageInv'
  <1> USE DEF LifeInv, LifeTypeOK, LockTypeOK, StageInv
  <1>1. ASSUME NEW p \in Procs, NEW o \in Options, Begin(p, o)
        PROVE  StageInv'
    BY <1>1 DEF Begin, Acquire
  <1>2. CASE \E s \in Servers : StartServer(s)
    BY <1>1, <1>2, Zenon DEF StartServer, Options
  <1>3. CASE \E t \in Teardowns : StartTeardown(t)
    BY <1>1, <1>3 DEF StartTeardown, Options
  <1>4. CASE \E t \in Teardowns : DryRun(t)
    BY <1>4 DEF DryRun, InspectOpen, InspectLock, InspectClose, CloseTo, lifeVars
  <1>5. ASSUME NEW p \in Procs, TakingLock(p)
        PROVE  StageInv'
    <2>1. /\ pc[p] \in {"open", "reopen", "lock", "verify"}
          /\ pc'[p] \in {"idle", "open", "reopen", "lock", "verify", "held"}
          /\ \A q \in Procs \ {p} : pc'[q] = pc[q]
      BY <1>5 DEF TakingLock, OpenLockFile, OpenCreates, OpenExisting, Reopen, Again, TryLock,
             Verify, AcquireFails, CloseTo
    <2> QED
      BY <1>5, <2>1 DEF TakingLock, ServerStages, TeardownStages
  <1>6. CASE \E p \in Procs : Stop(p)
    BY <1>6 DEF Stop, Release, CloseTo, Forget, Goto, ServerStages, TeardownStages
  <1>7. CASE OperatorResets \/ UNCHANGED <<lockVars, lifeVars>>
    BY <1>7 DEF OperatorResets, lockVars, lifeVars
  <1> QED
    BY <1>2, <1>3, <1>4, <1>5, <1>6, <1>7, ServersKeepStage, TeardownsKeepStage, Zenon DEF LifeNext

-----------------------------------------------------------------------------
(* Who is at work is alone: no other process changes the database or a     *)
(* link meanwhile.                                                         *)
Untouched == UNCHANGED <<db, link>>

(* A step that leaves the database and the links alone, and every process  *)
(* where it is or puts it where nothing is promised. *)
LEMMA QuietStep ==
  ASSUME LifeInv, Untouched,
         \A p \in Procs : \/ stage'[p] = stage[p] /\ (stage[p] # "none" => opt'[p] = opt[p])
                                                  /\ plan'[p] = plan[p]
                          \/ stage'[p] \in {"none", "locked", "print"} /\ p \in Teardowns
                          \/ stage'[p] \in {"none", "locked"} /\ p \in Servers
  PROVE  TeardownIsAlone'
  <1> USE DEF LifeInv, TeardownIsAlone, At, Untouched
  <1>1. PlanIsCurrent'
    BY Zenon DEF PlanIsCurrent, OwnLink, FromDatabase, NoDatabase
  <1>2. ServerUndisturbed'
    BY DEF ServerUndisturbed
  <1> QED
    BY <1>1, <1>2

(* A start that is not refused has a database at the path. *)
LEMMA DatabaseStays ==
  ASSUME LifeInv, NEW s \in Servers, ServerStep(s), ~(RefuseMode(s) \/ RefuseForeignLink(s))
  PROVE  db' \in Meta
  <1> USE DEF Step, At
  <1>1. stage[s] \notin {"none", "locked"} => db \in Meta
    BY DEF LifeInv, LifeTypeOK, TeardownIsAlone, ServerUndisturbed
  <1>2. stage[s] # "none" => opt[s] \in Options
    BY DEF LifeInv, LifeTypeOK, StageInv
  <1>3. CASE OpenStore(s)
    BY <1>3 DEF OpenStore, Meta, LifeInv, LifeTypeOK
  <1>4. CASE RecordMode(s)
    BY <1>1, <1>2, <1>4 DEF RecordMode, Meta, Options, WantedMode, Modes
  <1>5. CASE ServerKey(s)
    BY <1>1, <1>5 DEF ServerKey, Meta
  <1>6. CASE BringUpWG(s)
    BY <1>1, <1>6 DEF BringUpWG
  <1>7. CASE RecordHints(s)
    BY <1>1, <1>2, <1>7 DEF RecordHints, Meta, Options
  <1>8. CASE IPForwardIsOn(s) \/ IPForwardUnreadable(s) \/ WriteIPForward(s) \/ ApplyTable(s)
    BY <1>1, <1>8, Zenon DEF IPForwardIsOn, IPForwardUnreadable, WriteIPForward, ApplyTable
  <1>9. CASE PlanIPForward(s) \/ WriteIPForwardFails(s) \/ ConfirmIPForward(s)
    BY <1>1, <1>9, Zenon DEF PlanIPForward, WriteIPForwardFails, ConfirmIPForward, Meta
  <1> QED
    BY <1>3, <1>4, <1>5, <1>6, <1>7, <1>8, <1>9 DEF ServerStep

(* A start finds and leaves the database and its link its own. *)
LEMMA ServerAlone ==
  ASSUME LifeInv, NEW s \in Servers, ServerStep(s)
  PROVE  TeardownIsAlone'
  <1> USE DEF LifeInv, LifeTypeOK, Step, Goto, At
  <1>1. CASE RefuseMode(s) \/ RefuseForeignLink(s)
    BY <1>1, QuietStep DEF RefuseMode, RefuseForeignLink, Leave, Forget, Untouched, kernelVars
  <1>2. CASE ~(RefuseMode(s) \/ RefuseForeignLink(s))
    <2>1. /\ Working(s)
          /\ stage' = [stage EXCEPT ![s] = stage'[s]] /\ stage'[s] \notin {"none", "locked"}
          /\ UNCHANGED <<opt, plan>>
      BY <1>2, Zenon DEF ServerStep, OpenStore, RecordMode, ServerKey, BringUpWG, RecordHints,
             IPForwardIsOn, IPForwardUnreadable, PlanIPForward, WriteIPForward,
             WriteIPForwardFails, ConfirmIPForward, ApplyTable, Working
    <2>2. \A p \in Procs \ {s} : stage'[p] \in {"none", "print"}
      BY <2>1, Alone DEF Working
    <2>3. \A q \in Servers \ {s} : stage'[q] = "none"
      BY <2>1, <2>2 DEF StageInv, ServerStages
    <2>4. PlanIsCurrent'
      BY <2>2 DEF PlanIsCurrent
    <2>5. stage[s] # "locked" => db \in Meta
      BY <2>1 DEF Working, TeardownIsAlone, ServerUndisturbed
    <2>6. opt[s] \in Options
      BY <2>1 DEF Working, StageInv
    <2>7. db' # None
      BY <1>2, DatabaseStays
    <2>8. ASSUME stage'[s] \in {"hints", "ipRead", "ipWrite", "ipConfirm", "apply", "up"},
                 db'.mode = "kernel"
          PROVE  link'[opt[s].iface] = db'.key
      <3>1. CASE BringUpWG(s)
        BY <2>6, <3>1, <2>8 DEF BringUpWG, Options
      <3>2. CASE ~BringUpWG(s)
        <4>1. /\ stage[s] \in {"hints", "ipRead", "ipWrite", "ipConfirm", "apply"}
              /\ UNCHANGED link /\ db' \in {db, [db EXCEPT !.iface = opt[s].iface],
                   [db EXCEPT !.planned = TRUE], [db EXCEPT !.planned = FALSE],
                   [db EXCEPT !.planned = FALSE, !.confirmed = TRUE]}
          BY <1>2, <2>1, <2>8, <3>2, Zenon
             DEF ServerStep, OpenStore, RecordMode, ServerKey, RecordHints,
             IPForwardIsOn, IPForwardUnreadable, PlanIPForward, WriteIPForward,
             WriteIPForwardFails, ConfirmIPForward, ApplyTable, kernelVars
        <4>2. db'.mode = db.mode /\ db'.key = db.key
          BY <2>5, <4>1, Zenon DEF Meta
        <4> QED
          BY <2>8, <4>1, <4>2 DEF TeardownIsAlone, ServerUndisturbed
      <3> QED
        BY <3>1, <3>2
    <2>9. ServerUndisturbed'
      BY <2>1, <2>3, <2>7, <2>8 DEF ServerUndisturbed
    <2> QED
      BY <2>4, <2>9 DEF TeardownIsAlone
  <1> QED
    BY <1>1, <1>2

(* A teardown deletes what it judged. *)
LEMMA TeardownAlone ==
  ASSUME LifeInv, NEW t \in Teardowns, TeardownStep(t)
  PROVE  TeardownIsAlone'
  <1> USE DEF LifeInv, LifeTypeOK, Step, Goto, At
  <1>1. CASE PurgeLockFile(t) \/ PrintManual(t)
    BY <1>1, QuietStep DEF PurgeLockFile, PrintManual, Forget, Untouched, kernelVars
  <1>2. CASE ~(PurgeLockFile(t) \/ PrintManual(t))
    <2>1. /\ Working(t) /\ stage' = [stage EXCEPT ![t] = stage'[t]]
          /\ UNCHANGED opt
      BY <1>2 DEF TeardownStep, ReadPlan, DeleteTable, DeleteLink, PurgeDatabase, Working
    <2>2. \A p \in Procs \ {t} : stage'[p] \in {"none", "print"}
      BY <2>1, Alone DEF Working
    <2>3. \A s \in Servers : stage'[s] = "none"
      BY <2>1, <2>2 DEF StageInv, ServerStages
    <2>4. ServerUndisturbed'
      BY <2>3 DEF ServerUndisturbed
    <2>5. PlanIsCurrent'
      <3> SUFFICES
             /\ stage'[t] \in {"table", "link"} =>
                   /\ plan'[t] = IF db' = None THEN NoDatabase' ELSE FromDatabase'
                   /\ opt'[t].adopt \/ OwnLink(plan[t].iface, plan[t].key)'
             /\ stage'[t] \in {"purge", "unlink"} => (db' # None => plan'[t] = FromDatabase')
        BY <2>1, <2>2 DEF PlanIsCurrent
      <3>1. CASE ReadPlan(t)
        BY <3>1, Zenon DEF ReadPlan, FromDatabase, OwnLink, kernelVars
      <3>2. CASE DeleteTable(t)
        BY <3>2, Zenon DEF DeleteTable, FromDatabase, OwnLink, TeardownIsAlone, PlanIsCurrent
      <3>3. CASE DeleteLink(t)
        BY <3>3, Zenon DEF DeleteLink, FromDatabase, TeardownIsAlone, PlanIsCurrent
      <3>4. CASE PurgeDatabase(t)
        BY <3>4, Zenon DEF PurgeDatabase, FromDatabase, TeardownIsAlone, PlanIsCurrent
      <3> QED
        BY <1>2, <3>1, <3>2, <3>3, <3>4, Zenon DEF TeardownStep
    <2> QED
      BY <2>4, <2>5 DEF TeardownIsAlone
  <1> QED
    BY <1>1, <1>2

(* No step takes what another judged or started on. *)
LEMMA AloneStep ==
  ASSUME LifeInv, [LifeNext]_<<lockVars, lifeVars>>
  PROVE  TeardownIsAlone'
  <1> USE DEF LifeInv, LifeTypeOK, LockTypeOK, Untouched, kernelVars
  <1>1. CASE \E s \in Servers : StartServer(s)
    BY <1>1, QuietStep DEF StartServer, Begin
  <1>2. CASE \E s \in Servers : ServerStep(s)
    BY <1>2, ServerAlone
  <1>3. CASE \E t \in Teardowns : StartTeardown(t)
    BY <1>3, QuietStep DEF StartTeardown, Begin
  <1>4. CASE \E t \in Teardowns : TeardownStep(t)
    BY <1>4, TeardownAlone
  <1>5. CASE \E p \in Procs : Stop(p)
    BY <1>5, QuietStep DEF Stop, Forget, Goto
  <1>6. CASE \E p \in Procs : TakingLock(p)
    <2>1. PICK p \in Procs : TakingLock(p)
      BY <1>6
    <2>2. stage[p] = "none"
      BY <2>1 DEF TakingLock, StageInv, OpenLockFile, Reopen, TryLock, Verify, AcquireFails
    <2>3. Untouched /\ plan' = plan
      BY <2>1 DEF TakingLock
    <2>4. /\ \A q \in Procs \ {p} : stage'[q] = stage[q] /\ opt'[q] = opt[q]
          /\ stage'[p] \in {"none", "locked"}
      BY <2>1, <2>2 DEF TakingLock
    <2> QED
      BY <2>2, <2>3, <2>4, QuietStep
  <1>7. CASE OperatorResets \/ (\E t \in Teardowns : DryRun(t)) \/ UNCHANGED <<lockVars, lifeVars>>
    BY <1>7, QuietStep DEF OperatorResets, DryRun, lifeVars
  <1> QED
    BY <1>1, <1>2, <1>3, <1>4, <1>5, <1>6, <1>7 DEF LifeNext

-----------------------------------------------------------------------------
(* Forwarding is not forgotten. *)
Recorded == db # None /\ (db.planned \/ db.confirmed)

(* A step that writes neither the value nor the record, lets nobody who    *)
(* will tell go, and brings no server to the write.                        *)
LEMMA OwedKept ==
  ASSUME LifeInv,
         ipForward' = ipForward, excused' = excused, owed' = owed, Recorded => Recorded',
         \A t \in Teardowns : WillTell(t) => WillTell(t)',
         \A s \in Servers : stage'[s] = "ipWrite" => stage[s] = "ipWrite" /\ db' = db
  PROVE  OwedInv'
  BY DEF LifeInv, OwedInv, At, Recorded

(* Who will print is not silenced by another process. *)
LEMMA TellersStay ==
  ASSUME LifeInv, NEW p \in Procs, ~(p \in Teardowns /\ stage[p] \in {"unlink", "print"}),
         \A q \in Procs \ {p} : stage'[q] = stage[q] /\ opt'[q] = opt[q] /\ plan'[q] = plan[q]
  PROVE  \A t \in Teardowns : WillTell(t) => WillTell(t)'
  BY Zenon DEF WillTell, At

(* enableIPForward, in the order record, write, confirm. *)
LEMMA ServerOwes ==
  ASSUME LifeInv, NEW s \in Servers, ServerStep(s)
  PROVE  OwedInv'
  <1> USE DEF LifeInv, LifeTypeOK, Step, Goto, At, kernelVars, historyVars
  <1>1. \A q \in Procs \ {s} : stage'[q] = stage[q] /\ opt'[q] = opt[q] /\ plan'[q] = plan[q]
    BY Zenon DEF ServerStep, OpenStore, RecordMode, RefuseMode, ServerKey, BringUpWG,
           RefuseForeignLink, RecordHints, IPForwardIsOn, IPForwardUnreadable, PlanIPForward,
           WriteIPForward, WriteIPForwardFails, ConfirmIPForward, ApplyTable, Leave, Forget
  <1>2. \A t \in Teardowns : WillTell(t) => WillTell(t)'
    BY <1>1, TellersStay
  <1>3. CASE RefuseMode(s) \/ RefuseForeignLink(s)
    BY <1>2, <1>3, OwedKept DEF RefuseMode, RefuseForeignLink, Leave, Forget, Recorded
  <1>4. CASE ~(RefuseMode(s) \/ RefuseForeignLink(s))
    <2>1. Working(s)
      BY <1>4, Zenon DEF ServerStep, OpenStore, RecordMode, ServerKey, BringUpWG, RecordHints,
             IPForwardIsOn, IPForwardUnreadable, PlanIPForward, WriteIPForward,
             WriteIPForwardFails, ConfirmIPForward, ApplyTable, Working
    <2>2. \A q \in Servers \ {s} : stage'[q] # "ipWrite"
      BY <1>1, <2>1, Alone, Zenon DEF Working
    <2>3. stage[s] \notin {"none", "locked"} => db \in Meta
      BY DEF TeardownIsAlone, ServerUndisturbed
    <2>4. db' \in Meta /\ db' # None
      BY <1>4, DatabaseStays
    <2>5. CASE OpenStore(s)
      <3>1. Recorded => Recorded'
        BY <2>5 DEF OpenStore, Recorded
      <3> QED
        BY <1>2, <2>2, <2>5, <3>1, OwedKept DEF OpenStore
    <2>6. CASE RecordMode(s) \/ ServerKey(s) \/ BringUpWG(s) \/ RecordHints(s) \/ IPForwardIsOn(s)
               \/ ApplyTable(s)
      <3>1. db'.planned = db.planned /\ db'.confirmed = db.confirmed
        BY <2>3, <2>6 DEF RecordMode, ServerKey, BringUpWG, RecordHints, IPForwardIsOn,
               ApplyTable, Meta
      <3>2. Recorded => Recorded'
        BY <2>4, <3>1 DEF Recorded
      <3> QED
        BY <1>2, <2>2, <2>6, <3>2, OwedKept DEF RecordMode, ServerKey, BringUpWG, RecordHints,
               IPForwardIsOn, ApplyTable
    <2>7. CASE IPForwardUnreadable(s)
      BY <1>2, <2>2, <2>7, Zenon DEF IPForwardUnreadable, OwedInv
    <2>8. CASE PlanIPForward(s)
      BY <1>2, <2>2, <2>3, <2>4, <2>8 DEF PlanIPForward, OwedInv, Meta
    <2>9. CASE WriteIPForward(s)
      BY <1>2, <2>2, <2>4, <2>9 DEF WriteIPForward, OwedInv
    <2>10. CASE WriteIPForwardFails(s)
      BY <1>2, <2>2, <2>10 DEF WriteIPForwardFails, OwedInv
    <2>11. CASE ConfirmIPForward(s)
      <3>1. Recorded => Recorded'
        BY <2>3, <2>4, <2>11, Zenon DEF ConfirmIPForward, Recorded, Meta
      <3> QED
        BY <1>2, <2>2, <2>11, <3>1, OwedKept DEF ConfirmIPForward
    <2> QED
      BY <1>4, <2>5, <2>6, <2>7, <2>8, <2>9, <2>10, <2>11 DEF ServerStep
  <1> QED
    BY <1>3, <1>4

(* purgeState takes the record only with the line to print in hand. *)
LEMMA TeardownOwes ==
  ASSUME LifeInv, NEW t \in Teardowns, TeardownStep(t)
  PROVE  OwedInv'
  <1> USE DEF LifeInv, LifeTypeOK, Step, Goto, At, kernelVars, historyVars
  <1>1. \A q \in Procs \ {t} : stage'[q] = stage[q] /\ opt'[q] = opt[q] /\ plan'[q] = plan[q]
    BY Zenon DEF TeardownStep, ReadPlan, DeleteTable, DeleteLink, PurgeDatabase, PurgeLockFile,
           PrintManual, Forget
  <1>2. \A u \in Teardowns \ {t} : WillTell(u) => WillTell(u)'
    BY <1>1 DEF WillTell
  <1>3. \A s \in Servers : stage'[s] = stage[s]
    BY <1>1
  <1>4. CASE ReadPlan(t) \/ DeleteTable(t) \/ DeleteLink(t)
    <2>1. ~WillTell(t)
      BY <1>4 DEF ReadPlan, DeleteTable, DeleteLink, WillTell
    <2> QED
      BY <1>2, <1>3, <1>4, <2>1, OwedKept, Zenon DEF ReadPlan, DeleteTable, DeleteLink, Recorded
  <1>5. CASE PurgeDatabase(t)
    <2>1. \A s \in Servers : stage[s] # "ipWrite"
      BY <1>5, Alone DEF PurgeDatabase, Working
    <2>2. ~WillTell(t) /\ stage'[t] \in {"unlink", "print"} /\ opt' = opt /\ plan' = plan
      BY <1>5 DEF PurgeDatabase, WillTell
    <2>3. CASE db' = db
      BY <1>2, <1>3, <1>5, <2>2, <2>3, OwedKept DEF PurgeDatabase, Recorded
    <2>4. CASE db' # db
      <3>1. opt[t].purge
        BY <1>5, <2>4 DEF PurgeDatabase
      <3>2. db # None => plan[t] = FromDatabase
        BY <1>5 DEF PurgeDatabase, TeardownIsAlone, PlanIsCurrent
      <3>3. Recorded => WillTell(t)'
        <4>1. db # None => /\ plan[t].mode = db.mode
                           /\ plan[t].tells = (db.mode # "userspace" /\ (db.planned \/ db.confirmed))
          BY <3>2 DEF FromDatabase
        <4>2. Recorded => plan'[t].tells \/ (opt'[t].purge /\ plan'[t].mode = "userspace")
          BY <2>2, <3>1, <4>1, Zenon DEF Recorded
        <4> QED
          BY <2>2, <4>2 DEF WillTell
      <3>4. UNCHANGED <<ipForward, owed, excused>>
        BY <1>5 DEF PurgeDatabase
      <3>5. owed /\ ~excused => \E u \in Teardowns : WillTell(u)'
        BY <1>2, <2>2, <3>3 DEF OwedInv, Recorded
      <3> QED
        BY <1>3, <2>1, <3>4, <3>5 DEF OwedInv
    <2> QED
      BY <2>3, <2>4
  <1>6. CASE PurgeLockFile(t)
    <2>1. WillTell(t) => WillTell(t)'
      BY <1>6 DEF PurgeLockFile, WillTell
    <2> QED
      BY <1>2, <1>3, <1>6, <2>1, OwedKept DEF PurgeLockFile, Recorded
  <1>7. CASE PrintManual(t)
    <2>1. /\ owed' = (owed /\ ~plan[t].tells) /\ UNCHANGED <<ipForward, db>>
          /\ excused' = (excused \/ (opt[t].purge /\ plan[t].mode = "userspace"))
      BY <1>7 DEF PrintManual
    <2>2. owed' /\ ~excused' => owed /\ ~excused /\ ~WillTell(t)
      BY <2>1 DEF WillTell
    <2>3. owed' /\ ~excused' => Recorded' \/ \E u \in Teardowns : WillTell(u)'
      BY <1>2, <2>1, <2>2 DEF OwedInv, Recorded
    <2>4. /\ owed' => ipForward'
          /\ \A s \in Servers : At(s, "ipWrite")' => ~ipForward' /\ (excused' \/ db'.planned)
      BY <1>3, <2>1 DEF OwedInv
    <2> QED
      BY <2>3, <2>4 DEF OwedInv, Recorded
  <1> QED
    BY <1>4, <1>5, <1>6, <1>7 DEF TeardownStep

(* Every step, a crash included. *)
LEMMA OwedStep ==
  ASSUME LifeInv, [LifeNext]_<<lockVars, lifeVars>>
  PROVE  OwedInv'
  <1> USE DEF LifeInv, LifeTypeOK, LockTypeOK, kernelVars, historyVars
  <1>1. CASE \E p \in Procs, o \in Options : Begin(p, o)
    <2>1. PICK p \in Procs, o \in Options : Begin(p, o)
      BY <1>1
    <2>2. \A t \in Teardowns : WillTell(t) => WillTell(t)'
      BY <2>1, TellersStay DEF Begin
    <2> QED
      BY <2>1, <2>2, OwedKept DEF Begin, Recorded
  <1>2. CASE \E s \in Servers : ServerStep(s)
    BY <1>2, ServerOwes
  <1>3. CASE \E t \in Teardowns : TeardownStep(t)
    BY <1>3, TeardownOwes
  <1>4. CASE \E p \in Procs : Stop(p)
    <2>1. PICK p \in Procs : Stop(p)
      BY <1>4
    <2>2. \A q \in Procs \ {p} : stage'[q] = stage[q] /\ opt'[q] = opt[q] /\ plan'[q] = plan[q]
      BY <2>1 DEF Stop, Forget, Goto
    <2>3. \A s \in Servers : stage'[s] = "ipWrite" => stage[s] = "ipWrite"
      BY <2>1 DEF Stop, Forget, Goto
    <2>4. CASE p \in Teardowns /\ stage[p] \in {"unlink", "print"}
      BY <2>1, <2>3, <2>4 DEF Stop, OwedInv, At
    <2>5. CASE ~(p \in Teardowns /\ stage[p] \in {"unlink", "print"})
      <3>1. excused' = excused
        BY <2>1, <2>5 DEF Stop, StageInv, ServerStages
      <3>2. \A t \in Teardowns : WillTell(t) => WillTell(t)'
        BY <2>2, <2>5, TellersStay, Zenon
      <3> QED
        BY <2>1, <2>3, <3>1, <3>2, OwedKept DEF Stop, Recorded
    <2> QED
      BY <2>4, <2>5
  <1>5. CASE \E p \in Procs : TakingLock(p)
    <2>1. PICK p \in Procs : TakingLock(p)
      BY <1>5
    <2>2. stage[p] = "none"
      BY <2>1 DEF TakingLock, StageInv, OpenLockFile, Reopen, TryLock, Verify, AcquireFails
    <2>3. /\ \A q \in Procs \ {p} : stage'[q] = stage[q] /\ opt'[q] = opt[q] /\ plan'[q] = plan[q]
          /\ stage'[p] \in {"none", "locked"}
      BY <2>1, <2>2 DEF TakingLock
    <2>4. \A t \in Teardowns : WillTell(t) => WillTell(t)'
      BY <2>2, <2>3, TellersStay, Zenon
    <2> QED
      BY <2>1, <2>3, <2>4, OwedKept DEF TakingLock, Recorded
  <1>6. CASE OperatorResets
    BY <1>6 DEF OperatorResets, OwedInv, At
  <1>7. CASE (\E t \in Teardowns : DryRun(t)) \/ UNCHANGED <<lockVars, lifeVars>>
    BY <1>7, OwedKept DEF DryRun, lifeVars, Recorded, WillTell, At
  <1>8. \A p \in Procs : StartServer(p) \/ StartTeardown(p) => \E o \in Options : Begin(p, o)
    BY Zenon DEF StartServer, StartTeardown, Options
  <1> QED
    BY <1>1, <1>2, <1>3, <1>4, <1>5, <1>6, <1>7, <1>8 DEF LifeNext

-----------------------------------------------------------------------------
(* The first start finds an empty machine. *)
LEMMA LifeInvInit == LifeInit => LifeInv
  <1> SUFFICES ASSUME LifeInit PROVE LifeInv
    OBVIOUS
  <1>1. LockInv
    BY InitInv DEF LifeInit, Inv
  <1>2. StageInv /\ TeardownIsAlone /\ OwedInv
    BY DEF LifeInit, LockInit, StageInv, ServerStages, TeardownStages, TeardownIsAlone,
           PlanIsCurrent, ServerUndisturbed, OwedInv, At
  <1> QED
    BY <1>1, <1>2, LifeTypeInit DEF LifeInv

(* The conjuncts of LifeInv hold each other up. *)
LEMMA LifeInvNext == LifeInv /\ [LifeNext]_<<lockVars, lifeVars>> => LifeInv'
  <1> SUFFICES ASSUME LifeInv, [LifeNext]_<<lockVars, lifeVars>>
               PROVE  LifeInv'
    OBVIOUS
  <1>1. Inv' /\ [LockNext]_lockVars
    BY LifeStepIsLockStep, InvNext DEF LifeInv, LifeTypeOK, Inv
  <1>2. LifeTypeOK' /\ LockInv'
    BY <1>1, LifeTypeStep DEF Inv
  <1> QED
    BY <1>1, <1>2, StageStep, AloneStep, OwedStep DEF LifeInv

(* The invariant behind the theorems below: who is past "none" holds the   *)
(* lock (vpsd.go: Run; teardown.go: run).                                  *)
THEOREM LifeInvariant == LifeSpec => []LifeInv
  BY LifeInvInit, LifeInvNext, PTL DEF LifeSpec

(* What a teardown judged under the lock is still so when it deletes it,   *)
(* and no running server loses its database or its link (teardown.go: run, *)
(* readPlan, purgeState; vpsd.go: Run), for any number of processes.       *)
THEOREM LifeTeardownIsAlone == LifeSpec => []TeardownIsAlone
  <1>1. LifeInv => TeardownIsAlone
    BY DEF LifeInv
  <1> QED
    BY <1>1, LifeInvariant, PTL

(* Forwarding that wgft turned on is recorded, about to be told, or was    *)
(* told, whatever crashes between the record and the write (startup.go:    *)
(* enableIPForward; teardown.go: purgeState, printManual).                 *)
THEOREM LifeIPForwardRemembered == LifeSpec => []IPForwardRemembered
  <1>1. LifeInv => IPForwardRemembered
    BY DEF LifeInv, OwedInv, IPForwardRemembered, WillTell
  <1> QED
    BY <1>1, LifeInvariant, PTL

(* The lock file that servers and teardowns share is a lock for them too   *)
(* (flock.go): the composition implements Mutex.                           *)
THEOREM LifeLockIsMutex == LifeSpec => FileLockIsMutex
  <1>1. LifeInit => LockInit
    BY DEF LifeInit
  <1>2. LifeSpec => LockSpec
    BY <1>1, LifeStepIsLockStep, PTL DEF LifeSpec, LockSpec
  <1> QED
    BY <1>2, FileLockImplementsMutex, PTL

=============================================================================
