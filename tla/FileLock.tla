------------------------------ MODULE FileLock ------------------------------
(***************************************************************************)
(* The lock file of internal/flock: a process opens <state>.lock, takes a  *)
(* non-blocking exclusive flock on the descriptor and only then compares   *)
(* the descriptor with what the path names.  A purge removes the file      *)
(* while it still holds the lock, so a process that opened the old file    *)
(* can lock an inode nobody else will ever open again; the comparison and  *)
(* the bounded retry are there for that.                                   *)
(*                                                                         *)
(* A file is an inode; an inode that no path and no descriptor names may   *)
(* be given out again by the file system.  flock state belongs to the open *)
(* descriptor, so who holds what follows from pc and fd.                   *)
(***************************************************************************)
EXTENDS Naturals, FiniteSets

CONSTANTS
    Procs,       \* processes on the host
    Inodes,      \* inode numbers of the directory's file system
    NoFile,      \* no inode: the path is absent, the descriptor is closed
    Attempts     \* acquireAttempts

ASSUME FileLockAssumption == NoFile \notin Inodes /\ Attempts \in Nat \ {0}

VARIABLES
    path,        \* the inode <state>.lock names
    pc,          \* where a process is in acquire, Inspect or the locked section
    fd,          \* the inode behind a process's descriptor
    tries,       \* the loop counter i of acquire
    creating     \* the process called AcquireCreating

lockVars == <<path, pc, fd, tries, creating>>

(* "verify" is between tryLock and isPathFile; "purged" is a holder that   *)
(* has removed the lock file and not yet closed it.                        *)
PCs == {"idle", "open", "reopen", "lock", "verify", "held", "purged",
        "probe", "shared"}

Exclusive(p) == pc[p] \in {"verify", "held", "purged"}

Shared(p) == pc[p] = "shared"

LockTypeOK ==
    /\ path \in Inodes \cup {NoFile}
    /\ pc \in [Procs -> PCs]
    /\ fd \in [Procs -> Inodes \cup {NoFile}]
    /\ tries \in [Procs -> 0 .. Attempts - 1]
    /\ creating \in [Procs -> BOOLEAN]

LockInit ==
    /\ path = NoFile
    /\ pc = [p \in Procs |-> "idle"]
    /\ fd = [p \in Procs |-> NoFile]
    /\ tries = [p \in Procs |-> 0]
    /\ creating = [p \in Procs |-> FALSE]

(* close(2): the descriptor and whatever flock it carries are gone. *)
CloseTo(p, where) ==
    /\ pc' = [pc EXCEPT ![p] = where]
    /\ fd' = [fd EXCEPT ![p] = NoFile]

FreshInode(i) == i # path /\ \A p \in Procs : fd[p] # i

(* Acquire and AcquireCreating start the loop. *)
Acquire(p) ==
    /\ pc[p] = "idle"
    /\ \E c \in BOOLEAN : creating' = [creating EXCEPT ![p] = c]
    /\ tries' = [tries EXCEPT ![p] = 0]
    /\ pc' = [pc EXCEPT ![p] = "open"]
    /\ UNCHANGED <<path, fd>>

OpenCreates(p) ==
    /\ path = NoFile
    /\ \E i \in Inodes :
          /\ FreshInode(i)
          /\ path' = i
          /\ fd' = [fd EXCEPT ![p] = i]
    /\ pc' = [pc EXCEPT ![p] = "lock"]

OpenExisting(p) ==
    /\ path # NoFile
    /\ fd' = [fd EXCEPT ![p] = path]
    /\ pc' = [pc EXCEPT ![p] = "lock"]
    /\ UNCHANGED path

(* openLockFile: O_CREATE, or O_CREATE|O_EXCL first when the caller wants  *)
(* to know whether it made the file.                                       *)
OpenLockFile(p) ==
    /\ pc[p] = "open"
    /\ \/ OpenCreates(p)
       \/ ~creating[p] /\ OpenExisting(p)
       \/ /\ creating[p] /\ path # NoFile           \* EEXIST
          /\ pc' = [pc EXCEPT ![p] = "reopen"]
          /\ UNCHANGED <<path, fd>>
    /\ UNCHANGED <<tries, creating>>

(* The loop goes round again, or gives up after Attempts. *)
Again(p) ==
    \/ /\ tries[p] + 1 < Attempts
       /\ tries' = [tries EXCEPT ![p] = @ + 1]
       /\ CloseTo(p, "open")
    \/ /\ tries[p] + 1 >= Attempts
       /\ CloseTo(p, "idle")
       /\ UNCHANGED tries

(* The second open of openLockFile, without O_CREATE: the file may have    *)
(* gone since EEXIST.                                                      *)
Reopen(p) ==
    /\ pc[p] = "reopen"
    /\ \/ OpenExisting(p) /\ UNCHANGED tries
       \/ path = NoFile /\ Again(p) /\ UNCHANGED path
    /\ UNCHANGED creating

TryLock(p) ==
    /\ pc[p] = "lock"
    /\ IF \A q \in Procs \ {p} : fd[q] = fd[p] => ~Exclusive(q) /\ ~Shared(q)
       THEN pc' = [pc EXCEPT ![p] = "verify"] /\ UNCHANGED fd
       ELSE CloseTo(p, "idle")                      \* ErrLocked
    /\ UNCHANGED <<path, tries, creating>>

(* A path taken for the lock as soon as flock succeeds. *)
VerifyWithoutComparing(p) ==
    /\ pc[p] = "verify"
    /\ pc' = [pc EXCEPT ![p] = "held"]
    /\ UNCHANGED <<path, fd, tries, creating>>

(* isPathFile and what follows it. *)
Verify(p) ==
    /\ pc[p] = "verify"
    /\ \/ /\ fd[p] = path
          /\ pc' = [pc EXCEPT ![p] = "held"]
          /\ UNCHANGED <<fd, tries>>
       \/ fd[p] # path /\ Again(p)
    /\ UNCHANGED <<path, creating>>

(* Any other error of open, flock, fstat or lstat ends acquire. *)
AcquireFails(p) ==
    /\ pc[p] \in {"open", "reopen", "lock", "verify"}
    /\ CloseTo(p, "idle")
    /\ UNCHANGED <<path, tries, creating>>

(* The last file purgeState removes. *)
RemoveLockFile(p) ==
    /\ pc[p] = "held"
    /\ path' = NoFile
    /\ pc' = [pc EXCEPT ![p] = "purged"]
    /\ UNCHANGED <<fd, tries, creating>>

(* Release, and the kernel closing the descriptor of a process that died. *)
Release(p) ==
    /\ pc[p] \in {"held", "purged"}
    /\ CloseTo(p, "idle")
    /\ UNCHANGED <<path, tries, creating>>

(* Inspect: open without creating, try a shared lock, close. *)
InspectOpen(p) ==
    /\ pc[p] = "idle"
    /\ path # NoFile
    /\ fd' = [fd EXCEPT ![p] = path]
    /\ pc' = [pc EXCEPT ![p] = "probe"]
    /\ UNCHANGED <<path, tries, creating>>

InspectLock(p) ==
    /\ pc[p] = "probe"
    /\ IF \A q \in Procs \ {p} : fd[q] = fd[p] => ~Exclusive(q)
       THEN pc' = [pc EXCEPT ![p] = "shared"] /\ UNCHANGED fd
       ELSE CloseTo(p, "idle")                      \* Locked
    /\ UNCHANGED <<path, tries, creating>>

InspectClose(p) ==
    /\ pc[p] \in {"probe", "shared"}
    /\ CloseTo(p, "idle")
    /\ UNCHANGED <<path, tries, creating>>

LockStep(p) ==
    \/ Acquire(p) \/ OpenLockFile(p) \/ Reopen(p) \/ TryLock(p) \/ Verify(p)
    \/ AcquireFails(p) \/ RemoveLockFile(p) \/ Release(p)
    \/ InspectOpen(p) \/ InspectLock(p) \/ InspectClose(p)

LockNext == \E p \in Procs : LockStep(p)

LockSpec == LockInit /\ [][LockNext]_lockVars

-----------------------------------------------------------------------------
Owner(p) == pc[p] = "held"

(* The lock file implements a lock although the file comes and goes: the   *)
(* owner is the process that compared its descriptor with the path, and a  *)
(* purge gives the lock up when it removes the file, not when it closes it. *)
Lock == INSTANCE Mutex WITH owners <- {p \in Procs : Owner(p)}

FileLockIsMutex == Lock!MutexSpec

(* The inductive invariant behind it.  Descriptors are open where the code *)
(* holds one; two exclusive flocks are never on one inode; and a holder's  *)
(* descriptor is the file the path names.                                  *)
LockInv ==
    /\ \A p \in Procs : pc[p] \in {"lock", "verify", "held", "purged"} => fd[p] \in Inodes
    /\ \A p, q \in Procs : Exclusive(p) /\ Exclusive(q) /\ fd[p] = fd[q] => p = q
    /\ \A p \in Procs : Owner(p) => fd[p] = path

=============================================================================
