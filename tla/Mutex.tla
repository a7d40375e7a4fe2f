------------------------------- MODULE Mutex -------------------------------
(***************************************************************************)
(* What a lock promises, and nothing about how: at most one process owns   *)
(* it, and it changes hands only through a release.  Two parts of wgft     *)
(* build such a lock out of something weaker and are shown to implement    *)
(* this specification: FileLock (the lock file beside the server database  *)
(* and agent.json) and LockTable (the per-agent lock of the stream hub).   *)
(***************************************************************************)

CONSTANT Procs

VARIABLE owners      \* the set of processes that may act as the owner

MutexInit == owners = {}

MutexAcquire(p) ==
    /\ owners = {}
    /\ owners' = {p}

MutexRelease(p) ==
    /\ owners = {p}
    /\ owners' = {}

MutexNext == \E p \in Procs : MutexAcquire(p) \/ MutexRelease(p)

MutexSpec == MutexInit /\ [][MutexNext]_owners

=============================================================================
