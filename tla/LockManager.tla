---------------------------- MODULE LockManager ----------------------------
(***************************************************************************)
(* What libpod/lock/lock.go promises to the rest of libpod, independently  *)
(* of how the locks are stored: a fixed set of multiprocess locks, each    *)
(* handed out at most once until it is freed, each held by at most one     *)
(* process, and usable whether or not it is still allocated.               *)
(***************************************************************************)
CONSTANTS Procs,     \* the processes that use the manager
          Locks,     \* the lock IDs ("UUIDs" in lock.go)
          NoProc     \* the holder of a lock that nobody holds

VARIABLES issued,    \* IDs returned by AllocateLock and not yet given to Free
          holder     \* lock ID -> the process inside its critical section

absVars == <<issued, holder>>

AbsInit ==
    /\ issued = {}
    /\ holder = [id \in Locks |-> NoProc]

\* AllocateLock and AllocateAndRetrieveLock: only an ID that is not in use.
Allocate(id) ==
    /\ id \notin issued
    /\ issued' = issued \cup {id}
    /\ UNCHANGED holder

Free(id) ==
    /\ issued' = issued \ {id}
    /\ UNCHANGED holder

FreeAll ==
    /\ issued' = {}
    /\ UNCHANGED holder

\* Lock does not ask for the lock to be allocated: "The lock MUST still be
\* usable after a Free()".
Acquire(p, id) ==
    /\ holder[id] = NoProc
    /\ holder' = [holder EXCEPT ![id] = p]
    /\ UNCHANGED issued

Release(p, id) ==
    /\ holder[id] = p
    /\ holder' = [holder EXCEPT ![id] = NoProc]
    /\ UNCHANGED issued

\* The locks of a process that dies become available to the others.
Die(p) ==
    /\ holder' = [id \in Locks |-> IF holder[id] = p THEN NoProc ELSE holder[id]]
    /\ UNCHANGED issued

AbsNext ==
    \/ FreeAll
    \/ \E id \in Locks : Allocate(id) \/ Free(id)
    \/ \E p \in Procs, id \in Locks : Acquire(p, id) \/ Release(p, id)
    \/ \E p \in Procs : Die(p)

AbsSpec == AbsInit /\ [][AbsNext]_absVars
=============================================================================
