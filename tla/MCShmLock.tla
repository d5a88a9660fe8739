----------------------------- MODULE MCShmLock -----------------------------
(***************************************************************************)
(* ShmLock for TLC, twice over the same variables: as the cfg says, with a *)
(* set-up that completes; and with one lock, which is rounded up to a      *)
(* bitmap, and processes that are killed inside setup_lock_shm.            *)
(***************************************************************************)
EXTENDS ShmLock

VARIABLE killed  \* which of the two runs

K == INSTANCE ShmLock WITH NumLocks <- 1, KillDuringSetup <- TRUE

MCInit == Init /\ killed \in BOOLEAN

MCNext == IF killed THEN K!Next /\ UNCHANGED killed ELSE Next /\ UNCHANGED killed

MCSpec ==
    /\ MCInit /\ [][MCNext]_<<vars, killed>>
    /\ \A p \in Procs : WF_vars(LockSemaphore(p)) /\ WF_vars(TakeSegmentLock(p))

\* DeadOwnerIsReplaced of a set-up that completes.
ReplacedUnlessKilled == [](~killed) => DeadOwnerIsReplaced
=============================================================================
