------------------------------ MODULE ShmLock ------------------------------
(***************************************************************************)
(* The shared-memory lock manager (libpod/lock/shm, shm_lock_manager_linux *)
(* and Runtime.getLockManager): a segment in /dev/shm holding a bitmap of  *)
(* allocated locks, guarded by segment_lock, and one robust pthread mutex  *)
(* per lock.  Every podman process opens the segment, and any of them can  *)
(* be killed between any two steps.                                        *)
(***************************************************************************)
EXTENDS Integers, FiniteSets

CONSTANTS Procs,            \* podman processes (one locking OS thread each)
          BITMAP_SIZE,      \* bits in a bitmap_t
          NumLocks,         \* engine.num_locks of containers.conf
          NoProc,           \* owner of a mutex that is not locked
          DeadProc,         \* owner of a mutex whose owner died holding it
          KillDuringSetup   \* may a process be killed inside setup_lock_shm

ASSUME ShmAssumption ==
    /\ BITMAP_SIZE \in Nat \ {0}
    /\ NumLocks \in Nat \ {0}
    /\ NoProc \notin Procs
    /\ DeadProc \notin Procs
    /\ NoProc # DeadProc
    /\ KillDuringSetup \in BOOLEAN

\* setup_lock_shm rounds the number of locks up to whole bitmaps.
num_bitmaps == (NumLocks + BITMAP_SIZE - 1) \div BITMAP_SIZE
RoundedLocks == num_bitmaps * BITMAP_SIZE
Locks == 0 .. RoundedLocks - 1

VARIABLES
    seg,           \* the segment's header, see SegmentType
    bitmap,        \* the set of IDs whose bit is set
    segment_lock,  \* owner of the mutex that protects the bitmaps
    locks,         \* ID -> owner of its mutex
    aliveLock,     \* owner of alive.lck, held while a runtime is being made
    pc,            \* where each process is
    op,            \* the segment operation a process is performing
    sem,           \* the lock ID it is about (0 outside a call)
    maxLocks,      \* SHMLocks.maxLocks of each process
    handles,       \* the SHMLock objects each process has
    issued         \* IDs handed out and not yet given to Free (history)

vars == <<seg, bitmap, segment_lock, locks, aliveLock, pc, op, sem, maxLocks,
          handles, issued>>
procVars == <<op, sem, maxLocks, handles>>
shmVars == <<seg, bitmap, segment_lock, locks>>

\* inited counts initialised mutexes: segment_lock first, then lock 0, 1, ...
SegmentType == [exists : BOOLEAN, sized : BOOLEAN, magic : BOOLEAN,
                num_locks : {0, RoundedLocks}, inited : 0 .. RoundedLocks + 1]
NoSegment == [exists |-> FALSE, sized |-> FALSE, magic |-> FALSE,
              num_locks |-> 0, inited |-> 0]

SetupPCs == {"created", "sized", "magic", "header"}
SegmentPCs == {"wait", "held", "picked", "done"}
PCs == {"off", "init", "idle", "locking"} \cup SetupPCs \cup SegmentPCs
Ops == {"none", "allocate", "allocateGiven", "deallocate", "deallocateAll"}
Owners == Procs \cup {NoProc, DeadProc}

Init ==
    /\ seg = NoSegment
    /\ bitmap = {}
    /\ segment_lock = NoProc
    /\ locks = [id \in Locks |-> NoProc]
    /\ aliveLock = NoProc
    /\ pc = [p \in Procs |-> "off"]
    /\ op = [p \in Procs |-> "none"]
    /\ sem = [p \in Procs |-> 0]
    /\ maxLocks = [p \in Procs |-> 0]
    /\ handles = [p \in Procs |-> {}]
    /\ issued = {}
-----------------------------------------------------------------------------
(* pthread mutexes: initialised ones are robust, a zeroed one is not *)

Robust(m) == m < seg.inited
SegmentMutex == 0
LockMutex(id) == id + 1

\* Mutant: EOWNERDEAD treated as any other error.
CanTake_OwnerDeadIsError(owner, m) == owner = NoProc

\* take_mutex succeeds: the mutex is free, or its owner died and the mutex is
\* robust, in which case EOWNERDEAD is followed by pthread_mutex_consistent.
CanTake(owner, m) == owner = NoProc \/ (owner = DeadProc /\ Robust(m))
-----------------------------------------------------------------------------
(* makeRuntime and getLockManager: open the segment, or create it *)

GotoOf(p, from, to) ==
    /\ pc[p] = from
    /\ pc' = [pc EXCEPT ![p] = to]

\* makeRuntime takes alive.lck before it looks at the lock manager.
StartRuntime(p) ==
    /\ GotoOf(p, "off", "init")
    /\ aliveLock = NoProc
    /\ aliveLock' = p
    /\ UNCHANGED <<shmVars, procVars, issued>>

\* open_lock_shm finds the magic number and the number of locks it expects.
OpenSHMLock(p) ==
    /\ GotoOf(p, "init", "idle")
    /\ seg.exists /\ seg.sized /\ seg.magic /\ seg.num_locks = RoundedLocks
    /\ maxLocks' = [maxLocks EXCEPT ![p] = NumLocks]
    /\ aliveLock' = NoProc
    /\ UNCHANGED <<shmVars, op, sem, handles, issued>>

\* EBADF or ERANGE, and a SIGBUS when the file was never sized: no runtime.
OpenSHMLockFails(p) ==
    /\ GotoOf(p, "init", "off")
    /\ seg.exists
    /\ ~seg.sized \/ ~seg.magic \/ seg.num_locks # RoundedLocks
    /\ aliveLock' = NoProc
    /\ UNCHANGED <<shmVars, procVars, issued>>

\* ERANGE while renumbering: the old segment is unlinked and recreated.
RecreateSHMLock(p) ==
    /\ GotoOf(p, "init", "created")
    /\ seg.exists /\ seg.sized /\ seg.magic /\ seg.num_locks # RoundedLocks
    /\ seg' = [NoSegment EXCEPT !.exists = TRUE]
    /\ UNCHANGED <<bitmap, segment_lock, locks, aliveLock, procVars, issued>>

\* ENOENT from open_lock_shm: shm_open(O_CREAT | O_EXCL) in setup_lock_shm.
SetupCreate(p) ==
    /\ GotoOf(p, "init", "created")
    /\ ~seg.exists
    /\ seg' = [seg EXCEPT !.exists = TRUE]
    /\ UNCHANGED <<bitmap, segment_lock, locks, aliveLock, procVars, issued>>

SetupTruncate(p) ==
    /\ GotoOf(p, "created", "sized")
    /\ seg' = [seg EXCEPT !.sized = TRUE]
    /\ UNCHANGED <<bitmap, segment_lock, locks, aliveLock, procVars, issued>>

SetupMagic(p) ==
    /\ GotoOf(p, "sized", "magic")
    /\ seg' = [seg EXCEPT !.magic = TRUE]
    /\ UNCHANGED <<bitmap, segment_lock, locks, aliveLock, procVars, issued>>

SetupHeader(p) ==
    /\ GotoOf(p, "magic", "header")
    /\ seg' = [seg EXCEPT !.num_locks = RoundedLocks]
    /\ UNCHANGED <<bitmap, segment_lock, locks, aliveLock, procVars, issued>>

\* pthread_mutex_init of segment_lock, then, bitmap by bitmap, of the locks.
SetupMutex(p) ==
    /\ pc[p] = "header"
    /\ seg.inited < RoundedLocks + 1
    /\ seg' = [seg EXCEPT !.inited = @ + 1]
    /\ UNCHANGED <<bitmap, segment_lock, locks, aliveLock, pc, procVars, issued>>

SetupDone(p) ==
    /\ GotoOf(p, "header", "idle")
    /\ seg.inited = RoundedLocks + 1
    /\ maxLocks' = [maxLocks EXCEPT ![p] = seg.num_locks]
    /\ aliveLock' = NoProc
    /\ UNCHANGED <<shmVars, op, sem, handles, issued>>

\* ftruncate, mmap or a pthread call fails: CLEANUP_UNLINK.
SetupFails(p) ==
    /\ pc[p] \in SetupPCs
    /\ pc' = [pc EXCEPT ![p] = "off"]
    /\ seg' = NoSegment
    /\ aliveLock' = NoProc
    /\ UNCHANGED <<bitmap, segment_lock, locks, procVars, issued>>
-----------------------------------------------------------------------------
(* Operations on the bitmap, between take_mutex and release_mutex of       *)
(* segment_lock                                                            *)

BeginOp(p, o, id) ==
    /\ GotoOf(p, "idle", "wait")
    /\ op' = [op EXCEPT ![p] = o]
    /\ sem' = [sem EXCEPT ![p] = id]
    /\ UNCHANGED <<shmVars, aliveLock, maxLocks, handles>>

AllocateLock(p) == BeginOp(p, "allocate", 0) /\ UNCHANGED issued

\* Used by refresh to claim the ID recorded in the database.
AllocateAndRetrieveLock(p, id) ==
    /\ id < maxLocks[p]
    /\ BeginOp(p, "allocateGiven", id)
    /\ UNCHANGED issued

\* Free: libpod calls it once per allocation, when it deletes the object the
\* lock belongs to.  SHMLocks refuses an ID above maxLocks (not at it).
FreeLock(p, id) ==
    /\ id \in handles[p] \cap issued
    /\ id <= maxLocks[p]
    /\ BeginOp(p, "deallocate", id)
    /\ issued' = issued \ {id}

\* RenumberLocks, up to FreeAllLocks: it holds alive.lck, so that no podman
\* starts, and "should NOT be run while there are other" ones.
FreeAllLocks(p) ==
    /\ \A q \in Procs \ {p} : pc[q] = "off"
    /\ aliveLock = NoProc
    /\ aliveLock' = p
    /\ GotoOf(p, "idle", "wait")
    /\ op' = [op EXCEPT ![p] = "deallocateAll"]
    /\ UNCHANGED <<shmVars, sem, maxLocks, handles, issued>>

\* Mutant: the bitmap is changed without waiting for segment_lock.
TakeSegmentLock_NoWait(p) ==
    /\ GotoOf(p, "wait", "held")
    /\ segment_lock' = p
    /\ UNCHANGED <<seg, bitmap, locks, aliveLock, procVars, issued>>

TakeSegmentLock(p) ==
    /\ GotoOf(p, "wait", "held")
    /\ CanTake(segment_lock, SegmentMutex)
    /\ segment_lock' = p
    /\ UNCHANGED <<seg, bitmap, locks, aliveLock, procVars, issued>>

FreeIDs == Locks \ bitmap

\* The scan of allocate_semaphore: the first clear bit.
FindFree(p) ==
    /\ op[p] = "allocate"
    /\ GotoOf(p, "held", "picked")
    /\ \E id \in FreeIDs :
          /\ \A x \in FreeIDs : id <= x
          /\ sem' = [sem EXCEPT ![p] = id]
    /\ UNCHANGED <<shmVars, aliveLock, op, maxLocks, handles, issued>>

\* The test of allocate_given_semaphore.
TestGiven(p) ==
    /\ op[p] = "allocateGiven"
    /\ GotoOf(p, "held", "picked")
    /\ sem[p] \notin bitmap
    /\ UNCHANGED <<shmVars, aliveLock, procVars, issued>>

\* The OR into the bitmap, by either allocation.
SetBit(p) ==
    /\ op[p] \in {"allocate", "allocateGiven"}
    /\ GotoOf(p, "picked", "done")
    /\ bitmap' = bitmap \cup {sem[p]}
    /\ UNCHANGED <<seg, segment_lock, locks, aliveLock, procVars, issued>>

ClearBit(p) ==
    /\ op[p] = "deallocate"
    /\ GotoOf(p, "held", "done")
    /\ sem[p] \in bitmap
    /\ bitmap' = bitmap \ {sem[p]}
    /\ UNCHANGED <<seg, segment_lock, locks, aliveLock, procVars, issued>>

\* Every lock is unallocated from here on, whoever it was issued to.
ClearAll(p) ==
    /\ op[p] = "deallocateAll"
    /\ GotoOf(p, "held", "done")
    /\ bitmap' = {}
    /\ issued' = {}
    /\ UNCHANGED <<seg, segment_lock, locks, aliveLock, procVars>>

EndOp(p) ==
    /\ pc' = [pc EXCEPT ![p] = "idle"]
    /\ op' = [op EXCEPT ![p] = "none"]
    /\ segment_lock' = NoProc
    /\ aliveLock' = IF aliveLock = p THEN NoProc ELSE aliveLock
    /\ sem' = [sem EXCEPT ![p] = 0]
    /\ UNCHANGED <<seg, bitmap, locks, maxLocks>>

\* An allocation returns: the caller now has the lock with ID sem[p].
ReturnAllocated(p) ==
    /\ pc[p] = "done"
    /\ op[p] \in {"allocate", "allocateGiven"}
    /\ issued' = issued \cup {sem[p]}
    /\ handles' = [handles EXCEPT ![p] = @ \cup {sem[p]}]
    /\ EndOp(p)

ReturnDeallocated(p) ==
    /\ pc[p] = "done"
    /\ op[p] \in {"deallocate", "deallocateAll"}
    /\ UNCHANGED <<handles, issued>>
    /\ EndOp(p)

\* ENOSPC, EEXIST and ENOENT release segment_lock and change nothing.
ReturnError(p) ==
    /\ pc[p] = "held"
    /\ \/ op[p] = "allocate" /\ FreeIDs = {}
       \/ op[p] = "allocateGiven" /\ sem[p] \in bitmap
       \/ op[p] = "deallocate" /\ sem[p] \notin bitmap
    /\ UNCHANGED <<handles, issued>>
    /\ EndOp(p)
-----------------------------------------------------------------------------
(* The locks themselves *)

\* The database names the lock of every object that exists.
RetrieveLock(p, id) ==
    /\ pc[p] = "idle"
    /\ id \in issued
    /\ id < maxLocks[p]
    /\ handles' = [handles EXCEPT ![p] = @ \cup {id}]
    /\ UNCHANGED <<shmVars, aliveLock, pc, op, sem, maxLocks, issued>>

\* Lock() is called; an ID out of range would be a panic, see Crash.
CallLock(p, id) ==
    /\ GotoOf(p, "idle", "locking")
    /\ id \in handles[p]
    /\ id <= maxLocks[p]
    /\ locks[id] # p
    /\ sem' = [sem EXCEPT ![p] = id]
    /\ UNCHANGED <<shmVars, aliveLock, op, maxLocks, handles, issued>>

\* Mutant: a busy mutex is taken all the same.
LockSemaphore_IgnoresBusy(p) ==
    /\ GotoOf(p, "locking", "idle")
    /\ locks' = [locks EXCEPT ![sem[p]] = p]
    /\ sem' = [sem EXCEPT ![p] = 0]
    /\ UNCHANGED <<seg, bitmap, segment_lock, aliveLock, op, maxLocks, handles, issued>>

LockSemaphore(p) ==
    /\ GotoOf(p, "locking", "idle")
    /\ CanTake(locks[sem[p]], LockMutex(sem[p]))
    /\ locks' = [locks EXCEPT ![sem[p]] = p]
    /\ sem' = [sem EXCEPT ![p] = 0]
    /\ UNCHANGED <<seg, bitmap, segment_lock, aliveLock, op, maxLocks, handles, issued>>

UnlockSemaphore(p, id) ==
    /\ pc[p] = "idle"
    /\ locks[id] = p
    /\ locks' = [locks EXCEPT ![id] = NoProc]
    /\ UNCHANGED <<seg, bitmap, segment_lock, aliveLock, pc, procVars, issued>>

\* try_lock, called by GetTakenLocks: a lock it can take is released at once,
\* which also makes a lock abandoned by a dead owner consistent.
TryLock(p, id) ==
    /\ pc[p] = "idle"
    /\ id < maxLocks[p]
    /\ CanTake(locks[id], LockMutex(id))
    /\ locks' = [locks EXCEPT ![id] = NoProc]
    /\ UNCHANGED <<seg, bitmap, segment_lock, aliveLock, pc, procVars, issued>>
-----------------------------------------------------------------------------
(* A process exits, panics or is killed: the kernel marks its mutexes, and *)
(* drops its file lock                                                     *)

Abandon(owner, p) == IF owner = p THEN DeadProc ELSE owner

Crash(p) ==
    /\ pc[p] # "off"
    /\ pc[p] \in SetupPCs => KillDuringSetup
    /\ pc' = [pc EXCEPT ![p] = "off"]
    /\ op' = [op EXCEPT ![p] = "none"]
    /\ maxLocks' = [maxLocks EXCEPT ![p] = 0]
    /\ handles' = [handles EXCEPT ![p] = {}]
    /\ segment_lock' = Abandon(segment_lock, p)
    /\ locks' = [id \in Locks |-> Abandon(locks[id], p)]
    /\ aliveLock' = IF aliveLock = p THEN NoProc ELSE aliveLock
    /\ sem' = [sem EXCEPT ![p] = 0]
    /\ UNCHANGED <<seg, bitmap, issued>>
-----------------------------------------------------------------------------
Runtime(p) ==
    \/ StartRuntime(p) \/ OpenSHMLock(p) \/ OpenSHMLockFails(p)
    \/ RecreateSHMLock(p)

Setup(p) ==
    \/ SetupCreate(p) \/ SetupTruncate(p) \/ SetupMagic(p) \/ SetupHeader(p)
    \/ SetupMutex(p) \/ SetupDone(p) \/ SetupFails(p)

Call(p) ==
    \/ AllocateLock(p) \/ FreeAllLocks(p)
    \/ \E id \in Locks : \/ AllocateAndRetrieveLock(p, id)
                         \/ FreeLock(p, id)
                         \/ RetrieveLock(p, id)
                         \/ CallLock(p, id)
                         \/ TryLock(p, id)

SegmentStep(p) ==
    \/ TakeSegmentLock(p) \/ FindFree(p) \/ TestGiven(p) \/ SetBit(p)
    \/ ClearBit(p) \/ ClearAll(p) \/ ReturnAllocated(p)
    \/ ReturnDeallocated(p) \/ ReturnError(p)

Next ==
    \E p \in Procs :
        \/ Runtime(p) \/ Setup(p) \/ Call(p) \/ SegmentStep(p)
        \/ LockSemaphore(p)
        \/ \E id \in Locks : UnlockSemaphore(p, id)
        \/ Crash(p)

Spec == Init /\ [][Next]_vars

\* A process blocked in pthread_mutex_lock that the kernel could wake, and
\* keeps being able to wake, runs eventually.  Nothing is assumed of lock
\* holders, which may keep a lock forever, nor of calls being made.
FairSpec ==
    Spec /\ \A p \in Procs : WF_vars(LockSemaphore(p)) /\ WF_vars(TakeSegmentLock(p))
-----------------------------------------------------------------------------
(* Properties *)

\* Every variable stays in its range; in particular setup_lock_shm never
\* initialises more mutexes than the segment has.
TypeOK ==
    /\ seg \in SegmentType
    /\ bitmap \in SUBSET Locks
    /\ segment_lock \in Owners
    /\ locks \in [Locks -> Owners]
    /\ aliveLock \in Procs \cup {NoProc}
    /\ pc \in [Procs -> PCs]
    /\ op \in [Procs -> Ops]
    /\ sem \in [Procs -> Locks]
    /\ maxLocks \in [Procs -> 0 .. RoundedLocks]
    /\ handles \in [Procs -> SUBSET Locks]
    /\ issued \in SUBSET Locks

Allocating(p) ==
    /\ pc[p] \in {"picked", "done"}
    /\ op[p] \in {"allocate", "allocateGiven"}

\* An ID that allocate_semaphore or allocate_given_semaphore is about to
\* return is in use by nobody, and no other process is about to be given it,
\* whatever processes died in the middle of the same calls.
UniqueAllocation ==
    \A p \in Procs : Allocating(p) =>
        /\ sem[p] \notin issued
        /\ \A q \in Procs \ {p} : Allocating(q) => sem[q] # sem[p]

\* A process blocked on a lock, or on segment_lock, is not blocked for ever by
\* a process that died holding it (EOWNERDEAD in take_mutex).
DeadOwnerIsReplaced ==
    \A p \in Procs :
        /\ (pc[p] = "locking" /\ locks[sem[p]] = DeadProc)
              ~> (pc[p] # "locking" \/ locks[sem[p]] # DeadProc)
        /\ (pc[p] = "wait" /\ segment_lock = DeadProc)
              ~> (pc[p] # "wait" \/ segment_lock # DeadProc)

\* The segment implements the contract of lock.go: a lock held by a dead
\* process is a free lock.
LM == INSTANCE LockManager WITH
        Locks <- Locks,
        holder <- [id \in Locks |-> IF locks[id] \in Procs THEN locks[id] ELSE NoProc]

\* SHM lock segments behave as lock.Manager promises: an issued ID is issued
\* again only after Free, and a lock has one holder at a time.
ImplementsLockManager == LM!AbsSpec
=============================================================================
