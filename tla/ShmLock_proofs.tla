--------------------------- MODULE ShmLock_proofs ---------------------------
(* Proofs of the safety properties of ShmLock, for any processes and sizes *)
EXTENDS ShmLock, TLAPS

\* Dividing rounds down, by less than the divisor.
LEMMA DivisionRoundsDown ==
    ASSUME NEW n \in Nat, NEW b \in Nat, b > 0
    PROVE  n \div b \in Nat /\ n < (n \div b) * b + b
<1>1. n \div b \in Int /\ n \div b >= 0
  OBVIOUS
<1>2. n < b * (n \div b) + b
  OBVIOUS
<1>3. b * (n \div b) = (n \div b) * b
  BY <1>1
<1> QED BY <1>1, <1>2, <1>3

\* Rounding up to whole bitmaps (setup_lock_shm) never loses a lock.
LEMMA RoundingUp == RoundedLocks \in Nat /\ NumLocks <= RoundedLocks /\ 0 \in Locks
<1>1. NumLocks + BITMAP_SIZE - 1 \in Nat /\ BITMAP_SIZE \in Nat /\ BITMAP_SIZE > 0
  BY ShmAssumption
<1>2. /\ num_bitmaps \in Nat
      /\ NumLocks + BITMAP_SIZE - 1 < num_bitmaps * BITMAP_SIZE + BITMAP_SIZE
  BY Zenon, <1>1, DivisionRoundsDown DEF num_bitmaps
<1>3. num_bitmaps * BITMAP_SIZE \in Nat
  BY <1>1, <1>2
<1> QED BY <1>1, <1>2, <1>3, ShmAssumption DEF RoundedLocks, Locks
-----------------------------------------------------------------------------
(* Type correctness *)

\* Init and every action of the lock manager keep the variables in range.
LEMMA InitTypeOK == Init => TypeOK
  BY RoundingUp, ShmAssumption
  DEF Init, TypeOK, NoSegment, SegmentType, Owners, PCs, Ops

\* One step per action of shm_lock.c and of its Go callers.
LEMMA NextTypeOK == TypeOK /\ [Next]_vars => TypeOK'
<1> SUFFICES ASSUME TypeOK, [Next]_vars PROVE TypeOK'
  BY Zenon
<1> USE RoundingUp, ShmAssumption
<1>1. CASE UNCHANGED vars
  BY Zenon, <1>1 DEF vars, TypeOK
<1>2. CASE Next
  <2>1. PICK p \in Procs :
          \/ Runtime(p) \/ Setup(p) \/ Call(p) \/ SegmentStep(p)
          \/ LockSemaphore(p)
          \/ \E id \in Locks : UnlockSemaphore(p, id)
          \/ Crash(p)
    BY Zenon, <1>2 DEF Next
  <2>2. CASE Runtime(p)
    <3>1. CASE RecreateSHMLock(p)
      <4>1. NoSegment \in SegmentType
        BY DEF NoSegment, SegmentType
      <4>2. seg' \in SegmentType
        BY Zenon, <3>1, <4>1 DEF RecreateSHMLock, SegmentType
      <4> QED BY Zenon, <3>1, <4>2 DEF RecreateSHMLock, GotoOf, TypeOK, PCs, SetupPCs, procVars
    <3>2. CASE StartRuntime(p) \/ OpenSHMLock(p) \/ OpenSHMLockFails(p)
      BY <3>2 DEF StartRuntime, OpenSHMLock, OpenSHMLockFails, GotoOf, TypeOK, PCs,
                  shmVars, procVars
    <3> QED BY Zenon, <2>2, <3>1, <3>2 DEF Runtime
  <2>3. CASE Setup(p)
    <3>1. CASE SetupMutex(p)
      BY <3>1 DEF SetupMutex, TypeOK, SegmentType, procVars
    <3>2. CASE SetupDone(p)
      BY <3>2 DEF SetupDone, GotoOf, TypeOK, PCs, SegmentType, shmVars
    <3>3. CASE SetupCreate(p)
      BY Zenon, <3>3 DEF SetupCreate, GotoOf, TypeOK, PCs, SetupPCs, SegmentType, procVars
    <3>4. CASE SetupTruncate(p)
      BY Zenon, <3>4 DEF SetupTruncate, GotoOf, TypeOK, PCs, SetupPCs, SegmentType, procVars
    <3>5. CASE SetupMagic(p)
      BY Zenon, <3>5 DEF SetupMagic, GotoOf, TypeOK, PCs, SetupPCs, SegmentType, procVars
    <3>6. CASE SetupHeader(p)
      BY Zenon, <3>6 DEF SetupHeader, GotoOf, TypeOK, PCs, SetupPCs, SegmentType, procVars
    <3>7. CASE SetupFails(p)
      BY <3>7 DEF SetupFails, NoSegment, TypeOK, PCs, SegmentType, procVars
    <3> QED BY Zenon, <2>3, <3>1, <3>2, <3>3, <3>4, <3>5, <3>6, <3>7 DEF Setup
  <2>4. CASE Call(p)
    BY <2>4 DEF Call, AllocateLock, AllocateAndRetrieveLock, FreeLock, FreeAllLocks,
                RetrieveLock, CallLock, TryLock, BeginOp, GotoOf, TypeOK, PCs,
                SegmentPCs, Ops, Owners, shmVars, procVars
  <2>5. CASE SegmentStep(p)
    <3>1. CASE FindFree(p)
      BY Zenon, <3>1 DEF FindFree, FreeIDs, GotoOf, TypeOK, PCs, SegmentPCs, shmVars
    <3>2. CASE TakeSegmentLock(p) \/ TestGiven(p) \/ SetBit(p) \/ ClearBit(p) \/ ClearAll(p)
      BY Zenon, <3>2 DEF TakeSegmentLock, TestGiven, SetBit, ClearBit, ClearAll, GotoOf,
                  TypeOK, PCs, SegmentPCs, Owners, shmVars, procVars
    <3>3. CASE ReturnAllocated(p) \/ ReturnDeallocated(p) \/ ReturnError(p)
      BY <3>3 DEF ReturnAllocated, ReturnDeallocated, ReturnError, EndOp, TypeOK,
                  PCs, Ops, Owners
    <3> QED BY Zenon, <2>5, <3>1, <3>2, <3>3 DEF SegmentStep
  <2>6. CASE LockSemaphore(p)
    BY Zenon, <2>6 DEF LockSemaphore, GotoOf, TypeOK, PCs, Owners
  <2>7. CASE \E id \in Locks : UnlockSemaphore(p, id)
    BY Zenon, <2>7 DEF UnlockSemaphore, TypeOK, Owners, procVars
  <2>8. CASE Crash(p)
    BY <2>8 DEF Crash, Abandon, TypeOK, PCs, Ops, Owners
  <2> QED BY Zenon, <2>1, <2>2, <2>3, <2>4, <2>5, <2>6, <2>7, <2>8
<1> QED BY Zenon, <1>1, <1>2

\* setup_lock_shm, the allocation calls and owner death keep the segment and
\* the processes in the states the code can represent.
THEOREM TypeCorrect == Spec => []TypeOK
  BY InitTypeOK, NextTypeOK, PTL DEF Spec
-----------------------------------------------------------------------------
(* Allocation: the inductive invariant behind UniqueAllocation *)

InSegment(p) == pc[p] \in {"held", "picked", "done"}
Freeing(p) == pc[p] \in {"wait", "held"} /\ op[p] = "deallocate"
InRuntimeInit(p) == pc[p] \in {"init"} \cup SetupPCs

\* Whoever looks at the bitmap holds segment_lock, so there is one at a time.
SegmentExclusion == \A p \in Procs : InSegment(p) => segment_lock = p

\* alive.lck serialises the making of runtimes with FreeAllLocks, which runs
\* when there is no other process.
AliveExclusion ==
    \A p \in Procs :
        /\ InRuntimeInit(p) => aliveLock = p
        /\ pc[p] \in SegmentPCs /\ op[p] = "deallocateAll" =>
              aliveLock = p /\ \A q \in Procs \ {p} : pc[q] = "off"

\* The bitmap covers every lock somebody has, and the states in between: a
\* bit about to be set is clear, a bit just set is nobody's yet, and a bit
\* about to be cleared is set, nobody's, and cleared by one process only.
BitmapAgrees ==
    /\ issued \subseteq bitmap
    /\ \A p \in Procs : pc[p] = "picked" =>
          op[p] \in {"allocate", "allocateGiven"} /\ sem[p] \notin bitmap
    /\ \A p \in Procs : pc[p] = "done" /\ op[p] \in {"allocate", "allocateGiven"} =>
          /\ sem[p] \in bitmap \ issued
          /\ \A q \in Procs : Freeing(q) => sem[q] # sem[p]
    /\ \A p \in Procs : Freeing(p) =>
          /\ sem[p] \in bitmap \ issued
          /\ \A q \in Procs \ {p} : Freeing(q) => sem[q] # sem[p]

IInv == TypeOK /\ SegmentExclusion /\ AliveExclusion /\ BitmapAgrees

\* Without a segment nobody holds anything.
LEMMA InitIInv == Init => IInv
  BY Zenon, InitTypeOK
  DEF Init, IInv, SegmentExclusion, AliveExclusion, BitmapAgrees, InSegment, Freeing,
      InRuntimeInit, SetupPCs, SegmentPCs

\* Acquiring segment_lock, also from a dead owner, keeps the others out.
LEMMA NextSegmentExclusion == IInv /\ [Next]_vars => SegmentExclusion'
<1> SUFFICES ASSUME IInv, [Next]_vars, NEW q \in Procs, InSegment(q)'
             PROVE  segment_lock' = q
  BY Zenon DEF SegmentExclusion
<1> USE ShmAssumption DEF IInv, SegmentExclusion, InSegment
<1>1. CASE UNCHANGED vars
  BY Zenon, <1>1 DEF vars
<1>2. CASE Next
  <2>1. PICK p \in Procs :
          \/ Runtime(p) \/ Setup(p) \/ Call(p) \/ SegmentStep(p)
          \/ LockSemaphore(p)
          \/ \E id \in Locks : UnlockSemaphore(p, id)
          \/ Crash(p)
    BY Zenon, <1>2 DEF Next
  <2>2. CASE Runtime(p)
    BY Zenon, <2>2 DEF Runtime, StartRuntime, OpenSHMLock, OpenSHMLockFails, RecreateSHMLock,
                GotoOf, TypeOK, shmVars
  <2>3. CASE Setup(p)
    BY Zenon, <2>3 DEF Setup, SetupCreate, SetupTruncate, SetupMagic, SetupHeader, SetupMutex,
                SetupDone, SetupFails, GotoOf, TypeOK, shmVars, SetupPCs
  <2>4. CASE Call(p)
    BY Zenon, <2>4 DEF Call, AllocateLock, AllocateAndRetrieveLock, FreeLock, FreeAllLocks,
                RetrieveLock, CallLock, TryLock, BeginOp, GotoOf, TypeOK, shmVars
  <2>5. CASE SegmentStep(p)
    BY <2>5 DEF SegmentStep, TakeSegmentLock, FindFree, TestGiven, SetBit, ClearBit,
                ClearAll, ReturnAllocated, ReturnDeallocated, ReturnError, EndOp,
                CanTake, GotoOf, TypeOK, shmVars
  <2>6. CASE LockSemaphore(p) \/ (\E id \in Locks : UnlockSemaphore(p, id))
    BY Zenon, <2>6 DEF LockSemaphore, UnlockSemaphore, GotoOf, TypeOK
  <2>7. CASE Crash(p)
    BY Zenon, <2>7 DEF Crash, Abandon, TypeOK
  <2> QED BY Zenon, <2>1, <2>2, <2>3, <2>4, <2>5, <2>6, <2>7
<1> QED BY Zenon, <1>1, <1>2

\* alive.lck is only released by the process that holds it.
LEMMA NextAliveExclusion == IInv /\ [Next]_vars => AliveExclusion'
<1> SUFFICES ASSUME IInv, [Next]_vars PROVE AliveExclusion'
  BY Zenon
<1> USE ShmAssumption DEF IInv, AliveExclusion, InRuntimeInit, SetupPCs, SegmentPCs
<1>1. CASE UNCHANGED vars
  BY Zenon, <1>1 DEF vars
<1>2. CASE Next
  <2>1. PICK p \in Procs :
          \/ Runtime(p) \/ Setup(p) \/ Call(p) \/ SegmentStep(p)
          \/ LockSemaphore(p)
          \/ \E id \in Locks : UnlockSemaphore(p, id)
          \/ Crash(p)
    BY Zenon, <1>2 DEF Next
  <2>2. CASE Runtime(p)
    BY <2>2 DEF Runtime, StartRuntime, OpenSHMLock, OpenSHMLockFails, RecreateSHMLock,
                GotoOf, TypeOK, procVars
  <2>3. CASE Setup(p)
    BY <2>3 DEF Setup, SetupCreate, SetupTruncate, SetupMagic, SetupHeader, SetupMutex,
                SetupDone, SetupFails, GotoOf, TypeOK, procVars
  <2>4. CASE Call(p)
    BY <2>4 DEF Call, AllocateLock, AllocateAndRetrieveLock, FreeLock, FreeAllLocks,
                RetrieveLock, CallLock, TryLock, BeginOp, GotoOf, TypeOK, procVars
  <2>5. CASE SegmentStep(p)
    BY <2>5 DEF SegmentStep, TakeSegmentLock, FindFree, TestGiven, SetBit, ClearBit,
                ClearAll, ReturnAllocated, ReturnDeallocated, ReturnError, EndOp,
                GotoOf, TypeOK, procVars
  <2>6. CASE LockSemaphore(p) \/ (\E id \in Locks : UnlockSemaphore(p, id))
    BY <2>6 DEF LockSemaphore, UnlockSemaphore, GotoOf, TypeOK, procVars
  <2>7. CASE Crash(p)
    BY Zenon, <2>7 DEF Crash, Abandon, TypeOK
  <2> QED BY Zenon, <2>1, <2>2, <2>3, <2>4, <2>5, <2>6, <2>7
<1> QED BY Zenon, <1>1, <1>2

\* Allocation and Free move an ID between the bitmap and its holder without
\* two processes ever disagreeing about it.
LEMMA NextBitmapAgrees == IInv /\ [Next]_vars => BitmapAgrees'
<1> SUFFICES ASSUME IInv, [Next]_vars PROVE BitmapAgrees'
  BY Zenon
<1> USE ShmAssumption DEF IInv, BitmapAgrees, Freeing
<1>1. CASE UNCHANGED vars
  BY Zenon, <1>1 DEF vars
<1>2. CASE Next
  <2>1. PICK p \in Procs :
          \/ Runtime(p) \/ Setup(p) \/ Call(p) \/ SegmentStep(p)
          \/ LockSemaphore(p)
          \/ \E id \in Locks : UnlockSemaphore(p, id)
          \/ Crash(p)
    BY Zenon, <1>2 DEF Next
  <2>2. CASE Runtime(p)
    BY <2>2 DEF Runtime, StartRuntime, OpenSHMLock, OpenSHMLockFails, RecreateSHMLock,
                GotoOf, TypeOK, shmVars, procVars
  <2>3. CASE Setup(p)
    BY <2>3 DEF Setup, SetupCreate, SetupTruncate, SetupMagic, SetupHeader, SetupMutex,
                SetupDone, SetupFails, GotoOf, TypeOK, shmVars, procVars, SetupPCs
  <2>4. CASE Call(p)
    BY <2>4 DEF Call, AllocateLock, AllocateAndRetrieveLock, FreeLock, FreeAllLocks,
                RetrieveLock, CallLock, TryLock, BeginOp, GotoOf, TypeOK, shmVars, procVars
  <2>5. CASE SegmentStep(p)
    <3>1. \A q \in Procs \ {p} : InSegment(p) => ~InSegment(q)
      BY Zenon DEF SegmentExclusion, InSegment
    <3>2. CASE TakeSegmentLock(p)
      BY <3>2 DEF TakeSegmentLock, GotoOf, TypeOK, procVars
    <3>3. CASE FindFree(p) \/ TestGiven(p)
      BY <3>3 DEF FindFree, TestGiven, FreeIDs, GotoOf, TypeOK, shmVars, procVars
    <3>4. CASE SetBit(p)
      BY Zenon, <3>1, <3>4 DEF SetBit, InSegment, GotoOf, TypeOK, procVars
    <3>5. CASE ClearBit(p)
      BY Zenon, <3>1, <3>5 DEF ClearBit, InSegment, GotoOf, TypeOK, procVars
    <3>6. CASE ClearAll(p)
      <4>1. \A q \in Procs \ {p} : pc[q] = "off"
        BY Zenon, <3>6 DEF ClearAll, GotoOf, AliveExclusion, SegmentPCs
      <4> QED BY Zenon, <3>6, <4>1 DEF ClearAll, GotoOf, TypeOK, procVars
    <3>7. CASE ReturnAllocated(p)
      BY <3>1, <3>7 DEF ReturnAllocated, EndOp, InSegment, TypeOK
    <3>8. CASE ReturnDeallocated(p) \/ ReturnError(p)
      BY <3>8 DEF ReturnDeallocated, ReturnError, EndOp, TypeOK
    <3> QED BY Zenon, <2>5, <3>2, <3>3, <3>4, <3>5, <3>6, <3>7, <3>8 DEF SegmentStep
  <2>6. CASE LockSemaphore(p) \/ (\E id \in Locks : UnlockSemaphore(p, id))
    BY <2>6 DEF LockSemaphore, UnlockSemaphore, GotoOf, TypeOK, procVars
  <2>7. CASE Crash(p)
    BY Zenon, <2>7 DEF Crash, TypeOK
  <2> QED BY Zenon, <2>1, <2>2, <2>3, <2>4, <2>5, <2>6, <2>7
<1> QED BY Zenon, <1>1, <1>2

\* The three facts combined: every reachable state satisfies IInv.
LEMMA InductiveInvariant == Spec => []IInv
<1>1. IInv /\ [Next]_vars => IInv'
  BY Zenon, NextTypeOK, NextSegmentExclusion, NextAliveExclusion, NextBitmapAgrees DEF IInv
<1> QED BY <1>1, InitIInv, PTL DEF Spec

\* No two callers of allocate_semaphore or allocate_given_semaphore are ever
\* given the same ID, however many processes die in the middle of them.
THEOREM AllocationIsUnique == Spec => []UniqueAllocation
<1>1. IInv => UniqueAllocation
  BY Zenon DEF IInv, BitmapAgrees, SegmentExclusion, InSegment, UniqueAllocation, Allocating
<1> QED BY <1>1, InductiveInvariant, PTL
-----------------------------------------------------------------------------
(* Refinement *)

\* The shared-memory segment keeps every promise of lock.go.
THEOREM ShmLockRefinesLockManager == Spec => ImplementsLockManager
<1>1. Init => LM!AbsInit
  BY Zenon, ShmAssumption DEF Init, LM!AbsInit
<1>2. IInv /\ [Next]_vars => [LM!AbsNext]_(LM!absVars)
  <2> SUFFICES ASSUME IInv, [Next]_vars PROVE [LM!AbsNext]_(LM!absVars)
    BY Zenon
  <2> USE ShmAssumption DEF LM!absVars
  <2>1. CASE UNCHANGED vars
    BY Zenon, <2>1 DEF vars
  <2>2. CASE Next
    <3>1. PICK p \in Procs :
            \/ Runtime(p) \/ Setup(p) \/ Call(p) \/ SegmentStep(p)
            \/ LockSemaphore(p)
            \/ \E id \in Locks : UnlockSemaphore(p, id)
            \/ Crash(p)
      BY Zenon, <2>2 DEF Next
    <3>2. CASE Runtime(p) \/ Setup(p)
      BY Zenon, <3>2 DEF Runtime, StartRuntime, OpenSHMLock, OpenSHMLockFails, RecreateSHMLock,
                  Setup, SetupCreate, SetupTruncate, SetupMagic, SetupHeader, SetupMutex,
                  SetupDone, SetupFails, shmVars
    <3>3. CASE Call(p)
      <4>1. CASE AllocateLock(p) \/ FreeAllLocks(p)
        BY Zenon, <4>1 DEF AllocateLock, FreeAllLocks, BeginOp, shmVars
      <4>2. ASSUME NEW id \in Locks,
                   AllocateAndRetrieveLock(p, id) \/ RetrieveLock(p, id) \/ CallLock(p, id)
            PROVE  UNCHANGED LM!absVars
        BY Zenon, <4>2 DEF AllocateAndRetrieveLock, RetrieveLock, CallLock, BeginOp, shmVars
      <4>3. ASSUME NEW id \in Locks, FreeLock(p, id)
            PROVE  LM!Free(id)
        BY Zenon, <4>3 DEF FreeLock, BeginOp, shmVars, LM!Free
      <4>4. ASSUME NEW id \in Locks, TryLock(p, id)
            PROVE  UNCHANGED LM!absVars
        BY <4>4 DEF TryLock, CanTake, IInv, TypeOK
      <4>5. ASSUME NEW id \in Locks, FreeLock(p, id)
            PROVE  LM!AbsNext
        BY Zenon, <4>3, <4>5 DEF LM!AbsNext
      <4> HIDE DEF LM!absVars
      <4> QED BY Zenon, <3>3, <4>1, <4>2, <4>4, <4>5 DEF Call
    <3>4. CASE SegmentStep(p)
      <4>1. CASE \/ TakeSegmentLock(p) \/ FindFree(p) \/ TestGiven(p) \/ SetBit(p)
                 \/ ClearBit(p) \/ ReturnDeallocated(p) \/ ReturnError(p)
        BY Zenon, <4>1 DEF TakeSegmentLock, FindFree, TestGiven, SetBit, ClearBit,
                    ReturnDeallocated, ReturnError, EndOp, shmVars
      <4>2. CASE ClearAll(p)
        BY Zenon, <4>2 DEF ClearAll, LM!FreeAll, LM!AbsNext
      <4>3. CASE ReturnAllocated(p)
        <5>1. sem[p] \in Locks /\ sem[p] \notin issued
          BY Zenon, <4>3 DEF ReturnAllocated, IInv, TypeOK, BitmapAgrees
        <5>2. LM!Allocate(sem[p])
          BY Zenon, <4>3, <5>1 DEF ReturnAllocated, EndOp, LM!Allocate
        <5> QED BY Zenon, <5>1, <5>2 DEF LM!AbsNext
      <4> QED BY Zenon, <3>4, <4>1, <4>2, <4>3 DEF SegmentStep
    <3>5. CASE LockSemaphore(p)
      <4>1. PICK id \in Locks : id = sem[p]
        BY Zenon DEF IInv, TypeOK
      <4>2. LM!Acquire(p, id)
        BY Zenon, <3>5, <4>1 DEF LockSemaphore, CanTake, IInv, TypeOK, LM!Acquire
      <4> QED BY Zenon, <4>2 DEF LM!AbsNext
    <3>6. CASE \E id \in Locks : UnlockSemaphore(p, id)
      <4>1. PICK id \in Locks : UnlockSemaphore(p, id)
        BY Zenon, <3>6
      <4>2. LM!Release(p, id)
        BY Zenon, <4>1 DEF UnlockSemaphore, IInv, TypeOK, LM!Release
      <4> QED BY Zenon, <4>2 DEF LM!AbsNext
    <3>7. CASE Crash(p)
      <4>1. LM!Die(p)
        BY Zenon, <3>7 DEF Crash, Abandon, IInv, TypeOK, LM!Die
      <4> QED BY Zenon, <4>1 DEF LM!AbsNext
    <3> QED BY Zenon, <3>1, <3>2, <3>3, <3>4, <3>5, <3>6, <3>7
  <2> QED BY Zenon, <2>1, <2>2
<1> QED BY <1>1, <1>2, InductiveInvariant, PTL DEF Spec, ImplementsLockManager, LM!AbsSpec
=============================================================================
