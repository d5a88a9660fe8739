---------------------------- MODULE ObjectLocks ----------------------------
(***************************************************************************)
(* Which lock belongs to which container, pod and volume: the lock is      *)
(* allocated before the object is in the database, its number is part of   *)
(* the object's row, and it is freed after the row is gone.  Creation and  *)
(* removal (runtime_ctr.go, runtime_pod_common.go,                         *)
(* runtime_volume_common.go), the refresh after a reboot (runtime.go) and  *)
(* renumbering (runtime_renumber.go) each touch the two in several steps.  *)
(***************************************************************************)
EXTENDS FiniteSets

CONSTANTS Ctrs, Pods, Vols,   \* the objects
          Locks, Procs, Nil,
          AnonVolume,         \* container -> the anonymous volume it owns, or Nil
          FaultSets           \* the combinations of faults to consider

\* What may go wrong in a run.  "die": a process is killed; "reboot"; "evict":
\* a removal fails early and rm -f evicts; "exec": removal finds a busy exec
\* bundle; "event": the create event cannot be written; "database": the row
\* cannot be removed; "reuse": the name of a removed volume is used again;
\* "renumberdie": renumbering is killed, or the machine stops during it.
Faults == {"die", "reboot", "evict", "exec", "event", "database", "reuse",
           "renumberdie"}

ASSUME ObjectAssumption ==
    /\ IsFiniteSet(Ctrs \cup Pods \cup Vols)
    /\ Ctrs \cap Pods = {} /\ (Ctrs \cup Pods) \cap Vols = {}
    /\ Nil \notin Ctrs \cup Pods \cup Vols \cup Locks \cup Procs
    /\ AnonVolume \in [Ctrs -> Vols \cup {Nil}]
    /\ FaultSets \subseteq SUBSET Faults

VARIABLES bitmap,     \* the allocated locks
          row,        \* object -> LockID of its row, or Nil
          mutex,      \* lock -> the process that holds it, or Nil
          dirs,       \* the volumes that have a directory
          used,       \* the objects that have been created
          proc,       \* process -> what it is doing, to what, with which lock
          mode,       \* "up", or the exclusive "refresh" or "renumber"
          todo,       \* object -> LockID, of what refresh or renumber still visits
          doomed,     \* containers refresh will remove
          faults

vars == <<bitmap, row, mutex, dirs, used, proc, mode, todo, doomed, faults>>

Objects == Ctrs \cup Pods \cup Vols

Idle == [pc |-> "idle", obj |-> Nil, lock |-> Nil]

Rows == {o \in Objects : row[o] # Nil}

ToDo == {o \in Objects : todo[o] # Nil}

PCs == {"idle", "create", "created", "load", "remove", "window", "free", "teardown"}

ProcType == [pc : PCs, obj : Objects \cup {Nil}, lock : Locks \cup {Nil}]

TypeOK ==
    /\ bitmap \subseteq Locks
    /\ row \in [Objects -> Locks \cup {Nil}]
    /\ mutex \in [Locks -> Procs \cup {Nil}]
    /\ dirs \subseteq Vols
    /\ used \subseteq Objects
    /\ proc \in [Procs -> ProcType]
    /\ mode \in {"up", "refresh", "renumber"}
    /\ todo \in [Objects -> Locks \cup {Nil}]
    /\ doomed \subseteq Ctrs
    /\ faults \in SUBSET Faults

Init ==
    /\ bitmap = {}
    /\ row = [o \in Objects |-> Nil]
    /\ mutex = [l \in Locks |-> Nil]
    /\ dirs = {}
    /\ used = {}
    /\ proc = [p \in Procs |-> Idle]
    /\ mode = "up"
    /\ todo = [o \in Objects |-> Nil]
    /\ doomed = {}
    /\ faults \in FaultSets

exclusive == <<mode, todo, doomed, faults>>

---------------------------------------------------------------------------
\* Without the fault "reuse" a volume's name is in the database only once.
MayName(v) == v \in used \cap Vols => "reuse" \in faults

\* IDs of containers and pods are random and never come back; newVolume first
\* looks for a volume of this name and makes the directory.
AllocateLock(p, o) ==
    /\ mode = "up" /\ proc[p] = Idle
    /\ IF o \in Vols THEN row[o] = Nil /\ MayName(o) ELSE o \notin used
    /\ \E l \in Locks \ bitmap :
          /\ bitmap' = bitmap \cup {l}
          /\ proc' = [proc EXCEPT ![p] = [pc |-> "create", obj |-> o, lock |-> l]]
    /\ used' = used \cup ({o} \ Vols)
    /\ dirs' = dirs \cup ({o} \cap Vols)
    /\ UNCHANGED <<row, mutex, exclusive>>

\* The row is written; for a container the create event follows.
AddToState(p) ==
    /\ proc[p].pc = "create"
    /\ row[proc[p].obj] = Nil /\ MayName(proc[p].obj)
    /\ row' = [row EXCEPT ![proc[p].obj] = proc[p].lock]
    /\ used' = used \cup {proc[p].obj}
    /\ proc' = [proc EXCEPT ![p] = IF proc[p].obj \in Ctrs /\ "event" \in faults
                                   THEN [@ EXCEPT !.pc = "created"] ELSE Idle]
    /\ UNCHANGED <<bitmap, mutex, dirs, exclusive>>

EventWritten(p) ==
    /\ proc[p].pc = "created"
    /\ proc' = [proc EXCEPT ![p] = Idle]
    /\ UNCHANGED <<bitmap, row, mutex, dirs, used, exclusive>>

\* A plausible bug: no deferred Free.
CreateFailsKeepsLock(p) ==
    /\ proc[p].pc \in {"create", "created"}
    /\ proc' = [proc EXCEPT ![p] = Idle]
    /\ UNCHANGED <<bitmap, row, mutex, dirs, used, exclusive>>

\* An error after the allocation, or of the event: the deferred Free.
CreateFails(p) ==
    /\ proc[p].pc \in {"create", "created"}
    /\ bitmap' = bitmap \ {proc[p].lock}
    /\ proc' = [proc EXCEPT ![p] = Idle]
    /\ UNCHANGED <<row, mutex, dirs, used, exclusive>>

---------------------------------------------------------------------------
\* A process reads the row; the lock is the one the row has now.
Load(p, o) ==
    /\ mode = "up" /\ proc[p] = Idle
    /\ row[o] # Nil
    /\ proc' = [proc EXCEPT ![p] = [pc |-> "load", obj |-> o, lock |-> row[o]]]
    /\ UNCHANGED <<bitmap, row, mutex, dirs, used, exclusive>>

\* Lock, then look whether the object is still there.
LockForRemoval(p) ==
    /\ proc[p].pc = "load"
    /\ mutex[proc[p].lock] = Nil
    /\ IF row[proc[p].obj] = Nil
       THEN proc' = [proc EXCEPT ![p] = Idle] /\ UNCHANGED mutex
       ELSE /\ proc' = [proc EXCEPT ![p].pc = "remove"]
            /\ mutex' = [mutex EXCEPT ![proc[p].lock] = p]
    /\ UNCHANGED <<bitmap, row, dirs, used, exclusive>>

\* cleanupExecBundle gives the container's lock up while a bundle is busy, takes
\* it again and syncs; that the container is gone is an error removeContainer
\* reports at its end.
ExecWindow(p) ==
    /\ "exec" \in faults
    /\ proc[p].pc = "remove" /\ proc[p].obj \in Ctrs
    /\ proc' = [proc EXCEPT ![p].pc = "window"]
    /\ mutex' = [mutex EXCEPT ![proc[p].lock] = Nil]
    /\ UNCHANGED <<bitmap, row, dirs, used, exclusive>>

Relock(p) ==
    /\ proc[p].pc = "window"
    /\ mutex[proc[p].lock] = Nil
    /\ proc' = [proc EXCEPT ![p].pc = "remove"]
    /\ mutex' = [mutex EXCEPT ![proc[p].lock] = p]
    /\ UNCHANGED <<bitmap, row, dirs, used, exclusive>>

\* A container's removal goes on when the database refuses it or has no such
\* row; a pod's does not, and a volume's does on one of the backends when the
\* row is gone.
RemoveFromState(p) ==
    /\ proc[p].pc = "remove"
    /\ proc[p].obj \in Pods => row[proc[p].obj] # Nil
    /\ \/ row' = [row EXCEPT ![proc[p].obj] = Nil]
       \/ "database" \in faults /\ proc[p].obj \in Ctrs /\ UNCHANGED row
    /\ proc' = [proc EXCEPT ![p].pc = "free"]
    /\ UNCHANGED <<bitmap, mutex, dirs, used, exclusive>>

\* A removal that stops before the row is touched.
RemovalFails(p) ==
    /\ proc[p].pc = "remove"
    /\ proc' = [proc EXCEPT ![p] = Idle]
    /\ mutex' = [mutex EXCEPT ![proc[p].lock] = Nil]
    /\ UNCHANGED <<bitmap, row, dirs, used, exclusive>>

\* evictContainer after such a failure: the row goes, the lock is not freed.
Evict(p) ==
    /\ "evict" \in faults
    /\ proc[p].pc = "remove" /\ proc[p].obj \in Ctrs
    /\ row' = [row EXCEPT ![proc[p].obj] = Nil]
    /\ proc' = [proc EXCEPT ![p] = Idle]
    /\ mutex' = [mutex EXCEPT ![proc[p].lock] = Nil]
    /\ UNCHANGED <<bitmap, dirs, used, exclusive>>

\* Free, and for containers and pods the deferred Unlock.
Free(p) ==
    /\ proc[p].pc = "free"
    /\ bitmap' = bitmap \ {proc[p].lock}
    /\ IF proc[p].obj \in Vols
       THEN proc' = [proc EXCEPT ![p].pc = "teardown"] /\ UNCHANGED mutex
       ELSE /\ proc' = [proc EXCEPT ![p] = Idle]
            /\ mutex' = [mutex EXCEPT ![proc[p].lock] = Nil]
    /\ UNCHANGED <<row, dirs, used, exclusive>>

\* A volume's directory goes last.
TeardownStorage(p) ==
    /\ proc[p].pc = "teardown"
    /\ dirs' = dirs \ {proc[p].obj}
    /\ proc' = [proc EXCEPT ![p] = Idle]
    /\ mutex' = [mutex EXCEPT ![proc[p].lock] = Nil]
    /\ UNCHANGED <<bitmap, row, used, exclusive>>

\* SIGKILL: the mutex is robust, everything else stays as it is.
Die(p) ==
    /\ "die" \in faults /\ proc[p] # Idle
    /\ proc' = [proc EXCEPT ![p] = Idle]
    /\ mutex' = [l \in Locks |-> IF mutex[l] = p THEN Nil ELSE mutex[l]]
    /\ UNCHANGED <<bitmap, row, dirs, used, exclusive>>

---------------------------------------------------------------------------
\* The segment is gone, and the lists of all objects are read.  A container that
\* should have been removed by then (AutoRemove, or state Removing) is doomed.
StartRefresh ==
    /\ bitmap' = {}
    /\ mutex' = [l \in Locks |-> Nil]
    /\ proc' = [p \in Procs |-> Idle]
    /\ mode' = "refresh"
    /\ todo' = row
    /\ doomed' \in SUBSET (Ctrs \cap Rows)
    /\ UNCHANGED <<row, dirs, used, faults>>

Reboot ==
    /\ "reboot" \in faults
    /\ mode = "renumber" => "renumberdie" \in faults
    /\ StartRefresh

\* Container.refresh takes the lock of the row again.  A doomed container is
\* then removed, with its anonymous volume, whose lock has not been taken.
RefreshContainer(c) ==
    /\ mode = "refresh" /\ c \in ToDo \cap Ctrs
    /\ LET gone == {c} \cup ({AnonVolume[c]} \cap Vols \cap Rows)
       IN  IF c \in doomed
           THEN /\ row' = [o \in Objects |-> IF o \in gone THEN Nil ELSE row[o]]
                /\ bitmap' = bitmap \ {row[o] : o \in gone}
                /\ dirs' = dirs \ gone
           ELSE /\ bitmap' = bitmap \cup {todo[c]}
                /\ UNCHANGED <<row, dirs>>
    /\ todo' = [todo EXCEPT ![c] = Nil]
    /\ UNCHANGED <<mutex, used, proc, mode, doomed, faults>>

\* A plausible bug: volumes do not take their lock again.
RefreshPodsOnly(o) ==
    /\ mode = "refresh" /\ ToDo \cap Ctrs = {} /\ o \in ToDo
    /\ bitmap' = IF o \in Pods THEN bitmap \cup {todo[o]} ELSE bitmap
    /\ todo' = [todo EXCEPT ![o] = Nil]
    /\ UNCHANGED <<row, mutex, dirs, used, proc, mode, doomed, faults>>

\* Pods after the containers, volumes after the pods.  A pod looks itself up
\* first; a volume takes the lock of the list read before.
RefreshRest(o) ==
    /\ mode = "refresh" /\ ToDo \cap Ctrs = {}
    /\ \/ o \in ToDo \cap Pods
       \/ o \in ToDo \cap Vols /\ ToDo \cap Pods = {}
    /\ bitmap' = bitmap \cup {todo[o]}
    /\ todo' = [todo EXCEPT ![o] = Nil]
    /\ UNCHANGED <<row, mutex, dirs, used, proc, mode, doomed, faults>>

RefreshDone ==
    /\ mode = "refresh" /\ ToDo = {}
    /\ mode' = "up" /\ doomed' = {}
    /\ UNCHANGED <<bitmap, row, mutex, dirs, used, proc, todo, faults>>

\* Killed: the alive file is missing, so the next command refreshes again, with
\* the locks taken so far still allocated.
RefreshDies ==
    /\ mode = "refresh" /\ "die" \in faults
    /\ todo' = row
    /\ doomed' = doomed \cap Rows
    /\ UNCHANGED <<bitmap, row, mutex, dirs, used, proc, mode, faults>>

---------------------------------------------------------------------------
\* A plausible bug: the old locks are not freed.
RenumberOnTop ==
    /\ mode = "up" /\ \A p \in Procs : proc[p] = Idle
    /\ mode' = "renumber" /\ todo' = row
    /\ UNCHANGED <<bitmap, row, mutex, dirs, used, proc, doomed, faults>>

\* The alive lock keeps new commands out; that no command is under way is the
\* user's to ensure.
Renumber ==
    /\ mode = "up" /\ \A p \in Procs : proc[p] = Idle
    /\ bitmap' = {}
    /\ mode' = "renumber" /\ todo' = row
    /\ UNCHANGED <<row, mutex, dirs, used, proc, doomed, faults>>

\* Containers, then pods, then volumes.
RenumberObject(o) ==
    /\ mode = "renumber" /\ o \in ToDo
    /\ o \in Pods => ToDo \cap Ctrs = {}
    /\ o \in Vols => ToDo \subseteq Vols
    /\ \E l \in Locks \ bitmap :
          bitmap' = bitmap \cup {l} /\ row' = [row EXCEPT ![o] = l]
    /\ todo' = [todo EXCEPT ![o] = Nil]
    /\ UNCHANGED <<mutex, dirs, used, proc, mode, doomed, faults>>

\* It is done, or it is killed on the way.
RenumberEnds ==
    /\ mode = "renumber"
    /\ ToDo = {} \/ "renumberdie" \in faults
    /\ mode' = "up" /\ todo' = [o \in Objects |-> Nil]
    /\ UNCHANGED <<bitmap, row, mutex, dirs, used, proc, doomed, faults>>

Next ==
    \/ \E p \in Procs :
          \/ \E o \in Objects : AllocateLock(p, o) \/ Load(p, o)
          \/ AddToState(p) \/ EventWritten(p) \/ CreateFails(p)
          \/ LockForRemoval(p) \/ ExecWindow(p) \/ Relock(p)
          \/ RemoveFromState(p) \/ RemovalFails(p) \/ Evict(p)
          \/ Free(p) \/ TeardownStorage(p) \/ Die(p)
    \/ Reboot \/ RefreshDone \/ RefreshDies
    \/ \E c \in Ctrs : RefreshContainer(c)
    \/ \E o \in Objects : RefreshRest(o) \/ RenumberObject(o)
    \/ Renumber \/ RenumberEnds

Spec == Init /\ [][Next]_vars

---------------------------------------------------------------------------
Creating(l) == \E p \in Procs : proc[p].pc = "create" /\ proc[p].lock = l

\* No two objects share a lock, and no lock is handed out that an object has:
\* the locks of all rows, and of the objects being created, are different and
\* allocated.
LocksDistinct ==
    mode = "up" =>
      /\ \A o \in Rows : row[o] \in bitmap /\ ~Creating(row[o])
      /\ \A o1, o2 \in Rows : row[o1] = row[o2] => o1 = o2
      /\ \A p \in Procs : proc[p].pc = "create" => proc[p].lock \in bitmap

\* Killed processes, reboots and evictions do not make two objects share a lock.
NoSharedLock == faults \subseteq {"die", "reboot", "evict"} => LocksDistinct

\* Whatever went wrong before, a renumbering that finishes leaves every object
\* with a lock of its own and no lock allocated that no object has.
RenumberRepairs ==
    mode = "renumber" /\ ToDo = {} =>
      /\ bitmap = {row[o] : o \in Rows}
      /\ Cardinality(bitmap) = Cardinality(Rows)

\* As long as no process is killed and nothing is evicted, every allocated lock
\* is an object's or that of an object being created or removed.
NoLeak ==
    faults \subseteq {"exec"} /\ mode = "up" =>
      \A l \in bitmap : \/ \E o \in Rows : row[o] = l
                        \/ \E p \in Procs : proc[p].lock = l /\ proc[p].pc # "load"
=============================================================================
