---------------------------- MODULE VolumeMounts ----------------------------
(***************************************************************************)
(* The mount counter of named volumes (volume_internal_common.go) and the  *)
(* containers that mount them when they are prepared and unmount them when *)
(* they are cleaned up (container_internal.go).  A container is locked     *)
(* throughout, each volume only while it is mounted or unmounted; the      *)
(* counter is in the volume's row, the flag Mounted in the container's.    *)
(***************************************************************************)
EXTENDS Integers, Sequences, FiniteSets

CONSTANTS Ctrs, Vols, NamedVolumes,   \* container -> the volumes it mounts, in order
          MaxUserMounts, MaxRestarts, \* bounds
          FaultSets

\* What may go wrong.  "mount": the host refuses a mount; "copyup": the copy into
\* the volume fails; "network": the network cannot be set up; "die": the
\* process that prepares a container is killed; "diecleanup": the one that cleans
\* it up; "reboot"; "umount": somebody unmounts the volume behind podman's
\* back; "user": podman volume unmount without podman volume mount.
VolumeFaults == {"mount", "copyup", "network", "die", "diecleanup", "reboot", "umount", "user"}

VARIABLES MountCount, NeedsCopyUp, CopiedUp, NeedsChown,  \* the volumes' rows
          host,       \* volume -> is it mounted on the host
          copies,     \* volume -> how often its contents were copied up
          userMounts, \* volume -> mounts requested with podman volume mount
          Mounted,    \* container -> the flag in its row
          rootfs,     \* container -> is its root filesystem mounted
          up,         \* container -> does it run
          ctr,        \* container -> what its lock holder is doing
          runs,       \* container -> how often it was prepared
          faults

volumeVars == <<MountCount, NeedsCopyUp, CopiedUp, NeedsChown, host, copies, userMounts,
          Mounted, rootfs, up, ctr, runs, faults>>
volume == <<MountCount, NeedsCopyUp, CopiedUp, NeedsChown, host, copies, userMounts>>
flags == <<NeedsCopyUp, CopiedUp, NeedsChown, copies>>

\* left: the volumes still to mount or unmount; held: those mounted so far.
Idle == [pc |-> "idle", left |-> <<>>, held |-> <<>>]

VolumesInit ==
    /\ MountCount = [v \in Vols |-> 0]
    /\ NeedsCopyUp = [v \in Vols |-> TRUE]
    /\ CopiedUp = [v \in Vols |-> FALSE]
    /\ NeedsChown = [v \in Vols |-> TRUE]
    /\ host = [v \in Vols |-> FALSE]
    /\ copies = [v \in Vols |-> 0]
    /\ userMounts = [v \in Vols |-> 0]
    /\ Mounted = [c \in Ctrs |-> FALSE]
    /\ rootfs = [c \in Ctrs |-> FALSE]
    /\ up = [c \in Ctrs |-> FALSE]
    /\ ctr = [c \in Ctrs |-> Idle]
    /\ runs = [c \in Ctrs |-> 0]
    /\ faults \in FaultSets

---------------------------------------------------------------------------
\* mount(): the first request mounts the volume, the others only count.
mount(v) ==
    /\ MountCount' = [MountCount EXCEPT ![v] = @ + 1]
    /\ host' = [host EXCEPT ![v] = @ \/ MountCount[v] = 0]

\* A plausible bug: the last user leaves the volume mounted.
UnmountKeepsHost(v) ==
    /\ MountCount' = [MountCount EXCEPT ![v] = IF @ = 0 THEN 0 ELSE @ - 1]
    /\ host' = host

\* unmount(FALSE): nothing at zero; the last request unmounts the volume.  The
\* host answers EINVAL when it is not mounted, and the row is not saved then.
unmount(v) ==
    IF MountCount[v] = 0 \/ (MountCount[v] = 1 /\ ~host[v])
    THEN UNCHANGED <<MountCount, host>>
    ELSE /\ MountCount' = [MountCount EXCEPT ![v] = @ - 1]
         /\ host' = [host EXCEPT ![v] = MountCount[v] > 1]

\* A plausible bug: the flag is cleared only after a successful copy.
CopyUpUnmarked(v, ok) ==
    /\ copies' = [copies EXCEPT ![v] = @ + 1]
    /\ NeedsCopyUp' = [NeedsCopyUp EXCEPT ![v] = ~ok]
    /\ CopiedUp' = [CopiedUp EXCEPT ![v] = ok]

\* The copy-up is recorded before it is done.
copyUp(v, ok) ==
    /\ copies' = [copies EXCEPT ![v] = @ + 1]
    /\ NeedsCopyUp' = [NeedsCopyUp EXCEPT ![v] = FALSE]
    /\ CopiedUp' = [CopiedUp EXCEPT ![v] = TRUE]

---------------------------------------------------------------------------
\* A plausible bug: a mounted root filesystem is taken for a mounted container.
PrepareTrustsMountpoint(c) ==
    /\ ctr[c].pc = "idle" /\ ~up[c] /\ runs[c] < MaxRestarts[c]
    /\ LET pc == IF rootfs[c] THEN "chown" ELSE "mount" IN
       ctr' = [ctr EXCEPT ![c] = [Idle EXCEPT !.pc = pc, !.left = NamedVolumes[c]]]
    /\ rootfs' = [rootfs EXCEPT ![c] = TRUE]
    /\ runs' = [runs EXCEPT ![c] = @ + 1]
    /\ UNCHANGED <<volume, Mounted, up, faults>>

\* prepare(): mountStorage has nothing to do for a container that is mounted;
\* it does not trust the flag after an exit.
Prepare(c) ==
    /\ ctr[c].pc = "idle" /\ ~up[c] /\ runs[c] < MaxRestarts[c]
    /\ LET pc == IF Mounted[c] /\ rootfs[c] THEN "chown" ELSE "mount" IN
       ctr' = [ctr EXCEPT ![c] = [Idle EXCEPT !.pc = pc, !.left = NamedVolumes[c]]]
    /\ rootfs' = [rootfs EXCEPT ![c] = TRUE]
    /\ runs' = [runs EXCEPT ![c] = @ + 1]
    /\ UNCHANGED <<volume, Mounted, up, faults>>

\* mountNamedVolume: the mount, and the copy-up of a volume that needs one and is
\* empty.  If the copy-up fails the volume is not among those unmounted.
MountNamedVolume(c) ==
    /\ ctr[c].pc = "mount" /\ ctr[c].left # <<>>
    /\ LET v == Head(ctr[c].left)
           mounted == [ctr[c] EXCEPT !.left = Tail(@), !.held = <<v>> \o @]
           failed == [ctr[c] EXCEPT !.pc = "undo"]
       IN \/ /\ mount(v)
             /\ \/ UNCHANGED flags /\ ctr' = [ctr EXCEPT ![c] = mounted]
                \/ /\ NeedsCopyUp[v]
                   /\ \E ok \in {TRUE} \cup {"copyup" \notin faults} :
                         /\ copyUp(v, ok)
                         /\ ctr' = [ctr EXCEPT ![c] = IF ok THEN mounted ELSE failed]
                   /\ UNCHANGED NeedsChown
          \/ /\ "mount" \in faults /\ MountCount[v] = 0
             /\ ctr' = [ctr EXCEPT ![c] = failed]
             /\ UNCHANGED <<MountCount, host, flags>>
    /\ UNCHANGED <<userMounts, Mounted, rootfs, up, runs, faults>>

\* A plausible bug: the volumes mounted before the failure stay mounted.
NoDeferredUnmount(c) ==
    /\ ctr[c].pc = "undo"
    /\ ctr' = [ctr EXCEPT ![c] = Idle]
    /\ rootfs' = [rootfs EXCEPT ![c] = FALSE]
    /\ UNCHANGED <<volume, Mounted, up, runs, faults>>

\* The deferred unmounts of mountStorage, last volume first.
DeferredUnmount(c) ==
    /\ ctr[c].pc = "undo"
    /\ IF ctr[c].held = <<>>
       THEN /\ ctr' = [ctr EXCEPT ![c] = Idle]
            /\ rootfs' = [rootfs EXCEPT ![c] = FALSE]
            /\ UNCHANGED <<MountCount, host>>
       ELSE /\ unmount(Head(ctr[c].held))
            /\ ctr' = [ctr EXCEPT ![c].held = Tail(@)]
            /\ UNCHANGED rootfs
    /\ UNCHANGED <<flags, userMounts, Mounted, up, runs, faults>>

\* The end of prepare: the container's row is saved, or the network failed.
Prepared(c) ==
    /\ ctr[c].pc = "mount" /\ ctr[c].left = <<>>
    /\ \/ /\ Mounted' = [Mounted EXCEPT ![c] = TRUE]
          /\ ctr' = [ctr EXCEPT ![c] = [Idle EXCEPT !.pc = "chown", !.left = NamedVolumes[c]]]
          /\ UNCHANGED rootfs
       \/ /\ "network" \in faults
          /\ ctr' = [ctr EXCEPT ![c] = [Idle EXCEPT !.pc = "cleanup", !.left = NamedVolumes[c]]]
          /\ rootfs' = [rootfs EXCEPT ![c] = FALSE]
          /\ UNCHANGED Mounted
    /\ UNCHANGED <<volume, up, runs, faults>>

\* fixVolumePermissions, when the spec is generated: a volume that was just
\* copied up is chowned for good, an empty one each time, any other never.
FixVolumePermissions(c) ==
    /\ ctr[c].pc = "chown" /\ ctr[c].left # <<>>
    /\ LET v == Head(ctr[c].left) IN
       \E empty, root \in BOOLEAN :
          /\ NeedsChown' = [NeedsChown EXCEPT ![v] = @ /\ ~CopiedUp[v] /\ empty /\ ~root]
          /\ CopiedUp' = IF NeedsChown[v] /\ (CopiedUp[v] \/ empty)
                         THEN [CopiedUp EXCEPT ![v] = FALSE] ELSE CopiedUp
    /\ ctr' = [ctr EXCEPT ![c].left = Tail(@)]
    /\ UNCHANGED <<MountCount, host, NeedsCopyUp, copies, userMounts, Mounted, rootfs, up,
                   runs, faults>>

\* The container runs.
Started(c) ==
    /\ ctr[c].pc = "chown" /\ ctr[c].left = <<>>
    /\ ctr' = [ctr EXCEPT ![c] = Idle]
    /\ up' = [up EXCEPT ![c] = TRUE]
    /\ UNCHANGED <<volume, Mounted, rootfs, runs, faults>>

\* cleanup(), once it has exited: cleanupStorage of a mounted container
\* unmounts the root filesystem, then the volumes, then clears the flag.
Cleanup(c) ==
    /\ ctr[c].pc = "idle" /\ Mounted[c]
    /\ ctr' = [ctr EXCEPT ![c] = [Idle EXCEPT !.pc = "cleanup", !.left = NamedVolumes[c]]]
    /\ rootfs' = [rootfs EXCEPT ![c] = FALSE]
    /\ up' = [up EXCEPT ![c] = FALSE]
    /\ UNCHANGED <<volume, Mounted, runs, faults>>

CleanupStorage(c) ==
    /\ ctr[c].pc = "cleanup"
    /\ IF ctr[c].left = <<>>
       THEN /\ Mounted' = [Mounted EXCEPT ![c] = FALSE]
            /\ ctr' = [ctr EXCEPT ![c] = Idle]
            /\ UNCHANGED <<MountCount, host>>
       ELSE /\ unmount(Head(ctr[c].left))
            /\ ctr' = [ctr EXCEPT ![c].left = Tail(@)]
            /\ UNCHANGED Mounted
    /\ UNCHANGED <<flags, userMounts, rootfs, up, runs, faults>>

---------------------------------------------------------------------------
\* podman volume mount and unmount.
UserMount(v) ==
    /\ userMounts[v] < MaxUserMounts
    /\ mount(v)
    /\ userMounts' = [userMounts EXCEPT ![v] = @ + 1]
    /\ UNCHANGED <<flags, Mounted, rootfs, up, ctr, runs, faults>>

UserUnmount(v) ==
    /\ userMounts[v] > 0 \/ "user" \in faults
    /\ unmount(v)
    /\ userMounts' = [userMounts EXCEPT ![v] = IF @ = 0 THEN 0 ELSE @ - 1]
    /\ UNCHANGED <<flags, Mounted, rootfs, up, ctr, runs, faults>>

\* Somebody unmounts the volume on the host.
HostUnmount(v) ==
    /\ "umount" \in faults /\ host[v]
    /\ host' = [host EXCEPT ![v] = FALSE]
    /\ UNCHANGED <<MountCount, flags, userMounts, Mounted, rootfs, up, ctr, runs, faults>>

\* The process working on the container is killed.
Die(c) ==
    /\ ctr[c].pc # "idle"
    /\ (IF ctr[c].pc = "cleanup" THEN "diecleanup" ELSE "die") \in faults
    /\ ctr' = [ctr EXCEPT ![c] = Idle]
    /\ UNCHANGED <<volume, Mounted, rootfs, up, runs, faults>>

\* A reboot, and the refresh that resets every row (resetVolumeState,
\* resetContainerState).
Reboot ==
    /\ "reboot" \in faults
    /\ MountCount' = [v \in Vols |-> 0]
    /\ host' = [v \in Vols |-> FALSE]
    /\ CopiedUp' = [v \in Vols |-> FALSE]
    /\ userMounts' = [v \in Vols |-> 0]
    /\ Mounted' = [c \in Ctrs |-> FALSE]
    /\ rootfs' = [c \in Ctrs |-> FALSE]
    /\ up' = [c \in Ctrs |-> FALSE]
    /\ ctr' = [c \in Ctrs |-> Idle]
    /\ UNCHANGED <<NeedsCopyUp, NeedsChown, copies, runs, faults>>

VolumesNext ==
    \/ \E c \in Ctrs :
          \/ Prepare(c) \/ MountNamedVolume(c) \/ DeferredUnmount(c) \/ Prepared(c)
          \/ FixVolumePermissions(c) \/ Started(c) \/ Cleanup(c) \/ CleanupStorage(c)
          \/ Die(c)
    \/ \E v \in Vols : UserMount(v) \/ UserUnmount(v) \/ HostUnmount(v)
    \/ Reboot

VolumesSpec == VolumesInit /\ [][VolumesNext]_volumeVars

---------------------------------------------------------------------------
\* What is assumed of the constants: a container may mount a volume at several
\* destinations.
VolumesConfigured ==
    /\ NamedVolumes \in [Ctrs -> Seq(Vols)]
    /\ MaxUserMounts \in Nat
    /\ FaultSets \subseteq SUBSET VolumeFaults

ASSUME VolumesAssumption == VolumesConfigured

Work == [pc : {"idle", "mount", "undo", "chown", "cleanup"},
         left : Seq(Vols), held : Seq(Vols)]

VolumesTypeOK ==
    /\ MountCount \in [Vols -> Nat]
    /\ host \in [Vols -> BOOLEAN]
    /\ NeedsCopyUp \in [Vols -> BOOLEAN]
    /\ copies \in [Vols -> Nat]
    /\ userMounts \in [Vols -> 0..MaxUserMounts]
    /\ Mounted \in [Ctrs -> BOOLEAN]
    /\ rootfs \in [Ctrs -> BOOLEAN]
    /\ up \in [Ctrs -> BOOLEAN]
    /\ ctr \in [Ctrs -> Work]
    /\ faults \in FaultSets

\* Those of c's named volumes, by their place in the list, that it has mounted: all
\* once it is prepared, the first ones while it is being mounted, the last ones,
\* which are not yet unmounted, in cleanup.
Holds(c) ==
    CASE ctr[c].pc \in {"mount", "undo"} -> 1..Len(ctr[c].held)
      [] ctr[c].pc = "cleanup" ->
            (Len(NamedVolumes[c]) - Len(ctr[c].left) + 1)..Len(NamedVolumes[c])
      [] OTHER -> IF Mounted[c] THEN DOMAIN NamedVolumes[c] ELSE {}

\* The mounts of v that containers hold.
Requests(v) ==
    {r \in UNION {{c} \X Holds(c) : c \in Ctrs} : NamedVolumes[r[1]][r[2]] = v}

\* The counter is exact: it is the number of times containers have the volume
\* mounted plus what podman volume mount asked for, through failed prepares and
\* reboots, as long as no copy-up fails, no process is killed half-way and
\* nobody unmounts behind podman's back.
CountExact ==
    faults \cap {"copyup", "die", "diecleanup", "umount", "user"} = {} =>
        \A v \in Vols : MountCount[v] = userMounts[v] + Cardinality(Requests(v))

\* The row and the host agree: a volume is mounted on the host exactly while its
\* counter is not zero, whatever dies or fails.
CountMatchesHost ==
    "umount" \notin faults => \A v \in Vols : host[v] = (MountCount[v] > 0)

\* A container that runs has its volumes mounted, even after processes died in
\* the middle of preparing it or another one.  (A cleanup that is killed before
\* it clears the flag is done again, and counts the same volumes down twice.)
MountedWhileUsed ==
    faults \cap {"diecleanup", "umount", "user"} = {} =>
        \A c \in Ctrs : up[c] => \A i \in DOMAIN NamedVolumes[c] : host[NamedVolumes[c][i]]

\* The contents of an image are copied into a volume at most once, though the
\* containers that share it are started concurrently, fail, die and start again.
CopyUpOnce == \A v \in Vols : copies[v] <= 1
=============================================================================
