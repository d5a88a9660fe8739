------------------------ MODULE VolumeMounts_proofs ------------------------
(***************************************************************************)
(* The mount counters of VolumeMounts for any number of containers and     *)
(* volumes, any lists of named volumes, also with a volume twice in one,   *)
(* and any combination of faults.                                          *)
(***************************************************************************)
EXTENDS VolumeMounts, FiniteSetTheorems, TLAPS

\* Where a container is in its list of volumes: held is the part that was mounted,
\* last one first, and left what remains.
ListsOf(c) ==
    /\ ctr[c].pc \in {"mount", "undo"} =>
          /\ Len(ctr[c].held) <= Len(NamedVolumes[c])
          /\ \A i \in 1..Len(ctr[c].held) :
                ctr[c].held[i] = NamedVolumes[c][Len(ctr[c].held) + 1 - i]
    /\ ctr[c].pc = "mount" =>
          /\ Len(ctr[c].left) = Len(NamedVolumes[c]) - Len(ctr[c].held)
          /\ \A i \in 1..Len(ctr[c].left) :
                ctr[c].left[i] = NamedVolumes[c][Len(ctr[c].held) + i]
    /\ ctr[c].pc = "cleanup" =>
          /\ Len(ctr[c].left) <= Len(NamedVolumes[c])
          /\ \A i \in 1..Len(ctr[c].left) :
                ctr[c].left[i] = NamedVolumes[c][Len(NamedVolumes[c]) - Len(ctr[c].left) + i]

ListsMatch == \A c \in Ctrs : ListsOf(c)

\* The flag Mounted is trusted only together with the root filesystem, which is
\* what keeps a container from mounting what it holds already.
PhaseOf(c) ==
    /\ ctr[c].pc = "chown" => Mounted[c]
    /\ up[c] => ctr[c].pc = "idle" /\ Mounted[c]
    /\ "diecleanup" \notin faults =>
          /\ ctr[c].pc \in {"mount", "undo"} => ~Mounted[c] /\ rootfs[c]
          /\ ctr[c].pc # "cleanup" /\ Mounted[c] => rootfs[c]

Phases == \A c \in Ctrs : PhaseOf(c)

\* The counter never falls behind the mounts that are held; failures may leave it
\* ahead.
CountOf(v) ==
    /\ IsFiniteSet(Requests(v))
    /\ MountCount[v] >= userMounts[v] + Cardinality(Requests(v))
    /\ faults \cap {"copyup", "die"} = {} =>
          MountCount[v] = userMounts[v] + Cardinality(Requests(v))

Counts == faults \cap {"diecleanup", "umount", "user"} = {} => \A v \in Vols : CountOf(v)

\* A volume was copied up once if it does not need it any more.
Copies == \A v \in Vols : copies[v] = IF NeedsCopyUp[v] THEN 0 ELSE 1

IInv == VolumesTypeOK /\ ListsMatch /\ Phases /\ CountMatchesHost /\ Counts /\ Copies

---------------------------------------------------------------------------
\* What is in Requests, now and after a step.
LEMMA InRequests ==
    ASSUME NEW v, NEW r
    PROVE  /\ r \in Requests(v) <=>
                 \E c \in Ctrs : \E i \in Holds(c) : r = <<c, i>> /\ NamedVolumes[c][i] = v
           /\ r \in Requests(v)' <=>
                 \E c \in Ctrs : \E i \in Holds(c)' : r = <<c, i>> /\ NamedVolumes[c][i] = v
  BY DEF Requests

\* A step that leaves alone what each container holds leaves the requests alone.
LEMMA RequestsSame ==
    ASSUME \A d \in Ctrs : Holds(d)' = Holds(d), NEW v
    PROVE  Requests(v)' = Requests(v)
  BY InRequests

\* One container mounts one more of its volumes.
LEMMA RequestAdded ==
    ASSUME NEW v, NEW c \in Ctrs, NEW k, k \notin Holds(c),
           Holds(c)' = Holds(c) \cup {k},
           \A d \in Ctrs \ {c} : Holds(d)' = Holds(d),
           IsFiniteSet(Requests(v))
    PROVE  /\ IsFiniteSet(Requests(v)')
           /\ Cardinality(Requests(v)') =
                 IF NamedVolumes[c][k] = v THEN Cardinality(Requests(v)) + 1
                 ELSE Cardinality(Requests(v))
<1>1. <<c, k>> \notin Requests(v)
  BY InRequests
<1>2. CASE NamedVolumes[c][k] = v
  <2>1. ASSUME NEW r PROVE r \in Requests(v)' <=> r \in Requests(v) \cup {<<c, k>>}
    BY <1>2, InRequests
  <2>2. Requests(v)' = Requests(v) \cup {<<c, k>>}
    BY Zenon, <2>1
  <2>3. /\ IsFiniteSet(Requests(v) \cup {<<c, k>>})
        /\ Cardinality(Requests(v) \cup {<<c, k>>}) = Cardinality(Requests(v)) + 1
    BY Zenon, <1>1, FS_AddElement
  <2> QED
    BY Zenon, <1>2, <2>2, <2>3
<1>3. CASE NamedVolumes[c][k] # v
  <2>1. ASSUME NEW r PROVE r \in Requests(v)' <=> r \in Requests(v)
    BY <1>3, InRequests
  <2>2. Requests(v)' = Requests(v)
    BY Zenon, <2>1
  <2> QED
    BY Zenon, <1>3, <2>2
<1> QED
  BY Zenon, <1>2, <1>3

\* One container unmounts one of its volumes.
LEMMA RequestRemoved ==
    ASSUME NEW v, NEW c \in Ctrs, NEW k, k \in Holds(c),
           Holds(c)' = Holds(c) \ {k},
           \A d \in Ctrs \ {c} : Holds(d)' = Holds(d),
           IsFiniteSet(Requests(v))
    PROVE  /\ IsFiniteSet(Requests(v)')
           /\ Cardinality(Requests(v)') =
                 IF NamedVolumes[c][k] = v THEN Cardinality(Requests(v)) - 1
                 ELSE Cardinality(Requests(v))
           /\ NamedVolumes[c][k] = v => Cardinality(Requests(v)) > 0
<1>1. CASE NamedVolumes[c][k] = v
  <2>1. <<c, k>> \in Requests(v)
    BY Zenon, <1>1, InRequests
  <2>2. ASSUME NEW r PROVE r \in Requests(v)' <=> r \in Requests(v) \ {<<c, k>>}
    BY <1>1, InRequests
  <2>3. Requests(v)' = Requests(v) \ {<<c, k>>}
    BY Zenon, <2>2
  <2>4. Cardinality(Requests(v)) > 0
    BY <2>1, FS_EmptySet, FS_CardinalityType
  <2> QED
    BY Zenon, <1>1, <2>1, <2>3, <2>4, FS_RemoveElement
<1>2. CASE NamedVolumes[c][k] # v
  <2>1. ASSUME NEW r PROVE r \in Requests(v)' <=> r \in Requests(v)
    BY <1>2, InRequests
  <2>2. Requests(v)' = Requests(v)
    BY Zenon, <2>1
  <2> QED
    BY Zenon, <1>2, <2>2
<1> QED
  BY Zenon, <1>1, <1>2

\* A container lets go of some of its volumes.
LEMMA RequestsFewer ==
    ASSUME NEW v, \A d \in Ctrs : Holds(d)' \subseteq Holds(d),
           IsFiniteSet(Requests(v))
    PROVE  /\ IsFiniteSet(Requests(v)')
           /\ Cardinality(Requests(v)') <= Cardinality(Requests(v))
<1>1. ASSUME NEW r \in Requests(v)' PROVE r \in Requests(v)
  BY Zenon, <1>1, InRequests
<1>2. Requests(v)' \subseteq Requests(v)
  BY Zenon, <1>1
<1> QED
  BY Zenon, <1>2, FS_Subset

---------------------------------------------------------------------------
\* mount and unmount keep the rows and the host in range and in agreement.
LEMMA MountStep ==
    ASSUME VolumesTypeOK, NEW v \in Vols, mount(v)
    PROVE  /\ MountCount' \in [Vols -> Nat] /\ host' \in [Vols -> BOOLEAN]
           /\ CountMatchesHost => ("umount" \notin faults =>
                 \A w \in Vols : host'[w] = (MountCount'[w] > 0))
           /\ \A w \in Vols : MountCount'[w] = IF w = v THEN MountCount[w] + 1 ELSE MountCount[w]
  BY DEF VolumesTypeOK, mount, CountMatchesHost

LEMMA UnmountStep ==
    ASSUME VolumesTypeOK, NEW v \in Vols, unmount(v)
    PROVE  /\ MountCount' \in [Vols -> Nat] /\ host' \in [Vols -> BOOLEAN]
           /\ CountMatchesHost => ("umount" \notin faults =>
                 /\ \A w \in Vols : host'[w] = (MountCount'[w] > 0)
                 /\ \A w \in Vols : MountCount'[w] =
                       IF w = v /\ MountCount[w] > 0 THEN MountCount[w] - 1 ELSE MountCount[w])
<1>1. MountCount \in [Vols -> Nat] /\ host \in [Vols -> BOOLEAN]
  BY Zenon DEF VolumesTypeOK
<1>2. CASE MountCount[v] = 0 \/ (MountCount[v] = 1 /\ ~host[v])
  <2>1. MountCount' = MountCount /\ host' = host
    BY Zenon, <1>2 DEF unmount
  <2> QED
    BY <1>1, <1>2, <2>1 DEF CountMatchesHost
<1>3. CASE ~(MountCount[v] = 0 \/ (MountCount[v] = 1 /\ ~host[v]))
  <2>1. /\ MountCount' = [MountCount EXCEPT ![v] = MountCount[v] - 1]
        /\ host' = [host EXCEPT ![v] = MountCount[v] > 1]
    BY Zenon, <1>3 DEF unmount
  <2>2. MountCount[v] - 1 \in Nat /\ (MountCount[v] > 1) \in BOOLEAN
    BY <1>1, <1>3
  <2>3. MountCount' \in [Vols -> Nat] /\ host' \in [Vols -> BOOLEAN]
    BY Zenon, <1>1, <2>1, <2>2
  <2>4. \A w \in Vols : /\ MountCount'[w] = IF w = v THEN MountCount[w] - 1 ELSE MountCount[w]
                        /\ host'[w] = IF w = v THEN MountCount[w] > 1 ELSE host[w]
    BY Zenon, <1>1, <2>1
  <2>5. MountCount[v] > 0
    BY <1>1, <1>3
  <2>6. \A w \in Vols : MountCount'[w] =
            IF w = v /\ MountCount[w] > 0 THEN MountCount[w] - 1 ELSE MountCount[w]
    BY Zenon, <2>4, <2>5
  <2>7. ASSUME CountMatchesHost, "umount" \notin faults, NEW w \in Vols
        PROVE  host'[w] = (MountCount'[w] > 0)
    <3>1. CASE w = v
      <4>1. host'[w] = (MountCount[w] > 1) /\ MountCount'[w] = MountCount[w] - 1
        BY Zenon, <2>4, <3>1
      <4> QED
        BY <1>1, <4>1
    <3>2. CASE w # v
      <4>1. host'[w] = host[w] /\ MountCount'[w] = MountCount[w]
        BY Zenon, <2>4, <3>2
      <4> QED
        BY Zenon, <2>7, <4>1 DEF CountMatchesHost
    <3> QED
      BY Zenon, <3>1, <3>2
  <2> QED
    BY Zenon, <2>3, <2>6, <2>7
<1> QED
  BY Zenon, <1>2, <1>3

\* The volume a container is about to mount or unmount is one.
LEMMA HeadsAreVolumes ==
    ASSUME VolumesTypeOK, NEW c \in Ctrs
    PROVE  /\ ctr[c].left \in Seq(Vols) /\ ctr[c].held \in Seq(Vols)
           /\ ctr[c].left # <<>> =>
                 /\ Head(ctr[c].left) \in Vols /\ Tail(ctr[c].left) \in Seq(Vols)
                 /\ Head(ctr[c].left) = ctr[c].left[1]
                 /\ Len(Tail(ctr[c].left)) = Len(ctr[c].left) - 1
                 /\ \A i \in 1..Len(ctr[c].left) - 1 : Tail(ctr[c].left)[i] = ctr[c].left[i + 1]
                 /\ Len(ctr[c].left) > 0
                 /\ <<Head(ctr[c].left)>> \o ctr[c].held \in Seq(Vols)
           /\ ctr[c].held # <<>> =>
                 /\ Head(ctr[c].held) \in Vols /\ Tail(ctr[c].held) \in Seq(Vols)
                 /\ Head(ctr[c].held) = ctr[c].held[1]
                 /\ Len(Tail(ctr[c].held)) = Len(ctr[c].held) - 1
                 /\ \A i \in 1..Len(ctr[c].held) - 1 : Tail(ctr[c].held)[i] = ctr[c].held[i + 1]
                 /\ Len(ctr[c].held) > 0
<1>1. ctr[c].left \in Seq(Vols) /\ ctr[c].held \in Seq(Vols)
  BY Zenon DEF VolumesTypeOK, Work
<1>2. ASSUME NEW s \in Seq(Vols), s # <<>>
      PROVE  /\ Head(s) \in Vols /\ Tail(s) \in Seq(Vols)
             /\ Head(s) = s[1] /\ Len(Tail(s)) = Len(s) - 1 /\ Len(s) > 0
             /\ \A i \in 1..Len(s) - 1 : Tail(s)[i] = s[i + 1]
  BY <1>2
<1>3. ASSUME NEW s \in Seq(Vols), NEW v \in Vols PROVE <<v>> \o s \in Seq(Vols)
  BY <1>3
<1> QED
  BY Zenon, <1>1, <1>2, <1>3

---------------------------------------------------------------------------
\* What a container is set to is well formed.
LEMMA WorkType ==
    ASSUME VolumesConfigured, VolumesTypeOK, NEW c \in Ctrs
    PROVE  /\ Idle \in Work
           /\ \A pc \in {"mount", "chown", "cleanup"} :
                 [Idle EXCEPT !.pc = pc, !.left = NamedVolumes[c]] \in Work
           /\ [ctr[c] EXCEPT !.pc = "undo"] \in Work
           /\ ctr[c].left # <<>> =>
                 /\ [ctr[c] EXCEPT !.left = Tail(@)] \in Work
                 /\ [ctr[c] EXCEPT !.left = Tail(@),
                                   !.held = <<Head(ctr[c].left)>> \o @] \in Work
           /\ ctr[c].held # <<>> => [ctr[c] EXCEPT !.held = Tail(@)] \in Work
<1>1. ctr[c] \in Work /\ NamedVolumes[c] \in Seq(Vols)
  BY Zenon DEF VolumesTypeOK, VolumesConfigured
<1>2. Idle \in Work
  BY DEF Idle, Work
<1>3. ASSUME NEW pc \in {"mount", "chown", "cleanup"}
      PROVE  [Idle EXCEPT !.pc = pc, !.left = NamedVolumes[c]] \in Work
  BY Zenon, <1>1, <1>2 DEF Work
<1>4. [ctr[c] EXCEPT !.pc = "undo"] \in Work
  BY Zenon, <1>1 DEF Work
<1>5. ASSUME ctr[c].left # <<>>
      PROVE  /\ [ctr[c] EXCEPT !.left = Tail(@)] \in Work
             /\ [ctr[c] EXCEPT !.left = Tail(@),
                               !.held = <<Head(ctr[c].left)>> \o @] \in Work
  <2>1. Tail(ctr[c].left) \in Seq(Vols) /\ <<Head(ctr[c].left)>> \o ctr[c].held \in Seq(Vols)
    BY Zenon, <1>5, HeadsAreVolumes
  <2> QED
    BY Zenon, <1>1, <2>1 DEF Work
<1>6. ASSUME ctr[c].held # <<>> PROVE [ctr[c] EXCEPT !.held = Tail(@)] \in Work
  <2>1. Tail(ctr[c].held) \in Seq(Vols)
    BY Zenon, <1>6, HeadsAreVolumes
  <2> QED
    BY Zenon, <1>1, <2>1 DEF Work
<1> QED
  BY Zenon, <1>2, <1>3, <1>4, <1>5, <1>6

\* Every step keeps rows, lists and program counters in range.
LEMMA TypeStep ==
    ASSUME VolumesConfigured, VolumesTypeOK, [VolumesNext]_volumeVars
    PROVE  VolumesTypeOK'
<1> USE DEF volume, flags
<1>1. ASSUME NEW c \in Ctrs, Prepare(c) PROVE VolumesTypeOK'
  <2>1. ctr' \in [Ctrs -> Work]
    BY Zenon, <1>1, WorkType DEF Prepare, VolumesTypeOK
  <2> QED
    BY Zenon, <1>1, <2>1 DEF Prepare, VolumesTypeOK
<1>2. ASSUME NEW c \in Ctrs, MountNamedVolume(c) PROVE VolumesTypeOK'
  <2> DEFINE v == Head(ctr[c].left)
             mounted == [ctr[c] EXCEPT !.left = Tail(@), !.held = <<v>> \o @]
             failed == [ctr[c] EXCEPT !.pc = "undo"]
  <2>1. v \in Vols
    BY Zenon, <1>2, HeadsAreVolumes DEF MountNamedVolume
  <2>2. mounted \in Work /\ failed \in Work
    BY Zenon, <1>2, WorkType DEF MountNamedVolume
  <2> HIDE DEF v, mounted, failed
  <2>3. CASE mount(v) /\ UNCHANGED flags /\ ctr' = [ctr EXCEPT ![c] = mounted]
    <3>1. MountCount' \in [Vols -> Nat] /\ host' \in [Vols -> BOOLEAN]
      BY Zenon, <2>1, <2>3, MountStep
    <3> QED
      BY Zenon, <1>2, <2>2, <2>3, <3>1 DEF MountNamedVolume, VolumesTypeOK
  <2>4. ASSUME mount(v), NEW ok \in BOOLEAN, copyUp(v, ok),
               ctr' = [ctr EXCEPT ![c] = IF ok THEN mounted ELSE failed]
        PROVE  VolumesTypeOK'
    <3>1. MountCount' \in [Vols -> Nat] /\ host' \in [Vols -> BOOLEAN]
      BY Zenon, <2>1, <2>4, MountStep
    <3>2. NeedsCopyUp' \in [Vols -> BOOLEAN] /\ copies' \in [Vols -> Nat]
      BY <2>1, <2>4 DEF copyUp, VolumesTypeOK
    <3> QED
      BY Zenon, <1>2, <2>2, <2>4, <3>1, <3>2 DEF MountNamedVolume, VolumesTypeOK
  <2>5. CASE ctr' = [ctr EXCEPT ![c] = failed] /\ UNCHANGED <<MountCount, host, flags>>
    BY Zenon, <1>2, <2>2, <2>5 DEF MountNamedVolume, VolumesTypeOK
  <2> QED
    BY Zenon, <1>2, <2>3, <2>4, <2>5 DEF MountNamedVolume, v, mounted, failed
<1>3. ASSUME NEW c \in Ctrs, DeferredUnmount(c) PROVE VolumesTypeOK'
  <2>1. ctr' \in [Ctrs -> Work]
    BY Zenon, <1>3, WorkType DEF DeferredUnmount, VolumesTypeOK
  <2>2. MountCount' \in [Vols -> Nat] /\ host' \in [Vols -> BOOLEAN]
    <3>1. CASE ctr[c].held = <<>>
      BY Zenon, <1>3, <3>1 DEF DeferredUnmount, VolumesTypeOK
    <3>2. CASE ctr[c].held # <<>>
      BY Zenon, <1>3, <3>2, HeadsAreVolumes, UnmountStep DEF DeferredUnmount
    <3> QED
      BY Zenon, <3>1, <3>2
  <2>3. rootfs' \in [Ctrs -> BOOLEAN]
    BY Zenon, <1>3 DEF DeferredUnmount, VolumesTypeOK
  <2> QED
    BY Zenon, <1>3, <2>1, <2>2, <2>3 DEF DeferredUnmount, VolumesTypeOK
<1>4. ASSUME NEW c \in Ctrs, Prepared(c) PROVE VolumesTypeOK'
  <2>1. ctr' \in [Ctrs -> Work]
    BY ZenonT(30), <1>4, WorkType DEF Prepared, VolumesTypeOK
  <2> QED
    BY Zenon, <1>4, <2>1 DEF Prepared, VolumesTypeOK
<1>5. ASSUME NEW c \in Ctrs, FixVolumePermissions(c) PROVE VolumesTypeOK'
  <2>1. ctr' \in [Ctrs -> Work]
    BY Zenon, <1>5, WorkType DEF FixVolumePermissions, VolumesTypeOK
  <2> QED
    BY Zenon, <1>5, <2>1 DEF FixVolumePermissions, VolumesTypeOK
<1>6. ASSUME NEW c \in Ctrs, Started(c) PROVE VolumesTypeOK'
  <2>1. ctr' \in [Ctrs -> Work]
    BY Zenon, <1>6, WorkType DEF Started, VolumesTypeOK
  <2> QED
    BY Zenon, <1>6, <2>1 DEF Started, VolumesTypeOK
<1>7. ASSUME NEW c \in Ctrs, Cleanup(c) PROVE VolumesTypeOK'
  <2>1. ctr' \in [Ctrs -> Work]
    BY Zenon, <1>7, WorkType DEF Cleanup, VolumesTypeOK
  <2> QED
    BY Zenon, <1>7, <2>1 DEF Cleanup, VolumesTypeOK
<1>8. ASSUME NEW c \in Ctrs, CleanupStorage(c) PROVE VolumesTypeOK'
  <2>1. ctr' \in [Ctrs -> Work]
    BY Zenon, <1>8, WorkType DEF CleanupStorage, VolumesTypeOK
  <2>2. MountCount' \in [Vols -> Nat] /\ host' \in [Vols -> BOOLEAN]
    <3>1. CASE ctr[c].left = <<>>
      BY Zenon, <1>8, <3>1 DEF CleanupStorage, VolumesTypeOK
    <3>2. CASE ctr[c].left # <<>>
      BY Zenon, <1>8, <3>2, HeadsAreVolumes, UnmountStep DEF CleanupStorage
    <3> QED
      BY Zenon, <3>1, <3>2
  <2>3. Mounted' \in [Ctrs -> BOOLEAN]
    BY Zenon, <1>8 DEF CleanupStorage, VolumesTypeOK
  <2> QED
    BY Zenon, <1>8, <2>1, <2>2, <2>3 DEF CleanupStorage, VolumesTypeOK
<1>9. ASSUME NEW c \in Ctrs, Die(c) PROVE VolumesTypeOK'
  <2>1. ctr' \in [Ctrs -> Work]
    BY Zenon, <1>9, WorkType DEF Die, VolumesTypeOK
  <2> QED
    BY Zenon, <1>9, <2>1 DEF Die, VolumesTypeOK
<1>10. ASSUME NEW v \in Vols, UserMount(v) PROVE VolumesTypeOK'
  <2>1. MountCount' \in [Vols -> Nat] /\ host' \in [Vols -> BOOLEAN]
    BY Zenon, <1>10, MountStep DEF UserMount
  <2>2. userMounts' \in [Vols -> 0..MaxUserMounts]
    BY <1>10 DEF UserMount, VolumesTypeOK, VolumesConfigured
  <2> QED
    BY Zenon, <1>10, <2>1, <2>2 DEF UserMount, VolumesTypeOK
<1>11. ASSUME NEW v \in Vols, UserUnmount(v) PROVE VolumesTypeOK'
  <2>1. MountCount' \in [Vols -> Nat] /\ host' \in [Vols -> BOOLEAN]
    BY Zenon, <1>11, UnmountStep DEF UserUnmount
  <2>2. userMounts' \in [Vols -> 0..MaxUserMounts]
    BY <1>11 DEF UserUnmount, VolumesTypeOK, VolumesConfigured
  <2> QED
    BY Zenon, <1>11, <2>1, <2>2 DEF UserUnmount, VolumesTypeOK
<1>12. ASSUME NEW v \in Vols, HostUnmount(v) PROVE VolumesTypeOK'
  BY Zenon, <1>12 DEF HostUnmount, VolumesTypeOK
<1>13. CASE Reboot
  <2>1. ctr' \in [Ctrs -> Work]
    BY <1>13 DEF Reboot, Idle, Work
  <2> QED
    BY <1>13, <2>1 DEF Reboot, VolumesTypeOK, VolumesConfigured
<1>14. CASE UNCHANGED volumeVars
  BY Zenon, <1>14 DEF volumeVars, VolumesTypeOK
<1> QED
  BY Zenon, <1>1, <1>2, <1>3, <1>4, <1>5, <1>6, <1>7, <1>8, <1>9, <1>10, <1>11, <1>12, <1>13,
     <1>14 DEF VolumesNext

---------------------------------------------------------------------------
\* A container starts at the beginning of its list.
LEMMA ListsBegin ==
    ASSUME VolumesConfigured, VolumesTypeOK, NEW c \in Ctrs, NEW pc \in {"mount", "chown",
           "cleanup"},
           ctr'[c] = [Idle EXCEPT !.pc = pc, !.left = NamedVolumes[c]]
    PROVE  ListsOf(c)'
  BY DEF ListsOf, Idle, VolumesConfigured

\* Every step keeps each container's place in its list.
LEMMA ListsStep ==
    ASSUME VolumesConfigured, VolumesTypeOK, ListsMatch, [VolumesNext]_volumeVars
    PROVE  ListsMatch'
<1> SUFFICES ASSUME NEW d \in Ctrs PROVE ListsOf(d)'
  BY Zenon DEF ListsMatch
<1>0. ListsOf(d) /\ ctr[d] \in Work /\ ctr \in [Ctrs -> Work]
  BY Zenon DEF ListsMatch, VolumesTypeOK
<1>00. ctr'[d] = ctr[d] => ListsOf(d)'
  BY Zenon, <1>0 DEF ListsOf
<1>000. ctr'[d] = Idle => ListsOf(d)'
  BY DEF ListsOf, Idle
<1>1. ASSUME NEW c \in Ctrs, Prepare(c) PROVE ListsOf(d)'
  BY Zenon, <1>0, <1>00, <1>1, ListsBegin DEF Prepare
<1>2. ASSUME NEW c \in Ctrs, MountNamedVolume(c) PROVE ListsOf(d)'
  <2> DEFINE v == Head(ctr[c].left)
             mounted == [ctr[c] EXCEPT !.left = Tail(@), !.held = <<v>> \o @]
             failed == [ctr[c] EXCEPT !.pc = "undo"]
  <2>1. ctr' = [ctr EXCEPT ![c] = mounted] \/ ctr' = [ctr EXCEPT ![c] = failed]
    BY Zenon, <1>2 DEF MountNamedVolume
  <2>2. CASE d # c
    BY Zenon, <1>0, <1>00, <2>1, <2>2
  <2>3. CASE d = c /\ ctr'[d] = failed
    BY <1>0, <1>2, <2>3 DEF ListsOf, Work, MountNamedVolume
  <2>4. CASE d = c /\ ctr'[d] = mounted
    <3> DEFINE old == ctr[d]  new == mounted  N == NamedVolumes[d]
    <3>1. /\ old.pc = "mount" /\ old.left # <<>>
          /\ old.held \in Seq(Vols) /\ old.left \in Seq(Vols)
      BY Zenon, <1>0, <1>2, <2>4 DEF MountNamedVolume, Work
    <3>2. /\ new.pc = "mount" /\ new.left = Tail(old.left) /\ new.held = <<v>> \o old.held
          /\ v = old.left[1] /\ v \in Vols
      BY Zenon, <1>0, <2>4, <3>1, HeadsAreVolumes DEF Work
    <3>3. /\ Len(old.held) <= Len(N) /\ Len(old.left) = Len(N) - Len(old.held)
          /\ \A i \in 1..Len(old.held) : old.held[i] = N[Len(old.held) + 1 - i]
          /\ \A i \in 1..Len(old.left) : old.left[i] = N[Len(old.held) + i]
      BY Zenon, <1>0, <3>1 DEF ListsOf
    <3>4. /\ Len(new.left) = Len(old.left) - 1 /\ Len(old.left) > 0
          /\ \A i \in 1..Len(old.left) - 1 : new.left[i] = old.left[i + 1]
      BY <2>4, <3>1, <3>2, HeadsAreVolumes
    <3>5. /\ Len(new.held) = Len(old.held) + 1
          /\ new.held[1] = v
          /\ \A i \in 2..Len(old.held) + 1 : new.held[i] = old.held[i - 1]
      BY SMTT(30), <3>1, <3>2
    <3> HIDE DEF old, new, N, v
    <3>6. N \in Seq(Vols) /\ Len(N) \in Nat /\ Len(old.held) \in Nat /\ Len(old.left) \in Nat
      BY <3>1 DEF VolumesConfigured, N
    <3>7. \A i \in 1..Len(new.held) : new.held[i] = N[Len(new.held) + 1 - i]
      <4> SUFFICES ASSUME NEW i \in 1..Len(new.held)
                   PROVE  new.held[i] = N[Len(new.held) + 1 - i]
        BY Zenon
      <4>1. CASE i = 1
        <5>0. 1 \in 1..Len(old.left)
          BY <3>4, <3>6
        <5>1. v = N[Len(old.held) + 1]
          BY Zenon, <3>2, <3>3, <5>0
        <5> QED
          BY <3>5, <3>6, <4>1, <5>1
      <4>2. CASE i # 1
        <5>1. i - 1 \in 1..Len(old.held) /\ i \in 2..Len(old.held) + 1
          BY <3>5, <3>6, <4>2
        <5>2. old.held[i - 1] = N[Len(old.held) + 1 - (i - 1)]
          BY Zenon, <3>3, <5>1
        <5>3. Len(old.held) + 1 - (i - 1) = Len(new.held) + 1 - i
          BY <3>5, <3>6
        <5> QED
          BY Zenon, <3>5, <5>1, <5>2, <5>3
      <4> QED
        BY Zenon, <4>1, <4>2
    <3>8. \A i \in 1..Len(new.left) : new.left[i] = N[Len(new.held) + i]
      <4> SUFFICES ASSUME NEW i \in 1..Len(new.left)
                   PROVE  new.left[i] = N[Len(new.held) + i]
        BY Zenon
      <4>1. i \in 1..Len(old.left) - 1 /\ i + 1 \in 1..Len(old.left)
        BY <3>4, <3>6
      <4>2. new.left[i] = N[Len(old.held) + (i + 1)]
        BY Zenon, <3>3, <3>4, <4>1
      <4>3. Len(old.held) + (i + 1) = Len(new.held) + i
        <5>1. i \in Int /\ Len(old.held) \in Int /\ Len(new.held) = Len(old.held) + 1
          BY <3>5, <3>6, <4>1
        <5>2. \A a, j \in Int : a + (j + 1) = (a + 1) + j
          OBVIOUS
        <5>3. Len(old.held) + (i + 1) = (Len(old.held) + 1) + i
          BY Zenon, <5>1, <5>2
        <5> QED
          BY Zenon, <5>1, <5>3
      <4> QED
        BY Zenon, <4>2, <4>3
    <3>9. Len(new.held) <= Len(N) /\ Len(new.left) = Len(N) - Len(new.held)
      BY <3>3, <3>4, <3>5, <3>6
    <3>10. ctr'[d] = new
      BY Zenon, <2>4 DEF new
    <3> QED
      BY Zenon, <3>2, <3>7, <3>8, <3>9, <3>10 DEF ListsOf, N
  <2> QED
    BY Zenon, <1>0, <2>1, <2>2, <2>3, <2>4
<1>3. ASSUME NEW c \in Ctrs, DeferredUnmount(c) PROVE ListsOf(d)'
  <2>1. CASE d # c
    BY Zenon, <1>0, <1>00, <1>3, <2>1 DEF DeferredUnmount
  <2>2. CASE d = c /\ ctr[c].held = <<>>
    BY Zenon, <1>0, <1>000, <1>3, <2>2 DEF DeferredUnmount
  <2>3. CASE d = c /\ ctr[c].held # <<>>
    <3> DEFINE old == ctr[d].held  new == Tail(ctr[d].held)  N == NamedVolumes[d]
    <3>1. ctr'[d] = [ctr[d] EXCEPT !.held = Tail(@)] /\ ctr[d].pc = "undo"
      BY Zenon, <1>0, <1>3, <2>3 DEF DeferredUnmount
    <3>2. ctr'[d].pc = "undo" /\ ctr'[d].held = new
      BY Zenon, <1>0, <3>1 DEF Work
    <3>3. /\ Len(old) <= Len(N)
          /\ \A i \in 1..Len(old) : old[i] = N[Len(old) + 1 - i]
      BY Zenon, <1>0, <3>1 DEF ListsOf
    <3>4. /\ Len(new) = Len(old) - 1 /\ Len(old) > 0
          /\ \A i \in 1..Len(old) - 1 : new[i] = old[i + 1]
          /\ Len(old) \in Nat
      BY <1>0, <2>3, HeadsAreVolumes DEF Work
    <3> HIDE DEF old, new, N
    <3>5. ASSUME NEW i \in 1..Len(new) PROVE new[i] = N[Len(new) + 1 - i]
      <4>1. i \in 1..Len(old) - 1 /\ i + 1 \in 1..Len(old)
        BY <3>4
      <4>2. new[i] = N[Len(old) + 1 - (i + 1)]
        BY Zenon, <3>3, <3>4, <4>1
      <4>3. Len(old) + 1 - (i + 1) = Len(new) + 1 - i
        <5>1. i \in Int /\ Len(old) \in Int /\ Len(new) = Len(old) - 1
          BY <3>4, <4>1
        <5> QED
          BY <5>1
      <4> QED
        BY Zenon, <4>2, <4>3
    <3>6. N \in Seq(Vols) /\ Len(N) \in Nat
      BY DEF VolumesConfigured, N
    <3>7. Len(new) <= Len(N)
      BY <3>3, <3>4, <3>6
    <3> QED
      BY Zenon, <3>2, <3>5, <3>7 DEF ListsOf, N
  <2> QED
    BY Zenon, <2>1, <2>2, <2>3
<1>4. ASSUME NEW c \in Ctrs, Prepared(c) PROVE ListsOf(d)'
  BY Zenon, <1>0, <1>00, <1>4, ListsBegin DEF Prepared
<1>5. ASSUME NEW c \in Ctrs, FixVolumePermissions(c) PROVE ListsOf(d)'
  <2>1. d = c => ctr'[d].pc = "chown"
    BY Zenon, <1>0, <1>5 DEF FixVolumePermissions, Work
  <2> QED
    BY Zenon, <1>0, <1>00, <1>5, <2>1 DEF FixVolumePermissions, ListsOf
<1>6. ASSUME NEW c \in Ctrs, Started(c) PROVE ListsOf(d)'
  BY Zenon, <1>0, <1>00, <1>000, <1>6 DEF Started
<1>7. ASSUME NEW c \in Ctrs, Cleanup(c) PROVE ListsOf(d)'
  BY Zenon, <1>0, <1>00, <1>7, ListsBegin DEF Cleanup
<1>8. ASSUME NEW c \in Ctrs, CleanupStorage(c) PROVE ListsOf(d)'
  <2>1. CASE d # c
    BY Zenon, <1>0, <1>00, <1>8, <2>1 DEF CleanupStorage
  <2>2. CASE d = c /\ ctr[c].left = <<>>
    BY Zenon, <1>0, <1>000, <1>8, <2>2 DEF CleanupStorage
  <2>3. CASE d = c /\ ctr[c].left # <<>>
    <3> DEFINE old == ctr[d].left  new == Tail(ctr[d].left)  N == NamedVolumes[d]
    <3>1. ctr'[d] = [ctr[d] EXCEPT !.left = Tail(@)] /\ ctr[d].pc = "cleanup"
      BY Zenon, <1>0, <1>8, <2>3 DEF CleanupStorage
    <3>2. ctr'[d].pc = "cleanup" /\ ctr'[d].left = new
      BY Zenon, <1>0, <3>1 DEF Work
    <3>3. /\ Len(old) <= Len(N)
          /\ \A i \in 1..Len(old) : old[i] = N[Len(N) - Len(old) + i]
      BY Zenon, <1>0, <3>1 DEF ListsOf
    <3>4. /\ Len(new) = Len(old) - 1 /\ Len(old) > 0
          /\ \A i \in 1..Len(old) - 1 : new[i] = old[i + 1]
          /\ Len(old) \in Nat
      BY <1>0, <2>3, HeadsAreVolumes DEF Work
    <3> HIDE DEF old, new, N
    <3>5. N \in Seq(Vols) /\ Len(N) \in Nat
      BY DEF VolumesConfigured, N
    <3>6. ASSUME NEW i \in 1..Len(new) PROVE new[i] = N[Len(N) - Len(new) + i]
      <4>1. i \in 1..Len(old) - 1 /\ i + 1 \in 1..Len(old)
        BY <3>4
      <4>2. new[i] = N[Len(N) - Len(old) + (i + 1)]
        BY Zenon, <3>3, <3>4, <4>1
      <4>3. Len(N) - Len(old) + (i + 1) = Len(N) - Len(new) + i
        <5>1. /\ i \in Int /\ Len(old) \in Int /\ Len(N) \in Int
              /\ Len(new) = Len(old) - 1
          BY <3>4, <3>5, <4>1
        <5> QED
          BY <5>1
      <4> QED
        BY Zenon, <4>2, <4>3
    <3>7. Len(new) <= Len(N)
      BY <3>3, <3>4, <3>5
    <3> QED
      BY Zenon, <3>2, <3>6, <3>7 DEF ListsOf, N
  <2> QED
    BY Zenon, <2>1, <2>2, <2>3
<1>9. ASSUME NEW c \in Ctrs, Die(c) PROVE ListsOf(d)'
  BY Zenon, <1>0, <1>00, <1>000, <1>9 DEF Die
<1>10. ASSUME NEW v \in Vols, UserMount(v) \/ UserUnmount(v) \/ HostUnmount(v)
       PROVE  ListsOf(d)'
  BY Zenon, <1>00, <1>10 DEF UserMount, UserUnmount, HostUnmount
<1>11. CASE Reboot
  BY Zenon, <1>000, <1>11 DEF Reboot
<1>12. CASE UNCHANGED volumeVars
  BY Zenon, <1>00, <1>12 DEF volumeVars
<1> QED
  BY Zenon, <1>1, <1>2, <1>3, <1>4, <1>5, <1>6, <1>7, <1>8, <1>9, <1>10, <1>11, <1>12 DEF VolumesNext

---------------------------------------------------------------------------
\* Every step keeps the flags of a container in step with what it is doing.
LEMMA PhaseStep ==
    ASSUME VolumesConfigured, VolumesTypeOK, Phases, [VolumesNext]_volumeVars
    PROVE  Phases'
<1> SUFFICES ASSUME NEW d \in Ctrs PROVE PhaseOf(d)'
  BY Zenon DEF Phases
<1>0. PhaseOf(d)
  BY Zenon DEF Phases
<1>00. /\ ctr \in [Ctrs -> Work] /\ Mounted \in [Ctrs -> BOOLEAN]
       /\ rootfs \in [Ctrs -> BOOLEAN] /\ up \in [Ctrs -> BOOLEAN]
  BY Zenon DEF VolumesTypeOK
<1>000. UNCHANGED <<ctr, Mounted, rootfs, up, faults>> => PhaseOf(d)'
  BY Zenon, <1>0 DEF PhaseOf
<1> USE <1>0, <1>00 DEF PhaseOf, volume
<1>1. ASSUME NEW c \in Ctrs, Prepare(c) PROVE PhaseOf(d)'
  <2>1. CASE d # c
    BY Zenon, <1>1, <2>1 DEF Prepare
  <2>2. CASE d = c
    <3>1. /\ ctr'[d].pc = IF Mounted[d] /\ rootfs[d] THEN "chown" ELSE "mount"
          /\ rootfs'[d] /\ Mounted' = Mounted /\ ~up'[d] /\ faults' = faults
          /\ ctr[d].pc = "idle"
      BY Zenon, <1>1, <2>2 DEF Prepare, Idle
    <3> QED
      BY Zenon, <3>1
  <2> QED
    BY Zenon, <2>1, <2>2
<1>2. ASSUME NEW c \in Ctrs, MountNamedVolume(c) PROVE PhaseOf(d)'
  <2>1. /\ ctr[c].pc = "mount" /\ UNCHANGED <<Mounted, rootfs, up, faults>>
        /\ \/ ctr' = [ctr EXCEPT ![c] = [ctr[c] EXCEPT !.pc = "undo"]]
           \/ ctr' = [ctr EXCEPT ![c] = [ctr[c] EXCEPT !.left = Tail(@),
                                                       !.held = <<Head(ctr[c].left)>> \o @]]
    BY Zenon, <1>2 DEF MountNamedVolume
  <2>2. ctr'[d].pc = ctr[d].pc \/ (ctr[d].pc = "mount" /\ ctr'[d].pc = "undo")
    BY Zenon, <2>1 DEF Work
  <2> QED
    BY Zenon, <2>1, <2>2
<1>3. ASSUME NEW c \in Ctrs, DeferredUnmount(c) PROVE PhaseOf(d)'
  <2>1. /\ ctr[c].pc = "undo" /\ UNCHANGED <<Mounted, up, faults>>
        /\ \/ ctr' = [ctr EXCEPT ![c] = Idle] /\ rootfs' = [rootfs EXCEPT ![c] = FALSE]
           \/ ctr' = [ctr EXCEPT ![c] = [ctr[c] EXCEPT !.held = Tail(@)]] /\ rootfs' = rootfs
    BY Zenon, <1>3 DEF DeferredUnmount
  <2>2. \/ ctr'[d].pc = ctr[d].pc /\ rootfs'[d] = rootfs[d]
        \/ ctr[d].pc = "undo" /\ ctr'[d].pc = "idle"
    BY <2>1 DEF Work, Idle
  <2> QED
    BY Zenon, <2>1, <2>2
<1>4. ASSUME NEW c \in Ctrs, Prepared(c) PROVE PhaseOf(d)'
  <2>1. CASE d # c
    BY Zenon, <1>4, <2>1 DEF Prepared
  <2>2. CASE d = c
    <3>1. ctr[d].pc = "mount" /\ up' = up /\ faults' = faults
      BY Zenon, <1>4, <2>2 DEF Prepared
    <3>2. CASE /\ Mounted' = [Mounted EXCEPT ![c] = TRUE] /\ rootfs' = rootfs
               /\ ctr' = [ctr EXCEPT ![c] = [Idle EXCEPT !.pc = "chown", !.left = NamedVolumes[c]]]
      <4>1. Mounted'[d] = TRUE /\ ctr'[d].pc = "chown"
        BY Zenon, <2>2, <3>2 DEF Idle
      <4> QED
        BY Zenon, <3>1, <3>2, <4>1
    <3>3. CASE ctr' = [ctr EXCEPT ![c] = [Idle EXCEPT !.pc = "cleanup", !.left = NamedVolumes[c]]]
      <4>1. ctr'[d].pc = "cleanup"
        BY Zenon, <2>2, <3>3 DEF Idle
      <4> QED
        BY Zenon, <3>1, <4>1
    <3> QED
      BY Zenon, <1>4, <3>2, <3>3 DEF Prepared
  <2> QED
    BY Zenon, <2>1, <2>2
<1>5. ASSUME NEW c \in Ctrs, FixVolumePermissions(c) PROVE PhaseOf(d)'
  <2>1. /\ UNCHANGED <<Mounted, rootfs, up, faults>>
        /\ ctr' = [ctr EXCEPT ![c] = [ctr[c] EXCEPT !.left = Tail(@)]]
    BY Zenon, <1>5 DEF FixVolumePermissions
  <2>2. ctr'[d].pc = ctr[d].pc
    BY Zenon, <2>1 DEF Work
  <2> QED
    BY Zenon, <2>1, <2>2
<1>6. ASSUME NEW c \in Ctrs, Started(c) PROVE PhaseOf(d)'
  <2>1. CASE d # c
    BY Zenon, <1>6, <2>1 DEF Started
  <2>2. CASE d = c
    <3>1. /\ ctr[d].pc = "chown" /\ ctr'[d].pc = "idle"
          /\ UNCHANGED <<Mounted, rootfs, faults>>
      BY Zenon, <1>6, <2>2 DEF Started, Idle
    <3> QED
      BY Zenon, <3>1
  <2> QED
    BY Zenon, <2>1, <2>2
<1>7. ASSUME NEW c \in Ctrs, Cleanup(c) PROVE PhaseOf(d)'
  <2>1. CASE d # c
    BY Zenon, <1>7, <2>1 DEF Cleanup
  <2>2. CASE d = c
    <3>1. ctr'[d].pc = "cleanup" /\ ~up'[d]
      BY Zenon, <1>7, <2>2 DEF Cleanup, Idle
    <3> QED
      BY Zenon, <3>1
  <2> QED
    BY Zenon, <2>1, <2>2
<1>8. ASSUME NEW c \in Ctrs, CleanupStorage(c) PROVE PhaseOf(d)'
  <2>1. /\ ctr[c].pc = "cleanup" /\ UNCHANGED <<rootfs, up, faults>>
        /\ \/ Mounted' = [Mounted EXCEPT ![c] = FALSE] /\ ctr' = [ctr EXCEPT ![c] = Idle]
           \/ ctr' = [ctr EXCEPT ![c] = [ctr[c] EXCEPT !.left = Tail(@)]] /\ Mounted' = Mounted
    BY Zenon, <1>8 DEF CleanupStorage
  <2>2. \/ ctr'[d].pc = ctr[d].pc /\ Mounted'[d] = Mounted[d]
        \/ ctr[d].pc = "cleanup" /\ ctr'[d].pc = "idle" /\ ~Mounted'[d]
    BY <2>1 DEF Work, Idle
  <2> QED
    BY Zenon, <2>1, <2>2
<1>9. ASSUME NEW c \in Ctrs, Die(c) PROVE PhaseOf(d)'
  <2>1. CASE d # c
    BY Zenon, <1>9, <2>1 DEF Die
  <2>2. CASE d = c
    <3>1. /\ ctr[d].pc # "idle" /\ ctr'[d].pc = "idle" /\ UNCHANGED <<Mounted, rootfs, up, faults>>
          /\ ctr[d].pc = "cleanup" => "diecleanup" \in faults
      BY Zenon, <1>9, <2>2 DEF Die, Idle
    <3> QED
      BY Zenon, <3>1
  <2> QED
    BY Zenon, <2>1, <2>2
<1>10. ASSUME NEW v \in Vols, UserMount(v) \/ UserUnmount(v) \/ HostUnmount(v)
       PROVE  PhaseOf(d)'
  BY Zenon, <1>000, <1>10 DEF UserMount, UserUnmount, HostUnmount
<1>11. CASE Reboot
  <2>1. ctr'[d].pc = "idle" /\ ~up'[d] /\ ~Mounted'[d]
    BY Zenon, <1>11 DEF Reboot, Idle
  <2> QED
    BY Zenon, <2>1
<1>12. CASE UNCHANGED volumeVars
  BY Zenon, <1>000, <1>12 DEF volumeVars
<1> QED
  BY Zenon, <1>1, <1>2, <1>3, <1>4, <1>5, <1>6, <1>7, <1>8, <1>9, <1>10, <1>11, <1>12 DEF VolumesNext

---------------------------------------------------------------------------
\* Only a volume whose row says that it needs it is copied up, and the row is
\* changed first.
LEMMA CopiesStep ==
    ASSUME VolumesTypeOK, Copies, [VolumesNext]_volumeVars
    PROVE  Copies'
<1>1. UNCHANGED <<copies, NeedsCopyUp>> => Copies'
  BY Zenon DEF Copies
<1>2. ASSUME NEW c \in Ctrs, MountNamedVolume(c) PROVE Copies'
  <2>1. CASE UNCHANGED flags
    BY Zenon, <1>1, <2>1 DEF flags
  <2>2. ASSUME NEW ok, NeedsCopyUp[Head(ctr[c].left)], copyUp(Head(ctr[c].left), ok)
        PROVE  Copies'
    BY <2>2 DEF copyUp, Copies, VolumesTypeOK
  <2> QED
    BY Zenon, <1>2, <2>1, <2>2 DEF MountNamedVolume
<1>3. ASSUME NEW c \in Ctrs, \/ Prepare(c) \/ DeferredUnmount(c) \/ Prepared(c)
                             \/ FixVolumePermissions(c) \/ Started(c) \/ Cleanup(c)
                             \/ CleanupStorage(c) \/ Die(c)
      PROVE  Copies'
  BY Zenon, <1>1, <1>3 DEF Prepare, DeferredUnmount, Prepared, FixVolumePermissions, Started,
                    Cleanup, CleanupStorage, Die, volume, flags
<1>4. ASSUME NEW v \in Vols, UserMount(v) \/ UserUnmount(v) \/ HostUnmount(v) PROVE Copies'
  BY Zenon, <1>1, <1>4 DEF UserMount, UserUnmount, HostUnmount, flags
<1>5. CASE Reboot \/ UNCHANGED volumeVars
  BY Zenon, <1>1, <1>5 DEF Reboot, volumeVars
<1> QED
  BY Zenon, <1>2, <1>3, <1>4, <1>5 DEF VolumesNext

\* The counter and the host change together.
LEMMA HostStep ==
    ASSUME VolumesTypeOK, CountMatchesHost, [VolumesNext]_volumeVars
    PROVE  CountMatchesHost'
<1>1. UNCHANGED <<MountCount, host, faults>> => CountMatchesHost'
  BY Zenon DEF CountMatchesHost
<1>2. ASSUME NEW v \in Vols, mount(v), faults' = faults PROVE CountMatchesHost'
  BY Zenon, <1>2, MountStep DEF CountMatchesHost
<1>3. ASSUME NEW v \in Vols, unmount(v), faults' = faults PROVE CountMatchesHost'
  BY Zenon, <1>3, UnmountStep DEF CountMatchesHost
<1>4. ASSUME NEW c \in Ctrs, MountNamedVolume(c) PROVE CountMatchesHost'
  BY Zenon, <1>1, <1>2, <1>4, HeadsAreVolumes DEF MountNamedVolume
<1>5. ASSUME NEW c \in Ctrs, DeferredUnmount(c) PROVE CountMatchesHost'
  BY Zenon, <1>1, <1>3, <1>5, HeadsAreVolumes DEF DeferredUnmount
<1>6. ASSUME NEW c \in Ctrs, CleanupStorage(c) PROVE CountMatchesHost'
  BY Zenon, <1>1, <1>3, <1>6, HeadsAreVolumes DEF CleanupStorage
<1>7. ASSUME NEW c \in Ctrs, \/ Prepare(c) \/ Prepared(c) \/ FixVolumePermissions(c)
                             \/ Started(c) \/ Cleanup(c) \/ Die(c)
      PROVE  CountMatchesHost'
  BY Zenon, <1>1, <1>7 DEF Prepare, Prepared, FixVolumePermissions, Started, Cleanup, Die, volume
<1>8. ASSUME NEW v \in Vols, UserMount(v) \/ UserUnmount(v) \/ HostUnmount(v)
      PROVE  CountMatchesHost'
  <2>1. HostUnmount(v) => CountMatchesHost'
    BY Zenon DEF HostUnmount, CountMatchesHost
  <2> QED
    BY Zenon, <1>2, <1>3, <1>8, <2>1 DEF UserMount, UserUnmount
<1>9. CASE Reboot
  <2>1. ASSUME NEW w \in Vols PROVE host'[w] = (MountCount'[w] > 0)
    <3>1. MountCount'[w] = 0 /\ host'[w] = FALSE
      BY Zenon, <1>9 DEF Reboot
    <3>2. (0 > 0) = FALSE
      OBVIOUS
    <3> QED
      BY Zenon, <3>1, <3>2
  <2> QED
    BY Zenon, <2>1 DEF CountMatchesHost
<1>10. CASE UNCHANGED volumeVars
  BY Zenon, <1>1, <1>10 DEF volumeVars
<1> QED
  BY Zenon, <1>4, <1>5, <1>6, <1>7, <1>8, <1>9, <1>10 DEF VolumesNext

---------------------------------------------------------------------------
\* What a container holds, by what it is doing.
LEMMA HoldsBy ==
    ASSUME NEW c
    PROVE  /\ ctr[c].pc \in {"mount", "undo"} => Holds(c) = 1..Len(ctr[c].held)
           /\ ctr[c].pc = "cleanup" =>
                 Holds(c) = (Len(NamedVolumes[c]) - Len(ctr[c].left) + 1)..Len(NamedVolumes[c])
           /\ ctr[c].pc \in {"idle", "chown"} /\ Mounted[c] => Holds(c) = DOMAIN NamedVolumes[c]
           /\ ctr[c].pc \in {"idle", "chown"} /\ ~Mounted[c] => Holds(c) = {}
           /\ ctr'[c].pc \in {"mount", "undo"} => Holds(c)' = 1..Len(ctr'[c].held)
           /\ ctr'[c].pc = "cleanup" =>
                 Holds(c)' = (Len(NamedVolumes[c]) - Len(ctr'[c].left) + 1)..Len(NamedVolumes[c])
           /\ ctr'[c].pc \in {"idle", "chown"} /\ Mounted'[c] => Holds(c)' = DOMAIN NamedVolumes[c]
           /\ ctr'[c].pc \in {"idle", "chown"} /\ ~Mounted'[c] => Holds(c)' = {}
           /\ ctr'[c] = ctr[c] /\ Mounted'[c] = Mounted[c] => Holds(c)' = Holds(c)
  BY Zenon DEF Holds

\* A list one longer at its end, and one shorter at its beginning.
LEMMA Intervals ==
    /\ \A n \in Nat : n + 1 \notin 1..n /\ 1..(n + 1) = (1..n) \cup {n + 1}
    /\ \A n, l \in Nat : 0 < l /\ l <= n =>
          /\ n - l + 1 \in (n - l + 1)..n
          /\ (n - (l - 1) + 1)..n = ((n - l + 1)..n) \ {n - l + 1}
<1>1. ASSUME NEW n \in Nat, NEW l \in Nat, 0 < l, l <= n
      PROVE  /\ n - l + 1 \in (n - l + 1)..n
             /\ (n - (l - 1) + 1)..n = ((n - l + 1)..n) \ {n - l + 1}
  <2>1. \A i \in Int : i \in (n - (l - 1) + 1)..n <=> i \in (n - l + 1)..n /\ i # n - l + 1
    BY <1>1
  <2> QED
    BY <1>1, <2>1
<1>2. ASSUME NEW n \in Nat
      PROVE  n + 1 \notin 1..n /\ 1..(n + 1) = (1..n) \cup {n + 1}
  OBVIOUS
<1> QED
  BY Zenon, <1>1, <1>2

\* No step changes what may go wrong.
LEMMA FaultsFixed ==
    ASSUME [VolumesNext]_volumeVars
    PROVE  faults' = faults
  BY Zenon DEF VolumesNext, volumeVars, Prepare, MountNamedVolume, DeferredUnmount, Prepared,
         FixVolumePermissions, Started, Cleanup, CleanupStorage, Die, UserMount, UserUnmount,
         HostUnmount, Reboot

\* What keeps the count of a volume: the counter follows the requests.
LEMMA CountKept ==
    ASSUME VolumesTypeOK, VolumesTypeOK', NEW v \in Vols, CountOf(v), faults' = faults
    PROVE  /\ /\ \/ Requests(v)' = Requests(v)
                 \/ /\ IsFiniteSet(Requests(v)')
                    /\ Cardinality(Requests(v)') <= Cardinality(Requests(v))
                    /\ "die" \in faults
              /\ MountCount'[v] = MountCount[v] /\ userMounts'[v] = userMounts[v]
              => CountOf(v)'
           /\ /\ Requests(v)' = Requests(v) /\ "copyup" \in faults
              /\ MountCount'[v] \in {MountCount[v], MountCount[v] + 1}
              /\ userMounts'[v] = userMounts[v]
              => CountOf(v)'
           /\ /\ Requests(v)' = Requests(v)
              /\ MountCount'[v] - MountCount[v] = userMounts'[v] - userMounts[v]
              => CountOf(v)'
           /\ /\ IsFiniteSet(Requests(v)') /\ userMounts'[v] = userMounts[v]
              /\ MountCount'[v] - MountCount[v] =
                    Cardinality(Requests(v)') - Cardinality(Requests(v))
              => CountOf(v)'
<1> DEFINE n == Cardinality(Requests(v))
           m == Cardinality(Requests(v)')
<1>1. /\ MountCount[v] \in Nat /\ MountCount'[v] \in Nat
      /\ userMounts[v] \in Nat /\ userMounts'[v] \in Nat
  BY DEF VolumesTypeOK
<1>2. n \in Nat
  BY Zenon, FS_CardinalityType DEF CountOf
<1>3. IsFiniteSet(Requests(v)') => m \in Nat
  BY Zenon, FS_CardinalityType
<1>4. Requests(v)' = Requests(v) => IsFiniteSet(Requests(v)') /\ m = n
  BY Zenon DEF CountOf
<1>5. /\ MountCount[v] >= userMounts[v] + n
      /\ faults \cap {"copyup", "die"} = {} => MountCount[v] = userMounts[v] + n
  BY Zenon DEF CountOf
<1>6. /\ IsFiniteSet(Requests(v)')
      /\ MountCount'[v] >= userMounts'[v] + m
      /\ faults \cap {"copyup", "die"} = {} => MountCount'[v] = userMounts'[v] + m
      => CountOf(v)'
  BY Zenon DEF CountOf
<1> HIDE DEF n, m
<1>7. /\ "die" \in faults => faults \cap {"copyup", "die"} # {}
      /\ "copyup" \in faults => faults \cap {"copyup", "die"} # {}
  BY Zenon
<1>8. ASSUME Requests(v)' = Requests(v)
             \/ (IsFiniteSet(Requests(v)') /\ m <= n /\ "die" \in faults),
             MountCount'[v] = MountCount[v], userMounts'[v] = userMounts[v]
      PROVE  CountOf(v)'
  BY <1>1, <1>2, <1>3, <1>4, <1>5, <1>6, <1>7, <1>8
<1>9. ASSUME Requests(v)' = Requests(v), "copyup" \in faults,
             MountCount'[v] \in {MountCount[v], MountCount[v] + 1},
             userMounts'[v] = userMounts[v]
      PROVE  CountOf(v)'
  BY <1>1, <1>2, <1>4, <1>5, <1>6, <1>7, <1>9
<1>10. ASSUME Requests(v)' = Requests(v),
              MountCount'[v] - MountCount[v] = userMounts'[v] - userMounts[v]
       PROVE  CountOf(v)'
  BY <1>1, <1>2, <1>4, <1>5, <1>6, <1>10
<1>11. ASSUME IsFiniteSet(Requests(v)'), userMounts'[v] = userMounts[v],
              MountCount'[v] - MountCount[v] = m - n
       PROVE  CountOf(v)'
  BY <1>1, <1>2, <1>3, <1>5, <1>6, <1>11
<1> QED
  BY Zenon, <1>8, <1>9, <1>10, <1>11 DEF n, m

\* Every step keeps the count of every volume.
LEMMA CountsStep ==
    ASSUME VolumesConfigured, VolumesTypeOK, VolumesTypeOK', ListsMatch, Phases, CountMatchesHost,
           Counts, [VolumesNext]_volumeVars
    PROVE  Counts'
<1>0. faults' = faults
  BY Zenon, FaultsFixed
<1> SUFFICES ASSUME faults \cap {"diecleanup", "umount", "user"} = {}, NEW w \in Vols
             PROVE  CountOf(w)'
  BY Zenon, <1>0 DEF Counts
<1>00. /\ "diecleanup" \notin faults /\ "umount" \notin faults /\ "user" \notin faults
       /\ CountOf(w) /\ IsFiniteSet(Requests(w))
  BY Zenon DEF Counts, CountOf
<1>01. /\ ctr \in [Ctrs -> Work] /\ Mounted \in [Ctrs -> BOOLEAN]
       /\ \A c \in Ctrs : ctr[c] \in Work /\ ListsOf(c) /\ PhaseOf(c) /\ NamedVolumes[c] \in Seq(Vols)
       /\ MountCount \in [Vols -> Nat] /\ userMounts \in [Vols -> 0..MaxUserMounts]
  BY Zenon DEF VolumesTypeOK, ListsMatch, Phases, VolumesConfigured
<1>02. /\ MountCount[w] \in Nat /\ userMounts[w] \in Nat
       /\ Cardinality(Requests(w)) \in Nat
       /\ MountCount[w] >= userMounts[w] + Cardinality(Requests(w))
  BY <1>00, FS_CardinalityType DEF CountOf, VolumesTypeOK
<1>03. ASSUME NEW c \in Ctrs, \A d \in Ctrs \ {c} : ctr'[d] = ctr[d] /\ Mounted'[d] = Mounted[d]
       PROVE  \A d \in Ctrs \ {c} : Holds(d)' = Holds(d)
  BY Zenon, <1>03, HoldsBy
<1>04. ASSUME NEW c \in Ctrs, \A d \in Ctrs \ {c} : ctr'[d] = ctr[d] /\ Mounted'[d] = Mounted[d],
              Holds(c)' = Holds(c), UNCHANGED <<MountCount, userMounts>>
       PROVE  CountOf(w)'
  <2>1. Requests(w)' = Requests(w)
    BY Zenon, <1>03, <1>04, RequestsSame
  <2> QED
    BY Zenon, <1>0, <1>00, <1>04, <2>1, CountKept
<1>1. ASSUME NEW c \in Ctrs, Prepare(c) PROVE CountOf(w)'
  <2>1. /\ \A d \in Ctrs \ {c} : ctr'[d] = ctr[d] /\ Mounted'[d] = Mounted[d]
        /\ UNCHANGED <<MountCount, userMounts, Mounted>>
        /\ ctr[c].pc = "idle"
        /\ ctr'[c] = [Idle EXCEPT !.pc = IF Mounted[c] /\ rootfs[c] THEN "chown" ELSE "mount",
                                  !.left = NamedVolumes[c]]
    BY Zenon, <1>01, <1>1 DEF Prepare, volume
  <2>2. /\ ctr'[c].pc = IF Mounted[c] THEN "chown" ELSE "mount"
        /\ ctr'[c].held = <<>>
    BY Zenon, <1>00, <1>01, <2>1 DEF PhaseOf, Idle
  <2>3. Holds(c)' = Holds(c)
    <3>1. CASE Mounted[c]
      BY Zenon, <2>1, <2>2, <3>1, HoldsBy
    <3>2. CASE ~Mounted[c]
      <4>1. Holds(c) = {} /\ Holds(c)' = 1..Len(<<>>)
        BY Zenon, <2>1, <2>2, <3>2, HoldsBy
      <4> QED
        BY <4>1
    <3> QED
      BY Zenon, <3>1, <3>2
  <2> QED
    BY Zenon, <1>04, <2>1, <2>3
<1>2. ASSUME NEW c \in Ctrs, MountNamedVolume(c) PROVE CountOf(w)'
  <2> DEFINE v == Head(ctr[c].left)
             mounted == [ctr[c] EXCEPT !.left = Tail(@), !.held = <<v>> \o @]
             failed == [ctr[c] EXCEPT !.pc = "undo"]
             k == Len(ctr[c].held) + 1
  <2>1. /\ v \in Vols /\ v = ctr[c].left[1] /\ ctr[c].pc = "mount" /\ Len(ctr[c].left) > 0
        /\ ctr[c].left \in Seq(Vols) /\ ctr[c].held \in Seq(Vols)
        /\ UNCHANGED <<Mounted, userMounts>>
    BY Zenon, <1>2, HeadsAreVolumes DEF MountNamedVolume
  <2>2. /\ mounted.pc = "mount" /\ Len(mounted.held) = k
        /\ failed.pc = "undo" /\ failed.held = ctr[c].held
    BY <1>01, <2>1 DEF Work
  <2>3. NamedVolumes[c][k] = v
    <3>1. 1 \in 1..Len(ctr[c].left)
      BY <2>1
    <3>2. ctr[c].left[1] = NamedVolumes[c][Len(ctr[c].held) + 1]
      BY Zenon, <1>01, <2>1, <3>1 DEF ListsOf
    <3> QED
      BY Zenon, <2>1, <3>2
  <2>4. /\ Holds(c) = 1..Len(ctr[c].held) /\ Len(ctr[c].held) \in Nat
        /\ k \notin Holds(c) /\ 1..k = Holds(c) \cup {k}
    <3>1. Holds(c) = 1..Len(ctr[c].held)
      BY Zenon, <2>1, HoldsBy
    <3>2. Len(ctr[c].held) \in Nat
      BY <2>1
    <3> QED
      BY Zenon, <3>1, <3>2, Intervals
  <2>5. /\ \/ ctr' = [ctr EXCEPT ![c] = mounted] /\ mount(v)
           \/ ctr' = [ctr EXCEPT ![c] = failed] /\ mount(v) /\ "copyup" \in faults
           \/ ctr' = [ctr EXCEPT ![c] = failed] /\ UNCHANGED MountCount
    BY Zenon, <1>2 DEF MountNamedVolume
  <2> HIDE DEF v, mounted, failed, k
  <2>6. CASE ctr' = [ctr EXCEPT ![c] = mounted] /\ mount(v)
    <3>1. Holds(c)' = Holds(c) \cup {k}
      BY Zenon, <1>01, <2>2, <2>4, <2>6, HoldsBy
    <3>2. \A d \in Ctrs \ {c} : Holds(d)' = Holds(d)
      BY Zenon, <1>01, <1>03, <2>1, <2>6
    <3>3. /\ IsFiniteSet(Requests(w)')
          /\ Cardinality(Requests(w)') =
                IF v = w THEN Cardinality(Requests(w)) + 1 ELSE Cardinality(Requests(w))
      BY Zenon, <1>00, <2>3, <2>4, <3>1, <3>2, RequestAdded
    <3>4. MountCount'[w] = IF v = w THEN MountCount[w] + 1 ELSE MountCount[w]
      BY Zenon, <2>1, <2>6, MountStep
    <3>5. MountCount'[w] - MountCount[w] = Cardinality(Requests(w)') - Cardinality(Requests(w))
      BY <1>02, <3>3, <3>4
    <3> QED
      BY Zenon, <1>0, <1>00, <2>1, <3>3, <3>5, CountKept
  <2>7. CASE ctr' = [ctr EXCEPT ![c] = failed]
    <3>1. Holds(c)' = Holds(c)
      BY Zenon, <1>01, <2>2, <2>4, <2>7, HoldsBy
    <3>2. Requests(w)' = Requests(w)
      BY Zenon, <1>01, <1>03, <2>1, <2>7, <3>1, RequestsSame
    <3>3. CASE mount(v) /\ "copyup" \in faults
      <4>1. MountCount'[w] \in {MountCount[w], MountCount[w] + 1}
        BY Zenon, <2>1, <3>3, MountStep
      <4> QED
        BY Zenon, <1>0, <1>00, <2>1, <3>2, <3>3, <4>1, CountKept
    <3>4. CASE UNCHANGED MountCount
      BY Zenon, <1>0, <1>00, <2>1, <3>2, <3>4, CountKept
    <3>5. CASE mount(v) /\ ctr' = [ctr EXCEPT ![c] = mounted]
      BY Zenon, <2>6, <3>5
    <3> QED
      BY Zenon, <2>5, <3>3, <3>4, <3>5
  <2> QED
    BY Zenon, <2>5, <2>6, <2>7
<1>3. ASSUME NEW c \in Ctrs, DeferredUnmount(c) PROVE CountOf(w)'
  <2>1. /\ ctr[c].pc = "undo" /\ UNCHANGED <<Mounted, userMounts>>
        /\ ~Mounted[c] /\ Holds(c) = 1..Len(ctr[c].held)
    BY Zenon, <1>00, <1>01, <1>3, HoldsBy DEF DeferredUnmount, PhaseOf
  <2>2. CASE ctr[c].held = <<>>
    <3>1. ctr' = [ctr EXCEPT ![c] = Idle] /\ UNCHANGED MountCount
      BY Zenon, <1>3, <2>2 DEF DeferredUnmount
    <3>2. Holds(c)' = {}
      BY Zenon, <1>01, <2>1, <3>1, HoldsBy DEF Idle
    <3>3. Holds(c) = {}
      BY <2>1, <2>2
    <3> QED
      BY Zenon, <1>01, <1>04, <2>1, <3>1, <3>2, <3>3
  <2>3. CASE ctr[c].held # <<>>
    <3> DEFINE k == Len(ctr[c].held)
               v == Head(ctr[c].held)
    <3>1. /\ ctr' = [ctr EXCEPT ![c] = [ctr[c] EXCEPT !.held = Tail(@)]]
          /\ unmount(v)
      BY Zenon, <1>3, <2>3 DEF DeferredUnmount
    <3>2. /\ v \in Vols /\ v = ctr[c].held[1] /\ k \in Nat /\ k > 0
          /\ Len(Tail(ctr[c].held)) = k - 1
      <4>1. ctr[c].held \in Seq(Vols)
        BY Zenon, HeadsAreVolumes
      <4>2. k \in Nat
        BY <4>1
      <4> QED
        BY Zenon, <2>3, <4>2, HeadsAreVolumes
    <3>3. NamedVolumes[c][k] = v
      <4>1. 1 \in 1..k
        BY <3>2
      <4>2. ctr[c].held[1] = NamedVolumes[c][k + 1 - 1]
        BY Zenon, <1>01, <2>1, <4>1 DEF ListsOf
      <4>3. k + 1 - 1 = k
        BY <3>2
      <4> QED
        BY Zenon, <3>2, <4>2, <4>3
    <3>4. ctr'[c].pc = "undo" /\ Len(ctr'[c].held) = k - 1
      BY Zenon, <1>01, <2>1, <3>1, <3>2 DEF Work
    <3>5. Holds(c)' = 1..(k - 1)
      BY Zenon, <3>4, HoldsBy
    <3>6. k \in Holds(c) /\ Holds(c)' = Holds(c) \ {k}
      BY <2>1, <3>2, <3>5
    <3>7. \A d \in Ctrs \ {c} : Holds(d)' = Holds(d)
      BY Zenon, <1>01, <1>03, <2>1, <3>1
    <3> HIDE DEF k, v
    <3>8. /\ IsFiniteSet(Requests(w)')
          /\ Cardinality(Requests(w)') =
                IF v = w THEN Cardinality(Requests(w)) - 1 ELSE Cardinality(Requests(w))
          /\ v = w => Cardinality(Requests(w)) > 0
      BY Zenon, <1>00, <3>3, <3>6, <3>7, RequestRemoved
    <3>9. MountCount'[w] = IF v = w /\ MountCount[w] > 0 THEN MountCount[w] - 1 ELSE MountCount[w]
      BY Zenon, <1>00, <3>1, <3>2, UnmountStep
    <3>10. MountCount'[w] - MountCount[w] = Cardinality(Requests(w)') - Cardinality(Requests(w))
      BY <1>02, <3>8, <3>9
    <3> QED
      BY Zenon, <1>0, <1>00, <2>1, <3>8, <3>10, CountKept
  <2> QED
    BY Zenon, <2>2, <2>3
<1>4. ASSUME NEW c \in Ctrs, Prepared(c) PROVE CountOf(w)'
  <2>1. /\ ctr[c].pc = "mount" /\ ctr[c].left = <<>>
        /\ UNCHANGED <<MountCount, userMounts>>
    BY Zenon, <1>4 DEF Prepared, volume
  <2>2. Len(ctr[c].held) = Len(NamedVolumes[c]) /\ Len(NamedVolumes[c]) \in Nat
    <3>1. /\ Len(ctr[c].left) = Len(NamedVolumes[c]) - Len(ctr[c].held)
          /\ Len(ctr[c].left) = 0
      BY Zenon, <1>01, <2>1 DEF ListsOf
    <3>2. Len(NamedVolumes[c]) \in Nat /\ Len(ctr[c].held) \in Nat
      BY <1>01 DEF Work
    <3>3. \A m, n \in Nat : 0 = n - m => m = n
      OBVIOUS
    <3> QED
      BY Zenon, <3>1, <3>2, <3>3
  <2>3. Holds(c) = 1..Len(NamedVolumes[c]) /\ DOMAIN NamedVolumes[c] = 1..Len(NamedVolumes[c])
    <3>1. Holds(c) = 1..Len(ctr[c].held)
      BY Zenon, <2>1, HoldsBy
    <3>2. DOMAIN NamedVolumes[c] = 1..Len(NamedVolumes[c])
      BY <1>01
    <3> QED
      BY Zenon, <2>2, <3>1, <3>2
  <2>4. CASE /\ Mounted' = [Mounted EXCEPT ![c] = TRUE]
             /\ ctr' = [ctr EXCEPT ![c] = [Idle EXCEPT !.pc = "chown", !.left = NamedVolumes[c]]]
    <3>1. ctr'[c].pc = "chown" /\ Mounted'[c] = TRUE
      BY Zenon, <1>01, <2>4 DEF Idle
    <3>2. Holds(c)' = DOMAIN NamedVolumes[c]
      BY Zenon, <3>1, HoldsBy
    <3>3. \A d \in Ctrs \ {c} : ctr'[d] = ctr[d] /\ Mounted'[d] = Mounted[d]
      BY Zenon, <1>01, <2>4
    <3> QED
      BY Zenon, <1>04, <2>1, <2>3, <3>2, <3>3
  <2>5. CASE /\ Mounted' = Mounted
             /\ ctr' = [ctr EXCEPT ![c] = [Idle EXCEPT !.pc = "cleanup", !.left = NamedVolumes[c]]]
    <3>1. ctr'[c].pc = "cleanup" /\ ctr'[c].left = NamedVolumes[c]
      BY Zenon, <1>01, <2>5 DEF Idle
    <3>2. Holds(c)' = (Len(NamedVolumes[c]) - Len(NamedVolumes[c]) + 1)..Len(NamedVolumes[c])
      BY Zenon, <3>1, HoldsBy
    <3>3. Holds(c)' = Holds(c)
      BY <2>2, <2>3, <3>2
    <3> QED
      BY Zenon, <1>01, <1>04, <2>1, <2>5, <3>3
  <2> QED
    BY Zenon, <1>4, <2>4, <2>5 DEF Prepared
<1>5. ASSUME NEW c \in Ctrs, FixVolumePermissions(c) PROVE CountOf(w)'
  <2>1. /\ UNCHANGED <<MountCount, userMounts, Mounted>>
        /\ ctr' = [ctr EXCEPT ![c] = [ctr[c] EXCEPT !.left = Tail(@)]]
        /\ ctr[c].pc = "chown"
    BY Zenon, <1>5 DEF FixVolumePermissions
  <2>2. ctr'[c].pc = "chown"
    BY Zenon, <1>01, <2>1 DEF Work
  <2>3. Holds(c)' = Holds(c)
    BY Zenon, <2>1, <2>2, HoldsBy
  <2> QED
    BY Zenon, <1>01, <1>04, <2>1, <2>3
<1>6. ASSUME NEW c \in Ctrs, Started(c) PROVE CountOf(w)'
  <2>1. /\ UNCHANGED <<MountCount, userMounts, Mounted>>
        /\ ctr' = [ctr EXCEPT ![c] = Idle] /\ ctr[c].pc = "chown"
    BY Zenon, <1>6 DEF Started, volume
  <2>2. Holds(c)' = Holds(c)
    BY Zenon, <1>01, <2>1, HoldsBy DEF Idle
  <2> QED
    BY Zenon, <1>01, <1>04, <2>1, <2>2
<1>7. ASSUME NEW c \in Ctrs, Cleanup(c) PROVE CountOf(w)'
  <2>1. /\ UNCHANGED <<MountCount, userMounts, Mounted>> /\ ctr[c].pc = "idle" /\ Mounted[c]
        /\ ctr' = [ctr EXCEPT ![c] = [Idle EXCEPT !.pc = "cleanup", !.left = NamedVolumes[c]]]
    BY Zenon, <1>7 DEF Cleanup, volume
  <2>2. ctr'[c].pc = "cleanup" /\ ctr'[c].left = NamedVolumes[c]
    BY Zenon, <1>01, <2>1 DEF Idle
  <2>3. /\ Holds(c)' = (Len(NamedVolumes[c]) - Len(NamedVolumes[c]) + 1)..Len(NamedVolumes[c])
        /\ Holds(c) = DOMAIN NamedVolumes[c]
    BY Zenon, <2>1, <2>2, HoldsBy
  <2>4. /\ DOMAIN NamedVolumes[c] = 1..Len(NamedVolumes[c]) /\ Len(NamedVolumes[c]) \in Nat
    BY <1>01
  <2>5. Holds(c)' = Holds(c)
    BY <2>3, <2>4
  <2> QED
    BY Zenon, <1>01, <1>04, <2>1, <2>5
<1>8. ASSUME NEW c \in Ctrs, CleanupStorage(c) PROVE CountOf(w)'
  <2>1. /\ ctr[c].pc = "cleanup" /\ UNCHANGED userMounts
        /\ Holds(c) = (Len(NamedVolumes[c]) - Len(ctr[c].left) + 1)..Len(NamedVolumes[c])
    BY Zenon, <1>8, HoldsBy DEF CleanupStorage
  <2>2. Len(NamedVolumes[c]) \in Nat
    BY <1>01
  <2>3. CASE ctr[c].left = <<>>
    <3>1. /\ ctr' = [ctr EXCEPT ![c] = Idle] /\ UNCHANGED MountCount
          /\ Mounted' = [Mounted EXCEPT ![c] = FALSE]
      BY Zenon, <1>8, <2>3 DEF CleanupStorage
    <3>2. Holds(c)' = {}
      BY Zenon, <1>01, <3>1, HoldsBy DEF Idle
    <3>3. Holds(c) = {}
      BY <2>1, <2>2, <2>3
    <3> QED
      BY Zenon, <1>01, <1>04, <2>1, <3>1, <3>2, <3>3
  <2>4. CASE ctr[c].left # <<>>
    <3> DEFINE n == Len(NamedVolumes[c])
               l == Len(ctr[c].left)
               k == n - l + 1
               v == Head(ctr[c].left)
    <3>1. /\ ctr' = [ctr EXCEPT ![c] = [ctr[c] EXCEPT !.left = Tail(@)]]
          /\ unmount(v) /\ UNCHANGED Mounted
      BY Zenon, <1>8, <2>4 DEF CleanupStorage
    <3>2. /\ v \in Vols /\ v = ctr[c].left[1] /\ l \in Nat /\ l > 0
          /\ Len(Tail(ctr[c].left)) = l - 1
      <4>1. ctr[c].left \in Seq(Vols)
        BY Zenon, HeadsAreVolumes
      <4>2. l \in Nat
        BY <4>1
      <4> QED
        BY Zenon, <2>4, <4>2, HeadsAreVolumes
    <3>3. NamedVolumes[c][k] = v
      <4>1. 1 \in 1..l
        BY <3>2
      <4>2. ctr[c].left[1] = NamedVolumes[c][n - l + 1]
        BY Zenon, <1>01, <2>1, <4>1 DEF ListsOf
      <4> QED
        BY Zenon, <3>2, <4>2
    <3>4. ctr'[c].pc = "cleanup" /\ Len(ctr'[c].left) = l - 1
      BY Zenon, <1>01, <2>1, <3>1, <3>2 DEF Work
    <3>5. Holds(c)' = (n - (l - 1) + 1)..n
      BY Zenon, <3>4, HoldsBy
    <3>6. l <= n
      BY Zenon, <1>01, <2>1 DEF ListsOf
    <3>7. k \in Holds(c) /\ Holds(c)' = Holds(c) \ {k}
      <4>1. n \in Nat /\ l \in Nat /\ 0 < l /\ Holds(c) = (n - l + 1)..n
        BY Zenon, <2>1, <2>2, <3>2
      <4> QED
        BY Zenon, <3>5, <3>6, <4>1, Intervals
    <3>8. \A d \in Ctrs \ {c} : Holds(d)' = Holds(d)
      BY Zenon, <1>01, <1>03, <3>1
    <3> HIDE DEF k, v, l, n
    <3>9. /\ IsFiniteSet(Requests(w)')
          /\ Cardinality(Requests(w)') =
                IF v = w THEN Cardinality(Requests(w)) - 1 ELSE Cardinality(Requests(w))
          /\ v = w => Cardinality(Requests(w)) > 0
      BY Zenon, <1>00, <3>3, <3>7, <3>8, RequestRemoved
    <3>10. MountCount'[w] = IF v = w /\ MountCount[w] > 0 THEN MountCount[w] - 1 ELSE MountCount[w]
      BY Zenon, <1>00, <3>1, <3>2, UnmountStep
    <3>11. MountCount'[w] - MountCount[w] = Cardinality(Requests(w)') - Cardinality(Requests(w))
      BY <1>02, <3>9, <3>10
    <3> QED
      BY Zenon, <1>0, <1>00, <2>1, <3>9, <3>11, CountKept
  <2> QED
    BY Zenon, <2>3, <2>4
<1>9. ASSUME NEW c \in Ctrs, Die(c) PROVE CountOf(w)'
  <2>1. /\ ctr' = [ctr EXCEPT ![c] = Idle] /\ UNCHANGED <<MountCount, userMounts, Mounted>>
        /\ ctr[c].pc \notin {"idle", "cleanup"} /\ "die" \in faults
    BY Zenon, <1>00, <1>9 DEF Die, volume
  <2>2. ctr[c].pc \in {"mount", "undo", "chown"} /\ ctr'[c].pc = "idle"
    BY Zenon, <1>01, <2>1 DEF Work, Idle
  <2>3. Holds(c)' \subseteq Holds(c)
    <3>1. CASE ctr[c].pc = "chown"
      BY Zenon, <2>1, <2>2, <3>1, HoldsBy
    <3>2. CASE ctr[c].pc \in {"mount", "undo"}
      <4>1. ~Mounted'[c]
        BY Zenon, <1>00, <1>01, <2>1, <3>2 DEF PhaseOf
      <4> QED
        BY Zenon, <2>2, <4>1, HoldsBy
    <3> QED
      BY Zenon, <2>2, <3>1, <3>2
  <2>4. \A d \in Ctrs : Holds(d)' \subseteq Holds(d)
    <3>1. \A d \in Ctrs \ {c} : Holds(d)' = Holds(d)
      BY Zenon, <1>01, <1>03, <2>1
    <3> QED
      BY Zenon, <2>3, <3>1
  <2>5. /\ IsFiniteSet(Requests(w)')
        /\ Cardinality(Requests(w)') <= Cardinality(Requests(w))
    BY Zenon, <1>00, <2>4, RequestsFewer
  <2> QED
    BY Zenon, <1>0, <1>00, <2>1, <2>5, CountKept
<1>10. ASSUME UNCHANGED <<ctr, Mounted>> PROVE Requests(w)' = Requests(w)
  BY Zenon, <1>10, HoldsBy, RequestsSame
<1>11. ASSUME NEW v \in Vols, UserMount(v) PROVE CountOf(w)'
  <2>1. MountCount'[w] = IF w = v THEN MountCount[w] + 1 ELSE MountCount[w]
    BY Zenon, <1>11, MountStep DEF UserMount
  <2>2. userMounts'[w] = IF w = v THEN userMounts[w] + 1 ELSE userMounts[w]
    BY Zenon, <1>01, <1>11 DEF UserMount
  <2>3. MountCount'[w] - MountCount[w] = userMounts'[w] - userMounts[w]
    BY <1>02, <2>1, <2>2
  <2>4. UNCHANGED <<ctr, Mounted>>
    BY Zenon, <1>11 DEF UserMount
  <2> QED
    BY Zenon, <1>0, <1>00, <1>10, <2>3, <2>4, CountKept
<1>12. ASSUME NEW v \in Vols, UserUnmount(v) PROVE CountOf(w)'
  <2>1. userMounts[v] > 0 /\ unmount(v) /\ UNCHANGED <<ctr, Mounted>>
        /\ userMounts' = [userMounts EXCEPT ![v] = IF @ = 0 THEN 0 ELSE @ - 1]
    BY Zenon, <1>00, <1>12 DEF UserUnmount
  <2>2. MountCount'[w] = IF w = v /\ MountCount[w] > 0 THEN MountCount[w] - 1 ELSE MountCount[w]
    BY Zenon, <1>00, <2>1, UnmountStep
  <2>3. userMounts'[w] = IF w = v THEN userMounts[w] - 1 ELSE userMounts[w]
    BY <1>01, <1>02, <2>1
  <2>4. MountCount'[w] - MountCount[w] = userMounts'[w] - userMounts[w]
    BY <1>02, <2>1, <2>2, <2>3
  <2> QED
    BY Zenon, <1>0, <1>00, <1>10, <2>1, <2>4, CountKept
<1>13. ASSUME NEW v \in Vols, HostUnmount(v) PROVE CountOf(w)'
  BY Zenon, <1>00, <1>13 DEF HostUnmount
<1>14. CASE Reboot
  <2>1. ASSUME NEW d \in Ctrs PROVE Holds(d)' = {}
    BY Zenon, <1>14, HoldsBy DEF Reboot, Idle
  <2>2. ASSUME NEW r PROVE r \notin Requests(w)'
    BY Zenon, <2>1, InRequests
  <2>3. Requests(w)' = {}
    BY Zenon, <2>2
  <2>4. IsFiniteSet(Requests(w)') /\ Cardinality(Requests(w)') = 0
    BY Zenon, <2>3, FS_EmptySet
  <2>5. MountCount'[w] = 0 /\ userMounts'[w] = 0
    BY Zenon, <1>14 DEF Reboot
  <2> QED
    BY <2>4, <2>5 DEF CountOf
<1>15. CASE UNCHANGED volumeVars
  <2>1. UNCHANGED <<ctr, Mounted, MountCount, userMounts>>
    BY Zenon, <1>15 DEF volumeVars
  <2> QED
    BY Zenon, <1>0, <1>00, <1>10, <2>1, CountKept
<1> QED
  BY Zenon, <1>1, <1>2, <1>3, <1>4, <1>5, <1>6, <1>7, <1>8, <1>9, <1>11, <1>12, <1>13, <1>14, <1>15
  DEF VolumesNext

---------------------------------------------------------------------------
\* Before anything is mounted nothing is held.
LEMMA InitIInv ==
    ASSUME VolumesConfigured, VolumesInit
    PROVE  IInv
<1>1. \A c \in Ctrs : ctr[c] = Idle /\ ~Mounted[c] /\ ~up[c] /\ Idle.pc = "idle"
  BY Zenon DEF VolumesInit, Idle
<1>2. VolumesTypeOK
  <2>1. Idle \in Work
    BY DEF Idle, Work
  <2> QED
    BY <2>1 DEF VolumesInit, VolumesTypeOK, VolumesConfigured
<1>3. ListsMatch /\ Phases
  BY Zenon, <1>1 DEF ListsMatch, ListsOf, Phases, PhaseOf
<1>4. CountMatchesHost
  <2>1. ASSUME NEW v \in Vols PROVE host[v] = (MountCount[v] > 0)
    <3>1. MountCount[v] = 0 /\ host[v] = FALSE
      BY Zenon DEF VolumesInit
    <3>2. (0 > 0) = FALSE
      OBVIOUS
    <3> QED
      BY Zenon, <3>1, <3>2
  <2> QED
    BY Zenon, <2>1 DEF CountMatchesHost
<1>5. Counts
  <2>1. ASSUME NEW v \in Vols PROVE CountOf(v)
    <3>1. \A c \in Ctrs : Holds(c) = {}
      BY Zenon, <1>1, HoldsBy
    <3>2. ASSUME NEW r PROVE r \notin Requests(v)
      BY Zenon, <3>1, InRequests
    <3>3. Requests(v) = {}
      BY Zenon, <3>2
    <3>4. IsFiniteSet(Requests(v)) /\ Cardinality(Requests(v)) = 0
      BY Zenon, <3>3, FS_EmptySet
    <3>5. MountCount[v] = 0 /\ userMounts[v] = 0
      BY Zenon DEF VolumesInit
    <3> QED
      BY <3>4, <3>5 DEF CountOf
  <2> QED
    BY Zenon, <2>1 DEF Counts
<1>6. Copies
  BY Zenon DEF VolumesInit, Copies
<1> QED
  BY Zenon, <1>2, <1>3, <1>4, <1>5, <1>6 DEF IInv

\* The counters, the lists and the flags fit together in every reachable state.
THEOREM Inductive == VolumesSpec => []IInv
<1> USE VolumesAssumption
<1>1. VolumesInit => IInv
  BY Zenon, InitIInv
<1>2. IInv /\ [VolumesNext]_volumeVars => IInv'
  <2> SUFFICES ASSUME IInv, [VolumesNext]_volumeVars PROVE IInv'
    BY Zenon
  <2>1. VolumesTypeOK /\ ListsMatch /\ Phases /\ CountMatchesHost /\ Counts /\ Copies
    BY Zenon DEF IInv
  <2>2. VolumesTypeOK'
    BY Zenon, <2>1, TypeStep
  <2>3. ListsMatch'
    BY Zenon, <2>1, ListsStep
  <2>4. Phases'
    BY Zenon, <2>1, PhaseStep
  <2>5. CountMatchesHost'
    BY Zenon, <2>1, HostStep
  <2>6. Counts'
    BY Zenon, <2>1, <2>2, CountsStep
  <2>7. Copies'
    BY Zenon, <2>1, CopiesStep
  <2> QED
    BY Zenon, <2>2, <2>3, <2>4, <2>5, <2>6, <2>7 DEF IInv
<1> QED
  BY <1>1, <1>2, PTL DEF VolumesSpec

\* The counter of a volume is the number of mounts that containers hold plus those
\* of podman volume mount, in the runs in which no copy-up fails, no process is
\* killed and nobody unmounts behind podman's back (mount, unmount,
\* mountStorage, cleanupStorage, refresh).
THEOREM CounterIsExact == VolumesSpec => []CountExact
<1> USE VolumesAssumption
<1>1. IInv => CountExact
  <2> SUFFICES ASSUME Counts, faults \cap {"copyup", "die", "diecleanup", "umount", "user"} = {},
                      NEW v \in Vols
               PROVE  MountCount[v] = userMounts[v] + Cardinality(Requests(v))
    BY Zenon DEF IInv, CountExact
  <2>1. /\ faults \cap {"diecleanup", "umount", "user"} = {}
        /\ faults \cap {"copyup", "die"} = {}
    BY Zenon
  <2> QED
    BY Zenon, <2>1 DEF Counts, CountOf
<1> QED
  BY <1>1, Inductive, PTL

\* A volume is mounted on the host exactly while its counter is not zero, whatever
\* fails or is killed, unless somebody unmounts it on the host (mount, unmount).
THEOREM HostFollowsCounter == VolumesSpec => []CountMatchesHost
<1> USE VolumesAssumption
<1>1. IInv => CountMatchesHost
  BY Zenon DEF IInv
<1> QED
  BY <1>1, Inductive, PTL

\* A running container has all its volumes mounted, though others that share
\* them are prepared, cleaned up, fail and are killed while they are prepared.
THEOREM VolumesStayMounted == VolumesSpec => []MountedWhileUsed
<1> USE VolumesAssumption
<1>1. IInv => MountedWhileUsed
  <2> SUFFICES ASSUME IInv, faults \cap {"diecleanup", "umount", "user"} = {},
                      NEW c \in Ctrs, up[c], NEW i \in DOMAIN NamedVolumes[c]
               PROVE  host[NamedVolumes[c][i]]
    BY Zenon DEF MountedWhileUsed
  <2> DEFINE v == NamedVolumes[c][i]
  <2>1. v \in Vols
    <3>1. NamedVolumes[c] \in Seq(Vols)
      BY Zenon DEF VolumesConfigured
    <3> QED
      BY <3>1
  <2>2. ctr[c].pc = "idle" /\ Mounted[c]
    BY Zenon DEF IInv, Phases, PhaseOf
  <2>3. <<c, i>> \in Requests(v)
    <3>1. Holds(c) = DOMAIN NamedVolumes[c]
      BY Zenon, <2>2, HoldsBy
    <3> QED
      BY Zenon, <3>1, InRequests
  <2>4. CountOf(v) /\ "umount" \notin faults /\ MountCount[v] \in Nat /\ userMounts[v] \in Nat
    BY <2>1 DEF IInv, Counts, VolumesTypeOK
  <2>5. Cardinality(Requests(v)) \in Nat /\ Cardinality(Requests(v)) # 0
    BY Zenon, <2>3, <2>4, FS_CardinalityType, FS_EmptySet DEF CountOf
  <2>6. MountCount[v] > 0
    <3>1. MountCount[v] >= userMounts[v] + Cardinality(Requests(v))
      BY Zenon, <2>4 DEF CountOf
    <3>2. \A a, b, n \in Nat : a >= b + n /\ n # 0 => a > 0
      OBVIOUS
    <3> HIDE DEF v
    <3> QED
      BY Zenon, <2>4, <2>5, <3>1, <3>2
  <2>7. host[v] = (MountCount[v] > 0)
    BY Zenon, <2>1, <2>4 DEF IInv, CountMatchesHost
  <2> QED
    BY Zenon, <2>6, <2>7
<1> QED
  BY <1>1, Inductive, PTL

\* The contents of the image are copied into a volume at most once, by whichever
\* of its containers comes first (mountNamedVolume), also across reboots.
THEOREM CopiedOnce == VolumesSpec => []CopyUpOnce
<1> USE VolumesAssumption
<1>1. IInv => CopyUpOnce
  BY DEF IInv, Copies, CopyUpOnce
<1> QED
  BY <1>1, Inductive, PTL
=============================================================================
