-------------------------- MODULE Database_proofs ---------------------------
(***************************************************************************)
(* The two backends of the database for any number of containers, pods,    *)
(* volumes, names and exec sessions.  BoltState: the redundant buckets     *)
(* stay in step.  SqliteState: the rows that repeat what a container's     *)
(* JSON says stay in step with it.  And what follows of that: the reads    *)
(* agree, and each backend implements State.                               *)
(***************************************************************************)
EXTENDS Database, TLAPS

---------------------------------------------------------------------------
(* BoltState: the redundant buckets *)

BoltTypes ==
    /\ ids \in [IDs -> Names \cup {Nil}] /\ names \in [Names -> IDs \cup {Nil}]
    /\ ctr \in [Ctrs -> Kept \cup {Nil}] /\ allCtrs \in [Ctrs -> Names \cup {Nil}]
    /\ ctrDeps \in [Ctrs -> SUBSET Ctrs] /\ ctrExec \in [Ctrs -> SUBSET Sessions]
    /\ ctrNets \in [Ctrs -> SUBSET Nets]
    /\ podBkt \subseteq Pods /\ allPods \in [Pods -> Names \cup {Nil}]
    /\ podCtrs \in [Pods -> [Ctrs -> Names \cup {Nil}]]
    /\ allVols \subseteq Vols /\ volDeps \in [Vols -> SUBSET Ctrs]
    /\ exec \in [Sessions -> Ctrs \cup {Nil}]
    /\ exitCodes \subseteq Ctrs /\ mem \in [Ctrs -> Names \cup {Nil}]

\* The ID registry and the lists know every container and every pod by its name.
IdNames ==
    /\ \A c \in Ctrs : LET n == IF ctr[c] = Nil THEN Nil ELSE ctr[c].name
                       IN  ids[c] = n /\ allCtrs[c] = n
    /\ \A p \in Pods : ids[p] = allPods[p] /\ (p \in podBkt <=> allPods[p] # Nil)

\* The name registry is the inverse of the ID registry.
NameIds == \A i \in IDs, n \in Names : names[n] = i <=> ids[i] = n

\* A pod's bucket holds its members, and a member's pod exists.
PodBuckets ==
    /\ \A p \in Pods, c \in Ctrs :
          podCtrs[p][c] = IF ctr[c] # Nil /\ ctr[c].pod = p THEN ctr[c].name ELSE Nil
    /\ \A c \in Ctrs : ctr[c] # Nil /\ ctr[c].pod # Nil => ctr[c].pod \in podBkt

\* A dependencies bucket holds the dependents, which are in the same pod or in none.
DepBuckets == \A c, d \in Ctrs :
    /\ d \in ctrDeps[c] <=> ctr[d] # Nil /\ c \in ctr[d].deps
    /\ d \in ctrDeps[c] => ctr[c] # Nil /\ ctr[c].pod = ctr[d].pod

\* A volume's bucket misses none of its users.
VolBuckets == \A c \in Ctrs : ctr[c] # Nil =>
                 \A v \in ctr[c].vols : v \in allVols /\ c \in volDeps[v]

\* An exec session is in its container's bucket.
ExecBuckets == \A s \in Sessions :
    /\ \A c \in Ctrs : s \in ctrExec[c] <=> exec[s] = c
    /\ exec[s] # Nil => ctr[exec[s]] # Nil

BoltInv == /\ BoltTypes /\ IdNames /\ NameIds /\ PodBuckets /\ DepBuckets /\ VolBuckets
           /\ ExecBuckets

---------------------------------------------------------------------------
\* The fields of a configuration.
LEMMA CreatedFacts ==
    ASSUME NEW k \in Created
    PROVE  /\ k # Nil /\ k.name \in Names /\ k.pod \in Pods \cup {Nil}
           /\ k.deps \subseteq Ctrs /\ k.vols \subseteq Vols /\ k.nets \subseteq Nets
           /\ [name |-> k.name, nets |-> k.nets] \in Copies
<1>1. k # Nil
  BY Zenon, DatabaseAssumption
<1> QED
  BY Zenon, <1>1 DEF Created, Copies

\* The fields of what ctrBkt holds of a container.
LEMMA KeptFacts ==
    ASSUME NEW k \in Kept
    PROVE  /\ k # Nil /\ k.name \in Names /\ k.pod \in Pods \cup {Nil}
           /\ k.deps \subseteq Ctrs /\ k.vols \subseteq Vols
<1>1. k # Nil
  BY Zenon, DatabaseAssumption
<1> QED
  BY Zenon, <1>1 DEF Kept

LEMMA BoltInitInv == BoltInit => BoltInv
<1> SUFFICES ASSUME BoltInit PROVE BoltInv
  BY Zenon
<1>1. BoltTypes
  BY Zenon DEF BoltInit, BoltTypes
<1>2. IdNames
  BY Zenon DEF BoltInit, IdNames, IDs
<1>3. NameIds
  BY Zenon, DatabaseAssumption DEF BoltInit, NameIds, IDs
<1>4. PodBuckets /\ DepBuckets /\ VolBuckets /\ ExecBuckets
  BY Zenon, DatabaseAssumption DEF BoltInit, PodBuckets, DepBuckets, VolBuckets, ExecBuckets
<1> QED
  BY Zenon, <1>1, <1>2, <1>3, <1>4 DEF BoltInv

\* What the registries know of a container and of a pod.
LEMMA CtrFacts ==
    ASSUME BoltInv, NEW c \in Ctrs
    PROVE  /\ c \in IDs /\ (ctr[c] = Nil <=> ids[c] = Nil)
           /\ ids[c] = IF ctr[c] = Nil THEN Nil ELSE ctr[c].name
           /\ allCtrs[c] = IF ctr[c] = Nil THEN Nil ELSE ctr[c].name
           /\ ctr[c] # Nil => /\ ctr[c] \in Kept /\ ctr[c].name \in Names /\ ctr[c].name # Nil
                              /\ ctr[c].pod \in Pods \cup {Nil} /\ names[ctr[c].name] = c
<1>1. /\ ids[c] = IF ctr[c] = Nil THEN Nil ELSE ctr[c].name
      /\ allCtrs[c] = IF ctr[c] = Nil THEN Nil ELSE ctr[c].name
  BY Zenon DEF BoltInv, IdNames
<1>2. ctr[c] # Nil => ctr[c] \in Kept
  BY Zenon DEF BoltInv, BoltTypes
<1>3. ctr[c] # Nil => /\ ctr[c].name \in Names /\ ctr[c].name # Nil
                      /\ ctr[c].pod \in Pods \cup {Nil}
  BY Zenon, <1>2, KeptFacts, DatabaseAssumption
<1>4. c \in IDs
  BY Zenon DEF IDs
<1>5. ctr[c] # Nil => names[ctr[c].name] = c
  BY Zenon, <1>1, <1>3, <1>4 DEF BoltInv, NameIds
<1> QED
  BY Zenon, <1>1, <1>2, <1>3, <1>4, <1>5

LEMMA PodFacts ==
    ASSUME BoltInv, NEW p \in Pods
    PROVE  p \in IDs /\ ids[p] = allPods[p] /\ (p \in podBkt <=> allPods[p] # Nil)
  BY Zenon DEF BoltInv, IdNames, IDs

\* A free ID takes a free name: both registries.
LEMMA Registers ==
    ASSUME BoltTypes, NameIds, NEW i \in IDs, NEW n \in Names, ids[i] = Nil, names[n] = Nil,
           ids' = [ids EXCEPT ![i] = n], names' = [names EXCEPT ![n] = i]
    PROVE  NameIds' /\ ids' \in [IDs -> Names \cup {Nil}] /\ names' \in [Names -> IDs \cup {Nil}]
<1>1. ids \in [IDs -> Names \cup {Nil}] /\ names \in [Names -> IDs \cup {Nil}]
  BY Zenon DEF BoltTypes
<1>2. Nil \notin IDs /\ Nil \notin Names
  BY Zenon, DatabaseAssumption DEF IDs
<1>3. ids' \in [IDs -> Names \cup {Nil}] /\ names' \in [Names -> IDs \cup {Nil}]
  BY Zenon, <1>1
<1>4. ASSUME NEW j \in IDs, NEW m \in Names PROVE names'[m] = j <=> ids'[j] = m
  <2>1. names[m] = j <=> ids[j] = m
    BY Zenon DEF NameIds
  <2>2. /\ ids'[j] = IF j = i THEN n ELSE ids[j]
        /\ names'[m] = IF m = n THEN i ELSE names[m]
    BY Zenon, <1>1
  <2> QED
    BY Zenon, <1>2, <2>1, <2>2
<1> QED
  BY Zenon, <1>3, <1>4 DEF NameIds

\* An ID gives its name back.
LEMMA Unregisters ==
    ASSUME BoltTypes, NameIds, NEW i \in IDs, NEW n \in Names, ids[i] = n,
           ids' = [ids EXCEPT ![i] = Nil], names' = [names EXCEPT ![n] = Nil]
    PROVE  NameIds' /\ ids' \in [IDs -> Names \cup {Nil}] /\ names' \in [Names -> IDs \cup {Nil}]
<1>1. ids \in [IDs -> Names \cup {Nil}] /\ names \in [Names -> IDs \cup {Nil}]
  BY Zenon DEF BoltTypes
<1>2. Nil \notin IDs /\ Nil \notin Names
  BY Zenon, DatabaseAssumption DEF IDs
<1>3. ids' \in [IDs -> Names \cup {Nil}] /\ names' \in [Names -> IDs \cup {Nil}]
  BY Zenon, <1>1
<1>4. ASSUME NEW j \in IDs, NEW m \in Names PROVE names'[m] = j <=> ids'[j] = m
  <2>1. (names[m] = j <=> ids[j] = m) /\ (names[m] = i <=> ids[i] = m)
    BY Zenon DEF NameIds
  <2>2. /\ ids'[j] = IF j = i THEN Nil ELSE ids[j]
        /\ names'[m] = IF m = n THEN Nil ELSE names[m]
    BY Zenon, <1>1
  <2>3. names[n] = i
    BY Zenon DEF NameIds
  <2> QED
    BY Zenon, <1>2, <2>1, <2>2, <2>3
<1> QED
  BY Zenon, <1>3, <1>4 DEF NameIds

\* What a step leaves that does not write the buckets concerned.
LEMMA SameBuckets ==
    /\ IdNames /\ UNCHANGED <<ids, allCtrs, ctr, podBkt, allPods>> => IdNames'
    /\ NameIds /\ UNCHANGED <<ids, names>> => NameIds'
    /\ PodBuckets /\ UNCHANGED <<ctr, podBkt, podCtrs>> => PodBuckets'
    /\ DepBuckets /\ UNCHANGED <<ctr, ctrDeps>> => DepBuckets'
    /\ VolBuckets /\ UNCHANGED <<ctr, allVols, volDeps>> => VolBuckets'
    /\ ExecBuckets /\ UNCHANGED <<ctr, ctrExec, exec>> => ExecBuckets'
<1>1. IdNames /\ UNCHANGED <<ids, allCtrs, ctr, podBkt, allPods>> => IdNames'
  BY Zenon DEF IdNames
<1>2. NameIds /\ UNCHANGED <<ids, names>> => NameIds'
  BY Zenon DEF NameIds
<1>3. PodBuckets /\ UNCHANGED <<ctr, podBkt, podCtrs>> => PodBuckets'
  BY DEF PodBuckets
<1>4. DepBuckets /\ UNCHANGED <<ctr, ctrDeps>> => DepBuckets'
  BY DEF DepBuckets
<1>5. VolBuckets /\ UNCHANGED <<ctr, allVols, volDeps>> => VolBuckets'
  BY Zenon DEF VolBuckets
<1>6. ExecBuckets /\ UNCHANGED <<ctr, ctrExec, exec>> => ExecBuckets'
  BY Zenon DEF ExecBuckets
<1> QED
  BY Zenon, <1>1, <1>2, <1>3, <1>4, <1>5, <1>6

\* What a step leaves that writes only copies, networks and exit codes.
LEMMA BoltSame ==
    ASSUME BoltInv, mem' \in [Ctrs -> Names \cup {Nil}], ctrNets' \in [Ctrs -> SUBSET Nets],
           exitCodes' \subseteq Ctrs,
           UNCHANGED <<ids, names, allCtrs, ctr, ctrDeps, ctrExec, podBkt, allPods, podCtrs, allVols,
                       volDeps, exec>>
    PROVE  BoltInv'
<1>1. BoltTypes'
  BY Zenon DEF BoltInv, BoltTypes
<1>2. IdNames' /\ NameIds' /\ PodBuckets'
  BY Zenon, SameBuckets DEF BoltInv
<1>3. DepBuckets' /\ VolBuckets' /\ ExecBuckets'
  BY Zenon, SameBuckets DEF BoltInv
<1> QED
  BY Zenon, <1>1, <1>2, <1>3 DEF BoltInv

\* addContainer writes all the buckets of a container after it has looked for what
\* they name.
LEMMA BoltAdds ==
    ASSUME BoltInv, NEW c \in Ctrs, NEW k \in ConfigsOf[c], AddContainer(c, k)
    PROVE  BoltInv'
<1>1. BoltTypes /\ IdNames /\ NameIds /\ PodBuckets /\ DepBuckets /\ VolBuckets /\ ExecBuckets
  BY Zenon DEF BoltInv
<1>2. /\ k.name \in Names /\ k.pod \in Pods \cup {Nil} /\ k.deps \subseteq Ctrs
      /\ k.vols \subseteq Vols /\ k.nets \subseteq Nets
  BY Zenon, CreatedFacts, DatabaseAssumption
<1> DEFINE r == [name |-> k.name, pod |-> k.pod, deps |-> k.deps, vols |-> k.vols]
<1>3. /\ r \in Kept /\ r # Nil
      /\ r.name = k.name /\ r.pod = k.pod /\ r.deps = k.deps /\ r.vols = k.vols
  <2>1. r \in Kept
    BY Zenon, <1>2 DEF Kept
  <2> QED
    BY Zenon, <2>1, KeptFacts
<1>4. /\ k.pod # Nil => k.pod \in podBkt
      /\ ids[c] = Nil /\ names[k.name] = Nil
      /\ \A d \in k.deps : ctr[d] # Nil /\ ctr[d].pod = k.pod
      /\ k.vols \subseteq allVols
  BY Zenon DEF AddContainer, AddContainerAccepted
<1>5. /\ ids' = [ids EXCEPT ![c] = k.name] /\ names' = [names EXCEPT ![k.name] = c]
      /\ allCtrs' = [allCtrs EXCEPT ![c] = k.name] /\ ctr' = [ctr EXCEPT ![c] = r]
      /\ ctrNets' = [ctrNets EXCEPT ![c] = k.nets] /\ mem' = [mem EXCEPT ![c] = k.name]
      /\ ctrDeps' = [d \in Ctrs |-> IF d \in k.deps THEN ctrDeps[d] \cup {c} ELSE ctrDeps[d]]
      /\ podCtrs' = [p \in Pods |-> IF p = k.pod THEN [podCtrs[p] EXCEPT ![c] = k.name]
                                                 ELSE podCtrs[p]]
      /\ volDeps' = [v \in Vols |-> IF v \in k.vols THEN volDeps[v] \cup {c} ELSE volDeps[v]]
      /\ UNCHANGED <<ctrExec, podBkt, allPods, allVols, exec, exitCodes>>
  BY Zenon DEF AddContainer
<1> HIDE DEF r
<1>6. /\ ctr \in [Ctrs -> Kept \cup {Nil}] /\ allCtrs \in [Ctrs -> Names \cup {Nil}]
      /\ ctrDeps \in [Ctrs -> SUBSET Ctrs] /\ ctrNets \in [Ctrs -> SUBSET Nets]
      /\ podCtrs \in [Pods -> [Ctrs -> Names \cup {Nil}]] /\ volDeps \in [Vols -> SUBSET Ctrs]
      /\ mem \in [Ctrs -> Names \cup {Nil}] /\ ids \in [IDs -> Names \cup {Nil}] /\ c \in IDs
      /\ podBkt \subseteq Pods
  BY Zenon, <1>1 DEF BoltTypes, IDs
<1>7. /\ ctr[c] = Nil /\ ctr'[c] = r /\ \A d \in Ctrs \ {c} : ctr'[d] = ctr[d]
      /\ c \notin k.deps
  <2>1. ctr[c] = Nil
    BY Zenon, <1>4, CtrFacts
  <2>2. ctr'[c] = r /\ \A d \in Ctrs \ {c} : ctr'[d] = ctr[d]
    BY Zenon, <1>5, <1>6
  <2> QED
    BY Zenon, <1>4, <2>1, <2>2
<1>8. NameIds' /\ ids' \in [IDs -> Names \cup {Nil}] /\ names' \in [Names -> IDs \cup {Nil}]
  BY Zenon, <1>1, <1>2, <1>4, <1>5, <1>6, Registers
<1>9. BoltTypes'
  <2>1. ctr' \in [Ctrs -> Kept \cup {Nil}] /\ allCtrs' \in [Ctrs -> Names \cup {Nil}]
    BY Zenon, <1>2, <1>3, <1>5, <1>6
  <2>2. ctrDeps' \in [Ctrs -> SUBSET Ctrs] /\ volDeps' \in [Vols -> SUBSET Ctrs]
    BY Zenon, <1>5, <1>6
  <2>3. ctrNets' \in [Ctrs -> SUBSET Nets] /\ mem' \in [Ctrs -> Names \cup {Nil}]
    BY Zenon, <1>2, <1>5, <1>6
  <2>4. podCtrs' \in [Pods -> [Ctrs -> Names \cup {Nil}]]
    <3>1. ASSUME NEW p \in Pods PROVE podCtrs'[p] \in [Ctrs -> Names \cup {Nil}]
      <4>1. podCtrs[p] \in [Ctrs -> Names \cup {Nil}]
        BY Zenon, <1>6
      <4> QED
        BY Zenon, <1>2, <1>5, <4>1
    <3> QED
      BY Zenon, <1>5, <3>1
  <2> QED
    BY Zenon, <1>1, <1>5, <1>8, <2>1, <2>2, <2>3, <2>4 DEF BoltTypes
<1>10. IdNames'
  <2>1. ASSUME NEW d \in Ctrs
        PROVE  /\ ids'[d] = IF ctr'[d] = Nil THEN Nil ELSE ctr'[d].name
               /\ allCtrs'[d] = IF ctr'[d] = Nil THEN Nil ELSE ctr'[d].name
    <3>1. /\ ids[d] = IF ctr[d] = Nil THEN Nil ELSE ctr[d].name
          /\ allCtrs[d] = IF ctr[d] = Nil THEN Nil ELSE ctr[d].name
      BY Zenon, <1>1 DEF IdNames
    <3>2. /\ ids'[d] = IF d = c THEN k.name ELSE ids[d]
          /\ allCtrs'[d] = IF d = c THEN k.name ELSE allCtrs[d]
      BY Zenon, <1>5, <1>6 DEF IDs
    <3> QED
      BY Zenon, <1>3, <1>7, <3>1, <3>2
  <2>2. \A p \in Pods : ids'[p] = ids[p]
    BY Zenon, <1>5, <1>6, DatabaseAssumption DEF IDs
  <2> QED
    BY Zenon, <1>1, <1>5, <2>1, <2>2 DEF IdNames
<1>11. PodBuckets'
  <2>1. ASSUME NEW p \in Pods, NEW d \in Ctrs
        PROVE  podCtrs'[p][d] = IF ctr'[d] # Nil /\ ctr'[d].pod = p THEN ctr'[d].name ELSE Nil
    <3>1. podCtrs[p][d] = IF ctr[d] # Nil /\ ctr[d].pod = p THEN ctr[d].name ELSE Nil
      BY Zenon, <1>1 DEF PodBuckets
    <3>2. podCtrs'[p][d] = IF p = k.pod /\ d = c THEN k.name ELSE podCtrs[p][d]
      <4>1. podCtrs[p] \in [Ctrs -> Names \cup {Nil}]
        BY Zenon, <1>6
      <4> QED
        BY Zenon, <1>5, <4>1
    <3> QED
      BY Zenon, <1>3, <1>7, <3>1, <3>2
  <2>2. \A d \in Ctrs : ctr'[d] # Nil /\ ctr'[d].pod # Nil => ctr'[d].pod \in podBkt
    BY Zenon, <1>1, <1>3, <1>4, <1>7 DEF PodBuckets
  <2> QED
    BY Zenon, <1>5, <2>1, <2>2 DEF PodBuckets
<1>12. DepBuckets'
  <2> SUFFICES ASSUME NEW e \in Ctrs, NEW d \in Ctrs
               PROVE  /\ d \in ctrDeps'[e] <=> ctr'[d] # Nil /\ e \in ctr'[d].deps
                      /\ d \in ctrDeps'[e] => ctr'[e] # Nil /\ ctr'[e].pod = ctr'[d].pod
    BY Zenon DEF DepBuckets
  <2>1. /\ d \in ctrDeps[e] <=> ctr[d] # Nil /\ e \in ctr[d].deps
        /\ d \in ctrDeps[e] => ctr[e] # Nil /\ ctr[e].pod = ctr[d].pod
    BY Zenon, <1>1 DEF DepBuckets
  <2>2. d \in ctrDeps'[e] <=> d \in ctrDeps[e] \/ (d = c /\ e \in k.deps)
    BY Zenon, <1>5
  <2> QED
    BY Zenon, <1>3, <1>4, <1>7, <2>1, <2>2
<1>13. VolBuckets'
  <2> SUFFICES ASSUME NEW d \in Ctrs, ctr'[d] # Nil, NEW v \in ctr'[d].vols
               PROVE  v \in allVols /\ d \in volDeps'[v]
    BY Zenon, <1>5 DEF VolBuckets
  <2>1. v \in allVols /\ v \in Vols /\ (d # c => d \in volDeps[v])
    BY Zenon, <1>1, <1>3, <1>4, <1>7 DEF VolBuckets, BoltTypes
  <2>2. d \in volDeps'[v] <=> d \in volDeps[v] \/ (d = c /\ v \in k.vols)
    BY Zenon, <1>5, <2>1
  <2> QED
    BY Zenon, <1>3, <1>7, <2>1, <2>2
<1>14. ExecBuckets'
  BY ZenonT(30), <1>1, <1>3, <1>5, <1>7 DEF ExecBuckets, BoltTypes
<1> QED
  BY Zenon, <1>8, <1>9, <1>10, <1>11, <1>12, <1>13, <1>14 DEF BoltInv

\* removeContainer, with the name in a copy that is current.
LEMMA BoltRemoves ==
    ASSUME BoltInv, ~StaleCopies, NEW c \in Ctrs, RemoveContainer(c)
    PROVE  BoltInv'
<1>1. BoltTypes /\ IdNames /\ NameIds /\ PodBuckets /\ DepBuckets /\ VolBuckets /\ ExecBuckets
  BY Zenon DEF BoltInv
<1>2. ctr[c] # Nil /\ mem[c] = ctr[c].name /\ ctrExec[c] = {} /\ ctrDeps[c] = {}
  BY Zenon DEF RemoveContainer, RemoveContainerAccepted, Usable
<1>3. /\ ids' = [ids EXCEPT ![c] = Nil] /\ names' = [names EXCEPT ![mem[c]] = Nil]
      /\ allCtrs' = [allCtrs EXCEPT ![c] = Nil] /\ ctr' = [ctr EXCEPT ![c] = Nil]
      /\ ctrNets' = [ctrNets EXCEPT ![c] = {}] /\ mem' = [mem EXCEPT ![c] = Nil]
      /\ ctrDeps' = [d \in Ctrs |-> IF d \in ctr[c].deps THEN ctrDeps[d] \ {c} ELSE ctrDeps[d]]
      /\ podCtrs' = [p \in Pods |-> IF p = ctr[c].pod THEN [podCtrs[p] EXCEPT ![c] = Nil]
                                                      ELSE podCtrs[p]]
      /\ UNCHANGED <<ctrExec, podBkt, allPods, allVols, volDeps, exec, exitCodes>>
  BY Zenon DEF RemoveContainer
<1>4. /\ ctr \in [Ctrs -> Kept \cup {Nil}] /\ allCtrs \in [Ctrs -> Names \cup {Nil}]
      /\ ctrDeps \in [Ctrs -> SUBSET Ctrs] /\ ctrNets \in [Ctrs -> SUBSET Nets]
      /\ podCtrs \in [Pods -> [Ctrs -> Names \cup {Nil}]]
      /\ mem \in [Ctrs -> Names \cup {Nil}] /\ ids \in [IDs -> Names \cup {Nil}] /\ c \in IDs
  BY Zenon, <1>1 DEF BoltTypes, IDs
<1>5. ctr'[c] = Nil /\ \A d \in Ctrs \ {c} : ctr'[d] = ctr[d]
  BY Zenon, <1>3, <1>4
<1>6. NameIds' /\ ids' \in [IDs -> Names \cup {Nil}] /\ names' \in [Names -> IDs \cup {Nil}]
  <2>1. ids[c] = mem[c] /\ mem[c] \in Names
    BY Zenon, <1>1, <1>2, <1>4, KeptFacts DEF IdNames
  <2> QED
    BY Zenon, <1>1, <1>3, <1>4, <2>1, Unregisters
<1>7. BoltTypes'
  <2>1. /\ ctr' \in [Ctrs -> Kept \cup {Nil}] /\ allCtrs' \in [Ctrs -> Names \cup {Nil}]
        /\ mem' \in [Ctrs -> Names \cup {Nil}]
    BY Zenon, <1>3, <1>4
  <2>2. ctrDeps' \in [Ctrs -> SUBSET Ctrs] /\ ctrNets' \in [Ctrs -> SUBSET Nets]
    BY Zenon, <1>3, <1>4
  <2>3. podCtrs' \in [Pods -> [Ctrs -> Names \cup {Nil}]]
    <3>1. ASSUME NEW p \in Pods PROVE podCtrs'[p] \in [Ctrs -> Names \cup {Nil}]
      <4>1. podCtrs[p] \in [Ctrs -> Names \cup {Nil}]
        BY Zenon, <1>4
      <4> QED
        BY Zenon, <1>3, <4>1
    <3> QED
      BY Zenon, <1>3, <3>1
  <2> QED
    BY Zenon, <1>1, <1>3, <1>6, <2>1, <2>2, <2>3 DEF BoltTypes
<1>8. IdNames'
  <2>1. ASSUME NEW d \in Ctrs
        PROVE  /\ ids'[d] = IF ctr'[d] = Nil THEN Nil ELSE ctr'[d].name
               /\ allCtrs'[d] = IF ctr'[d] = Nil THEN Nil ELSE ctr'[d].name
    <3>1. /\ ids[d] = IF ctr[d] = Nil THEN Nil ELSE ctr[d].name
          /\ allCtrs[d] = IF ctr[d] = Nil THEN Nil ELSE ctr[d].name
      BY Zenon, <1>1 DEF IdNames
    <3>2. /\ ids'[d] = IF d = c THEN Nil ELSE ids[d]
          /\ allCtrs'[d] = IF d = c THEN Nil ELSE allCtrs[d]
      BY Zenon, <1>3, <1>4 DEF IDs
    <3> QED
      BY Zenon, <1>5, <3>1, <3>2
  <2>2. \A p \in Pods : ids'[p] = ids[p]
    BY Zenon, <1>3, <1>4, DatabaseAssumption DEF IDs
  <2> QED
    BY Zenon, <1>1, <1>3, <2>1, <2>2 DEF IdNames
<1>9. PodBuckets'
  <2>1. ASSUME NEW p \in Pods, NEW d \in Ctrs
        PROVE  podCtrs'[p][d] = IF ctr'[d] # Nil /\ ctr'[d].pod = p THEN ctr'[d].name ELSE Nil
    <3>1. podCtrs[p][d] = IF ctr[d] # Nil /\ ctr[d].pod = p THEN ctr[d].name ELSE Nil
      BY Zenon, <1>1 DEF PodBuckets
    <3>2. podCtrs'[p][d] = IF p = ctr[c].pod /\ d = c THEN Nil ELSE podCtrs[p][d]
      <4>1. podCtrs[p] \in [Ctrs -> Names \cup {Nil}]
        BY Zenon, <1>4
      <4> QED
        BY Zenon, <1>3, <4>1
    <3> QED
      BY Zenon, <1>5, <3>1, <3>2
  <2>2. \A d \in Ctrs : ctr'[d] # Nil /\ ctr'[d].pod # Nil => ctr'[d].pod \in podBkt
    BY Zenon, <1>1, <1>5 DEF PodBuckets
  <2> QED
    BY Zenon, <1>3, <2>1, <2>2 DEF PodBuckets
<1>10. DepBuckets'
  <2> SUFFICES ASSUME NEW e \in Ctrs, NEW d \in Ctrs
               PROVE  /\ d \in ctrDeps'[e] <=> ctr'[d] # Nil /\ e \in ctr'[d].deps
                      /\ d \in ctrDeps'[e] => ctr'[e] # Nil /\ ctr'[e].pod = ctr'[d].pod
    BY Zenon DEF DepBuckets
  <2>1. /\ d \in ctrDeps[e] <=> ctr[d] # Nil /\ e \in ctr[d].deps
        /\ d \in ctrDeps[e] => ctr[e] # Nil /\ ctr[e].pod = ctr[d].pod
    BY Zenon, <1>1 DEF DepBuckets
  <2>2. d \in ctrDeps'[e] <=> d \in ctrDeps[e] /\ ~(d = c /\ e \in ctr[c].deps)
    BY Zenon, <1>3
  <2>3. e = c => d \notin ctrDeps[e]
    BY Zenon, <1>2
  <2> QED
    BY Zenon, <1>5, <2>1, <2>2, <2>3
<1>11. VolBuckets'
  BY Zenon, <1>1, <1>3, <1>5 DEF VolBuckets
<1>12. ExecBuckets'
  <2>1. \A s \in Sessions : exec[s] # c
    BY Zenon, <1>1, <1>2 DEF ExecBuckets
  <2>2. \A s \in Sessions : exec[s] # Nil => exec[s] \in Ctrs
    BY Zenon, <1>1 DEF BoltTypes
  <2> QED
    BY Zenon, <1>1, <1>3, <1>5, <2>1, <2>2 DEF ExecBuckets
<1> QED
  BY Zenon, <1>6, <1>7, <1>8, <1>9, <1>10, <1>11, <1>12 DEF BoltInv

\* A container that keeps its pod, its dependencies and its volumes.
LEMMA BoltRenamesOnly ==
    ASSUME BoltTypes, DepBuckets, VolBuckets, ExecBuckets, NEW c \in Ctrs, NEW n \in Names,
           ctr[c] # Nil, ctr' = [ctr EXCEPT ![c].name = n],
           UNCHANGED <<ctrDeps, ctrExec, allVols, volDeps, exec>>
    PROVE  /\ ctr' \in [Ctrs -> Kept \cup {Nil}] /\ ctr'[c] # Nil /\ ctr'[c].name = n
           /\ ctr'[c].pod = ctr[c].pod
           /\ \A d \in Ctrs \ {c} : ctr'[d] = ctr[d]
           /\ DepBuckets' /\ VolBuckets' /\ ExecBuckets'
<1>1. ctr \in [Ctrs -> Kept \cup {Nil}] /\ exec \in [Sessions -> Ctrs \cup {Nil}]
  BY Zenon DEF BoltTypes
<1> DEFINE k == ctr[c]
           r == [k EXCEPT !.name = n]
<1>2. k \in Kept
  BY Zenon, <1>1
<1>3. r \in Kept /\ r.name = n /\ r.pod = k.pod /\ r.deps = k.deps /\ r.vols = k.vols
  BY Zenon, <1>2 DEF Kept
<1>4. ctr' = [ctr EXCEPT ![c] = r] /\ r # Nil
  BY Zenon, <1>3, KeptFacts
<1> HIDE DEF r
<1>5. ctr' \in [Ctrs -> Kept \cup {Nil}] /\ ctr'[c] = r /\ \A d \in Ctrs \ {c} : ctr'[d] = ctr[d]
  BY Zenon, <1>1, <1>3, <1>4
<1>6. \A d \in Ctrs : /\ ctr'[d] # Nil <=> ctr[d] # Nil
                      /\ ctr'[d].deps = ctr[d].deps /\ ctr'[d].vols = ctr[d].vols
                      /\ ctr'[d].pod = ctr[d].pod
  BY Zenon, <1>3, <1>4, <1>5
<1>7. DepBuckets' /\ VolBuckets'
  BY <1>6 DEF DepBuckets, VolBuckets
<1>8. ExecBuckets'
  BY Zenon, <1>1, <1>6 DEF ExecBuckets
<1> QED
  BY Zenon, <1>3, <1>4, <1>5, <1>7, <1>8

\* SafeRewriteContainerConfig: the old name is given back and the new one taken, in
\* every bucket that has it.
LEMMA BoltRenames ==
    ASSUME BoltInv, NEW c \in Ctrs, NEW n \in Names, SafeRewriteContainerConfig(c, n)
    PROVE  BoltInv'
<1>1. BoltTypes /\ IdNames /\ NameIds /\ PodBuckets /\ DepBuckets /\ VolBuckets /\ ExecBuckets
  BY Zenon DEF BoltInv
<1>2. /\ ctr[c] # Nil /\ names[n] \in {Nil, c} /\ ctr' = [ctr EXCEPT ![c].name = n]
      /\ mem' \in {mem, [mem EXCEPT ![c] = n]}
      /\ UNCHANGED <<ctrDeps, ctrExec, ctrNets, podBkt, allPods, allVols, volDeps, exec, exitCodes>>
  BY Zenon DEF SafeRewriteContainerConfig, RenameAccepted
<1>3. /\ ctr' \in [Ctrs -> Kept \cup {Nil}] /\ ctr'[c] # Nil /\ ctr'[c].name = n
      /\ ctr'[c].pod = ctr[c].pod
      /\ \A d \in Ctrs \ {c} : ctr'[d] = ctr[d]
      /\ DepBuckets' /\ VolBuckets' /\ ExecBuckets'
  BY Zenon, <1>1, <1>2, BoltRenamesOnly
<1>4. /\ ids \in [IDs -> Names \cup {Nil}] /\ names \in [Names -> IDs \cup {Nil}]
      /\ allCtrs \in [Ctrs -> Names \cup {Nil}] /\ mem \in [Ctrs -> Names \cup {Nil}]
      /\ podCtrs \in [Pods -> [Ctrs -> Names \cup {Nil}]] /\ c \in IDs
      /\ ctr \in [Ctrs -> Kept \cup {Nil}]
  BY Zenon, <1>1 DEF BoltTypes, IDs
<1>5. /\ Nil \notin IDs /\ Nil \notin Names
      /\ ids[c] = ctr[c].name /\ ctr[c].name \in Names /\ names[ctr[c].name] = c
  BY Zenon, <1>2, CtrFacts, DatabaseAssumption DEF IDs
<1>6. mem' \in [Ctrs -> Names \cup {Nil}]
  BY Zenon, <1>2, <1>4
<1>7. CASE names[n] = Nil
  <2>1. /\ names' = [names EXCEPT ![ctr[c].name] = Nil, ![n] = c]
        /\ ids' = [ids EXCEPT ![c] = n] /\ allCtrs' = [allCtrs EXCEPT ![c] = n]
        /\ podCtrs' = [p \in Pods |-> IF p = ctr[c].pod THEN [podCtrs[p] EXCEPT ![c] = n]
                                                        ELSE podCtrs[p]]
    BY Zenon, <1>7 DEF SafeRewriteContainerConfig
  <2>2. BoltTypes'
    <3>1. /\ ids' \in [IDs -> Names \cup {Nil}] /\ names' \in [Names -> IDs \cup {Nil}]
          /\ allCtrs' \in [Ctrs -> Names \cup {Nil}]
      BY Zenon, <1>4, <2>1
    <3>2. podCtrs' \in [Pods -> [Ctrs -> Names \cup {Nil}]]
      <4>1. ASSUME NEW p \in Pods PROVE podCtrs'[p] \in [Ctrs -> Names \cup {Nil}]
        <5>1. podCtrs[p] \in [Ctrs -> Names \cup {Nil}]
          BY Zenon, <1>4
        <5> QED
          BY Zenon, <2>1, <5>1
      <4> QED
        BY Zenon, <2>1, <4>1
    <3> QED
      BY Zenon, <1>1, <1>2, <1>3, <1>6, <3>1, <3>2 DEF BoltTypes
  <2>3. NameIds'
    <3> SUFFICES ASSUME NEW j \in IDs, NEW m \in Names PROVE names'[m] = j <=> ids'[j] = m
      BY Zenon DEF NameIds
    <3>1. (names[m] = j <=> ids[j] = m) /\ (names[m] = c <=> ids[c] = m)
      BY Zenon, <1>1, <1>4 DEF NameIds
    <3>2. /\ ids'[j] = IF j = c THEN n ELSE ids[j]
          /\ names'[m] = IF m = n THEN c ELSE IF m = ctr[c].name THEN Nil ELSE names[m]
      BY Zenon, <1>4, <1>5, <2>1
    <3> QED
      BY Zenon, <1>5, <1>7, <3>1, <3>2
  <2>4. IdNames'
    <3>1. ASSUME NEW d \in Ctrs
          PROVE  /\ ids'[d] = IF ctr'[d] = Nil THEN Nil ELSE ctr'[d].name
                 /\ allCtrs'[d] = IF ctr'[d] = Nil THEN Nil ELSE ctr'[d].name
      <4>1. /\ ids[d] = IF ctr[d] = Nil THEN Nil ELSE ctr[d].name
            /\ allCtrs[d] = IF ctr[d] = Nil THEN Nil ELSE ctr[d].name
        BY Zenon, <1>1 DEF IdNames
      <4>2. /\ ids'[d] = IF d = c THEN n ELSE ids[d]
            /\ allCtrs'[d] = IF d = c THEN n ELSE allCtrs[d]
        BY Zenon, <1>4, <2>1 DEF IDs
      <4> QED
        BY Zenon, <1>3, <4>1, <4>2
    <3>2. \A p \in Pods : ids'[p] = ids[p]
      BY Zenon, <1>4, <2>1, DatabaseAssumption DEF IDs
    <3> QED
      BY Zenon, <1>1, <1>2, <3>1, <3>2 DEF IdNames
  <2>5. PodBuckets'
    <3>1. ASSUME NEW p \in Pods, NEW d \in Ctrs
          PROVE  podCtrs'[p][d] = IF ctr'[d] # Nil /\ ctr'[d].pod = p THEN ctr'[d].name ELSE Nil
      <4>1. podCtrs[p][d] = IF ctr[d] # Nil /\ ctr[d].pod = p THEN ctr[d].name ELSE Nil
        BY Zenon, <1>1 DEF PodBuckets
      <4>2. podCtrs'[p][d] = IF p = ctr[c].pod /\ d = c THEN n ELSE podCtrs[p][d]
        <5>1. podCtrs[p] \in [Ctrs -> Names \cup {Nil}]
          BY Zenon, <1>4
        <5> QED
          BY Zenon, <2>1, <5>1
      <4> QED
        BY Zenon, <1>2, <1>3, <4>1, <4>2
    <3>2. \A d \in Ctrs : ctr'[d] # Nil /\ ctr'[d].pod # Nil => ctr'[d].pod \in podBkt
      BY Zenon, <1>1, <1>2, <1>3 DEF PodBuckets
    <3> QED
      BY <1>2, <3>1, <3>2 DEF PodBuckets
  <2> QED
    BY Zenon, <1>3, <2>2, <2>3, <2>4, <2>5 DEF BoltInv
<1>8. CASE names[n] # Nil
  <2>1. UNCHANGED <<names, ids, allCtrs, podCtrs>>
    BY Zenon, <1>8 DEF SafeRewriteContainerConfig
  <2>2. ctr[c].name = n
    BY Zenon, <1>1, <1>2, <1>4, <1>5, <1>8 DEF NameIds
  <2>3. BoltTypes' /\ NameIds'
    BY <1>1, <1>2, <1>3, <1>6, <2>1 DEF BoltTypes, NameIds
  <2>4. \A d \in Ctrs : /\ ctr'[d] # Nil <=> ctr[d] # Nil
                        /\ ctr'[d].pod = ctr[d].pod /\ ctr'[d].name = ctr[d].name
    BY Zenon, <1>2, <1>3, <2>2
  <2>5. IdNames' /\ PodBuckets'
    BY <1>1, <1>2, <2>1, <2>4 DEF IdNames, PodBuckets
  <2> QED
    BY Zenon, <1>3, <2>3, <2>5 DEF BoltInv
<1> QED
  BY Zenon, <1>7, <1>8

\* Pods: a free ID and a free name; and a pod goes when its bucket is empty.
LEMMA BoltPods ==
    ASSUME BoltInv, NEW p \in Pods, (\E n \in Names : AddPod(p, n)) \/ RemovePod(p)
    PROVE  BoltInv'
<1>1. BoltTypes /\ IdNames /\ NameIds /\ PodBuckets /\ DepBuckets /\ VolBuckets /\ ExecBuckets
  BY Zenon DEF BoltInv
<1>2. UNCHANGED <<allCtrs, ctr, ctrDeps, ctrExec, ctrNets, allVols, volDeps, exec, exitCodes, mem>>
  BY Zenon DEF AddPod, RemovePod
<1>3. /\ ids \in [IDs -> Names \cup {Nil}] /\ allPods \in [Pods -> Names \cup {Nil}]
      /\ podCtrs \in [Pods -> [Ctrs -> Names \cup {Nil}]] /\ podBkt \subseteq Pods
      /\ ctr \in [Ctrs -> Kept \cup {Nil}] /\ p \in IDs /\ p \notin Ctrs
      /\ Ctrs \subseteq IDs /\ Pods \subseteq IDs /\ Nil \notin Pods
      /\ \A c \in Ctrs : ctr[c] # Nil => ctr[c].name # Nil
  BY <1>1, KeptFacts, DatabaseAssumption DEF BoltTypes, IDs
<1>4. DepBuckets' /\ VolBuckets' /\ ExecBuckets'
  BY Zenon, <1>1, <1>2, SameBuckets
<1>5. ASSUME NEW n \in Names, AddPod(p, n) PROVE BoltInv'
  <2>1. /\ ids[p] = Nil /\ names[n] = Nil /\ podBkt' = podBkt \cup {p}
        /\ podCtrs' = [podCtrs EXCEPT ![p] = [c \in Ctrs |-> Nil]]
        /\ ids' = [ids EXCEPT ![p] = n] /\ names' = [names EXCEPT ![n] = p]
        /\ allPods' = [allPods EXCEPT ![p] = n]
    BY Zenon, <1>5 DEF AddPod, AddPodAccepted
  <2>2. NameIds' /\ ids' \in [IDs -> Names \cup {Nil}] /\ names' \in [Names -> IDs \cup {Nil}]
    BY Zenon, <1>1, <1>3, <2>1, Registers
  <2>3. /\ podBkt' \subseteq Pods /\ allPods' \in [Pods -> Names \cup {Nil}]
        /\ podCtrs' \in [Pods -> [Ctrs -> Names \cup {Nil}]]
    BY Zenon, <1>3, <2>1
  <2>4. BoltTypes'
    BY Zenon, <1>1, <1>2, <2>2, <2>3 DEF BoltTypes
  <2>5. /\ \A c \in Ctrs : ids'[c] = ids[c]
        /\ \A q \in Pods : /\ ids'[q] = IF q = p THEN n ELSE ids[q]
                           /\ allPods'[q] = IF q = p THEN n ELSE allPods[q]
        /\ n # Nil
    BY Zenon, <1>3, <2>1, DatabaseAssumption
  <2>6. IdNames'
    <3>1. \A c \in Ctrs : /\ ids'[c] = IF ctr'[c] = Nil THEN Nil ELSE ctr'[c].name
                          /\ allCtrs'[c] = IF ctr'[c] = Nil THEN Nil ELSE ctr'[c].name
      BY Zenon, <1>1, <1>2, <2>5 DEF IdNames
    <3>2. ASSUME NEW q \in Pods
          PROVE  ids'[q] = allPods'[q] /\ (q \in podBkt' <=> allPods'[q] # Nil)
      BY <2>1, <2>5, PodFacts
    <3> QED
      BY Zenon, <3>1, <3>2 DEF IdNames
  <2>7. PodBuckets'
    <3>1. p \notin podBkt
      BY Zenon, <1>1, <2>1 DEF IdNames
    <3>2. \A c \in Ctrs : ~(ctr[c] # Nil /\ ctr[c].pod = p)
      BY Zenon, <1>1, <1>3, <3>1 DEF PodBuckets
    <3>3. \A q \in Pods, c \in Ctrs : podCtrs'[q][c] = IF q = p THEN Nil ELSE podCtrs[q][c]
      BY Zenon, <1>3, <2>1
    <3>4. ASSUME NEW q \in Pods, NEW c \in Ctrs
          PROVE  podCtrs'[q][c] = IF ctr[c] # Nil /\ ctr[c].pod = q THEN ctr[c].name ELSE Nil
      <4>1. podCtrs[q][c] = IF ctr[c] # Nil /\ ctr[c].pod = q THEN ctr[c].name ELSE Nil
        BY Zenon, <1>1 DEF PodBuckets
      <4> QED
        BY Zenon, <3>2, <3>3, <4>1
    <3>5. \A c \in Ctrs : ctr[c] # Nil /\ ctr[c].pod # Nil => ctr[c].pod \in podBkt'
      BY Zenon, <1>1, <2>1 DEF PodBuckets
    <3> QED
      BY Zenon, <1>2, <3>4, <3>5 DEF PodBuckets
  <2> QED
    BY Zenon, <1>4, <2>2, <2>4, <2>6, <2>7 DEF BoltInv
<1>6. ASSUME RemovePod(p) PROVE BoltInv'
  <2>1. /\ p \in podBkt /\ (\A c \in Ctrs : podCtrs[p][c] = Nil) /\ podBkt' = podBkt \ {p}
        /\ ids' = [ids EXCEPT ![p] = Nil] /\ names' = [names EXCEPT ![allPods[p]] = Nil]
        /\ allPods' = [allPods EXCEPT ![p] = Nil] /\ podCtrs' = podCtrs
    BY Zenon, <1>6 DEF RemovePod, RemovePodAccepted, InPod
  <2>2. ids[p] = allPods[p] /\ allPods[p] \in Names
    BY <1>1, <1>3, <2>1 DEF IdNames
  <2>3. NameIds' /\ ids' \in [IDs -> Names \cup {Nil}] /\ names' \in [Names -> IDs \cup {Nil}]
    BY Zenon, <1>1, <1>3, <2>1, <2>2, Unregisters
  <2>4. podBkt' \subseteq Pods /\ allPods' \in [Pods -> Names \cup {Nil}]
    BY Zenon, <1>3, <2>1
  <2>5. BoltTypes'
    BY Zenon, <1>1, <1>2, <2>1, <2>3, <2>4 DEF BoltTypes
  <2>6. /\ \A c \in Ctrs : ids'[c] = ids[c]
        /\ \A q \in Pods : /\ ids'[q] = IF q = p THEN Nil ELSE ids[q]
                           /\ allPods'[q] = IF q = p THEN Nil ELSE allPods[q]
    BY Zenon, <1>3, <2>1
  <2>7. IdNames'
    <3>1. \A c \in Ctrs : /\ ids'[c] = IF ctr'[c] = Nil THEN Nil ELSE ctr'[c].name
                          /\ allCtrs'[c] = IF ctr'[c] = Nil THEN Nil ELSE ctr'[c].name
      BY Zenon, <1>1, <1>2, <2>6 DEF IdNames
    <3>2. ASSUME NEW q \in Pods
          PROVE  ids'[q] = allPods'[q] /\ (q \in podBkt' <=> allPods'[q] # Nil)
      BY Zenon, <2>1, <2>6, PodFacts
    <3> QED
      BY Zenon, <3>1, <3>2 DEF IdNames
  <2>8. PodBuckets'
    <3>1. \A c \in Ctrs : ~(ctr[c] # Nil /\ ctr[c].pod = p)
      BY Zenon, <1>1, <1>3, <2>1 DEF PodBuckets
    <3> QED
      BY Zenon, <1>1, <1>2, <2>1, <3>1 DEF PodBuckets
  <2> QED
    BY Zenon, <1>4, <2>3, <2>5, <2>7, <2>8 DEF BoltInv
<1> QED
  BY Zenon, <1>5, <1>6

\* RemovePodContainers takes all containers of a pod: their dependents are among them.
LEMMA BoltEmptiesPod ==
    ASSUME BoltInv, NEW p \in Pods, RemovePodContainers(p)
    PROVE  BoltInv'
<1>1. BoltTypes /\ IdNames /\ NameIds /\ PodBuckets /\ DepBuckets /\ VolBuckets /\ ExecBuckets
  BY Zenon DEF BoltInv
<1> DEFINE gone == InPod(p)
           freed == {podCtrs[p][c] : c \in gone}
<1>2. /\ \A c \in gone : ctrExec[c] = {} /\ ctr[c] # Nil /\ ctrDeps[c] \subseteq gone
      /\ ctr' = [c \in Ctrs |-> IF c \in gone THEN Nil ELSE ctr[c]]
      /\ ids' = [i \in IDs |-> IF i \in gone THEN Nil ELSE ids[i]]
      /\ names' = [n \in Names |-> IF n \in freed THEN Nil ELSE names[n]]
      /\ allCtrs' = [c \in Ctrs |-> IF c \in gone THEN Nil ELSE allCtrs[c]]
      /\ ctrDeps' = [c \in Ctrs |-> IF c \in gone THEN {} ELSE ctrDeps[c]]
      /\ ctrNets' = [c \in Ctrs |-> IF c \in gone THEN {} ELSE ctrNets[c]]
      /\ mem' = [c \in Ctrs |-> IF c \in gone THEN Nil ELSE mem[c]]
      /\ podCtrs' = [podCtrs EXCEPT ![p] = [c \in Ctrs |-> Nil]]
      /\ UNCHANGED <<ctrExec, podBkt, allPods, allVols, volDeps, exec, exitCodes>>
  BY Zenon DEF RemovePodContainers, RemovePodContainersAccepted, NoSessions
<1>3. /\ ids \in [IDs -> Names \cup {Nil}] /\ names \in [Names -> IDs \cup {Nil}]
      /\ ctr \in [Ctrs -> Kept \cup {Nil}] /\ allCtrs \in [Ctrs -> Names \cup {Nil}]
      /\ ctrDeps \in [Ctrs -> SUBSET Ctrs] /\ ctrNets \in [Ctrs -> SUBSET Nets]
      /\ mem \in [Ctrs -> Names \cup {Nil}] /\ podCtrs \in [Pods -> [Ctrs -> Names \cup {Nil}]]
      /\ exec \in [Sessions -> Ctrs \cup {Nil}]
  BY Zenon, <1>1 DEF BoltTypes
<1>4. /\ \A c \in Ctrs : ctr[c] # Nil => ctr[c].name \in Names /\ ctr[c].name # Nil
      /\ Nil \notin IDs /\ Nil \notin Names /\ Nil \notin Pods /\ Ctrs \cap Pods = {}
      /\ Ctrs \subseteq IDs /\ Pods \subseteq IDs
  BY <1>3, KeptFacts, DatabaseAssumption DEF IDs
<1>5. \A c \in Ctrs : c \in gone <=> ctr[c] # Nil /\ ctr[c].pod = p
  BY Zenon, <1>1, <1>4 DEF PodBuckets, InPod
<1>6. \A c \in gone : c \in Ctrs /\ podCtrs[p][c] = ctr[c].name /\ ids[c] = ctr[c].name
  BY Zenon, <1>1, <1>5 DEF PodBuckets, IdNames, InPod
<1>7. \A n \in Names : n \in freed <=> \E c \in gone : ids[c] = n
  BY Zenon, <1>6
<1> HIDE DEF gone, freed
<1>8. BoltTypes'
  <2>1. ids' \in [IDs -> Names \cup {Nil}] /\ names' \in [Names -> IDs \cup {Nil}]
    BY Zenon, <1>2, <1>3
  <2>2. /\ ctr' \in [Ctrs -> Kept \cup {Nil}] /\ allCtrs' \in [Ctrs -> Names \cup {Nil}]
        /\ mem' \in [Ctrs -> Names \cup {Nil}]
    BY Zenon, <1>2, <1>3
  <2>3. ctrDeps' \in [Ctrs -> SUBSET Ctrs] /\ ctrNets' \in [Ctrs -> SUBSET Nets]
    BY Zenon, <1>2, <1>3
  <2>4. podCtrs' \in [Pods -> [Ctrs -> Names \cup {Nil}]]
    BY Zenon, <1>2, <1>3
  <2> QED
    BY Zenon, <1>1, <1>2, <2>1, <2>2, <2>3, <2>4 DEF BoltTypes
<1>9. IdNames'
  <2>1. ASSUME NEW c \in Ctrs
        PROVE  /\ ids'[c] = IF ctr'[c] = Nil THEN Nil ELSE ctr'[c].name
               /\ allCtrs'[c] = IF ctr'[c] = Nil THEN Nil ELSE ctr'[c].name
    <3>1. /\ ids[c] = IF ctr[c] = Nil THEN Nil ELSE ctr[c].name
          /\ allCtrs[c] = IF ctr[c] = Nil THEN Nil ELSE ctr[c].name
      BY Zenon, <1>1 DEF IdNames
    <3>2. /\ ids'[c] = IF c \in gone THEN Nil ELSE ids[c]
          /\ allCtrs'[c] = IF c \in gone THEN Nil ELSE allCtrs[c]
          /\ ctr'[c] = IF c \in gone THEN Nil ELSE ctr[c]
      BY Zenon, <1>2, <1>4
    <3> QED
      BY Zenon, <3>1, <3>2
  <2>2. \A q \in Pods : ids'[q] = ids[q]
    BY Zenon, <1>2, <1>4, <1>6
  <2> QED
    BY Zenon, <1>1, <1>2, <2>1, <2>2 DEF IdNames
<1>10. NameIds'
  <2> SUFFICES ASSUME NEW i \in IDs, NEW n \in Names PROVE names'[n] = i <=> ids'[i] = n
    BY Zenon DEF NameIds
  <2>1. /\ ids'[i] = IF i \in gone THEN Nil ELSE ids[i]
        /\ names'[n] = IF n \in freed THEN Nil ELSE names[n]
    BY Zenon, <1>2
  <2>2. \A j \in IDs : names[n] = j <=> ids[j] = n
    BY Zenon, <1>1 DEF NameIds
  <2>3. ASSUME n \in freed PROVE names[n] \in gone
    <3>1. PICK c \in gone : ids[c] = n
      BY Zenon, <1>7, <2>3
    <3>2. c \in IDs
      BY Zenon, <1>4, <1>6
    <3> QED
      BY Zenon, <2>2, <3>1, <3>2
  <2>4. ASSUME names[n] \in gone PROVE n \in freed
    <3>1. names[n] \in IDs
      BY Zenon, <1>4, <1>6, <2>4
    <3>2. ids[names[n]] = n
      BY Zenon, <2>2, <3>1
    <3> QED
      BY Zenon, <1>7, <2>4, <3>2
  <2> QED
    BY Zenon, <1>4, <2>1, <2>2, <2>3, <2>4
<1>11. PodBuckets'
  <2>1. ASSUME NEW q \in Pods, NEW c \in Ctrs
        PROVE  podCtrs'[q][c] = IF ctr'[c] # Nil /\ ctr'[c].pod = q THEN ctr'[c].name ELSE Nil
    <3>1. podCtrs[q][c] = IF ctr[c] # Nil /\ ctr[c].pod = q THEN ctr[c].name ELSE Nil
      BY Zenon, <1>1 DEF PodBuckets
    <3>2. /\ podCtrs'[q][c] = IF q = p THEN Nil ELSE podCtrs[q][c]
          /\ ctr'[c] = IF c \in gone THEN Nil ELSE ctr[c]
      BY Zenon, <1>2, <1>3
    <3> QED
      BY Zenon, <1>5, <3>1, <3>2
  <2>2. \A c \in Ctrs : ctr'[c] # Nil /\ ctr'[c].pod # Nil => ctr'[c].pod \in podBkt
    BY Zenon, <1>1, <1>2 DEF PodBuckets
  <2> QED
    BY Zenon, <1>2, <2>1, <2>2 DEF PodBuckets
<1>12. DepBuckets'
  <2> SUFFICES ASSUME NEW e \in Ctrs, NEW d \in Ctrs
               PROVE  /\ d \in ctrDeps'[e] <=> ctr'[d] # Nil /\ e \in ctr'[d].deps
                      /\ d \in ctrDeps'[e] => ctr'[e] # Nil /\ ctr'[e].pod = ctr'[d].pod
    BY Zenon DEF DepBuckets
  <2>1. /\ d \in ctrDeps[e] <=> ctr[d] # Nil /\ e \in ctr[d].deps
        /\ d \in ctrDeps[e] => ctr[e] # Nil /\ ctr[e].pod = ctr[d].pod
    BY Zenon, <1>1 DEF DepBuckets
  <2>2. /\ d \in ctrDeps'[e] <=> d \in ctrDeps[e] /\ e \notin gone
        /\ ctr'[d] = IF d \in gone THEN Nil ELSE ctr[d]
        /\ ctr'[e] = IF e \in gone THEN Nil ELSE ctr[e]
    BY Zenon, <1>2
  <2>3. d \in ctrDeps[e] => (d \in gone <=> e \in gone)
    BY Zenon, <1>5, <2>1
  <2> QED
    BY Zenon, <2>1, <2>2, <2>3
<1>13. VolBuckets'
  BY Zenon, <1>1, <1>2 DEF VolBuckets
<1>14. ExecBuckets'
  <2>1. \A s \in Sessions : exec[s] \notin gone
    BY Zenon, <1>1, <1>2, <1>6 DEF ExecBuckets
  <2> QED
    BY Zenon, <1>1, <1>2, <1>3, <2>1 DEF ExecBuckets
<1> QED
  BY Zenon, <1>8, <1>9, <1>10, <1>11, <1>12, <1>13, <1>14 DEF BoltInv

\* Volumes: one whose bucket names no container that exists may go.
LEMMA BoltVolumes ==
    ASSUME BoltInv, NEW v \in Vols, AddVolume(v) \/ RemoveVolume(v)
    PROVE  BoltInv'
<1>1. BoltTypes /\ IdNames /\ NameIds /\ PodBuckets /\ DepBuckets /\ VolBuckets /\ ExecBuckets
  BY Zenon DEF BoltInv
<1>2. UNCHANGED <<ids, names, allCtrs, ctr, ctrDeps, ctrExec, ctrNets, podBkt, allPods, podCtrs, exec,
                  exitCodes, mem>>
  BY Zenon DEF AddVolume, RemoveVolume
<1>3. /\ allVols' \in {allVols \cup {v}, allVols \ {v}} /\ volDeps' = [volDeps EXCEPT ![v] = {}]
      /\ \A c \in Ctrs : ctr[c] # Nil => v \notin ctr[c].vols
  BY Zenon, <1>1 DEF AddVolume, RemoveVolume, RemoveVolumeAccepted, VolumeInUse, VolBuckets
<1>4. allVols \subseteq Vols /\ volDeps \in [Vols -> SUBSET Ctrs]
  BY Zenon, <1>1 DEF BoltTypes
<1>5. allVols' \subseteq Vols /\ volDeps' \in [Vols -> SUBSET Ctrs]
  BY Zenon, <1>3, <1>4
<1>6. BoltTypes'
  BY Zenon, <1>1, <1>2, <1>5 DEF BoltTypes
<1>7. VolBuckets'
  BY Zenon, <1>1, <1>2, <1>3, <1>4 DEF VolBuckets
<1>8. IdNames' /\ NameIds' /\ PodBuckets' /\ DepBuckets' /\ ExecBuckets'
  BY Zenon, <1>1, <1>2, SameBuckets
<1> QED
  BY Zenon, <1>6, <1>7, <1>8 DEF BoltInv

\* Exec sessions: the bucket of the container and execBkt change together.
LEMMA BoltExecs ==
    ASSUME BoltInv,
           \/ \E c \in Ctrs : \/ \E s \in Sessions : AddExecSession(c, s)
                              \/ RemoveContainerExecSessions(c)
           \/ \E s \in Sessions : RemoveExecSession(s)
    PROVE  BoltInv'
<1>1. BoltTypes /\ IdNames /\ NameIds /\ PodBuckets /\ DepBuckets /\ VolBuckets /\ ExecBuckets
  BY Zenon DEF BoltInv
<1>2. UNCHANGED <<ids, names, allCtrs, ctr, ctrDeps, ctrNets, podBkt, allPods, podCtrs, allVols,
                  volDeps, exitCodes, mem>>
  BY Zenon DEF AddExecSession, RemoveExecSession, RemoveContainerExecSessions
<1>3. /\ ctrExec \in [Ctrs -> SUBSET Sessions] /\ exec \in [Sessions -> Ctrs \cup {Nil}]
      /\ Nil \notin Ctrs
  BY Zenon, <1>1, DatabaseAssumption DEF BoltTypes
<1>4. /\ ctrExec' \in [Ctrs -> SUBSET Sessions] /\ exec' \in [Sessions -> Ctrs \cup {Nil}]
      /\ \A t \in Sessions : /\ \A d \in Ctrs : t \in ctrExec'[d] <=> exec'[t] = d
                             /\ exec'[t] # Nil => ctr[exec'[t]] # Nil
  <2>1. \A t \in Sessions : /\ \A d \in Ctrs : t \in ctrExec[d] <=> exec[t] = d
                            /\ exec[t] # Nil => ctr[exec[t]] # Nil
    BY Zenon, <1>1 DEF ExecBuckets
  <2>2. ASSUME NEW c \in Ctrs, NEW s \in Sessions, AddExecSession(c, s) PROVE <1>4!:
    <3>1. /\ ctr[c] # Nil /\ exec[s] = Nil /\ exec' = [exec EXCEPT ![s] = c]
          /\ ctrExec' = [ctrExec EXCEPT ![c] = ctrExec[c] \cup {s}]
      BY Zenon, <2>2 DEF AddExecSession
    <3>2. ctrExec' \in [Ctrs -> SUBSET Sessions] /\ exec' \in [Sessions -> Ctrs \cup {Nil}]
      BY Zenon, <1>3, <3>1
    <3>3. \A t \in Sessions : /\ exec'[t] = IF t = s THEN c ELSE exec[t]
                              /\ \A d \in Ctrs : t \in ctrExec'[d] <=>
                                    t \in ctrExec[d] \/ (t = s /\ d = c)
      BY Zenon, <1>3, <3>1
    <3>4. ASSUME NEW t \in Sessions
          PROVE  /\ \A d \in Ctrs : t \in ctrExec'[d] <=> exec'[t] = d
                 /\ exec'[t] # Nil => ctr[exec'[t]] # Nil
      <4>1. /\ \A d \in Ctrs : t \in ctrExec[d] <=> exec[t] = d
            /\ exec[t] # Nil => ctr[exec[t]] # Nil
        BY Zenon, <2>1
      <4>2. CASE t = s
        <5>1. exec'[t] = c
          BY Zenon, <3>3, <4>2
        <5>2. \A d \in Ctrs : t \in ctrExec'[d] <=> c = d
          BY Zenon, <1>3, <3>1, <3>3, <4>1, <4>2
        <5> QED
          BY Zenon, <3>1, <5>1, <5>2
      <4>3. CASE t # s
        BY Zenon, <3>3, <4>1, <4>3
      <4> QED
        BY Zenon, <4>1, <4>2, <4>3
    <3> QED
      BY Zenon, <3>2, <3>4
  <2>3. ASSUME NEW c \in Ctrs, RemoveContainerExecSessions(c) PROVE <1>4!:
    <3>1. /\ ctrExec' = [ctrExec EXCEPT ![c] = {}]
          /\ exec' = [s \in Sessions |-> IF s \in ctrExec[c] THEN Nil ELSE exec[s]]
      BY Zenon, <2>3 DEF RemoveContainerExecSessions
    <3>2. ctrExec' \in [Ctrs -> SUBSET Sessions] /\ exec' \in [Sessions -> Ctrs \cup {Nil}]
      BY Zenon, <1>3, <3>1
    <3>3. \A t \in Sessions : /\ exec'[t] = IF t \in ctrExec[c] THEN Nil ELSE exec[t]
                              /\ \A d \in Ctrs : t \in ctrExec'[d] <=> t \in ctrExec[d] /\ d # c
      BY Zenon, <1>3, <3>1
    <3>4. ASSUME NEW t \in Sessions
          PROVE  /\ \A d \in Ctrs : t \in ctrExec'[d] <=> exec'[t] = d
                 /\ exec'[t] # Nil => ctr[exec'[t]] # Nil
      <4>1. /\ \A d \in Ctrs : t \in ctrExec[d] <=> exec[t] = d
            /\ exec[t] # Nil => ctr[exec[t]] # Nil
        BY Zenon, <2>1
      <4>2. CASE t \in ctrExec[c]
        <5>1. exec'[t] = Nil /\ exec[t] = c
          BY Zenon, <3>3, <4>1, <4>2
        <5>2. \A d \in Ctrs : t \notin ctrExec'[d]
          BY Zenon, <3>3, <4>1, <5>1
        <5> QED
          BY Zenon, <1>3, <5>1, <5>2
      <4>3. CASE t \notin ctrExec[c]
        BY Zenon, <3>3, <4>1, <4>3
      <4> QED
        BY Zenon, <4>1, <4>2, <4>3
    <3> QED
      BY Zenon, <3>2, <3>4
  <2>4. ASSUME NEW s \in Sessions, RemoveExecSession(s) PROVE <1>4!:
    <3>1. exec[s] # Nil /\ exec[s] \in Ctrs /\ ctr[exec[s]] # Nil
      BY Zenon, <1>3, <2>1, <2>4 DEF RemoveExecSession
    <3>2. /\ exec' = [exec EXCEPT ![s] = Nil]
          /\ ctrExec' = [ctrExec EXCEPT ![exec[s]] = ctrExec[exec[s]] \ {s}]
      BY Zenon, <2>4, <3>1 DEF RemoveExecSession
    <3>3. ctrExec' \in [Ctrs -> SUBSET Sessions] /\ exec' \in [Sessions -> Ctrs \cup {Nil}]
      BY Zenon, <1>3, <3>1, <3>2
    <3>4. \A t \in Sessions : /\ exec'[t] = IF t = s THEN Nil ELSE exec[t]
                              /\ \A d \in Ctrs : t \in ctrExec'[d] <=>
                                    t \in ctrExec[d] /\ ~(t = s /\ d = exec[s])
      BY Zenon, <1>3, <3>1, <3>2
    <3>5. ASSUME NEW t \in Sessions
          PROVE  /\ \A d \in Ctrs : t \in ctrExec'[d] <=> exec'[t] = d
                 /\ exec'[t] # Nil => ctr[exec'[t]] # Nil
      <4>1. /\ \A d \in Ctrs : t \in ctrExec[d] <=> exec[t] = d
            /\ exec[t] # Nil => ctr[exec[t]] # Nil
        BY Zenon, <2>1
      <4>2. CASE t = s
        <5>1. exec'[t] = Nil
          BY Zenon, <3>4, <4>2
        <5>2. \A d \in Ctrs : t \notin ctrExec'[d]
          BY Zenon, <3>4, <4>1, <4>2
        <5> QED
          BY Zenon, <1>3, <5>1, <5>2
      <4>3. CASE t # s
        BY Zenon, <3>4, <4>1, <4>3
      <4> QED
        BY Zenon, <4>1, <4>2, <4>3
    <3> QED
      BY Zenon, <3>3, <3>5
  <2> QED
    BY Zenon, <2>2, <2>3, <2>4
<1>5. BoltTypes'
  BY Zenon, <1>1, <1>2, <1>4 DEF BoltTypes
<1>6. ExecBuckets'
  BY Zenon, <1>2, <1>4 DEF ExecBuckets
<1>7. IdNames' /\ NameIds' /\ PodBuckets' /\ DepBuckets' /\ VolBuckets'
  BY Zenon, <1>1, <1>2, SameBuckets
<1> QED
  BY Zenon, <1>5, <1>6, <1>7 DEF BoltInv

\* Refresh finds no ID that is neither a container nor a pod.
LEMMA BoltRefreshes ==
    ASSUME BoltInv, Refresh
    PROVE  BoltInv' /\ UNCHANGED <<ids, names>>
<1>1. BoltTypes /\ IdNames /\ NameIds /\ PodBuckets /\ DepBuckets /\ VolBuckets /\ ExecBuckets
  BY Zenon DEF BoltInv
<1> DEFINE dangling == {i \in IDs : ids[i] # Nil /\ i \notin podBkt /\ (i \in Ctrs => ctr[i] = Nil)}
<1>2. /\ ids' = [i \in IDs |-> IF i \in dangling THEN Nil ELSE ids[i]]
      /\ names' = [n \in Names |-> IF n \in {ids[i] : i \in dangling} THEN Nil ELSE names[n]]
      /\ exec' = [s \in Sessions |-> Nil] /\ ctrExec' = [c \in Ctrs |-> {}]
      /\ mem' = [c \in Ctrs |-> Nil] /\ exitCodes' = {}
      /\ UNCHANGED <<allCtrs, ctr, ctrDeps, ctrNets, podBkt, allPods, podCtrs, allVols, volDeps>>
  BY Zenon DEF Refresh
<1>3. dangling = {}
  BY Zenon, <1>1 DEF IdNames, IDs
<1>4. ids' = ids /\ names' = names
  BY Zenon, <1>1, <1>2, <1>3 DEF BoltTypes
<1> HIDE DEF dangling
<1>5. /\ exec' \in [Sessions -> Ctrs \cup {Nil}] /\ ctrExec' \in [Ctrs -> SUBSET Sessions]
      /\ mem' \in [Ctrs -> Names \cup {Nil}]
  BY Zenon, <1>2
<1>6. BoltTypes'
  BY Zenon, <1>1, <1>2, <1>4, <1>5 DEF BoltTypes
<1>7. ExecBuckets'
  BY Zenon, <1>2, DatabaseAssumption DEF ExecBuckets
<1>8. IdNames' /\ NameIds' /\ PodBuckets' /\ DepBuckets' /\ VolBuckets'
  BY Zenon, <1>1, <1>2, <1>4, SameBuckets
<1> QED
  BY Zenon, <1>4, <1>6, <1>7, <1>8 DEF BoltInv

\* update writes the name back that the config has, so it changes no bucket.
LEMMA BoltUpdates ==
    ASSUME BoltInv, ~StaleCopies, NEW c \in Ctrs, Update(c)
    PROVE  UNCHANGED boltVars
<1>1. /\ ctr \in [Ctrs -> Kept \cup {Nil}] /\ ctr[c] # Nil /\ mem[c] = ctr[c].name
      /\ ctr' = [ctr EXCEPT ![c].name = mem[c]]
  BY Zenon DEF BoltInv, BoltTypes, Update, Usable
<1> DEFINE k == ctr[c]
<1>2. k \in Kept
  BY Zenon, <1>1
<1>3. [k EXCEPT !.name = k.name] = k
  BY Zenon, <1>2 DEF Kept
<1>4. ctr' = [ctr EXCEPT ![c] = [k EXCEPT !.name = k.name]]
  BY Zenon, <1>1
<1>5. ctr' = ctr
  BY Zenon, <1>1, <1>3, <1>4
<1> QED
  BY Zenon, <1>5 DEF Update, boltVars

\* Every call of BoltState keeps the buckets in step.
LEMMA BoltStep == BoltInv /\ ~StaleCopies /\ BoltNext => BoltInv'
<1> SUFFICES ASSUME BoltInv, ~StaleCopies, BoltNext PROVE BoltInv'
  BY Zenon
<1>1. /\ mem \in [Ctrs -> Names \cup {Nil}] /\ ctrNets \in [Ctrs -> SUBSET Nets]
      /\ ctr \in [Ctrs -> Kept \cup {Nil}] /\ exitCodes \subseteq Ctrs
  BY Zenon DEF BoltInv, BoltTypes
<1>2. ASSUME NEW c \in Ctrs, NEW k \in ConfigsOf[c], AddContainer(c, k) PROVE BoltInv'
  BY Zenon, <1>2, BoltAdds
<1>3. ASSUME NEW c \in Ctrs, Load(c) PROVE BoltInv'
  <2>1. ctr[c].name \in Names
    BY Zenon, <1>1, <1>3, KeptFacts DEF Load
  <2>2. mem' \in [Ctrs -> Names \cup {Nil}]
    BY Zenon, <1>1, <1>3, <2>1 DEF Load
  <2> QED
    BY Zenon, <1>1, <1>3, <2>2, BoltSame DEF Load
<1>4. ASSUME NEW c \in Ctrs, RemoveContainer(c) PROVE BoltInv'
  BY Zenon, <1>4, BoltRemoves
<1>5. ASSUME NEW c \in Ctrs, Update(c) PROVE BoltInv'
  BY Zenon, <1>1, <1>5, BoltUpdates, BoltSame DEF boltVars
<1>6. ASSUME NEW c \in Ctrs, NEW n \in Names, SafeRewriteContainerConfig(c, n) PROVE BoltInv'
  BY Zenon, <1>6, BoltRenames
<1>7. ASSUME NEW c \in Ctrs, NEW net \in Nets, NetworkConnect(c, net) \/ NetworkDisconnect(c, net)
      PROVE  BoltInv'
  <2>1. ctrNets' \in [Ctrs -> SUBSET Nets]
    BY <1>1, <1>7 DEF NetworkConnect, NetworkDisconnect
  <2> QED
    BY Zenon, <1>1, <1>7, <2>1, BoltSame DEF NetworkConnect, NetworkDisconnect
<1>8. ASSUME (\E c \in Ctrs : AddContainerExitCode(c)) \/ PruneContainerExitCodes PROVE BoltInv'
  <2>1. exitCodes' \subseteq Ctrs
    BY Zenon, <1>1, <1>8 DEF AddContainerExitCode, PruneContainerExitCodes
  <2> QED
    BY Zenon, <1>1, <1>8, <2>1, BoltSame DEF AddContainerExitCode, PruneContainerExitCodes
<1> QED
  BY Zenon, <1>2, <1>3, <1>4, <1>5, <1>6, <1>7, <1>8, BoltPods, BoltEmptiesPod, BoltVolumes, BoltExecs,
     BoltRefreshes DEF BoltNext

---------------------------------------------------------------------------
\* What the buckets hold of a container, as state.go sees it.
LEMMA ConfigFacts ==
    ASSUME BoltTypes
    PROVE  \A c \in Ctrs :
              /\ ctr[c] = Nil => Config(c) = Nil
              /\ ctr[c] # Nil => /\ Config(c) \in Created /\ Config(c) # Nil
                                 /\ Config(c).name = ctr[c].name /\ Config(c).pod = ctr[c].pod
                                 /\ Config(c).deps = ctr[c].deps /\ Config(c).vols = ctr[c].vols
                                 /\ Config(c).nets = ctrNets[c]
              /\ Abs!Has(c) <=> ctr[c] # Nil
<1> SUFFICES ASSUME NEW c \in Ctrs
             PROVE  /\ ctr[c] = Nil => Config(c) = Nil
                    /\ ctr[c] # Nil => /\ Config(c) \in Created /\ Config(c) # Nil
                                       /\ Config(c).name = ctr[c].name /\ Config(c).pod = ctr[c].pod
                                       /\ Config(c).deps = ctr[c].deps /\ Config(c).vols = ctr[c].vols
                                       /\ Config(c).nets = ctrNets[c]
                    /\ Abs!Has(c) <=> ctr[c] # Nil
  BY Zenon
<1>1. CASE ctr[c] = Nil
  BY Zenon, <1>1 DEF Config, Abs!Has
<1>2. CASE ctr[c] # Nil
  <2>1. ctr[c] \in Kept /\ ctrNets[c] \in SUBSET Nets
    BY Zenon, <1>2 DEF BoltTypes
  <2>2. /\ ctr[c].name \in Names /\ ctr[c].pod \in Pods \cup {Nil}
        /\ ctr[c].deps \in SUBSET Ctrs /\ ctr[c].vols \in SUBSET Vols
    BY Zenon, <2>1, KeptFacts
  <2>3. Config(c) = [name |-> ctr[c].name, pod |-> ctr[c].pod, deps |-> ctr[c].deps,
                     vols |-> ctr[c].vols, nets |-> ctrNets[c]]
    BY Zenon, <1>2 DEF Config
  <2>4. Config(c) \in Created
    BY <2>1, <2>2, <2>3 DEF Created
  <2>5. Config(c) # Nil
    BY Zenon, <2>4, CreatedFacts
  <2>6. /\ Config(c).name = ctr[c].name /\ Config(c).pod = ctr[c].pod
        /\ Config(c).deps = ctr[c].deps /\ Config(c).vols = ctr[c].vols
        /\ Config(c).nets = ctrNets[c]
    BY <2>3
  <2>7. Abs!Has(c)
    BY Zenon, <2>5 DEF Abs!Has
  <2> QED
    BY Zenon, <1>2, <2>4, <2>5, <2>6, <2>7
<1> QED
  BY Zenon, <1>1, <1>2

\* A pod's bucket names its members.
LEMMA InPodFacts ==
    ASSUME BoltInv, NEW p \in Pods, NEW c \in Ctrs
    PROVE  c \in InPod(p) <=> ctr[c] # Nil /\ ctr[c].pod = p
<1>1. podCtrs[p][c] = IF ctr[c] # Nil /\ ctr[c].pod = p THEN ctr[c].name ELSE Nil
  BY Zenon DEF BoltInv, PodBuckets
<1>2. ctr[c] # Nil => ctr[c].name # Nil
  BY KeptFacts, DatabaseAssumption DEF BoltInv, BoltTypes
<1> QED
  BY Zenon, <1>1, <1>2 DEF InPod

\* What the readers of the buckets find is what the configurations say.
LEMMA BoltReads ==
    ASSUME BoltInv
    PROVE  /\ \A c \in Ctrs : ctrDeps[c] = Abs!Dependents(c) /\ ctrExec[c] = Abs!SessionsOf(c)
           /\ \A p \in Pods : InPod(p) = Abs!Members(p) /\ (p \in podBkt <=> allPods[p] # Nil)
           /\ \A v \in Vols : Abs!Users(v) \subseteq VolumeInUse(v)
           /\ \A n \in Names : /\ names[n] \in Ctrs <=> Abs!NameTaken(n)
                               /\ names[n] \in Pods <=> Abs!PodNamed(n)
                               /\ names[n] \in Ctrs \cup Pods \cup {Nil}
<1>1. BoltTypes /\ IdNames /\ NameIds /\ PodBuckets /\ DepBuckets /\ VolBuckets /\ ExecBuckets
  BY Zenon DEF BoltInv
<1>2. /\ \A c \in Ctrs : Abs!Has(c) <=> ctr[c] # Nil
      /\ \A c \in Ctrs : ctr[c] # Nil =>
            /\ Config(c).name = ctr[c].name /\ Config(c).pod = ctr[c].pod
            /\ Config(c).deps = ctr[c].deps /\ Config(c).vols = ctr[c].vols
            /\ ctr[c].name \in Names
  BY Zenon, <1>1, ConfigFacts, KeptFacts DEF BoltTypes
<1>3. \A c \in Ctrs : ctrDeps[c] = Abs!Dependents(c)
  <2> SUFFICES ASSUME NEW c \in Ctrs PROVE ctrDeps[c] = Abs!Dependents(c)
    BY Zenon
  <2>1. Abs!Dependents(c) = {d \in Ctrs : ctr[d] # Nil /\ c \in ctr[d].deps}
    BY Zenon, <1>2 DEF Abs!Dependents
  <2>2. ctrDeps[c] \subseteq Ctrs
    BY Zenon, <1>1 DEF BoltTypes
  <2> QED
    BY Zenon, <1>1, <2>1, <2>2 DEF DepBuckets
<1>4. \A c \in Ctrs : ctrExec[c] = Abs!SessionsOf(c)
  <2> SUFFICES ASSUME NEW c \in Ctrs PROVE ctrExec[c] = Abs!SessionsOf(c)
    BY Zenon
  <2>1. ctrExec[c] \subseteq Sessions
    BY Zenon, <1>1 DEF BoltTypes
  <2> QED
    BY Zenon, <1>1, <2>1 DEF ExecBuckets, Abs!SessionsOf
<1>5. \A p \in Pods : InPod(p) = Abs!Members(p)
  <2> SUFFICES ASSUME NEW p \in Pods PROVE InPod(p) = Abs!Members(p)
    BY Zenon
  <2>1. Abs!Members(p) = {c \in Ctrs : ctr[c] # Nil /\ ctr[c].pod = p}
    BY Zenon, <1>2 DEF Abs!Members
  <2>2. InPod(p) \subseteq Ctrs
    BY Zenon DEF InPod
  <2> QED
    BY Zenon, <2>1, <2>2, InPodFacts
<1>6. \A v \in Vols : Abs!Users(v) \subseteq VolumeInUse(v)
  <2> SUFFICES ASSUME NEW v \in Vols PROVE Abs!Users(v) \subseteq VolumeInUse(v)
    BY Zenon
  <2>1. Abs!Users(v) = {c \in Ctrs : ctr[c] # Nil /\ v \in ctr[c].vols}
    BY Zenon, <1>2 DEF Abs!Users
  <2> QED
    BY Zenon, <1>1, <2>1 DEF VolBuckets, VolumeInUse
<1>7. ASSUME NEW n \in Names
      PROVE  /\ names[n] \in Ctrs <=> Abs!NameTaken(n)
             /\ names[n] \in Pods <=> Abs!PodNamed(n)
             /\ names[n] \in Ctrs \cup Pods \cup {Nil}
  <2>1. /\ names[n] \in IDs \cup {Nil} /\ n # Nil /\ Ctrs \subseteq IDs /\ Pods \subseteq IDs
        /\ \A i \in IDs : names[n] = i <=> ids[i] = n
    BY Zenon, <1>1, DatabaseAssumption DEF BoltTypes, NameIds, IDs
  <2>2. Abs!NameTaken(n) <=> \E c \in Ctrs : ctr[c] # Nil /\ ctr[c].name = n
    BY Zenon, <1>2 DEF Abs!NameTaken
  <2>3. \A c \in Ctrs : ids[c] = n <=> ctr[c] # Nil /\ ctr[c].name = n
    BY Zenon, <1>1, <2>1 DEF IdNames
  <2>4. names[n] \in Ctrs <=> Abs!NameTaken(n)
    BY Zenon, <2>1, <2>2, <2>3
  <2>5. names[n] \in Pods <=> Abs!PodNamed(n)
    BY Zenon, <1>1, <2>1 DEF IdNames, Abs!PodNamed
  <2> QED
    BY Zenon, <2>1, <2>4, <2>5 DEF IDs
<1>8. \A p \in Pods : p \in podBkt <=> allPods[p] # Nil
  BY Zenon, <1>1 DEF IdNames
<1> QED
  BY Zenon, <1>3, <1>4, <1>5, <1>6, <1>7, <1>8

\* The answers of the readers.
LEMMA BoltReadsAgree == BoltInv => ReadsAgree
<1> SUFFICES ASSUME BoltInv PROVE ReadsAgree
  BY Zenon
<1>1. BoltTypes /\ IdNames /\ NameIds
  BY Zenon DEF BoltInv
<1>2. /\ Nil \notin Ctrs /\ Nil \notin Names /\ Ctrs \subseteq IDs
      /\ \A c \in Ctrs : /\ Abs!Has(c) <=> ctr[c] # Nil
                         /\ ctr[c] # Nil => Config(c).name = ctr[c].name /\ ctr[c].name \in Names
                         /\ ids[c] = IF ctr[c] = Nil THEN Nil ELSE ctr[c].name
                         /\ allCtrs[c] = IF ctr[c] = Nil THEN Nil ELSE ctr[c].name
  <2>1. Nil \notin Ctrs /\ Nil \notin Names /\ Ctrs \subseteq IDs
    BY Zenon, DatabaseAssumption DEF IDs
  <2>2. ASSUME NEW c \in Ctrs
        PROVE  /\ Abs!Has(c) <=> ctr[c] # Nil
               /\ ctr[c] # Nil => Config(c).name = ctr[c].name
    BY Zenon, <1>1, ConfigFacts
  <2> QED
    BY Zenon, <2>1, <2>2, CtrFacts
<1>3. ASSUME NEW n \in Names, NEW c \in Ctrs
      PROVE  LookupContainerID(n) = c <=> Abs!Has(c) /\ Config(c).name = n
  <2>1. names[n] = c <=> ids[c] = n
    BY Zenon, <1>1, <1>2 DEF NameIds
  <2> QED
    BY Zenon, <1>2, <2>1 DEF LookupContainerID
<1>4. ASSUME NEW c \in Ctrs
      PROVE  GetContainerName(c) = IF Abs!Has(c) THEN Config(c).name ELSE Nil
  BY Zenon, <1>2 DEF GetContainerName
<1>5. AllContainers = {c \in Ctrs : Abs!Has(c)}
  BY Zenon, <1>2 DEF AllContainers
<1> QED
  BY Zenon, <1>3, <1>4, <1>5, BoltReads DEF ReadsAgree

\* The checks of the methods amount to the conditions of state.go, with one name for
\* containers and pods.
LEMMA BoltAccepts == BoltInv => AcceptsAsStateSays
<1> SUFFICES ASSUME BoltInv PROVE AcceptsAsStateSays
  BY Zenon
<1>1. BoltTypes /\ IdNames /\ NameIds /\ PodBuckets /\ DepBuckets
  BY Zenon DEF BoltInv
<1>2. /\ Nil \notin Ctrs \cup Pods /\ Nil \notin Names /\ Ctrs \cap Pods = {}
      /\ \A c \in Ctrs : /\ Abs!Has(c) <=> ctr[c] # Nil
                         /\ ids[c] = Nil <=> ctr[c] = Nil
                         /\ ctr[c] # Nil => /\ Config(c).name = ctr[c].name
                                            /\ Config(c).pod = ctr[c].pod
                                            /\ ctr[c].name \in Names /\ names[ctr[c].name] = c
                                            /\ ctr[c].pod \in Pods \cup {Nil}
      /\ \A p \in Pods : ids[p] = Nil <=> allPods[p] = Nil
  <2>1. Nil \notin Ctrs \cup Pods /\ Nil \notin Names /\ Ctrs \cap Pods = {}
    BY Zenon, DatabaseAssumption
  <2>2. ASSUME NEW c \in Ctrs
        PROVE  /\ Abs!Has(c) <=> ctr[c] # Nil
               /\ ctr[c] # Nil => Config(c).name = ctr[c].name /\ Config(c).pod = ctr[c].pod
    BY Zenon, <1>1, ConfigFacts
  <2>3. \A p \in Pods : ids[p] = Nil <=> allPods[p] = Nil
    BY Zenon, PodFacts
  <2> QED
    BY Zenon, <2>1, <2>2, <2>3, CtrFacts
<1>3. \A n \in Names : names[n] = Nil <=> ~Abs!NameTaken(n) /\ ~Abs!PodNamed(n)
  BY Zenon, <1>2, BoltReads
<1>4. ASSUME NEW c \in Ctrs, NEW k \in ConfigsOf[c]
      PROVE  AddContainerAccepted(c, k) <=> Abs!AddContainerOK(c, k) /\ ~Abs!PodNamed(k.name)
  <2>1. k.name \in Names /\ k.pod \in Pods \cup {Nil} /\ k.deps \subseteq Ctrs
    BY Zenon, CreatedFacts, DatabaseAssumption
  <2>2. k.pod # Nil => (k.pod \in podBkt <=> allPods[k.pod] # Nil)
    BY Zenon, <2>1, BoltReads
  <2>3. Abs!AddContainerOK(c, k) <=>
           /\ ctr[c] = Nil /\ ~Abs!NameTaken(k.name)
           /\ k.pod # Nil => allPods[k.pod] # Nil
           /\ \A d \in k.deps : ctr[d] # Nil /\ ctr[d].pod = k.pod
           /\ k.vols \subseteq allVols
    BY Zenon, <1>2, <2>1 DEF Abs!AddContainerOK
  <2> QED
    BY Zenon, <1>2, <1>3, <2>1, <2>2, <2>3 DEF AddContainerAccepted
<1>5. ASSUME NEW c \in Ctrs PROVE RemoveContainerAccepted(c) <=> Abs!RemoveContainerOK(c)
  <2>1. Abs!RemoveContainerOK(c) <=> ctr[c] # Nil /\ ctrDeps[c] = {} /\ ctrExec[c] = {}
    BY Zenon, <1>2, BoltReads DEF Abs!RemoveContainerOK
  <2>2. ctr[c] # Nil /\ ctr[c].pod # Nil => ctr[c].pod \in podBkt /\ podCtrs[ctr[c].pod][c] # Nil
    <3>1. SUFFICES ASSUME ctr[c] # Nil, ctr[c].pod # Nil
                   PROVE  ctr[c].pod \in podBkt /\ podCtrs[ctr[c].pod][c] # Nil
      BY Zenon
    <3>2. ctr[c].pod \in podBkt /\ ctr[c].pod \in Pods /\ ctr[c].name # Nil
      BY Zenon, <1>1, <1>2, <3>1 DEF PodBuckets
    <3> QED
      BY Zenon, <1>1, <3>1, <3>2 DEF PodBuckets
  <2> QED
    BY Zenon, <2>1, <2>2 DEF RemoveContainerAccepted
<1>6. ASSUME NEW c \in Ctrs, NEW n \in Names
      PROVE  RenameAccepted(c, n) <=> Abs!RenameOK(c, n) /\ ~Abs!PodNamed(n)
  <2>1. Abs!RenameOK(c, n) <=> ctr[c] # Nil /\ (ctr[c].name = n \/ ~Abs!NameTaken(n))
    BY Zenon, <1>2 DEF Abs!RenameOK
  <2>2. ctr[c] # Nil /\ ctr[c].pod # Nil => ctr[c].pod \in podBkt
    BY Zenon, <1>1 DEF PodBuckets
  <2>3. ctr[c] # Nil => (names[n] = c <=> ctr[c].name = n)
    <3>1. names[n] = c <=> ids[c] = n
      BY Zenon, <1>1 DEF NameIds, IDs
    <3> QED
      BY Zenon, <3>1, CtrFacts
  <2>4. names[n] = c => ~Abs!PodNamed(n)
    BY Zenon, <1>2, BoltReads
  <2> QED
    BY Zenon, <1>3, <2>1, <2>2, <2>3, <2>4 DEF RenameAccepted
<1>7. ASSUME NEW p \in Pods
      PROVE  /\ \A n \in Names : AddPodAccepted(p, n) <=> Abs!AddPodOK(p, n) /\ ~Abs!NameTaken(n)
             /\ RemovePodAccepted(p) <=> Abs!RemovePodOK(p)
             /\ RemovePodContainersAccepted(p) <=> allPods[p] # Nil
  <2>1. \A n \in Names : AddPodAccepted(p, n) <=> Abs!AddPodOK(p, n) /\ ~Abs!NameTaken(n)
    BY Zenon, <1>2, <1>3 DEF AddPodAccepted, Abs!AddPodOK
  <2>2. RemovePodAccepted(p) <=> Abs!RemovePodOK(p)
    BY Zenon, BoltReads DEF RemovePodAccepted, Abs!RemovePodOK
  <2>3. \A c \in Ctrs : c \in InPod(p) <=> ctr[c] # Nil /\ ctr[c].pod = p
    BY Zenon, InPodFacts
  <2>4. \A c \in InPod(p) : ctr[c] # Nil /\ ctrDeps[c] \subseteq InPod(p)
    <3> SUFFICES ASSUME NEW c \in InPod(p), NEW d \in ctrDeps[c] PROVE d \in InPod(p)
      BY Zenon, <2>3 DEF InPod
    <3>1. c \in Ctrs /\ d \in Ctrs
      BY Zenon, <1>1 DEF InPod, BoltTypes
    <3>2. ctr[d] # Nil /\ ctr[d].pod = p
      BY <1>1, <2>3, <3>1 DEF DepBuckets
    <3> QED
      BY Zenon, <2>3, <3>1, <3>2
  <2>5. RemovePodContainersAccepted(p) <=> allPods[p] # Nil
    BY Zenon, <2>4, BoltReads DEF RemovePodContainersAccepted
  <2> QED
    BY Zenon, <2>1, <2>2, <2>5
<1>8. \A v \in Vols : RemoveVolumeAccepted(v) => Abs!RemoveVolumeOK(v)
  BY Zenon, BoltReads DEF RemoveVolumeAccepted, Abs!RemoveVolumeOK
<1> QED
  BY Zenon, <1>4, <1>5, <1>6, <1>7, <1>8 DEF AcceptsAsStateSays

---------------------------------------------------------------------------
\* Every step of the buckets is the call of state.go or changes nothing of what it is about.
BoltDoes == Abs!StateNext \/ UNCHANGED Abs!stateVars

\* A container whose bucket is left alone.
LEMMA SameConfig ==
    ASSUME NEW c \in Ctrs, ctr'[c] = ctr[c], ctrNets'[c] = ctrNets[c]
    PROVE  Config(c)' = Config(c)
  BY Zenon DEF Config

\* A step that writes no container's bucket.
LEMMA SameConfigs ==
    ASSUME UNCHANGED <<ctr, ctrNets>>
    PROVE  [c \in Ctrs |-> Config(c)]' = [c \in Ctrs |-> Config(c)]
<1>1. \A c \in Ctrs : Config(c)' = Config(c)
  BY Zenon, SameConfig
<1> QED
  BY Zenon, <1>1

\* addContainer.
LEMMA BoltDoesAdd ==
    ASSUME BoltInv, NEW c \in Ctrs, NEW k \in ConfigsOf[c], AddContainer(c, k)
    PROVE  BoltDoes
<1>1. /\ ctr' = [ctr EXCEPT ![c] = [name |-> k.name, pod |-> k.pod, deps |-> k.deps, vols |-> k.vols]]
      /\ ctrNets' = [ctrNets EXCEPT ![c] = k.nets]
      /\ UNCHANGED <<allPods, allVols, exec, exitCodes>>
      /\ ctr \in [Ctrs -> Kept \cup {Nil}] /\ ctrNets \in [Ctrs -> SUBSET Nets]
  BY Zenon DEF AddContainer, BoltInv, BoltTypes
<1>2. k \in Created
  BY Zenon, DatabaseAssumption
<1>3. Config(c)' = k
  <2>1. /\ ctr'[c] = [name |-> k.name, pod |-> k.pod, deps |-> k.deps, vols |-> k.vols]
        /\ ctrNets'[c] = k.nets
    BY Zenon, <1>1
  <2>2. ctr'[c] \in Kept
    <3>1. /\ k.name \in Names /\ k.pod \in Pods \cup {Nil} /\ k.deps \in SUBSET Ctrs
          /\ k.vols \in SUBSET Vols
      BY Zenon, <1>2, CreatedFacts
    <3> QED
      BY <2>1, <3>1 DEF Kept
  <2>3. /\ ctr'[c] # Nil /\ ctr'[c].name = k.name /\ ctr'[c].pod = k.pod /\ ctr'[c].deps = k.deps
        /\ ctr'[c].vols = k.vols
    BY <2>1, <2>2, KeptFacts
  <2>4. Config(c)' = [name |-> k.name, pod |-> k.pod, deps |-> k.deps, vols |-> k.vols,
                      nets |-> k.nets]
    BY Zenon, <2>1, <2>3 DEF Config
  <2> QED
    BY Zenon, <1>2, <2>4 DEF Created
<1>4. \A d \in Ctrs \ {c} : Config(d)' = Config(d)
  BY Zenon, <1>1, SameConfig
<1>5. [d \in Ctrs |-> Config(d)]' = [[d \in Ctrs |-> Config(d)] EXCEPT ![c] = k]
  BY Zenon, <1>3, <1>4
<1>6. Abs!AddContainerOK(c, k)
  BY Zenon, BoltAccepts DEF AcceptsAsStateSays, AddContainer
<1>7. Abs!AddContainer(c, k)
  BY Zenon, <1>1, <1>5, <1>6 DEF Abs!AddContainer
<1> QED
  BY Zenon, <1>7 DEF BoltDoes, Abs!StateNext

\* removeContainer.
LEMMA BoltDoesRemove ==
    ASSUME BoltInv, NEW c \in Ctrs, RemoveContainer(c)
    PROVE  BoltDoes
<1>1. /\ ctr' = [ctr EXCEPT ![c] = Nil] /\ ctrNets' = [ctrNets EXCEPT ![c] = {}]
      /\ UNCHANGED <<allPods, allVols, exec, exitCodes>>
      /\ ctr \in [Ctrs -> Kept \cup {Nil}] /\ ctrNets \in [Ctrs -> SUBSET Nets]
  BY Zenon DEF RemoveContainer, BoltInv, BoltTypes
<1>2. Config(c)' = Nil
  BY Zenon, <1>1 DEF Config
<1>3. \A d \in Ctrs \ {c} : Config(d)' = Config(d)
  BY Zenon, <1>1, SameConfig
<1>4. [d \in Ctrs |-> Config(d)]' = [[d \in Ctrs |-> Config(d)] EXCEPT ![c] = Nil]
  BY Zenon, <1>2, <1>3
<1>5. Abs!RemoveContainerOK(c)
  BY Zenon, BoltAccepts DEF AcceptsAsStateSays, RemoveContainer
<1>6. Abs!RemoveContainer(c)
  BY Zenon, <1>1, <1>4, <1>5 DEF Abs!RemoveContainer
<1> QED
  BY Zenon, <1>6 DEF BoltDoes, Abs!StateNext

\* RenameContainer.
LEMMA BoltDoesRename ==
    ASSUME BoltInv, NEW c \in Ctrs, NEW n \in Names, SafeRewriteContainerConfig(c, n)
    PROVE  BoltDoes
<1>1. /\ ctr[c] # Nil /\ ctr' = [ctr EXCEPT ![c].name = n]
      /\ UNCHANGED <<ctrNets, allPods, allVols, exec, exitCodes>>
      /\ ctr \in [Ctrs -> Kept \cup {Nil}] /\ BoltTypes
  BY Zenon DEF SafeRewriteContainerConfig, RenameAccepted, BoltInv, BoltTypes
<1> DEFINE k == ctr[c]
           r == [k EXCEPT !.name = n]
<1>2. k \in Kept
  BY Zenon, <1>1
<1>3. r \in Kept /\ r.name = n /\ r.pod = k.pod /\ r.deps = k.deps /\ r.vols = k.vols
  BY Zenon, <1>2 DEF Kept
<1>4. ctr'[c] = r /\ r # Nil /\ \A d \in Ctrs \ {c} : ctr'[d] = ctr[d]
  BY Zenon, <1>1, <1>3, KeptFacts
<1> HIDE DEF r
<1>5. Config(c)' = [name |-> n, pod |-> k.pod, deps |-> k.deps, vols |-> k.vols, nets |-> ctrNets[c]]
  BY Zenon, <1>1, <1>3, <1>4 DEF Config
<1>6. Config(c) = [name |-> k.name, pod |-> k.pod, deps |-> k.deps, vols |-> k.vols,
                   nets |-> ctrNets[c]]
  BY Zenon, <1>1 DEF Config
<1>7. Config(c)' = [Config(c) EXCEPT !.name = n]
  BY <1>5, <1>6
<1>8. \A d \in Ctrs \ {c} : Config(d)' = Config(d)
  BY Zenon, <1>1, <1>4, SameConfig
<1>9. [d \in Ctrs |-> Config(d)]' = [[d \in Ctrs |-> Config(d)] EXCEPT ![c].name = n]
  BY Zenon, <1>7, <1>8
<1>10. Abs!RenameOK(c, n)
  BY Zenon, BoltAccepts DEF AcceptsAsStateSays, SafeRewriteContainerConfig
<1>11. Abs!Rename(c, n)
  BY Zenon, <1>1, <1>9, <1>10 DEF Abs!Rename
<1> QED
  BY Zenon, <1>11 DEF BoltDoes, Abs!StateNext

\* NetworkConnect and NetworkDisconnect: the networks bucket is the list of state.go.
LEMMA BoltDoesNetworks ==
    ASSUME BoltInv, NEW c \in Ctrs, NEW net \in Nets,
           NetworkConnect(c, net) \/ NetworkDisconnect(c, net)
    PROVE  BoltDoes
<1> DEFINE nets == ctrNets'[c]
<1>1. /\ ctr[c] # Nil /\ UNCHANGED <<ctr, allPods, allVols, exec, exitCodes>>
      /\ ctrNets \in [Ctrs -> SUBSET Nets] /\ BoltTypes
      /\ \A d \in Ctrs \ {c} : ctrNets'[d] = ctrNets[d]
  BY Zenon DEF NetworkConnect, NetworkDisconnect, Bridge, BoltInv, BoltTypes
<1>2. /\ Config(c)' = [name |-> ctr[c].name, pod |-> ctr[c].pod, deps |-> ctr[c].deps,
                       vols |-> ctr[c].vols, nets |-> nets]
      /\ Config(c) = [name |-> ctr[c].name, pod |-> ctr[c].pod, deps |-> ctr[c].deps,
                      vols |-> ctr[c].vols, nets |-> ctrNets[c]]
  BY Zenon, <1>1 DEF Config
<1>3. Config(c)' = [Config(c) EXCEPT !.nets = nets]
  BY <1>2
<1>4. \A d \in Ctrs \ {c} : Config(d)' = Config(d)
  BY Zenon, <1>1, SameConfig
<1>5. [d \in Ctrs |-> Config(d)]' = [[d \in Ctrs |-> Config(d)] EXCEPT ![c].nets = nets]
  BY Zenon, <1>3, <1>4
<1>6. Abs!Has(c) /\ Config(c).nets = ctrNets[c]
  BY Zenon, <1>1, ConfigFacts
<1>7. CASE NetworkConnect(c, net)
  <2>1. net \notin ctrNets[c] /\ nets = ctrNets[c] \cup {net}
    BY Zenon, <1>1, <1>7 DEF NetworkConnect
  <2>2. Abs!NetworkConnect(c, net)
    BY Zenon, <1>1, <1>5, <1>6, <2>1 DEF Abs!NetworkConnect, Abs!NetworkConnectOK
  <2> QED
    BY Zenon, <2>2 DEF BoltDoes, Abs!StateNext
<1>8. CASE NetworkDisconnect(c, net)
  <2>1. net \in ctrNets[c] /\ nets = ctrNets[c] \ {net}
    BY Zenon, <1>1, <1>8 DEF NetworkDisconnect
  <2>2. Abs!NetworkDisconnect(c, net)
    BY Zenon, <1>1, <1>5, <1>6, <2>1 DEF Abs!NetworkDisconnect, Abs!NetworkDisconnectOK
  <2> QED
    BY Zenon, <2>2 DEF BoltDoes, Abs!StateNext
<1> QED
  BY Zenon, <1>7, <1>8

\* RemovePodContainers.
LEMMA BoltDoesEmptyPod ==
    ASSUME BoltInv, NEW p \in Pods, RemovePodContainers(p)
    PROVE  BoltDoes
<1> DEFINE gone == InPod(p)
<1>1. /\ p \in podBkt /\ UNCHANGED <<allPods, allVols, exec, exitCodes>>
      /\ ctr' = [c \in Ctrs |-> IF c \in gone THEN Nil ELSE ctr[c]]
      /\ ctrNets' = [c \in Ctrs |-> IF c \in gone THEN {} ELSE ctrNets[c]]
  BY Zenon DEF RemovePodContainers, RemovePodContainersAccepted
<1>2. gone = Abs!Members(p) /\ allPods[p] # Nil
  BY Zenon, <1>1, BoltReads
<1> HIDE DEF gone
<1>3. ASSUME NEW c \in Ctrs PROVE Config(c)' = IF c \in gone THEN Nil ELSE Config(c)
  <2>1. CASE c \in gone
    BY Zenon, <1>1, <2>1 DEF Config
  <2>2. CASE c \notin gone
    BY Zenon, <1>1, <2>2, SameConfig
  <2> QED
    BY Zenon, <2>1, <2>2
<1>4. [c \in Ctrs |-> Config(c)]' =
         [c \in Ctrs |-> IF c \in gone THEN Nil ELSE [d \in Ctrs |-> Config(d)][c]]
  BY Zenon, <1>3
<1>5. Abs!RemovePodContainers(p)
  BY Zenon, <1>1, <1>2, <1>4 DEF Abs!RemovePodContainers
<1> QED
  BY Zenon, <1>5 DEF BoltDoes, Abs!StateNext

\* The calls about pods, volumes, exec sessions and exit codes, and the reading of a
\* container.
LEMMA BoltDoesRest ==
    ASSUME BoltInv,
           \/ \E c \in Ctrs : \/ Load(c) \/ RemoveContainerExecSessions(c) \/ AddContainerExitCode(c)
                              \/ \E s \in Sessions : AddExecSession(c, s)
           \/ \E p \in Pods : (\E n \in Names : AddPod(p, n)) \/ RemovePod(p)
           \/ \E v \in Vols : AddVolume(v) \/ RemoveVolume(v)
           \/ \E s \in Sessions : RemoveExecSession(s)
           \/ PruneContainerExitCodes \/ Refresh
    PROVE  BoltDoes
<1>1. [c \in Ctrs |-> Config(c)]' = [c \in Ctrs |-> Config(c)]
  <2>1. UNCHANGED <<ctr, ctrNets>>
    BY Zenon DEF Load, RemoveContainerExecSessions, AddContainerExitCode, AddExecSession, AddPod, RemovePod,
           AddVolume, RemoveVolume, RemoveExecSession, PruneContainerExitCodes, Refresh
  <2> QED
    BY Zenon, <2>1, SameConfigs
<1>2. \A c \in Ctrs : Abs!Has(c) <=> ctr[c] # Nil
  BY Zenon, ConfigFacts DEF BoltInv
<1>3. ASSUME NEW c \in Ctrs, Load(c) PROVE BoltDoes
  BY Zenon, <1>1, <1>3 DEF Load, BoltDoes, Abs!stateVars
<1>4. ASSUME NEW c \in Ctrs, RemoveContainerExecSessions(c) PROVE BoltDoes
  <2>1. exec' = [s \in Sessions |-> IF exec[s] = c THEN Nil ELSE exec[s]]
    BY Zenon, <1>4 DEF RemoveContainerExecSessions, BoltInv, ExecBuckets
  <2>2. Abs!RemoveContainerExecSessions(c)
    BY Zenon, <1>1, <1>4, <2>1 DEF RemoveContainerExecSessions, Abs!RemoveContainerExecSessions
  <2> QED
    BY Zenon, <2>2 DEF BoltDoes, Abs!StateNext
<1>5. ASSUME NEW c \in Ctrs, AddContainerExitCode(c) PROVE BoltDoes
  <2>1. Abs!AddContainerExitCode(c)
    BY Zenon, <1>1, <1>5 DEF AddContainerExitCode, Abs!AddContainerExitCode
  <2> QED
    BY Zenon, <2>1 DEF BoltDoes, Abs!StateNext
<1>6. ASSUME NEW c \in Ctrs, NEW s \in Sessions, AddExecSession(c, s) PROVE BoltDoes
  <2>1. Abs!AddExecSession(c, s)
    BY Zenon, <1>1, <1>2, <1>6 DEF AddExecSession, Abs!AddExecSession
  <2> QED
    BY Zenon, <2>1 DEF BoltDoes, Abs!StateNext
<1>7. ASSUME NEW p \in Pods, NEW n \in Names, AddPod(p, n) PROVE BoltDoes
  <2>1. Abs!AddPodOK(p, n)
    BY Zenon, <1>7, BoltAccepts DEF AcceptsAsStateSays, AddPod
  <2>2. Abs!AddPod(p, n)
    BY Zenon, <1>1, <1>7, <2>1 DEF AddPod, Abs!AddPod
  <2> QED
    BY Zenon, <2>2 DEF BoltDoes, Abs!StateNext
<1>8. ASSUME NEW p \in Pods, RemovePod(p) PROVE BoltDoes
  <2>1. Abs!RemovePodOK(p)
    BY Zenon, <1>8, BoltAccepts DEF AcceptsAsStateSays, RemovePod
  <2>2. Abs!RemovePod(p)
    BY Zenon, <1>1, <1>8, <2>1 DEF RemovePod, Abs!RemovePod
  <2> QED
    BY Zenon, <2>2 DEF BoltDoes, Abs!StateNext
<1>9. ASSUME NEW v \in Vols, AddVolume(v) PROVE BoltDoes
  <2>1. Abs!AddVolume(v)
    BY Zenon, <1>1, <1>9 DEF AddVolume, Abs!AddVolume
  <2> QED
    BY Zenon, <2>1 DEF BoltDoes, Abs!StateNext
<1>10. ASSUME NEW v \in Vols, RemoveVolume(v) PROVE BoltDoes
  <2>1. Abs!RemoveVolumeOK(v)
    BY Zenon, <1>10, BoltAccepts DEF AcceptsAsStateSays, RemoveVolume
  <2>2. Abs!RemoveVolume(v)
    BY Zenon, <1>1, <1>10, <2>1 DEF RemoveVolume, Abs!RemoveVolume
  <2> QED
    BY Zenon, <2>2 DEF BoltDoes, Abs!StateNext
<1>11. ASSUME NEW s \in Sessions, RemoveExecSession(s) PROVE BoltDoes
  <2>1. Abs!RemoveExecSession(s)
    BY Zenon, <1>1, <1>11 DEF RemoveExecSession, Abs!RemoveExecSession
  <2> QED
    BY Zenon, <2>1 DEF BoltDoes, Abs!StateNext
<1>12. ASSUME PruneContainerExitCodes PROVE BoltDoes
  <2>1. PICK old \in SUBSET exitCodes : exitCodes' = exitCodes \ {c \in old : ctr[c] = Nil}
    BY Zenon, <1>12 DEF PruneContainerExitCodes
  <2>2. \A c \in exitCodes \ exitCodes' : ctr[c] = Nil
    BY Zenon, <2>1
  <2>3. \A c \in exitCodes \ exitCodes' : ~Abs!Has(c)
    BY Zenon, <1>2, <2>2 DEF BoltInv, BoltTypes
  <2>4. Abs!PruneContainerExitCodes
    BY Zenon, <1>1, <1>12, <2>1, <2>3 DEF PruneContainerExitCodes, Abs!PruneContainerExitCodes
  <2> QED
    BY Zenon, <2>4 DEF BoltDoes, Abs!StateNext
<1>13. ASSUME Refresh PROVE BoltDoes
  <2>1. Abs!Refresh
    BY Zenon, <1>1, <1>13 DEF Refresh, Abs!Refresh
  <2> QED
    BY Zenon, <2>1 DEF BoltDoes, Abs!StateNext
<1> QED
  BY Zenon, <1>3, <1>4, <1>5, <1>6, <1>7, <1>8, <1>9, <1>10, <1>11, <1>12, <1>13

\* Every call of BoltState is the call of state.go.
LEMMA BoltDoesState == BoltInv /\ ~StaleCopies /\ BoltNext => BoltDoes
<1> SUFFICES ASSUME BoltInv, ~StaleCopies, BoltNext PROVE BoltDoes
  BY Zenon
<1>1. ASSUME NEW c \in Ctrs, NEW k \in ConfigsOf[c], AddContainer(c, k) PROVE BoltDoes
  BY Zenon, <1>1, BoltDoesAdd
<1>2. ASSUME NEW c \in Ctrs, RemoveContainer(c) PROVE BoltDoes
  BY Zenon, <1>2, BoltDoesRemove
<1>3. ASSUME NEW c \in Ctrs, Update(c) PROVE BoltDoes
  <2>1. UNCHANGED boltVars
    BY Zenon, <1>3, BoltUpdates
  <2>2. [d \in Ctrs |-> Config(d)]' = [d \in Ctrs |-> Config(d)]
    BY Zenon, <2>1, SameConfigs DEF boltVars
  <2> QED
    BY Zenon, <2>1, <2>2 DEF boltVars, BoltDoes, Abs!stateVars
<1>4. ASSUME NEW c \in Ctrs, NEW n \in Names, SafeRewriteContainerConfig(c, n) PROVE BoltDoes
  BY Zenon, <1>4, BoltDoesRename
<1>5. ASSUME NEW c \in Ctrs, NEW net \in Nets, NetworkConnect(c, net) \/ NetworkDisconnect(c, net)
      PROVE  BoltDoes
  BY Zenon, <1>5, BoltDoesNetworks
<1>6. ASSUME NEW p \in Pods, RemovePodContainers(p) PROVE BoltDoes
  BY Zenon, <1>6, BoltDoesEmptyPod
<1> QED
  BY Zenon, <1>1, <1>2, <1>3, <1>4, <1>5, <1>6, BoltDoesRest DEF BoltNext

---------------------------------------------------------------------------
\* The buckets of BoltState stay in step, as long as no process writes or removes with
\* a name it read before another one renamed the container.
THEOREM BoltInductive ==
    ASSUME ~StaleCopies
    PROVE  DatabaseSpec => []BoltInv
<1>1. DatabaseInit => BoltInv
  BY Zenon, BoltInitInv DEF DatabaseInit
<1>2. BoltInv /\ [DatabaseNext]_<<backend, boltVars, tables>> => BoltInv'
  <2> SUFFICES ASSUME BoltInv, [DatabaseNext]_<<backend, boltVars, tables>> PROVE BoltInv'
    BY Zenon
  <2>1. CASE BoltNext
    BY Zenon, <2>1, BoltStep
  <2>2. CASE UNCHANGED boltVars
    <3>1. /\ mem' \in [Ctrs -> Names \cup {Nil}] /\ ctrNets' \in [Ctrs -> SUBSET Nets]
          /\ exitCodes' \subseteq Ctrs
      BY Zenon, <2>2 DEF BoltInv, BoltTypes, boltVars
    <3> QED
      BY Zenon, <2>2, <3>1, BoltSame DEF boltVars
  <2> QED
    BY Zenon, <2>1, <2>2 DEF DatabaseNext
<1> QED
  BY <1>1, <1>2, PTL DEF DatabaseSpec

\* The registries, the lists and the dependency buckets of BoltState answer as the
\* containers' own configs would.
THEOREM BoltAnswers ==
    ASSUME ~StaleCopies
    PROVE  DatabaseSpec => []ReadsAgree
  BY BoltInductive, BoltReadsAgree, PTL

\* BoltState accepts a call exactly when state.go lets it succeed.
THEOREM BoltDecidesAsStateSays ==
    ASSUME ~StaleCopies
    PROVE  DatabaseSpec => []AcceptsAsStateSays
  BY BoltInductive, BoltAccepts, PTL

\* Every call of BoltState does what state.go says of it, to all the buckets it concerns.
THEOREM BoltKeepsItsContract ==
    ASSUME ~StaleCopies
    PROVE  DatabaseSpec => ImplementsState
<1>1. DatabaseInit => Abs!StateInit
  BY Zenon DEF DatabaseInit, BoltInit, Abs!StateInit, Config
<1>2. BoltInv /\ [DatabaseNext]_<<backend, boltVars, tables>> => [Abs!StateNext]_(Abs!stateVars)
  <2> SUFFICES ASSUME BoltInv, [DatabaseNext]_<<backend, boltVars, tables>>
               PROVE  [Abs!StateNext]_(Abs!stateVars)
    BY Zenon
  <2>1. CASE BoltNext
    BY Zenon, <2>1, BoltDoesState DEF BoltDoes
  <2>2. CASE UNCHANGED boltVars
    <3>1. [c \in Ctrs |-> Config(c)]' = [c \in Ctrs |-> Config(c)]
      BY Zenon, <2>2, SameConfigs DEF boltVars
    <3> QED
      BY Zenon, <2>2, <3>1 DEF boltVars, Abs!stateVars
  <2> QED
    BY Zenon, <2>1, <2>2 DEF DatabaseNext
<1> QED
  BY <1>1, <1>2, BoltInductive, PTL DEF DatabaseSpec, ImplementsState, Abs!StateSpec

---------------------------------------------------------------------------
(* SqliteState: the rows that repeat what the JSON says *)

SqliteTypes ==
    /\ ContainerConfig \in [Ctrs -> Created \cup {Nil}]
    /\ PodConfig \in [Pods -> Names \cup {Nil}]
    /\ ContainerExecSession \in [Sessions -> Ctrs \cup {Nil}]
    /\ ContainerDependency \subseteq Ctrs \X Ctrs /\ ContainerVolume \subseteq Ctrs \X Vols
    /\ VolumeConfig \subseteq Vols
    /\ copy \in [Ctrs -> Copies \cup {Nil}]

\* The foreign keys, and the rows that repeat what a container's JSON says.
IdRows ==
    /\ IDNamespace = {c \in Ctrs : ContainerConfig[c] # Nil} \cup {p \in Pods : PodConfig[p] # Nil}
    /\ ContainerStateRows = {c \in Ctrs : ContainerConfig[c] # Nil}
    /\ PodStateRows = {p \in Pods : PodConfig[p] # Nil}
    /\ VolumeStateRows = VolumeConfig

InItsPod == \A c \in Ctrs : ContainerConfig[c] # Nil /\ ContainerConfig[c].pod # Nil =>
                               PodConfig[ContainerConfig[c].pod] # Nil

DepRows == \A c, d \in Ctrs :
    /\ <<c, d>> \in ContainerDependency <=> ContainerConfig[c] # Nil /\ d \in ContainerConfig[c].deps
    /\ <<c, d>> \in ContainerDependency => ContainerConfig[d] # Nil

VolRows == \A c \in Ctrs, v \in Vols :
    /\ <<c, v>> \in ContainerVolume <=> ContainerConfig[c] # Nil /\ v \in ContainerConfig[c].vols
    /\ <<c, v>> \in ContainerVolume => v \in VolumeConfig

ExecRows == \A s \in Sessions : ContainerExecSession[s] # Nil =>
                                   ContainerConfig[ContainerExecSession[s]] # Nil

Keys == IdRows /\ InItsPod /\ DepRows /\ VolRows /\ ExecRows

SqliteInv == SqliteTypes /\ Keys

---------------------------------------------------------------------------
\* A pair of rows is a pair of what the rows name.
LEMMA PairFacts ==
    ASSUME NEW A, NEW B, NEW S, S \subseteq A \X B
    PROVE  /\ \A r \in S : r[1] \in A /\ r[2] \in B /\ r = <<r[1], r[2]>>
           /\ \A a \in A : {r[2] : r \in {q \in S : q[1] = a}} = {b \in B : <<a, b>> \in S}
<1>1. \A r \in S : r[1] \in A /\ r[2] \in B /\ r = <<r[1], r[2]>>
  OBVIOUS
<1>2. ASSUME NEW a \in A PROVE {r[2] : r \in {q \in S : q[1] = a}} = {b \in B : <<a, b>> \in S}
  <2>1. ASSUME NEW r \in S, r[1] = a PROVE r[2] \in B /\ <<a, r[2]>> \in S
    BY Zenon, <1>1, <2>1
  <2>2. ASSUME NEW b \in B, <<a, b>> \in S PROVE \E r \in S : r[1] = a /\ r[2] = b
    BY Zenon, <2>2
  <2> QED
    BY Zenon, <2>1, <2>2
<1> QED
  BY Zenon, <1>1, <1>2

\* Nothing is there at first.
LEMMA SqliteInitInv == Sqlite!SqliteInit => SqliteInv
<1> SUFFICES ASSUME Sqlite!SqliteInit PROVE SqliteInv
  BY Zenon
<1>1. SqliteTypes
  BY Zenon DEF Sqlite!SqliteInit, SqliteTypes
<1>2. IdRows
  BY Zenon DEF Sqlite!SqliteInit, IdRows
<1>3. InItsPod /\ DepRows /\ VolRows /\ ExecRows
  BY Zenon DEF Sqlite!SqliteInit, InItsPod, DepRows, VolRows, ExecRows
<1> QED
  BY Zenon, <1>1, <1>2, <1>3 DEF SqliteInv, Keys

\* What a step that writes none of the tables with keys leaves.
LEMMA SqliteSame ==
    ASSUME SqliteInv, copy' \in [Ctrs -> Copies \cup {Nil}],
           UNCHANGED <<IDNamespace, ContainerConfig, ContainerStateRows, ContainerDependency,
                       ContainerVolume, PodConfig, PodStateRows, VolumeConfig, VolumeStateRows,
                       ContainerExecSession>>
    PROVE  SqliteInv'
  BY Zenon DEF SqliteInv, SqliteTypes, Keys, IdRows, InItsPod, DepRows, VolRows, ExecRows

\* addContainer inserts all rows of a container after it has looked for what they name.
LEMMA SqliteAdds ==
    ASSUME SqliteInv, NEW c \in Ctrs, NEW k \in ConfigsOf[c], Sqlite!AddContainer(c, k)
    PROVE  SqliteInv'
<1>1. /\ ContainerConfig \in [Ctrs -> Created \cup {Nil}] /\ PodConfig \in [Pods -> Names \cup {Nil}]
      /\ ContainerDependency \subseteq Ctrs \X Ctrs /\ ContainerVolume \subseteq Ctrs \X Vols
      /\ copy \in [Ctrs -> Copies \cup {Nil}] /\ IdRows /\ InItsPod /\ DepRows /\ VolRows /\ ExecRows
  BY Zenon DEF SqliteInv, SqliteTypes, Keys
<1>2. k \in Created
  BY Zenon, DatabaseAssumption
<1>3. /\ k # Nil /\ k.name \in Names /\ k.pod \in Pods \cup {Nil} /\ k.deps \subseteq Ctrs
      /\ k.vols \subseteq Vols /\ k.nets \subseteq Nets
  BY Zenon, <1>2, CreatedFacts
<1>4. /\ c \notin IDNamespace
      /\ k.pod # Nil => PodConfig[k.pod] # Nil
      /\ \A d \in k.deps : ContainerConfig[d] # Nil
      /\ k.vols \subseteq VolumeConfig
  BY Zenon DEF Sqlite!AddContainer, Sqlite!AddContainerAccepted, Sqlite!Row
<1>5. ContainerConfig[c] = Nil
  BY Zenon, <1>1, <1>4 DEF IdRows
<1>6. /\ ContainerConfig' = [ContainerConfig EXCEPT ![c] = k] /\ IDNamespace' = IDNamespace \cup {c}
      /\ ContainerStateRows' = ContainerStateRows \cup {c}
      /\ ContainerDependency' = ContainerDependency \cup ({c} \X k.deps)
      /\ ContainerVolume' = ContainerVolume \cup ({c} \X k.vols)
      /\ copy' = [copy EXCEPT ![c] = [name |-> k.name, nets |-> k.nets]]
      /\ UNCHANGED <<PodConfig, PodStateRows, VolumeConfig, VolumeStateRows, ContainerExecSession>>
  BY Zenon DEF Sqlite!AddContainer, Sqlite!podTables, Sqlite!volTables
<1>7. /\ ContainerConfig'[c] = k /\ \A d \in Ctrs \ {c} : ContainerConfig'[d] = ContainerConfig[d]
      /\ ContainerConfig' \in [Ctrs -> Created \cup {Nil}]
  BY Zenon, <1>1, <1>2, <1>6
<1>8. SqliteTypes'
  <2>1. [name |-> k.name, nets |-> k.nets] \in Copies
    BY Zenon, <1>2, CreatedFacts
  <2>2. copy' \in [Ctrs -> Copies \cup {Nil}]
    BY Zenon, <1>1, <1>6, <2>1
  <2>3. ContainerDependency' \subseteq Ctrs \X Ctrs /\ ContainerVolume' \subseteq Ctrs \X Vols
    BY Zenon, <1>1, <1>3, <1>6
  <2> QED
    BY Zenon, <1>6, <1>7, <2>2, <2>3 DEF SqliteInv, SqliteTypes
<1>9. IdRows'
  <2>1. {d \in Ctrs : ContainerConfig'[d] # Nil} = {d \in Ctrs : ContainerConfig[d] # Nil} \cup {c}
    BY Zenon, <1>3, <1>7
  <2>2. IDNamespace' = {d \in Ctrs : ContainerConfig'[d] # Nil} \cup {p \in Pods : PodConfig'[p] # Nil}
    BY Zenon, <1>1, <1>6, <2>1 DEF IdRows
  <2> QED
    BY Zenon, <1>1, <1>6, <2>1, <2>2 DEF IdRows
<1>10. InItsPod'
  BY Zenon, <1>1, <1>4, <1>6, <1>7 DEF InItsPod
<1>11. DepRows'
  <2> SUFFICES ASSUME NEW d \in Ctrs, NEW e \in Ctrs
               PROVE  /\ <<d, e>> \in ContainerDependency' <=>
                            ContainerConfig'[d] # Nil /\ e \in ContainerConfig'[d].deps
                      /\ <<d, e>> \in ContainerDependency' => ContainerConfig'[e] # Nil
    BY Zenon DEF DepRows
  <2>1. <<d, e>> \in ContainerDependency' <=>
           <<d, e>> \in ContainerDependency \/ (d = c /\ e \in k.deps)
    BY Zenon, <1>6
  <2>2. /\ <<d, e>> \in ContainerDependency <=>
              ContainerConfig[d] # Nil /\ e \in ContainerConfig[d].deps
        /\ <<d, e>> \in ContainerDependency => ContainerConfig[e] # Nil
    BY Zenon, <1>1 DEF DepRows
  <2>3. CASE d = c
    BY Zenon, <1>3, <1>4, <1>5, <1>7, <2>1, <2>2, <2>3
  <2>4. CASE d # c
    BY Zenon, <1>3, <1>7, <2>1, <2>2, <2>4
  <2> QED
    BY Zenon, <2>3, <2>4
<1>12. VolRows'
  <2> SUFFICES ASSUME NEW d \in Ctrs, NEW v \in Vols
               PROVE  /\ <<d, v>> \in ContainerVolume' <=>
                            ContainerConfig'[d] # Nil /\ v \in ContainerConfig'[d].vols
                      /\ <<d, v>> \in ContainerVolume' => v \in VolumeConfig'
    BY Zenon DEF VolRows
  <2>1. <<d, v>> \in ContainerVolume' <=> <<d, v>> \in ContainerVolume \/ (d = c /\ v \in k.vols)
    BY Zenon, <1>6
  <2>2. /\ <<d, v>> \in ContainerVolume <=>
              ContainerConfig[d] # Nil /\ v \in ContainerConfig[d].vols
        /\ <<d, v>> \in ContainerVolume => v \in VolumeConfig
    BY Zenon, <1>1 DEF VolRows
  <2>3. CASE d = c
    BY Zenon, <1>3, <1>4, <1>5, <1>6, <1>7, <2>1, <2>2, <2>3
  <2>4. CASE d # c
    BY Zenon, <1>6, <1>7, <2>1, <2>2, <2>4
  <2> QED
    BY Zenon, <2>3, <2>4
<1>13. ExecRows'
  <2> SUFFICES ASSUME NEW s \in Sessions, ContainerExecSession[s] # Nil
               PROVE  ContainerConfig'[ContainerExecSession[s]] # Nil
    BY Zenon, <1>6 DEF ExecRows
  <2>1. ContainerConfig[ContainerExecSession[s]] # Nil /\ ContainerExecSession[s] \in Ctrs
    BY Zenon, <1>1 DEF ExecRows, SqliteInv, SqliteTypes
  <2> QED
    BY Zenon, <1>3, <1>7, <2>1
<1> QED
  BY Zenon, <1>8, <1>9, <1>10, <1>11, <1>12, <1>13 DEF SqliteInv, Keys

\* removeContainerWithTx for some containers that nobody else needs and that have no
\* exec sessions.
LEMMA SqliteDrops ==
    ASSUME SqliteInv, NEW gone \in SUBSET Ctrs, Sqlite!DropContainers(gone),
           UNCHANGED <<PodConfig, PodStateRows, VolumeConfig, VolumeStateRows, ContainerExecSession>>,
           \A c \in gone, d \in Ctrs \ gone : <<d, c>> \notin ContainerDependency,
           \A s \in Sessions : ContainerExecSession[s] \notin gone
    PROVE  SqliteInv'
<1>1. /\ ContainerConfig \in [Ctrs -> Created \cup {Nil}]
      /\ ContainerDependency \subseteq Ctrs \X Ctrs /\ ContainerVolume \subseteq Ctrs \X Vols
      /\ copy \in [Ctrs -> Copies \cup {Nil}] /\ IdRows /\ InItsPod /\ DepRows /\ VolRows /\ ExecRows
  BY Zenon DEF SqliteInv, SqliteTypes, Keys
<1>2. /\ IDNamespace' = IDNamespace \ gone
      /\ ContainerConfig' = [c \in Ctrs |-> IF c \in gone THEN Nil ELSE ContainerConfig[c]]
      /\ ContainerStateRows' = ContainerStateRows \ gone
      /\ ContainerDependency' = {r \in ContainerDependency : r[1] \notin gone}
      /\ ContainerVolume' = {r \in ContainerVolume : r[1] \notin gone}
      /\ copy' = [c \in Ctrs |-> IF c \in gone THEN Nil ELSE copy[c]]
  BY Zenon DEF Sqlite!DropContainers
<1>3. \A c \in Ctrs : ContainerConfig'[c] = IF c \in gone THEN Nil ELSE ContainerConfig[c]
  BY Zenon, <1>2
<1>4. SqliteTypes'
  <2>1. ContainerConfig' \in [Ctrs -> Created \cup {Nil}] /\ copy' \in [Ctrs -> Copies \cup {Nil}]
    BY Zenon, <1>1, <1>2
  <2>2. ContainerDependency' \subseteq Ctrs \X Ctrs /\ ContainerVolume' \subseteq Ctrs \X Vols
    BY Zenon, <1>1, <1>2
  <2> QED
    BY Zenon, <2>1, <2>2 DEF SqliteInv, SqliteTypes
<1>5. IdRows'
  <2>1. {c \in Ctrs : ContainerConfig'[c] # Nil} = {c \in Ctrs : ContainerConfig[c] # Nil} \ gone
    BY Zenon, <1>3
  <2>2. {p \in Pods : PodConfig[p] # Nil} \cap gone = {}
    BY Zenon, DatabaseAssumption
  <2>3. IDNamespace' = {c \in Ctrs : ContainerConfig'[c] # Nil} \cup {p \in Pods : PodConfig'[p] # Nil}
    BY Zenon, <1>1, <1>2, <2>1, <2>2 DEF IdRows
  <2> QED
    BY Zenon, <1>1, <1>2, <2>1, <2>3 DEF IdRows
<1>6. InItsPod'
  BY Zenon, <1>1, <1>3 DEF InItsPod
<1>7. DepRows'
  <2> SUFFICES ASSUME NEW d \in Ctrs, NEW e \in Ctrs
               PROVE  /\ <<d, e>> \in ContainerDependency' <=>
                            ContainerConfig'[d] # Nil /\ e \in ContainerConfig'[d].deps
                      /\ <<d, e>> \in ContainerDependency' => ContainerConfig'[e] # Nil
    BY Zenon DEF DepRows
  <2>1. <<d, e>> \in ContainerDependency' <=> <<d, e>> \in ContainerDependency /\ d \notin gone
    BY Zenon, <1>2
  <2>2. /\ <<d, e>> \in ContainerDependency <=>
              ContainerConfig[d] # Nil /\ e \in ContainerConfig[d].deps
        /\ <<d, e>> \in ContainerDependency => ContainerConfig[e] # Nil
    BY Zenon, <1>1 DEF DepRows
  <2> QED
    BY Zenon, <1>3, <2>1, <2>2
<1>8. VolRows'
  <2> SUFFICES ASSUME NEW d \in Ctrs, NEW v \in Vols
               PROVE  /\ <<d, v>> \in ContainerVolume' <=>
                            ContainerConfig'[d] # Nil /\ v \in ContainerConfig'[d].vols
                      /\ <<d, v>> \in ContainerVolume' => v \in VolumeConfig'
    BY Zenon DEF VolRows
  <2>1. <<d, v>> \in ContainerVolume' <=> <<d, v>> \in ContainerVolume /\ d \notin gone
    BY Zenon, <1>2
  <2>2. /\ <<d, v>> \in ContainerVolume <=>
              ContainerConfig[d] # Nil /\ v \in ContainerConfig[d].vols
        /\ <<d, v>> \in ContainerVolume => v \in VolumeConfig
    BY Zenon, <1>1 DEF VolRows
  <2> QED
    BY Zenon, <1>3, <2>1, <2>2
<1>9. ExecRows'
  <2> SUFFICES ASSUME NEW s \in Sessions, ContainerExecSession[s] # Nil
               PROVE  ContainerConfig'[ContainerExecSession[s]] # Nil
    BY Zenon DEF ExecRows
  <2>1. ContainerConfig[ContainerExecSession[s]] # Nil /\ ContainerExecSession[s] \in Ctrs
    BY Zenon, <1>1 DEF ExecRows, SqliteInv, SqliteTypes
  <2> QED
    BY Zenon, <1>3, <2>1
<1> QED
  BY Zenon, <1>4, <1>5, <1>6, <1>7, <1>8, <1>9 DEF SqliteInv, Keys

\* Another name or other networks: no row names them.
LEMMA SqliteRewrites ==
    ASSUME SqliteInv, NEW c \in Ctrs, NEW n \in Names, NEW nets \in SUBSET Nets,
           Sqlite!rewriteContainerConfig(c, n, nets), copy' \in [Ctrs -> Copies \cup {Nil}]
    PROVE  SqliteInv'
<1>1. /\ ContainerConfig \in [Ctrs -> Created \cup {Nil}]
      /\ IdRows /\ InItsPod /\ DepRows /\ VolRows /\ ExecRows
  BY Zenon DEF SqliteInv, SqliteTypes, Keys
<1>2. /\ ContainerConfig[c] # Nil
      /\ ContainerConfig' = [ContainerConfig EXCEPT ![c].name = n, ![c].nets = nets]
      /\ UNCHANGED <<IDNamespace, ContainerStateRows, ContainerDependency, ContainerVolume, PodConfig,
                     PodStateRows, VolumeConfig, VolumeStateRows, ContainerExecSession>>
  BY Zenon DEF Sqlite!rewriteContainerConfig, Sqlite!RewriteAccepted, Sqlite!Row, Sqlite!podTables,
         Sqlite!volTables
<1>3. ContainerConfig[c] \in Created
  BY Zenon, <1>1, <1>2
<1>4. /\ ContainerConfig'[c] = [ContainerConfig[c] EXCEPT !.name = n, !.nets = nets]
      /\ \A d \in Ctrs \ {c} : ContainerConfig'[d] = ContainerConfig[d]
      /\ DOMAIN ContainerConfig' = Ctrs /\ ContainerConfig' = [d \in Ctrs |-> ContainerConfig'[d]]
  BY Zenon, <1>1, <1>2
<1> DEFINE k == ContainerConfig[c]
<1>5. /\ ContainerConfig'[c] \in Created
      /\ ContainerConfig'[c].pod = k.pod /\ ContainerConfig'[c].deps = k.deps
      /\ ContainerConfig'[c].vols = k.vols
  <2>1. k \in Created /\ ContainerConfig'[c] = [k EXCEPT !.name = n, !.nets = nets]
    BY Zenon, <1>3, <1>4
  <2> HIDE DEF k
  <2> QED
    BY Zenon, <2>1 DEF Created
<1>6. ContainerConfig'[c] # Nil
  BY Zenon, <1>5, CreatedFacts
<1>7. \A d \in Ctrs : /\ ContainerConfig'[d] # Nil <=> ContainerConfig[d] # Nil
                      /\ ContainerConfig'[d].pod = ContainerConfig[d].pod
                      /\ ContainerConfig'[d].deps = ContainerConfig[d].deps
                      /\ ContainerConfig'[d].vols = ContainerConfig[d].vols
  BY Zenon, <1>2, <1>4, <1>5, <1>6
<1>8. SqliteTypes'
  <2>1. ContainerConfig' \in [Ctrs -> Created \cup {Nil}]
    BY Zenon, <1>1, <1>4, <1>5
  <2> QED
    BY Zenon, <1>2, <2>1 DEF SqliteInv, SqliteTypes
<1>9. IdRows'
  <2>1. {d \in Ctrs : ContainerConfig'[d] # Nil} = {d \in Ctrs : ContainerConfig[d] # Nil}
    BY Zenon, <1>7
  <2> QED
    BY Zenon, <1>1, <1>2, <2>1 DEF IdRows
<1>10. InItsPod' /\ DepRows' /\ VolRows'
  BY <1>1, <1>2, <1>7 DEF InItsPod, DepRows, VolRows
<1>11. ExecRows'
  <2> SUFFICES ASSUME NEW s \in Sessions, ContainerExecSession[s] # Nil
               PROVE  ContainerConfig'[ContainerExecSession[s]] # Nil
    BY Zenon, <1>2 DEF ExecRows
  <2>1. ContainerConfig[ContainerExecSession[s]] # Nil /\ ContainerExecSession[s] \in Ctrs
    BY Zenon, <1>1 DEF ExecRows, SqliteInv, SqliteTypes
  <2> QED
    BY Zenon, <1>7, <2>1
<1> QED
  BY Zenon, <1>8, <1>9, <1>10, <1>11 DEF SqliteInv, Keys

\* Pods: a name is inserted for an ID that is free, and removed when no container
\* is in the pod.
LEMMA SqlitePods ==
    ASSUME SqliteInv, NEW p \in Pods,
           (\E n \in Names : Sqlite!AddPod(p, n)) \/ Sqlite!RemovePod(p)
    PROVE  SqliteInv'
<1>1. /\ ContainerConfig \in [Ctrs -> Created \cup {Nil}] /\ PodConfig \in [Pods -> Names \cup {Nil}]
      /\ IdRows /\ InItsPod /\ DepRows /\ VolRows /\ ExecRows
  BY Zenon DEF SqliteInv, SqliteTypes, Keys
<1>2. /\ UNCHANGED <<ContainerConfig, ContainerStateRows, ContainerDependency, ContainerVolume,
                     VolumeConfig, VolumeStateRows, ContainerExecSession, copy>>
  BY Zenon DEF Sqlite!AddPod, Sqlite!RemovePod, Sqlite!volTables
<1>3. /\ \A c \in Ctrs : ContainerConfig[c] # Nil => ContainerConfig[c].pod \in Pods \cup {Nil}
      /\ p \notin Ctrs
  BY Zenon, <1>1, CreatedFacts, DatabaseAssumption
<1>4. ASSUME NEW n \in Names, Sqlite!AddPod(p, n) PROVE SqliteInv'
  <2>1. /\ IDNamespace' = IDNamespace \cup {p} /\ PodConfig' = [PodConfig EXCEPT ![p] = n]
        /\ PodStateRows' = PodStateRows \cup {p} /\ n # Nil
    BY Zenon, <1>4, DatabaseAssumption DEF Sqlite!AddPod
  <2>2. /\ PodConfig'[p] = n /\ \A q \in Pods \ {p} : PodConfig'[q] = PodConfig[q]
        /\ PodConfig' \in [Pods -> Names \cup {Nil}]
    BY Zenon, <1>1, <2>1
  <2>3. {q \in Pods : PodConfig'[q] # Nil} = {q \in Pods : PodConfig[q] # Nil} \cup {p}
    BY Zenon, <2>1, <2>2
  <2>4. IdRows'
    BY Zenon, <1>1, <1>2, <2>1, <2>3 DEF IdRows
  <2>5. InItsPod'
    BY Zenon, <1>1, <1>2, <1>3, <2>1, <2>2 DEF InItsPod
  <2>6. SqliteTypes' /\ DepRows' /\ VolRows' /\ ExecRows'
    BY Zenon, <1>1, <1>2, <2>2 DEF SqliteInv, SqliteTypes, DepRows, VolRows, ExecRows
  <2> QED
    BY Zenon, <2>4, <2>5, <2>6 DEF SqliteInv, Keys
<1>5. ASSUME Sqlite!RemovePod(p) PROVE SqliteInv'
  <2>1. /\ IDNamespace' = IDNamespace \ {p} /\ PodConfig' = [PodConfig EXCEPT ![p] = Nil]
        /\ PodStateRows' = PodStateRows \ {p}
        /\ \A c \in Ctrs : ~(ContainerConfig[c] # Nil /\ ContainerConfig[c].pod = p)
    BY Zenon, <1>5 DEF Sqlite!RemovePod, Sqlite!RemovePodAccepted, Sqlite!PodContainersByID, Sqlite!Row
  <2>2. /\ PodConfig'[p] = Nil /\ \A q \in Pods \ {p} : PodConfig'[q] = PodConfig[q]
        /\ PodConfig' \in [Pods -> Names \cup {Nil}]
    BY Zenon, <1>1, <2>1
  <2>3. {q \in Pods : PodConfig'[q] # Nil} = {q \in Pods : PodConfig[q] # Nil} \ {p}
    BY Zenon, <2>1, <2>2
  <2>4. IdRows'
    BY Zenon, <1>1, <1>2, <1>3, <2>1, <2>3 DEF IdRows
  <2>5. InItsPod'
    BY Zenon, <1>1, <1>2, <1>3, <2>1, <2>2 DEF InItsPod
  <2>6. SqliteTypes' /\ DepRows' /\ VolRows' /\ ExecRows'
    BY Zenon, <1>1, <1>2, <2>2 DEF SqliteInv, SqliteTypes, DepRows, VolRows, ExecRows
  <2> QED
    BY Zenon, <2>4, <2>5, <2>6 DEF SqliteInv, Keys
<1> QED
  BY Zenon, <1>4, <1>5

\* Volumes: one that no row of ContainerVolume names may go.
LEMMA SqliteVolumes ==
    ASSUME SqliteInv, NEW v \in Vols, Sqlite!AddVolume(v) \/ Sqlite!RemoveVolume(v)
    PROVE  SqliteInv'
<1>1. ContainerVolume \subseteq Ctrs \X Vols /\ IdRows /\ InItsPod /\ DepRows /\ VolRows /\ ExecRows
  BY Zenon DEF SqliteInv, SqliteTypes, Keys
<1>2. UNCHANGED <<IDNamespace, ContainerConfig, ContainerStateRows, ContainerDependency,
                  ContainerVolume, PodConfig, PodStateRows, ContainerExecSession, copy>>
  BY Zenon DEF Sqlite!AddVolume, Sqlite!RemoveVolume, Sqlite!ctrTables, Sqlite!podTables
<1>3. SqliteTypes' /\ InItsPod' /\ DepRows' /\ ExecRows'
  <2>1. VolumeConfig' \subseteq Vols
    BY DEF SqliteInv, SqliteTypes, Sqlite!AddVolume, Sqlite!RemoveVolume
  <2> QED
    BY Zenon, <1>1, <1>2, <2>1 DEF SqliteInv, SqliteTypes, InItsPod, DepRows, ExecRows
<1>4. VolumeStateRows' = VolumeConfig'
  BY Zenon, <1>1 DEF IdRows, Sqlite!AddVolume, Sqlite!RemoveVolume
<1>5. IdRows'
  BY Zenon, <1>1, <1>2, <1>4 DEF IdRows
<1>6. \A c \in Ctrs, w \in Vols : <<c, w>> \in ContainerVolume => w \in VolumeConfig'
  BY Zenon, <1>1 DEF VolRows, Sqlite!AddVolume, Sqlite!RemoveVolume, Sqlite!RemoveVolumeAccepted,
              Sqlite!VolumeInUse
<1>7. VolRows'
  BY Zenon, <1>1, <1>2, <1>6 DEF VolRows
<1> QED
  BY Zenon, <1>3, <1>5, <1>7 DEF SqliteInv, Keys

\* Exec sessions: of a container that has a row.
LEMMA SqliteExecs ==
    ASSUME SqliteInv,
           \/ \E c \in Ctrs : \/ \E s \in Sessions : Sqlite!AddExecSession(c, s)
                              \/ Sqlite!RemoveContainerExecSessions(c)
           \/ \E s \in Sessions : Sqlite!RemoveExecSession(s)
           \/ Sqlite!Refresh
    PROVE  SqliteInv'
<1>1. /\ ContainerExecSession \in [Sessions -> Ctrs \cup {Nil}] /\ copy \in [Ctrs -> Copies \cup {Nil}]
      /\ IdRows /\ InItsPod /\ DepRows /\ VolRows /\ ExecRows
  BY Zenon DEF SqliteInv, SqliteTypes, Keys
<1>2. UNCHANGED <<IDNamespace, ContainerConfig, ContainerStateRows, ContainerDependency,
                  ContainerVolume, PodConfig, PodStateRows, VolumeConfig, VolumeStateRows>>
  BY Zenon DEF Sqlite!AddExecSession, Sqlite!RemoveExecSession, Sqlite!RemoveContainerExecSessions,
         Sqlite!Refresh, Sqlite!ctrTables, Sqlite!podTables, Sqlite!volTables
<1>3. copy' \in [Ctrs -> Copies \cup {Nil}]
  BY Zenon, <1>1 DEF Sqlite!AddExecSession, Sqlite!RemoveExecSession, Sqlite!RemoveContainerExecSessions,
              Sqlite!Refresh
<1>4. /\ ContainerExecSession' \in [Sessions -> Ctrs \cup {Nil}]
      /\ \A s \in Sessions : ContainerExecSession'[s] # Nil =>
            ContainerConfig[ContainerExecSession'[s]] # Nil
  <2>1. ASSUME NEW c \in Ctrs, NEW s \in Sessions, Sqlite!AddExecSession(c, s) PROVE <1>4!:
    BY Zenon, <1>1, <2>1 DEF Sqlite!AddExecSession, Sqlite!Row, ExecRows
  <2>2. ASSUME NEW c \in Ctrs, Sqlite!RemoveContainerExecSessions(c) PROVE <1>4!:
    BY Zenon, <1>1, <2>2 DEF Sqlite!RemoveContainerExecSessions, ExecRows
  <2>3. ASSUME NEW s \in Sessions, Sqlite!RemoveExecSession(s) PROVE <1>4!:
    BY Zenon, <1>1, <2>3 DEF Sqlite!RemoveExecSession, ExecRows
  <2>4. ASSUME Sqlite!Refresh PROVE <1>4!:
    BY Zenon, <2>4 DEF Sqlite!Refresh
  <2> QED
    BY Zenon, <2>1, <2>2, <2>3, <2>4
<1>5. SqliteTypes'
  BY Zenon, <1>2, <1>3, <1>4 DEF SqliteInv, SqliteTypes
<1>6. IdRows' /\ InItsPod' /\ DepRows' /\ VolRows'
  BY Zenon, <1>1, <1>2 DEF IdRows, InItsPod, DepRows, VolRows
<1>7. ExecRows'
  BY Zenon, <1>2, <1>4 DEF ExecRows
<1> QED
  BY Zenon, <1>5, <1>6, <1>7 DEF SqliteInv, Keys

\* Every call of SQLiteState keeps the rows in step, with copies that are stale too.
LEMMA SqliteStep == SqliteInv /\ Sqlite!SqliteNext => SqliteInv'
<1> SUFFICES ASSUME SqliteInv, Sqlite!SqliteNext PROVE SqliteInv'
  BY Zenon
<1>1. /\ copy \in [Ctrs -> Copies \cup {Nil}] /\ ContainerConfig \in [Ctrs -> Created \cup {Nil}]
      /\ \A c \in Ctrs : ContainerConfig[c] # Nil => ContainerConfig[c] \in Created
  BY Zenon DEF SqliteInv, SqliteTypes
<1>2. \A c \in Ctrs : ContainerConfig[c] # Nil =>
         /\ ContainerConfig[c].name \in Names /\ ContainerConfig[c].nets \in SUBSET Nets
         /\ [name |-> ContainerConfig[c].name, nets |-> ContainerConfig[c].nets] \in Copies
  BY Zenon, <1>1, CreatedFacts
<1>3. \A n \in Names, nets \in SUBSET Nets : [name |-> n, nets |-> nets] \in Copies
  BY Zenon DEF Copies
<1>4. ASSUME NEW c \in Ctrs, NEW k \in ConfigsOf[c], Sqlite!AddContainer(c, k) PROVE SqliteInv'
  BY Zenon, <1>4, SqliteAdds
<1>5. ASSUME NEW c \in Ctrs, Sqlite!Load(c) PROVE SqliteInv'
  <2>1. copy' \in [Ctrs -> Copies \cup {Nil}]
    BY Zenon, <1>1, <1>2, <1>5 DEF Sqlite!Load, Sqlite!Row
  <2> QED
    BY Zenon, <1>5, <2>1, SqliteSame DEF Sqlite!Load, Sqlite!ctrTables, Sqlite!podTables, Sqlite!volTables
<1>6. ASSUME NEW c \in Ctrs, Sqlite!RemoveContainer(c) PROVE SqliteInv'
  <2>1. /\ Sqlite!DropContainers({c}) /\ {c} \in SUBSET Ctrs
        /\ UNCHANGED <<PodConfig, PodStateRows, VolumeConfig, VolumeStateRows, ContainerExecSession>>
        /\ \A d \in Ctrs : <<d, c>> \notin ContainerDependency
        /\ \A s \in Sessions : ContainerExecSession[s] # c
    BY Zenon, <1>6 DEF Sqlite!RemoveContainer, Sqlite!RemoveContainerAccepted, Sqlite!ContainerInUse,
                Sqlite!GetContainerExecSessions, Sqlite!podTables, Sqlite!volTables
  <2> QED
    BY Zenon, <2>1, SqliteDrops
<1>7. ASSUME NEW c \in Ctrs, Sqlite!Update(c) PROVE SqliteInv'
  <2>1. /\ Sqlite!rewriteContainerConfig(c, copy[c].name, copy[c].nets) /\ copy[c] # Nil
        /\ copy' = copy
    BY Zenon, <1>7 DEF Sqlite!Update, Sqlite!Usable
  <2>2. copy[c] \in Copies
    BY Zenon, <1>1, <2>1
  <2>3. copy[c].name \in Names /\ copy[c].nets \in SUBSET Nets
    BY Zenon, <2>2 DEF Copies
  <2> QED
    BY Zenon, <1>1, <2>1, <2>3, SqliteRewrites
<1>8. ASSUME NEW c \in Ctrs, NEW n \in Names, Sqlite!Rename(c, n) PROVE SqliteInv'
  <2>1. /\ Sqlite!rewriteContainerConfig(c, n, ContainerConfig[c].nets) /\ ContainerConfig[c] # Nil
        /\ copy' \in {copy, [copy EXCEPT ![c] = [name |-> n, nets |-> ContainerConfig[c].nets]]}
    BY Zenon, <1>8 DEF Sqlite!Rename, Sqlite!Row
  <2>2. copy' \in [Ctrs -> Copies \cup {Nil}]
    BY Zenon, <1>1, <1>2, <1>3, <2>1
  <2> QED
    BY Zenon, <1>2, <2>1, <2>2, SqliteRewrites
<1>9. ASSUME NEW c \in Ctrs, NEW net \in Nets,
             Sqlite!NetworkConnect(c, net) \/ Sqlite!NetworkDisconnect(c, net)
      PROVE  SqliteInv'
  <2>1. PICK nets \in SUBSET Nets : Sqlite!networkModify(c, nets) /\ ContainerConfig[c] # Nil
    BY Zenon, <1>2, <1>9 DEF Sqlite!NetworkConnect, Sqlite!NetworkDisconnect, Sqlite!Bridge, Sqlite!Row
  <2>2. /\ Sqlite!rewriteContainerConfig(c, ContainerConfig[c].name, nets)
        /\ copy' \in {copy, [copy EXCEPT ![c] = [name |-> ContainerConfig[c].name, nets |-> nets]]}
    BY Zenon, <2>1 DEF Sqlite!networkModify
  <2>3. [name |-> ContainerConfig[c].name, nets |-> nets] \in Copies
    BY Zenon, <1>2, <1>3, <2>1
  <2>4. copy' \in [Ctrs -> Copies \cup {Nil}]
    BY Zenon, <1>1, <2>2, <2>3
  <2> QED
    BY Zenon, <1>2, <2>1, <2>2, <2>4, SqliteRewrites
<1>10. ASSUME NEW p \in Pods, Sqlite!RemovePodContainers(p) PROVE SqliteInv'
  <2> DEFINE gone == {c \in Ctrs : ContainerConfig[c] # Nil /\ ContainerConfig[c].pod = p}
  <2>1. /\ Sqlite!DropContainers(gone) /\ gone \in SUBSET Ctrs
        /\ UNCHANGED <<PodConfig, PodStateRows, VolumeConfig, VolumeStateRows, ContainerExecSession>>
        /\ \A c \in gone, d \in Ctrs \ gone : <<d, c>> \notin ContainerDependency
        /\ \A c \in gone, s \in Sessions : ContainerExecSession[s] # c
    BY Zenon, <1>10 DEF Sqlite!RemovePodContainers, Sqlite!RemovePodContainersAccepted,
                 Sqlite!PodContainersByID, Sqlite!Row, Sqlite!ContainerInUse,
                 Sqlite!GetContainerExecSessions, Sqlite!podTables, Sqlite!volTables
  <2> HIDE DEF gone
  <2> QED
    BY Zenon, <2>1, SqliteDrops
<1>11. ASSUME (\E c \in Ctrs : Sqlite!AddContainerExitCode(c)) \/ Sqlite!PruneContainerExitCodes
       PROVE  SqliteInv'
  BY Zenon, <1>1, <1>11, SqliteSame DEF Sqlite!AddContainerExitCode, Sqlite!PruneContainerExitCodes,
     Sqlite!ctrTables, Sqlite!podTables, Sqlite!volTables
<1> QED
  BY Zenon, <1>4, <1>5, <1>6, <1>7, <1>8, <1>9, <1>10, <1>11, SqlitePods, SqliteVolumes, SqliteExecs
     DEF Sqlite!SqliteNext

---------------------------------------------------------------------------
\* The rows as createSQLiteTables and the readers of the JSON see them.
LEMMA SqliteKeys == SqliteInv => SqliteForeignKeys
<1> SUFFICES ASSUME SqliteInv PROVE SqliteForeignKeys
  BY Zenon
<1>1. /\ ContainerDependency \subseteq Ctrs \X Ctrs /\ ContainerVolume \subseteq Ctrs \X Vols
      /\ \A c \in Ctrs : ContainerConfig[c] # Nil => ContainerConfig[c] \in Created
      /\ IdRows /\ InItsPod /\ DepRows /\ VolRows /\ ExecRows
  BY Zenon DEF SqliteInv, SqliteTypes, Keys
<1>2. \A c \in Ctrs : ContainerConfig[c] # Nil =>
         ContainerConfig[c].deps \subseteq Ctrs /\ ContainerConfig[c].vols \subseteq Vols
  BY Zenon, <1>1, CreatedFacts
<1>3. ASSUME NEW c \in Ctrs, ContainerConfig[c] # Nil
      PROVE  /\ ContainerConfig[c].deps = {r[2] : r \in {q \in ContainerDependency : q[1] = c}}
             /\ ContainerConfig[c].vols = {r[2] : r \in {q \in ContainerVolume : q[1] = c}}
  <2>1. ContainerConfig[c].deps = {d \in Ctrs : <<c, d>> \in ContainerDependency}
    BY Zenon, <1>1, <1>2, <1>3 DEF DepRows
  <2>2. ContainerConfig[c].vols = {v \in Vols : <<c, v>> \in ContainerVolume}
    BY Zenon, <1>1, <1>2, <1>3 DEF VolRows
  <2>3. {r[2] : r \in {q \in ContainerDependency : q[1] = c}} =
           {d \in Ctrs : <<c, d>> \in ContainerDependency}
    BY <1>1, PairFacts
  <2>4. {r[2] : r \in {q \in ContainerVolume : q[1] = c}} =
           {v \in Vols : <<c, v>> \in ContainerVolume}
    BY <1>1, PairFacts
  <2> QED
    BY Zenon, <2>1, <2>2, <2>3, <2>4
<1>4. \A r \in ContainerDependency : ContainerConfig[r[1]] # Nil /\ ContainerConfig[r[2]] # Nil
  <2> SUFFICES ASSUME NEW r \in ContainerDependency
               PROVE  ContainerConfig[r[1]] # Nil /\ ContainerConfig[r[2]] # Nil
    BY Zenon
  <2>1. r[1] \in Ctrs /\ r[2] \in Ctrs /\ <<r[1], r[2]>> \in ContainerDependency
    BY <1>1
  <2> QED
    BY Zenon, <1>1, <2>1 DEF DepRows
<1>5. \A r \in ContainerVolume : ContainerConfig[r[1]] # Nil /\ r[2] \in VolumeConfig
  <2> SUFFICES ASSUME NEW r \in ContainerVolume
               PROVE  ContainerConfig[r[1]] # Nil /\ r[2] \in VolumeConfig
    BY Zenon
  <2>1. r[1] \in Ctrs /\ r[2] \in Vols /\ <<r[1], r[2]>> \in ContainerVolume
    BY <1>1
  <2> QED
    BY Zenon, <1>1, <2>1 DEF VolRows
<1> QED
  BY Zenon, <1>1, <1>3, <1>4, <1>5
     DEF SqliteForeignKeys, Sqlite!ForeignKeys, Sqlite!Row, IdRows, InItsPod, ExecRows

\* What the tables hold of a container is what its configuration says.
LEMMA SqliteReads ==
    ASSUME SqliteInv
    PROVE  /\ \A c \in Ctrs : /\ Sqlite!Row(c) <=> Sqlite!Abs!Has(c)
                              /\ Sqlite!ContainerInUse(c) = Sqlite!Abs!Dependents(c)
                              /\ Sqlite!GetContainerExecSessions(c) = Sqlite!Abs!SessionsOf(c)
                              /\ c \in IDNamespace <=> Sqlite!Row(c)
           /\ \A n : Sqlite!NameInUse(n) <=> Sqlite!Abs!NameTaken(n)
           /\ \A p \in Pods : /\ Sqlite!PodContainersByID(p) = Sqlite!Abs!Members(p)
                              /\ p \in IDNamespace <=> PodConfig[p] # Nil
                              /\ p \in PodStateRows <=> PodConfig[p] # Nil
           /\ \A v \in Vols : Sqlite!VolumeInUse(v) = Sqlite!Abs!Users(v)
<1>1. IdRows /\ DepRows /\ VolRows
  BY Zenon DEF SqliteInv, Keys
<1>2. \A c \in Ctrs : /\ Sqlite!Row(c) <=> Sqlite!Abs!Has(c)
                      /\ Sqlite!GetContainerExecSessions(c) = Sqlite!Abs!SessionsOf(c)
  BY Zenon DEF Sqlite!Row, Sqlite!Abs!Has, Sqlite!GetContainerExecSessions, Sqlite!Abs!SessionsOf
<1>3. \A n : Sqlite!NameInUse(n) <=> Sqlite!Abs!NameTaken(n)
  BY Zenon, <1>2 DEF Sqlite!NameInUse, Sqlite!Abs!NameTaken
<1>4. \A p : Sqlite!PodContainersByID(p) = Sqlite!Abs!Members(p)
  BY Zenon, <1>2 DEF Sqlite!PodContainersByID, Sqlite!Abs!Members
<1>5. \A c \in Ctrs : Sqlite!ContainerInUse(c) = Sqlite!Abs!Dependents(c)
  BY Zenon, <1>1 DEF DepRows, Sqlite!ContainerInUse, Sqlite!Abs!Dependents, Sqlite!Abs!Has
<1>6. \A v \in Vols : Sqlite!VolumeInUse(v) = Sqlite!Abs!Users(v)
  BY Zenon, <1>1 DEF VolRows, Sqlite!VolumeInUse, Sqlite!Abs!Users, Sqlite!Abs!Has
<1>7. /\ \A c \in Ctrs : c \in IDNamespace <=> Sqlite!Row(c)
      /\ \A p \in Pods : /\ p \in IDNamespace <=> PodConfig[p] # Nil
                         /\ p \in PodStateRows <=> PodConfig[p] # Nil
  BY Zenon, <1>1, DatabaseAssumption DEF IdRows, Sqlite!Row
<1> QED
  BY Zenon, <1>2, <1>3, <1>4, <1>5, <1>6, <1>7

\* The checks of addContainer, the keys of the tables and the SELECTs before the
\* DELETEs amount to the conditions of state.go.
LEMMA SqliteAccepts == SqliteInv => SqliteAcceptsAsStateSays
<1> SUFFICES ASSUME SqliteInv PROVE SqliteAcceptsAsStateSays
  BY Zenon
<1>1. ASSUME NEW c \in Ctrs
      PROVE  /\ \A k \in ConfigsOf[c] :
                   Sqlite!AddContainerAccepted(c, k) <=> Sqlite!Abs!AddContainerOK(c, k)
             /\ Sqlite!Row(c) =>
                   (Sqlite!RemoveContainerAccepted(c) <=> Sqlite!Abs!RemoveContainerOK(c))
             /\ \A n \in Names : Sqlite!RewriteAccepted(c, n) <=> Sqlite!Abs!RenameOK(c, n)
  <2>1. ASSUME NEW k \in ConfigsOf[c]
        PROVE  Sqlite!AddContainerAccepted(c, k) <=> Sqlite!Abs!AddContainerOK(c, k)
    <3>1. k.deps \subseteq Ctrs
      BY Zenon, CreatedFacts, DatabaseAssumption
    <3> QED
      BY Zenon, <3>1, SqliteReads DEF Sqlite!AddContainerAccepted, Sqlite!Abs!AddContainerOK
  <2>2. Sqlite!Row(c) =>
           (Sqlite!RemoveContainerAccepted(c) <=> Sqlite!Abs!RemoveContainerOK(c))
    BY Zenon, SqliteReads DEF Sqlite!RemoveContainerAccepted, Sqlite!Abs!RemoveContainerOK
  <2>3. \A n \in Names : Sqlite!RewriteAccepted(c, n) <=> Sqlite!Abs!RenameOK(c, n)
    BY Zenon, SqliteReads DEF Sqlite!RewriteAccepted, Sqlite!Abs!RenameOK
  <2> QED
    BY Zenon, <2>1, <2>2, <2>3
<1>2. ASSUME NEW p \in Pods
      PROVE  /\ \A n \in Names : Sqlite!AddPodAccepted(p, n) <=> Sqlite!Abs!AddPodOK(p, n)
             /\ Sqlite!RemovePodAccepted(p) <=> Sqlite!Abs!RemovePodOK(p)
  <2>1. \A n \in Names : Sqlite!AddPodAccepted(p, n) <=> Sqlite!Abs!AddPodOK(p, n)
    BY Zenon, SqliteReads DEF Sqlite!AddPodAccepted, Sqlite!Abs!AddPodOK, Sqlite!Abs!PodNamed
  <2>2. Sqlite!RemovePodAccepted(p) <=> Sqlite!Abs!RemovePodOK(p)
    BY Zenon, SqliteReads DEF Sqlite!RemovePodAccepted, Sqlite!Abs!RemovePodOK
  <2> QED
    BY Zenon, <2>1, <2>2
<1>3. \A v \in VolumeConfig : Sqlite!RemoveVolumeAccepted(v) <=> Sqlite!Abs!RemoveVolumeOK(v)
  BY Zenon, SqliteReads DEF Sqlite!RemoveVolumeAccepted, Sqlite!Abs!RemoveVolumeOK, SqliteInv, SqliteTypes
<1> QED
  BY Zenon, <1>1, <1>2, <1>3 DEF SqliteAcceptsAsStateSays, Sqlite!AcceptsAsStateSays

\* Every step of the tables is the call of state.go or changes nothing of what it is about.
SqliteDoes == Sqlite!Abs!StateNext \/ UNCHANGED Sqlite!Abs!stateVars

\* addContainer.
LEMMA SqliteDoesAdd ==
    ASSUME SqliteInv, NEW c \in Ctrs, NEW k \in ConfigsOf[c], Sqlite!AddContainer(c, k)
    PROVE  SqliteDoes
<1>1. Sqlite!Abs!AddContainerOK(c, k)
  BY Zenon, SqliteAccepts DEF SqliteAcceptsAsStateSays, Sqlite!AcceptsAsStateSays, Sqlite!AddContainer
<1>2. Sqlite!Abs!AddContainer(c, k)
  BY Zenon, <1>1 DEF Sqlite!AddContainer, Sqlite!Abs!AddContainer, Sqlite!podTables, Sqlite!volTables
<1> QED
  BY Zenon, <1>2 DEF SqliteDoes, Sqlite!Abs!StateNext

\* RemoveContainer: of a container that is gone already it removes nothing.
LEMMA SqliteDoesRemove ==
    ASSUME SqliteInv, NEW c \in Ctrs, Sqlite!RemoveContainer(c)
    PROVE  SqliteDoes
<1>1. /\ ContainerConfig \in [Ctrs -> Created \cup {Nil}]
      /\ ContainerConfig' = [d \in Ctrs |-> IF d \in {c} THEN Nil ELSE ContainerConfig[d]]
      /\ UNCHANGED <<PodConfig, VolumeConfig, ContainerExecSession, ContainerExitCode>>
  BY Zenon DEF SqliteInv, SqliteTypes, Sqlite!RemoveContainer, Sqlite!DropContainers, Sqlite!podTables,
         Sqlite!volTables
<1>2. CASE Sqlite!Row(c)
  <2>1. Sqlite!Abs!RemoveContainerOK(c)
    BY Zenon, <1>2, SqliteAccepts DEF SqliteAcceptsAsStateSays, Sqlite!AcceptsAsStateSays,
       Sqlite!RemoveContainer
  <2>2. ContainerConfig' = [ContainerConfig EXCEPT ![c] = Nil]
    BY Zenon, <1>1
  <2>3. Sqlite!Abs!RemoveContainer(c)
    BY Zenon, <1>1, <2>1, <2>2 DEF Sqlite!Abs!RemoveContainer
  <2> QED
    BY Zenon, <2>3 DEF SqliteDoes, Sqlite!Abs!StateNext
<1>3. CASE ~Sqlite!Row(c)
  <2>1. ContainerConfig' = ContainerConfig
    BY Zenon, <1>1, <1>3 DEF Sqlite!Row
  <2> QED
    BY Zenon, <1>1, <2>1 DEF SqliteDoes, Sqlite!Abs!stateVars
<1> QED
  BY Zenon, <1>2, <1>3

\* The calls that rewrite a config: each changes the name or the networks and leaves
\* the rest of the JSON as it was.
LEMMA SqliteDoesRewrite ==
    ASSUME SqliteInv, NEW c \in Ctrs, NEW n \in Names, NEW nets \in SUBSET Nets,
           Sqlite!rewriteContainerConfig(c, n, nets)
    PROVE  /\ ContainerConfig[c] # Nil /\ (ContainerConfig[c].name = n \/ ~Sqlite!Abs!NameTaken(n))
           /\ UNCHANGED <<PodConfig, VolumeConfig, ContainerExecSession, ContainerExitCode>>
           /\ nets = ContainerConfig[c].nets =>
                 ContainerConfig' = [ContainerConfig EXCEPT ![c].name = n]
           /\ n = ContainerConfig[c].name =>
                 ContainerConfig' = [ContainerConfig EXCEPT ![c].nets = nets]
           /\ n = ContainerConfig[c].name /\ nets = ContainerConfig[c].nets =>
                 ContainerConfig' = ContainerConfig
<1>1. /\ ContainerConfig \in [Ctrs -> Created \cup {Nil}]
      /\ ContainerConfig[c] # Nil /\ (ContainerConfig[c].name = n \/ ~Sqlite!NameInUse(n))
      /\ ContainerConfig' = [ContainerConfig EXCEPT ![c].name = n, ![c].nets = nets]
      /\ UNCHANGED <<PodConfig, VolumeConfig, ContainerExecSession, ContainerExitCode>>
  BY Zenon DEF SqliteInv, SqliteTypes, Sqlite!rewriteContainerConfig, Sqlite!RewriteAccepted,
         Sqlite!Row, Sqlite!podTables, Sqlite!volTables
<1>2. ContainerConfig[c] \in Created
  BY Zenon, <1>1
<1>3. ContainerConfig[c].name = n \/ ~Sqlite!Abs!NameTaken(n)
  BY Zenon, <1>1, SqliteReads
<1> DEFINE k == ContainerConfig[c]
           r == [k EXCEPT !.name = n, !.nets = nets]
<1>4. ContainerConfig' = [ContainerConfig EXCEPT ![c] = r]
  BY Zenon, <1>1
<1>5. /\ nets = k.nets => r = [k EXCEPT !.name = n]
      /\ n = k.name => r = [k EXCEPT !.nets = nets]
      /\ n = k.name /\ nets = k.nets => r = k
  BY Zenon, <1>2 DEF Created
<1>6. ASSUME nets = k.nets PROVE ContainerConfig' = [ContainerConfig EXCEPT ![c].name = n]
  <2>1. ContainerConfig' = [ContainerConfig EXCEPT ![c] = [k EXCEPT !.name = n]]
    BY Zenon, <1>4, <1>5, <1>6
  <2> QED
    BY Zenon, <2>1
<1>7. ASSUME n = k.name PROVE ContainerConfig' = [ContainerConfig EXCEPT ![c].nets = nets]
  <2>1. ContainerConfig' = [ContainerConfig EXCEPT ![c] = [k EXCEPT !.nets = nets]]
    BY Zenon, <1>4, <1>5, <1>7
  <2> QED
    BY Zenon, <2>1
<1>8. ASSUME n = k.name, nets = k.nets PROVE ContainerConfig' = ContainerConfig
  <2>1. ContainerConfig' = [ContainerConfig EXCEPT ![c] = k]
    BY Zenon, <1>4, <1>5, <1>8
  <2> QED
    BY Zenon, <1>1, <2>1
<1> QED
  BY Zenon, <1>1, <1>3, <1>6, <1>7, <1>8

\* update, rename, network connect and disconnect: with a copy that is current the
\* config is written back as it was.
LEMMA SqliteDoesConfig ==
    ASSUME SqliteInv, ~StaleCopies, NEW c \in Ctrs,
           \/ Sqlite!Update(c)
           \/ \E n \in Names : Sqlite!Rename(c, n)
           \/ \E net \in Nets : Sqlite!NetworkConnect(c, net) \/ Sqlite!NetworkDisconnect(c, net)
    PROVE  SqliteDoes
<1>1. /\ copy \in [Ctrs -> Copies \cup {Nil}]
      /\ ContainerConfig[c] # Nil => ContainerConfig[c] \in Created
  BY Zenon DEF SqliteInv, SqliteTypes
<1>2. ContainerConfig[c] # Nil =>
         ContainerConfig[c].name \in Names /\ ContainerConfig[c].nets \in SUBSET Nets
  BY Zenon, <1>1, CreatedFacts
<1>3. ASSUME Sqlite!Update(c) PROVE SqliteDoes
  <2>1. /\ Sqlite!rewriteContainerConfig(c, copy[c].name, copy[c].nets) /\ ContainerConfig[c] # Nil
        /\ copy[c] = [name |-> ContainerConfig[c].name, nets |-> ContainerConfig[c].nets]
    BY Zenon, <1>3 DEF Sqlite!Update, Sqlite!Usable, Sqlite!Row, Sqlite!rewriteContainerConfig,
                Sqlite!RewriteAccepted
  <2>2. copy[c].name = ContainerConfig[c].name /\ copy[c].nets = ContainerConfig[c].nets
    <3>1. copy[c] = [name |-> ContainerConfig[c].name, nets |-> ContainerConfig[c].nets]
      BY Zenon, <2>1
    <3> QED
      BY <3>1
  <2>3. UNCHANGED <<ContainerConfig, PodConfig, VolumeConfig, ContainerExecSession, ContainerExitCode>>
    BY Zenon, <1>2, <2>1, <2>2, SqliteDoesRewrite
  <2> QED
    BY Zenon, <2>3 DEF SqliteDoes, Sqlite!Abs!stateVars
<1>4. ASSUME NEW n \in Names, Sqlite!Rename(c, n) PROVE SqliteDoes
  <2>1. Sqlite!rewriteContainerConfig(c, n, ContainerConfig[c].nets) /\ ContainerConfig[c] # Nil
    BY Zenon, <1>4 DEF Sqlite!Rename, Sqlite!Row
  <2>2. Sqlite!Abs!Rename(c, n)
    BY Zenon, <1>2, <2>1, SqliteDoesRewrite DEF Sqlite!Abs!Rename, Sqlite!Abs!RenameOK, Sqlite!Abs!Has
  <2> QED
    BY Zenon, <2>2 DEF SqliteDoes, Sqlite!Abs!StateNext
<1>5. ASSUME NEW net \in Nets, Sqlite!NetworkConnect(c, net) PROVE SqliteDoes
  <2> DEFINE nets == ContainerConfig[c].nets \cup {net}
  <2>1. /\ Sqlite!rewriteContainerConfig(c, ContainerConfig[c].name, nets) /\ ContainerConfig[c] # Nil
        /\ net \notin ContainerConfig[c].nets
    BY Zenon, <1>5 DEF Sqlite!NetworkConnect, Sqlite!Bridge, Sqlite!Row, Sqlite!networkModify
  <2>2. nets \in SUBSET Nets
    BY Zenon, <1>2, <2>1
  <2>3. /\ ContainerConfig' = [ContainerConfig EXCEPT ![c].nets = nets]
        /\ UNCHANGED <<PodConfig, VolumeConfig, ContainerExecSession, ContainerExitCode>>
    <3> HIDE DEF nets
    <3> QED
      BY <1>2, <2>1, <2>2, SqliteDoesRewrite
  <2>4. Sqlite!Abs!NetworkConnect(c, net)
    BY Zenon, <2>1, <2>3 DEF Sqlite!Abs!NetworkConnect, Sqlite!Abs!NetworkConnectOK, Sqlite!Abs!Has
  <2> QED
    BY Zenon, <2>4 DEF SqliteDoes, Sqlite!Abs!StateNext
<1>6. ASSUME NEW net \in Nets, Sqlite!NetworkDisconnect(c, net) PROVE SqliteDoes
  <2> DEFINE nets == ContainerConfig[c].nets \ {net}
  <2>1. /\ Sqlite!rewriteContainerConfig(c, ContainerConfig[c].name, nets) /\ ContainerConfig[c] # Nil
        /\ net \in ContainerConfig[c].nets
    BY Zenon, <1>6 DEF Sqlite!NetworkDisconnect, Sqlite!Bridge, Sqlite!Row, Sqlite!networkModify
  <2>2. nets \in SUBSET Nets
    BY Zenon, <1>2, <2>1
  <2>3. /\ ContainerConfig' = [ContainerConfig EXCEPT ![c].nets = nets]
        /\ UNCHANGED <<PodConfig, VolumeConfig, ContainerExecSession, ContainerExitCode>>
    <3> HIDE DEF nets
    <3> QED
      BY <1>2, <2>1, <2>2, SqliteDoesRewrite
  <2>4. Sqlite!Abs!NetworkDisconnect(c, net)
    BY Zenon, <2>1, <2>3 DEF Sqlite!Abs!NetworkDisconnect, Sqlite!Abs!NetworkDisconnectOK, Sqlite!Abs!Has
  <2> QED
    BY Zenon, <2>4 DEF SqliteDoes, Sqlite!Abs!StateNext
<1> QED
  BY Zenon, <1>3, <1>4, <1>5, <1>6

\* The calls about pods, volumes, exec sessions and exit codes.
LEMMA SqliteDoesRest ==
    ASSUME SqliteInv,
           \/ \E c \in Ctrs : \/ Sqlite!Load(c) \/ Sqlite!RemoveContainerExecSessions(c)
                              \/ Sqlite!AddContainerExitCode(c)
                              \/ \E s \in Sessions : Sqlite!AddExecSession(c, s)
           \/ \E p \in Pods : \/ \E n \in Names : Sqlite!AddPod(p, n)
                              \/ Sqlite!RemovePod(p) \/ Sqlite!RemovePodContainers(p)
           \/ \E v \in Vols : Sqlite!AddVolume(v) \/ Sqlite!RemoveVolume(v)
           \/ \E s \in Sessions : Sqlite!RemoveExecSession(s)
           \/ Sqlite!PruneContainerExitCodes \/ Sqlite!Refresh
    PROVE  SqliteDoes
<1> USE DEF Sqlite!ctrTables, Sqlite!podTables, Sqlite!volTables
<1>1. ASSUME NEW c \in Ctrs, Sqlite!Load(c) PROVE SqliteDoes
  BY Zenon, <1>1 DEF Sqlite!Load, SqliteDoes, Sqlite!Abs!stateVars
<1>2. ASSUME NEW c \in Ctrs, Sqlite!RemoveContainerExecSessions(c) PROVE SqliteDoes
  <2>1. Sqlite!Abs!RemoveContainerExecSessions(c)
    BY Zenon, <1>2 DEF Sqlite!RemoveContainerExecSessions, Sqlite!Abs!RemoveContainerExecSessions
  <2> QED
    BY Zenon, <2>1 DEF SqliteDoes, Sqlite!Abs!StateNext
<1>3. ASSUME NEW c \in Ctrs, Sqlite!AddContainerExitCode(c) PROVE SqliteDoes
  <2>1. Sqlite!Abs!AddContainerExitCode(c)
    BY Zenon, <1>3 DEF Sqlite!AddContainerExitCode, Sqlite!Abs!AddContainerExitCode
  <2> QED
    BY Zenon, <2>1 DEF SqliteDoes, Sqlite!Abs!StateNext
<1>4. ASSUME NEW c \in Ctrs, NEW s \in Sessions, Sqlite!AddExecSession(c, s) PROVE SqliteDoes
  <2>1. Sqlite!Abs!AddExecSession(c, s)
    BY Zenon, <1>4 DEF Sqlite!AddExecSession, Sqlite!Row, Sqlite!Abs!AddExecSession, Sqlite!Abs!Has
  <2> QED
    BY Zenon, <2>1 DEF SqliteDoes, Sqlite!Abs!StateNext
<1>5. ASSUME NEW p \in Pods, NEW n \in Names, Sqlite!AddPod(p, n) PROVE SqliteDoes
  <2>1. Sqlite!Abs!AddPodOK(p, n)
    BY Zenon, <1>5, SqliteAccepts DEF SqliteAcceptsAsStateSays, Sqlite!AcceptsAsStateSays, Sqlite!AddPod
  <2>2. Sqlite!Abs!AddPod(p, n)
    BY Zenon, <1>5, <2>1 DEF Sqlite!AddPod, Sqlite!Abs!AddPod
  <2> QED
    BY Zenon, <2>2 DEF SqliteDoes, Sqlite!Abs!StateNext
<1>6. ASSUME NEW p \in Pods, Sqlite!RemovePod(p) PROVE SqliteDoes
  <2>1. Sqlite!Abs!RemovePodOK(p)
    BY Zenon, <1>6, SqliteAccepts DEF SqliteAcceptsAsStateSays, Sqlite!AcceptsAsStateSays, Sqlite!RemovePod
  <2>2. Sqlite!Abs!RemovePod(p)
    BY Zenon, <1>6, <2>1 DEF Sqlite!RemovePod, Sqlite!Abs!RemovePod
  <2> QED
    BY Zenon, <2>2 DEF SqliteDoes, Sqlite!Abs!StateNext
<1>7. ASSUME NEW p \in Pods, Sqlite!RemovePodContainers(p) PROVE SqliteDoes
  <2>1. Sqlite!PodContainersByID(p) = Sqlite!Abs!Members(p)
    BY Zenon, SqliteReads
  <2>2. Sqlite!Abs!RemovePodContainers(p)
    BY Zenon, <1>7, <2>1 DEF Sqlite!RemovePodContainers, Sqlite!DropContainers, Sqlite!Abs!RemovePodContainers
  <2> QED
    BY Zenon, <2>2 DEF SqliteDoes, Sqlite!Abs!StateNext
<1>8. ASSUME NEW v \in Vols, Sqlite!AddVolume(v) PROVE SqliteDoes
  <2>1. Sqlite!Abs!AddVolume(v)
    BY Zenon, <1>8 DEF Sqlite!AddVolume, Sqlite!Abs!AddVolume
  <2> QED
    BY Zenon, <2>1 DEF SqliteDoes, Sqlite!Abs!StateNext
<1>9. ASSUME NEW v \in Vols, Sqlite!RemoveVolume(v) PROVE SqliteDoes
  <2>1. CASE v \in VolumeConfig
    <3>1. Sqlite!Abs!RemoveVolumeOK(v)
      BY Zenon, <1>9, <2>1, SqliteAccepts
         DEF SqliteAcceptsAsStateSays, Sqlite!AcceptsAsStateSays, Sqlite!RemoveVolume
    <3>2. Sqlite!Abs!RemoveVolume(v)
      BY Zenon, <1>9, <3>1 DEF Sqlite!RemoveVolume, Sqlite!Abs!RemoveVolume
    <3> QED
      BY Zenon, <3>2 DEF SqliteDoes, Sqlite!Abs!StateNext
  <2>2. CASE v \notin VolumeConfig
    <3>1. VolumeConfig' = VolumeConfig
      BY Zenon, <1>9, <2>2 DEF Sqlite!RemoveVolume
    <3> QED
      BY Zenon, <1>9, <3>1 DEF Sqlite!RemoveVolume, SqliteDoes, Sqlite!Abs!stateVars
  <2> QED
    BY Zenon, <2>1, <2>2
<1>10. ASSUME NEW s \in Sessions, Sqlite!RemoveExecSession(s) PROVE SqliteDoes
  <2>1. Sqlite!Abs!RemoveExecSession(s)
    BY Zenon, <1>10 DEF Sqlite!RemoveExecSession, Sqlite!Abs!RemoveExecSession
  <2> QED
    BY Zenon, <2>1 DEF SqliteDoes, Sqlite!Abs!StateNext
<1>11. ASSUME Sqlite!PruneContainerExitCodes PROVE SqliteDoes
  <2>1. Sqlite!Abs!PruneContainerExitCodes
    BY Zenon, <1>11 DEF Sqlite!PruneContainerExitCodes, Sqlite!Row, Sqlite!Abs!PruneContainerExitCodes,
                 Sqlite!Abs!Has
  <2> QED
    BY Zenon, <2>1 DEF SqliteDoes, Sqlite!Abs!StateNext
<1>12. ASSUME Sqlite!Refresh PROVE SqliteDoes
  <2>1. Sqlite!Abs!Refresh
    BY Zenon, <1>12 DEF Sqlite!Refresh, Sqlite!Abs!Refresh
  <2> QED
    BY Zenon, <2>1 DEF SqliteDoes, Sqlite!Abs!StateNext
<1> QED
  BY Zenon, <1>1, <1>2, <1>3, <1>4, <1>5, <1>6, <1>7, <1>8, <1>9, <1>10, <1>11, <1>12

\* Every call of SQLiteState is the call of state.go.
LEMMA SqliteDoesState == SqliteInv /\ ~StaleCopies /\ Sqlite!SqliteNext => SqliteDoes
<1> SUFFICES ASSUME SqliteInv, ~StaleCopies, Sqlite!SqliteNext PROVE SqliteDoes
  BY Zenon
<1>1. ASSUME NEW c \in Ctrs, NEW k \in ConfigsOf[c], Sqlite!AddContainer(c, k) PROVE SqliteDoes
  BY Zenon, <1>1, SqliteDoesAdd
<1>2. ASSUME NEW c \in Ctrs, Sqlite!RemoveContainer(c) PROVE SqliteDoes
  BY Zenon, <1>2, SqliteDoesRemove
<1> QED
  BY Zenon, <1>1, <1>2, SqliteDoesConfig, SqliteDoesRest DEF Sqlite!SqliteNext

---------------------------------------------------------------------------
\* The tables of SQLiteState stay in step: the inductive invariant, whatever the
\* processes hold of the containers in memory.
THEOREM SqliteInductive == DatabaseSpec => []SqliteInv
<1>1. DatabaseInit => SqliteInv
  BY Zenon, SqliteInitInv DEF DatabaseInit
<1>2. SqliteInv /\ [DatabaseNext]_<<backend, boltVars, tables>> => SqliteInv'
  <2> SUFFICES ASSUME SqliteInv, [DatabaseNext]_<<backend, boltVars, tables>> PROVE SqliteInv'
    BY Zenon
  <2>1. CASE Sqlite!SqliteNext
    BY Zenon, <2>1, SqliteStep
  <2>2. CASE UNCHANGED tables
    <3>1. copy' \in [Ctrs -> Copies \cup {Nil}]
      BY Zenon, <2>2 DEF SqliteInv, SqliteTypes, tables
    <3> QED
      BY Zenon, <2>2, <3>1, SqliteSame DEF tables
  <2> QED
    BY Zenon, <2>1, <2>2 DEF DatabaseNext
<1> QED
  BY <1>1, <1>2, PTL DEF DatabaseSpec

\* No row of SQLiteState's tables names one that is not there.
THEOREM RowsAreKept == DatabaseSpec => []SqliteForeignKeys
  BY SqliteInductive, SqliteKeys, PTL

\* SQLiteState accepts a call exactly when state.go lets it succeed.
THEOREM SqliteDecidesAsStateSays == DatabaseSpec => []SqliteAcceptsAsStateSays
  BY SqliteInductive, SqliteAccepts, PTL

\* As long as no process writes back a config it read before another one changed it,
\* SQLiteState does what state.go says of each call.
THEOREM SqliteKeepsItsContract ==
    ASSUME ~StaleCopies
    PROVE  DatabaseSpec => SqliteImplementsState
<1>1. DatabaseInit => Sqlite!Abs!StateInit
  BY Zenon DEF DatabaseInit, Sqlite!SqliteInit, Sqlite!Abs!StateInit
<1>2. SqliteInv /\ [DatabaseNext]_<<backend, boltVars, tables>> =>
         [Sqlite!Abs!StateNext]_(Sqlite!Abs!stateVars)
  <2> SUFFICES ASSUME SqliteInv, [DatabaseNext]_<<backend, boltVars, tables>>
               PROVE  [Sqlite!Abs!StateNext]_(Sqlite!Abs!stateVars)
    BY Zenon
  <2>1. CASE Sqlite!SqliteNext
    BY Zenon, <2>1, SqliteDoesState DEF SqliteDoes
  <2>2. CASE UNCHANGED tables
    BY Zenon, <2>2 DEF tables, Sqlite!Abs!stateVars
  <2> QED
    BY Zenon, <2>1, <2>2 DEF DatabaseNext
<1> QED
  BY <1>1, <1>2, SqliteInductive, PTL
     DEF DatabaseSpec, SqliteImplementsState, Sqlite!ImplementsState, Sqlite!Abs!StateSpec
=============================================================================
