---------------------------- MODULE VolumeProofs ----------------------------
(***************************************************************************)
(* The volume with the metrics survives the migration, whatever requests   *)
(* fail and in whatever order Kubernetes acts, if Prometheus's claims are  *)
(* the only ones in the namespace.                                         *)
(***************************************************************************)
EXTENDS PrometheusVolume, TLAPS

IInv == TypeOK /\ Inductive

\* The objects of a namespace without other claims.
LEMMA OnlyPrometheus ==
    ASSUME OtherClaims = {}
    PROVE  /\ Claims = {Old, New} \cup OwnClaims /\ Volumes = {Data, Disk}
           /\ Old # New /\ Data # Disk
           /\ None \notin {Old, New, Data, Disk}
           /\ None \notin OwnClaims /\ Old \notin OwnClaims
BY VolumeAssumption DEF Claims, Volumes, Old, New, Data, Disk, None

\* In the cluster as the earlier version left it, the volume names the old
\* claim and nothing has been written.
LEMMA InitSafe == ASSUME OtherClaims = {} PROVE Init => IInv
<1> USE OnlyPrometheus
<1> SUFFICES ASSUME Init PROVE IInv
    OBVIOUS
<1>1. TypeOK
    <2>1. /\ claim \in [Claims -> {"absent", "pending", "bound", "lost",
                                   "terminating"}]
          /\ alive \in SUBSET Volumes
          /\ mounted \in BOOLEAN
          /\ faults \in 0 .. MaxFaults
        BY VolumeAssumption DEF Init, Unmade
    <2>2. bound \in [Claims -> Volumes \cup {None}]
        BY DEF Init, Unmade
    <2>3. ref \in [Volumes -> Claims \cup {None}]
        BY DEF Init
    <2>4. uid \in [Volumes -> BOOLEAN]
        BY DEF Init
    <2>5. QED
        BY <2>1, <2>2, <2>3, <2>4 DEF Init, TypeOK
<1>2. Inductive
    BY DEF Init, Inductive, Unmade
<1>3. QED
    BY <1>1, <1>2 DEF IInv

\* Whatever the operator does next keeps the invariant: in particular the old
\* claim is deleted, and a template written, only after the volume was updated.
LEMMA ReconcilerSafe ==
    ASSUME OtherClaims = {}, IInv, Reconciler \/ WriteFails
    PROVE  IInv'
<1> USE OnlyPrometheus DEF TypeOK, Inductive, cr, cluster, reconciler
<1>1. CASE StartWrite
    BY <1>1, ZenonT(40) DEF IInv, StartWrite
<1>2. CASE existingPVC
    BY <1>2, ZenonT(40) DEF IInv, existingPVC, Present
<1>3. CASE useExistingPVForVolumeClaim
    <2>1. TypeOK'
        <3>1. /\ ref \in [Volumes -> Claims \cup {None}] /\ New \in Claims
              /\ uid \in [Volumes -> BOOLEAN]
            BY DEF IInv
        <3>2. /\ ref' \in {ref, [ref EXCEPT ![found] = New]}
              /\ uid' \in {uid, [uid EXCEPT ![found] = FALSE]}
            BY <1>3 DEF useExistingPVForVolumeClaim
        <3>3. /\ ref' \in [Volumes -> Claims \cup {None}]
              /\ uid' \in [Volumes -> BOOLEAN]
            BY <3>1, <3>2
        <3>4. /\ UNCHANGED << storage, own, found, template, claim, bound,
                              alive, mounted, faults >>
              /\ pc' \in {"write", "idle"}
            BY <1>3 DEF useExistingPVForVolumeClaim
        <3>5. QED
            BY <3>3, <3>4 DEF IInv
    <2>2. CASE found \in alive
        <3>1. ref' = [ref EXCEPT ![found] = New] /\ uid' = [uid EXCEPT ![found] = FALSE]
            BY <1>3, <2>2 DEF useExistingPVForVolumeClaim
        <3>2. UNCHANGED << storage, own, found, template, claim, bound, alive >>
              /\ pc' = "write"
            BY <1>3, <2>2 DEF useExistingPVForVolumeClaim
        <3>3. Inductive'
            BY <2>2, <3>1, <3>2 DEF IInv
        <3>4. QED
            BY <2>1, <3>3 DEF IInv
    <2>3. CASE found \notin alive
        <3>1. Inductive'
            BY <1>3, <2>3 DEF IInv, useExistingPVForVolumeClaim
        <3>2. QED
            BY <2>1, <3>1 DEF IInv
    <2>4. QED
        BY <2>2, <2>3
<1>4. CASE WritePrometheus
    BY <1>4 DEF IInv, WritePrometheus
<1>5. CASE removePVCPostMigration
    BY <1>5 DEF IInv, removePVCPostMigration
<1>6. CASE WriteFails
    <2>1. faults' \in 0 .. MaxFaults
        <3>1. faults \in 0 .. MaxFaults /\ faults < MaxFaults
              /\ faults' = faults + 1
            BY <1>6 DEF IInv, WriteFails
        <3>2. MaxFaults \in Nat
            BY VolumeAssumption
        <3>3. QED
            BY <3>1, <3>2
    <2>2. UNCHANGED << storage, own, found, template, claim, bound, ref, uid,
                       alive, mounted >> /\ pc' = "idle"
        BY <1>6 DEF WriteFails
    <2>3. TypeOK'
        BY <2>1, <2>2 DEF IInv
    <2>4. Inductive'
        BY <2>2 DEF IInv
    <2>5. QED
        BY <2>3, <2>4 DEF IInv
<1>7. QED
    BY <1>1, <1>2, <1>3, <1>4, <1>5, <1>6 DEF Reconciler

\* So does whatever Kubernetes does: it binds the new claim to nothing but the
\* volume, and never finds the volume without its claim.
LEMMA KubernetesSafe ==
    ASSUME OtherClaims = {}, IInv, Kubernetes
    PROVE  IInv'
<1> USE OnlyPrometheus DEF TypeOK, Inductive, cr, reconciler
<1>1. CASE CreateClaim
    <2> PICK v \in template : /\ claim' = [claim EXCEPT ![own] = "pending"]
                              /\ bound' = [bound EXCEPT ![own] = v]
        BY <1>1 DEF CreateClaim
    <2>1. UNCHANGED << storage, own, pc, found, template, ref, uid, alive,
                       mounted, faults >>
        BY <1>1 DEF CreateClaim
    <2>2. TypeOK'
        BY <2>1 DEF IInv
    <2>3. Inductive'
        BY <2>1, ZenonT(40) DEF IInv
    <2>4. QED
        BY <2>2, <2>3 DEF IInv
<1>2. CASE OldPodStops
    <2>1. UNCHANGED << storage, own, pc, found, template, claim, bound, ref, uid,
                       alive, faults >> /\ mounted' = FALSE
        BY <1>2 DEF OldPodStops
    <2>2. TypeOK'
        BY <2>1 DEF IInv
    <2>3. Inductive'
        BY <2>1 DEF IInv
    <2>4. QED
        BY <2>2, <2>3 DEF IInv
<1>3. CASE RemoveClaim
    <2>1. /\ UNCHANGED << storage, own, pc, found, template, bound, ref, uid,
                          alive, mounted, faults >>
          /\ claim[Old] = "terminating"
          /\ claim' = [claim EXCEPT ![Old] = "absent"]
        BY <1>3 DEF RemoveClaim
    <2>2. TypeOK'
        BY <2>1 DEF IInv
    <2>3. Inductive'
        BY <2>1 DEF IInv
    <2>4. QED
        BY <2>2, <2>3 DEF IInv
<1>4. ASSUME NEW v \in Volumes, Reclaim(v)
      PROVE  IInv'
    <2>1. UNCHANGED << storage, own, pc, found, template, claim, bound, ref, uid,
                       mounted, faults >> /\ alive' = alive \ {v}
        BY <1>4 DEF Reclaim
    <2>2. TypeOK'
        BY <2>1 DEF IInv
    <2>3. ASSUME storage = "given" PROVE v # Data
        BY <1>4, <2>3 DEF IInv, Reclaim
    <2>4. Inductive'
        BY <2>1, <2>3 DEF IInv
    <2>5. QED
        BY <2>2, <2>4 DEF IInv
<1>5. ASSUME NEW v \in Volumes, NEW c \in Claims, Bind(c, v)
      PROVE  IInv'
    <2>1. /\ UNCHANGED << storage, own, pc, found, template, alive, mounted,
                          faults >>
          /\ claim' = [claim EXCEPT ![c] = "bound"]
          /\ bound' = [bound EXCEPT ![c] = v]
          /\ ref' = [ref EXCEPT ![v] = c]
          /\ uid' = [uid EXCEPT ![v] = TRUE]
        BY <1>5 DEF Bind
    <2>2. TypeOK'
        BY <2>1 DEF IInv
    <2>3. Inductive'
        <3> SUFFICES ASSUME storage = "given" PROVE Inductive'
            BY <2>1
        <3>1. c = own
            BY <1>5 DEF IInv, Bind
        <3>2. CASE v = Data
            <4>1. own = New /\ ref[Data] = New
                BY <1>5, <3>1, <3>2 DEF IInv, Bind
            <4>2. /\ ref'[Data] = New /\ ref'[Disk] = None
                  /\ bound'[own] = Data /\ bound'[Old] = Data
                  /\ claim'[own] = "bound" /\ claim'[Old] = claim[Old]
                BY <2>1, <3>1, <3>2, <4>1, ZenonT(40) DEF IInv
            <4>3. \A d \in Claims \ {Old, own} : claim'[d] = "absent"
                BY <2>1, <3>1 DEF IInv
            <4>4. QED
                BY <2>1, <4>1, <4>2, <4>3, ZenonT(40) DEF IInv
        <3>3. CASE v = Disk
            <4>1. own # New /\ claim[Old] = "absent" /\ ref[Data] = New
                BY <1>5, <3>1, <3>3 DEF IInv, Bind
            <4>2. /\ ref'[Data] = New /\ ref'[Disk] = own /\ uid'[Data] = uid[Data]
                  /\ bound'[own] = Disk /\ bound'[Old] = Data
                  /\ claim'[own] = "bound" /\ claim'[Old] = "absent"
                BY <2>1, <3>1, <3>3, <4>1 DEF IInv
            <4>3. \A d \in Claims \ {Old, own} : claim'[d] = "absent"
                BY <2>1, <3>1 DEF IInv
            <4>4. QED
                BY <2>1, <4>1, <4>2, <4>3, ZenonT(40) DEF IInv
        <3>4. QED
            BY <3>2, <3>3
    <2>4. QED
        BY <2>2, <2>3 DEF IInv
<1>6. ASSUME NEW c \in Claims, Misbind(c)
      PROVE  IInv'
    <2>1. /\ UNCHANGED << storage, own, pc, found, template, bound, ref, uid,
                          alive, mounted, faults >>
          /\ claim[c] = "bound" /\ claim' = [claim EXCEPT ![c] = "lost"]
        BY <1>6 DEF Misbind
    <2>2. TypeOK'
        BY <2>1 DEF IInv
    <2>3. Inductive'
        BY <2>1, ZenonT(40) DEF IInv
    <2>4. QED
        BY <2>2, <2>3 DEF IInv
<1>7. QED
    BY <1>1, <1>2, <1>3, <1>4, <1>5, <1>6 DEF Kubernetes

\* The volume with the metrics is never reclaimed, and a new claim with the name
\* useExistingPVForVolumeClaim reserves it for is bound to no other, as long as
\* the CR has a storage spec, for every number of failed requests and crashes.
THEOREM MetricsSafe == ASSUME OtherClaims = {} PROVE Spec => []MetricsKept
<1>1. Init => IInv
    BY InitSafe
<1>2. IInv /\ [Next]_vars => IInv'
    <2> SUFFICES ASSUME IInv, [Next]_vars PROVE IInv'
        OBVIOUS
    <2>1. CASE EditStorage
        BY <2>1 DEF EditStorage, IInv, TypeOK, Inductive, cr, cluster, reconciler
    <2>2. CASE UNCHANGED vars
        <3>1. UNCHANGED << storage, own, pc, found, template, claim, bound, ref,
                           uid, alive, mounted, faults >>
            BY <2>2 DEF vars, cr, cluster, reconciler
        <3>2. TypeOK'
            BY <3>1 DEF IInv, TypeOK
        <3>3. Inductive'
            BY <3>1 DEF IInv, Inductive
        <3>4. QED
            BY <3>2, <3>3 DEF IInv
    <2>3. QED
        BY <2>1, <2>2, ReconcilerSafe, KubernetesSafe DEF Next
<1>3. IInv => MetricsKept
    BY DEF IInv, Inductive, MetricsKept
<1>4. QED
    BY <1>1, <1>2, <1>3, PTL DEF Spec
=============================================================================
