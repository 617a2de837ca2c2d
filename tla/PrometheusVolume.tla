-------------------------- MODULE PrometheusVolume --------------------------
(***************************************************************************)
(* How the volume with the metrics of an earlier version passes from the   *)
(* claim of the old Prometheus to the claim of the new one: the part of    *)
(* reconcilePrometheus that deals with storage, request by request, beside *)
(* the Kubernetes controllers that create, bind, remove and reclaim.       *)
(*                                                                         *)
(* The reclaim policy of the volumes is Delete, the default of the storage *)
(* classes that provision volumes on demand.                               *)
(***************************************************************************)
EXTENDS Naturals

CONSTANTS
    OwnClaims,      \* what the claim of the new Prometheus may be called: New,
                    \* unless the CR gives a prometheusDefaultName
    OtherClaims,    \* claims in the namespace that are not Prometheus's
    VolumeOf,       \* and the volume of each
    MaxFaults       \* bound on failed requests and crashes

Old  == "managed-services-prometheus-kafka-prometheus-0"
New  == "managed-services-prometheus-obs-prometheus-0"
Data == "data"      \* the volume with the metrics
Disk == "disk"      \* a volume that can be provisioned for a new claim
None == "none"

Claims  == {Old, New} \cup OwnClaims \cup OtherClaims
Volumes == {Data, Disk} \cup {VolumeOf[c] : c \in OtherClaims}

ASSUME VolumeAssumption ==
    /\ MaxFaults \in Nat
    /\ OwnClaims # {} /\ OwnClaims \cap {Old, None} = {}
    /\ OtherClaims \cap ({Old, New, None} \cup OwnClaims) = {}
    /\ \A c \in OtherClaims : VolumeOf[c] \notin {Data, Disk, None}

VARIABLES
    storage,    \* has the CR a storage spec for Prometheus: "given" from the
                \* start, "missing", or "added" later?
    own,        \* the claim the stateful set of the new Prometheus makes
    pc,         \* the next request of reconcilePrometheus
    found,      \* the volume it has found, or None
    template,   \* volumes the claim template of the Prometheus CR names: {} if
                \* there is no template, {None} if it names no volume
    claim,      \* is each claim absent, pending, bound, lost or terminating?
    bound,      \* the volume each claim names
    ref,        \* the claim each volume names (claimRef)
    uid,        \* does it name one particular object (claimRef.uid)?
    alive,      \* volumes that have not been reclaimed
    mounted,    \* does a pod of the old Prometheus still mount the old claim?
    faults

cr         == << storage, own >>
reconciler == << pc, found >>
cluster    == << claim, bound, ref, uid, alive, mounted >>
vars       == << cr, reconciler, template, cluster, faults >>

Unmade == {New} \cup OwnClaims

Init ==
    /\ storage \in {"given", "missing"}
    /\ own \in OwnClaims
    /\ pc = "idle" /\ found = None
    /\ template = {}
    /\ claim = [c \in Claims |-> IF c \in Unmade THEN "absent" ELSE "bound"]
    /\ bound = [c \in Claims |-> IF c \in Unmade THEN None
                                 ELSE IF c = Old THEN Data ELSE VolumeOf[c]]
    /\ ref = [v \in Volumes |->
                 IF v = Disk THEN None ELSE IF v = Data THEN Old
                 ELSE CHOOSE c \in OtherClaims : VolumeOf[c] = v]
    /\ uid = [v \in Volumes |-> v # Disk]
    /\ alive = Volumes
    /\ mounted \in BOOLEAN
    /\ faults = 0

----------------------------------------------------------------------------
(* The operator.                                                           *)

\* The storage spec is looked at while the Prometheus CR is being written.
StartWrite ==
    /\ pc = "idle"
    /\ pc' = IF storage = "missing" THEN "write plain" ELSE "list"
    /\ found' = None
    /\ UNCHANGED << cr, template, cluster, faults >>

Present == {c \in Claims : claim[c] # "absent"}

\* Mutant: the name of the claim is returned for the name of its volume.
existingPVC_ClaimName ==
    /\ pc = "list"
    /\ IF Old \in Present
       THEN pc' = "volume" /\ found' \in Present
       ELSE pc' = "write" /\ UNCHANGED found
    /\ UNCHANGED << cr, template, cluster, faults >>

\* The volume is the one of the claim that is listed last.
existingPVC ==
    /\ pc = "list"
    /\ IF Old \in Present
       THEN pc' = "volume" /\ \E last \in Present : found' = bound[last]
       ELSE pc' = "write" /\ UNCHANGED found
    /\ UNCHANGED << cr, template, cluster, faults >>

\* Mutant: an error of the update is not noticed.
useExistingPVForVolumeClaim_Unnoticed ==
    /\ pc = "volume" /\ pc' = "write"
    /\ faults < MaxFaults /\ faults' = faults + 1
    /\ UNCHANGED << cr, found, template, cluster >>

\* Fails if there is no such volume.
useExistingPVForVolumeClaim ==
    /\ pc = "volume"
    /\ IF found \in alive
       THEN /\ ref' = [ref EXCEPT ![found] = New]
            /\ uid' = [uid EXCEPT ![found] = FALSE]
            /\ pc' = "write"
       ELSE pc' = "idle" /\ UNCHANGED << ref, uid >>
    /\ UNCHANGED << cr, found, template, claim, bound, alive, mounted, faults >>

WritePrometheus ==
    /\ pc \in {"write", "write plain"} /\ pc' = "remove"
    /\ template' = IF pc = "write" THEN {found} ELSE {}
    /\ UNCHANGED << cr, found, cluster, faults >>

\* Mutant: the old claim is left in place.
removePVCPostMigration_Never ==
    /\ pc = "remove" /\ pc' = "idle"
    /\ UNCHANGED << cr, found, template, cluster, faults >>

removePVCPostMigration ==
    /\ pc = "remove" /\ pc' = "idle"
    /\ claim' = [claim EXCEPT ![Old] = IF @ = "absent" THEN @ ELSE "terminating"]
    /\ UNCHANGED << cr, found, template, bound, ref, uid, alive, mounted, faults >>

\* A request fails (a conflict included) or the process dies.
WriteFails ==
    /\ pc # "idle" /\ pc' = "idle"
    /\ faults < MaxFaults /\ faults' = faults + 1
    /\ UNCHANGED << cr, found, template, cluster >>

Reconciler ==
    \/ StartWrite \/ existingPVC \/ useExistingPVForVolumeClaim
    \/ WritePrometheus \/ removePVCPostMigration

----------------------------------------------------------------------------
(* Kubernetes and the Prometheus operator.                                 *)

\* The stateful set of the new Prometheus creates its claim from the template.
CreateClaim ==
    /\ claim[own] = "absent"
    /\ \E v \in template :
           /\ claim' = [claim EXCEPT ![own] = "pending"]
           /\ bound' = [bound EXCEPT ![own] = v]
    /\ UNCHANGED << cr, reconciler, template, ref, uid, alive, mounted, faults >>

\* A pending claim gets the volume it names, a volume that names it, or a new
\* one.  A volume that names another claim is not given to it.
Bind(c, v) ==
    /\ claim[c] = "pending" /\ v \in alive /\ ~uid[v]
    /\ \/ bound[c] = v /\ ref[v] \in {c, None}
       \/ bound[c] = None /\ ref[v] = c
       \/ /\ bound[c] = None /\ v = Disk /\ ref[v] = None
          /\ \A w \in alive : ref[w] # c
    /\ claim' = [claim EXCEPT ![c] = "bound"]
    /\ bound' = [bound EXCEPT ![c] = v]
    /\ ref' = [ref EXCEPT ![v] = c]
    /\ uid' = [uid EXCEPT ![v] = TRUE]
    /\ UNCHANGED << cr, reconciler, template, alive, mounted, faults >>

\* A claim that was bound and whose volume does not name this very claim any
\* more is lost for good (ClaimMisbound): it is not bound a second time.
Misbind(c) ==
    /\ claim[c] = "bound"
    /\ ~(bound[c] \in alive /\ ref[bound[c]] = c /\ uid[bound[c]])
    /\ claim' = [claim EXCEPT ![c] = "lost"]
    /\ UNCHANGED << cr, reconciler, template, bound, ref, uid, alive, mounted, faults >>

OldPodStops ==
    /\ mounted /\ mounted' = FALSE
    /\ UNCHANGED << cr, reconciler, template, claim, bound, ref, uid, alive, faults >>

\* A claim is protected while a pod mounts it.
RemoveClaim ==
    /\ claim[Old] = "terminating" /\ ~mounted
    /\ claim' = [claim EXCEPT ![Old] = "absent"]
    /\ UNCHANGED << cr, reconciler, template, bound, ref, uid, alive, mounted, faults >>

\* A volume whose claim is gone is deleted.
Reclaim(v) ==
    /\ v \in alive /\ uid[v] /\ claim[ref[v]] = "absent"
    /\ alive' = alive \ {v}
    /\ UNCHANGED << cr, reconciler, template, claim, bound, ref, uid, mounted, faults >>

Kubernetes ==
    \/ CreateClaim \/ OldPodStops \/ RemoveClaim
    \/ \E v \in Volumes : Reclaim(v) \/ \E c \in Claims : Bind(c, v)
    \/ \E c \in Claims : Misbind(c)

\* Users take the storage spec out of the CR, or put it in.  The webhook refuses
\* to change the name.
EditStorage ==
    /\ storage' = IF storage = "missing" THEN "added" ELSE "missing"
    /\ UNCHANGED << own, reconciler, template, cluster, faults >>

Next == EditStorage \/ Reconciler \/ WriteFails \/ Kubernetes

Spec == Init /\ [][Next]_vars

\* Passes follow one another, and the controllers of Kubernetes do their work.
FairSpec ==
    /\ Spec
    /\ WF_vars(Reconciler)
    /\ WF_vars(CreateClaim) /\ WF_vars(OldPodStops) /\ WF_vars(RemoveClaim)
    /\ \A v \in Volumes : WF_vars(\E c \in Claims : Bind(c, v))
    /\ \A c \in Claims : WF_vars(Misbind(c))

----------------------------------------------------------------------------
(* Properties.                                                             *)

\* Every variable has its type; a sync finds a volume, never a claim.
TypeOK ==
    /\ storage \in {"given", "missing", "added"} /\ own \in OwnClaims
    /\ pc \in {"idle", "list", "volume", "write", "write plain", "remove"}
    /\ found \in Volumes \cup {None}
    /\ template \in SUBSET (Volumes \cup {None})
    /\ claim \in [Claims -> {"absent", "pending", "bound", "lost", "terminating"}]
    /\ bound \in [Claims -> Volumes \cup {None}]
    /\ ref \in [Volumes -> Claims \cup {None}]
    /\ uid \in [Volumes -> BOOLEAN]
    /\ alive \in SUBSET Volumes
    /\ mounted \in BOOLEAN
    /\ faults \in 0 .. MaxFaults

\* "Use existing PV for PVC": as long as the CR has a storage spec, wherever the
\* migration is cut short, the volume with the metrics is not reclaimed, and no
\* other volume is given to a claim that has the name useExistingPVForVolumeClaim
\* writes, though the old claim is deleted before the new one is bound.
MetricsKept ==
    storage = "given" =>
        /\ Data \in alive
        /\ own = New => bound[New] \in {None, Data}

\* Why the metrics are kept when no other claim is around: until the volume
\* names the new claim, the sync does not get past useExistingPVForVolumeClaim,
\* so the old claim is bound, no template is written and there is no new claim;
\* from then on no other claim can have the volume.  As long as the old claim is
\* there the template names the volume, so the new claim names no other; later
\* it gets the volume that names it.
Inductive ==
    storage = "given" =>
        /\ Data \in alive
        /\ pc # "write plain"
        /\ found \in {None, Data} /\ template \subseteq {None, Data}
        /\ bound[Old] = Data /\ bound[own] \in {None, Data, Disk}
        /\ own = New => bound[own] # Disk
        /\ \A c \in Claims : c \in {Old, own} \/ claim[c] = "absent"
        /\ own = New => ref[Disk] = None
        /\ ref[Disk] \in {None, own} /\ ref[Data] \in {Old, New}
        /\ claim[Old] # "absent" =>
               /\ None \notin template
               /\ pc = "write" => found = Data
               /\ claim[own] = "absent" => bound[own] = None
               /\ claim[own] # "absent" => bound[own] = Data
        /\ ref[Data] = Old =>
               /\ claim[Old] \in {"bound", "lost"} /\ claim[own] = "absent"
               /\ template = {}
               /\ pc \in {"idle", "list", "volume"}
               /\ pc = "volume" => found = Data
        /\ ref[Data] = New /\ uid[Data] => claim[New] # "absent"

\* In the end the old claim is gone and the volume is kept for the new claim.
\* If the stateful set's claim has that name, it holds the volume, or Kubernetes
\* has given it up as lost: a sync that runs while the old claim terminates
\* writes the claimRef of a volume that is bound already again, without a uid.
HandedOverOrLost ==
    [](storage = "given") =>
        <>[](/\ claim[Old] = "absent"
             /\ Data \in alive /\ ref[Data] = New
             /\ own = New =>
                    /\ bound[New] = Data
                    /\ claim[New] = "lost" \/ (claim[New] = "bound" /\ uid[Data]))
=============================================================================
