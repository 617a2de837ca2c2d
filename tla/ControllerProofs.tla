-------------------------- MODULE ControllerProofs --------------------------
(***************************************************************************)
(* Proofs about ObservabilityController, for every choice of its           *)
(* constants.  Inductive holds initially (InitInductive) and is preserved  *)
(* by every step (NextInductive, from one lemma per action); the           *)
(* invariants are its conjuncts, and the action property follows from it.  *)
(***************************************************************************)
EXTENDS ObservabilityController, TLAPS

\* Room for a leaf on a busy machine.
USE SMTT(30), ZenonT(40)

\* The empty status of a new CR is a status.
LEMMA NoStatusType == NoStatus \in Statuses
BY DEF Statuses

\* The records that stand for no object and for no pass have their types.
LEMMA AbsentType ==
    /\ Absent \in Objects /\ Listing(Absent) \in Listings
    /\ NoPass \in Passes
<1>1. Absent \in Objects
    BY NoStatusType, SpecsAssumption DEF Absent, Objects
<1>2. Listing(Absent) \in Listings
    BY SpecsAssumption DEF Absent, Listing, Listings
<1>3. NoPass \in Passes
    BY <1>1, NoStatusType DEF NoPass, Passes
<1>. QED  BY <1>1, <1>2, <1>3

\* The field updates the actions make keep an object an object.
LEMMA ObjectTypes ==
    ASSUME NEW o \in Objects
    PROVE  /\ Listing(o) \in Listings
           /\ \A s \in Specs : [o EXCEPT !.spec = s] \in Objects
           /\ \A b \in BOOLEAN : [o EXCEPT !.finalizer = b] \in Objects
           /\ \A b \in BOOLEAN : [o EXCEPT !.managed = b] \in Objects
           /\ \A st \in Statuses : [o EXCEPT !.status = st] \in Objects
           /\ [o EXCEPT !.phase = "deleting"] \in Objects
           /\ \A s \in Specs :
                 [o EXCEPT !.spec = s, !.managed = TRUE, !.finalizer = FALSE]
                     \in Objects
BY DEF Objects, Listings, Listing

\* A CR as a user or InitializeOperand creates it is an object.
LEMMA NewObjectType ==
    ASSUME NEW s \in Specs, NEW m \in BOOLEAN
    PROVE NewObject(s, m) \in Objects
BY NoStatusType DEF NewObject, Objects

\* The invariant holds before the operator has done anything.
LEMMA InitInductive == Init => Inductive
<1> SUFFICES ASSUME Init PROVE Inductive
    OBVIOUS
<1>1. ObjectsTyped
    BY AbsentType DEF Init, ObjectsTyped
<1>2. FlagsTyped
    BY DEF Init, FlagsTyped
<1>3. ControlTyped
    BY DEF Init, ControlTyped, NoPass
<1>4. CountersTyped
    BY BoundsAssumption DEF Init, CountersTyped
<1>5. CopiesAgree
    BY DEF Init, CopiesAgree, WellFormed, Absent
<1>6. PassProgress /\ GuardedMode /\ StatusIsYoung /\ NoOrphans
    BY DEF Init, PassProgress, GuardedMode, StatusIsYoung, NoOrphans, NoPass,
           Absent
<1>7. StatusIsHonest /\ Migration \notin dirty
    BY DEF Init, StatusIsHonest, Reported, Complete, Absent
<1>. QED  BY <1>1, <1>2, <1>3, <1>4, <1>5, <1>6, <1>7 DEF Inductive, TypeOK

\* An empty status reports no success.
LEMMA NoStatusLemma ==
    \A x : NoStatus # [stage |-> x, result |-> ResultSuccess]
BY DEF NoStatus, ResultSuccess

\* Positions of the two stage lists, and what is found at them.
LEMMA StagesLemma ==
    /\ \A o : Len(StagesOf(o)) \in Nat
    /\ \A i \in Nat : i > 0 /\ i <= Len(InstallStages) =>
          i \in DOMAIN InstallStages /\ InstallStages[i] \in InstallSet
    /\ \A i \in Nat : i > 0 /\ i <= Len(CleanupStages) =>
          i \in DOMAIN CleanupStages /\ CleanupStages[i] \in CleanupSet
    /\ \A i \in DOMAIN InstallStages : i \in Nat /\ i <= Len(InstallStages)
    /\ \A i \in DOMAIN CleanupStages : i \in Nat /\ i <= Len(CleanupStages)
BY StagesAssumption DEF StagesOf, InstallSet, CleanupSet

\* What the API server holds after a write: the object, or nothing if it was
\* being deleted and has lost its finalizer; every copy is out of date.
LEMMA WriteLemma ==
    ASSUME NEW o \in Objects, o.phase # "absent", Write(o)
    PROVE  /\ cr' \in Objects
           /\ WellFormed(cr')
           /\ cr'.phase # "absent" => cr' = o
           /\ fresh' = {}
BY AbsentType DEF Write, WellFormed, Absent, Objects

\* The end of the process, which forgets the pass and the cache.
LEMMA ExitStep ==
    ASSUME Inductive, Exit, FlagsTyped', CountersTyped', unguarded' = unguarded
    PROVE  Inductive'
<1> USE DEF Inductive, TypeOK, Exit
<1>1. ObjectsTyped'
    BY AbsentType DEF ObjectsTyped
<1>2. ControlTyped'
    BY DEF ControlTyped, NoPass
<1>3. CopiesAgree' /\ PassProgress'
    BY DEF CopiesAgree, WellFormed, PassProgress, Absent, NoPass
<1>4. (GuardedMode /\ NoOrphans)'
    BY DEF GuardedMode, NoOrphans, Absent, NoPass
<1>5. (StatusIsYoung /\ StatusIsHonest)'
    BY DEF StatusIsYoung, StatusIsHonest, Reported, Complete, Absent, NoPass
<1>. QED  BY <1>1, <1>2, <1>3, <1>4, <1>5

\* A crash of the process preserves the invariant.
LEMMA CrashStep == ASSUME Inductive, Crash PROVE Inductive'
<1>1. FlagsTyped'
    BY DEF Inductive, TypeOK, FlagsTyped, Crash, Exit
<1>2. CountersTyped'
    BY BoundsAssumption DEF Inductive, TypeOK, CountersTyped, Crash, Exit
<1>. QED  BY <1>1, <1>2, ExitStep DEF Crash

\* So does the exit after a failed request of InitializeOperand.
LEMMA InitFailsStep == ASSUME Inductive, InitFails PROVE Inductive'
<1>1. FlagsTyped'
    BY DEF Inductive, TypeOK, FlagsTyped, InitFails, Exit
<1>2. CountersTyped'
    BY BoundsAssumption DEF Inductive, TypeOK, CountersTyped, InitFails, Exit
<1>. QED  BY <1>1, <1>2, ExitStep DEF InitFails

\* A new CR has neither a finalizer nor a status that claims anything.
LEMMA UserCreateStep ==
    ASSUME Inductive, NEW s \in Specs, NEW m \in BOOLEAN, UserCreate(s, m)
    PROVE  Inductive'
<1> USE DEF Inductive, TypeOK, UserCreate, User
<1>0. /\ cr' = NewObject(s, m) /\ cr' \in Objects /\ fresh' = {}
      /\ cr'.phase = "live" /\ cr'.status = NoStatus /\ ~cr'.finalizer
    BY NewObjectType DEF Write, NewObject
<1>1. ObjectsTyped'
    BY <1>0 DEF ObjectsTyped
<1>2. FlagsTyped'
    BY DEF FlagsTyped
<1>3. ControlTyped'
    BY <1>0 DEF ControlTyped, StagesOf
<1>4. CountersTyped'
    BY BoundsAssumption DEF CountersTyped
<1>5. CopiesAgree'
    BY <1>0 DEF CopiesAgree, WellFormed
<1>6. PassProgress'
    BY DEF PassProgress, StagesOf, Finished
<1>7. (GuardedMode /\ NoOrphans)'
    <2>1. ~cr.finalizer
        BY DEF CopiesAgree, WellFormed, Absent
    <2>. QED  BY <2>1, <1>0 DEF GuardedMode, NoOrphans
<1>8. (StatusIsYoung /\ StatusIsHonest)'
    BY <1>0, NoStatusLemma
    DEF StatusIsYoung, StatusIsHonest, Reported, Complete
<1>. QED  BY <1>1, <1>2, <1>3, <1>4, <1>5, <1>6, <1>7, <1>8

\* A change of the spec leaves finalizer, phase and status alone.
LEMMA UserUpdateStep ==
    ASSUME Inductive, NEW s \in Specs, UserUpdate(s) PROVE Inductive'
<1> USE DEF Inductive, TypeOK, UserUpdate, User, Write
<1>1. ObjectsTyped'
    BY ObjectTypes, AbsentType DEF ObjectsTyped
<1>2. FlagsTyped'
    BY DEF FlagsTyped
<1>3. ControlTyped'
    BY DEF ControlTyped, StagesOf
<1>4. CountersTyped'
    BY BoundsAssumption DEF CountersTyped
<1>5. CopiesAgree'
    BY DEF CopiesAgree, WellFormed, Absent, ObjectsTyped, Objects
<1>6. PassProgress'
    BY DEF PassProgress, StagesOf, Finished
<1>7. (GuardedMode /\ NoOrphans)'
    BY DEF GuardedMode, NoOrphans, ObjectsTyped, Objects, Absent
<1>8. (StatusIsYoung /\ StatusIsHonest)'
    BY DEF StatusIsYoung, StatusIsHonest, Reported, Complete,
           ObjectsTyped, Objects, Absent
<1>. QED  BY <1>1, <1>2, <1>3, <1>4, <1>5, <1>6, <1>7, <1>8

\* A deletion leaves the CR in place if it has a finalizer.
LEMMA UserDeleteStep == ASSUME Inductive, UserDelete PROVE Inductive'
<1> USE DEF Inductive, TypeOK, UserDelete, User, Write
<1>1. ObjectsTyped'
    BY ObjectTypes, AbsentType DEF ObjectsTyped
<1>2. FlagsTyped'
    BY DEF FlagsTyped
<1>3. ControlTyped'
    BY DEF ControlTyped, StagesOf
<1>4. CountersTyped'
    BY BoundsAssumption DEF CountersTyped
<1>5. CopiesAgree'
    BY DEF CopiesAgree, WellFormed, Absent, ObjectsTyped, Objects
<1>6. PassProgress'
    BY DEF PassProgress, StagesOf, Finished
<1>7. (GuardedMode /\ NoOrphans)'
    BY DEF GuardedMode, NoOrphans, ObjectsTyped, Objects, Absent
<1>8. (StatusIsYoung /\ StatusIsHonest)'
    BY DEF StatusIsYoung, StatusIsHonest, Reported, Complete,
           ObjectsTyped, Objects, Absent
<1>. QED  BY <1>1, <1>2, <1>3, <1>4, <1>5, <1>6, <1>7, <1>8

\* Steps that change neither cr, rec nor dirty.
LEMMA QuietStep ==
    ASSUME Inductive,
           \/ UserToggleNoInit \/ SyncCache \/ Restart
           \/ InitReadConfigMap \/ InitList
           \/ \E c \in BOOLEAN : InitKeep(c)
    PROVE  Inductive'
<1> USE DEF Inductive, TypeOK, UserToggleNoInit, User, SyncCache, Restart,
            InitReadConfigMap, InitList, InitKeep, InitDone
<1>1. ObjectsTyped'
    BY ObjectTypes, AbsentType DEF ObjectsTyped
<1>2. FlagsTyped'
    BY DEF FlagsTyped
<1>3. ControlTyped'
    BY DEF ControlTyped, StagesOf
<1>4. CountersTyped'
    BY BoundsAssumption DEF CountersTyped
<1>5. CopiesAgree'
    BY DEF CopiesAgree, WellFormed, SameButLabel, NoPass
<1>6. PassProgress'
    BY DEF PassProgress, StagesOf, Finished
<1>7. (GuardedMode /\ NoOrphans)'
    BY DEF GuardedMode, NoOrphans, FlagsTyped, CopiesAgree, NoPass
<1>8. (StatusIsYoung /\ StatusIsHonest)'
    BY DEF StatusIsYoung, StatusIsHonest, Reported, Complete,
           CopiesAgree, NoPass
<1>. QED  BY <1>1, <1>2, <1>3, <1>4, <1>5, <1>6, <1>7, <1>8

\* InitializeOperand creates the default CR; it runs only with noInit unset.
LEMMA InitCreateStep ==
    ASSUME Inductive, NEW c \in BOOLEAN, InitCreate(c) PROVE Inductive'
<1>1. CASE InitFails
    BY <1>1, InitFailsStep
<1>2. CASE /\ cr.phase = "absent"
           /\ Write(NewObject(Instance(c), TRUE))
           /\ InitDone
    <2> USE <1>2 DEF Inductive, TypeOK, InitDone
    <2>0. /\ cr' \in Objects /\ fresh' = {}
          /\ cr'.phase = "live" /\ cr'.status = NoStatus
        BY NewObjectType, SpecsAssumption DEF Write, NewObject, Instance
    <2>1. ObjectsTyped'
        BY <2>0, AbsentType DEF ObjectsTyped
    <2>2. FlagsTyped'
        BY DEF FlagsTyped
    <2>3. ControlTyped'
        BY <2>0 DEF ControlTyped, StagesOf
    <2>4. CountersTyped'
        BY DEF CountersTyped
    <2>5. CopiesAgree'
        BY <2>0 DEF CopiesAgree, WellFormed
    <2>6. PassProgress'
        BY DEF PassProgress, StagesOf, Finished
    <2>7. (GuardedMode /\ NoOrphans)'
        BY DEF InitCreate, GuardedMode, NoOrphans
    <2>8. (StatusIsYoung /\ StatusIsHonest)'
        BY <2>0, NoStatusLemma
        DEF StatusIsYoung, StatusIsHonest, Reported, Complete
    <2>. QED  BY <2>1, <2>2, <2>3, <2>4, <2>5, <2>6, <2>7, <2>8
<1>. QED  BY <1>1, <1>2 DEF InitCreate

\* UpdateOperand overwrites the CR it listed, finalizers included; the history
\* variable records that noInit was unset.
LEMMA InitUpdateOperandStep ==
    ASSUME Inductive, NEW c \in BOOLEAN, InitUpdateOperand(c) PROVE Inductive'
<1>1. CASE InitFails
    BY <1>1, InitFailsStep
<1>2. CASE /\ "listed" \in fresh
           /\ Write([cr EXCEPT !.spec = Instance(c),
                               !.managed = TRUE, !.finalizer = FALSE])
           /\ InitDone
    <2> DEFINE o == [cr EXCEPT !.spec = Instance(c),
                               !.managed = TRUE, !.finalizer = FALSE]
    <2> USE <1>2 DEF Inductive, TypeOK, InitDone
    <2>0. o \in Objects /\ o.phase # "absent"
        <3>1. Instance(c) \in Specs
            BY SpecsAssumption DEF Instance
        <3>2. cr.phase # "absent"
            BY DEF InitUpdateOperand, CopiesAgree, Listing
        <3>3. cr \in Objects
            BY DEF ObjectsTyped
        <3>. QED  BY <3>1, <3>2, <3>3 DEF Objects
    <2>1. /\ cr' \in Objects /\ WellFormed(cr') /\ fresh' = {}
          /\ cr'.phase # "absent" =>
                 cr'.phase = cr.phase /\ cr'.status = cr.status
        BY <2>0, WriteLemma DEF ObjectsTyped, Objects
    <2>2. ObjectsTyped'
        BY <2>1, AbsentType DEF ObjectsTyped
    <2>3. FlagsTyped'
        BY DEF FlagsTyped
    <2>4. ControlTyped'
        BY <2>1 DEF ControlTyped, StagesOf
    <2>5. CountersTyped'
        BY DEF CountersTyped
    <2>6. CopiesAgree'
        BY <2>1 DEF CopiesAgree
    <2>7. PassProgress'
        BY DEF PassProgress, StagesOf, Finished
    <2>8. (GuardedMode /\ NoOrphans)'
        BY DEF InitUpdateOperand, GuardedMode, NoOrphans
    <2>9. (StatusIsYoung /\ StatusIsHonest)'
        BY <2>1 DEF StatusIsYoung, StatusIsHonest, Reported, Complete
    <2>. QED  BY <2>2, <2>3, <2>4, <2>5, <2>6, <2>7, <2>8, <2>9
<1>. QED  BY <1>1, <1>2 DEF InitUpdateOperand

\* The pass that only adds the finalizer.
LEMMA AddFinalizerStep == ASSUME Inductive, AddFinalizer PROVE Inductive'
<1> USE DEF Inductive, TypeOK, AddFinalizer, NeedsFinalizer
<1>0. /\ cr' = [cr EXCEPT !.finalizer = TRUE] /\ cr' \in Objects
      /\ cr'.finalizer /\ cr'.phase = "live" /\ cr'.status = cr.status
      /\ cr.phase = "live" /\ fresh' = {}
    BY ObjectTypes DEF CopiesAgree, Write, ObjectsTyped, Objects
<1>1. ObjectsTyped'
    BY <1>0 DEF ObjectsTyped
<1>2. FlagsTyped'
    BY DEF FlagsTyped
<1>3. ControlTyped'
    BY <1>0 DEF ControlTyped, StagesOf
<1>4. CountersTyped'
    BY DEF CountersTyped
<1>5. CopiesAgree'
    BY <1>0 DEF CopiesAgree, WellFormed
<1>6. PassProgress'
    BY DEF PassProgress, StagesOf, Finished
<1>7. (GuardedMode /\ NoOrphans)'
    BY <1>0 DEF GuardedMode, NoOrphans
<1>8. (StatusIsYoung /\ StatusIsHonest)'
    BY <1>0 DEF StatusIsYoung, StatusIsHonest, Reported, Complete
<1>. QED  BY <1>1, <1>2, <1>3, <1>4, <1>5, <1>6, <1>7, <1>8

\* A pass that runs stages starts at the first one, with the cached CR.
LEMMA StartStagesStep == ASSUME Inductive, StartStages PROVE Inductive'
<1> USE DEF Inductive, TypeOK, StartStages
<1>0. /\ rec' \in Passes /\ rec'.pc = "stage" /\ rec'.obs = cache
      /\ rec'.idx = 1 /\ rec'.next = cache.status
    BY DEF ObjectsTyped, Passes, Objects
<1>1. ObjectsTyped'
    BY <1>0 DEF ObjectsTyped
<1>2. FlagsTyped'
    BY DEF FlagsTyped
<1>3. ControlTyped'
    BY <1>0, StagesAssumption DEF ControlTyped, StagesOf
<1>4. CountersTyped'
    BY DEF CountersTyped
<1>5. CopiesAgree'
    BY <1>0 DEF CopiesAgree, SameButLabel
<1>6. PassProgress'
    BY <1>0, StagesLemma DEF PassProgress
<1>7. (GuardedMode /\ NoOrphans)'
    <2>1. cache.phase \in {"live", "deleting"}
        BY DEF ObjectsTyped, Objects
    <2>2. noInit => cache.finalizer
        BY <2>1 DEF NeedsFinalizer, CopiesAgree, WellFormed
    <2>. QED  BY <1>0, <2>2 DEF GuardedMode, NoOrphans
<1>8. (StatusIsYoung /\ StatusIsHonest)'
    BY <1>0 DEF StatusIsYoung, StatusIsHonest, Reported, Complete
<1>. QED  BY <1>1, <1>2, <1>3, <1>4, <1>5, <1>6, <1>7, <1>8

\* What the loop makes of the answer of a stage.
LEMMA AnswerLemma ==
    ASSUME Inductive, rec.pc = "stage",
           NEW s \in InstallSet \cup CleanupSet, NEW r \in Results,
           NEW obs \in Objects, obs.phase = rec.obs.phase,
           StageAnswers(s, r, obs)
    PROVE  /\ rec' \in Passes /\ rec'.obs = obs
           /\ rec'.pc \in {"stage", "done"}
           /\ \/ rec'.idx = rec.idx
              \/ r = ResultSuccess /\ rec'.idx = rec.idx + 1
           /\ rec'.idx <= Len(StagesOf(obs)) + 1
           /\ rec'.pc = "stage" => rec'.idx <= Len(StagesOf(obs))
           /\ rec'.pc = "done" /\ rec'.next.result = ResultSuccess
                  => rec'.idx > Len(StagesOf(obs))
<1> DEFINE idx == IF r = ResultSuccess THEN rec.idx + 1 ELSE rec.idx
           over == r # ResultSuccess \/ idx > Len(StagesOf(rec.obs))
           answer == [stage |-> s, result |-> r]
<1>1. rec.idx \in Nat \ {0} /\ rec.idx <= Len(StagesOf(rec.obs))
    BY DEF Inductive, TypeOK, ObjectsTyped, ControlTyped, Passes
<1>2. StagesOf(obs) = StagesOf(rec.obs) /\ Len(StagesOf(obs)) \in Nat
    BY StagesLemma DEF StagesOf
<1>3. answer \in Statuses /\ answer.result = r
    BY DEF Statuses
<1>4. rec' = [pc |-> IF over THEN "done" ELSE "stage", obs |-> obs,
              idx |-> idx, next |-> answer]
    BY DEF StageAnswers
<1>5. idx \in Nat \ {0} /\ idx <= Len(StagesOf(obs)) + 1
    BY <1>1, <1>2
<1>6. ~over => idx <= Len(StagesOf(obs))
    BY <1>1, <1>2
<1>. HIDE DEF idx, over, answer
<1>7. rec' \in Passes
    BY <1>3, <1>4, <1>5 DEF Passes
<1>8. /\ rec'.pc = IF over THEN "done" ELSE "stage"
      /\ rec'.obs = obs /\ rec'.idx = idx /\ rec'.next = answer
    BY <1>4
<1>. QED  BY <1>2, <1>3, <1>5, <1>6, <1>7, <1>8 DEF idx, over

\* One more installation stage has been run.
LEMMA ReconcileStageStep ==
    ASSUME Inductive, NEW r \in Results, ReconcileStage(r) PROVE Inductive'
<1> DEFINE s == InstallStages[rec.idx]
<1>1. /\ rec.pc = "stage" /\ rec.obs \in Objects /\ rec.obs.phase = "live"
      /\ rec.idx \in Nat \ {0} /\ rec.idx <= Len(InstallStages)
      /\ dirty' = dirty \cup ({s} \ {Migration})
    BY DEF Inductive, TypeOK, ObjectsTyped, ControlTyped, Passes, StagesOf,
           ReconcileStage
<1>2. s \in InstallSet
    BY <1>1, StagesLemma
<1>3. PICK m \in BOOLEAN : StageAnswers(s, r, [rec.obs EXCEPT !.managed = m])
    <2>1. rec.obs.managed \in BOOLEAN
        BY <1>1 DEF Objects
    <2>. QED  BY <2>1 DEF ReconcileStage
<1> DEFINE obs == [rec.obs EXCEPT !.managed = m]
<1>4. /\ obs \in Objects /\ obs.phase = "live"
      /\ obs.finalizer = rec.obs.finalizer
      /\ obs.spec = rec.obs.spec /\ obs.status = rec.obs.status
    BY <1>1, <1>3 DEF Objects
<1> HIDE DEF s, obs
<1>5. /\ rec' \in Passes /\ rec'.obs = obs
      /\ rec'.pc \in {"stage", "done"}
      /\ rec'.idx = rec.idx \/ rec'.idx = rec.idx + 1
      /\ rec'.idx <= Len(StagesOf(obs)) + 1
      /\ rec'.pc = "stage" => rec'.idx <= Len(StagesOf(obs))
      /\ rec'.pc = "done" /\ rec'.next.result = ResultSuccess
             => rec'.idx > Len(StagesOf(obs))
    BY <1>1, <1>2, <1>3, <1>4, AnswerLemma DEF obs
<1> USE DEF Inductive, TypeOK, ReconcileStage
<1>6. ObjectsTyped'
    BY <1>5 DEF ObjectsTyped
<1>7. FlagsTyped' /\ CountersTyped'
    BY DEF FlagsTyped, CountersTyped
<1>8. ControlTyped'
    BY <1>1, <1>2, <1>5 DEF ControlTyped
<1>9. CopiesAgree'
    BY <1>4, <1>5 DEF CopiesAgree, SameButLabel
<1>10. PassProgress'
    <2>1. ASSUME NEW i \in DOMAIN InstallStages, i < rec'.idx
          PROVE  InstallStages[i] \in dirty' \cup {Migration}
        <3>1. i \in Nat
            BY StagesLemma
        <3>2. i < rec.idx \/ i = rec.idx
            BY <2>1, <3>1, <1>1, <1>5
        <3>. QED  BY <3>2, <1>1 DEF PassProgress, s
    <2>. QED  BY <2>1, <1>4, <1>5 DEF PassProgress, Finished
<1>11. (GuardedMode /\ NoOrphans)'
    BY <1>1, <1>4, <1>5 DEF GuardedMode, NoOrphans
<1>12. (StatusIsYoung /\ StatusIsHonest /\ Migration \notin dirty)'
    BY <1>1, <1>4, <1>5 DEF StatusIsYoung, StatusIsHonest, Reported, Complete
<1>. QED  BY <1>6, <1>7, <1>8, <1>9, <1>10, <1>11, <1>12

\* One more cleanup stage has been run.
LEMMA CleanupStageStep ==
    ASSUME Inductive, NEW r \in Results, CleanupStage(r) PROVE Inductive'
<1> DEFINE s == CleanupStages[rec.idx]
<1>1. /\ rec.pc = "stage" /\ rec.obs \in Objects /\ rec.obs.phase = "deleting"
      /\ rec.idx \in Nat \ {0} /\ rec.idx <= Len(CleanupStages)
      /\ StageAnswers(s, r, rec.obs)
      /\ dirty' = IF r = ResultSuccess THEN dirty \ {s} ELSE dirty
    BY DEF Inductive, TypeOK, ObjectsTyped, ControlTyped, Passes, StagesOf,
           CleanupStage
<1>2. s \in CleanupSet
    BY <1>1, StagesLemma
<1> HIDE DEF s
<1>3. /\ rec' \in Passes /\ rec'.obs = rec.obs
      /\ rec'.pc \in {"stage", "done"}
      /\ rec'.idx = rec.idx \/ (r = ResultSuccess /\ rec'.idx = rec.idx + 1)
      /\ rec'.idx <= Len(StagesOf(rec.obs)) + 1
      /\ rec'.pc = "stage" => rec'.idx <= Len(StagesOf(rec.obs))
      /\ rec'.pc = "done" /\ rec'.next.result = ResultSuccess
             => rec'.idx > Len(StagesOf(rec.obs))
    BY <1>1, <1>2, AnswerLemma
<1> USE DEF Inductive, TypeOK, CleanupStage
<1>4. ObjectsTyped'
    BY <1>3 DEF ObjectsTyped
<1>5. FlagsTyped' /\ CountersTyped'
    BY DEF FlagsTyped, CountersTyped
<1>6. ControlTyped'
    BY <1>1, <1>3 DEF ControlTyped
<1>7. CopiesAgree'
    BY <1>3 DEF CopiesAgree, SameButLabel
<1>8. PassProgress'
    <2>1. ASSUME NEW i \in DOMAIN CleanupStages, i < rec'.idx
          PROVE  CleanupStages[i] \notin dirty'
        <3>1. i \in Nat
            BY StagesLemma
        <3>2. i < rec.idx \/ (r = ResultSuccess /\ i = rec.idx)
            BY <2>1, <3>1, <1>1, <1>3
        <3>. QED  BY <3>2, <1>1 DEF PassProgress, s
    <2>. QED  BY <2>1, <1>1, <1>3 DEF PassProgress, Finished
<1>9. (GuardedMode /\ NoOrphans)'
    BY <1>1, <1>3 DEF GuardedMode, NoOrphans
<1>10. (StatusIsYoung /\ StatusIsHonest /\ Migration \notin dirty)'
    BY <1>1, <1>3, NoStatusLemma
    DEF StatusIsYoung, StatusIsHonest, Reported, Complete
<1>. QED  BY <1>4, <1>5, <1>6, <1>7, <1>8, <1>9, <1>10

\* A cleanup pass that ran to its end leaves no stage dirty.
LEMMA CleanedUpLemma ==
    ASSUME Inductive, rec.pc = "done", CleanedUp PROVE dirty = {}
<1>1. \A i \in DOMAIN CleanupStages : CleanupStages[i] \notin dirty
    <2>1. rec.idx \in Nat /\ rec.idx > Len(CleanupStages)
        BY DEF CleanedUp, Finished, StagesOf, Inductive, TypeOK, ObjectsTyped,
               Passes
    <2>2. \A i \in DOMAIN CleanupStages : i < rec.idx
        BY <2>1, StagesLemma, StagesAssumption
    <2>. QED  BY <2>2 DEF CleanedUp, Inductive, PassProgress
<1>2. dirty \subseteq CleanupSet
    BY CleanupCoversInstall DEF Inductive, TypeOK, ControlTyped
<1>. QED  BY <1>1, <1>2 DEF CleanupSet

\* A pass that ends without a successful write.
LEMMA AbandonStep ==
    ASSUME Inductive, rec.pc = "done", rec' = NoPass,
           fresh' = fresh \ {"obs"}, FlagsTyped', CountersTyped',
           unguarded => unguarded',
           UNCHANGED << cr, cache, listed, up, init, noInit, dirty >>
    PROVE  Inductive'
<1> USE DEF Inductive, TypeOK
<1>1. ObjectsTyped' /\ ControlTyped'
    BY AbsentType DEF ObjectsTyped, ControlTyped, NoPass
<1>2. CopiesAgree' /\ PassProgress'
    BY DEF CopiesAgree, WellFormed, PassProgress, NoPass
<1>3. (GuardedMode /\ NoOrphans)'
    BY DEF GuardedMode, NoOrphans, NoPass
<1>4. (StatusIsYoung /\ StatusIsHonest)'
    BY DEF StatusIsYoung, StatusIsHonest, Reported, Complete, NoPass
<1>. QED  BY <1>1, <1>2, <1>3, <1>4

\* A pass that ends with a write: what the write must respect.
LEMMA EndPassStep ==
    ASSUME Inductive, up, rec.pc = "done", NEW o, EndPass(o), FlagsTyped',
           unguarded => unguarded',
           "obs" \in fresh =>
               /\ o \in Objects /\ o.phase = cr.phase
               /\ unguarded' \/ o.finalizer \/ dirty = {}
               /\ unguarded' \/ o.phase = "deleting" \/ o.finalizer
               /\ o.status = cr.status \/ o.status = rec.next
    PROVE  Inductive'
<1> USE DEF Inductive, TypeOK
<1>1. CASE "obs" \notin fresh
    <2>1. fresh' = fresh \ {"obs"}
        BY <1>1 DEF EndPass
    <2>. QED  BY <1>1, <2>1, AbandonStep DEF EndPass, CountersTyped
<1>2. CASE "obs" \in fresh
    <2>1. /\ cache = cr /\ rec.obs.phase = cr.phase
          /\ cr.phase \in {"live", "deleting"}
        BY <1>2 DEF CopiesAgree, SameButLabel, PassProgress, ObjectsTyped,
                    Objects
    <2>2. Write(o) /\ rec' = NoPass
        BY <1>2 DEF EndPass
    <2>3. /\ cr' \in Objects /\ WellFormed(cr') /\ fresh' = {}
          /\ cr'.phase # "absent" => cr' = o
          /\ cr' = o \/ ~o.finalizer
        <3>1. o \in Objects /\ o.phase # "absent"
            BY <1>2, <2>1
        <3>2. cr' = o \/ ~o.finalizer
            BY <2>2 DEF Write
        <3>. QED  BY <2>2, <3>1, <3>2, WriteLemma
    <2>4. ObjectsTyped' /\ ControlTyped' /\ CountersTyped'
        BY <2>2, <2>3, AbsentType
        DEF ObjectsTyped, ControlTyped, CountersTyped, EndPass, NoPass
    <2>5. /\ cache' = cache /\ listed' = listed /\ up' = up /\ dirty' = dirty
          /\ init' = init /\ noInit' = noInit /\ rec'.pc = "idle"
        BY <2>2 DEF EndPass, NoPass
    <2>6. CopiesAgree' /\ PassProgress' /\ GuardedMode' /\ NoOrphans'
        <3>1. CopiesAgree'
            <4>1. WellFormed(cache)
                BY DEF CopiesAgree
            <4>. QED  BY <2>3, <2>5, <4>1 DEF CopiesAgree
        <3>2. PassProgress'
            BY <2>5 DEF PassProgress
        <3>3. GuardedMode'
            <4> SUFFICES ASSUME ~unguarded'
                         PROVE  /\ init' \in {"config", "done"}
                                /\ cache'.phase = "live" /\ cache'.finalizer
                                       => cr'.finalizer
                BY <2>5 DEF GuardedMode
            <4>1. init' \in {"config", "done"}
                BY <2>5 DEF GuardedMode
            <4>2. cache'.phase = "live" => o.finalizer
                BY <1>2, <2>1, <2>5
            <4>. QED  BY <2>3, <4>1, <4>2
        <3>4. NoOrphans'
            BY <1>2, <2>3, <2>5 DEF NoOrphans
        <3>. QED  BY <3>1, <3>2, <3>3, <3>4
    <2>7. StatusIsYoung'
        <3>1. cr'.phase = "live" => cache'.phase # "deleting"
            BY <1>2, <2>1, <2>3, <2>5
        <3>. QED  BY <2>5, <3>1 DEF StatusIsYoung
    <2>8. StatusIsHonest'
        <3> SUFFICES ASSUME cr'.phase = "live", cr'.status = Complete
                     PROVE  InstallSet \ {Migration} \subseteq dirty'
            BY DEF StatusIsHonest, Reported, Complete
        <3>1. dirty' = dirty /\ cr' = o /\ cr.phase = "live"
            BY <1>2, <2>3 DEF EndPass
        <3>2. CASE cr.status = Complete
            BY <3>1, <3>2 DEF StatusIsHonest, Reported, Complete
        <3>3. CASE rec.next = Complete
            <4>1. rec.next.result = ResultSuccess
                BY <3>3 DEF Complete
            <4>2. rec.idx > Len(InstallStages) /\ rec.idx \in Nat
                BY <2>1, <3>1, <4>1
                DEF PassProgress, Finished, StagesOf, ObjectsTyped, Passes
            <4>3. \A i \in DOMAIN InstallStages : i < rec.idx
                BY <4>2, StagesLemma, StagesAssumption
            <4>. QED  BY <2>1, <3>1, <4>3 DEF PassProgress, InstallSet
        <3>. QED  BY <1>2, <3>1, <3>2, <3>3
    <2>. QED  BY <2>4, <2>5, <2>6, <2>7, <2>8 DEF EndPass
<1>. QED  BY <1>1, <1>2

\* The finalizer is released when no stage is dirty.
LEMMA ReleaseFinalizerStep ==
    ASSUME Inductive, ReleaseFinalizer PROVE Inductive'
<1> DEFINE o == [rec.obs EXCEPT !.finalizer = FALSE]
<1>1. FlagsTyped'
    BY DEF Inductive, TypeOK, FlagsTyped, ReleaseFinalizer, EndPass
<1>2. o \in Objects /\ o.phase = rec.obs.phase /\ o.status = rec.obs.status
    BY DEF Inductive, TypeOK, ObjectsTyped, Passes, Objects
<1>3. rec.obs.phase = "deleting" /\ dirty = {}
    BY CleanedUpLemma DEF ReleaseFinalizer, CleanedUp
<1>4. "obs" \in fresh => o.phase = cr.phase /\ o.status = cr.status
    BY <1>2 DEF Inductive, CopiesAgree, SameButLabel
<1>. QED  BY <1>1, <1>2, <1>3, <1>4, EndPassStep DEF ReleaseFinalizer

\* The finalizer is dropped from a live CR only with noInit unset.
LEMMA DropFinalizerStep == ASSUME Inductive, DropFinalizer PROVE Inductive'
<1> DEFINE o == [rec.obs EXCEPT !.finalizer = FALSE]
<1>1. FlagsTyped'
    BY DEF Inductive, TypeOK, FlagsTyped, DropFinalizer, EndPass
<1>2. o \in Objects /\ o.phase = rec.obs.phase /\ o.status = rec.obs.status
    BY DEF Inductive, TypeOK, ObjectsTyped, Passes, Objects
<1>3. "obs" \in fresh => o.phase = cr.phase /\ o.status = cr.status
    BY <1>2 DEF Inductive, CopiesAgree, SameButLabel
<1>. QED  BY <1>1, <1>2, <1>3, EndPassStep DEF DropFinalizer

\* The status that is stored is the one the pass has earned.
LEMMA UpdateStatusStep == ASSUME Inductive, UpdateStatus PROVE Inductive'
<1>1. FlagsTyped'
    BY DEF Inductive, TypeOK, FlagsTyped, UpdateStatus, EndPass
<1>2. CASE ~EndPass([cr EXCEPT !.status = rec.next])
    BY <1>1, <1>2, AbandonStep
    DEF UpdateStatus, Inductive, TypeOK, CountersTyped
<1>3. CASE EndPass([cr EXCEPT !.status = rec.next])
    <2> DEFINE o == [cr EXCEPT !.status = rec.next]
    <2>1. /\ o \in Objects /\ o.phase = cr.phase
          /\ o.finalizer = cr.finalizer /\ o.status = rec.next
        BY DEF Inductive, TypeOK, ObjectsTyped, Passes, Objects
    <2>2. "obs" \in fresh /\ cr.phase # "deleting" => unguarded \/ cr.finalizer
        <3>1. "obs" \in fresh => rec.obs.finalizer = cr.finalizer
            BY DEF Inductive, CopiesAgree, SameButLabel
        <3>. QED  BY <3>1 DEF Inductive, GuardedMode, UpdateStatus
    <2>3. unguarded \/ cr.finalizer \/ dirty = {}
        BY DEF Inductive, NoOrphans
    <2>. QED  BY <1>1, <1>3, <2>1, <2>2, <2>3, EndPassStep DEF UpdateStatus
<1>. QED  BY <1>2, <1>3 DEF UpdateStatus

\* A pass whose last request fails stores nothing.
LEMMA PassFailsStep == ASSUME Inductive, PassFails PROVE Inductive'
<1>1. FlagsTyped'
    BY DEF Inductive, TypeOK, FlagsTyped, PassFails
<1>2. CountersTyped'
    BY BoundsAssumption DEF Inductive, TypeOK, CountersTyped, PassFails
<1>. QED  BY <1>1, <1>2, AbandonStep DEF PassFails

\* Every step preserves the invariant.
LEMMA NextInductive == Inductive /\ [Next]_vars => Inductive'
<1> SUFFICES ASSUME Inductive, [Next]_vars PROVE Inductive'
    OBVIOUS
<1>1. CASE Users
    BY <1>1, UserCreateStep, UserUpdateStep, UserDeleteStep, QuietStep
    DEF Users
<1>2. CASE SyncCache \/ Restart
    BY <1>2, QuietStep
<1>3. CASE Crash
    BY <1>3, CrashStep
<1>4. CASE Initializer
    BY <1>4, QuietStep, InitCreateStep, InitUpdateOperandStep DEF Initializer
<1>5. CASE Pass
    <2>1. CASE AddFinalizer \/ StartStages
        BY <2>1, AddFinalizerStep, StartStagesStep
    <2>2. CASE \E r \in Results : RunStage(r)
        BY <2>2, ReconcileStageStep, CleanupStageStep DEF RunStage
    <2>3. CASE EndOfPass
        BY <2>3, ReleaseFinalizerStep, DropFinalizerStep, UpdateStatusStep,
           PassFailsStep DEF EndOfPass
    <2>. QED  BY <1>5, <2>1, <2>2, <2>3 DEF Pass
<1>6. CASE UNCHANGED vars
    <2> USE <1>6 DEF vars, Inductive
    <2>1. TypeOK' /\ (Migration \notin dirty)'
        BY DEF TypeOK, ObjectsTyped, FlagsTyped, ControlTyped, CountersTyped,
               StagesOf
    <2>2. CopiesAgree'
        BY DEF CopiesAgree, WellFormed, SameButLabel
    <2>3. PassProgress'
        BY DEF PassProgress, Finished, StagesOf
    <2>4. (GuardedMode /\ StatusIsYoung)'
        BY DEF GuardedMode, StatusIsYoung
    <2>5. (NoOrphans /\ StatusIsHonest)'
        BY DEF NoOrphans, StatusIsHonest, Reported, Complete
    <2>. QED  BY <2>1, <2>2, <2>3, <2>4, <2>5
<1>. QED  BY <1>1, <1>2, <1>3, <1>4, <1>5, <1>6 DEF Next

\* Every reachable state satisfies the inductive invariant.
THEOREM InductiveInvariant == Spec => []Inductive
BY InitInductive, NextInductive, PTL DEF Spec

\* The state keeps its types, and a pass never runs past its last stage.
THEOREM TypeCorrect == Spec => []TypeOK
<1>1. Inductive => TypeOK
    BY DEF Inductive
<1>. QED  BY <1>1, InductiveInvariant, PTL

\* For any stage lists: unless the operator acted with noInit unset, a CR with
\* installed stages has its finalizer.
THEOREM NoOrphansCorrect == Spec => []NoOrphans
<1>1. Inductive => NoOrphans
    BY DEF Inductive
<1>. QED  BY <1>1, InductiveInvariant, PTL

\* For any stage lists: a live CR whose status reports the last stage as a
\* success has all stages installed.
THEOREM StatusCorrect == Spec => []StatusIsHonest
<1>1. Inductive => StatusIsHonest
    BY DEF Inductive
<1>. QED  BY <1>1, InductiveInvariant, PTL

\* An update against the current resourceVersion that comes from a stage-free
\* pass or goes to the status subresource keeps the label.
LEMMA LabelStep ==
    ASSUME Inductive, [Next]_vars,
           cr.managed, cr'.phase = "live", ~cr'.managed
    PROVE  cr.finalizer /\ ~cr'.finalizer
<1> USE DEF Inductive, TypeOK
<1>0. cr \in Objects /\ rec.obs \in Objects /\ cr' # cr
    BY DEF ObjectsTyped, Passes
<1>1. cr.phase # "absent"
    BY DEF CopiesAgree, WellFormed, Absent
<1>2. ~Users
    BY <1>0, <1>1
    DEF Users, UserCreate, UserUpdate, UserDelete, UserToggleNoInit, Write,
        Objects, Absent
<1>3. ~(SyncCache \/ Restart \/ Crash)
    BY <1>0 DEF SyncCache, Restart, Crash, Exit
<1>4. ~Initializer
    <2>1. ~InitReadConfigMap /\ ~InitList
        BY <1>0 DEF InitReadConfigMap, InitList
    <2>2. \A c \in BOOLEAN : ~InitKeep(c) /\ ~InitCreate(c)
        BY <1>0, <1>1 DEF InitKeep, InitCreate, InitFails, Exit
    <2>3. ASSUME NEW c \in BOOLEAN, InitUpdateOperand(c) PROVE FALSE
        <3>1. [cr EXCEPT !.spec = Instance(c), !.managed = TRUE,
                         !.finalizer = FALSE].managed = TRUE
            BY <1>0 DEF Objects
        <3>2. Absent.phase # "live"
            BY DEF Absent
        <3>. QED  BY <1>0, <2>3, <3>1, <3>2
                  DEF InitUpdateOperand, InitFails, Exit, Write
    <2>. QED  BY <2>1, <2>2, <2>3 DEF Initializer
<1>5. ~AddFinalizer
    BY <1>0 DEF AddFinalizer, CopiesAgree, Write, Objects
<1>6. ~StartStages /\ ~PassFails /\ \A r \in Results : ~RunStage(r)
    BY <1>0 DEF StartStages, PassFails, RunStage, ReconcileStage, CleanupStage
<1>7. ~UpdateStatus
    BY <1>0 DEF UpdateStatus, EndPass, Write, Objects, Absent
<1>8. ASSUME ReleaseFinalizer \/ DropFinalizer
      PROVE  cr.finalizer /\ ~cr'.finalizer
    <2>1. /\ "obs" \in fresh
          /\ Write([rec.obs EXCEPT !.finalizer = FALSE])
        BY <1>0, <1>8 DEF ReleaseFinalizer, DropFinalizer, EndPass
    <2>2. rec.obs.finalizer = cr.finalizer /\ rec.obs.phase = cr.phase
        BY <2>1 DEF CopiesAgree, SameButLabel
    <2>3. rec.obs.phase # "deleting" /\ ~cr'.finalizer
        BY <1>0, <2>1 DEF Write, Objects, Absent
    <2>. QED  BY <1>8, <2>2, <2>3 DEF ReleaseFinalizer, CleanedUp, DropFinalizer
<1>9. UNCHANGED vars => FALSE
    BY <1>0 DEF vars
<1>. QED  BY <1>2, <1>3, <1>4, <1>5, <1>6, <1>7, <1>8, <1>9
          DEF Next, Pass, EndOfPass

\* A live CR loses its managed-by label only in the update that also drops its
\* finalizer.
THEOREM LabelCorrect == Spec => LabelLostOnlyWithFinalizer
<1>1. Inductive /\ [Next]_vars =>
          [cr.managed /\ cr'.phase = "live" /\ ~cr'.managed
               => cr.finalizer /\ ~cr'.finalizer]_vars
    BY LabelStep
<1>. QED  BY <1>1, InductiveInvariant, PTL DEF Spec, LabelLostOnlyWithFinalizer
=============================================================================
