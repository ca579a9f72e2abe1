------------------------- MODULE TargetDeletionProofs -------------------------
(***************************************************************************)
(* What TLAPS proves of TargetDeletion and of the releases it composes,    *)
(* for any number of releases, faults and mishaps.                         *)
(*                                                                         *)
(* Of the deletion: its types, that no enabled relation has a target that  *)
(* is going, that only releases which raced the request survive, and that  *)
(* it implements the environment of TargetRelease.  Neither invariant is   *)
(* inductive: a cleaner that is under way will write "deleted" without     *)
(* another look at the row, and a worker that is under way will write the  *)
(* workload without another look at the target.  Inv adds what is known of *)
(* the one and of the other.                                               *)
(*                                                                         *)
(* Of the releases by themselves (Spec): their types, that a verdict is    *)
(* earned, and that the first result of a release is its result.  A worker *)
(* that has confirmed the rollout is about to write "succeeded", so that   *)
(* VerdictInv adds what the place of a worker says of its release.  Both   *)
(* hold of the composition, which implements TargetRelease.                *)
(***************************************************************************)
EXTENDS TargetDeletion, TLAPS

Going == {"deleting", "deleted"}

\* A cleaner only works on a target that is going, unless somebody made it usable.
CleanersOK ==
  target \notin Going /\ ~abandoned => \A a \in Actors : cleaner[a] = "idle"

\* Whoever still deploys to a target that is going did so when the deletion was requested.
RacersKnown ==
  target \in Going /\ ~abandoned => \A r \in Releases : worker[r] # "idle" => r \in racing

\* Once a cleaner has removed the runtime, only such a release has put something there.
Swept ==
  (\E a \in Actors : cleaner[a] \in {"finish", "commit"}) /\ ~abandoned
    => workload.by \in {0} \cup racing

Inv == /\ DeletionTypeOK /\ CleanersOK /\ RacersKnown /\ Swept
       /\ NoRelationToWhatGoes /\ LeftoversWereRacing

\* What a step is to the releases: a step of TargetRelease, or nothing.
Implements == Next \/ UNCHANGED vars

-----------------------------------------------------------------------------
(* Helpers.                                                                *)

\* The releases keep their types when only the target and the workload change.
LEMMA ReleasesTyped ==
  ASSUME Inv, UNCHANGED others, workload' \in {workload, Nothing},
         target' \in {"active", "deleting", "delete_failed", "deleted"}
  PROVE  TypeOK'
BY DEF Inv, DeletionTypeOK, TypeOK, Releases, Nothing, others

LEMMA MishapBound == ASSUME Inv, Mishap PROVE mishaps' \in 0..MaxMishaps
BY DeletionAssumption DEF Inv, DeletionTypeOK, Mishap

\* A change of the status that the releases see as a move of their environment.
LEMMA TargetImplements ==
  ASSUME Inv, UNCHANGED <<others, workload>>,
         \/ target' = target
         \/ /\ target # "deleted"
            /\ target' \in {"active", "deleting", "delete_failed", "deleted"}
  PROVE  Implements
<1>1. CASE target' = target
  BY <1>1 DEF Implements, vars, others
<1>2. CASE target # "deleted" /\ target' \in {"active", "deleting", "delete_failed", "deleted"}
  BY <1>2 DEF Implements, Next, TargetMoves, others
<1> QED BY <1>1, <1>2

\* Nothing that was going becomes usable without the cleaners being accounted for.
LEMMA ReopenGives ==
  ASSUME Inv, NEW status \in {"active", "delete_failed"}, NEW except \in SUBSET Actors,
         Reopen(status, except), target # "deleted",
         cleaner' = [a \in Actors |-> IF a \in except THEN "idle" ELSE cleaner[a]]
  PROVE  /\ target' = status /\ abandoned' \in BOOLEAN
         /\ abandoned => abandoned'
         /\ ~abandoned' => \A a \in Actors : cleaner'[a] = "idle"
<1>1. target \in Going => target = "deleting"
  BY DEF Going
<1>2. abandoned' \in BOOLEAN /\ (abandoned => abandoned')
  BY DEF Reopen, Inv, DeletionTypeOK
<1>3. ASSUME ~abandoned', NEW a \in Actors, a \notin except PROVE cleaner[a] = "idle"
  BY <1>1, <1>2, <1>3 DEF Reopen, CleanerAt, Inv, CleanersOK
<1> QED BY <1>2, <1>3 DEF Reopen

\* What DeletionTypeOK says of the variables a quiet step may change.
RestTyped ==
  /\ request \in {"idle", "enqueue", "undo"} /\ edit \in BOOLEAN /\ incoming \in BOOLEAN
  /\ tasks \subseteq Actors /\ held \in BOOLEAN
  /\ cleaner \in [Actors -> {"idle", "runtime", "finish", "commit"}]
  /\ mishaps \in 0..MaxMishaps

\* A cleaner that gives up, or goes no further than what it has done allows.
Humble(a) == \/ cleaner'[a] \in {"idle", cleaner[a]}
             \/ cleaner[a] = "finish" /\ cleaner'[a] = "commit"
             \/ target = "deleting" /\ cleaner'[a] = "runtime"

\* A step that leaves the status of the target alone.
LEMMA QuietGood ==
  ASSUME Inv, UNCHANGED <<others, workload, target, abandoned, racing>>, RestTyped',
         \A a \in Actors : Humble(a),
         incoming' => incoming \/ target = "active"
  PROVE  Inv' /\ Implements
<1>1. DeletionTypeOK'
  <2>1. TypeOK'
    BY ReleasesTyped DEF Inv, DeletionTypeOK, TypeOK
  <2> QED BY <2>1 DEF Inv, DeletionTypeOK, RestTyped
<1>2. CleanersOK'
  BY DEF Inv, CleanersOK, Humble, Going
<1>3. RacersKnown'
  BY DEF Inv, RacersKnown, others
<1>4. Swept'
  BY DEF Inv, Swept, Humble
<1>5. NoRelationToWhatGoes' /\ LeftoversWereRacing'
  BY DEF Inv, NoRelationToWhatGoes, LeftoversWereRacing
<1>6. Implements
  BY TargetImplements
<1> QED BY <1>1, <1>2, <1>3, <1>4, <1>5, <1>6 DEF Inv

\* A step that writes "active" or "delete_failed" over whatever the status is, unless the
\* target is gone.
LEMMA StatusGood ==
  ASSUME Inv, UNCHANGED <<others, workload, racing, incoming>>, RestTyped',
         NEW status \in {"active", "delete_failed"}, NEW except \in SUBSET Actors,
         IF target = "deleted" THEN UNCHANGED <<target, abandoned>> ELSE Reopen(status, except),
         cleaner' = [a \in Actors |-> IF a \in except THEN "idle" ELSE cleaner[a]]
  PROVE  Inv' /\ Implements
<1>1. CASE target = "deleted"
  BY <1>1, QuietGood DEF Humble, Inv, DeletionTypeOK
<1>2. CASE target # "deleted"
  <2>1. /\ target' = status /\ abandoned' \in BOOLEAN
        /\ abandoned => abandoned'
        /\ ~abandoned' => \A a \in Actors : cleaner'[a] = "idle"
    BY <1>2, ReopenGives
  <2>2. DeletionTypeOK'
    <3>1. TypeOK'
      BY <2>1, ReleasesTyped
    <3> QED BY <2>1, <3>1 DEF Inv, DeletionTypeOK, RestTyped
  <2>3. CleanersOK' /\ RacersKnown' /\ NoRelationToWhatGoes' /\ LeftoversWereRacing'
    BY <2>1 DEF CleanersOK, RacersKnown, NoRelationToWhatGoes, LeftoversWereRacing, Going
  <2>4. Swept'
    BY <2>1 DEF Swept
  <2>5. Implements
    BY <1>2, <2>1, TargetImplements
  <2> QED BY <2>2, <2>3, <2>4, <2>5 DEF Inv
<1> QED BY <1>1, <1>2

-----------------------------------------------------------------------------
(* The API.                                                                *)

LEMMA QuietApiGood ==
  ASSUME Inv, ReadTarget \/ BindService \/ UnbindService \/ EnqueueCleanup
              \/ EnqueueRefused \/ ApiStops \/ RecoverCleanup \/ LockExpires
  PROVE  Inv' /\ Implements
<1> USE DEF ReadTarget, BindService, UnbindService, EnqueueCleanup, EnqueueRefused, ApiStops,
            RecoverCleanup, LockExpires
<1>1. UNCHANGED <<others, workload, target, abandoned, racing, cleaner>>
  BY DEF vars, others
<1>2. mishaps' \in 0..MaxMishaps
  BY MishapBound DEF Inv, DeletionTypeOK
<1>3. RestTyped'
  BY <1>1, <1>2 DEF RestTyped, Inv, DeletionTypeOK, Queue, Actors
<1>4. \A a \in Actors : Humble(a)
  BY <1>1 DEF Humble
<1>5. incoming' => incoming \/ target = "active"
  OBVIOUS
<1> QED BY <1>1, <1>3, <1>4, <1>5, QuietGood

LEMMA SaveTargetGood ==
  ASSUME Inv, SaveTarget
  PROVE  Inv' /\ Implements
<1>1. UNCHANGED <<others, workload, racing, incoming, cleaner>> /\ RestTyped'
  BY DEF SaveTarget, RestTyped, Inv, DeletionTypeOK
<1>2. cleaner' = [a \in Actors |-> IF a \in {} THEN "idle" ELSE cleaner[a]]
  BY <1>1 DEF Inv, DeletionTypeOK
<1> QED BY <1>1, <1>2, StatusGood DEF SaveTarget

LEMMA UndoDeletionGood ==
  ASSUME Inv, UndoDeletion
  PROVE  Inv' /\ Implements
<1>1. UNCHANGED <<others, workload, racing, incoming, cleaner>> /\ RestTyped'
  BY DEF UndoDeletion, RestTyped, Inv, DeletionTypeOK
<1>2. cleaner' = [a \in Actors |-> IF a \in {} THEN "idle" ELSE cleaner[a]]
  BY <1>1 DEF Inv, DeletionTypeOK
<1> QED BY <1>1, <1>2, StatusGood DEF UndoDeletion, Fails

LEMMA RequestDeleteGood ==
  ASSUME Inv, RequestDelete
  PROVE  Inv' /\ Implements
<1> USE DEF RequestDelete
<1>1. target \notin Going /\ target \in {"active", "delete_failed"}
  BY DEF CanMutate, Going
<1>2. DeletionTypeOK'
  <2>1. TypeOK'
    BY ReleasesTyped
  <2>2. DOMAIN worker = Releases
    BY DEF Inv, DeletionTypeOK, TypeOK
  <2> QED BY <2>1, <2>2 DEF Inv, DeletionTypeOK
<1>3. CleanersOK' /\ LeftoversWereRacing'
  BY DEF CleanersOK, LeftoversWereRacing, Going
<1>4. RacersKnown'
  BY DEF RacersKnown, others, Inv, DeletionTypeOK, TypeOK, Releases
<1>5. Swept'
  BY <1>1 DEF Inv, Swept, CleanersOK
<1>6. NoRelationToWhatGoes'
  BY DEF NoRelationToWhatGoes
<1>7. Implements
  BY <1>1, TargetImplements
<1> QED BY <1>2, <1>3, <1>4, <1>5, <1>6, <1>7 DEF Inv

-----------------------------------------------------------------------------
(* The worker.                                                             *)

\* A cleaner that goes back to idle and writes "delete_failed".
LEMMA ConflictGood ==
  ASSUME Inv, NEW a \in Actors, CleanerTo(a, "idle"), Fails({a}),
         UNCHANGED <<others, workload, racing, incoming, request, edit>>,
         tasks' \subseteq Actors, held' \in BOOLEAN, mishaps' \in 0..MaxMishaps
  PROVE  Inv' /\ Implements
<1>1. cleaner' = [b \in Actors |-> IF b \in {a} THEN "idle" ELSE cleaner[b]]
  BY DEF CleanerTo, Inv, DeletionTypeOK
<1>2. RestTyped'
  BY <1>1 DEF RestTyped, Inv, DeletionTypeOK
<1> QED BY <1>1, <1>2, StatusGood DEF Fails

\* A cleaner that moves and leaves the status alone.
LEMMA MoveGood ==
  ASSUME Inv, NEW a \in Actors, NEW place \in {"idle", "runtime", "commit"}, CleanerTo(a, place),
         place = "runtime" => target = "deleting",
         place = "commit" => cleaner[a] = "finish",
         UNCHANGED <<others, workload, target, abandoned, racing, incoming, request, edit>>,
         tasks' \subseteq Actors, held' \in BOOLEAN, mishaps' \in 0..MaxMishaps
  PROVE  Inv' /\ Implements
<1>1. RestTyped'
  BY DEF CleanerTo, RestTyped, Inv, DeletionTypeOK
<1>2. \A b \in Actors : Humble(b)
  BY DEF CleanerTo, Humble, Inv, DeletionTypeOK
<1> QED BY <1>1, <1>2, QuietGood

LEMMA TakeCleanupGood ==
  ASSUME Inv, NEW a \in Actors, TakeCleanup(a)
  PROVE  Inv' /\ Implements
<1>1. /\ UNCHANGED <<others, workload, racing, incoming, request, edit>>
      /\ tasks' \subseteq Actors /\ held' \in BOOLEAN /\ mishaps' \in 0..MaxMishaps
  BY DEF TakeCleanup, Conflict, Done, Inv, DeletionTypeOK
<1>2. CASE CleanerTo(a, "idle") /\ UNCHANGED <<target, abandoned>>
  BY <1>1, <1>2, MoveGood
<1>3. CASE CleanerTo(a, "runtime") /\ target = "deleting" /\ UNCHANGED <<target, abandoned>>
  BY <1>1, <1>3, MoveGood
<1>4. CASE CleanerTo(a, "idle") /\ Fails({a})
  BY <1>1, <1>4, ConflictGood
<1> QED BY <1>2, <1>3, <1>4 DEF TakeCleanup, Conflict, Done

LEMMA CleanRuntimeGood ==
  ASSUME Inv, NEW a \in Actors, RemoveRuntime(a)
  PROVE  Inv' /\ Implements
<1> USE DEF RemoveRuntime, CleanerAt, CleanerTo
<1>1. UNCHANGED others
  BY DEF others
<1>2. DeletionTypeOK'
  <2>1. TypeOK'
    BY <1>1, ReleasesTyped DEF Inv, DeletionTypeOK, TypeOK
  <2> QED BY <2>1 DEF Inv, DeletionTypeOK
<1>3. CleanersOK'
  BY DEF Inv, DeletionTypeOK, CleanersOK
<1>4. RacersKnown'
  BY <1>1 DEF Inv, RacersKnown, others
<1>5. Swept' /\ LeftoversWereRacing'
  BY DEF Swept, LeftoversWereRacing, Nothing
<1>6. NoRelationToWhatGoes'
  BY DEF Inv, NoRelationToWhatGoes
<1>7. Implements
  BY <1>1 DEF Implements, Next, CleanRuntime, others
<1> QED BY <1>2, <1>3, <1>4, <1>5, <1>6, <1>7 DEF Inv

LEMMA CountReferencesGood ==
  ASSUME Inv, NEW a \in Actors, CountReferences(a)
  PROVE  Inv' /\ Implements
<1>1. /\ UNCHANGED <<others, workload, racing, incoming, request, edit>>
      /\ tasks' \subseteq Actors /\ held' \in BOOLEAN /\ mishaps' \in 0..MaxMishaps
  BY DEF CountReferences, Conflict, Inv, DeletionTypeOK
<1>2. CASE CleanerTo(a, "idle") /\ Fails({a})
  BY <1>1, <1>2, ConflictGood
<1>3. CASE CleanerTo(a, "commit") /\ UNCHANGED <<target, abandoned>>
  <2>1. cleaner[a] = "finish"
    BY DEF CountReferences, CleanerAt
  <2> QED BY <1>1, <1>3, <2>1, MoveGood
<1> QED BY <1>2, <1>3 DEF CountReferences, Conflict

\* The row is written whatever its status has become: a status that is not "deleting"
\* means that the target was made usable under the cleaner.
LEMMA CommitDeletionGood ==
  ASSUME Inv, NEW a \in Actors, CommitDeletion(a)
  PROVE  Inv' /\ Implements
<1> USE DEF CommitDeletion, Done, CleanerAt, CleanerTo
<1>1. UNCHANGED <<others, workload, incoming, abandoned, racing>> /\ target' = "deleted"
  OBVIOUS
<1>2. target \in Going \/ abandoned
  BY DEF Inv, CleanersOK
<1>3. DeletionTypeOK'
  <2>1. TypeOK'
    BY <1>1, ReleasesTyped
  <2> QED BY <2>1 DEF Inv, DeletionTypeOK
<1>4. CleanersOK' /\ RacersKnown'
  BY <1>1, <1>2 DEF Inv, CleanersOK, RacersKnown, Going, others
<1>5. Swept'
  BY <1>1 DEF Inv, DeletionTypeOK, Swept
<1>6. NoRelationToWhatGoes'
  BY <1>1, <1>2 DEF Inv, NoRelationToWhatGoes, Going
<1>7. LeftoversWereRacing'
  BY <1>1 DEF Inv, Swept, LeftoversWereRacing
<1>8. Implements
  BY <1>1, TargetImplements
<1> QED BY <1>3, <1>4, <1>5, <1>6, <1>7, <1>8 DEF Inv

LEMMA CleanupFailsGood ==
  ASSUME Inv, NEW a \in Actors, CleanupFails(a)
  PROVE  Inv' /\ Implements
<1>1. /\ UNCHANGED <<others, workload, racing, incoming, request, edit>> /\ CleanerTo(a, "idle")
      /\ tasks' \subseteq Actors /\ held' \in BOOLEAN
  BY DEF CleanupFails, Inv, DeletionTypeOK
<1>2. mishaps' \in 0..MaxMishaps
  BY MishapBound DEF CleanupFails
<1>3. CASE UNCHANGED <<target, abandoned>>
  BY <1>1, <1>2, <1>3, MoveGood
<1>4. CASE Fails({a})
  BY <1>1, <1>2, <1>4, ConflictGood
<1> QED BY <1>3, <1>4 DEF CleanupFails

LEMMA CleanerStopsGood ==
  ASSUME Inv, NEW a \in Actors, CleanerStops(a)
  PROVE  Inv' /\ Implements
<1>1. /\ UNCHANGED <<others, workload, target, abandoned, racing, incoming, request, edit>>
      /\ CleanerTo(a, "idle") /\ tasks' \subseteq Actors /\ held' \in BOOLEAN
  BY DEF CleanerStops, Inv, DeletionTypeOK
<1>2. mishaps' \in 0..MaxMishaps
  BY MishapBound DEF CleanerStops
<1> QED BY <1>1, <1>2, MoveGood

-----------------------------------------------------------------------------
(* The releases.                                                           *)

\* What the release that a step is about does to what Inv speaks of.
ReleaseGives(r) ==
  /\ TypeOK' /\ target' = target
  /\ \A s \in Releases :
       worker'[s] # "idle" => worker[s] # "idle" \/ target \in {"active", "delete_failed"}
  /\ workload'.by # workload.by => worker[r] # "idle" /\ workload'.by = r

LEMMA ReleaseStepGives ==
  ASSUME Inv, NEW r \in Releases, ReleaseStep(r)
  PROVE  ReleaseGives(r)
<1> USE DEF ReleaseGives, TypeOK, Releases, Active, Finish,
            At, Go
<1>1. TypeOK
  BY DEF Inv, DeletionTypeOK
<1>2. Fault => faults' \in 0..MaxFaults
  BY <1>1, ReleaseAssumption DEF Fault
<1>3. CASE CreateRelease(r) \/ CreateUnqueued(r)
  BY <1>1, <1>2, <1>3 DEF CreateRelease, CreateUnqueued, Create
<1>4. CASE UndoRelease(r) \/ CancelRelease(r) \/ Expire(r) \/ Observe(r)
  BY <1>1, <1>4 DEF UndoRelease, CancelRelease, Expire, Observe
<1>5. CASE TakeTask(r)
  BY <1>1, <1>5 DEF TakeTask, CanMutate
<1>6. CASE Recheck(r)
  BY <1>1, <1>6 DEF Recheck
<1>7. CASE ApplyResources(r)
  <2>1. workload' \in [by : {0} \cup applied', phase : {"progressing", "ready", "broken"}]
    BY <1>7 DEF ApplyResources
  <2> QED BY <1>1, <1>7, <2>1 DEF ApplyResources
<1>8. CASE WaitForRollout(r) \/ Succeed(r)
  BY <1>1, <1>8 DEF WaitForRollout, Succeed
<1>9. CASE StageFails(r)
  BY <1>1, <1>2, <1>9 DEF StageFails
<1>10. CASE WorkerStops(r)
  BY <1>1, <1>2, <1>10 DEF WorkerStops
<1> QED BY <1>3, <1>4, <1>5, <1>6, <1>7, <1>8, <1>9, <1>10 DEF ReleaseStep

LEMMA ReleaseStepGood ==
  ASSUME Inv, ReleasesStep
  PROVE  Inv' /\ Implements
<1>1. UNCHANGED <<request, edit, incoming, tasks, held, cleaner, abandoned, racing, mishaps>>
  BY DEF ReleasesStep, deletion
<1>2. ASSUME NEW r \in Releases, ReleaseStep(r)
      PROVE  Inv' /\ Implements
  <2>1. ReleaseGives(r)
    BY <1>2, ReleaseStepGives
  <2> USE <1>1, <2>1 DEF ReleaseGives
  <2>2. DeletionTypeOK'
    BY DEF Inv, DeletionTypeOK
  <2>3. CleanersOK' /\ NoRelationToWhatGoes'
    BY DEF Inv, CleanersOK, NoRelationToWhatGoes
  <2>4. RacersKnown'
    BY DEF Inv, RacersKnown, Going
  <2>5. Swept'
    <3>1. (\E a \in Actors : cleaner[a] \in {"finish", "commit"}) /\ ~abandoned => target \in Going
      BY DEF Inv, CleanersOK
    <3>2. target \in Going /\ ~abandoned /\ worker[r] # "idle" => r \in racing
      BY DEF Inv, RacersKnown
    <3> QED BY <3>1, <3>2 DEF Inv, Swept
  <2>6. LeftoversWereRacing'
    <3>1. target = "deleted" /\ ~abandoned /\ worker[r] # "idle" => r \in racing
      BY DEF Inv, RacersKnown, Going
    <3> QED BY <3>1 DEF Inv, LeftoversWereRacing
  <2>7. Implements
    BY <1>2 DEF Implements, Next, Releases
  <2> QED BY <2>2, <2>3, <2>4, <2>5, <2>6, <2>7 DEF Inv
<1>3. CASE RolloutMoves
  <2>1. PICK phase \in {"ready", "broken"} : workload' = [workload EXCEPT !.phase = phase]
    BY <1>3 DEF RolloutMoves
  <2>2. UNCHANGED <<release, undo, queue, worker, applied, target, faults>>
    BY <1>3 DEF RolloutMoves
  <2>3. /\ workload \in [by : {0} \cup applied, phase : {"progressing", "ready", "broken"}]
        /\ workload' \in [by : {0} \cup applied, phase : {"progressing", "ready", "broken"}]
        /\ workload'.by = workload.by
    BY <2>1 DEF Inv, DeletionTypeOK, TypeOK
  <2>4. DeletionTypeOK'
    BY <1>1, <2>2, <2>3 DEF Inv, DeletionTypeOK, TypeOK, Releases
  <2>5. CleanersOK' /\ RacersKnown' /\ Swept' /\ NoRelationToWhatGoes' /\ LeftoversWereRacing'
    BY <1>1, <2>2, <2>3
    DEF Inv, CleanersOK, RacersKnown, Swept, NoRelationToWhatGoes, LeftoversWereRacing
  <2>6. Implements
    BY <1>3 DEF Implements, Next
  <2> QED BY <2>4, <2>5, <2>6 DEF Inv
<1> QED BY <1>2, <1>3 DEF ReleasesStep

-----------------------------------------------------------------------------

LEMMA InitInv == DeletionInit => Inv
<1> SUFFICES ASSUME DeletionInit PROVE Inv
  OBVIOUS
<1>1. DeletionTypeOK
  <2>1. workload \in [by : {0} \cup applied, phase : {"progressing", "ready", "broken"}]
    BY DEF DeletionInit, Init, Nothing
  <2>2. faults \in 0..MaxFaults /\ mishaps \in 0..MaxMishaps
    BY DeletionAssumption, ReleaseAssumption DEF DeletionInit, Init
  <2>3. TypeOK
    BY <2>1, <2>2 DEF DeletionInit, Init, TypeOK
  <2> QED BY <2>2, <2>3 DEF DeletionInit, DeletionTypeOK
<1>2. CleanersOK /\ RacersKnown /\ Swept /\ NoRelationToWhatGoes /\ LeftoversWereRacing
  BY DEF DeletionInit, Init, Nothing, Releases,
         CleanersOK, RacersKnown, Swept, NoRelationToWhatGoes, LeftoversWereRacing, Going, Actors
<1> QED BY <1>1, <1>2 DEF Inv

LEMMA StepGood ==
  ASSUME Inv, [DeletionNext]_allVars
  PROVE  Inv' /\ Implements
<1>1. CASE DeletionStep
  <2>1. ASSUME NEW a \in Actors, CleanerStep(a) \/ CleanupFails(a) \/ CleanerStops(a)
        PROVE  Inv' /\ Implements
    BY <2>1, TakeCleanupGood, CleanRuntimeGood, CountReferencesGood, CommitDeletionGood,
       CleanupFailsGood, CleanerStopsGood DEF CleanerStep
  <2> QED BY <1>1, <2>1, QuietApiGood, SaveTargetGood, RequestDeleteGood, UndoDeletionGood
          DEF DeletionStep
<1>2. CASE ReleasesStep
  BY <1>2, ReleaseStepGood
<1>3. CASE UNCHANGED allVars
  <2>1. UNCHANGED <<others, workload, target, abandoned, racing, incoming, cleaner>>
    BY <1>3 DEF allVars, vars, deletion, others
  <2>2. RestTyped' /\ \A a \in Actors : Humble(a)
    BY <1>3 DEF RestTyped, Humble, Inv, DeletionTypeOK, allVars, deletion
  <2> QED BY <2>1, <2>2, QuietGood
<1> QED BY <1>1, <1>2, <1>3 DEF DeletionNext

\* Inv holds in every reachable state: with it, what the cleaners and the workers that are
\* under way can still do to a target that is going.
THEOREM Invariance == DeletionSpec => []Inv
<1>1. Inv /\ [DeletionNext]_allVars => Inv'
  BY StepGood
<1> QED BY InitInv, <1>1, PTL DEF DeletionSpec

\* Every variable keeps its type, those of TargetRelease included.
THEOREM TypeCorrect == DeletionSpec => []DeletionTypeOK
<1>1. Inv => DeletionTypeOK
  BY DEF Inv
<1> QED BY Invariance, <1>1, PTL

\* A target that is going or gone has no enabled relation, unless it was made usable again
\* under a cleanup.
THEOREM RelationsGone == DeletionSpec => []NoRelationToWhatGoes
<1>1. Inv => NoRelationToWhatGoes
  BY DEF Inv
<1> QED BY Invariance, <1>1, PTL

\* What runs after the deletion was being deployed when the deletion was requested.
THEOREM OnlyRacersLeft == DeletionSpec => []LeftoversWereRacing
<1>1. Inv => LeftoversWereRacing
  BY DEF Inv
<1> QED BY Invariance, <1>1, PTL

\* TargetDeletion implements TargetRelease: what the edits, the requests and the cleaners
\* do to a target is what the releases take for their environment.
THEOREM DeletionIsEnvironment == DeletionSpec => ReleasesGoOn
<1>1. DeletionInit => Init
  BY DEF DeletionInit
<1>2. Inv /\ [DeletionNext]_allVars => [Next]_vars
  BY StepGood DEF Implements
<1> QED BY Invariance, <1>1, <1>2, PTL DEF DeletionSpec, ReleasesGoOn, Spec

-----------------------------------------------------------------------------
(* The releases.                                                           *)

Results == {"succeeded", "failed", "superseded", "canceled"}

\* A worker only works on a release it has started, and past ApplyResources the
\* release has been in the pod template.
WorkersOK ==
  \A r \in Releases :
    /\ worker[r] # "idle" => release[r] \notin {"none", "pending"}
    /\ worker[r] \in {"wait", "confirm"} => r \in applied

VerdictInv == TypeOK /\ WorkersOK /\ VerdictsAreEarned

\* What a step may do to the releases: nothing, or one move of the lifecycle.
KeepsResults == Lifecycle!Next \/ UNCHANGED release

-----------------------------------------------------------------------------

\* A step that changes the status of one release by a move of the lifecycle is a step
\* of the lifecycle.
LEMMA OneMove ==
  ASSUME NEW r \in Releases, NEW to \in Lifecycle!Statuses,
         Lifecycle!Moves(release[r], to),
         release' = [release EXCEPT ![r] = to]
  PROVE  KeepsResults
BY DEF KeepsResults, Lifecycle!Next

\* finishDeployRelease writes a result over an active status only.
LEMMA FinishKeeps ==
  ASSUME VerdictInv, NEW r \in Releases, NEW to \in Results, Finish(r, to),
         release[r] = "running" \/ to \in {"failed", "canceled"}
  PROVE  KeepsResults
<1>1. CASE release[r] \in Active
  <2>1. release' = [release EXCEPT ![r] = to]
    BY <1>1 DEF Finish
  <2>2. to \in Lifecycle!Statuses /\ Lifecycle!Moves(release[r], to)
    BY <1>1
    DEF Active, Results, Lifecycle!Statuses, Lifecycle!Results, Lifecycle!Waiting, Lifecycle!Moves
  <2> QED BY <2>1, <2>2, OneMove
<1>2. CASE release[r] \notin Active
  <2>1. release' = release
    BY <1>2 DEF Finish, VerdictInv, TypeOK
  <2> QED BY <2>1 DEF KeepsResults
<1> QED BY <1>1, <1>2

\* What finishDeployRelease does to each release.
LEMMA FinishGives ==
  ASSUME VerdictInv, NEW r \in Releases, NEW to \in Results, Finish(r, to)
  PROVE  /\ release' \in [Releases ->
              {"none", "succeeded", "failed", "superseded", "canceled"} \cup Active]
         /\ \A s \in Releases \ {r} : release'[s] = release[s]
         /\ release[r] \in Active => release'[r] = to
         /\ release[r] \notin Active => release'[r] = release[r]
BY DEF Finish, VerdictInv, TypeOK, Results, Active

\* A step that gives at most one release a result it has earned keeps Inv, if the rest
\* that Inv speaks of is kept.
LEMMA FinishInv ==
  ASSUME VerdictInv, NEW r \in Releases, NEW to \in Results, Finish(r, to),
         to = "succeeded" => r \in applied,
         to = "superseded" => \E s \in applied : s > r,
         UNCHANGED <<workload, applied, target>>,
         undo' \subseteq Releases, queue' \subseteq Releases,
         worker' = worker \/ worker' = [worker EXCEPT ![r] = "idle"],
         faults' \in 0..MaxFaults
  PROVE  VerdictInv'
<1>1. TypeOK'
  BY FinishGives DEF VerdictInv, TypeOK, Releases
<1>2. WorkersOK'
  BY FinishGives DEF VerdictInv, TypeOK, WorkersOK, Active, Results
<1>3. VerdictsAreEarned'
  BY FinishGives DEF VerdictInv, TypeOK, VerdictsAreEarned, Active, Results
<1> QED BY <1>1, <1>2, <1>3 DEF VerdictInv

\* A step that leaves releases, workload, applied and target alone keeps Inv, wherever
\* it leaves idle workers idle or sends a worker home.
LEMMA IdleInv ==
  ASSUME VerdictInv, NEW r \in Releases, UNCHANGED <<release, workload, applied, target>>,
         undo' \subseteq Releases, queue' \subseteq Releases,
         worker' = worker \/ worker' = [worker EXCEPT ![r] = "idle"],
         faults' \in 0..MaxFaults
  PROVE  VerdictInv' /\ KeepsResults
<1>1. TypeOK'
  BY DEF VerdictInv, TypeOK, Releases
<1>2. WorkersOK'
  BY DEF VerdictInv, TypeOK, WorkersOK
<1>3. VerdictsAreEarned'
  BY DEF VerdictInv, VerdictsAreEarned
<1> QED BY <1>1, <1>2, <1>3 DEF VerdictInv, KeepsResults

-----------------------------------------------------------------------------
(* Their actions.                                                            *)

LEMMA ReleaseFaultBound == ASSUME VerdictInv, Fault PROVE faults' \in 0..MaxFaults
BY ReleaseAssumption DEF VerdictInv, TypeOK, Fault

LEMMA CreateInv ==
  ASSUME VerdictInv, NEW r \in Releases, Create(r),
         undo' \subseteq Releases, queue' \subseteq Releases, faults' \in 0..MaxFaults
  PROVE  VerdictInv' /\ KeepsResults
<1> USE DEF Create
<1>1. TypeOK'
  BY DEF VerdictInv, TypeOK, Active, Releases
<1>2. WorkersOK'
  BY DEF VerdictInv, TypeOK, WorkersOK
<1>3. VerdictsAreEarned'
  BY DEF VerdictInv, TypeOK, VerdictsAreEarned
<1>4. KeepsResults
  <2>1. "pending" \in Lifecycle!Statuses /\ Lifecycle!Moves(release[r], "pending")
    BY DEF Lifecycle!Statuses, Lifecycle!Waiting, Lifecycle!Moves
  <2> QED BY <2>1, OneMove
<1> QED BY <1>1, <1>2, <1>3, <1>4 DEF VerdictInv

LEMMA CreateReleaseGood ==
  ASSUME VerdictInv, NEW r \in Releases, CreateRelease(r)
  PROVE  VerdictInv' /\ KeepsResults
<1>1. undo' \subseteq Releases /\ queue' \subseteq Releases /\ faults' \in 0..MaxFaults
  BY DEF CreateRelease, VerdictInv, TypeOK
<1> QED BY <1>1, CreateInv DEF CreateRelease

LEMMA CreateUnqueuedGood ==
  ASSUME VerdictInv, NEW r \in Releases, CreateUnqueued(r)
  PROVE  VerdictInv' /\ KeepsResults
<1>1. undo' \subseteq Releases /\ queue' \subseteq Releases
  BY DEF CreateUnqueued, VerdictInv, TypeOK
<1>2. faults' \in 0..MaxFaults
  BY ReleaseFaultBound DEF CreateUnqueued
<1> QED BY <1>1, <1>2, CreateInv DEF CreateUnqueued

LEMMA UndoReleaseGood ==
  ASSUME VerdictInv, NEW r \in Releases, UndoRelease(r)
  PROVE  VerdictInv' /\ KeepsResults
<1>1. /\ Finish(r, "failed") /\ "failed" \in Results /\ undo' \subseteq Releases
      /\ UNCHANGED <<queue, worker, workload, applied, target, faults>>
  BY DEF UndoRelease, Results, VerdictInv, TypeOK
<1>2. queue' \subseteq Releases /\ faults' \in 0..MaxFaults
  BY <1>1 DEF VerdictInv, TypeOK
<1> QED BY <1>1, <1>2, FinishInv, FinishKeeps

LEMMA CancelReleaseGood ==
  ASSUME VerdictInv, NEW r \in Releases, CancelRelease(r)
  PROVE  VerdictInv' /\ KeepsResults
<1>1. /\ Finish(r, "canceled") /\ "canceled" \in Results
      /\ UNCHANGED <<undo, queue, worker, workload, applied, target, faults>>
  BY DEF CancelRelease, Results
<1>2. undo' \subseteq Releases /\ queue' \subseteq Releases /\ faults' \in 0..MaxFaults
  BY <1>1 DEF VerdictInv, TypeOK
<1> QED BY <1>1, <1>2, FinishInv, FinishKeeps

LEMMA TakeTaskGood ==
  ASSUME VerdictInv, NEW r \in Releases, TakeTask(r)
  PROVE  VerdictInv' /\ KeepsResults
<1>1. /\ UNCHANGED <<undo, workload, applied, target, faults>>
      /\ undo' \subseteq Releases /\ queue' \subseteq Releases /\ faults' \in 0..MaxFaults
  BY DEF TakeTask, VerdictInv, TypeOK
<1>2. CASE UNCHANGED <<release, worker>>
  BY <1>1, <1>2, IdleInv
<1>3. CASE Finish(r, "failed") /\ UNCHANGED worker
  <2>1. "failed" \in Results BY DEF Results
  <2> QED BY <1>1, <1>3, <2>1, FinishInv, FinishKeeps
<1>4. CASE /\ release[r] \in Active /\ worker[r] = "idle"
           /\ worker' = [worker EXCEPT ![r] = "prepare"]
           /\ release' = [release EXCEPT ![r] = "running"]
  <2>1. TypeOK'
    BY <1>1, <1>4 DEF VerdictInv, TypeOK, Active
  <2>2. WorkersOK'
    BY <1>1, <1>4 DEF VerdictInv, TypeOK, WorkersOK
  <2>3. VerdictsAreEarned'
    BY <1>1, <1>4 DEF VerdictInv, TypeOK, VerdictsAreEarned
  <2>4. KeepsResults
    <3>1. CASE release[r] = "pending"
      <4>1. "running" \in Lifecycle!Statuses /\ Lifecycle!Moves(release[r], "running")
        BY <3>1 DEF Lifecycle!Statuses, Lifecycle!Waiting, Lifecycle!Moves
      <4> QED BY <1>4, <4>1, OneMove
    <3>2. CASE release[r] = "running"
      <4>1. release' = release
        BY <1>4, <3>2 DEF VerdictInv, TypeOK
      <4> QED BY <4>1 DEF KeepsResults
    <3> QED BY <1>4, <3>1, <3>2 DEF Active
  <2> QED BY <2>1, <2>2, <2>3, <2>4 DEF VerdictInv
<1> QED BY <1>2, <1>3, <1>4 DEF TakeTask, At, Go

LEMMA RecheckGood ==
  ASSUME VerdictInv, NEW r \in Releases, Recheck(r)
  PROVE  VerdictInv' /\ KeepsResults
<1>1. CASE release[r] \in Active
  <2>1. worker[r] = "prepare" /\ worker' = [worker EXCEPT ![r] = "apply"]
    BY <1>1 DEF Recheck, At, Go
  <2>2. UNCHANGED <<release, undo, queue, workload, applied, target, faults>>
    BY DEF Recheck
  <2>3. TypeOK'
    BY <2>1, <2>2 DEF VerdictInv, TypeOK
  <2>4. WorkersOK'
    BY <2>1, <2>2 DEF VerdictInv, TypeOK, WorkersOK
  <2>5. VerdictsAreEarned'
    BY <2>2 DEF VerdictInv, VerdictsAreEarned
  <2> QED BY <2>2, <2>3, <2>4, <2>5 DEF VerdictInv, KeepsResults
<1>2. CASE release[r] \notin Active
  <2>1. worker' = [worker EXCEPT ![r] = "idle"]
    BY <1>2 DEF Recheck, Go
  <2>2. /\ UNCHANGED <<release, workload, applied, target>>
        /\ undo' \subseteq Releases /\ queue' \subseteq Releases /\ faults' \in 0..MaxFaults
    BY DEF Recheck, VerdictInv, TypeOK
  <2> QED BY <2>1, <2>2, IdleInv
<1> QED BY <1>1, <1>2

LEMMA ApplyResourcesGood ==
  ASSUME VerdictInv, NEW r \in Releases, ApplyResources(r)
  PROVE  VerdictInv' /\ KeepsResults
<1> USE DEF ApplyResources, At, Go
<1>1. workload' \in [by : {0} \cup applied', phase : {"progressing", "ready", "broken"}]
  OBVIOUS
<1>2. TypeOK'
  BY <1>1 DEF VerdictInv, TypeOK
<1>3. WorkersOK'
  BY DEF VerdictInv, TypeOK, WorkersOK
<1>4. VerdictsAreEarned'
  BY DEF VerdictInv, TypeOK, VerdictsAreEarned
<1> QED BY <1>2, <1>3, <1>4 DEF VerdictInv, KeepsResults

LEMMA WaitForRolloutGood ==
  ASSUME VerdictInv, NEW r \in Releases, WaitForRollout(r)
  PROVE  VerdictInv' /\ KeepsResults
<1>1. /\ UNCHANGED <<undo, queue, workload, applied, target, faults>>
      /\ undo' \subseteq Releases /\ queue' \subseteq Releases /\ faults' \in 0..MaxFaults
  BY DEF WaitForRollout, VerdictInv, TypeOK
<1>2. CASE UNCHANGED release /\ worker' = [worker EXCEPT ![r] = "idle"]
  BY <1>1, <1>2, IdleInv
<1>3. CASE /\ worker[r] = "wait" /\ UNCHANGED release
           /\ worker' = [worker EXCEPT ![r] = "confirm"]
  <2>1. TypeOK'
    BY <1>1, <1>3 DEF VerdictInv, TypeOK
  <2>2. WorkersOK'
    BY <1>1, <1>3 DEF VerdictInv, TypeOK, WorkersOK
  <2>3. VerdictsAreEarned'
    BY <1>1, <1>3 DEF VerdictInv, VerdictsAreEarned
  <2> QED BY <1>3, <2>1, <2>2, <2>3 DEF VerdictInv, KeepsResults
<1>4. CASE Finish(r, "failed") /\ worker' = [worker EXCEPT ![r] = "idle"]
  <2>1. "failed" \in Results BY DEF Results
  <2> QED BY <1>1, <1>4, <2>1, FinishInv, FinishKeeps
<1> QED BY <1>2, <1>3, <1>4 DEF WaitForRollout, At, Go

LEMMA SucceedGood ==
  ASSUME VerdictInv, NEW r \in Releases, Succeed(r)
  PROVE  VerdictInv' /\ KeepsResults
<1>1. /\ Finish(r, "succeeded") /\ "succeeded" \in Results
      /\ UNCHANGED <<undo, queue, workload, applied, target, faults>>
      /\ worker[r] = "confirm" /\ worker' = [worker EXCEPT ![r] = "idle"]
  BY DEF Succeed, At, Go, Results
<1>2. undo' \subseteq Releases /\ queue' \subseteq Releases /\ faults' \in 0..MaxFaults
  BY <1>1 DEF VerdictInv, TypeOK
<1>3. r \in applied /\ release[r] \notin {"none", "pending"}
  BY <1>1 DEF VerdictInv, WorkersOK
<1>4. VerdictInv'
  BY <1>1, <1>2, <1>3, FinishInv
<1>5. CASE release[r] = "running"
  BY <1>1, <1>4, <1>5, FinishKeeps
<1>6. CASE release[r] # "running"
  <2>1. release' = release
    BY <1>1, <1>3, <1>6 DEF Finish, Active, VerdictInv, TypeOK
  <2> QED BY <1>4, <2>1 DEF KeepsResults
<1> QED BY <1>5, <1>6

LEMMA StageFailsGood ==
  ASSUME VerdictInv, NEW r \in Releases, StageFails(r)
  PROVE  VerdictInv' /\ KeepsResults
<1>1. /\ UNCHANGED <<undo, workload, applied, target>>
      /\ undo' \subseteq Releases /\ queue' \subseteq Releases
      /\ worker' = [worker EXCEPT ![r] = "idle"]
  BY DEF StageFails, Go, VerdictInv, TypeOK
<1>2. faults' \in 0..MaxFaults
  BY ReleaseFaultBound DEF StageFails
<1>3. CASE UNCHANGED release
  BY <1>1, <1>2, <1>3, IdleInv
<1>4. CASE Finish(r, "failed")
  <2>1. "failed" \in Results BY DEF Results
  <2> QED BY <1>1, <1>2, <1>4, <2>1, FinishInv, FinishKeeps
<1> QED BY <1>3, <1>4 DEF StageFails

LEMMA WorkerStopsGood ==
  ASSUME VerdictInv, NEW r \in Releases, WorkerStops(r)
  PROVE  VerdictInv' /\ KeepsResults
<1>1. /\ UNCHANGED <<release, workload, applied, target>>
      /\ undo' \subseteq Releases /\ queue' \subseteq Releases
      /\ worker' = [worker EXCEPT ![r] = "idle"]
  BY DEF WorkerStops, Go, VerdictInv, TypeOK
<1>2. faults' \in 0..MaxFaults
  BY ReleaseFaultBound DEF WorkerStops
<1> QED BY <1>1, <1>2, IdleInv

LEMMA ExpireGood ==
  ASSUME VerdictInv, NEW r \in Releases, Expire(r)
  PROVE  VerdictInv' /\ KeepsResults
<1>1. /\ Finish(r, "failed") /\ "failed" \in Results
      /\ UNCHANGED <<undo, queue, worker, workload, applied, target, faults>>
  BY DEF Expire, Results
<1>2. undo' \subseteq Releases /\ queue' \subseteq Releases /\ faults' \in 0..MaxFaults
  BY <1>1 DEF VerdictInv, TypeOK
<1> QED BY <1>1, <1>2, FinishInv, FinishKeeps

LEMMA ObserveGood ==
  ASSUME VerdictInv, NEW r \in Releases, Observe(r)
  PROVE  VerdictInv' /\ KeepsResults
<1>1. /\ release[r] = "running"
      /\ UNCHANGED <<undo, queue, worker, workload, applied, target, faults>>
  BY DEF Observe
<1>2. undo' \subseteq Releases /\ queue' \subseteq Releases /\ faults' \in 0..MaxFaults
  BY <1>1 DEF VerdictInv, TypeOK
<1>3. workload.by \in {0} \cup applied /\ r > 0 /\ r \in Nat
  BY ReleaseAssumption DEF VerdictInv, TypeOK, Releases
<1>4. PICK to \in Results :
        /\ Finish(r, to)
        /\ to = "succeeded" => r \in applied
        /\ to = "superseded" => \E s \in applied : s > r
  <2>1. CASE workload.by > r /\ Finish(r, "superseded")
    BY <1>3, <2>1 DEF Results
  <2>2. CASE workload.by = r /\ Finish(r, "failed")
    BY <2>2 DEF Results
  <2>3. CASE workload.by = r /\ Finish(r, "succeeded")
    BY <1>3, <2>3 DEF Results
  <2> QED BY <2>1, <2>2, <2>3 DEF Observe
<1> QED BY <1>1, <1>2, <1>4, FinishInv, FinishKeeps

\* The cluster and the deletion of the target leave the releases alone.
LEMMA EnvironmentGood ==
  ASSUME VerdictInv, RolloutMoves \/ CleanRuntime \/ TargetMoves
  PROVE  VerdictInv' /\ KeepsResults
<1>1. UNCHANGED <<release, undo, queue, worker, applied, faults>>
  BY DEF RolloutMoves, CleanRuntime, TargetMoves
<1>2. workload' \in [by : {0} \cup applied, phase : {"progressing", "ready", "broken"}]
  BY DEF RolloutMoves, CleanRuntime, TargetMoves, Nothing, VerdictInv, TypeOK
<1>3. target' \in {"active", "deleting", "delete_failed", "deleted"}
  BY DEF RolloutMoves, CleanRuntime, TargetMoves, VerdictInv, TypeOK
<1>4. TypeOK' /\ WorkersOK' /\ VerdictsAreEarned'
  BY <1>1, <1>2, <1>3 DEF VerdictInv, TypeOK, WorkersOK, VerdictsAreEarned
<1> QED BY <1>1, <1>4 DEF VerdictInv, KeepsResults

-----------------------------------------------------------------------------

LEMMA VerdictInit == Init => VerdictInv
<1> SUFFICES ASSUME Init PROVE VerdictInv
  OBVIOUS
<1>1. TypeOK
  BY ReleaseAssumption DEF Init, TypeOK, Nothing
<1>2. WorkersOK /\ VerdictsAreEarned
  BY DEF Init, WorkersOK, VerdictsAreEarned
<1> QED BY <1>1, <1>2 DEF VerdictInv

LEMMA VerdictStep ==
  ASSUME VerdictInv, [Next]_vars
  PROVE  VerdictInv' /\ KeepsResults
<1>1. ASSUME NEW r \in Releases, ReleaseStep(r) PROVE VerdictInv' /\ KeepsResults
  BY <1>1, CreateReleaseGood, CreateUnqueuedGood, UndoReleaseGood, CancelReleaseGood,
     TakeTaskGood, RecheckGood, ApplyResourcesGood, WaitForRolloutGood, SucceedGood,
     StageFailsGood, WorkerStopsGood, ExpireGood, ObserveGood DEF ReleaseStep
<1>2. CASE RolloutMoves \/ CleanRuntime \/ TargetMoves
  BY <1>2, EnvironmentGood
<1>3. CASE UNCHANGED vars
  BY <1>3 DEF vars, VerdictInv, TypeOK, WorkersOK, VerdictsAreEarned, KeepsResults
<1> QED BY <1>1, <1>2, <1>3 DEF Next

\* VerdictInv holds in every reachable state: what a worker's place says of its release, and
\* with it that results are earned.
THEOREM VerdictInvariance == Spec => []VerdictInv
<1>1. VerdictInv /\ [Next]_vars => VerdictInv'
  BY VerdictStep
<1> QED BY VerdictInit, <1>1, PTL DEF Spec

\* Every variable keeps its type.
THEOREM ReleasesTypeCorrect == Spec => []TypeOK
<1>1. VerdictInv => TypeOK
  BY DEF VerdictInv
<1> QED BY VerdictInvariance, <1>1, PTL

\* A release that succeeded was applied, and one that was superseded has a newer one
\* that was, however many workers and sweeps judge the one workload.
THEOREM VerdictsEarned == Spec => []VerdictsAreEarned
<1>1. VerdictInv => VerdictsAreEarned
  BY DEF VerdictInv
<1> QED BY VerdictInvariance, <1>1, PTL

\* The first result of a release is its result: TargetRelease implements ReleaseLifecycle.
THEOREM ResultsKept == Spec => ReleasesKeepTheirResult
<1>1. Init => Lifecycle!Init
  BY DEF Init, Lifecycle!Init
<1>2. VerdictInv /\ [Next]_vars => [Lifecycle!Next]_release
  BY VerdictStep DEF KeepsResults
<1> QED BY VerdictInvariance, <1>1, <1>2, PTL DEF Spec, ReleasesKeepTheirResult, Lifecycle!Spec

\* Under the deletion of their target, too, the verdicts on releases are earned.
THEOREM VerdictsSurviveDeletion == DeletionSpec => []VerdictsAreEarned
BY DeletionIsEnvironment, VerdictsEarned, PTL DEF ReleasesGoOn

\* And so does the first result of a release stay its result.
THEOREM ResultsSurviveDeletion == DeletionSpec => ReleasesKeepTheirResult
BY DeletionIsEnvironment, ResultsKept, PTL DEF ReleasesGoOn
=============================================================================
