---------------------------- MODULE BuildRunProofs ----------------------------
(***************************************************************************)
(* What TLAPS proves of BuildRun for any number of builds, any limit, any  *)
(* set of policies and any number of faults: its types, that the run and   *)
(* the job of a build agree, which builds may run together where the       *)
(* policy says that they take turns, that a build leaves nothing behind,   *)
(* that only what was built is released or charged, and that the first     *)
(* result of a build is its result.                                        *)
(*                                                                         *)
(* None of these is inductive: a worker acts on what it read some steps    *)
(* ago.  Inv says what a row says of the other (Agree), that nobody works  *)
(* on what is not requested (Born), what the place of a worker excludes    *)
(* for earlier builds (Turns), promises of its own build (Earned), and who *)
(* still attends to what a build has left (Attended).                      *)
(***************************************************************************)
EXTENDS BuildRun, TLAPS, FiniteSetTheorems

\* An active job is the job of a run in the same state, whose dispatch was not taken back;
\* a run outlives its job only where a dispatch is taken back, or was half taken back.
Agree ==
  \A b \in Builds :
    /\ job[b] \in Active => run[b] = job[b] /\ client[b] \notin {"undoRun", "lost"}
    /\ run[b] \in Active /\ job[b] \notin Active => client[b] \in {"undoRun", "lost"}
    /\ run[b] = "succeeded" <=> job[b] = "succeeded"

\* Nobody works on a build that is not requested.
Born ==
  \A b \in Builds :
    run[b] = "none" => worker[b] = "idle" /\ b \notin queue /\ client[b] = "idle"

Past == {"capacity", "start", "mark"}

\* A build that runs, or whose worker may still make it run.
LetIn(c) == run[c] = "running" \/ (run[c] = "queued" /\ worker[c] \in Past)

\* b appeared when c ran, and its worker will find that under queue.
Waits(b, c) ==
  policy = "queue" /\ run[c] = "running" /\ run[b] = "queued" /\ worker[b] \notin Past

\* Under an exclusive policy, what was let in has no active build before it but those
\* that missed it and those that wait for it.
Turns ==
  policy \in Exclusive /\ ~switched =>
    \A c \in Builds :
      /\ worker[c] \in Policies => worker[c] = policy
      /\ LetIn(c) => \A b \in Builds : b < c /\ run[b] \in Active
                                       => <<b, c>> \in missed \/ Waits(b, c)

\* What an exclusive policy has seen of the others when it lets b in.
Alone(b) ==
  \A c \in Builds : /\ c < b => run[c] \notin Active
                    /\ policy = "queue" /\ c # b => run[c] # "running"

\* Without faults, a worker still attends to a Job that runs and to usage not charged.
AttendedAt(b) ==
  /\ kube[b] = "active" => worker[b] \in {"mark", "follow"} \/ run[b] = "deleted"
  /\ b \in started => worker[b] \in {"follow", "complete", "settle", "won"} \/ b \in settled
Attended == faults = 0 => \A b \in Builds : AttendedAt(b)

\* A worker that has won has completed its build, and what started has been running.
Earned ==
  \A b \in Builds :
    /\ worker[b] \in {"won", "compare", "release"} => run[b] \in {"succeeded", "deleted"}
    /\ b \in started => run[b] \notin {"none", "queued"}

Inv == TypeOK /\ Agree /\ Born /\ Turns /\ Attended /\ Earned /\ ReleasesWereBuilt

\* What a step is to the builds: a step of the lifecycle, or nothing.
Keeps == Lifecycle!Next \/ UNCHANGED run

-----------------------------------------------------------------------------
(* Helpers.                                                                *)

Failures == {"failed", "canceled", "timeout"}

Places == Policies \cup {"idle", "capacity", "start", "mark", "follow", "complete", "settle",
                         "won", "compare", "release"}

LEMMA PlacesApart ==
  /\ Policies \cap {"idle", "capacity", "start", "mark", "follow", "complete", "settle", "won",
                    "compare", "release"} = {}
  /\ Exclusive \cap {"idle", "capacity", "start", "mark", "follow", "complete", "settle", "won",
                    "compare", "release"} = {}
BY BuildAssumption DEF Exclusive

LEMMA FaultBound == ASSUME Inv, Fault PROVE faults' \in 0..MaxFaults /\ faults' # 0
BY BuildAssumption DEF Inv, TypeOK, Fault

\* A step of the rows that at most ends builds, both rows of each alike.
Ends ==
  \E status \in Failures : \A b \in Builds :
    \/ run'[b] = run[b] /\ job'[b] = job[b]
    \/ /\ run'[b] = IF run[b] \in Active THEN status ELSE run[b]
       /\ job'[b] = IF job[b] \in Active THEN status ELSE job[b]

\* A step of the workers that takes up only what is queued, queues only what it has, lets
\* in only a build that is alone, and wins, charges or releases nothing out of its turn.
Tame ==
  /\ \A b \in Builds : worker'[b] # "idle" => worker[b] # "idle" \/ b \in queue
  /\ \A b \in queue' : b \in queue \/ worker[b] # "idle"
  /\ policy' \in Exclusive /\ ~switched' =>
       /\ policy' = policy /\ ~switched
       /\ \A b \in Builds :
            /\ worker'[b] \in Policies => worker'[b] \in {worker[b], policy}
            /\ worker'[b] \in Past => worker[b] \in Past \/ Alone(b)'
  /\ \A b \in Builds :
       /\ worker'[b] \in {"won", "compare", "release"} => worker[b] \in {"won", "compare", "release"}
       /\ release'[b] > 0 => release[b] > 0 \/ worker[b] = "release"
       /\ b \in settled' => b \in settled \/ b \in started

\* What such a step of the rows gives.
LEMMA EndsGives ==
  ASSUME Inv, run' \in [Builds -> {"none", "deleted"} \cup Active \cup Finished],
         Ends, UNCHANGED client
  PROVE  /\ Agree' /\ Keeps
         /\ \A b \in Builds :
              /\ run'[b] \in Active \/ run'[b] \in {"none", "succeeded", "deleted"} => run'[b] = run[b]
              /\ run[b] \in {"none", "succeeded", "deleted"} => run'[b] = run[b]
<1>1. PICK status \in Failures : \A b \in Builds :
        \/ run'[b] = run[b] /\ job'[b] = job[b]
        \/ /\ run'[b] = IF run[b] \in Active THEN status ELSE run[b]
           /\ job'[b] = IF job[b] \in Active THEN status ELSE job[b]
  BY DEF Ends
<1>2. Agree'
  BY <1>1 DEF Inv, Agree, Failures, Active
<1>3. Keeps
  <2>1. run' \in [Builds -> Lifecycle!Statuses]
    BY DEF Lifecycle!Statuses, Lifecycle!Active, Lifecycle!Over, Active, Finished
  <2>2. \A b \in Builds : run'[b] = run[b] \/ Lifecycle!Moves(run[b], run'[b])
    BY <1>1 DEF Lifecycle!Moves, Lifecycle!Over, Failures, Active
  <2> QED BY <2>1, <2>2 DEF Keeps, Lifecycle!Next
<1>4. ASSUME NEW b \in Builds
      PROVE  /\ run'[b] \in Active \/ run'[b] \in {"none", "succeeded", "deleted"} => run'[b] = run[b]
             /\ run[b] \in {"none", "succeeded", "deleted"} => run'[b] = run[b]
  BY <1>1 DEF Failures, Active
<1> QED BY <1>2, <1>3, <1>4

\* A step that at most ends builds and whose worker is tame.
LEMMA EndsGood ==
  ASSUME Inv, TypeOK', Ends, UNCHANGED <<client, started, missed>>, Tame, Attended'
  PROVE  Inv' /\ Keeps
<1>1. run' \in [Builds -> {"none", "deleted"} \cup Active \cup Finished]
  BY DEF TypeOK
<1>2. /\ Agree' /\ Keeps
      /\ \A b \in Builds :
           /\ run'[b] \in Active \/ run'[b] \in {"none", "succeeded", "deleted"} => run'[b] = run[b]
           /\ run[b] \in {"none", "succeeded", "deleted"} => run'[b] = run[b]
  BY <1>1, EndsGives
<1>3. Born'
  BY <1>2 DEF Inv, Born, Tame
<1>4. Turns'
  <2>1. SUFFICES ASSUME policy' \in Exclusive, ~switched', NEW c \in Builds
                 PROVE  /\ worker'[c] \in Policies => worker'[c] = policy'
                        /\ LetIn(c)' => \A b \in Builds : b < c /\ run'[b] \in Active
                                                          => <<b, c>> \in missed' \/ Waits(b, c)'
    BY DEF Turns
  <2>2. /\ policy' = policy /\ policy \in Exclusive /\ ~switched
        /\ \A b \in Builds : /\ worker'[b] \in Policies => worker'[b] \in {worker[b], policy}
                             /\ worker'[b] \in Past => worker[b] \in Past \/ Alone(b)'
    BY <2>1 DEF Tame
  <2>3. /\ worker[c] \in Policies => worker[c] = policy
        /\ LetIn(c) => \A b \in Builds : b < c /\ run[b] \in Active
                                         => <<b, c>> \in missed \/ Waits(b, c)
    BY <2>2 DEF Inv, Turns
  <2>4. ASSUME LetIn(c)', NEW b \in Builds, b < c, run'[b] \in Active
        PROVE  <<b, c>> \in missed' \/ Waits(b, c)'
    <3>1. run[b] = run'[b] /\ run[b] \in Active /\ (run'[c] \in Active => run[c] = run'[c])
      BY <1>2, <2>4
    <3>2. ~Alone(c)'
      BY <2>4 DEF Alone
    <3>3. LetIn(c)
      BY <2>2, <2>4, <3>1, <3>2 DEF LetIn, Active
    <3>4. CASE <<b, c>> \in missed
      BY <3>4
    <3>5. CASE Waits(b, c)
      <4>1. run'[c] = "running" /\ run'[b] = "queued" /\ worker[b] \notin Past /\ policy' = "queue"
        BY <2>2, <2>4, <3>1, <3>5 DEF LetIn, Waits, Active
      <4>2. ~Alone(b)'
        BY <2>4, <4>1, BuildAssumption DEF Alone, Builds
      <4> QED BY <2>2, <4>1, <4>2 DEF Waits
    <3> QED BY <2>3, <2>4, <3>1, <3>3, <3>4, <3>5
  <2> QED BY <2>2, <2>3, <2>4
<1>5. Earned'
  BY <1>2 DEF Inv, Earned, Tame, Active
<1>6. ReleasesWereBuilt'
  BY <1>2 DEF Inv, Earned, ReleasesWereBuilt, Tame, Active
<1> QED BY <1>2, <1>3, <1>4, <1>5, <1>6 DEF Inv

LEMMA FinishEnds ==
  ASSUME Inv, NEW b \in Builds, NEW status \in Failures, Finish(b, status)
  PROVE  /\ Ends /\ UNCHANGED started
         /\ run' \in [Builds -> {"none", "deleted"} \cup Active \cup Finished]
         /\ job' \in [Builds -> {"none", "deleted"} \cup Active \cup Finished]
<1>1. status \in Finished
  BY DEF Failures, Finished
<1> QED BY <1>1 DEF Finish, Ends, Inv, TypeOK

LEMMA RowsEnd ==
  ASSUME Inv, UNCHANGED rows
  PROVE  /\ Ends /\ UNCHANGED started
         /\ run' \in [Builds -> {"none", "deleted"} \cup Active \cup Finished]
         /\ job' \in [Builds -> {"none", "deleted"} \cup Active \cup Finished]
<1>1. "failed" \in Failures
  BY DEF Failures
<1> QED BY <1>1 DEF rows, Ends, Inv, TypeOK

\* What Tame asks of one worker that goes on to place; the others stay where they are.
TameMove(b, place) ==
  /\ place # "idle" => worker[b] # "idle" \/ b \in queue
  /\ place \in Policies => place \in {worker[b], policy}
  /\ place \in Past =>
       worker[b] \in Past \/ (policy \in Exclusive /\ ~switched => Alone(b)')
  /\ place \in {"won", "compare", "release"} => worker[b] \in {"won", "compare", "release"}

LEMMA MoveTame ==
  ASSUME Inv, NEW b \in Builds, NEW place \in Places, Go(b, place), TameMove(b, place),
         UNCHANGED <<policy, switched, missed>>,
         queue' \subseteq queue \cup {c \in Builds : worker[c] # "idle"},
         \A c \in Builds : release'[c] > 0 => release[c] > 0 \/ worker[c] = "release",
         settled' \subseteq settled \cup started
  PROVE  Tame /\ worker' \in [Builds -> Places]
<1>1. worker \in [Builds -> Places]
  BY DEF Inv, TypeOK, Places
<1>2. worker' \in [Builds -> Places]
  BY <1>1 DEF Go
<1>3. worker'[b] = place /\ \A c \in Builds \ {b} : worker'[c] = worker[c]
  BY <1>1 DEF Go
<1>4. \A c \in Builds : worker'[c] # "idle" => worker[c] # "idle" \/ c \in queue
  BY <1>3 DEF TameMove
<1>5. policy' \in Exclusive /\ ~switched' =>
        /\ policy' = policy /\ ~switched
        /\ \A c \in Builds :
             /\ worker'[c] \in Policies => worker'[c] \in {worker[c], policy}
             /\ worker'[c] \in Past => worker[c] \in Past \/ Alone(c)'
  BY <1>3 DEF TameMove
<1>6. \A c \in Builds :
        worker'[c] \in {"won", "compare", "release"} => worker[c] \in {"won", "compare", "release"}
  BY <1>3 DEF TameMove
<1> QED BY <1>2, <1>4, <1>5, <1>6 DEF Tame

\* A step in which one worker goes on, and rows at most end.
LEMMA MoveGood ==
  ASSUME Inv, NEW b \in Builds, NEW place \in Places, Go(b, place), TameMove(b, place),
         Ends, UNCHANGED <<client, started, policy, switched, missed, sweep>>,
         run' \in [Builds -> {"none", "deleted"} \cup Active \cup Finished],
         job' \in [Builds -> {"none", "deleted"} \cup Active \cup Finished],
         kube' \in [Builds -> {"none", "active", "done", "broken"}],
         queue' \subseteq queue \cup {c \in Builds : worker[c] # "idle"},
         release' \in [Builds -> 0..MaxBuilds],
         \A c \in Builds : release'[c] > 0 => release[c] > 0 \/ worker[c] = "release",
         settled' \subseteq settled \cup started,
         faults' \in 0..MaxFaults,
         Attended'
  PROVE  Inv' /\ Keeps
<1>1. Tame /\ worker' \in [Builds -> Places]
  BY MoveTame
<1>2. TypeOK'
  BY <1>1 DEF Inv, TypeOK, Places
<1> QED BY <1>1, <1>2, EndsGood

\* Nothing is left unattended by a step of one worker that leaves the Jobs alone and goes
\* where it still attends, or has nothing to attend to.
LEMMA MoveAttends ==
  ASSUME Inv, NEW b \in Builds, NEW place \in Places, Go(b, place),
         UNCHANGED started, settled \subseteq settled', kube' \in [Builds -> {"none", "active", "done", "broken"}],
         faults' = 0 => faults = 0,
         \A c \in Builds \ {b} : kube'[c] = kube[c] /\ (run[c] = "deleted" => run'[c] = "deleted"),
         faults' = 0 /\ kube'[b] = "active" => place \in {"mark", "follow"} \/ run'[b] = "deleted",
         faults' = 0 /\ b \in started =>
           place \in {"follow", "complete", "settle", "won"} \/ b \in settled'
  PROVE  Attended'
<1>1. worker \in [Builds -> Places]
  BY DEF Inv, TypeOK, Places
<1>2. worker'[b] = place /\ \A c \in Builds \ {b} : worker'[c] = worker[c]
  BY <1>1 DEF Go
<1>3. SUFFICES ASSUME faults' = 0, NEW c \in Builds PROVE AttendedAt(c)'
  BY DEF Attended
<1>4. CASE c = b
  BY <1>2, <1>3, <1>4 DEF AttendedAt
<1>5. CASE c # b
  BY <1>2, <1>3, <1>5 DEF AttendedAt, Inv, Attended
<1> QED BY <1>4, <1>5

-----------------------------------------------------------------------------
(* The worker: admission.                                                  *)

LEMMA TakeTaskGood ==
  ASSUME Inv, NEW b \in Builds, TakeTask(b)
  PROVE  Inv' /\ Keeps
<1>1. PICK place \in {policy, "idle"} : Go(b, place)
  BY DEF TakeTask
<1>2. UNCHANGED <<rows, kube, client, release, settled, sweep, policy, switched, missed, faults>>
      /\ b \in queue /\ worker[b] = "idle" /\ queue' = queue \ {b}
  BY DEF TakeTask, At
<1>3. place \in Places /\ place \notin Past
  BY <1>1, PlacesApart DEF Inv, TypeOK, Places, Past
<1>4. TameMove(b, place)
  BY <1>1, <1>2, <1>3, PlacesApart DEF TameMove, Inv, TypeOK
<1>5. AttendedAt(b) \/ faults # 0
  BY DEF Inv, Attended
<1>6. Attended'
  BY <1>1, <1>2, <1>3, <1>5, MoveAttends DEF Inv, TypeOK, AttendedAt, rows
<1> QED BY <1>1, <1>2, <1>3, <1>4, <1>6, MoveGood, RowsEnd DEF Inv, TypeOK

LEMMA SupersededEnds ==
  ASSUME Inv, NEW b \in Builds, CancelSuperseded(b)
  PROVE  /\ Ends /\ UNCHANGED started
         /\ run' \in [Builds -> {"none", "deleted"} \cup Active \cup Finished]
         /\ job' \in [Builds -> {"none", "deleted"} \cup Active \cup Finished]
         /\ \A c \in Builds : c < b => run'[c] \notin Active
         /\ run'[b] = run[b]
<1>1. /\ run' = [c \in Builds |-> IF c \in Earlier(b) /\ run[c] \in Active THEN "canceled" ELSE run[c]]
      /\ job' = [c \in Builds |-> IF c \in Earlier(b) /\ job[c] \in Active THEN "canceled" ELSE job[c]]
      /\ UNCHANGED started
  BY DEF CancelSuperseded
<1>2. "canceled" \in Failures /\ "canceled" \in Finished /\ "canceled" \notin Active
  BY DEF Failures, Finished, Active
<1>3. /\ run' \in [Builds -> {"none", "deleted"} \cup Active \cup Finished]
      /\ job' \in [Builds -> {"none", "deleted"} \cup Active \cup Finished]
  BY <1>1, <1>2 DEF Inv, TypeOK
<1>4. \A c \in Builds : \/ run'[c] = run[c] /\ job'[c] = job[c]
                        \/ /\ run'[c] = IF run[c] \in Active THEN "canceled" ELSE run[c]
                           /\ job'[c] = IF job[c] \in Active THEN "canceled" ELSE job[c]
  BY <1>1
<1>5. \A c \in Builds : c < b => run'[c] \notin Active
  BY <1>1, <1>2 DEF Earlier
<1>6. b \notin Earlier(b)
  BY BuildAssumption DEF Earlier, Builds
<1> QED BY <1>1, <1>2, <1>3, <1>4, <1>5, <1>6 DEF Ends

LEMMA AdmitGood ==
  ASSUME Inv, NEW b \in Builds, Admit(b)
  PROVE  Inv' /\ Keeps
<1>1. UNCHANGED <<kube, client, release, settled, sweep, policy, switched, missed, faults>>
  BY DEF Admit
<1>2. worker[b] \in {"parallel", "queue", "cancel_in_progress"}
  BY DEF Admit, At
<1>3. PICK place \in {"capacity", "idle"} : Go(b, place)
  BY DEF Admit, Postpone
<1>4. place \in Places
  BY <1>3 DEF Places
<1>5. /\ Ends /\ UNCHANGED started
      /\ run' \in [Builds -> {"none", "deleted"} \cup Active \cup Finished]
      /\ job' \in [Builds -> {"none", "deleted"} \cup Active \cup Finished]
      /\ run'[b] = run[b]
  <2>1. CASE UNCHANGED rows
    BY <2>1, RowsEnd DEF rows
  <2>2. CASE CancelSuperseded(b)
    BY <2>2, SupersededEnds
  <2> QED BY <2>1, <2>2 DEF Admit, Postpone
<1>6. queue' \subseteq queue \cup {c \in Builds : worker[c] # "idle"}
  BY <1>2 DEF Admit, Postpone
<1>7. place = "capacity" /\ policy \in Exclusive /\ ~switched => Alone(b)'
  <2>1. SUFFICES ASSUME place = "capacity", policy \in Exclusive, ~switched
                 PROVE  Alone(b)'
    OBVIOUS
  <2>2. worker \in [Builds -> Places]
    BY DEF Inv, TypeOK, Places
  <2>3. worker'[b] = "capacity"
    BY <1>3, <2>1, <2>2 DEF Go
  <2>4. worker[b] \in Policies
    BY <1>2, <2>2, PlacesApart DEF Places
  <2>5. worker[b] = policy /\ worker[b] # "parallel"
    BY <2>1, <2>4 DEF Inv, Turns, Exclusive
  <2>6. CASE At(b, "cancel_in_progress") /\ CancelSuperseded(b)
    BY <1>1, <2>5, <2>6, SupersededEnds DEF Alone, At
  <2>7. CASE Blocking(b) = {} /\ UNCHANGED rows
    BY <2>7 DEF Blocking, Earlier, Alone, rows
  <2>8. ~Postpone(b)
    BY <2>2, <2>3 DEF Postpone, Go
  <2> QED BY <2>5, <2>6, <2>7, <2>8 DEF Admit, At
<1>8. TameMove(b, place)
  <2>1. worker[b] # "idle" /\ place \notin Policies
    BY <1>2, <1>3, BuildAssumption
  <2> QED BY <1>3, <1>7, <2>1 DEF TameMove, Past
<1>9. AttendedAt(b) \/ faults # 0
  BY DEF Inv, Attended
<1>10. Attended'
  <2>1. \A c \in Builds \ {b} : run[c] = "deleted" => run'[c] = "deleted"
    BY <1>1, <1>5, EndsGives
  <2> QED BY <1>1, <1>2, <1>3, <1>4, <1>5, <1>9, <2>1, MoveAttends DEF Inv, TypeOK, AttendedAt
<1> QED BY <1>1, <1>3, <1>4, <1>5, <1>6, <1>8, <1>10, MoveGood DEF Inv, TypeOK

\* Where a worker goes on after a build that no build waits for: TameMove asks nothing.
LEMMA Onward ==
  ASSUME NEW b \in Builds, NEW place \in {"idle", "follow", "complete", "settle"}, worker[b] # "idle"
  PROVE  place \in Places /\ TameMove(b, place)
BY BuildAssumption DEF TameMove, Past, Places

LEMMA AttendedNow ==
  ASSUME Inv, NEW b \in Builds, faults = 0
  PROVE  /\ kube[b] = "active" => worker[b] \in {"mark", "follow"} \/ run[b] = "deleted"
         /\ b \in started => worker[b] \in {"follow", "complete", "settle", "won"} \/ b \in settled
BY DEF Inv, Attended, AttendedAt

LEMMA EnsureCapacityGood ==
  ASSUME Inv, NEW b \in Builds, EnsureCapacity(b)
  PROVE  Inv' /\ Keeps
<1>1. /\ UNCHANGED <<rows, kube, client, release, settled, sweep,
                     policy, switched, missed, faults>>
      /\ worker[b] = "capacity" /\ queue' \subseteq queue \cup {b}
  BY DEF EnsureCapacity, At, Postpone
<1>2. PICK place \in {"start", "idle"} : Go(b, place)
  BY DEF EnsureCapacity, Postpone
<1>3. place \in Places /\ TameMove(b, place)
  BY <1>1, <1>2, BuildAssumption DEF TameMove, Past, Places
<1>4. Attended'
  BY <1>1, <1>2, <1>3, AttendedNow, MoveAttends DEF Inv, TypeOK, rows
<1> QED BY <1>1, <1>2, <1>3, <1>4, MoveGood, RowsEnd DEF Inv, TypeOK

LEMMA StartJobGood ==
  ASSUME Inv, NEW b \in Builds, StartJob(b)
  PROVE  Inv' /\ Keeps
<1>1. /\ UNCHANGED <<rows, queue, client, release, settled, sweep,
                     policy, switched, missed, faults>>
      /\ worker[b] = "start" /\ Go(b, "mark") /\ kube' = [kube EXCEPT ![b] = "active"]
  BY DEF StartJob, At, Kube
<1>2. "mark" \in Places /\ TameMove(b, "mark")
  BY <1>1, BuildAssumption DEF TameMove, Past, Places
<1>3. kube' \in [Builds -> {"none", "active", "done", "broken"}]
  BY <1>1 DEF Inv, TypeOK
<1>4. Attended'
  BY <1>1, <1>2, <1>3, AttendedNow, MoveAttends DEF Inv, TypeOK, rows
<1> QED BY <1>1, <1>2, <1>3, <1>4, MoveGood, RowsEnd DEF Inv, TypeOK

\* A step that a fault counts leaves Attended without a claim.
LEMMA FaultAttends == ASSUME faults' # 0 PROVE Attended'
BY DEF Attended

LEMMA AdmissionFailsGood ==
  ASSUME Inv, NEW b \in Builds, AdmissionFails(b)
  PROVE  Inv' /\ Keeps
<1>1. /\ UNCHANGED <<queue, client, release, settled, sweep, policy, switched, missed>>
      /\ Finish(b, "failed") /\ Go(b, "idle") /\ worker[b] # "idle"
  BY BuildAssumption DEF AdmissionFails
<1>2. "failed" \in Failures
  BY DEF Failures
<1>3. kube' \in [Builds -> {"none", "active", "done", "broken"}]
  BY DEF AdmissionFails, Inv, TypeOK
<1>4. faults' \in 0..MaxFaults /\ faults' # 0
  BY FaultBound DEF AdmissionFails
<1> QED BY <1>1, <1>2, <1>3, <1>4, Onward, MoveGood, FinishEnds, FaultAttends DEF Inv, TypeOK

-----------------------------------------------------------------------------
(* The worker: execution.                                                  *)

LEMMA MarkFailsGood ==
  ASSUME Inv, NEW b \in Builds, MarkFails(b)
  PROVE  Inv' /\ Keeps
<1>1. /\ UNCHANGED <<queue, client, release, settled, sweep, policy, switched, missed>>
      /\ Finish(b, "failed") /\ Go(b, "idle") /\ worker[b] # "idle"
  BY DEF MarkFails, At
<1>2. "failed" \in Failures
  BY DEF Failures
<1>3. kube' \in [Builds -> {"none", "active", "done", "broken"}]
  BY DEF MarkFails, Kube, Inv, TypeOK
<1>4. faults' \in 0..MaxFaults /\ faults' # 0
  BY FaultBound DEF MarkFails
<1> QED BY <1>1, <1>2, <1>3, <1>4, Onward, MoveGood, FinishEnds, FaultAttends DEF Inv, TypeOK

LEMMA FollowCanceledGood ==
  ASSUME Inv, NEW b \in Builds, FollowCanceled(b)
  PROVE  Inv' /\ Keeps
<1>1. /\ UNCHANGED <<rows, queue, client, release, settled, sweep,
                     policy, switched, missed, faults>>
      /\ worker[b] = "follow" /\ Go(b, "settle") /\ kube' = [kube EXCEPT ![b] = "none"]
  BY DEF FollowCanceled, At, Kube
<1>2. "settle" \in Places /\ TameMove(b, "settle")
  BY <1>1, Onward
<1>3. kube' \in [Builds -> {"none", "active", "done", "broken"}] /\ kube'[b] = "none"
  BY <1>1 DEF Inv, TypeOK
<1>4. Attended'
  BY <1>1, <1>2, <1>3, AttendedNow, MoveAttends DEF Inv, TypeOK, rows
<1> QED BY <1>1, <1>2, <1>3, <1>4, MoveGood, RowsEnd DEF Inv, TypeOK

LEMMA FollowTimedOutGood ==
  ASSUME Inv, NEW b \in Builds, FollowTimedOut(b)
  PROVE  Inv' /\ Keeps
<1>1. /\ UNCHANGED <<queue, client, release, settled, sweep, policy, switched, missed, faults>>
      /\ worker[b] = "follow" /\ Go(b, "settle") /\ kube' = [kube EXCEPT ![b] = "none"]
      /\ Finish(b, "timeout")
  BY DEF FollowTimedOut, At, Kube
<1>2. "settle" \in Places /\ TameMove(b, "settle") /\ "timeout" \in Failures
  BY <1>1, Onward DEF Failures
<1>3. kube' \in [Builds -> {"none", "active", "done", "broken"}] /\ kube'[b] = "none"
  BY <1>1 DEF Inv, TypeOK
<1>4. \A c \in Builds : run[c] = "deleted" => run'[c] = "deleted"
  BY <1>1, <1>2, FinishEnds, EndsGives
<1>5. Attended'
  BY <1>1, <1>2, <1>3, <1>4, AttendedNow, MoveAttends, FinishEnds DEF Inv, TypeOK
<1> QED BY <1>1, <1>2, <1>3, <1>5, MoveGood, FinishEnds DEF Inv, TypeOK

LEMMA FollowSucceededGood ==
  ASSUME Inv, NEW b \in Builds, FollowSucceeded(b)
  PROVE  Inv' /\ Keeps
<1>1. /\ UNCHANGED <<rows, kube, queue, client, release, settled, sweep,
                     policy, switched, missed, faults>>
      /\ worker[b] = "follow" /\ Go(b, "complete") /\ kube[b] = "done"
  BY DEF FollowSucceeded, At
<1>2. "complete" \in Places /\ TameMove(b, "complete")
  BY <1>1, Onward
<1>3. Attended'
  BY <1>1, <1>2, AttendedNow, MoveAttends DEF Inv, TypeOK, rows
<1> QED BY <1>1, <1>2, <1>3, MoveGood, RowsEnd DEF Inv, TypeOK

LEMMA FollowFailedGood ==
  ASSUME Inv, NEW b \in Builds, FollowFailed(b)
  PROVE  Inv' /\ Keeps
<1>1. /\ UNCHANGED <<kube, queue, client, release, settled, sweep,
                     policy, switched, missed, faults>>
      /\ worker[b] = "follow" /\ Go(b, "settle") /\ (kube[b] # "active" \/ run[b] = "deleted")
      /\ Finish(b, "failed")
  BY DEF FollowFailed, At
<1>2. "settle" \in Places /\ TameMove(b, "settle") /\ "failed" \in Failures
  BY <1>1, Onward DEF Failures
<1>3. \A c \in Builds : run[c] = "deleted" => run'[c] = "deleted"
  BY <1>1, <1>2, FinishEnds, EndsGives
<1>4. Attended'
  BY <1>1, <1>2, <1>3, AttendedNow, MoveAttends, FinishEnds DEF Inv, TypeOK
<1> QED BY <1>1, <1>2, <1>4, MoveGood, FinishEnds DEF Inv, TypeOK

LEMMA ObservationFailsGood ==
  ASSUME Inv, NEW b \in Builds, ObservationFails(b)
  PROVE  Inv' /\ Keeps
<1>1. /\ UNCHANGED <<kube, queue, client, release, settled, sweep, policy, switched, missed>>
      /\ worker[b] = "follow" /\ Go(b, "settle") /\ (Finish(b, "failed") \/ UNCHANGED rows)
  BY DEF ObservationFails, At
<1>2. "settle" \in Places /\ TameMove(b, "settle") /\ "failed" \in Failures
  BY <1>1, Onward DEF Failures
<1>3. faults' \in 0..MaxFaults /\ faults' # 0
  BY FaultBound DEF ObservationFails
<1> QED BY <1>1, <1>2, <1>3, MoveGood, FinishEnds, RowsEnd, FaultAttends DEF Inv, TypeOK

LEMMA CompleteFailsGood ==
  ASSUME Inv, NEW b \in Builds, CompleteFails(b)
  PROVE  Inv' /\ Keeps
<1>1. /\ UNCHANGED <<kube, queue, client, release, settled, sweep, policy, switched, missed>>
      /\ worker[b] = "complete" /\ Go(b, "settle") /\ Finish(b, "failed")
  BY DEF CompleteFails, At
<1>2. "settle" \in Places /\ TameMove(b, "settle") /\ "failed" \in Failures
  BY <1>1, Onward DEF Failures
<1>3. faults' \in 0..MaxFaults /\ faults' # 0
  BY FaultBound DEF CompleteFails
<1> QED BY <1>1, <1>2, <1>3, MoveGood, FinishEnds, FaultAttends DEF Inv, TypeOK

LEMMA SettleGood ==
  ASSUME Inv, NEW b \in Builds, Settle(b)
  PROVE  Inv' /\ Keeps
<1>1. /\ UNCHANGED <<rows, kube, queue, client, release, sweep, policy, switched, missed, faults>>
      /\ worker[b] \in {"settle", "won"} /\ settled' = Charged(b)
  BY DEF Settle
<1>2. PICK place \in {"compare", "idle"} : Go(b, place) /\ (place = "compare" => worker[b] = "won")
  BY DEF Settle, At
<1>3. place \in Places /\ TameMove(b, place)
  BY <1>1, <1>2, BuildAssumption DEF TameMove, Past, Places
<1>4. settled \subseteq settled' /\ (b \in started => b \in settled') /\ settled' \subseteq settled \cup started
  BY <1>1 DEF Charged
<1>5. Attended'
  BY <1>1, <1>2, <1>3, <1>4, AttendedNow, MoveAttends DEF Inv, TypeOK, rows
<1> QED BY <1>1, <1>2, <1>3, <1>4, <1>5, MoveGood, RowsEnd DEF Inv, TypeOK

LEMMA CompareBuildsGood ==
  ASSUME Inv, NEW b \in Builds, CompareBuilds(b)
  PROVE  Inv' /\ Keeps
<1>1. /\ UNCHANGED <<rows, kube, queue, client, release, settled, sweep,
                     policy, switched, missed, faults>>
      /\ worker[b] = "compare"
  BY DEF CompareBuilds, At
<1>2. PICK place \in {"release", "idle"} : Go(b, place)
  BY DEF CompareBuilds
<1>3. place \in Places /\ TameMove(b, place)
  BY <1>1, <1>2, BuildAssumption DEF TameMove, Past, Places
<1>4. Attended'
  BY <1>1, <1>2, <1>3, AttendedNow, MoveAttends DEF Inv, TypeOK, rows
<1> QED BY <1>1, <1>2, <1>3, <1>4, MoveGood, RowsEnd DEF Inv, TypeOK

\* The revisions of a target are counted, and there are no more than builds.
LEMMA NextRevision ==
  ASSUME NEW b \in Builds, NEW S \in SUBSET (Builds \ {b})
  PROVE  Cardinality(S) + 1 \in 0..MaxBuilds
<1>1. IsFiniteSet(Builds) /\ Cardinality(Builds) = MaxBuilds
  BY FS_Interval, BuildAssumption DEF Builds
<1>2. IsFiniteSet(Builds \ {b}) /\ Cardinality(Builds \ {b}) = MaxBuilds - 1
  BY <1>1, FS_RemoveElement
<1>3. IsFiniteSet(S) /\ Cardinality(S) <= MaxBuilds - 1
  BY <1>2, FS_Subset
<1>4. Cardinality(S) \in Nat
  BY <1>3, FS_CardinalityType
<1> QED BY <1>3, <1>4, BuildAssumption

LEMMA CreateReleaseGood ==
  ASSUME Inv, NEW b \in Builds, CreateRelease(b)
  PROVE  Inv' /\ Keeps
<1>1. /\ UNCHANGED <<rows, kube, queue, client, settled, sweep, policy, switched, missed, faults>>
      /\ worker[b] = "release" /\ Go(b, "idle")
  BY DEF CreateRelease, At
<1> DEFINE n == Cardinality({c \in Builds : release[c] > 0}) + 1
<1>2. release' = [release EXCEPT ![b] = IF release[b] = 0 THEN n ELSE release[b]]
  BY DEF CreateRelease
<1>3. release[b] = 0 => n \in 0..MaxBuilds
  <2>1. release[b] = 0 => {c \in Builds : release[c] > 0} \in SUBSET (Builds \ {b})
    OBVIOUS
  <2> QED BY <2>1, NextRevision
<1> HIDE DEF n
<1>4. release' \in [Builds -> 0..MaxBuilds]
  BY <1>2, <1>3 DEF Inv, TypeOK
<1>5. \A c \in Builds : release'[c] > 0 => release[c] > 0 \/ worker[c] = "release"
  BY <1>1, <1>2 DEF Inv, TypeOK
<1>6. "idle" \in Places /\ TameMove(b, "idle")
  BY <1>1, Onward
<1>7. Attended'
  BY <1>1, <1>6, AttendedNow, MoveAttends DEF Inv, TypeOK, rows
<1> QED BY <1>1, <1>4, <1>5, <1>6, <1>7, MoveGood, RowsEnd DEF Inv, TypeOK

LEMMA WorkerStopsGood ==
  ASSUME Inv, NEW b \in Builds, WorkerStops(b)
  PROVE  Inv' /\ Keeps
<1>1. /\ UNCHANGED <<rows, client, release, settled, sweep, policy, switched, missed>>
      /\ worker[b] # "idle" /\ Go(b, "idle") /\ queue' \subseteq queue \cup {b}
  BY DEF WorkerStops, At
<1>2. kube' \in [Builds -> {"none", "active", "done", "broken"}]
  BY DEF WorkerStops, Inv, TypeOK
<1>3. faults' \in 0..MaxFaults /\ faults' # 0
  BY FaultBound DEF WorkerStops
<1>4. "idle" \in Places /\ TameMove(b, "idle")
  BY <1>1, Onward
<1> QED BY <1>1, <1>2, <1>3, <1>4, MoveGood, RowsEnd, FaultAttends DEF Inv, TypeOK

\* A step that may let a build run whose worker marks it, and activates nothing else.
LEMMA TurnsKept ==
  ASSUME Inv, UNCHANGED <<policy, switched, missed>>,
         \A c \in Builds :
           /\ worker'[c] \in Policies => worker'[c] = worker[c]
           /\ worker'[c] \in Past => worker[c] \in Past
           /\ run'[c] = "running" => run[c] = "running" \/ (run[c] = "queued" /\ worker[c] \in Past)
           /\ run'[c] = "queued" => run[c] = "queued"
  PROVE  Turns'
<1>1. SUFFICES ASSUME policy \in Exclusive, ~switched, NEW c \in Builds, LetIn(c)',
                      NEW b \in Builds, b < c, run'[b] \in Active
               PROVE  <<b, c>> \in missed \/ Waits(b, c)'
  BY DEF Inv, Turns
<1>2. LetIn(c) /\ run[b] \in Active
  BY <1>1 DEF LetIn, Active
<1>3. <<b, c>> \in missed \/ Waits(b, c)
  BY <1>1, <1>2 DEF Inv, Turns
<1>4. CASE Waits(b, c)
  BY <1>1, <1>4 DEF Waits, LetIn, Active
<1> QED BY <1>3, <1>4

LEMMA MarkRunningGood ==
  ASSUME Inv, NEW b \in Builds, MarkRunning(b)
  PROVE  Inv' /\ Keeps
<1>1. /\ UNCHANGED <<kube, queue, client, release, settled, sweep,
                     policy, switched, missed, faults>>
      /\ worker[b] = "mark" /\ Go(b, "follow")
      /\ run' = [run EXCEPT ![b] = IF run[b] = "queued" THEN "running" ELSE run[b]]
      /\ job' = [job EXCEPT ![b] = IF job[b] = "queued" THEN "running" ELSE job[b]]
      /\ started' = IF run[b] = "queued" THEN started \cup {b} ELSE started
  BY DEF MarkRunning, At
<1>2. worker \in [Builds -> Places]
  BY DEF Inv, TypeOK, Places
<1>3. worker' = [worker EXCEPT ![b] = "follow"] /\ worker' \in [Builds -> Places]
  BY <1>1, <1>2 DEF Go, Places
<1>4. TypeOK'
  BY <1>1, <1>3 DEF Inv, TypeOK, Active, Places
<1>5. Agree'
  BY <1>1 DEF Inv, TypeOK, Agree, Active
<1>6. Born'
  BY <1>1, <1>2, <1>3 DEF Inv, TypeOK, Born
<1>7. Turns'
  <2>1. "follow" \notin Policies /\ "follow" \notin Past /\ worker[b] \in Past
    BY <1>1, BuildAssumption DEF Past
  <2>2. \A c \in Builds : worker'[c] = IF c = b THEN "follow" ELSE worker[c]
    BY <1>2, <1>3
  <2>3. \A c \in Builds :
          /\ run'[c] = "running" => run[c] = "running" \/ (run[c] = "queued" /\ c = b)
          /\ run'[c] = "queued" => run[c] = "queued"
    BY <1>1 DEF Inv, TypeOK
  <2> QED BY <1>1, <2>1, <2>2, <2>3, TurnsKept
<1>8. Attended'
  BY <1>1, <1>2, <1>3 DEF Inv, TypeOK, Attended, AttendedAt
<1>9. Earned'
  BY <1>1, <1>2, <1>3 DEF Inv, TypeOK, Earned
<1>10. ReleasesWereBuilt'
  BY <1>1 DEF Inv, TypeOK, ReleasesWereBuilt
<1>11. Keeps
  <2>1. run' \in [Builds -> Lifecycle!Statuses]
    BY <1>4 DEF TypeOK, Lifecycle!Statuses, Lifecycle!Active, Lifecycle!Over, Active, Finished
  <2>2. \A c \in Builds : run'[c] = run[c] \/ Lifecycle!Moves(run[c], run'[c])
    BY <1>1 DEF Inv, TypeOK, Lifecycle!Moves
  <2> QED BY <2>1, <2>2 DEF Keeps, Lifecycle!Next
<1> QED BY <1>4, <1>5, <1>6, <1>7, <1>8, <1>9, <1>10, <1>11 DEF Inv

LEMMA CompleteJobGood ==
  ASSUME Inv, NEW b \in Builds, CompleteJob(b)
  PROVE  Inv' /\ Keeps
<1> DEFINE mine  == job[b] = "running" /\ run[b] # "canceled"
           place == IF mine THEN "won" ELSE "settle"
<1>1. /\ UNCHANGED <<started, kube, queue, client, release, settled, sweep,
                     policy, switched, missed, faults>>
      /\ worker[b] = "complete" /\ Go(b, place)
      /\ run' = [run EXCEPT ![b] = IF mine THEN "succeeded" ELSE run[b]]
      /\ job' = [job EXCEPT ![b] = IF mine THEN "succeeded" ELSE job[b]]
  BY DEF CompleteJob, At
<1>2. worker \in [Builds -> Places] /\ place \in {"won", "settle"}
  BY DEF Inv, TypeOK, Places
<1>3. mine => run[b] = "running" /\ client[b] \notin {"undoRun", "lost"}
  BY DEF Inv, Agree, Active
<1>4. place = "won" <=> mine
  OBVIOUS
<1> HIDE DEF mine, place
<1>5. worker' = [worker EXCEPT ![b] = place] /\ worker' \in [Builds -> Places]
  BY <1>1, <1>2 DEF Go, Places
<1>6. TypeOK'
  BY <1>1, <1>5 DEF Inv, TypeOK, Finished, Places
<1>7. Agree'
  BY <1>1, <1>3 DEF Inv, TypeOK, Agree, Active
<1>8. Born'
  BY <1>1, <1>2, <1>3, <1>5 DEF Inv, TypeOK, Born
<1>9. Turns'
  <2>1. place \notin Policies /\ place \notin Past
    BY <1>2, BuildAssumption DEF Past
  <2>2. \A c \in Builds : worker'[c] = IF c = b THEN place ELSE worker[c]
    BY <1>2, <1>5
  <2>3. \A c \in Builds : /\ run'[c] = "running" => run[c] = "running"
                          /\ run'[c] = "queued" => run[c] = "queued"
    BY <1>1 DEF Inv, TypeOK
  <2> QED BY <1>1, <2>1, <2>2, <2>3, TurnsKept
<1>10. Attended'
  BY <1>1, <1>2, <1>3, <1>5 DEF Inv, TypeOK, Attended, AttendedAt
<1>11. Earned'
  BY <1>1, <1>2, <1>4, <1>5 DEF Inv, TypeOK, Earned
<1>12. ReleasesWereBuilt'
  BY <1>1 DEF Inv, TypeOK, ReleasesWereBuilt
<1>13. Keeps
  <2>1. run' \in [Builds -> Lifecycle!Statuses]
    BY <1>6 DEF TypeOK, Lifecycle!Statuses, Lifecycle!Active, Lifecycle!Over, Active, Finished
  <2>2. \A c \in Builds : run'[c] = run[c] \/ Lifecycle!Moves(run[c], run'[c])
    BY <1>1, <1>3 DEF Inv, TypeOK, Lifecycle!Moves, Lifecycle!Over
  <2> QED BY <2>1, <2>2 DEF Keeps, Lifecycle!Next
<1> QED BY <1>6, <1>7, <1>8, <1>9, <1>10, <1>11, <1>12, <1>13 DEF Inv

-----------------------------------------------------------------------------
(* The API, the sweep and the cluster.                                     *)

\* A step that leaves the workers alone and at most ends builds.
LEMMA StayGood ==
  ASSUME Inv, TypeOK', Ends, UNCHANGED <<client, started, worker, queue, release,
                                         policy, switched, missed>>,
         settled \subseteq settled', settled' \subseteq settled \cup started,
         \A b \in Builds : kube'[b] = "active" => kube[b] = "active",
         faults' = 0 => faults = 0
  PROVE  Inv' /\ Keeps
<1>1. Tame
  BY DEF Inv, Turns, Tame
<1>2. \A b \in Builds : run[b] = "deleted" => run'[b] = "deleted"
  BY EndsGives DEF TypeOK
<1>3. Attended'
  BY <1>2 DEF Inv, Attended, AttendedAt
<1> QED BY <1>1, <1>3, EndsGood

LEMMA CancelBuildRunGood ==
  ASSUME Inv, NEW b \in Builds, CancelBuildRun(b)
  PROVE  Inv' /\ Keeps
<1>1. /\ UNCHANGED <<kube, queue, client, worker, release, settled, sweep,
                     policy, switched, missed, faults>>
      /\ Finish(b, "canceled") /\ "canceled" \in Failures
  BY DEF CancelBuildRun, Failures
<1>2. TypeOK'
  BY <1>1, FinishEnds DEF Inv, TypeOK
<1> QED BY <1>1, <1>2, FinishEnds, StayGood

LEMMA ReclaimGood ==
  ASSUME Inv, NEW b \in Builds, Reclaim(b)
  PROVE  Inv' /\ Keeps
<1>1. /\ UNCHANGED <<kube, queue, client, worker, release, settled,
                     policy, switched, missed, faults>>
      /\ Finish(b, "timeout") /\ "timeout" \in Failures /\ sweep' \subseteq Builds
  BY DEF Reclaim, Failures, Inv, TypeOK
<1>2. TypeOK'
  BY <1>1, FinishEnds DEF Inv, TypeOK
<1> QED BY <1>1, <1>2, FinishEnds, StayGood

LEMMA ReleaseExpiredGood ==
  ASSUME Inv, NEW b \in Builds, ReleaseExpired(b)
  PROVE  Inv' /\ Keeps
<1>1. /\ UNCHANGED <<rows, queue, client, worker, release, policy, switched, missed, faults>>
      /\ sweep' \subseteq Builds /\ kube' = [kube EXCEPT ![b] = "none"] /\ settled' = Charged(b)
  BY DEF ReleaseExpired, Kube, Inv, TypeOK
<1>2. settled \subseteq settled' /\ settled' \subseteq settled \cup started
  BY <1>1 DEF Charged
<1>3. TypeOK'
  BY <1>1, <1>2 DEF Inv, TypeOK, rows
<1>4. \A c \in Builds : kube'[c] = "active" => kube[c] = "active"
  BY <1>1 DEF Inv, TypeOK
<1> QED BY <1>1, <1>2, <1>3, <1>4, RowsEnd, StayGood

LEMMA ReleaseExpiredFailsGood ==
  ASSUME Inv, NEW b \in Builds, ReleaseExpiredFails(b)
  PROVE  Inv' /\ Keeps
<1>1. /\ UNCHANGED <<rows, kube, queue, client, worker, release, settled,
                     policy, switched, missed>>
      /\ sweep' \subseteq Builds
  BY DEF ReleaseExpiredFails, Inv, TypeOK
<1>2. faults' \in 0..MaxFaults /\ faults' # 0
  BY FaultBound DEF ReleaseExpiredFails
<1>3. TypeOK'
  BY <1>1, <1>2 DEF Inv, TypeOK, rows
<1> QED BY <1>1, <1>2, <1>3, RowsEnd, StayGood

LEMMA KubeEndsGood ==
  ASSUME Inv, NEW b \in Builds, KubeEnds(b)
  PROVE  Inv' /\ Keeps
<1>1. UNCHANGED <<rows, queue, client, worker, release, settled, sweep,
                  policy, switched, missed, faults>>
  BY DEF KubeEnds
<1>2. PICK state \in {"done", "broken"} : kube' = [kube EXCEPT ![b] = state]
  BY DEF KubeEnds, Kube
<1>3. TypeOK'
  BY <1>1, <1>2 DEF Inv, TypeOK, rows
<1>4. \A c \in Builds : kube'[c] = "active" => kube[c] = "active"
  BY <1>2 DEF Inv, TypeOK
<1> QED BY <1>1, <1>3, <1>4, RowsEnd, StayGood

LEMMA SwitchPolicyGood ==
  ASSUME Inv, SwitchPolicy
  PROVE  Inv' /\ Keeps
<1>1. /\ UNCHANGED <<rows, kube, queue, client, worker, release, settled, sweep, missed>>
      /\ switched' = TRUE /\ policy' \in Policies
  BY DEF SwitchPolicy
<1>2. faults' \in 0..MaxFaults /\ faults' # 0
  BY FaultBound DEF SwitchPolicy
<1>3. TypeOK'
  BY <1>1, <1>2 DEF Inv, TypeOK, rows
<1>4. Tame
  BY <1>1 DEF Tame
<1> QED BY <1>1, <1>2, <1>3, <1>4, RowsEnd, FaultAttends, EndsGood

\* A step of the request that writes no row and may queue its build.
LEMMA RequestGood ==
  ASSUME Inv, NEW b \in Builds, NEW place \in {"idle", "retry", "undo", "lost"}, Reply(b, place),
         client[b] \notin {"idle", "lost"}, client[b] = "undoRun" <=> place = "lost",
         UNCHANGED <<rows, kube, worker, release, settled, sweep, policy, switched, missed>>,
         queue' \subseteq queue \cup {b}, faults' \in 0..MaxFaults, faults' = 0 => faults = 0
  PROVE  Inv' /\ Keeps
<1>1. client' = [client EXCEPT ![b] = place] /\ UNCHANGED <<run, job, started>>
  BY DEF Reply, rows
<1>2. TypeOK'
  BY <1>1 DEF Inv, TypeOK
<1>3. Agree'
  BY <1>1 DEF Inv, TypeOK, Agree
<1>4. Born'
  BY <1>1 DEF Inv, TypeOK, Born
<1>5. Turns' /\ Attended' /\ Earned' /\ ReleasesWereBuilt'
  BY <1>1 DEF Inv, Turns, LetIn, Waits, Attended, AttendedAt, Earned, ReleasesWereBuilt
<1> QED BY <1>1, <1>2, <1>3, <1>4, <1>5 DEF Inv, Keeps

LEMMA DispatchGood ==
  ASSUME Inv, NEW b \in Builds, Dispatch(b) \/ DispatchAgain(b)
  PROVE  Inv' /\ Keeps
<1>1. /\ UNCHANGED <<rows, kube, worker, release, settled, sweep,
                     policy, switched, missed, faults>>
      /\ Reply(b, "idle") /\ client[b] \in {"dispatch", "retry"} /\ queue' = queue \cup {b}
  BY DEF Dispatch, DispatchAgain, Enqueue
<1> QED BY <1>1, RequestGood DEF Inv, TypeOK

LEMMA DispatchRefusedGood ==
  ASSUME Inv, NEW b \in Builds, DispatchRefused(b)
  PROVE  Inv' /\ Keeps
<1>1. /\ UNCHANGED <<rows, kube, worker, release, settled, sweep, policy, switched, missed>>
      /\ client[b] = "dispatch" /\ queue' \subseteq queue \cup {b}
  BY DEF DispatchRefused
<1>2. PICK place \in {"retry", "undo"} : Reply(b, place)
  BY DEF DispatchRefused
<1>3. faults' \in 0..MaxFaults /\ faults' # 0
  BY FaultBound DEF DispatchRefused
<1> QED BY <1>1, <1>2, <1>3, RequestGood

LEMMA ApiStopsGood ==
  ASSUME Inv, NEW b \in Builds, ApiStops(b)
  PROVE  Inv' /\ Keeps
<1>1. /\ UNCHANGED <<rows, kube, queue, worker, release, settled, sweep, policy, switched, missed>>
      /\ \/ client[b] = "dispatch" /\ Reply(b, "retry")
         \/ client[b] = "undo" /\ Reply(b, "idle")
         \/ client[b] = "undoRun" /\ Reply(b, "lost")
  BY DEF ApiStops
<1>2. faults' \in 0..MaxFaults /\ faults' # 0
  BY FaultBound DEF ApiStops
<1>3. CASE client[b] = "dispatch" /\ Reply(b, "retry")
  BY <1>1, <1>2, <1>3, RequestGood
<1>4. CASE client[b] = "undo" /\ Reply(b, "idle")
  BY <1>1, <1>2, <1>4, RequestGood
<1>5. CASE client[b] = "undoRun" /\ Reply(b, "lost")
  BY <1>1, <1>2, <1>5, RequestGood
<1> QED BY <1>1, <1>3, <1>4, <1>5

LEMMA UndoJobGood ==
  ASSUME Inv, NEW b \in Builds, UndoJob(b)
  PROVE  Inv' /\ Keeps
<1>1. /\ UNCHANGED <<run, started, kube, queue, worker, release, settled, sweep,
                     policy, switched, missed, faults>>
      /\ client[b] = "undo" /\ client' = [client EXCEPT ![b] = "undoRun"]
      /\ job' = [job EXCEPT ![b] = IF job[b] \in Active THEN "failed" ELSE job[b]]
  BY DEF UndoJob, Reply
<1>2. TypeOK'
  BY <1>1 DEF Inv, TypeOK, Finished
<1>3. Agree'
  BY <1>1 DEF Inv, TypeOK, Agree, Active
<1>4. Born'
  BY <1>1 DEF Inv, TypeOK, Born
<1>5. Turns' /\ Attended' /\ Earned' /\ ReleasesWereBuilt'
  BY <1>1 DEF Inv, Turns, LetIn, Waits, Attended, AttendedAt, Earned, ReleasesWereBuilt
<1> QED BY <1>1, <1>2, <1>3, <1>4, <1>5 DEF Inv, Keeps

LEMMA UndoRunGood ==
  ASSUME Inv, NEW b \in Builds, UndoRun(b)
  PROVE  Inv' /\ Keeps
<1>1. /\ UNCHANGED <<job, started, kube, queue, worker, release, settled, sweep,
                     policy, switched, missed, faults>>
      /\ client[b] = "undoRun" /\ client' = [client EXCEPT ![b] = "idle"]
      /\ run' = [run EXCEPT ![b] = IF run[b] \in Active THEN "failed" ELSE run[b]]
  BY DEF UndoRun, Reply
<1>2. TypeOK'
  BY <1>1 DEF Inv, TypeOK, Finished
<1>3. Agree'
  BY <1>1 DEF Inv, TypeOK, Agree, Active
<1>4. Born'
  BY <1>1 DEF Inv, TypeOK, Born, Active
<1>5. Turns'
  <2>1. \A c \in Builds : /\ run'[c] = "running" => run[c] = "running"
                          /\ run'[c] = "queued" => run[c] = "queued"
    BY <1>1 DEF Inv, TypeOK
  <2> QED BY <1>1, <2>1, TurnsKept
<1>6. \A c \in Builds : run[c] \in {"none", "succeeded", "deleted"} => run'[c] = run[c]
  BY <1>1 DEF Inv, TypeOK, Active
<1>7. \A c \in Builds : run'[c] \in {"none", "queued"} => run[c] = run'[c]
  BY <1>1 DEF Inv, TypeOK
<1>8. Attended' /\ Earned' /\ ReleasesWereBuilt'
  BY <1>1, <1>6, <1>7 DEF Inv, Attended, AttendedAt, Earned, ReleasesWereBuilt
<1>9. Keeps
  <2>1. run' \in [Builds -> Lifecycle!Statuses]
    BY <1>2 DEF TypeOK, Lifecycle!Statuses, Lifecycle!Active, Lifecycle!Over, Active, Finished
  <2>2. \A c \in Builds : run'[c] = run[c] \/ Lifecycle!Moves(run[c], run'[c])
    BY <1>1 DEF Inv, TypeOK, Lifecycle!Moves, Lifecycle!Over, Active
  <2> QED BY <2>1, <2>2 DEF Keeps, Lifecycle!Next
<1> QED BY <1>2, <1>3, <1>4, <1>5, <1>8, <1>9 DEF Inv

LEMMA DeleteBuildRunGood ==
  ASSUME Inv, NEW b \in Builds, DeleteBuildRun(b)
  PROVE  Inv' /\ Keeps
<1>1. /\ UNCHANGED <<kube, queue, client, worker, release, settled, sweep,
                     policy, switched, missed, faults>>
      /\ run[b] \in Finished /\ started' = started \ {b}
      /\ run' = [run EXCEPT ![b] = "deleted"] /\ job' = [job EXCEPT ![b] = "deleted"]
  BY DEF DeleteBuildRun
<1>2. TypeOK'
  BY <1>1 DEF Inv, TypeOK
<1>3. Agree'
  BY <1>1 DEF Inv, TypeOK, Agree, Active
<1>4. Born'
  BY <1>1 DEF Inv, TypeOK, Born, Finished
<1>5. Turns'
  <2>1. \A c \in Builds : /\ run'[c] = "running" => run[c] = "running"
                          /\ run'[c] = "queued" => run[c] = "queued"
    BY <1>1 DEF Inv, TypeOK
  <2> QED BY <1>1, <2>1, TurnsKept
<1>6. \A c \in Builds : run'[c] = IF c = b THEN "deleted" ELSE run[c]
  BY <1>1 DEF Inv, TypeOK
<1>7. Attended' /\ Earned' /\ ReleasesWereBuilt'
  BY <1>1, <1>6 DEF Inv, Attended, AttendedAt, Earned, ReleasesWereBuilt
<1>8. Keeps
  <2>1. run' \in [Builds -> Lifecycle!Statuses]
    BY <1>2 DEF TypeOK, Lifecycle!Statuses, Lifecycle!Active, Lifecycle!Over, Active, Finished
  <2>2. \A c \in Builds : run'[c] = run[c] \/ Lifecycle!Moves(run[c], run'[c])
    BY <1>1, <1>6 DEF Lifecycle!Moves, Lifecycle!Over, Finished
  <2> QED BY <2>1, <2>2 DEF Keeps, Lifecycle!Next
<1> QED BY <1>2, <1>3, <1>4, <1>5, <1>7, <1>8 DEF Inv

LEMMA TriggerGood ==
  ASSUME Inv, NEW b \in Builds, Trigger(b)
  PROVE  Inv' /\ Keeps
<1>1. /\ UNCHANGED <<started, kube, queue, worker, release, settled, sweep, policy, switched,
                     faults>>
      /\ run[b] = "none" /\ missed' = missed \cup {b} \X LetInBefore(b)
      /\ run' = [run EXCEPT ![b] = "queued"] /\ job' = [job EXCEPT ![b] = "queued"]
      /\ client' = [client EXCEPT ![b] = "dispatch"]
  BY DEF Trigger, Reply
<1>2. TypeOK'
  <2>1. LetInBefore(b) \subseteq Builds
    BY DEF LetInBefore
  <2> QED BY <1>1, <2>1 DEF Inv, TypeOK, Active
<1>3. Agree'
  BY <1>1 DEF Inv, TypeOK, Agree
<1>4. \A c \in Builds : run'[c] = IF c = b THEN "queued" ELSE run[c]
  BY <1>1 DEF Inv, TypeOK
<1>5. Born'
  BY <1>1, <1>4 DEF Inv, TypeOK, Born
<1>6. worker[b] = "idle"
  BY <1>1 DEF Inv, Born
<1>7. Turns'
  <2>1. SUFFICES ASSUME policy \in Exclusive, ~switched, NEW c \in Builds, LetIn(c)',
                        NEW d \in Builds, d < c, run'[d] \in Active
                 PROVE  <<d, c>> \in missed' \/ Waits(d, c)'
    BY <1>1 DEF Inv, Turns
  <2>2. c # b /\ run'[c] = run[c] /\ LetIn(c)
    BY <1>1, <1>4, <1>6, <2>1 DEF LetIn, Past
  <2>3. CASE d = b
    <3>1. CASE policy = "queue" /\ run[c] = "running"
      BY <1>1, <1>4, <1>6, <2>2, <2>3, <3>1 DEF Waits, Past
    <3>2. CASE ~(policy = "queue" /\ run[c] = "running")
      <4>1. c \in LetInBefore(b)
        BY <2>1, <2>2, <2>3, <3>2, BuildAssumption DEF LetInBefore, LetIn, Past, Builds
      <4> QED BY <1>1, <2>3, <4>1
    <3> QED BY <3>1, <3>2
  <2>4. CASE d # b
    BY <1>1, <1>4, <2>1, <2>2, <2>4 DEF Inv, Turns, Waits
  <2> QED BY <2>3, <2>4
<1>8. b \notin started /\ b \notin settled /\ ~(release[b] > 0)
  BY <1>1 DEF Inv, Earned, ReleasesWereBuilt
<1>9. Attended' /\ Earned' /\ ReleasesWereBuilt'
  BY <1>1, <1>4, <1>6, <1>8 DEF Inv, Attended, AttendedAt, Earned, ReleasesWereBuilt
<1>10. Keeps
  <2>1. run' \in [Builds -> Lifecycle!Statuses]
    BY <1>2 DEF TypeOK, Lifecycle!Statuses, Lifecycle!Active, Lifecycle!Over, Active, Finished
  <2>2. \A c \in Builds : run'[c] = run[c] \/ Lifecycle!Moves(run[c], run'[c])
    BY <1>1, <1>4 DEF Lifecycle!Moves
  <2> QED BY <2>1, <2>2 DEF Keeps, Lifecycle!Next
<1> QED BY <1>2, <1>3, <1>5, <1>7, <1>9, <1>10 DEF Inv

-----------------------------------------------------------------------------
(* The theorems.                                                           *)

LEMMA InitInv == Init => Inv
<1> SUFFICES ASSUME Init PROVE Inv
  OBVIOUS
<1>1. TypeOK
  <2>1. /\ policy \in Policies /\ started = {} /\ queue = {} /\ settled = {} /\ sweep = {}
        /\ switched = FALSE /\ missed = {} /\ faults \in 0..MaxFaults
    BY BuildAssumption DEF Init
  <2>2. /\ run \in [Builds -> {"none", "deleted"} \cup Active \cup Finished]
        /\ job \in [Builds -> {"none", "deleted"} \cup Active \cup Finished]
        /\ kube \in [Builds -> {"none", "active", "done", "broken"}]
        /\ client \in [Builds -> {"idle", "dispatch", "retry", "undo", "undoRun", "lost"}]
    BY DEF Init
  <2>3. worker \in [Builds -> Places] /\ release \in [Builds -> 0..MaxBuilds]
    BY BuildAssumption DEF Init, Places
  <2> QED BY <2>1, <2>2, <2>3 DEF TypeOK, Places
<1>2. Agree /\ Born
  BY DEF Init, Agree, Born, Active
<1>3. Turns
  BY BuildAssumption DEF Init, Turns, LetIn, Past
<1>4. Attended /\ Earned /\ ReleasesWereBuilt
  BY DEF Init, Attended, AttendedAt, Earned, ReleasesWereBuilt
<1> QED BY <1>1, <1>2, <1>3, <1>4 DEF Inv

LEMMA StepGood == Inv /\ [Next]_vars => Inv' /\ Keeps
<1> SUFFICES ASSUME Inv, [Next]_vars PROVE Inv' /\ Keeps
  OBVIOUS
<1>1. CASE UNCHANGED vars
  <2>1. /\ UNCHANGED <<run, job, started, kube, queue, client, worker, release>>
        /\ UNCHANGED <<settled, sweep, policy, switched, missed, faults>>
    BY <1>1 DEF vars, rows
  <2>2. TypeOK' /\ Agree' /\ Born'
    BY <2>1 DEF Inv, TypeOK, Agree, Born
  <2>3. Turns' /\ Attended' /\ Earned' /\ ReleasesWereBuilt'
    BY <2>1 DEF Inv, Turns, LetIn, Waits, Attended, AttendedAt, Earned, ReleasesWereBuilt
  <2> QED BY <2>1, <2>2, <2>3 DEF Inv, Keeps
<1>2. CASE SwitchPolicy
  BY <1>2, SwitchPolicyGood
<1>3. ASSUME NEW b \in Builds, Trigger(b) \/ DispatchAgain(b) \/ CancelBuildRun(b) \/ DeleteBuildRun(b)
      PROVE  Inv' /\ Keeps
  BY <1>3, TriggerGood, DispatchGood, CancelBuildRunGood, DeleteBuildRunGood
<1>4. ASSUME NEW b \in Builds, ApiStep(b) PROVE Inv' /\ Keeps
  BY <1>4, DispatchGood, UndoJobGood, UndoRunGood DEF ApiStep
<1>5. ASSUME NEW b \in Builds, WorkerStep(b) PROVE Inv' /\ Keeps
  BY <1>5, TakeTaskGood, AdmitGood, EnsureCapacityGood, StartJobGood, MarkRunningGood,
     FollowCanceledGood, FollowTimedOutGood, FollowSucceededGood, FollowFailedGood,
     CompleteJobGood, SettleGood, CompareBuildsGood, CreateReleaseGood DEF WorkerStep
<1>6. ASSUME NEW b \in Builds, SweepStep(b) PROVE Inv' /\ Keeps
  BY <1>6, ReclaimGood, ReleaseExpiredGood DEF SweepStep
<1>7. ASSUME NEW b \in Builds, FaultStep(b) PROVE Inv' /\ Keeps
  BY <1>7, DispatchRefusedGood, ApiStopsGood, AdmissionFailsGood, MarkFailsGood,
     ObservationFailsGood, CompleteFailsGood, WorkerStopsGood, ReleaseExpiredFailsGood DEF FaultStep
<1>8. ASSUME NEW b \in Builds, KubeEnds(b) PROVE Inv' /\ Keeps
  BY <1>8, KubeEndsGood
<1> QED BY <1>1, <1>2, <1>3, <1>4, <1>5, <1>6, <1>7, <1>8 DEF Next

\* Inv holds in every state of every behaviour of the builds.
THEOREM Invariance == Spec => []Inv
<1>1. Inv /\ [Next]_vars => Inv'
  BY StepGood
<1> QED BY InitInv, <1>1, PTL DEF Spec

\* Every variable keeps its type: a worker, a request or a Job is never in a place the
\* code does not know, and no more revisions are given than builds were requested.
THEOREM TypeCorrect == Spec => []TypeOK
<1>1. Inv => TypeOK
  BY DEF Inv
<1> QED BY Invariance, <1>1, PTL

\* The run and the job of a build are active together and succeed together, unless the
\* request that takes a failed dispatch back is between its two updates, or died there.
THEOREM RowsStayTogether == Spec => []RowsAgree
<1>1. Inv => RowsAgree
  BY DEF Inv, Agree, RowsAgree, Active
<1> QED BY Invariance, <1>1, PTL

\* Under queue and cancel_in_progress two jobs run together only if the earlier build
\* became visible after the later one had been let in, however the admissions, the marks
\* and the cancellations of the builds interleave.
THEOREM OnlyMissedBuildsOverlap == Spec => []OnlyMissedOverlap
<1>1. Inv => OnlyMissedOverlap
  <2>1. SUFFICES ASSUME Inv, policy \in Exclusive, ~switched,
                        NEW b \in Running, NEW c \in Running, b < c
                 PROVE  <<b, c>> \in missed
    BY DEF OnlyMissedOverlap
  <2>2. b \in Builds /\ job[b] = "running" /\ c \in Builds /\ job[c] = "running"
    BY DEF Running
  <2>3. run[b] = "running" /\ run[c] = "running"
    BY <2>1, <2>2 DEF Inv, Agree, Active
  <2>4. <<b, c>> \in missed \/ Waits(b, c)
    BY <2>1, <2>2, <2>3 DEF Inv, Turns, LetIn, Active
  <2> QED BY <2>3, <2>4 DEF Waits
<1> QED BY Invariance, <1>1, PTL

\* Where nothing failed, a build that is over has its Job removed and its usage charged,
\* by its worker or by the sweep, whichever of them ended it.
THEOREM NothingIsLeft == Spec => []NothingLeftBehind
<1>1. Inv => NothingLeftBehind
  BY AttendedNow DEF NothingLeftBehind, At
<1> QED BY Invariance, <1>1, PTL

\* A release is made only of a build that succeeded, and a charge only for one that ran,
\* whatever was written about it since the worker looked.
THEOREM OnlyBuildsAreReleased == Spec => []ReleasesWereBuilt
<1>1. Inv => ReleasesWereBuilt
  BY DEF Inv
<1> QED BY Invariance, <1>1, PTL

\* The runs of the builds are those of BuildLifecycle: a late worker, a cancellation, the
\* sweep or an undone dispatch never overwrites the result of a build.
THEOREM ResultsAreKept == Spec => BuildsKeepTheirResult
<1>1. Init => Lifecycle!Init
  BY DEF Init, Lifecycle!Init
<1>2. Inv /\ [Next]_vars => [Lifecycle!Next]_run
  BY StepGood DEF Keeps
<1> QED BY <1>1, <1>2, Invariance, PTL DEF Spec, BuildsKeepTheirResult, Lifecycle!Spec
=============================================================================
