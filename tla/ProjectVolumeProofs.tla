-------------------------- MODULE ProjectVolumeProofs --------------------------
(***************************************************************************)
(* What TLAPS proves of ProjectVolume for any number of volumes, requests, *)
(* tasks, targets and releases: its types, that the quota holds, that what *)
(* is mounted stays, that the rows follow the transition table and, where  *)
(* the releases of a target take turns, that a mount outlives its use.     *)
(*                                                                         *)
(* MountedStays alone is not inductive: an update replaces the operation   *)
(* of a volume, a retry starts it again and a binding looks at the state   *)
(* alone.  Inv adds where a deletion can be (DeleteStates), what a mount   *)
(* means for the row (MountsOK), and what the requests and the tasks under *)
(* way still know of the row they have read (RequestsOK, TasksOK).         *)
(***************************************************************************)
EXTENDS ProjectVolume, TLAPS

Live == {"provisioning", "ready", "deleting", "error"}

\* A volume that waits for a deletion is being deleted, or that failed, or is gone.
DeleteStates ==
  \A v \in Volumes : vol[v].op = "delete" => vol[v].state \in {"deleting", "error", "deleted"}

\* A request between its transaction and its enqueue knows what it has written.
RequestsOK ==
  \A c \in Clients : request[c].at # "idle" =>
    /\ request[c].vol \in Volumes /\ request[c].op \in Operations
    /\ request[c].from \in {"provisioning", "ready", "deleting"}

\* A worker has seen a volume that was there.
TaskRow == [at : TaskSteps, tries : 0..MaxRetry, seen : Lifecycle!States, cap : 0..MaxCapacity]
TaskOK(t) == t \in TaskRow /\ (t.at \in Running => t.seen \in Live)
TasksOK == \A v \in Volumes, k \in Operations : TaskOK(task[v][k])

\* A mount is free or has a volume, which is there and does not wait for a deletion.
MountsOK ==
  \A t \in Targets :
    /\ mount[t].state = "none" <=> mount[t].vol = NoVolume
    /\ mount[t].vol # NoVolume => Exists(mount[t].vol) /\ vol[mount[t].vol].op # "delete"

\* A release that is under way has a target.
ReleasesOK ==
  \A r \in Releases : release[r].at # "idle" => release[r].target \in Targets

Inv == /\ TypeOK /\ QuotaHolds /\ DeleteStates /\ RequestsOK /\ TasksOK
       /\ MountsOK /\ ReleasesOK

\* What a step is to the lifecycle of the volumes: a step of the table, or nothing.
States == [v \in Volumes |-> vol[v].state]
Keeps  == Lifecycle!Next \/ States' = States

-----------------------------------------------------------------------------
(* The parts of the types.                                                 *)

QuotaRow   == [committed : 0..MaxCapacity, pending : 0..MaxCapacity]
RequestRow == [at : {"idle", "dispatch", "undo"}, vol : Volumes \cup {NoVolume},
               op : Operations \cup {""}, from : Lifecycle!States]
MountRow   == [state : MountStates, vol : Volumes \cup {NoVolume}]
ReleaseRow == [at : {"idle", "apply", "observe", "settle"}, target : Targets \cup {NoTarget},
               plan : Volumes \cup {NoVolume}, seen : MountStates]

StoreTyped   == vol \in [Volumes -> Row] /\ quota \in [Volumes -> QuotaRow] /\ usage \in Int
ClusterTyped == claim \in [Volumes -> 0..MaxCapacity] /\ dying \subseteq {v \in Volumes : claim[v] > 0}
MountsTyped  == /\ mount \in [Targets -> MountRow]
                /\ attached \in [Targets -> Volumes \cup {NoVolume}]
                /\ release \in [Releases -> ReleaseRow]
RequestsTyped == request \in [Clients -> RequestRow]
TasksTyped    == task \in [Volumes -> [Operations -> TaskRow]]
SpentTyped    == spent \in [requests : 0..MaxRequests, faults : 0..MaxFaults]

LEMMA Parts ==
  TypeOK <=> StoreTyped /\ ClusterTyped /\ MountsTyped /\ RequestsTyped /\ TasksTyped /\ SpentTyped
BY DEF TypeOK, StoreTyped, ClusterTyped, MountsTyped, RequestsTyped, TasksTyped, SpentTyped,
       QuotaRow, RequestRow, MountRow, ReleaseRow, TaskRow

LEMMA PartsNext ==
  TypeOK' <=> StoreTyped' /\ ClusterTyped' /\ MountsTyped' /\ RequestsTyped' /\ TasksTyped' /\ SpentTyped'
BY DEF TypeOK, StoreTyped, ClusterTyped, MountsTyped, RequestsTyped, TasksTyped, SpentTyped,
       QuotaRow, RequestRow, MountRow, ReleaseRow, TaskRow

-----------------------------------------------------------------------------
(* The quota trigger.                                                      *)

\* What the trigger reserves for a row is a reservation.
LEMMA ReserveTyped ==
  ASSUME NEW row \in Row, NEW q \in QuotaRow
  PROVE  Reserve(row, q) \in QuotaRow
<1> DEFINE growth == IF row.cap > q.committed THEN row.cap - q.committed ELSE 0
<1>1. /\ row.cap \in 0..MaxCapacity /\ q.committed \in 0..MaxCapacity
      /\ q.pending \in 0..MaxCapacity /\ 0 \in 0..MaxCapacity
  <2>1. row.cap \in 0..MaxCapacity
    BY DEF Row
  <2>2. q.committed \in 0..MaxCapacity /\ q.pending \in 0..MaxCapacity
    BY DEF QuotaRow
  <2> QED BY <2>1, <2>2, VolumeAssumption
<1>2. growth \in 0..MaxCapacity
  <2>1. \A a, b \in 0..MaxCapacity : (IF a > b THEN a - b ELSE 0) \in 0..MaxCapacity
    BY VolumeAssumption
  <2> QED BY <1>1, <2>1
<1>3. \A n \in 0..MaxCapacity : [q EXCEPT !.pending = n] \in QuotaRow
  BY DEF QuotaRow
<1>4. \A n \in 0..MaxCapacity : [committed |-> n, pending |-> 0] \in QuotaRow
  BY <1>1 DEF QuotaRow
<1>5. Reserve(row, q) \in
        {q, [committed |-> 0, pending |-> 0], [committed |-> row.cap, pending |-> 0],
         [q EXCEPT !.pending = 0], [q EXCEPT !.pending = growth]}
  BY DEF Reserve
<1> HIDE DEF growth
<1> QED BY <1>1, <1>2, <1>3, <1>4, <1>5

LEMMA TotalInt == ASSUME NEW q \in QuotaRow PROVE Total(q) \in Int
BY VolumeAssumption DEF QuotaRow, Total

\* A row is only saved when what it reserves fits.
LEMMA SaveGood ==
  ASSUME StoreTyped, QuotaHolds, NEW v \in Volumes, NEW row \in Row, Save(v, row)
  PROVE  StoreTyped' /\ QuotaHolds'
<1> DEFINE new == Reserve(row, quota[v])
<1>1. new \in QuotaRow /\ quota[v] \in QuotaRow
  BY ReserveTyped DEF StoreTyped
<1>2. Total(new) \in Int /\ Total(quota[v]) \in Int
  BY <1>1, TotalInt
<1>3. usage' = usage + Total(new) - Total(quota[v])
  BY DEF Save
<1>4. Total(new) - Total(quota[v]) > 0 => usage + (Total(new) - Total(quota[v])) <= Limit
  BY DEF Save, Fits
<1>5. vol' = [vol EXCEPT ![v] = row] /\ quota' = [quota EXCEPT ![v] = new]
  BY DEF Save
<1> HIDE DEF new
<1>6. usage' \in Int /\ usage' <= Limit
  BY <1>2, <1>3, <1>4, VolumeAssumption DEF StoreTyped, QuotaHolds
<1> QED BY <1>1, <1>5, <1>6 DEF StoreTyped, QuotaHolds

-----------------------------------------------------------------------------
(* The rows.                                                               *)

\* The volumes' part of Inv.
RowsInv == StoreTyped /\ QuotaHolds /\ DeleteStates /\ MountsTyped /\ MountsOK

\* A row that may be saved over another: a deletion is where it can be, and a volume
\* that is mounted stays and does not wait for a deletion.
Decent(v, row) ==
  /\ row \in Row
  /\ row.op = "delete" => row.state \in {"deleting", "error", "deleted"}
  /\ Mounted(v) => row.state \notin {"absent", "deleted"} /\ row.op # "delete"

\* What the transition table says of it.
Allowed(from, to) ==
  \/ from = to
  \/ from = "absent" /\ to = "provisioning"
  \/ from \in Live /\ Lifecycle!CanTransition(from, to)
  \/ from = "deleting" /\ to = "deleted"

LEMMA RowGood ==
  ASSUME RowsInv, NEW v \in Volumes, NEW row, Decent(v, row),
         Save(v, row), UNCHANGED mounts, Allowed(vol[v].state, row.state)
  PROVE  RowsInv' /\ Keeps
<1>1. vol' = [vol EXCEPT ![v] = row] /\ vol \in [Volumes -> Row]
  BY DEF Save, RowsInv, StoreTyped
<1>2. StoreTyped' /\ QuotaHolds'
  BY SaveGood DEF RowsInv, Decent
<1>3. DeleteStates'
  BY <1>1 DEF RowsInv, DeleteStates, Decent
<1>4. MountsTyped'
  BY DEF RowsInv, MountsTyped, mounts
<1>5. MountsOK'
  <2>1. SUFFICES ASSUME NEW t \in Targets, mount[t].vol # NoVolume
                 PROVE  Exists(mount[t].vol)' /\ vol'[mount[t].vol].op # "delete"
    BY DEF RowsInv, MountsOK, mounts, Exists
  <2>2. mount[t].vol \in Volumes /\ mount' = mount
    BY <2>1 DEF RowsInv, MountsTyped, MountRow, mounts
  <2>3. CASE mount[t].vol = v
    BY <1>1, <2>2, <2>3 DEF Decent, Mounted, Exists
  <2>4. CASE mount[t].vol # v
    BY <1>1, <2>1, <2>2, <2>4 DEF RowsInv, MountsOK, Exists
  <2> QED BY <2>3, <2>4
<1>6. Keeps
  <2>1. States \in [Volumes -> Lifecycle!States] /\ States[v] = vol[v].state
    BY <1>1 DEF States, Row
  <2>2. States' = [States EXCEPT ![v] = row.state]
    BY <1>1 DEF States
  <2>3. row.state \in Lifecycle!States
    BY DEF Decent, Row
  <2>4. CASE vol[v].state = row.state
    BY <2>1, <2>2, <2>4 DEF Keeps
  <2>5. CASE vol[v].state = "absent" /\ row.state = "provisioning"
    BY <2>1, <2>2, <2>5 DEF Keeps, Lifecycle!Next, Lifecycle!Create, States
  <2>6. CASE vol[v].state \in Live /\ Lifecycle!CanTransition(vol[v].state, row.state)
    <3>1. Lifecycle!Move(v, row.state)
      BY <2>1, <2>2, <2>6 DEF Lifecycle!Move, States, Live
    <3> QED BY <2>3, <3>1 DEF Keeps, Lifecycle!Next
  <2>7. CASE vol[v].state = "deleting" /\ row.state = "deleted"
    BY <2>1, <2>2, <2>7 DEF Keeps, Lifecycle!Next, Lifecycle!GiveUp, States
  <2> QED BY <2>4, <2>5, <2>6, <2>7 DEF Allowed
<1> QED BY <1>2, <1>3, <1>4, <1>5, <1>6 DEF RowsInv

LEMMA MountedStand ==
  ASSUME RowsInv, NEW v \in Volumes, Mounted(v)
  PROVE  Exists(v) /\ vol[v].op # "delete"
<1>1. PICK t \in Targets : mount[t].vol = v
  BY DEF Mounted
<1> QED BY <1>1, VolumeAssumption DEF RowsInv, MountsOK

\* Nothing is saved.
LEMMA StoreKept ==
  ASSUME RowsInv, UNCHANGED <<store, mounts>>
  PROVE  RowsInv' /\ Keeps
BY DEF RowsInv, StoreTyped, QuotaHolds, DeleteStates, MountsTyped, MountsOK, Exists, store, mounts,
       Keeps, States

\* TransitionProjectVolume, to "error" or to "ready", where the table allows it.
LEMMA TransitionGood ==
  ASSUME RowsInv, NEW v \in Volumes, NEW from \in Live, NEW to \in {"ready", "error"},
         Lifecycle!CanTransition(from, to), Transition(v, from, to), UNCHANGED mounts
  PROVE  RowsInv' /\ Keeps
<1>1. CASE CanMove(v, from, to)
  <2> DEFINE row == Moved(v, to)
  <2>1. vol[v] \in Row
    BY DEF RowsInv, StoreTyped
  <2>2. /\ row \in Row /\ row.state = to
        /\ row.op = IF to = "ready" THEN "" ELSE vol[v].op
    BY <2>1 DEF Moved, Row, Lifecycle!States
  <2>3. Save(v, row) /\ vol[v].state = from
    BY <1>1 DEF Transition, CanMove
  <2> HIDE DEF row
  <2>4. Mounted(v) => vol[v].op # "delete"
    BY MountedStand
  <2>5. Decent(v, row)
    BY <2>2, <2>4 DEF Decent
  <2>6. Allowed(vol[v].state, row.state)
    BY <2>2, <2>3 DEF Allowed
  <2> QED BY <2>3, <2>5, <2>6, RowGood
<1>2. CASE ~CanMove(v, from, to)
  BY <1>2, StoreKept DEF Transition
<1> QED BY <1>1, <1>2

-----------------------------------------------------------------------------
(* The other parts of Inv.                                                 *)

AskInv  == RequestsTyped /\ RequestsOK
TaskInv == TasksTyped /\ TasksOK
Rest    == ClusterTyped /\ AskInv /\ TaskInv /\ ReleasesOK /\ SpentTyped

LEMMA InvParts == Inv <=> RowsInv /\ Rest
BY Parts DEF Inv, RowsInv, Rest, AskInv, TaskInv

LEMMA InvPartsNext == Inv' <=> RowsInv' /\ Rest'
BY PartsNext DEF Inv, RowsInv, Rest, AskInv, TaskInv

LEMMA ClusterKept == ASSUME Inv, UNCHANGED cluster PROVE ClusterTyped'
BY InvParts DEF Rest, ClusterTyped, cluster

LEMMA AskKept == ASSUME Inv, UNCHANGED request PROVE AskInv'
BY InvParts DEF Rest, AskInv, RequestsTyped, RequestsOK

LEMMA TaskKept == ASSUME Inv, UNCHANGED task PROVE TaskInv'
BY InvParts DEF Rest, TaskInv, TasksTyped, TasksOK

LEMMA ReleasesKept == ASSUME Inv, UNCHANGED release PROVE ReleasesOK'
BY InvParts DEF Rest, ReleasesOK

LEMMA SpentKept == ASSUME Inv, UNCHANGED spent PROVE SpentTyped'
BY InvParts DEF Rest, SpentTyped

LEMMA FaultSpent == ASSUME Inv, Fault PROVE SpentTyped'
<1>1. /\ spent \in [requests : 0..MaxRequests, faults : 0..MaxFaults]
      /\ spent.faults < MaxFaults /\ spent' = [spent EXCEPT !.faults = @ + 1]
  BY InvParts DEF Rest, SpentTyped, Fault
<1>2. spent.faults + 1 \in 0..MaxFaults
  BY <1>1, VolumeAssumption
<1> QED BY <1>1, <1>2 DEF SpentTyped

LEMMA RequestSpent ==
  ASSUME Inv, spent.requests < MaxRequests, spent' = [spent EXCEPT !.requests = @ + 1]
  PROVE  SpentTyped'
<1>1. spent \in [requests : 0..MaxRequests, faults : 0..MaxFaults]
  BY InvParts DEF Rest, SpentTyped
<1>2. spent.requests + 1 \in 0..MaxRequests
  BY <1>1, VolumeAssumption
<1> QED BY <1>1, <1>2 DEF SpentTyped

\* A request is written over another.
LEMMA RequestGood ==
  ASSUME Inv, NEW c \in Clients, NEW q \in RequestRow, request' = [request EXCEPT ![c] = q],
         q.at # "idle" => /\ q.vol \in Volumes /\ q.op \in Operations
                          /\ q.from \in {"provisioning", "ready", "deleting"}
  PROVE  AskInv'
<1>1. request \in [Clients -> RequestRow] /\ RequestsOK
  BY InvParts DEF Rest, AskInv, RequestsTyped
<1>2. RequestsTyped'
  BY <1>1 DEF RequestsTyped
<1>3. RequestsOK'
  BY <1>1 DEF RequestsOK
<1> QED BY <1>2, <1>3 DEF AskInv

LEMMA RequestEnds ==
  ASSUME Inv, NEW c \in Clients, request' = [request EXCEPT ![c] = Idle]
  PROVE  AskInv'
<1>1. Idle \in RequestRow /\ Idle.at = "idle"
  BY DEF Idle, RequestRow, Lifecycle!States
<1> QED BY <1>1, RequestGood

\* A task is written over another.
LEMMA TaskGood ==
  ASSUME Inv, NEW v \in Volumes, NEW k \in Operations, NEW t, TaskOK(t),
         task' = [task EXCEPT ![v][k] = t]
  PROVE  TaskInv'
<1>1. task \in [Volumes -> [Operations -> TaskRow]] /\ TasksOK
  BY InvParts DEF Rest, TaskInv, TasksTyped
<1>2. TasksTyped'
  BY <1>1 DEF TasksTyped, TaskOK
<1>3. TasksOK'
  BY <1>1 DEF TasksOK
<1> QED BY <1>2, <1>3 DEF TaskInv

LEMMA TaskTyped ==
  ASSUME Inv, NEW v \in Volumes, NEW k \in Operations
  PROVE  /\ task[v][k] \in TaskRow
         /\ task[v][k].at \in Running => task[v][k].seen \in Live
         /\ task \in [Volumes -> [Operations -> TaskRow]]
BY InvParts DEF Rest, TaskInv, TasksTyped, TasksOK, TaskOK

LEMMA FreshTask ==
  ASSUME NEW at \in {"none", "queued", "archived"}, NEW n \in 0..MaxRetry
  PROVE  TaskOK([at |-> at, tries |-> n, seen |-> "absent", cap |-> 0])
<1>1. 0 \in 0..MaxCapacity /\ at \in TaskSteps /\ "absent" \in Lifecycle!States
  BY VolumeAssumption DEF TaskSteps, Lifecycle!States
<1> QED BY <1>1 DEF TaskOK, TaskRow, Running

LEMMA QueueGood ==
  ASSUME Inv, NEW v \in Volumes, NEW k \in Operations, Queue(v, k)
  PROVE  TaskInv'
<1>1. 0 \in 0..MaxRetry
  BY VolumeAssumption
<1>2. TaskOK([NoTask EXCEPT !.at = "queued"])
  BY <1>1, FreshTask DEF NoTask
<1> QED BY <1>2, TaskGood DEF Queue

LEMMA EndTaskGood ==
  ASSUME Inv, NEW v \in Volumes, NEW k \in Operations, EndTask(v, k)
  PROVE  TaskInv'
<1>1. 0 \in 0..MaxRetry
  BY VolumeAssumption
<1>2. TaskOK(NoTask)
  BY <1>1, FreshTask DEF NoTask
<1> QED BY <1>2, TaskGood DEF EndTask

LEMMA SetGood ==
  ASSUME Inv, NEW v \in Volumes, NEW k \in Operations, NEW at \in TaskSteps, Set(v, k, at),
         task[v][k].at \in Running
  PROVE  TaskInv'
<1> DEFINE t == [task[v][k] EXCEPT !.at = at]
<1>1. TaskOK(t)
  BY TaskTyped DEF TaskOK, TaskRow
<1>2. task' = [task EXCEPT ![v][k] = t]
  BY DEF Set
<1> HIDE DEF t
<1> QED BY <1>1, <1>2, TaskGood

LEMMA AgainGood ==
  ASSUME Inv, NEW v \in Volumes, NEW k \in Operations, Again(v, k)
  PROVE  TaskInv'
<1>1. task[v][k].tries \in 0..MaxRetry /\ 0 \in 0..MaxRetry
  BY TaskTyped, VolumeAssumption DEF TaskRow
<1>2. CASE task[v][k].tries < MaxRetry
  <2>1. task[v][k].tries + 1 \in 0..MaxRetry
    BY <1>1, <1>2, VolumeAssumption
  <2> DEFINE t == [at |-> "queued", tries |-> task[v][k].tries + 1, seen |-> "absent", cap |-> 0]
  <2>2. TaskOK(t)
    BY <2>1, FreshTask
  <2>3. task' = [task EXCEPT ![v][k] = t]
    BY <1>2 DEF Again
  <2> HIDE DEF t
  <2> QED BY <2>2, <2>3, TaskGood
<1>3. CASE ~(task[v][k].tries < MaxRetry)
  <2> DEFINE t == [NoTask EXCEPT !.at = "archived"]
  <2>1. TaskOK(t)
    BY <1>1, FreshTask DEF NoTask
  <2>2. task' = [task EXCEPT ![v][k] = t]
    BY <1>3 DEF Again
  <2> HIDE DEF t
  <2> QED BY <2>1, <2>2, TaskGood
<1> QED BY <1>2, <1>3

-----------------------------------------------------------------------------
(* The API.                                                                *)

\* What Ask writes besides the row.
LEMMA AskGood ==
  ASSUME Inv, NEW c \in Clients, NEW v \in Volumes, NEW op \in Operations,
         NEW from \in {"provisioning", "ready", "deleting"}, Ask(c, v, op, from)
  PROVE  Rest'
<1> DEFINE q == [at |-> "dispatch", vol |-> v, op |-> op, from |-> from]
<1>1. /\ q \in RequestRow /\ q.vol \in Volumes /\ q.op \in Operations
      /\ q.from \in {"provisioning", "ready", "deleting"}
  BY DEF RequestRow, Lifecycle!States
<1>2. request' = [request EXCEPT ![c] = q]
  BY DEF Ask
<1> HIDE DEF q
<1>3. AskInv'
  BY <1>1, <1>2, RequestGood
<1>4. SpentTyped'
  BY RequestSpent DEF Ask
<1>5. ClusterTyped' /\ TaskInv' /\ ReleasesOK'
  BY ClusterKept, TaskKept, ReleasesKept DEF Ask, mounts
<1> QED BY <1>3, <1>4, <1>5 DEF Rest

LEMMA CreateProjectVolumeGood ==
  ASSUME Inv, NEW c \in Clients, NEW v \in Volumes, CreateProjectVolume(c, v)
  PROVE  Inv' /\ Keeps
<1>1. PICK n \in Capacities : Save(v, [state |-> "provisioning", op |-> "provision", cap |-> n])
  BY DEF CreateProjectVolume
<1> DEFINE row == [state |-> "provisioning", op |-> "provision", cap |-> n]
<1>2. row \in Row /\ row.state = "provisioning" /\ row.op = "provision"
  <2>1. n \in 0..MaxCapacity
    BY VolumeAssumption DEF Capacities
  <2> QED BY <2>1 DEF Row, Operations, Lifecycle!States
<1>3. Save(v, row) /\ UNCHANGED mounts /\ vol[v].state = "absent"
  BY <1>1 DEF CreateProjectVolume, Ask
<1> HIDE DEF row
<1>4. Decent(v, row) /\ Allowed(vol[v].state, row.state)
  BY <1>2, <1>3 DEF Decent, Allowed
<1>5. Rest'
  BY AskGood DEF CreateProjectVolume, Operations
<1> QED BY <1>3, <1>4, <1>5, RowGood, InvParts, InvPartsNext

LEMMA UpdateProjectVolumeGood ==
  ASSUME Inv, NEW c \in Clients, NEW v \in Volumes, UpdateProjectVolume(c, v)
  PROVE  Inv' /\ Keeps
<1>1. PICK n \in Capacities : n > vol[v].cap /\ Save(v, [vol[v] EXCEPT !.cap = n, !.op = "expand"])
  BY DEF UpdateProjectVolume
<1> DEFINE row == [vol[v] EXCEPT !.cap = n, !.op = "expand"]
<1>2. vol[v] \in Row
  BY InvParts DEF RowsInv, StoreTyped
<1>3. row \in Row /\ row.state = vol[v].state /\ row.op = "expand"
  <2>1. n \in 0..MaxCapacity
    BY VolumeAssumption DEF Capacities
  <2> QED BY <1>2, <2>1 DEF Row, Operations
<1>4. Save(v, row) /\ UNCHANGED mounts /\ vol[v].state \notin {"absent", "deleted"}
  BY <1>1 DEF UpdateProjectVolume, Ask, Exists
<1> HIDE DEF row
<1>5. Decent(v, row) /\ Allowed(vol[v].state, row.state)
  BY <1>3, <1>4 DEF Decent, Allowed
<1>6. Rest'
  BY AskGood DEF UpdateProjectVolume, Operations
<1> QED BY <1>4, <1>5, <1>6, RowGood, InvParts, InvPartsNext

LEMMA RequestDeleteGood ==
  ASSUME Inv, NEW c \in Clients, NEW v \in Volumes, RequestDelete(c, v)
  PROVE  Inv' /\ Keeps
<1> DEFINE row == [vol[v] EXCEPT !.state = "deleting", !.op = "delete"]
<1>1. vol[v] \in Row
  BY InvParts DEF RowsInv, StoreTyped
<1>2. row \in Row /\ row.state = "deleting" /\ row.op = "delete"
  BY <1>1 DEF Row, Operations, Lifecycle!States
<1>3. Save(v, row) /\ UNCHANGED mounts /\ ~Mounted(v)
  BY DEF RequestDelete, Ask
<1>4. vol[v].state \in Live /\ Lifecycle!CanTransition(vol[v].state, "deleting")
  BY <1>1 DEF RequestDelete, Exists, Row, Lifecycle!States, Live
<1> HIDE DEF row
<1>5. Decent(v, row) /\ Allowed(vol[v].state, row.state)
  BY <1>2, <1>3, <1>4 DEF Decent, Allowed
<1>6. Rest'
  BY AskGood DEF RequestDelete, Operations
<1> QED BY <1>3, <1>5, <1>6, RowGood, InvParts, InvPartsNext

LEMMA RetryOperationGood ==
  ASSUME Inv, NEW c \in Clients, NEW v \in Volumes, RetryOperation(c, v)
  PROVE  Inv' /\ Keeps
<1> DEFINE to  == IF vol[v].op = "delete" THEN "deleting" ELSE "provisioning"
           row == [vol[v] EXCEPT !.state = to]
<1>1. vol[v] \in Row /\ to \in {"deleting", "provisioning"}
  BY InvParts DEF RowsInv, StoreTyped
<1>2. /\ row \in Row /\ row.state = to /\ row.op = vol[v].op
      /\ row.op = "delete" => row.state = "deleting"
  BY <1>1 DEF Row, Lifecycle!States
<1>3. Save(v, row) /\ UNCHANGED mounts /\ vol[v].state = "error" /\ Ask(c, v, vol[v].op, to)
  BY DEF RetryOperation, Ask
<1>4. vol[v].op \in Operations
  BY <1>1 DEF RetryOperation, Row
<1> HIDE DEF row, to
<1>5. Decent(v, row)
  <2>1. Mounted(v) => vol[v].op # "delete"
    BY MountedStand, InvParts
  <2> QED BY <1>1, <1>2, <2>1 DEF Decent
<1>6. Allowed(vol[v].state, row.state)
  BY <1>1, <1>2, <1>3 DEF Allowed, Live, Lifecycle!CanTransition
<1>7. Rest'
  BY <1>1, <1>3, <1>4, AskGood
<1> QED BY <1>3, <1>5, <1>6, <1>7, RowGood, InvParts, InvPartsNext

LEMMA RequestOf ==
  ASSUME Inv, NEW c \in Clients, request[c].at # "idle"
  PROVE  /\ request[c] \in RequestRow
         /\ request[c].vol \in Volumes /\ request[c].op \in Operations
         /\ request[c].from \in {"provisioning", "ready", "deleting"}
BY InvParts DEF Rest, AskInv, RequestsTyped, RequestsOK

LEMMA DispatchGood ==
  ASSUME Inv, NEW c \in Clients, Dispatch(c)
  PROVE  Inv' /\ Keeps
<1>1. request[c].vol \in Volumes /\ request[c].op \in Operations
  BY RequestOf DEF Dispatch
<1>2. TaskInv'
  BY <1>1, QueueGood DEF Dispatch
<1>3. AskInv'
  BY RequestEnds DEF Dispatch
<1>4. ClusterTyped' /\ ReleasesOK' /\ SpentTyped'
  BY ClusterKept, ReleasesKept, SpentKept DEF Dispatch, mounts
<1>5. RowsInv' /\ Keeps
  BY StoreKept, InvParts DEF Dispatch
<1> QED BY <1>2, <1>3, <1>4, <1>5, InvPartsNext DEF Rest

LEMMA DispatchRefusedGood ==
  ASSUME Inv, NEW c \in Clients, DispatchRefused(c)
  PROVE  Inv' /\ Keeps
<1> DEFINE q == [request[c] EXCEPT !.at = "undo"]
<1>1. /\ q \in RequestRow /\ q.vol \in Volumes /\ q.op \in Operations
      /\ q.from \in {"provisioning", "ready", "deleting"}
  BY RequestOf DEF DispatchRefused, RequestRow
<1>2. request' = [request EXCEPT ![c] = q]
  BY DEF DispatchRefused
<1> HIDE DEF q
<1>3. AskInv'
  BY <1>1, <1>2, RequestGood
<1>4. SpentTyped'
  BY FaultSpent, SpentKept DEF DispatchRefused
<1>5. ClusterTyped' /\ TaskInv' /\ ReleasesOK'
  BY ClusterKept, TaskKept, ReleasesKept DEF DispatchRefused, mounts
<1>6. RowsInv' /\ Keeps
  BY StoreKept, InvParts DEF DispatchRefused
<1> QED BY <1>3, <1>4, <1>5, <1>6, InvPartsNext DEF Rest

LEMMA UndoDispatchGood ==
  ASSUME Inv, NEW c \in Clients, UndoDispatch(c)
  PROVE  Inv' /\ Keeps
<1>1. request[c].vol \in Volumes /\ request[c].from \in {"provisioning", "ready", "deleting"}
  BY RequestOf DEF UndoDispatch
<1>2. request[c].from \in Live /\ Lifecycle!CanTransition(request[c].from, "error")
  BY <1>1 DEF Live, Lifecycle!CanTransition
<1>3. RowsInv' /\ Keeps
  BY <1>1, <1>2, TransitionGood, InvParts DEF UndoDispatch
<1>4. AskInv'
  BY RequestEnds DEF UndoDispatch
<1>5. ClusterTyped' /\ TaskInv' /\ ReleasesOK' /\ SpentTyped'
  BY ClusterKept, TaskKept, ReleasesKept, SpentKept DEF UndoDispatch, mounts
<1> QED BY <1>3, <1>4, <1>5, InvPartsNext DEF Rest

LEMMA RequestLostGood ==
  ASSUME Inv, NEW c \in Clients, RequestLost(c)
  PROVE  Inv' /\ Keeps
<1>1. AskInv'
  BY RequestEnds DEF RequestLost
<1>2. ClusterTyped' /\ TaskInv' /\ ReleasesOK' /\ SpentTyped'
  BY ClusterKept, TaskKept, ReleasesKept, FaultSpent DEF RequestLost, mounts
<1>3. RowsInv' /\ Keeps
  BY StoreKept, InvParts DEF RequestLost
<1> QED BY <1>1, <1>2, <1>3, InvPartsNext DEF Rest

-----------------------------------------------------------------------------
(* The worker.                                                             *)

\* A step that moves a task and writes no row.
LEMMA TaskStepGood ==
  ASSUME Inv, TaskInv', ClusterTyped', SpentTyped', UNCHANGED <<store, mounts, request>>
  PROVE  Inv' /\ Keeps
<1>1. AskInv' /\ ReleasesOK'
  BY AskKept, ReleasesKept DEF mounts
<1>2. RowsInv' /\ Keeps
  BY StoreKept, InvParts
<1> QED BY <1>1, <1>2, InvPartsNext DEF Rest

LEMMA TakeTaskGood ==
  ASSUME Inv, NEW v \in Volumes, NEW k \in Operations, TakeTask(v, k)
  PROVE  Inv' /\ Keeps
<1>1. CASE Awaited(v, k)
  <2> DEFINE t == [task[v][k] EXCEPT !.at = "apply", !.seen = vol[v].state, !.cap = vol[v].cap]
  <2>1. vol[v] \in Row /\ vol[v].state \in Live
    BY <1>1, InvParts DEF RowsInv, StoreTyped, Awaited, Exists, Row, Lifecycle!States, Live
  <2>2. TaskOK(t)
    BY <2>1, TaskTyped DEF TaskOK, TaskRow, Row, TaskSteps
  <2>3. task' = [task EXCEPT ![v][k] = t]
    BY <1>1 DEF TakeTask
  <2> HIDE DEF t
  <2>4. TaskInv'
    BY <2>2, <2>3, TaskGood
  <2> QED BY <2>4, TaskStepGood, ClusterKept, SpentKept DEF TakeTask
<1>2. CASE ~Awaited(v, k)
  <2>1. TaskInv'
    BY <1>2, EndTaskGood DEF TakeTask
  <2> QED BY <2>1, TaskStepGood, ClusterKept, SpentKept DEF TakeTask
<1> QED BY <1>1, <1>2

LEMMA ProvisionClaimGood ==
  ASSUME Inv, NEW v \in Volumes, ProvisionClaim(v)
  PROVE  Inv' /\ Keeps
<1>1. "provision" \in Operations /\ task[v]["provision"].at \in Running
  BY DEF ProvisionClaim, Operations, Running
<1>2. TaskInv'
  BY <1>1, SetGood DEF ProvisionClaim, TaskSteps
<1>3. ClusterTyped'
  <2>1. task[v]["provision"].cap \in 0..MaxCapacity
    BY <1>1, TaskTyped DEF TaskRow
  <2>2. claim \in [Volumes -> 0..MaxCapacity] /\ dying \subseteq {w \in Volumes : claim[w] > 0}
    BY InvParts DEF Rest, ClusterTyped
  <2>3. \/ claim' = claim
        \/ claim' = [claim EXCEPT ![v] = IF claim[v] = 0 THEN task[v]["provision"].cap ELSE claim[v]]
    BY DEF ProvisionClaim
  <2>4. dying' = dying
    BY DEF ProvisionClaim
  <2>5. claim' \in [Volumes -> 0..MaxCapacity]
    BY <2>1, <2>2, <2>3
  <2>6. \A w \in Volumes : claim[w] > 0 => claim'[w] = claim[w]
    BY <2>2, <2>3
  <2> QED BY <2>2, <2>4, <2>5, <2>6 DEF ClusterTyped
<1> QED BY <1>2, <1>3, TaskStepGood, SpentKept DEF ProvisionClaim

LEMMA ExpandClaimGood ==
  ASSUME Inv, NEW v \in Volumes, ExpandClaim(v)
  PROVE  Inv' /\ Keeps
<1>1. "expand" \in Operations /\ task[v]["expand"].at \in Running
  BY DEF ExpandClaim, Operations, Running
<1>2. TaskInv'
  BY <1>1, SetGood DEF ExpandClaim, TaskSteps
<1>3. ClusterTyped'
  <2> DEFINE cap == task[v]["expand"].cap
  <2>1. cap \in 0..MaxCapacity
    BY <1>1, TaskTyped DEF TaskRow
  <2>2. claim \in [Volumes -> 0..MaxCapacity] /\ dying \subseteq {w \in Volumes : claim[w] > 0}
    BY InvParts DEF Rest, ClusterTyped
  <2>3. \/ claim' = claim
        \/ claim[v] # 0 /\ ~(claim[v] > cap) /\ claim' = [claim EXCEPT ![v] = cap]
    BY DEF ExpandClaim
  <2>4. dying' = dying
    BY DEF ExpandClaim
  <2> HIDE DEF cap
  <2>5. claim' \in [Volumes -> 0..MaxCapacity]
    BY <2>1, <2>2, <2>3
  <2>6. claim[v] # 0 /\ ~(claim[v] > cap) => cap > 0
    <3>1. claim[v] \in 0..MaxCapacity
      BY <2>2
    <3> QED BY <2>1, <3>1, VolumeAssumption
  <2>7. \A w \in Volumes : claim[w] > 0 => claim'[w] > 0
    BY <2>2, <2>3, <2>6
  <2> QED BY <2>2, <2>4, <2>5, <2>7 DEF ClusterTyped
<1> QED BY <1>2, <1>3, TaskStepGood, SpentKept DEF ExpandClaim

LEMMA DeleteClaimGood ==
  ASSUME Inv, NEW v \in Volumes, DeleteClaim(v)
  PROVE  Inv' /\ Keeps
<1>1. "delete" \in Operations /\ task[v]["delete"].at \in Running
  BY DEF DeleteClaim, Operations, Running
<1>2. TaskInv'
  BY <1>1, SetGood DEF DeleteClaim, TaskSteps
<1>3. ClusterTyped'
  BY InvParts DEF Rest, ClusterTyped, DeleteClaim
<1> QED BY <1>2, <1>3, TaskStepGood, SpentKept DEF DeleteClaim

LEMMA ObserveClaimGood ==
  ASSUME Inv, NEW v \in Volumes, ObserveClaim(v)
  PROVE  Inv' /\ Keeps
<1>1. "delete" \in Operations /\ task[v]["delete"].at \in Running
  BY DEF ObserveClaim, Operations, Running
<1>2. TaskInv'
  BY <1>1, SetGood, AgainGood DEF ObserveClaim, TaskSteps
<1> QED BY <1>2, TaskStepGood, ClusterKept, SpentKept DEF ObserveClaim

LEMMA ClusterUnavailableGood ==
  ASSUME Inv, NEW v \in Volumes, NEW k \in Operations, ClusterUnavailable(v, k)
  PROVE  Inv' /\ Keeps
<1>1. TaskInv'
  BY SetGood DEF ClusterUnavailable, TaskSteps, Running
<1> QED BY <1>1, TaskStepGood, ClusterKept, SpentKept DEF ClusterUnavailable

LEMMA WorkerStopsGood ==
  ASSUME Inv, NEW v \in Volumes, NEW k \in Operations, WorkerStops(v, k)
  PROVE  Inv' /\ Keeps
<1>1. TaskInv'
  BY AgainGood DEF WorkerStops
<1> QED BY <1>1, TaskStepGood, ClusterKept, FaultSpent DEF WorkerStops

LEMMA LockExpiresGood ==
  ASSUME Inv, NEW v \in Volumes, NEW k \in Operations, LockExpires(v, k)
  PROVE  Inv' /\ Keeps
<1>1. TaskInv'
  BY EndTaskGood DEF LockExpires
<1> QED BY <1>1, TaskStepGood, ClusterKept, SpentKept DEF LockExpires

LEMMA ReconcileGood ==
  ASSUME Inv, NEW v \in Volumes, Reconcile(v)
  PROVE  Inv' /\ Keeps
<1>1. vol[v].op \in Operations
  BY DEF Reconcile, Operations
<1>2. TaskInv'
  BY <1>1, QueueGood DEF Reconcile
<1> QED BY <1>2, TaskStepGood, ClusterKept, SpentKept DEF Reconcile

LEMMA ClaimGoneGood ==
  ASSUME Inv, NEW v \in Volumes, ClaimGone(v)
  PROVE  Inv' /\ Keeps
<1>1. ClusterTyped'
  <2>1. 0 \in 0..MaxCapacity
    BY VolumeAssumption
  <2>2. claim \in [Volumes -> 0..MaxCapacity] /\ dying \subseteq {w \in Volumes : claim[w] > 0}
    BY InvParts DEF Rest, ClusterTyped
  <2>3. claim' \in [Volumes -> 0..MaxCapacity]
    BY <2>1, <2>2 DEF ClaimGone
  <2> QED BY <2>2, <2>3 DEF ClusterTyped, ClaimGone
<1> QED BY <1>1, TaskStepGood, TaskKept, SpentKept DEF ClaimGone

\* A step of a worker that settles a row.
LEMMA SettleStepGood ==
  ASSUME Inv, RowsInv', Keeps, TaskInv', UNCHANGED <<cluster, mounts, request, spent>>
  PROVE  Inv' /\ Keeps
<1>1. ClusterTyped' /\ AskInv' /\ ReleasesOK' /\ SpentTyped'
  BY ClusterKept, AskKept, ReleasesKept, SpentKept DEF mounts
<1> QED BY <1>1, InvPartsNext DEF Rest

LEMMA SettleReadyGood ==
  ASSUME Inv, NEW v \in Volumes, NEW k \in Operations, SettleReady(v, k)
  PROVE  Inv' /\ Keeps
<1> DEFINE seen == task[v][k].seen
<1>1. seen \in Live
  BY TaskTyped DEF SettleReady, Running
<1>2. TaskInv'
  BY EndTaskGood, AgainGood DEF SettleReady
<1>3. UNCHANGED <<cluster, mounts, request, spent>>
  BY DEF SettleReady
<1>4. CASE Lifecycle!CanTransition(seen, "ready") /\ CanMove(v, seen, "ready")
  <2>1. Transition(v, seen, "ready")
    BY <1>4 DEF SettleReady, Transition
  <2>2. RowsInv' /\ Keeps
    BY <1>1, <1>3, <1>4, <2>1, TransitionGood, InvParts
  <2> QED BY <1>2, <1>3, <2>2, SettleStepGood
<1>5. CASE ~(Lifecycle!CanTransition(seen, "ready") /\ CanMove(v, seen, "ready"))
  <2>1. UNCHANGED store
    BY <1>5 DEF SettleReady
  <2>2. RowsInv' /\ Keeps
    BY <1>3, <2>1, StoreKept, InvParts
  <2> QED BY <1>2, <1>3, <2>2, SettleStepGood
<1> QED BY <1>4, <1>5

LEMMA CompleteDeletionGood ==
  ASSUME Inv, NEW v \in Volumes, CompleteDeletion(v)
  PROVE  Inv' /\ Keeps
<1>1. "delete" \in Operations
  BY DEF Operations
<1>2. TaskInv'
  BY <1>1, EndTaskGood, AgainGood DEF CompleteDeletion
<1>3. UNCHANGED <<cluster, mounts, request, spent>>
  BY DEF CompleteDeletion
<1>4. CASE vol[v].state = "deleting" /\ vol[v].op = "delete" /\ ~Mounted(v)
  <2> DEFINE row == [vol[v] EXCEPT !.state = "deleted"]
  <2>1. row \in Row /\ row.state = "deleted" /\ row.op = vol[v].op
    BY InvParts DEF RowsInv, StoreTyped, Row, Lifecycle!States
  <2>2. Save(v, row)
    BY <1>4 DEF CompleteDeletion
  <2> HIDE DEF row
  <2>3. Decent(v, row) /\ Allowed(vol[v].state, row.state)
    BY <1>4, <2>1 DEF Decent, Allowed
  <2>4. RowsInv' /\ Keeps
    BY <1>3, <2>2, <2>3, RowGood, InvParts
  <2> QED BY <1>2, <1>3, <2>4, SettleStepGood
<1>5. CASE ~(vol[v].state = "deleting" /\ vol[v].op = "delete" /\ ~Mounted(v))
  <2>1. UNCHANGED store
    BY <1>5 DEF CompleteDeletion
  <2>2. RowsInv' /\ Keeps
    BY <1>3, <2>1, StoreKept, InvParts
  <2> QED BY <1>2, <1>3, <2>2, SettleStepGood
<1> QED BY <1>4, <1>5

LEMMA FinishAttemptGood ==
  ASSUME Inv, NEW v \in Volumes, NEW k \in Operations, FinishAttempt(v, k)
  PROVE  Inv' /\ Keeps
<1> DEFINE seen == task[v][k].seen
<1>1. task[v][k].at \in Running /\ seen \in Live
  BY TaskTyped DEF FinishAttempt, Running
<1>2. TaskInv'
  BY <1>1, SetGood, AgainGood DEF FinishAttempt, TaskSteps
<1>3. UNCHANGED <<cluster, mounts, request, spent>>
  BY DEF FinishAttempt
<1>4. CASE Transition(v, seen, "error")
  <2>1. Lifecycle!CanTransition(seen, "error")
    BY <1>1 DEF Live, Lifecycle!CanTransition
  <2>2. RowsInv' /\ Keeps
    BY <1>1, <1>3, <1>4, <2>1, TransitionGood, InvParts
  <2> QED BY <1>2, <1>3, <2>2, SettleStepGood
<1>5. CASE UNCHANGED store
  <2>1. RowsInv' /\ Keeps
    BY <1>3, <1>5, StoreKept, InvParts
  <2> QED BY <1>2, <1>3, <2>1, SettleStepGood
<1> QED BY <1>4, <1>5 DEF FinishAttempt

-----------------------------------------------------------------------------
(* The mounts.                                                             *)

\* A step of the mounts and of the releases writes no row.
LEMMA MountStepGood ==
  ASSUME Inv, MountsTyped', ReleasesOK', UNCHANGED <<store, cluster, request, task, spent>>,
         \A t \in Targets :
           \/ mount'[t] = mount[t]
           \/ mount'[t] = NoMount
           \/ /\ mount'[t].state # "none" /\ mount'[t].vol \in Volumes
              /\ Exists(mount'[t].vol) /\ vol[mount'[t].vol].op # "delete"
  PROVE  Inv' /\ Keeps
<1>1. vol' = vol /\ quota' = quota /\ usage' = usage
  BY DEF store
<1>2. StoreTyped' /\ QuotaHolds' /\ DeleteStates' /\ Keeps
  BY <1>1, InvParts DEF RowsInv, StoreTyped, QuotaHolds, DeleteStates, Keeps, States
<1>3. MountsOK'
  BY <1>1, InvParts, VolumeAssumption DEF RowsInv, MountsOK, NoMount, Exists
<1>4. ClusterTyped' /\ AskInv' /\ TaskInv' /\ SpentTyped'
  BY ClusterKept, AskKept, TaskKept, SpentKept
<1> QED BY <1>2, <1>3, <1>4, InvPartsNext DEF RowsInv, Rest

LEMMA MountOf ==
  ASSUME Inv, NEW t \in Targets
  PROVE  /\ mount \in [Targets -> MountRow]
         /\ mount[t].state = "none" <=> mount[t].vol = NoVolume
         /\ mount[t].state # "none" => /\ mount[t].vol \in Volumes
                                       /\ Exists(mount[t].vol) /\ vol[mount[t].vol].op # "delete"
BY InvParts DEF RowsInv, MountsTyped, MountRow, MountsOK

\* A mount that only changes its state, or that is bound to a volume that stays.
LEMMA RebindGood ==
  ASSUME Inv, NEW t \in Targets, NEW m \in MountRow, Rebind(t, m),
         m.state # "none" /\ m.vol \in Volumes /\ Exists(m.vol) /\ vol[m.vol].op # "delete"
  PROVE  Inv' /\ Keeps
<1>1. UNCHANGED <<store, cluster, attached, release, request, task, spent>>
  BY DEF Rebind
<1>2. mount' = [mount EXCEPT ![t] = m] /\ mount \in [Targets -> MountRow]
  BY MountOf DEF Rebind
<1>3. MountsTyped' /\ ReleasesOK'
  BY <1>1, <1>2, ReleasesKept, InvParts DEF RowsInv, MountsTyped
<1>4. \A s \in Targets : mount'[s] = mount[s] \/ mount'[s] = m
  BY <1>2
<1> QED BY <1>1, <1>3, <1>4, MountStepGood

LEMMA ReserveMountGood ==
  ASSUME Inv, NEW t \in Targets, NEW v \in Volumes, ReserveMount(t, v)
  PROVE  Inv' /\ Keeps
<1> DEFINE m == [state |-> "reserved", vol |-> v]
<1>1. m \in MountRow /\ m.state # "none" /\ m.vol = v
  BY DEF MountRow, MountStates
<1>2. Exists(v) /\ vol[v].op # "delete"
  BY InvParts DEF RowsInv, DeleteStates, ReserveMount, CanAttach, Exists
<1>3. Rebind(t, m)
  BY DEF ReserveMount
<1> HIDE DEF m
<1> QED BY <1>1, <1>2, <1>3, RebindGood

LEMMA ChangeMountGood ==
  ASSUME Inv, NEW t \in Targets, BeginUnbind(t) \/ RestoreMount(t)
  PROVE  Inv' /\ Keeps
<1>1. PICK to \in {"release_pending", "reserved"} :
        mount[t].state # "none" /\ Rebind(t, [mount[t] EXCEPT !.state = to])
  BY DEF BeginUnbind, RestoreMount
<1> DEFINE m == [mount[t] EXCEPT !.state = to]
<1>2. mount[t] \in MountRow
  BY MountOf
<1>3. m \in MountRow /\ m.state # "none" /\ m.vol = mount[t].vol
  BY <1>2 DEF MountRow, MountStates
<1>4. m.vol \in Volumes /\ Exists(m.vol) /\ vol[m.vol].op # "delete"
  BY <1>1, <1>3, MountOf
<1>5. Rebind(t, m)
  BY <1>1
<1> HIDE DEF m
<1> QED BY <1>3, <1>4, <1>5, RebindGood

\* A release moves on, and leaves the mounts alone.
LEMMA ReleaseMovesGood ==
  ASSUME Inv, NEW r \in Releases, NEW e \in ReleaseRow, release' = [release EXCEPT ![r] = e],
         e.at # "idle" => e.target \in Targets,
         attached' \in [Targets -> Volumes \cup {NoVolume}],
         UNCHANGED <<store, cluster, mount, request, task, spent>>
  PROVE  Inv' /\ Keeps
<1>1. release \in [Releases -> ReleaseRow] /\ ReleasesOK
  BY InvParts DEF RowsInv, MountsTyped, Rest
<1>2. ReleasesOK'
  BY <1>1 DEF ReleasesOK
<1>3. MountsTyped'
  BY <1>1, InvParts DEF RowsInv, MountsTyped
<1> QED BY <1>2, <1>3, MountStepGood

LEMMA ReleaseOf ==
  ASSUME Inv, NEW r \in Releases
  PROVE  /\ release \in [Releases -> ReleaseRow] /\ release[r] \in ReleaseRow
         /\ release[r].at # "idle" => release[r].target \in Targets
         /\ attached \in [Targets -> Volumes \cup {NoVolume}]
BY InvParts DEF RowsInv, MountsTyped, Rest, ReleasesOK

LEMMA NoReleaseRow == NoRelease \in ReleaseRow /\ NoRelease.at = "idle"
BY DEF NoRelease, ReleaseRow, MountStates

LEMMA PlanVolumesGood ==
  ASSUME Inv, NEW r \in Releases, PlanVolumes(r)
  PROVE  Inv' /\ Keeps
<1>1. PICK t \in Targets :
        LET wanted == mount[t].state \notin {"none", "release_pending"} IN
        release' = [release EXCEPT ![r] =
          IF wanted /\ ~CanAttach(mount[t].vol) THEN NoRelease
          ELSE [at |-> "apply", target |-> t, seen |-> "none",
                plan |-> IF wanted THEN mount[t].vol ELSE NoVolume]]
  BY DEF PlanVolumes
<1> DEFINE wanted == mount[t].state \notin {"none", "release_pending"}
           plan == IF wanted THEN mount[t].vol ELSE NoVolume
           e == IF wanted /\ ~CanAttach(mount[t].vol) THEN NoRelease
                ELSE [at |-> "apply", target |-> t, seen |-> "none", plan |-> plan]
<1>2. plan \in Volumes \cup {NoVolume}
  BY MountOf DEF MountRow
<1>3. release' = [release EXCEPT ![r] = e]
  BY <1>1
<1> HIDE DEF plan, wanted
<1>4. e \in ReleaseRow /\ (e.at # "idle" => e.target \in Targets)
  BY <1>2, NoReleaseRow DEF ReleaseRow, MountStates
<1> HIDE DEF e
<1>5. attached' \in [Targets -> Volumes \cup {NoVolume}]
  BY ReleaseOf DEF PlanVolumes
<1> QED BY <1>3, <1>4, <1>5, ReleaseMovesGood DEF PlanVolumes

LEMMA ApplyWorkloadGood ==
  ASSUME Inv, NEW r \in Releases, ApplyWorkload(r)
  PROVE  Inv' /\ Keeps
<1> DEFINE e == [release[r] EXCEPT !.at = "observe"]
<1>1. release[r].target \in Targets
  BY ReleaseOf DEF ApplyWorkload
<1>2. e \in ReleaseRow /\ e.target \in Targets
  BY <1>1, ReleaseOf DEF ReleaseRow
<1>3. release' = [release EXCEPT ![r] = e]
  BY DEF ApplyWorkload
<1> HIDE DEF e
<1>4. release[r].plan \in Volumes \cup {NoVolume}
  BY ReleaseOf DEF ReleaseRow
<1>5. attached' \in [Targets -> Volumes \cup {NoVolume}]
  BY <1>1, <1>4, ReleaseOf DEF ApplyWorkload
<1> QED BY <1>2, <1>3, <1>5, ReleaseMovesGood DEF ApplyWorkload

LEMMA ObserveAttachmentsGood ==
  ASSUME Inv, NEW r \in Releases, ObserveAttachments(r)
  PROVE  Inv' /\ Keeps
<1> DEFINE t == release[r].target
           plan == IF mount[t].state = "release_pending" \/ attached[t] = mount[t].vol
                     THEN attached[t] ELSE NoVolume
           e == [release[r] EXCEPT !.at = "settle", !.seen = mount[t].state, !.plan = plan]
<1>1. t \in Targets
  BY ReleaseOf DEF ObserveAttachments
<1>2. plan \in Volumes \cup {NoVolume} /\ mount[t].state \in MountStates
  BY <1>1, ReleaseOf, MountOf DEF MountRow
<1>3. release' = [release EXCEPT ![r] = e]
  BY DEF ObserveAttachments
<1> HIDE DEF plan
<1>4. e \in ReleaseRow /\ e.target \in Targets
  BY <1>1, <1>2, ReleaseOf DEF ReleaseRow
<1> HIDE DEF e
<1>5. attached' \in [Targets -> Volumes \cup {NoVolume}]
  BY ReleaseOf DEF ObserveAttachments
<1> QED BY <1>3, <1>4, <1>5, ReleaseMovesGood DEF ObserveAttachments

LEMMA RolloutFailsGood ==
  ASSUME Inv, NEW r \in Releases, RolloutFails(r)
  PROVE  Inv' /\ Keeps
<1>1. attached' \in [Targets -> Volumes \cup {NoVolume}]
  BY ReleaseOf DEF RolloutFails
<1> QED BY <1>1, NoReleaseRow, ReleaseMovesGood DEF RolloutFails, EndRelease

\* What SettleMount writes: nothing, no mount, or another state over one that has a volume.
LEMMA SettleMountWrites ==
  ASSUME Inv, NEW r \in Releases, SettleMount(r)
  PROVE  LET t == release[r].target IN
         /\ t \in Targets
         /\ \/ mount' = mount
            \/ /\ release[r].seen = "release_pending" /\ release[r].plan = NoVolume
               /\ mount[t].state = "release_pending" /\ mount' = [mount EXCEPT ![t] = NoMount]
            \/ /\ mount[t].state # "none"
               /\ \E s \in {"error", "active"} :
                    mount' = [mount EXCEPT ![t] = [mount[t] EXCEPT !.state = s]]
<1> DEFINE t == release[r].target
           Write(from, m) == mount' = [mount EXCEPT ![t] = IF @.state \in from THEN m ELSE @]
<1>1. t \in Targets /\ mount \in [Targets -> MountRow]
  BY ReleaseOf, MountOf DEF SettleMount
<1>2. ASSUME NEW from, NEW m, Write(from, m)
      PROVE  mount' = mount \/ (mount[t].state \in from /\ mount' = [mount EXCEPT ![t] = m])
  BY <1>1, <1>2
<1>3. CASE release[r].seen = "release_pending" /\ release[r].plan = NoVolume
           /\ Write({"release_pending"}, NoMount)
  BY <1>1, <1>2, <1>3
<1>4. CASE Write({"reserved", "active"}, [mount[t] EXCEPT !.state = "error"])
  BY <1>1, <1>2, <1>4
<1>5. CASE Write({"reserved", "error"}, [mount[t] EXCEPT !.state = "active"])
  BY <1>1, <1>2, <1>5
<1>6. CASE UNCHANGED mount
  BY <1>1, <1>6
<1> QED BY <1>3, <1>4, <1>5, <1>6 DEF SettleMount

LEMMA SettleMountGood ==
  ASSUME Inv, NEW r \in Releases, SettleMount(r)
  PROVE  Inv' /\ Keeps
<1> DEFINE t == release[r].target
<1>1. /\ release' = [release EXCEPT ![r] = NoRelease] /\ attached' = attached
      /\ UNCHANGED <<store, cluster, request, task, spent>>
  BY DEF SettleMount, EndRelease
<1>2. ReleasesOK' /\ release' \in [Releases -> ReleaseRow]
  BY <1>1, NoReleaseRow, ReleaseOf, InvParts DEF Rest, ReleasesOK
<1>3. t \in Targets /\ mount \in [Targets -> MountRow]
  BY SettleMountWrites, MountOf
<1>4. ASSUME NEW m \in MountRow, mount' = [mount EXCEPT ![t] = m],
             \/ m = NoMount
             \/ /\ m.state # "none" /\ m.vol \in Volumes
                /\ Exists(m.vol) /\ vol[m.vol].op # "delete"
      PROVE  Inv' /\ Keeps
  <2>1. MountsTyped'
    BY <1>1, <1>2, <1>3, <1>4, ReleaseOf DEF MountsTyped
  <2>2. \A s \in Targets : mount'[s] = mount[s] \/ mount'[s] = m
    BY <1>3, <1>4
  <2> QED BY <1>1, <1>2, <1>4, <2>1, <2>2, MountStepGood
<1>5. CASE mount' = mount
  <2>1. MountsTyped'
    BY <1>1, <1>2, <1>3, <1>5, ReleaseOf DEF MountsTyped
  <2> QED BY <1>1, <1>2, <1>5, <2>1, MountStepGood
<1>6. CASE mount' = [mount EXCEPT ![t] = NoMount]
  <2>1. NoMount \in MountRow
    BY DEF NoMount, MountRow, MountStates
  <2> QED BY <1>4, <1>6, <2>1
<1>7. ASSUME NEW s \in {"error", "active"}, mount[t].state # "none",
             mount' = [mount EXCEPT ![t] = [mount[t] EXCEPT !.state = s]]
      PROVE  Inv' /\ Keeps
  <2> DEFINE m == [mount[t] EXCEPT !.state = s]
  <2>1. m \in MountRow /\ m.state # "none" /\ m.vol = mount[t].vol
    BY <1>3 DEF MountRow, MountStates
  <2>2. m.vol \in Volumes /\ Exists(m.vol) /\ vol[m.vol].op # "delete"
    BY <1>3, <1>7, <2>1, MountOf
  <2>3. mount' = [mount EXCEPT ![t] = m]
    BY <1>7
  <2> HIDE DEF m
  <2> QED BY <1>4, <2>1, <2>2, <2>3
<1> QED BY <1>5, <1>6, <1>7, SettleMountWrites

-----------------------------------------------------------------------------
(* A mount outlives the use of its volume, where releases take turns.      *)

\* The releases of one target take turns; those of two targets need not.  (Otherwise one
\* may attach the volume again between the observation of another and its verdict.)
TakeTurns ==
  \A r, s \in Releases :
    r # s /\ release[r].at # "idle" /\ release[s].at # "idle"
      => release[r].target # release[s].target

\* What a release has seen detached is detached until it has settled the mount.
ObservedGone ==
  \A r \in Releases :
    release[r].at = "settle" /\ release[r].seen = "release_pending" /\ release[r].plan = NoVolume
      => attached[release[r].target] = NoVolume

\* A step removes a mount only when the workload has let go of its volume.
Detaches ==
  \A t \in Targets : mount[t] # NoMount /\ mount'[t] = NoMount => attached[t] # mount[t].vol

LEMMA OthersDetach ==
  ASSUME ObservedGone, UNCHANGED <<attached, release>>,
         \A t \in Targets : mount'[t] = mount[t] \/ mount'[t].state # "none"
  PROVE  ObservedGone' /\ Detaches
BY DEF ObservedGone, Detaches, NoMount

LEMMA RebindDetaches ==
  ASSUME Inv, ObservedGone, NEW t \in Targets,
         BeginUnbind(t) \/ RestoreMount(t) \/ \E v \in Volumes : ReserveMount(t, v)
  PROVE  ObservedGone' /\ Detaches
<1>1. PICK m : Rebind(t, m) /\ m.state # "none"
  <2>1. CASE BeginUnbind(t) \/ RestoreMount(t)
    <3>1. mount[t] \in MountRow
      BY MountOf
    <3> QED BY <2>1, <3>1 DEF BeginUnbind, RestoreMount, MountRow
  <2>2. CASE \E v \in Volumes : ReserveMount(t, v)
    <3>1. PICK v \in Volumes : Rebind(t, [state |-> "reserved", vol |-> v])
      BY <2>2 DEF ReserveMount
    <3> DEFINE m == [state |-> "reserved", vol |-> v]
    <3>2. m.state # "none" OBVIOUS
    <3> QED BY <3>1, <3>2
  <2> QED BY <2>1, <2>2
<1>2. \A s \in Targets : mount'[s] = mount[s] \/ mount'[s].state # "none"
  BY <1>1, MountOf DEF Rebind
<1> QED BY <1>1, <1>2, OthersDetach DEF Rebind

\* A release that does not settle is not looked at afterwards, unless it observes.
LEMMA ReleaseDetaches ==
  ASSUME Inv, TakeTurns, ObservedGone, NEW r \in Releases,
         \/ PlanVolumes(r) \/ ApplyWorkload(r) \/ ObserveAttachments(r) \/ RolloutFails(r)
  PROVE  ObservedGone' /\ Detaches
<1>1. mount' = mount
  BY DEF PlanVolumes, ApplyWorkload, ObserveAttachments, RolloutFails
<1>2. Detaches
  BY <1>1 DEF Detaches
<1>3. release'[r].at = "settle" => ObserveAttachments(r)
  <2>1. CASE PlanVolumes(r)
    BY <2>1, ReleaseOf DEF PlanVolumes, NoRelease
  <2>2. CASE ApplyWorkload(r)
    BY <2>2, ReleaseOf DEF ApplyWorkload
  <2>3. CASE RolloutFails(r)
    BY <2>3, ReleaseOf DEF RolloutFails, EndRelease, NoRelease
  <2> QED BY <2>1, <2>2, <2>3
<1>4. ASSUME ObserveAttachments(r), release'[r].seen = "release_pending", release'[r].plan = NoVolume
      PROVE  attached'[release'[r].target] = NoVolume
  <2> DEFINE t == release[r].target
  <2>1. /\ release'[r].seen = mount[t].state
        /\ release'[r].plan = IF mount[t].state = "release_pending" \/ attached[t] = mount[t].vol
                                THEN attached[t] ELSE NoVolume
        /\ release'[r].target = t /\ attached' = attached
    BY <1>4, ReleaseOf DEF ObserveAttachments, ReleaseRow
  <2> QED BY <1>4, <2>1
<1>5. ASSUME NEW s \in Releases, s # r, release'[s].at = "settle",
             release'[s].seen = "release_pending", release'[s].plan = NoVolume
      PROVE  attached'[release'[s].target] = NoVolume
  <2>1. release'[s] = release[s]
    BY <1>5, ReleaseOf DEF PlanVolumes, ApplyWorkload, ObserveAttachments, RolloutFails, EndRelease
  <2>2. attached[release[s].target] = NoVolume
    BY <1>5, <2>1 DEF ObservedGone
  <2>3. attached' = attached \/ ApplyWorkload(r)
    BY DEF PlanVolumes, ObserveAttachments, RolloutFails
  <2>4. ApplyWorkload(r) => release[r].target # release[s].target
    BY <1>5, <2>1 DEF TakeTurns, ApplyWorkload
  <2>5. ApplyWorkload(r) => attached'[release[s].target] = attached[release[s].target]
    BY <1>5, <2>1, <2>4, ReleaseOf DEF ApplyWorkload
  <2> QED BY <2>1, <2>2, <2>3, <2>5
<1>6. ObservedGone'
  BY <1>3, <1>4, <1>5 DEF ObservedGone
<1> QED BY <1>2, <1>6

LEMMA SettleDetaches ==
  ASSUME Inv, ObservedGone, NEW r \in Releases, SettleMount(r)
  PROVE  ObservedGone' /\ Detaches
<1>1. /\ release'[r].at = "idle" /\ attached' = attached
      /\ \A s \in Releases \ {r} : release'[s] = release[s]
  BY ReleaseOf DEF SettleMount, EndRelease, NoRelease
<1>2. ObservedGone'
  BY <1>1 DEF ObservedGone
<1>3. Detaches
  <2> DEFINE t == release[r].target
  <2>1. t \in Targets /\ mount \in [Targets -> MountRow]
    BY SettleMountWrites, MountOf
  <2>2. CASE mount' = mount
    BY <2>2 DEF Detaches
  <2>3. CASE /\ release[r].seen = "release_pending" /\ release[r].plan = NoVolume
             /\ mount[t].state = "release_pending" /\ mount' = [mount EXCEPT ![t] = NoMount]
    <3>1. attached[t] = NoVolume
      BY <2>3 DEF ObservedGone, SettleMount
    <3>2. mount[t].vol # NoVolume
      BY <2>1, <2>3, MountOf
    <3> QED BY <2>1, <2>3, <3>1, <3>2 DEF Detaches
  <2>4. ASSUME NEW s \in {"error", "active"},
               mount' = [mount EXCEPT ![t] = [mount[t] EXCEPT !.state = s]]
        PROVE  Detaches
    <3>1. mount'[t].state = s /\ \A u \in Targets \ {t} : mount'[u] = mount[u]
      BY <2>1, <2>4 DEF MountRow
    <3> QED BY <3>1 DEF Detaches, NoMount
  <2> QED BY <2>2, <2>3, <2>4, SettleMountWrites
<1> QED BY <1>2, <1>3

-----------------------------------------------------------------------------

LEMMA InitInv == Init => Inv /\ ObservedGone
<1> SUFFICES ASSUME Init PROVE Inv /\ ObservedGone
  OBVIOUS
<1>1. 0 \in 0..MaxCapacity /\ 0 \in 0..MaxRetry /\ 0 \in 0..MaxRequests /\ 0 \in 0..MaxFaults
  BY VolumeAssumption
<1>2. StoreTyped /\ QuotaHolds
  <2> DEFINE row == [state |-> "absent", op |-> "", cap |-> 0]
             q   == [committed |-> 0, pending |-> 0]
  <2>1. row \in Row /\ q \in QuotaRow
    BY <1>1 DEF Row, QuotaRow, Lifecycle!States
  <2>2. vol = [v \in Volumes |-> row] /\ quota = [v \in Volumes |-> q] /\ usage = 0
    BY DEF Init
  <2> HIDE DEF row, q
  <2> QED BY <2>1, <2>2, VolumeAssumption DEF StoreTyped, QuotaHolds
<1>3. ClusterTyped
  BY <1>1 DEF Init, ClusterTyped
<1>4. MountsTyped /\ MountsOK
  <2>1. NoMount \in MountRow
    BY DEF NoMount, MountRow, MountStates
  <2> QED BY <2>1, NoReleaseRow DEF Init, MountsTyped, MountsOK, NoMount
<1>5. AskInv
  <2>1. Idle \in RequestRow /\ Idle.at = "idle"
    BY DEF Idle, RequestRow, Lifecycle!States
  <2> QED BY <2>1 DEF Init, AskInv, RequestsTyped, RequestsOK
<1>6. TaskInv
  <2>1. TaskOK(NoTask)
    BY <1>1, FreshTask DEF NoTask
  <2> QED BY <2>1 DEF Init, TaskInv, TasksTyped, TasksOK, TaskOK
<1>7. SpentTyped /\ DeleteStates /\ ReleasesOK /\ ObservedGone
  BY <1>1 DEF Init, SpentTyped, DeleteStates, ReleasesOK, ObservedGone, NoRelease
<1> QED BY <1>2, <1>3, <1>4, <1>5, <1>6, <1>7, InvParts DEF RowsInv, Rest

LEMMA StepGood ==
  ASSUME Inv, [Next]_vars
  PROVE  Inv' /\ Keeps
<1>1. ASSUME NEW c \in Clients, NEW v \in Volumes,
             CreateProjectVolume(c, v) \/ UpdateProjectVolume(c, v) \/ RequestDelete(c, v)
               \/ RetryOperation(c, v)
      PROVE  Inv' /\ Keeps
  BY <1>1, CreateProjectVolumeGood, UpdateProjectVolumeGood, RequestDeleteGood, RetryOperationGood
<1>2. ASSUME NEW c \in Clients, ClientStep(c) \/ RequestLost(c)
      PROVE  Inv' /\ Keeps
  BY <1>2, DispatchGood, DispatchRefusedGood, UndoDispatchGood, RequestLostGood DEF ClientStep
<1>3. ASSUME NEW v \in Volumes, NEW k \in Operations,
             TaskStep(v, k) \/ ClusterUnavailable(v, k) \/ WorkerStops(v, k) \/ LockExpires(v, k)
      PROVE  Inv' /\ Keeps
  BY <1>3, TakeTaskGood, SettleReadyGood, FinishAttemptGood, ProvisionClaimGood, ExpandClaimGood,
     DeleteClaimGood, ObserveClaimGood, CompleteDeletionGood, ClusterUnavailableGood,
     WorkerStopsGood, LockExpiresGood DEF TaskStep
<1>4. ASSUME NEW v \in Volumes, Reconcile(v) \/ ClaimGone(v)
      PROVE  Inv' /\ Keeps
  BY <1>4, ReconcileGood, ClaimGoneGood
<1>5. ASSUME NEW t \in Targets,
             BeginUnbind(t) \/ RestoreMount(t) \/ \E v \in Volumes : ReserveMount(t, v)
      PROVE  Inv' /\ Keeps
  BY <1>5, ReserveMountGood, ChangeMountGood
<1>6. ASSUME NEW r \in Releases,
             PlanVolumes(r) \/ ApplyWorkload(r) \/ ObserveAttachments(r) \/ RolloutFails(r)
               \/ SettleMount(r)
      PROVE  Inv' /\ Keeps
  BY <1>6, PlanVolumesGood, ApplyWorkloadGood, ObserveAttachmentsGood, RolloutFailsGood,
     SettleMountGood
<1>7. CASE UNCHANGED vars
  BY <1>7, TaskStepGood, TaskKept, ClusterKept, SpentKept DEF vars
<1> QED BY <1>1, <1>2, <1>3, <1>4, <1>5, <1>6, <1>7 DEF Next

LEMMA DetachStep ==
  ASSUME Inv, TakeTurns, ObservedGone, [Next]_vars
  PROVE  ObservedGone' /\ Detaches
<1>1. CASE UNCHANGED mounts
  BY <1>1, OthersDetach DEF mounts
<1>2. ASSUME NEW t \in Targets,
             BeginUnbind(t) \/ RestoreMount(t) \/ \E v \in Volumes : ReserveMount(t, v)
      PROVE  ObservedGone' /\ Detaches
  BY <1>2, RebindDetaches
<1>3. ASSUME NEW r \in Releases,
             PlanVolumes(r) \/ ApplyWorkload(r) \/ ObserveAttachments(r) \/ RolloutFails(r)
               \/ SettleMount(r)
      PROVE  ObservedGone' /\ Detaches
  BY <1>3, ReleaseDetaches, SettleDetaches
<1>4. ASSUME NEW c \in Clients, NEW v \in Volumes,
             CreateProjectVolume(c, v) \/ UpdateProjectVolume(c, v) \/ RequestDelete(c, v)
               \/ RetryOperation(c, v)
      PROVE  UNCHANGED mounts
  BY <1>4 DEF CreateProjectVolume, UpdateProjectVolume, RequestDelete, RetryOperation, Ask
<1>5. ASSUME NEW c \in Clients, ClientStep(c) \/ RequestLost(c)
      PROVE  UNCHANGED mounts
  BY <1>5 DEF ClientStep, Dispatch, DispatchRefused, UndoDispatch, RequestLost
<1>6. ASSUME NEW v \in Volumes, NEW k \in Operations,
             TaskStep(v, k) \/ ClusterUnavailable(v, k) \/ WorkerStops(v, k) \/ LockExpires(v, k)
      PROVE  UNCHANGED mounts
  BY <1>6 DEF TaskStep, TakeTask, SettleReady, FinishAttempt, ProvisionClaim, ExpandClaim,
              DeleteClaim, ObserveClaim, CompleteDeletion, ClusterUnavailable, WorkerStops, LockExpires
<1>7. ASSUME NEW v \in Volumes, Reconcile(v) \/ ClaimGone(v)
      PROVE  UNCHANGED mounts
  BY <1>7 DEF Reconcile, ClaimGone
<1>8. CASE UNCHANGED vars
  BY <1>1, <1>8 DEF vars
<1> QED BY <1>1, <1>2, <1>3, <1>4, <1>5, <1>6, <1>7, <1>8 DEF Next

\* Inv holds in every reachable state: what the rows, the mounts, the requests and the
\* tasks under way say of each other.
THEOREM Invariance == Spec => []Inv
<1>1. Init => Inv
  BY InitInv
<1>2. Inv /\ [Next]_vars => Inv'
  BY StepGood
<1> QED BY <1>1, <1>2, PTL DEF Spec

\* Every variable keeps its type; among them, what dies is a claim that is there.
THEOREM TypeCorrect == Spec => []TypeOK
<1>1. Inv => TypeOK
  BY DEF Inv
<1> QED BY Invariance, <1>1, PTL

\* The project never reserves more than its limit, whatever creations, growth, retries
\* and late writes of the worker race.
THEOREM QuotaKept == Spec => []QuotaHolds
<1>1. Inv => QuotaHolds
  BY DEF Inv
<1> QED BY Invariance, <1>1, PTL

\* A volume that some deployment is bound to is neither given up nor on its way there.
THEOREM MountsStand == Spec => []MountedStays
<1>1. Inv => MountedStays
  BY DEF Inv, MountsOK, MountedStays
<1> QED BY Invariance, <1>1, PTL

\* The rows follow the transition table: ProjectVolume implements VolumeLifecycle.
THEOREM TableFollowed == Spec => VolumesFollowTable
<1>1. Init => Lifecycle!Init
  <2> DEFINE row == [state |-> "absent", op |-> "", cap |-> 0]
  <2>1. Init => vol = [v \in Volumes |-> row]
    BY DEF Init
  <2>2. row.state = "absent"
    OBVIOUS
  <2> HIDE DEF row
  <2> QED BY <2>1, <2>2 DEF Lifecycle!Init
<1>2. Inv /\ [Next]_vars => [Lifecycle!Next]_[v \in Volumes |-> vol[v].state]
  <2> SUFFICES ASSUME Inv, [Next]_vars
               PROVE  Lifecycle!Next \/ UNCHANGED [v \in Volumes |-> vol[v].state]
    OBVIOUS
  <2>1. Keeps
    BY StepGood
  <2> QED BY <2>1 DEF Keeps, States
<1> QED BY Invariance, <1>1, <1>2, PTL DEF Spec, VolumesFollowTable, Lifecycle!Spec

\* Where the releases of a target take turns, a mount is removed only when the workload
\* has let go of the volume.
THEOREM DetachedFirst == Spec /\ []TakeTurns => ReleasedIsDetached
<1>1. Init => ObservedGone
  BY InitInv
<1>2. Inv /\ ObservedGone /\ TakeTurns /\ [Next]_vars => ObservedGone'
  BY DetachStep
<1>3. Inv /\ ObservedGone /\ TakeTurns /\ [Next]_vars =>
        [\A t \in Targets : mount[t] # NoMount /\ mount'[t] = NoMount
                              => attached[t] # mount[t].vol]_vars
  BY DetachStep DEF Detaches
<1> QED BY Invariance, <1>1, <1>2, <1>3, PTL DEF Spec, ReleasedIsDetached
=============================================================================
