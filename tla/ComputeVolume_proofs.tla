----------------------- MODULE ComputeVolume_proofs -----------------------
(* Theorems about ComputeVolume for every set of instances, disks, types,    *)
(* groups and requests.                                                      *)
EXTENDS ComputeVolume, FiniteSetTheorems, TLAPS

----------------------------------------------------------------------------
(* Type correctness. What a task asks the resource service for must be about *)
(* a disk, a type or a group as its name says, and the request must be one   *)
(* that asks for such a thing.                                               *)

ActionOK(op, a) ==
  /\ a \in ActionNames \X Subjects
  /\ a[1] = "create" => op = "create" /\ a[2] \in Types
  /\ a[1] = "delete" => op = "delete"
  /\ a[1] = "delete_disk" => op = "delete_volume" /\ a[2] \in Disks
  /\ a[1] = "set_flavor" => op = "set_type" /\ a[2] \in Types
  /\ a[1] = "add_volume" => op = "attach" /\ a[2] \in Disks
  /\ a[1] = "del_volume" => op = "detach" /\ a[2] \in Disks
  /\ a[1] \in {"add_security_group", "del_security_group"} =>
       op \in {"groups", "set_both"} /\ a[2] \in Groups

JobOK(j) ==
  /\ j \in Jobs
  /\ \A a \in j.acts : ActionOK(j.op, a)
  /\ j.op \in {"create", "delete", "set_type", "set_both", "groups"} => j.row = j.on

RunningOK(r) == remote[r] = "running" => ActionOK(Op(r), job[r].act)

ChangingOK(r) ==
  rpc[r] = "checked" /\ Op(r) = "set_type" =>
    job[r].acts = {Action("set_flavor", job[r].to)}

\* A request has no task until it is dispatched, and a task waits for the
\* resource service unless it failed meanwhile.
StageOK(r) ==
  /\ rpc[r] \in {"idle", "checked", "begin", "dispatch"} => tpc[r] = "none"
  /\ tpc[r] \notin {"wait", "failing", "failed"} => remote[r] = "none"

JobsOK == \A r \in Requests : JobOK(job[r]) /\ RunningOK(r) /\ ChangingOK(r) /\ StageOK(r)

TInv == TypeOK /\ JobsOK

Rec == [state : RowStates, status : Statuses]
Setters == [Instances -> Requests \cup {Nobody}]

\* Any member stands for none.
LEMMA AnyOnes ==
  AnyDisk \in Disks /\ AnyInstance \in Instances /\ AnyType \in Types
BY ConstantsAssumption DEF AnyDisk, AnyInstance, AnyType

\* The parts of a well-formed job.
LEMMA JobParts ==
  ASSUME NEW j \in Jobs
  PROVE  /\ j.op \in Operations /\ j.row \in Rows /\ j.on \in Instances /\ j.to \in Types /\ j.has \in BOOLEAN
         /\ j.acts \in SUBSET (ActionNames \X Subjects) /\ j.act \in ActionNames \X Subjects
         /\ j.todo \in SUBSET Disks /\ j.disk \in Disks
BY DEF Jobs

\* A new job is well formed when its actions are.
LEMMA NewJob ==
  ASSUME NEW op \in Operations, NEW x \in Rows, NEW i \in Instances, NEW t \in Types,
         NEW acts, \A a \in acts : ActionOK(op, a),
         op \in {"create", "delete", "set_type", "set_both", "groups"} => x = i
  PROVE  /\ JobOK(Job(op, x, i, t, acts))
         /\ Job(op, x, i, t, acts).op = op /\ Job(op, x, i, t, acts).row = x
         /\ Job(op, x, i, t, acts).on = i /\ Job(op, x, i, t, acts).to = t
         /\ Job(op, x, i, t, acts).acts = acts
<1> DEFINE j == Job(op, x, i, t, acts)
<1>1. acts \in SUBSET (ActionNames \X Subjects)
  <2>1. \A a \in acts : a \in ActionNames \X Subjects
    BY DEF ActionOK
  <2> QED
    BY <2>1
<1>2. Action("create", AnyDisk) \in ActionNames \X Subjects
  BY AnyOnes DEF Action, ActionNames, Subjects
<1>3. j \in Jobs
  BY <1>1, <1>2, AnyOnes DEF Job, Jobs
<1>4. j.op = op /\ j.row = x /\ j.on = i /\ j.to = t /\ j.acts = acts
  BY DEF Job
<1> HIDE DEF j
<1>5. JobOK(j)
  BY <1>3, <1>4 DEF JobOK
<1> QED
  BY <1>4, <1>5 DEF j

\* Writing a status, or a state, leaves the table well formed.
LEMMA RowWrites ==
  ASSUME TypeOK, NEW x \in Rows
  PROVE  /\ row[x] \in Rec
         /\ \A s \in Statuses : WithStatus(x, s) => row' \in [Rows -> Rec]
         /\ \A s \in Statuses : [row EXCEPT ![x].status = s] \in [Rows -> Rec]
         /\ \A s \in RowStates : [row EXCEPT ![x].state = s] \in [Rows -> Rec]
         /\ \A rec \in Rec : [row EXCEPT ![x] = rec] \in [Rows -> Rec]
<1>1. row \in [Rows -> Rec] /\ row[x] \in Rec
  BY DEF TypeOK, Rec
<1>2. \A s \in Statuses : [row EXCEPT ![x].status = s] \in [Rows -> Rec]
  BY <1>1 DEF Rec
<1>3. \A s \in RowStates : [row EXCEPT ![x].state = s] \in [Rows -> Rec]
  BY <1>1 DEF Rec
<1> QED
  BY <1>1, <1>2, <1>3 DEF WithStatus

\* A step of one request keeps the types when its own record does.
LEMMA OneRequest ==
  ASSUME TInv, NEW r \in Requests,
         \A q \in Requests \ {r} : /\ rpc'[q] = rpc[q] /\ tpc'[q] = tpc[q]
                                   /\ remote'[q] = remote[q] /\ job'[q] = job[q],
         JobOK(job[r])', RunningOK(r)', ChangingOK(r)', StageOK(r)'
  PROVE  JobsOK'
BY DEF TInv, JobsOK, JobOK, RunningOK, ChangingOK, StageOK, Op

LEMMA InitTyped == Init => TInv
<1> SUFFICES ASSUME Init PROVE TInv
  OBVIOUS
<1>1. Rows = Instances \cup VolumeRows /\ AnyInstance \in Rows
  BY AnyOnes DEF Rows
<1>2. row \in [Rows -> Rec]
  BY DEF Init, Rec, RowStates, Statuses, Settled
<1>3. NoServer \in Servers /\ \A i \in Instances : NewServer(i, AnyType) \in Servers
  BY AnyOnes, ConstantsAssumption DEF NoServer, NewServer, Servers
<1>4. server \in [Instances -> Servers]
  BY <1>3 DEF Init
<1>5. JobOK(Job("patch", AnyInstance, AnyInstance, AnyType, {}))
  BY <1>1, AnyOnes, NewJob DEF Operations
<1>6. TypeOK
  <2>1. job \in [Requests -> Jobs] /\ \A r \in Requests : JobOK(job[r])
    BY <1>5 DEF Init, JobOK
  <2>2. type \in [Instances -> Types] /\ setter \in Setters /\ disks \subseteq Disks
    BY AnyOnes DEF Init, FirstDisks, Setters
  <2>3. rpc \in [Requests -> RequestStages] /\ tpc \in [Requests -> TaskStages]
        /\ remote \in [Requests -> RemoteStages]
    BY DEF Init, RequestStages, TaskStages, RemoteStages
  <2> QED
    BY <1>2, <1>4, <2>1, <2>2, <2>3 DEF TypeOK, Rec, Setters
<1>7. JobsOK
  BY <1>5 DEF Init, JobsOK, RunningOK, ChangingOK, StageOK
<1> QED
  BY <1>6, <1>7 DEF TInv

\* What TInv says of one request, and that leaving its part alone is writing it.
LEMMA Parts ==
  ASSUME TInv, NEW r \in Requests
  PROVE  /\ TypeOK /\ JobOK(job[r]) /\ RunningOK(r) /\ ChangingOK(r) /\ StageOK(r)
         /\ rpc[r] \in RequestStages /\ tpc[r] \in TaskStages /\ remote[r] \in RemoteStages
         /\ job[r] \in Jobs /\ Row(r) \in Rows /\ On(r) \in Instances /\ Op(r) \in Operations
         /\ rpc = [rpc EXCEPT ![r] = rpc[r]] /\ tpc = [tpc EXCEPT ![r] = tpc[r]]
         /\ remote = [remote EXCEPT ![r] = remote[r]] /\ job = [job EXCEPT ![r] = job[r]]
         /\ row \in [Rows -> Rec] /\ type \in [Instances -> Types] /\ setter \in Setters
         /\ server \in [Instances -> Servers] /\ disks \in SUBSET Disks
<1>1. TypeOK /\ JobOK(job[r]) /\ RunningOK(r) /\ ChangingOK(r) /\ StageOK(r)
  BY DEF TInv, JobsOK
<1>2. job[r] \in Jobs
  BY <1>1 DEF TypeOK
<1>3. Row(r) \in Rows /\ On(r) \in Instances /\ Op(r) \in Operations
  BY <1>2, JobParts DEF Row, On, Op
<1> QED
  BY <1>1, <1>2, <1>3 DEF TypeOK, Rec, Setters

\* Only change_definition makes a request the one that wrote the definition last.
LEMMA SetterStep ==
  ASSUME TInv, NEW r \in Requests, Asking(r) \/ Serving(r) \/ Remote(r) \/ Working(r)
  PROVE  /\ setter' \in Setters
         /\ ChangeDefinition(r) \/ setter' = setter
<1>1. setter \in Setters
  BY Parts
<1>2. CASE ChangeDefinition(r)
  BY <1>1, <1>2 DEF ChangeDefinition, Setters
<1>3. CASE ~ChangeDefinition(r)
  <2>1. setter' = setter
    <3>1. CASE Asking(r)
      BY <3>1 DEF Asking, CreateInstance, DeleteInstance, PatchInstance, SetInstanceType,
                  ChangeSecurityGroups, Attach, Detach, DeleteVolume, Asks, rows
    <3>2. CASE Serving(r)
      BY <1>3, <3>2 DEF Serving, Begin, Dispatch, PostDelete, DropVolumeRow, PostDeleteEnds, rows
    <3>3. CASE Remote(r)
      BY <3>3 DEF Remote, RemoteCreates, RemoteDeletes, RemoteModifies, RemoteFails, rows
    <3>4. CASE Working(r)
      BY <3>4 DEF Working, TaskStarts, AskResource, AskResourceFails, RemoteAnswers, WaitFails,
                  ResourceDone, ScanVolume, AdoptVolume, ImportEnds, Finish, TaskFails, rows
    <3> QED  BY <3>1, <3>2, <3>3, <3>4
  <2> QED  BY <1>1, <2>1
<1> QED
  BY <1>2, <1>3

\* One step of request r, written out.
LEMMA Step ==
  ASSUME TInv, NEW r \in Requests, NEW rs \in RequestStages, NEW ts \in TaskStages,
         NEW ms \in RemoteStages, NEW j, JobOK(j),
         rpc' = [rpc EXCEPT ![r] = rs], tpc' = [tpc EXCEPT ![r] = ts],
         remote' = [remote EXCEPT ![r] = ms], job' = [job EXCEPT ![r] = j],
         row' \in [Rows -> Rec], type' \in [Instances -> Types], setter' \in Setters,
         server' \in [Instances -> Servers], disks' \in SUBSET Disks,
         ms = "running" => ActionOK(j.op, j.act),
         rs = "checked" /\ j.op = "set_type" => j.acts = {Action("set_flavor", j.to)},
         rs \in {"idle", "checked", "begin", "dispatch"} => ts = "none",
         ts \notin {"wait", "failing", "failed"} => ms = "none"
  PROVE  TInv'
<1>t. TypeOK /\ j \in Jobs
  BY DEF TInv, JobOK
<1>1. TypeOK'
  BY <1>t DEF TypeOK, Rec, Setters
<1>2. rpc'[r] = rs /\ tpc'[r] = ts /\ remote'[r] = ms /\ job'[r] = j
  BY <1>t DEF TypeOK
<1>3. \A q \in Requests \ {r} : /\ rpc'[q] = rpc[q] /\ tpc'[q] = tpc[q]
                                /\ remote'[q] = remote[q] /\ job'[q] = job[q]
  BY <1>t DEF TypeOK
<1>4. JobOK(job[r])' /\ RunningOK(r)' /\ ChangingOK(r)' /\ StageOK(r)'
  <2>1. JobOK(job[r])'
    BY <1>2 DEF JobOK
  <2>2. RunningOK(r)' /\ ChangingOK(r)' /\ StageOK(r)'
    BY <1>2 DEF RunningOK, ChangingOK, StageOK, Op
  <2> QED
    BY <2>1, <2>2
<1>5. JobsOK'
  BY <1>3, <1>4, OneRequest
<1> QED
  BY <1>1, <1>5 DEF TInv

----------------------------------------------------------------------------
(* Requests.                                                               *)

LEMMA AsksStep ==
  ASSUME TInv, NEW r \in Requests, rpc[r] = "idle",
         NEW op \in Operations, NEW x \in Rows, NEW i \in Instances,
         NEW t \in Types, NEW acts,
         \A a \in acts : ActionOK(op, a),
         op \in {"create", "delete", "set_type", "set_both", "groups"} => x = i,
         op = "set_type" => acts = {Action("set_flavor", t)},
         setter' \in Setters, Asks(r, Job(op, x, i, t, acts))
  PROVE  TInv'
<1> DEFINE j == Job(op, x, i, t, acts)
<1>1. JobOK(j) /\ j.op = op /\ j.to = t /\ j.acts = acts
  BY NewJob
<1>2. Holds(r, j) /\ RequestGoes(r, "checked") /\ UNCHANGED <<rows, resources, tpc, remote>>
  BY DEF Asks
<1> HIDE DEF j
<1>3. tpc[r] = "none" /\ remote[r] = "none" /\ "checked" \in RequestStages
  BY Parts DEF StageOK, RequestStages
<1> QED
  <2>1. /\ rpc' = [rpc EXCEPT ![r] = "checked"] /\ tpc' = [tpc EXCEPT ![r] = "none"]
        /\ remote' = [remote EXCEPT ![r] = "none"] /\ job' = [job EXCEPT ![r] = j]
    BY <1>2, <1>3, Parts DEF Holds, RequestGoes
  <2>2. /\ row' \in [Rows -> Rec] /\ type' \in [Instances -> Types]
        /\ server' \in [Instances -> Servers] /\ disks' \in SUBSET Disks
    BY <1>2, Parts DEF rows, resources
  <2>3. "none" \in TaskStages /\ "none" \in RemoteStages
    BY DEF TaskStages, RemoteStages
  <2> QED
    BY <1>1, <1>3, <2>1, <2>2, <2>3, Step

LEMMA AskingTyped ==
  ASSUME TInv, NEW r \in Requests, Asking(r)
  PROVE  TInv'
<1>w. setter' \in Setters
  BY SetterStep
<1> USE <1>w
<1>t. TypeOK /\ server \in [Instances -> Servers]
  BY Parts
<1>r. \A i \in Instances : i \in Rows
  BY DEF Rows
<1>v. \A x \in VolumeRows : x \in Rows /\ x[1] \in Disks
  BY DEF Rows, VolumeRows
<1>1. ASSUME NEW i \in Instances, CreateInstance(r, i) PROVE TInv'
  <2>1. PICK t \in Types : type' = [type EXCEPT ![i] = t]
                           /\ Holds(r, Job("create", i, i, t, {Action("create", t)}))
    BY <1>1 DEF CreateInstance
  <2> DEFINE j == Job("create", i, i, t, {Action("create", t)})
  <2>2. JobOK(j) /\ j.op = "create"
    <3>1. \A a \in {Action("create", t)} : ActionOK("create", a)
      BY DEF ActionOK, Action, ActionNames, Subjects
    <3> QED
      BY <1>r, <3>1, NewJob DEF Operations
  <2> HIDE DEF j
  <2>3. rpc[r] = "idle" /\ RequestGoes(r, "dispatch") /\ UNCHANGED <<resources, tpc, remote>>
        /\ row' = [row EXCEPT ![i].state = "present"]
    BY <1>1 DEF CreateInstance
  <2>4. tpc[r] = "none" /\ remote[r] = "none" /\ "dispatch" \in RequestStages
    BY <2>3, Parts DEF StageOK, RequestStages
  <2>5. row' \in [Rows -> Rec]
    BY <1>t, <1>r, <2>3, RowWrites DEF RowStates
  <2>6. type' \in [Instances -> Types]
    BY <1>t, <2>1 DEF TypeOK
  <2>7. /\ rpc' = [rpc EXCEPT ![r] = "dispatch"] /\ tpc' = [tpc EXCEPT ![r] = "none"]
        /\ remote' = [remote EXCEPT ![r] = "none"] /\ job' = [job EXCEPT ![r] = j]
        /\ server' \in [Instances -> Servers] /\ disks' \in SUBSET Disks
    BY <2>1, <2>3, <2>4, Parts DEF Holds, RequestGoes, resources, j
  <2>8. "none" \in TaskStages /\ "none" \in RemoteStages
    BY DEF TaskStages, RemoteStages
  <2> QED
    BY <2>2, <2>4, <2>5, <2>6, <2>7, <2>8, Step
<1>2. ASSUME NEW i \in Instances, DeleteInstance(r, i) PROVE TInv'
  <2>1. ActionOK("delete", Action("delete", Boot[i]))
    BY ConstantsAssumption DEF ActionOK, Action, ActionNames, Subjects
  <2> QED
    BY <1>2, <1>r, <2>1, AnyOnes, AsksStep DEF DeleteInstance, MayAsk, Operations
<1>3. ASSUME NEW i \in Instances, PatchInstance(r, i) PROVE TInv'
  BY <1>3, <1>r, AnyOnes, AsksStep DEF PatchInstance, MayAsk, Operations
<1>g. \A i \in Instances : \A a \in GroupActions(i) : ActionOK("groups", a) /\ ActionOK("set_both", a)
  <2> TAKE i \in Instances
  <2>1. server[i].groups \in SUBSET Groups
    BY <1>t DEF Servers
  <2> QED
    BY <2>1 DEF GroupActions, ActionOK, Action, ActionNames, Subjects
<1>4. ASSUME NEW i \in Instances, SetInstanceType(r, i) PROVE TInv'
  <2>0. rpc[r] = "idle"
    BY <1>4 DEF SetInstanceType, MayAsk
  <2>1. PICK t \in Types : \E j \in TypeRequests(i, t) : Asks(r, j)
    BY <1>4 DEF SetInstanceType
  <2>2. CASE Asks(r, Job("set_type", i, i, t, {Action("set_flavor", t)}))
    <3>1. ActionOK("set_type", Action("set_flavor", t))
      BY DEF ActionOK, Action, ActionNames, Subjects
    <3> QED
      BY <1>r, <2>0, <2>2, <3>1, AsksStep DEF Operations
  <2>3. ASSUME NEW acts \in GroupLists(i), Asks(r, Job("set_both", i, i, t, acts)) PROVE TInv'
    BY <1>g, <1>r, <2>0, <2>3, AsksStep DEF Operations, GroupLists
  <2> QED
    BY <2>1, <2>2, <2>3 DEF TypeRequests
<1>5. ASSUME NEW i \in Instances, ChangeSecurityGroups(r, i) PROVE TInv'
  <2>1. PICK acts \in GroupLists(i) : Asks(r, Job("groups", i, i, AnyType, acts))
    BY <1>5 DEF ChangeSecurityGroups
  <2> QED
    BY <1>5, <1>g, <1>r, <2>1, AnyOnes, AsksStep DEF ChangeSecurityGroups, MayAsk, Operations, GroupLists
<1>6. ASSUME NEW i \in Instances, NEW x \in VolumeRows, Attach(r, i, x) PROVE TInv'
  <2>1. ActionOK("attach", Action("add_volume", x[1]))
    BY <1>v DEF ActionOK, Action, ActionNames, Subjects
  <2> QED
    BY <1>6, <1>v, <2>1, AnyOnes, AsksStep DEF Attach, MayAsk, Operations
<1>7. ASSUME NEW i \in Instances, NEW x \in VolumeRows, Detach(r, i, x) PROVE TInv'
  <2>1. ActionOK("detach", Action("del_volume", x[1]))
    BY <1>v DEF ActionOK, Action, ActionNames, Subjects
  <2> QED
    BY <1>7, <1>v, <2>1, AnyOnes, AsksStep DEF Detach, MayAsk, Operations
<1>8. ASSUME NEW x \in VolumeRows, DeleteVolume(r, x) PROVE TInv'
  <2>1. ActionOK("delete_volume", Action("delete_disk", x[1]))
    BY <1>v DEF ActionOK, Action, ActionNames, Subjects
  <2> QED
    BY <1>8, <1>v, <2>1, AnyOnes, AsksStep DEF DeleteVolume, MayAsk, Operations
<1> QED
  BY <1>1, <1>2, <1>3, <1>4, <1>5, <1>6, <1>7, <1>8 DEF Asking

\* One step of request r that changes neither its job nor what it asked for.
LEMMA StageStep ==
  ASSUME TInv, NEW r \in Requests, NEW rs \in RequestStages, NEW ts \in TaskStages,
         rpc' = [rpc EXCEPT ![r] = rs], tpc' = [tpc EXCEPT ![r] = ts],
         UNCHANGED <<remote, job>>,
         row' \in [Rows -> Rec], type' \in [Instances -> Types], setter' \in Setters,
         server' \in [Instances -> Servers], disks' \in SUBSET Disks,
         rs = "checked" => rpc[r] = "checked",
         rs \in {"idle", "checked", "begin", "dispatch"} => ts = "none",
         ts \notin {"wait", "failing", "failed"} => remote[r] = "none"
  PROVE  TInv'
<1>1. /\ JobOK(job[r]) /\ remote[r] \in RemoteStages
      /\ remote' = [remote EXCEPT ![r] = remote[r]] /\ job' = [job EXCEPT ![r] = job[r]]
      /\ remote[r] = "running" => ActionOK(job[r].op, job[r].act)
      /\ rs = "checked" /\ job[r].op = "set_type" => job[r].acts = {Action("set_flavor", job[r].to)}
  BY Parts DEF RunningOK, ChangingOK, Op
<1> QED
  BY <1>1, Step

\* One step of request r that writes to its job what leaves it well formed.
LEMMA JobStep ==
  ASSUME TInv, NEW r \in Requests, NEW rs \in RequestStages, NEW ts \in TaskStages,
         NEW j \in Jobs, j.op = Op(r), j.row = Row(r), j.on = On(r), j.acts \subseteq job[r].acts,
         j.act = job[r].act,
         rpc' = [rpc EXCEPT ![r] = rs], tpc' = [tpc EXCEPT ![r] = ts],
         Holds(r, j), UNCHANGED remote,
         row' \in [Rows -> Rec], type' \in [Instances -> Types], setter' \in Setters,
         server' \in [Instances -> Servers], disks' \in SUBSET Disks,
         rs \notin {"idle", "checked", "begin", "dispatch"},
         ts \notin {"wait", "failing", "failed"} => remote[r] = "none"
  PROVE  TInv'
<1>1. JobOK(job[r]) /\ RunningOK(r)
  BY Parts
<1>2. JobOK(j)
  BY <1>1 DEF JobOK, Op, Row, On
<1>3. /\ remote[r] \in RemoteStages /\ remote' = [remote EXCEPT ![r] = remote[r]]
      /\ remote[r] = "running" => ActionOK(j.op, j.act)
  BY <1>1, Parts DEF RunningOK, Op
<1> QED
  BY <1>2, <1>3, Step DEF Holds

LEMMA ServingTyped ==
  ASSUME TInv, NEW r \in Requests, Serving(r)
  PROVE  TInv'
<1>c. setter' \in Setters
  BY SetterStep
<1> USE <1>c
<1>p. /\ TypeOK /\ JobOK(job[r]) /\ RunningOK(r) /\ ChangingOK(r) /\ StageOK(r)
      /\ rpc[r] \in RequestStages /\ tpc[r] \in TaskStages /\ remote[r] \in RemoteStages
      /\ job[r] \in Jobs /\ Row(r) \in Rows /\ On(r) \in Instances /\ Op(r) \in Operations
      /\ rpc = [rpc EXCEPT ![r] = rpc[r]] /\ tpc = [tpc EXCEPT ![r] = tpc[r]]
      /\ row \in [Rows -> Rec] /\ type \in [Instances -> Types]
      /\ server \in [Instances -> Servers] /\ disks \in SUBSET Disks
  BY Parts
<1>1. CASE ChangeDefinition(r)
  <2>1. job[r].to \in Types
    BY <1>p, JobParts
  <2>2. PICK rs \in {"begin", "failed"} : rpc' = [rpc EXCEPT ![r] = rs]
    BY <1>1 DEF ChangeDefinition, RequestGoes
  <2>3. type' \in [Instances -> Types] /\ tpc' = [tpc EXCEPT ![r] = "none"] /\ tpc[r] = "none"
        /\ UNCHANGED <<row, server, disks, remote, job>>
    BY <1>1, <1>p, <2>1 DEF ChangeDefinition, StageOK, resources
  <2>4. rs \in RequestStages /\ "none" \in TaskStages /\ remote[r] = "none"
    BY <1>p, <2>3 DEF RequestStages, TaskStages, StageOK
  <2> QED
    BY <1>p, <2>2, <2>3, <2>4, StageStep
<1>2. CASE Begin(r)
  <2>1. tpc[r] = "none" /\ remote[r] = "none"
    BY <1>2, <1>p DEF Begin, StageOK
  <2>2. row' \in [Rows -> Rec]
    BY <1>2, <1>p, RowWrites DEF Begin, Statuses, Settled
  <2>3. rpc' = [rpc EXCEPT ![r] = "dispatch"] /\ tpc' = [tpc EXCEPT ![r] = "none"]
        /\ UNCHANGED <<type, server, disks, remote, job>>
    BY <1>2, <1>p, <2>1 DEF Begin, RequestGoes, resources
  <2>4. "dispatch" \in RequestStages /\ "none" \in TaskStages
    BY DEF RequestStages, TaskStages
  <2> QED
    BY <1>p, <2>1, <2>2, <2>3, <2>4, StageStep
<1>3. CASE Dispatch(r)
  <2>0. tpc[r] = "none" /\ remote[r] = "none" /\ UNCHANGED <<type, server, disks, remote>>
    BY <1>3, <1>p DEF Dispatch, StageOK, resources
  <2>1. CASE /\ TaskGoes(r, "queued") /\ Holds(r, [job[r] EXCEPT !.has = HasResource(r)])
             /\ RequestGoes(r, IF Op(r) = "delete" THEN "post" ELSE "done")
             /\ UNCHANGED row
    <3> DEFINE j == [job[r] EXCEPT !.has = HasResource(r)]
    <3>1. HasResource(r) \in BOOLEAN
      <4>1. \A i \in Instances : server[i].up \in BOOLEAN
        BY <1>p DEF Servers
      <4>2. CASE Row(r) \in Instances
        BY <4>1, <4>2 DEF HasResource
      <4>3. CASE Row(r) \notin Instances
        BY <4>3 DEF HasResource
      <4> QED
        BY <4>2, <4>3
    <3>2. j \in Jobs /\ j.op = Op(r) /\ j.row = Row(r) /\ j.on = On(r) /\ j.acts = job[r].acts
          /\ j.act = job[r].act
      <4> HIDE DEF HasResource
      <4> QED
        BY <1>p, <3>1 DEF Jobs, Op, Row, On
    <3> HIDE DEF j
    <3>3. PICK rs \in {"post", "done"} : rpc' = [rpc EXCEPT ![r] = rs]
      BY <2>1 DEF RequestGoes
    <3>4. rs \in RequestStages /\ "queued" \in TaskStages /\ tpc' = [tpc EXCEPT ![r] = "queued"]
      BY <2>1 DEF RequestStages, TaskStages, TaskGoes
    <3>5. Holds(r, j) /\ row' = row
      BY <2>1 DEF j
    <3> QED
      BY <1>p, <2>0, <3>2, <3>3, <3>4, <3>5, JobStep
  <2>2. CASE WithStatus(Row(r), "ERROR") /\ RequestGoes(r, "failed") /\ UNCHANGED <<tpc, job>>
    <3>1. row' \in [Rows -> Rec]
      BY <2>2, <1>p, RowWrites DEF Statuses, Settled
    <3>2. "failed" \in RequestStages
      BY DEF RequestStages
    <3>3. rpc' = [rpc EXCEPT ![r] = "failed"] /\ tpc' = [tpc EXCEPT ![r] = tpc[r]]
      BY <2>2, <1>p DEF RequestGoes
    <3> QED
      BY <1>p, <2>0, <2>2, <3>1, <3>2, <3>3, StageStep
  <2> QED
    BY <1>3, <2>1, <2>2 DEF Dispatch
<1>4. CASE PostDelete(r)
  <2> DEFINE j == [job[r] EXCEPT !.todo = server[On(r)].disks]
  <2>1. server[On(r)].disks \in SUBSET Disks
    BY <1>p DEF Servers
  <2>2. j \in Jobs /\ j.op = Op(r) /\ j.row = Row(r) /\ j.on = On(r) /\ j.acts = job[r].acts
        /\ j.act = job[r].act
    BY <1>p, <2>1 DEF Jobs, Op, Row, On
  <2>3. Holds(r, j) /\ RequestGoes(r, "drop") /\ UNCHANGED <<rows, resources, tpc, remote>>
    BY <1>4 DEF PostDelete
  <2> HIDE DEF j
  <2>4. rpc' = [rpc EXCEPT ![r] = "drop"] /\ "drop" \in RequestStages
        /\ UNCHANGED <<row, type, server, disks, tpc, remote>> /\ tpc' = [tpc EXCEPT ![r] = tpc[r]]
    BY <1>p, <2>3 DEF RequestGoes, RequestStages, rows, resources
  <2> QED
    BY <1>p, <2>2, <2>3, <2>4, JobStep DEF StageOK
<1>5. CASE DropVolumeRow(r)
  <2>1. PICK d \in job[r].todo :
          /\ Holds(r, [job[r] EXCEPT !.todo = @ \ {d}])
          /\ \/ UNCHANGED row
             \/ \E x \in Newest(d) : row' = [row EXCEPT ![x].state = "deleted"]
    BY <1>5 DEF DropVolumeRow
  <2> DEFINE j == [job[r] EXCEPT !.todo = @ \ {d}]
  <2>2. j \in Jobs /\ j.op = Op(r) /\ j.row = Row(r) /\ j.on = On(r) /\ j.acts = job[r].acts
        /\ j.act = job[r].act
    BY <1>p DEF Jobs, Op, Row, On
  <2>3. row' \in [Rows -> Rec]
    <3>1. Newest(d) \subseteq Rows
      BY <1>p, JobParts DEF Newest, RowsOf, Rows, VolumeRows
    <3>2. \A x \in Rows : [row EXCEPT ![x].state = "deleted"] \in [Rows -> Rec]
      BY <1>p, RowWrites DEF RowStates
    <3> QED
      BY <1>p, <2>1, <3>1, <3>2
  <2>4. Holds(r, j) /\ UNCHANGED <<type, server, disks, rpc, tpc, remote>> /\ rpc[r] = "drop"
    BY <1>5, <2>1 DEF DropVolumeRow, resources
  <2> HIDE DEF j
  <2>5. rpc' = [rpc EXCEPT ![r] = rpc[r]] /\ tpc' = [tpc EXCEPT ![r] = tpc[r]]
    BY <1>p, <2>4
  <2> QED
    BY <1>p, <2>2, <2>3, <2>4, <2>5, JobStep DEF StageOK
<1>6. CASE PostDeleteEnds(r)
  <2>1. rpc' = [rpc EXCEPT ![r] = "done"] /\ "done" \in RequestStages
        /\ UNCHANGED <<row, type, server, disks, tpc, remote, job>> /\ tpc' = [tpc EXCEPT ![r] = tpc[r]]
    BY <1>6, <1>p DEF PostDeleteEnds, RequestGoes, RequestStages, rows, resources
  <2> QED
    BY <1>p, <2>1, StageStep DEF StageOK
<1> QED
  BY <1>1, <1>2, <1>3, <1>4, <1>5, <1>6 DEF Serving

----------------------------------------------------------------------------
(* The resource service.                                                   *)

\* One step of the resource service for request r.
LEMMA RemoteStep ==
  ASSUME TInv, NEW r \in Requests, NEW ms \in {"success", "failure"}, remote[r] = "running",
         RemoteGoes(r, ms), UNCHANGED <<rows, rpc, tpc, job>>, setter' \in Setters,
         server' \in [Instances -> Servers], disks' \in SUBSET Disks
  PROVE  TInv'
<1>1. ms \in RemoteStages /\ remote' = [remote EXCEPT ![r] = ms]
  BY DEF RemoteStages, RemoteGoes
<1>2. /\ row' = row /\ type' = type
      /\ rpc' = [rpc EXCEPT ![r] = rpc[r]] /\ tpc' = [tpc EXCEPT ![r] = tpc[r]]
      /\ job' = [job EXCEPT ![r] = job[r]]
  BY Parts DEF rows
<1>3. /\ JobOK(job[r]) /\ rpc[r] \in RequestStages /\ tpc[r] \in TaskStages
      /\ tpc[r] \in {"wait", "failing", "failed"}
      /\ row \in [Rows -> Rec] /\ type \in [Instances -> Types]
      /\ rpc[r] \notin {"idle", "checked", "begin", "dispatch"}
  BY Parts DEF StageOK
<1> QED
  BY <1>1, <1>2, <1>3, Step

LEMMA RemoteTyped ==
  ASSUME TInv, NEW r \in Requests, Remote(r)
  PROVE  TInv'
<1>c. setter' \in Setters
  BY SetterStep
<1> USE <1>c
<1>p. /\ ActionOK(Op(r), job[r].act) /\ On(r) \in Instances
      /\ server \in [Instances -> Servers] /\ disks \in SUBSET Disks
  <2>1. remote[r] = "running"
    BY DEF Remote, RemoteCreates, RemoteDeletes, RemoteModifies, RemoteFails
  <2> QED
    BY <2>1, Parts DEF RunningOK
<1>b. \A i \in Instances : Boot[i] \in Disks
  BY ConstantsAssumption
<1>1. CASE RemoteCreates(r)
  <2>1. About(r) \in Types
    BY <1>1, <1>p DEF RemoteCreates, ActionOK, Act, About
  <2>2. NewServer(On(r), About(r)) \in Servers
    BY <1>p, <1>b, <2>1, ConstantsAssumption DEF NewServer, Servers
  <2>3. server' \in [Instances -> Servers] /\ disks' \in SUBSET Disks
    BY <1>1, <1>p, <1>b, <2>2 DEF RemoteCreates
  <2> QED
    BY <1>1, <2>3, RemoteStep DEF RemoteCreates
<1>2. CASE RemoteDeletes(r)
  <2>1. NoServer \in Servers
    BY AnyOnes DEF NoServer, Servers
  <2>2. Without(About(r)) \in [Instances -> Servers]
    BY <1>p DEF Without, Servers
  <2>3. server' \in [Instances -> Servers] /\ disks' \in SUBSET Disks
    BY <1>2, <1>p, <2>1, <2>2 DEF RemoteDeletes
  <2> QED
    BY <1>2, <2>3, RemoteStep DEF RemoteDeletes
<1>3. CASE RemoteModifies(r)
  <2> DEFINE s == server[On(r)]
  <2>1. s \in Servers /\ ActionOK(Op(r), job[r].act) /\ Modifies(r)
    BY <1>3, <1>p DEF RemoteModifies
  <2>2. Modified(s, Act(r), About(r)) \in Servers
    <3> HIDE DEF s
    <3>1. job[r].act[1] \in {"set_flavor", "add_volume", "del_volume", "add_security_group", "del_security_group"}
      BY <2>1 DEF ActionOK, ActionNames, Modifies, Act
    <3>2. CASE Act(r) = "set_flavor"
      <4>1. About(r) \in Types
        BY <2>1, <3>2 DEF ActionOK, Act, About
      <4> QED
        BY <2>1, <3>2, <4>1 DEF Modified, Servers
    <3>3. CASE Act(r) = "add_volume"
      <4>1. About(r) \in Disks
        BY <2>1, <3>3 DEF ActionOK, Act, About
      <4> QED
        BY <2>1, <3>3, <4>1 DEF Modified, Servers
    <3>4. CASE Act(r) = "del_volume"
      BY <2>1, <3>4 DEF Modified, Servers
    <3>5. CASE Act(r) = "add_security_group"
      <4>1. About(r) \in Groups
        BY <2>1, <3>5 DEF ActionOK, Act, About
      <4> QED
        BY <2>1, <3>5, <4>1 DEF Modified, Servers
    <3>6. CASE Act(r) = "del_security_group"
      BY <2>1, <3>6 DEF Modified, Servers
    <3> QED
      BY <3>1, <3>2, <3>3, <3>4, <3>5, <3>6 DEF Act
  <2>3. server' \in [Instances -> Servers] /\ disks' \in SUBSET Disks
    BY <1>3, <1>p, <2>2 DEF RemoteModifies
  <2> QED
    BY <1>3, <2>3, RemoteStep DEF RemoteModifies, rows
<1>4. CASE RemoteFails(r)
  BY <1>4, <1>p, RemoteStep DEF RemoteFails, rows, resources
<1> QED
  BY <1>1, <1>2, <1>3, <1>4 DEF Remote

----------------------------------------------------------------------------
(* Celery tasks.                                                           *)

\* A task has been dispatched, and its job is well formed.
LEMMA TaskParts ==
  ASSUME TInv, NEW r \in Requests, tpc[r] # "none"
  PROVE  /\ JobOK(job[r]) /\ RunningOK(r) /\ StageOK(r)
         /\ rpc[r] \in RequestStages /\ rpc[r] \notin {"idle", "checked", "begin", "dispatch"}
         /\ job[r] \in Jobs /\ Row(r) \in Rows /\ On(r) \in Instances /\ Op(r) \in Operations
         /\ rpc = [rpc EXCEPT ![r] = rpc[r]]
         /\ row \in [Rows -> Rec] /\ type \in [Instances -> Types]
         /\ server \in [Instances -> Servers] /\ disks \in SUBSET Disks
BY Parts DEF StageOK

LEMMA WorkingTyped ==
  ASSUME TInv, NEW r \in Requests, Working(r)
  PROVE  TInv'
<1>c. setter' \in Setters
  BY SetterStep
<1> USE <1>c
<1>0. tpc[r] # "none"
  BY DEF Working, TaskStarts, AskResource, AskResourceFails, RemoteAnswers, WaitFails,
         ResourceDone, ScanVolume, AdoptVolume, ImportEnds, Finish, TaskFails
<1>p. /\ JobOK(job[r]) /\ RunningOK(r) /\ StageOK(r)
      /\ rpc[r] \in RequestStages /\ rpc[r] \notin {"idle", "checked", "begin", "dispatch"}
      /\ job[r] \in Jobs /\ Row(r) \in Rows /\ On(r) \in Instances /\ Op(r) \in Operations
      /\ rpc = [rpc EXCEPT ![r] = rpc[r]]
      /\ row \in [Rows -> Rec] /\ type \in [Instances -> Types]
      /\ server \in [Instances -> Servers] /\ disks \in SUBSET Disks
  BY <1>0, TaskParts
<1>w. /\ \A s \in Statuses : WithStatus(Row(r), s) => row' \in [Rows -> Rec]
      /\ \A s \in Statuses : [row EXCEPT ![Row(r)].status = s] \in [Rows -> Rec]
      /\ \A s \in RowStates : [row EXCEPT ![Row(r)].state = s] \in [Rows -> Rec]
  BY <1>p, RowWrites DEF TInv
<1>s. {"ERROR", "ACTIVE", "PENDING", "CREATED"} \subseteq Statuses
  BY DEF Statuses, Settled
<1>1. CASE TaskStarts(r)
  <2>1. PICK ts \in {"work", "failing"} : tpc' = [tpc EXCEPT ![r] = ts]
    BY <1>1 DEF TaskStarts, TaskGoes
  <2>2. remote[r] = "none" /\ UNCHANGED <<row, type, server, disks, rpc, remote, job>>
    BY <1>1, <1>p DEF TaskStarts, StageOK, rows, resources
  <2> QED
    BY <1>p, <2>1, <2>2, StageStep DEF TaskStages
<1>2. CASE AskResource(r)
  <2>1. PICK a \in job[r].acts : Holds(r, [job[r] EXCEPT !.act = a, !.acts = @ \ {a}])
    BY <1>2 DEF AskResource
  <2> DEFINE j == [job[r] EXCEPT !.act = a, !.acts = @ \ {a}]
  <2>2. ActionOK(Op(r), a) /\ a \in ActionNames \X Subjects
    BY <1>p DEF JobOK, ActionOK, Op
  <2>3. /\ j \in Jobs /\ j.op = Op(r) /\ j.row = Row(r) /\ j.on = On(r)
        /\ j.acts \subseteq job[r].acts /\ j.act = a
    BY <1>p, <2>2 DEF Jobs, Op, Row, On
  <2>4. job' = [job EXCEPT ![r] = j]
    BY <2>1 DEF Holds
  <2> HIDE DEF j
  <2>5. JobOK(j) /\ ActionOK(j.op, j.act)
    BY <1>p, <2>2, <2>3 DEF JobOK, Op, Row, On
  <2>6. row' \in [Rows -> Rec]
    BY <1>2, <1>p, <1>w, <1>s DEF AskResource
  <2>7. remote' = [remote EXCEPT ![r] = "running"] /\ tpc' = [tpc EXCEPT ![r] = "wait"]
        /\ UNCHANGED <<type, server, disks, rpc>>
    BY <1>2 DEF AskResource, RemoteGoes, TaskGoes, resources
  <2>8. "running" \in RemoteStages /\ "wait" \in TaskStages
    BY DEF RemoteStages, TaskStages
  <2>9. rpc' = [rpc EXCEPT ![r] = rpc[r]] /\ type' \in [Instances -> Types]
        /\ server' \in [Instances -> Servers] /\ disks' \in SUBSET Disks
    BY <1>p, <2>7
  <2> QED
    BY <1>p, <2>4, <2>5, <2>6, <2>7, <2>8, <2>9, Step
<1>3. CASE AskResourceFails(r)
  <2>1. row' \in [Rows -> Rec]
    BY <1>3, <1>w, <1>s DEF AskResourceFails
  <2>2. tpc' = [tpc EXCEPT ![r] = "failing"] /\ UNCHANGED <<type, server, disks, rpc, remote, job>>
    BY <1>3 DEF AskResourceFails, TaskGoes, resources
  <2> QED
    BY <1>p, <2>1, <2>2, StageStep DEF TaskStages
<1>4. CASE RemoteAnswers(r)
  <2>1. row' \in [Rows -> Rec]
    BY <1>4, <1>p, <1>w, <1>s DEF RemoteAnswers
  <2>2. remote' = [remote EXCEPT ![r] = "none"] /\ tpc' = [tpc EXCEPT ![r] = "work"]
        /\ UNCHANGED <<type, server, disks, rpc, job>>
    BY <1>4 DEF RemoteAnswers, RemoteGoes, TaskGoes, resources
  <2>3. "none" \in RemoteStages /\ "work" \in TaskStages
    BY DEF RemoteStages, TaskStages
  <2>4. /\ rpc' = [rpc EXCEPT ![r] = rpc[r]] /\ type' \in [Instances -> Types]
        /\ job' = [job EXCEPT ![r] = job[r]]
        /\ server' \in [Instances -> Servers] /\ disks' \in SUBSET Disks
    BY <1>p, <2>2, Parts
  <2> QED
    BY <1>p, <2>1, <2>2, <2>3, <2>4, Step
<1>5. CASE WaitFails(r)
  <2>1. row' \in [Rows -> Rec]
    BY <1>5, <1>w, <1>s DEF WaitFails
  <2>2. tpc' = [tpc EXCEPT ![r] = "failing"] /\ UNCHANGED <<type, server, disks, rpc, remote, job>>
    BY <1>5 DEF WaitFails, TaskGoes, resources
  <2> QED
    BY <1>p, <2>1, <2>2, StageStep DEF TaskStages
<1>6. CASE ResourceDone(r)
  <2> DEFINE j == [job[r] EXCEPT !.todo = IF Imports(r) THEN server[On(r)].disks ELSE @]
  <2>1. server[On(r)].disks \in SUBSET Disks
    BY <1>p DEF Servers
  <2>2. job[r].todo \in SUBSET Disks
    BY <1>p, JobParts
  <2>3. j \in Jobs /\ j.op = Op(r) /\ j.row = Row(r) /\ j.on = On(r) /\ j.acts = job[r].acts
        /\ j.act = job[r].act
    <3> HIDE DEF Imports
    <3> QED
      BY <1>p, <2>1, <2>2 DEF Jobs, Op, Row, On
  <2>4. Holds(r, j) /\ UNCHANGED <<row, type, server, disks, rpc, remote>> /\ remote[r] = "none"
    BY <1>6, <1>p DEF ResourceDone, StageOK, rows, resources
  <2> HIDE DEF j
  <2>5. PICK ts \in {"finish", "scan", "failing"} : tpc' = [tpc EXCEPT ![r] = ts]
    BY <1>6 DEF ResourceDone, TaskGoes
  <2>6. ts \in TaskStages /\ rpc' = [rpc EXCEPT ![r] = rpc[r]]
    BY <1>p, <2>4 DEF TaskStages
  <2> QED
    BY <1>p, <2>3, <2>4, <2>5, <2>6, JobStep
<1>7. CASE ScanVolume(r)
  <2>1. PICK d \in job[r].todo :
          /\ Holds(r, [job[r] EXCEPT !.todo = @ \ {d}, !.disk = d])
          /\ TaskGoes(r, IF d \notin disks THEN "failing"
                         ELSE IF RowsOf(d) = {} THEN "adopt" ELSE "scan")
    BY <1>7 DEF ScanVolume
  <2> DEFINE j == [job[r] EXCEPT !.todo = @ \ {d}, !.disk = d]
  <2>2. j \in Jobs /\ j.op = Op(r) /\ j.row = Row(r) /\ j.on = On(r) /\ j.acts = job[r].acts
        /\ j.act = job[r].act
    BY <1>p DEF Jobs, Op, Row, On
  <2>3. Holds(r, j) /\ UNCHANGED <<row, type, server, disks, rpc, remote>> /\ remote[r] = "none"
    BY <1>7, <1>p, <2>1 DEF ScanVolume, StageOK, rows, resources
  <2> HIDE DEF j
  <2>4. PICK ts \in {"failing", "adopt", "scan"} : tpc' = [tpc EXCEPT ![r] = ts]
    BY <2>1 DEF TaskGoes
  <2>5. ts \in TaskStages /\ rpc' = [rpc EXCEPT ![r] = rpc[r]]
    BY <1>p, <2>3 DEF TaskStages
  <2> QED
    BY <1>p, <2>2, <2>3, <2>4, <2>5, JobStep
<1>8. CASE AdoptVolume(r)
  <2>1. PICK k \in Copies : row' = [row EXCEPT ![<<job[r].disk, k>>] =
                                      [state |-> "present", status |-> "ACTIVE"]]
    BY <1>8 DEF AdoptVolume
  <2>2. <<job[r].disk, k>> \in Rows
    BY <1>p, JobParts DEF Rows, VolumeRows
  <2>3. [state |-> "present", status |-> "ACTIVE"] \in Rec
    BY <1>s DEF Rec, RowStates
  <2>4. row' \in [Rows -> Rec]
    BY <1>p, <2>1, <2>2, <2>3
  <2>5. tpc' = [tpc EXCEPT ![r] = "scan"] /\ UNCHANGED <<type, server, disks, rpc, remote, job>>
        /\ remote[r] = "none"
    BY <1>8, <1>p DEF AdoptVolume, StageOK, TaskGoes, resources
  <2> QED
    BY <1>p, <2>4, <2>5, StageStep DEF TaskStages
<1>9. CASE ImportEnds(r)
  <2>1. tpc' = [tpc EXCEPT ![r] = "finish"] /\ remote[r] = "none"
        /\ UNCHANGED <<row, type, server, disks, rpc, remote, job>>
    BY <1>9, <1>p DEF ImportEnds, StageOK, TaskGoes, rows, resources
  <2> QED
    BY <1>p, <2>1, StageStep DEF TaskStages
<1>10. CASE Finish(r)
  <2>1. row' \in [Rows -> Rec]
    BY <1>10, <1>p, <1>w, <1>s DEF Finish, RowStates
  <2>2. PICK ts \in {"ended", "failing"} : tpc' = [tpc EXCEPT ![r] = ts]
    BY <1>10 DEF Finish, TaskGoes
  <2>3. remote[r] = "none" /\ UNCHANGED <<type, server, disks, rpc, remote, job>>
    BY <1>10, <1>p DEF Finish, StageOK, resources
  <2> QED
    BY <1>p, <2>1, <2>2, <2>3, StageStep DEF TaskStages
<1>11. CASE TaskFails(r)
  <2>1. row' \in [Rows -> Rec]
    BY <1>11, <1>p, <1>w, <1>s DEF TaskFails
  <2>2. tpc' = [tpc EXCEPT ![r] = "failed"] /\ UNCHANGED <<type, server, disks, rpc, remote, job>>
    BY <1>11 DEF TaskFails, TaskGoes, resources
  <2> QED
    BY <1>p, <2>1, <2>2, StageStep DEF TaskStages
<1> QED
  BY <1>1, <1>2, <1>3, <1>4, <1>5, <1>6, <1>7, <1>8, <1>9, <1>10, <1>11 DEF Working

\* Whatever requests, tasks and the resource service do, the types hold.
LEMMA NextTyped ==
  ASSUME TInv, [Next]_vars
  PROVE  TInv'
<1>1. CASE UNCHANGED vars
  BY <1>1 DEF vars, TInv, TypeOK, JobsOK, JobOK, RunningOK, ChangingOK, StageOK, Op
<1>2. CASE Next
  BY <1>2, AskingTyped, ServingTyped, RemoteTyped, WorkingTyped DEF Next
<1> QED
  BY <1>1, <1>2

\* The variables keep their types, and what the resource service is asked for is
\* about a thing of the right kind, whatever the requests of the compute plugin
\* and the tasks of the resource service do.
THEOREM ComputeTyped == Spec => []TypeOK
<1>1. Init => TInv
  BY InitTyped
<1>2. TInv /\ [Next]_vars => TInv'
  BY NextTyped
<1>3. TInv => TypeOK
  BY DEF TInv
<1> QED
  BY <1>1, <1>2, <1>3, PTL DEF Spec
----------------------------------------------------------------------------
(* Servers. Requests that do not read while another is between its read and  *)
(* its write find the status of an instance busy until the one that made it  *)
(* so has ended: each instance whose tasks never failed has one request at a *)
(* time, and only that one changes its server.                               *)

\* Request r keeps its row for itself.
Holding(r) ==
  \/ Reading(r) \/ rpc[r] = "dispatch"
  \/ tpc[r] \in {"queued", "work", "wait", "scan", "adopt", "finish"}

Goes(r) == Serving(r) \/ Remote(r) \/ Working(r)

\* A row that requests are about has been made, and had no server before that; a
\* request that wrote a definition has started, and wrote that of its instance.
RowsBegun ==
  /\ \A r \in Requests : rpc[r] = "idle" => Op(r) = "patch"
  /\ \A r \in Requests : rpc[r] # "idle" => row[Row(r)].state # "absent"
  /\ \A i \in Instances : row[i].state = "absent" => row[i].status = "DRAFT" /\ ~server[i].up
  /\ \A i \in Instances, r \in Requests : setter[i] = r => rpc[r] # "idle" /\ On(r) = i

OneHolder ==
  /\ \A q, r \in Requests : Reading(q) /\ Reading(r) => q = r
  /\ \A r \in Requests :
       ~FailedOn(Row(r)) /\ Holding(r) /\ ~Reading(r)
         => row[Row(r)].status \notin Settled
  /\ \A q, r \in Requests :
       /\ ~FailedOn(Row(r))
       /\ Row(q) = Row(r) /\ Holding(q) /\ Holding(r)
       => q = r

NewType(r) == Action("set_flavor", type[On(r)])

\* What the request of an instance knows of its server's type.
KnowsType(r) ==
  /\ Op(r) = "create" =>
       /\ job[r].acts \subseteq {Action("create", type[On(r)])}
       /\ remote[r] = "running" => job[r].acts = {} /\ About(r) = type[On(r)]
       /\ job[r].acts # {} => ~server[On(r)].up
  /\ Op(r) = "set_type" =>
       /\ server[On(r)].up
       /\ rpc[r] # "checked" => setter[On(r)] = r
       /\ tpc[r] # "none" => job[r].has
       /\ rpc[r] \in {"begin", "dispatch"} \/ tpc[r] = "queued" => job[r].acts = {NewType(r)}
       /\ rpc[r] # "checked" => job[r].acts \subseteq {NewType(r)}
       /\ remote[r] = "running" => job[r].acts = {} /\ About(r) = type[On(r)]
       /\ tpc[r] \in {"scan", "adopt", "finish"} => job[r].acts = {}
       /\ job[r].acts = {} /\ remote[r] \in {"none", "success"}
            => server[On(r)].type = type[On(r)]

\* An action on i takes its last security group away.
Leaves(i, a) == a[1] = "del_security_group" => server[i].groups \ {a[2]} # {}

KnowsGroups(r) ==
  Op(r) \in {"groups", "set_both"} =>
    /\ \A a, b \in job[r].acts : a = b
    /\ \A a \in job[r].acts : Leaves(On(r), a)
    /\ remote[r] = "running" => job[r].acts = {} /\ Leaves(On(r), job[r].act)

Minds(r) == Row(r) \in Instances /\ ~FailedOn(Row(r)) /\ Holding(r)

TypesKnown == \A r \in Requests : Minds(r) => KnowsType(r)
GroupsKnown == \A r \in Requests : Minds(r) => KnowsGroups(r)

\* FlavorAgrees, whatever the status of the instance.
TypeKept ==
  \A i \in Instances :
    /\ server[i].up
    /\ ~FailedOn(i)
    /\ setter[i] \in Requests => Op(setter[i]) = "set_type" /\ tpc[setter[i]] = "ended"
    => server[i].type = type[i]

HInv == TInv /\ RowsBegun /\ OneHolder

\* A step of r leaves what other requests hold alone.
LEMMA OthersKeep ==
  ASSUME TInv, NEW r \in Requests, Asking(r) \/ Goes(r), NEW q \in Requests, q # r
  PROVE  /\ rpc'[q] = rpc[q] /\ tpc'[q] = tpc[q] /\ remote'[q] = remote[q] /\ job'[q] = job[q]
         /\ Op(q)' = Op(q) /\ Row(q)' = Row(q) /\ On(q)' = On(q)
         /\ Holding(q)' = Holding(q) /\ Reading(q)' = Reading(q)
         /\ Failed(q)' = Failed(q)
<1>1. rpc'[q] = rpc[q] /\ tpc'[q] = tpc[q] /\ remote'[q] = remote[q] /\ job'[q] = job[q]
  <2>1. TypeOK
    BY DEF TInv
  <2>2. CASE Asking(r)
    BY <2>1, <2>2
       DEF TypeOK, Asking, CreateInstance, DeleteInstance, PatchInstance, SetInstanceType,
           ChangeSecurityGroups, Attach, Detach, DeleteVolume, Asks, Holds, RequestGoes
  <2>3. CASE Serving(r)
    BY <2>1, <2>3
       DEF TypeOK, Serving, ChangeDefinition, Begin, Dispatch, PostDelete, DropVolumeRow,
           PostDeleteEnds, Holds, RequestGoes, TaskGoes
  <2>4. CASE Remote(r)
    BY <2>1, <2>4
       DEF TypeOK, Remote, RemoteCreates, RemoteDeletes, RemoteModifies, RemoteFails, RemoteGoes
  <2>5. CASE Working(r)
    BY <2>1, <2>5
       DEF TypeOK, Working, TaskStarts, AskResource, AskResourceFails, RemoteAnswers, WaitFails,
           ResourceDone, ScanVolume, AdoptVolume, ImportEnds, Finish, TaskFails, Holds,
           RemoteGoes, TaskGoes
  <2> QED
    BY <2>2, <2>3, <2>4, <2>5 DEF Goes
<1> QED
  BY <1>1 DEF Op, Row, On, Holding, Reading, Failed

\* What a step of a request under way does to its own job.
LEMMA OwnStep ==
  ASSUME TInv, NEW r \in Requests, Goes(r)
  PROVE  /\ rpc[r] # "idle" /\ rpc'[r] # "idle"
         /\ Op(r)' = Op(r) /\ Row(r)' = Row(r) /\ On(r)' = On(r)
         /\ Failed(r) => Failed(r)'
         /\ Holding(r)' => Holding(r) /\ (~Reading(r) => ~Reading(r)')
<1>p. /\ TypeOK /\ StageOK(r) /\ job[r] \in Jobs
  BY Parts
<1>f. /\ rpc \in [Requests -> RequestStages] /\ tpc \in [Requests -> TaskStages]
      /\ remote \in [Requests -> RemoteStages] /\ job \in [Requests -> Jobs]
  BY <1>p DEF TypeOK
<1>1. CASE Serving(r)
  <2>1. UNCHANGED tpc \/ (tpc[r] = "none" /\ tpc'[r] = "queued" /\ Dispatch(r))
    BY <1>1, <1>f, <1>p
       DEF StageOK, Serving, ChangeDefinition, Begin, Dispatch, PostDelete, DropVolumeRow,
           PostDeleteEnds, TaskGoes
  <2>2. Op(r)' = Op(r) /\ Row(r)' = Row(r) /\ On(r)' = On(r)
    BY <1>1, <1>f, <1>p
       DEF Serving, ChangeDefinition, Begin, Dispatch, PostDelete, DropVolumeRow,
           PostDeleteEnds, Holds, Jobs, Op, Row, On
  <2> QED
    BY <1>1, <1>f, <2>1, <2>2
       DEF Serving, ChangeDefinition, Begin, Dispatch, PostDelete, DropVolumeRow,
           PostDeleteEnds, RequestGoes, Holding, Reading, Failed
<1>2. CASE Remote(r)
  <2>1. UNCHANGED <<rpc, tpc, job>> /\ remote[r] = "running"
    BY <1>2 DEF Remote, RemoteCreates, RemoteDeletes, RemoteModifies, RemoteFails
  <2> QED
    BY <1>p, <2>1 DEF StageOK, Holding, Reading, Failed, Op, Row, On
<1>3. CASE Working(r)
  <2>1. UNCHANGED rpc /\ tpc[r] # "none"
    BY <1>3 DEF Working, TaskStarts, AskResource, AskResourceFails, RemoteAnswers, WaitFails,
                ResourceDone, ScanVolume, AdoptVolume, ImportEnds, Finish, TaskFails, rows
  <2>2. Op(r)' = Op(r) /\ Row(r)' = Row(r) /\ On(r)' = On(r)
    <3>1. CASE AskResource(r) \/ ScanVolume(r)
      BY <1>f, <1>p, <3>1 DEF AskResource, ScanVolume, Holds, Jobs, Op, Row, On
    <3>2. CASE ResourceDone(r)
      BY <1>f, <1>p, <3>2 DEF ResourceDone, Holds, Jobs, Op, Row, On
    <3>3. CASE ~AskResource(r) /\ ~ScanVolume(r) /\ ~ResourceDone(r)
      BY <1>3, <3>3
         DEF Working, TaskStarts, AskResourceFails, RemoteAnswers, WaitFails, AdoptVolume,
             ImportEnds, Finish, TaskFails, Op, Row, On
    <3> QED
      BY <3>1, <3>2, <3>3
  <2>3. Failed(r) => Failed(r)'
    BY <1>3, <1>f
       DEF Working, TaskStarts, AskResource, AskResourceFails, RemoteAnswers, WaitFails,
           ResourceDone, ScanVolume, AdoptVolume, ImportEnds, Finish, TaskFails, TaskGoes, Failed
  <2>4. Holding(r)' => Holding(r)
    BY <1>3, <1>f, <1>p, <2>1
       DEF Working, TaskStarts, AskResource, AskResourceFails, RemoteAnswers, WaitFails,
           ResourceDone, ScanVolume, AdoptVolume, ImportEnds, Finish, TaskFails, TaskGoes,
           Holding, Reading
  <2> QED
    BY <1>p, <2>1, <2>2, <2>3, <2>4 DEF StageOK, Reading
<1> QED
  BY <1>1, <1>2, <1>3 DEF Goes

\* A task that failed about an instance stays one that failed.
LEMMA FailedStays ==
  ASSUME TInv, NEW r \in Requests, Asking(r) \/ Goes(r), NEW i
  PROVE  FailedOn(i) => FailedOn(i)'
<1> SUFFICES ASSUME NEW q \in Requests, Row(q) = i, Failed(q) PROVE Row(q)' = i /\ Failed(q)'
  BY DEF FailedOn
<1>1. CASE q # r
  BY <1>1, OthersKeep
<1>2. CASE q = r /\ Goes(r)
  BY <1>2, OwnStep
<1>3. CASE q = r /\ Asking(r)
  <2>1. rpc[r] = "idle"
    BY <1>3 DEF Asking, CreateInstance, DeleteInstance, PatchInstance, SetInstanceType,
                ChangeSecurityGroups, Attach, Detach, DeleteVolume, MayAsk
  <2> QED
    BY <1>3, <2>1, Parts DEF StageOK, Failed
<1> QED
  BY <1>1, <1>2, <1>3
\* What a client asks: a new instance, or something of a row that is settled.
LEMMA WhatIsAsked ==
  ASSUME TInv, NEW r \in Requests, Asking(r)
  PROVE  /\ rpc[r] = "idle" /\ tpc'[r] = "none" /\ remote'[r] = "none"
         /\ UNCHANGED <<server, disks, setter>>
         /\ \/ \E i \in Instances, t \in Types :
                 /\ row[i].state = "absent"
                 /\ row' = [row EXCEPT ![i].state = "present"]
                 /\ type' = [type EXCEPT ![i] = t]
                 /\ rpc'[r] = "dispatch"
                 /\ Op(r)' = "create" /\ Row(r)' = i /\ On(r)' = i
                 /\ job'[r].acts = {Action("create", t)}
            \/ \E x \in Rows :
                 /\ MayAsk(r) /\ MayChange(x)
                 /\ UNCHANGED <<row, type>>
                 /\ rpc'[r] = "checked"
                 /\ Op(r)' # "create" /\ Row(r)' = x
                 /\ Op(r)' = "set_type" => /\ On(r)' = x /\ server[x].up
                                           /\ job'[r].acts = {Action("set_flavor", job'[r].to)}
                 /\ Op(r)' \in {"groups", "set_both"} => /\ On(r)' = x /\ x \in Instances
                                                         /\ job'[r].acts \in GroupLists(x)
<1>p. /\ job \in [Requests -> Jobs] /\ rpc \in [Requests -> RequestStages] /\ StageOK(r)
  BY Parts DEF TypeOK
<1>r. \A i \in Instances : i \in Rows
  BY DEF Rows
<1>v. \A x \in VolumeRows : x \in Rows
  BY DEF Rows
<1>a. ASSUME NEW op, NEW x, NEW i, NEW t, NEW acts, rpc[r] = "idle", Asks(r, Job(op, x, i, t, acts))
      PROVE  /\ tpc'[r] = "none" /\ remote'[r] = "none"
             /\ UNCHANGED <<server, disks, row, type, setter>> /\ rpc'[r] = "checked"
             /\ Op(r)' = op /\ Row(r)' = x /\ On(r)' = i
             /\ job'[r].acts = acts /\ job'[r].to = t
  <2>1. Holds(r, Job(op, x, i, t, acts)) /\ RequestGoes(r, "checked")
        /\ UNCHANGED <<rows, resources, tpc, remote>>
    BY <1>a DEF Asks
  <2>2. job'[r] = Job(op, x, i, t, acts)
    BY <1>p, <2>1 DEF Holds
  <2> QED
    BY <1>a, <1>p, <2>1, <2>2 DEF RequestGoes, rows, resources, StageOK, Job, Op, Row, On
<1>1. ASSUME NEW i \in Instances, CreateInstance(r, i) PROVE
                 \E t \in Types :
                 /\ row[i].state = "absent"
                 /\ row' = [row EXCEPT ![i].state = "present"]
                 /\ type' = [type EXCEPT ![i] = t]
                 /\ rpc'[r] = "dispatch" /\ rpc[r] = "idle" /\ tpc'[r] = "none" /\ remote'[r] = "none"
                 /\ UNCHANGED <<server, disks, setter>>
                 /\ Op(r)' = "create" /\ Row(r)' = i /\ On(r)' = i
                 /\ job'[r].acts = {Action("create", t)}
  <2>1. PICK t \in Types : type' = [type EXCEPT ![i] = t]
                           /\ Holds(r, Job("create", i, i, t, {Action("create", t)}))
    BY <1>1 DEF CreateInstance
  <2>2. job'[r] = Job("create", i, i, t, {Action("create", t)})
    BY <1>p, <2>1 DEF Holds
  <2>3. Op(r)' = "create" /\ Row(r)' = i /\ On(r)' = i /\ job'[r].acts = {Action("create", t)}
    BY <2>2 DEF Job, Op, Row, On
  <2> QED
    BY <1>1, <1>p, <2>1, <2>3 DEF CreateInstance, RequestGoes, StageOK, resources
<1>2. ASSUME NEW i \in Instances, DeleteInstance(r, i) \/ PatchInstance(r, i) PROVE
        /\ MayAsk(r) /\ MayChange(i)
        /\ \E op \in {"delete", "patch"} : \E t, acts : Asks(r, Job(op, i, i, t, acts))
  BY <1>2 DEF DeleteInstance, PatchInstance
<1>4. ASSUME NEW i \in Instances, SetInstanceType(r, i) PROVE
        /\ MayAsk(r) /\ MayChange(i) /\ server[i].up
        /\ \E t \in Types :
             \/ Asks(r, Job("set_type", i, i, t, {Action("set_flavor", t)}))
             \/ \E acts \in GroupLists(i) : Asks(r, Job("set_both", i, i, t, acts))
  <2>1. PICK t \in Types : \E jb \in TypeRequests(i, t) : Asks(r, jb)
    BY <1>4 DEF SetInstanceType
  <2>2. \/ Asks(r, Job("set_type", i, i, t, {Action("set_flavor", t)}))
        \/ \E acts \in GroupLists(i) : Asks(r, Job("set_both", i, i, t, acts))
    BY <2>1 DEF TypeRequests
  <2> QED
    BY <1>4, <2>2 DEF SetInstanceType
<1>5. ASSUME NEW i \in Instances, ChangeSecurityGroups(r, i) PROVE
        /\ MayAsk(r) /\ MayChange(i)
        /\ \E acts \in GroupLists(i) : \E t : Asks(r, Job("groups", i, i, t, acts))
  BY <1>5 DEF ChangeSecurityGroups
<1>6. ASSUME NEW x \in VolumeRows,
             DeleteVolume(r, x) \/ \E i \in Instances : Attach(r, i, x) \/ Detach(r, i, x)
      PROVE  /\ MayAsk(r) /\ MayChange(x)
             /\ \E op \in {"delete_volume", "attach", "detach"} :
                  \E i, t, acts : Asks(r, Job(op, x, i, t, acts))
  BY <1>6 DEF DeleteVolume, Attach, Detach
<1>7. CASE \E i \in Instances : CreateInstance(r, i)
  BY <1>7, <1>1
<1>8. CASE \E i \in Instances : DeleteInstance(r, i) \/ PatchInstance(r, i)
  <2>1. PICK i \in Instances : DeleteInstance(r, i) \/ PatchInstance(r, i)
    BY <1>8
  <2>2. PICK op \in {"delete", "patch"} : \E t, acts : Asks(r, Job(op, i, i, t, acts))
    BY <1>2, <2>1
  <2>3. MayAsk(r) /\ MayChange(i) /\ rpc[r] = "idle"
    BY <1>2, <2>1 DEF MayAsk
  <2> QED
    BY <1>a, <1>r, <2>2, <2>3
<1>9. CASE \E i \in Instances : SetInstanceType(r, i)
  <2>1. PICK i \in Instances : SetInstanceType(r, i)
    BY <1>9
  <2>2. PICK t \in Types :
          \/ Asks(r, Job("set_type", i, i, t, {Action("set_flavor", t)}))
          \/ \E acts \in GroupLists(i) : Asks(r, Job("set_both", i, i, t, acts))
    BY <1>4, <2>1
  <2>3. MayAsk(r) /\ MayChange(i) /\ rpc[r] = "idle" /\ server[i].up /\ i \in Rows
    BY <1>4, <1>r, <2>1 DEF MayAsk
  <2>4. CASE Asks(r, Job("set_type", i, i, t, {Action("set_flavor", t)}))
    <3> HIDE DEF Action
    <3> QED
      BY <1>a, <2>3, <2>4
  <2>5. CASE \E acts \in GroupLists(i) : Asks(r, Job("set_both", i, i, t, acts))
    BY <1>a, <2>3, <2>5
  <2> QED
    BY <2>2, <2>4, <2>5
<1>10. CASE \E i \in Instances : ChangeSecurityGroups(r, i)
  <2>1. PICK i \in Instances : ChangeSecurityGroups(r, i)
    BY <1>10
  <2>2. PICK acts \in GroupLists(i) : \E t : Asks(r, Job("groups", i, i, t, acts))
    BY <1>5, <2>1
  <2>3. MayAsk(r) /\ MayChange(i) /\ rpc[r] = "idle" /\ i \in Rows
    BY <1>5, <1>r, <2>1 DEF MayAsk
  <2> QED
    BY <1>a, <2>2, <2>3
<1>11. CASE \E x \in VolumeRows :
              DeleteVolume(r, x) \/ \E i \in Instances : Attach(r, i, x) \/ Detach(r, i, x)
  <2>1. PICK x \in VolumeRows :
              DeleteVolume(r, x) \/ \E i \in Instances : Attach(r, i, x) \/ Detach(r, i, x)
    BY <1>11
  <2>2. PICK op \in {"delete_volume", "attach", "detach"} :
          \E i, t, acts : Asks(r, Job(op, x, i, t, acts))
    BY <1>6, <2>1
  <2>3. MayAsk(r) /\ MayChange(x) /\ rpc[r] = "idle"
    BY <1>6, <2>1 DEF MayAsk
  <2> QED
    BY <1>a, <1>v, <2>2, <2>3
<1> QED
  BY <1>7, <1>8, <1>9, <1>10, <1>11 DEF Asking

\* A new row of a disk that has none.
NewVolume(r, x) ==
  AdoptVolume(r) /\ row[x].state = "absent" /\ x[1] = job[r].disk /\ row'[x].state = "present"

\* What a step of request r writes to a row.
LEMMA RowStep ==
  ASSUME TInv, NEW r \in Requests, Goes(r), NEW x \in Rows
  PROVE  /\ row'[x].status # row[x].status =>
              \/ Row(r) = x /\ (Holding(r) \/ Failed(r))
              \/ NewVolume(r, x)
         /\ x \in Instances /\ row'[x] # row[x] => Row(r) = x
         /\ row'[x].state # row[x].state => row'[x].state = "deleted" \/ NewVolume(r, x)
         /\ row[x].state # "absent" => row'[x].state # "absent"
         /\ Row(r) = x /\ Holding(r)' /\ ~Reading(r)' /\ row[x].state # "absent"
              => \/ row'[x].status \notin Settled
                 \/ row'[x].status = row[x].status /\ ~Reading(r)
<1>p. /\ row \in [Rows -> Rec] /\ StageOK(r) /\ job[r] \in Jobs
      /\ rpc \in [Requests -> RequestStages] /\ tpc \in [Requests -> TaskStages]
  BY Parts DEF TypeOK
<1>v. \A y \in VolumeRows : y \notin Instances
  BY ConstantsAssumption DEF VolumeRows
<1>2. CASE DropVolumeRow(r)
  <2>1. /\ row'[x].status = row[x].status
        /\ row'[x] # row[x] => row'[x].state = "deleted" /\ x \notin Instances
    <3>1. PICK d \in job[r].todo :
            \/ UNCHANGED row
            \/ \E y \in Newest(d) : row' = [row EXCEPT ![y].state = "deleted"]
      BY <1>2 DEF DropVolumeRow
    <3>2. Newest(d) \subseteq VolumeRows
      BY <1>p, JobParts DEF Newest, RowsOf, VolumeRows
    <3> QED
      BY <1>p, <1>v, <3>1, <3>2 DEF Rec
  <2>2. UNCHANGED <<rpc, tpc>> /\ rpc[r] = "drop"
    BY <1>2 DEF DropVolumeRow
  <2> QED
    BY <2>1, <2>2, OwnStep DEF Reading
<1>3. CASE Begin(r)
  <2>1. row' = [row EXCEPT ![Row(r)].status = IF Op(r) \in {"delete", "delete_volume"}
                                              THEN "DELETING" ELSE "BUILDING"]
        /\ Holding(r)
    BY <1>3 DEF Begin, WithStatus, Holding, Reading
  <2> QED
    BY <1>p, <2>1 DEF Settled, Rec
<1>4. CASE Dispatch(r)
  <2>1. CASE UNCHANGED row /\ rpc[r] = "dispatch"
    BY <2>1 DEF Reading
  <2>2. CASE WithStatus(Row(r), "ERROR") /\ RequestGoes(r, "failed") /\ rpc[r] = "dispatch"
             /\ UNCHANGED tpc
    BY <1>p, <2>2 DEF WithStatus, RequestGoes, StageOK, Holding, Reading, Rec
  <2> QED
    BY <1>4, <2>1, <2>2 DEF Dispatch
<1>5. CASE PostDelete(r) \/ PostDeleteEnds(r)
  BY <1>5, <1>p DEF PostDelete, PostDeleteEnds, RequestGoes, Reading, rows
<1>8. CASE ChangeDefinition(r)
  <2>1. UNCHANGED <<row, tpc>> /\ tpc[r] = "none" /\ rpc'[r] \in {"begin", "failed"}
    BY <1>8, <1>p DEF ChangeDefinition, RequestGoes, StageOK
  <2> QED
    BY <2>1 DEF Holding, Reading
<1>6. CASE Remote(r)
  <2>1. UNCHANGED <<row, rpc>>
    BY <1>6 DEF Remote, RemoteCreates, RemoteDeletes, RemoteModifies, RemoteFails, rows
  <2> QED
    BY <2>1 DEF Reading
<1>7. CASE Working(r)
  <2>1. UNCHANGED rpc /\ rpc[r] \notin {"idle", "checked", "begin", "dispatch"}
    BY <1>7, <1>p
       DEF Working, TaskStarts, AskResource, AskResourceFails, RemoteAnswers, WaitFails,
           ResourceDone, ScanVolume, AdoptVolume, ImportEnds, Finish, TaskFails, StageOK
  <2>2. CASE UNCHANGED row
    BY <2>1, <2>2 DEF Reading
  <2>3. CASE AskResource(r) \/ AskResourceFails(r) \/ RemoteAnswers(r) \/ WaitFails(r)
    <3>1. CASE UNCHANGED row
      BY <2>1, <3>1 DEF Reading
    <3>2. CASE WithStatus(Row(r), "PENDING") \/ WithStatus(Row(r), "CREATED")
      <4>1. Holding(r) /\ ~Reading(r)
        BY <2>1, <2>3
           DEF AskResource, AskResourceFails, RemoteAnswers, WaitFails, Holding, Reading
      <4>2. row'[x] # row[x] => Row(r) = x
        BY <3>2, <1>p DEF WithStatus
      <4>3. row'[x].state = row[x].state
        BY <3>2, <1>p DEF WithStatus, Rec
      <4>4. Row(r) = x => row'[x].status \in {"PENDING", "CREATED"}
        BY <3>2, <1>p DEF WithStatus, Rec
      <4> QED
        BY <4>1, <4>2, <4>3, <4>4 DEF Settled
    <3>3. CASE WithStatus(Row(r), "ERROR") /\ tpc[r] \in {"work", "wait"} /\ TaskGoes(r, "failing")
      BY <2>1, <3>3, <1>p DEF WithStatus, TaskGoes, Holding, Reading, Rec
    <3> QED
      BY <2>3, <3>1, <3>2, <3>3 DEF AskResource, AskResourceFails, RemoteAnswers, WaitFails
  <2>4. CASE AdoptVolume(r)
    <3>1. PICK k \in Copies :
            /\ row[<<job[r].disk, k>>].state = "absent"
            /\ row' = [row EXCEPT ![<<job[r].disk, k>>] =
                         [state |-> "present", status |-> "ACTIVE"]]
      BY <2>4 DEF AdoptVolume
    <3>2. <<job[r].disk, k>> \in VolumeRows
      BY <1>p, JobParts DEF VolumeRows
    <3>3. row[<<job[r].disk, k>>].state = "absent"
      BY <3>1
    <3>4. CASE x = <<job[r].disk, k>>
      BY <1>p, <1>v, <2>1, <2>4, <3>1, <3>2, <3>3, <3>4 DEF NewVolume
    <3>5. CASE x # <<job[r].disk, k>>
      BY <1>p, <2>1, <3>1, <3>5 DEF Reading
    <3> QED
      BY <3>4, <3>5
  <2>5. CASE Finish(r) \/ TaskFails(r)
    <3>1. /\ tpc'[r] \in {"ended", "failing", "failed"} /\ (Holding(r) \/ Failed(r)) /\ ~Holding(r)'
      BY <2>1, <2>5, <1>p DEF Finish, TaskFails, TaskGoes, Holding, Reading, Failed
    <3>2. row'[x] # row[x] => Row(r) = x
      BY <2>5, <1>p DEF Finish, TaskFails, WithStatus
    <3>3. row[x].state # "absent" => row'[x].state # "absent"
      BY <2>5, <1>p DEF Finish, TaskFails, WithStatus, Rec
    <3>4. row'[x].state # row[x].state => row'[x].state = "deleted"
      BY <2>5, <1>p DEF Finish, TaskFails, WithStatus, Rec
    <3> QED
      BY <3>1, <3>2, <3>3, <3>4
  <2> QED
    BY <1>7, <2>2, <2>3, <2>4, <2>5
       DEF Working, TaskStarts, ResourceDone, ScanVolume, ImportEnds, rows
<1> QED
  BY <1>2, <1>3, <1>4, <1>5, <1>6, <1>7, <1>8 DEF Goes, Serving

\* What the resource service does to the server of an instance: all but its
\* disks, only for a request about that instance.
LEMMA ServerStep ==
  ASSUME TInv, NEW r \in Requests, Remote(r), NEW i \in Instances
  PROVE  /\ UNCHANGED <<row, type, setter, rpc, tpc, job>>
         /\ remote[r] = "running" /\ remote'[r] \in {"success", "failure"}
         /\ \/ /\ server'[i].up = server[i].up /\ server'[i].type = server[i].type
               /\ server'[i].groups = server[i].groups
               /\ On(r) = i /\ Op(r) = "set_type" /\ Row(r) = i => remote'[r] = "failure"
            \/ /\ Row(r) = i /\ On(r) = i /\ remote'[r] = "success"
               /\ \/ Op(r) = "create" /\ server'[i] = NewServer(i, About(r))
                  \/ Op(r) = "delete" /\ server'[i] = NoServer
                  \/ /\ Op(r) = "set_type" /\ server'[i].type = About(r)
                     /\ server'[i].up = server[i].up /\ server'[i].groups = server[i].groups
                  \/ /\ Op(r) \in {"groups", "set_both"} /\ server'[i].type = server[i].type
                     /\ server'[i].up = server[i].up
                     /\ \/ server[i].groups \subseteq server'[i].groups
                           /\ server'[i].groups # {}
                        \/ /\ Act(r) = "del_security_group"
                           /\ server'[i].groups = server[i].groups \ {About(r)}
<1>p. /\ ActionOK(Op(r), job[r].act) /\ JobOK(job[r]) /\ On(r) \in Instances
      /\ server \in [Instances -> Servers]
      /\ remote \in [Requests -> RemoteStages] /\ remote[r] = "running"
  <2>1. remote[r] = "running"
    BY DEF Remote, RemoteCreates, RemoteDeletes, RemoteModifies, RemoteFails
  <2> QED
    BY <2>1, Parts DEF RunningOK, TypeOK
<1>r. /\ UNCHANGED <<row, type, setter, rpc, tpc, job>>
      /\ remote'[r] \in {"success", "failure"}
  BY <1>p DEF Remote, RemoteCreates, RemoteDeletes, RemoteModifies, RemoteFails, rows, RemoteGoes
<1>j. /\ Op(r) \in {"create", "delete", "set_type", "set_both", "groups"} => Row(r) = On(r)
      /\ Op(r) = "set_type" => Act(r) = "set_flavor"
      /\ Act(r) = "create" => Op(r) = "create"
      /\ Act(r) = "delete" => Op(r) = "delete"
      /\ Act(r) = "set_flavor" => Op(r) = "set_type"
      /\ Act(r) \in {"add_security_group", "del_security_group"} => Op(r) \in {"groups", "set_both"}
      /\ Act(r) \in {"delete_disk", "add_volume", "del_volume"} => Op(r) # "set_type"
      /\ Act(r) \in ActionNames
  BY <1>p DEF JobOK, ActionOK, Op, Row, On, Act, ActionNames
<1>s. server[i] \in Servers /\ server[On(r)] \in Servers
  BY <1>p
<1>1. CASE RemoteCreates(r)
  <2>1. Op(r) = "create" /\ Row(r) = On(r) /\ remote'[r] = "success"
    BY <1>1, <1>j, <1>p DEF RemoteCreates, RemoteGoes
  <2>2. server' = [server EXCEPT ![On(r)] = NewServer(On(r), About(r))]
    BY <1>1 DEF RemoteCreates
  <2>3. CASE On(r) = i
    BY <1>p, <1>r, <2>1, <2>2, <2>3
  <2>4. CASE On(r) # i
    BY <1>p, <1>r, <2>1, <2>2, <2>4
  <2> QED
    BY <2>3, <2>4
<1>2. CASE RemoteDeletes(r)
  <2>1. remote'[r] = "success"
    BY <1>2, <1>p DEF RemoteDeletes, RemoteGoes
  <2>2. CASE Act(r) = "delete"
    <3>1. server' = [server EXCEPT ![On(r)] = NoServer]
      BY <1>2, <2>2 DEF RemoteDeletes
    <3>2. Op(r) = "delete" /\ Row(r) = On(r)
      BY <1>j, <2>2
    <3>3. CASE On(r) = i
      BY <1>p, <1>r, <2>1, <3>1, <3>2, <3>3
    <3>4. CASE On(r) # i
      BY <1>p, <1>r, <3>1, <3>4
    <3> QED
      BY <3>3, <3>4
  <2>3. CASE Act(r) = "delete_disk"
    <3>1. server' = Without(About(r))
      BY <1>2, <2>3 DEF RemoteDeletes
    <3>2. server'[i].up = server[i].up /\ server'[i].type = server[i].type
          /\ server'[i].groups = server[i].groups
      BY <1>s, <3>1 DEF Without, Servers
    <3> QED
      BY <1>j, <1>p, <1>r, <2>3, <3>2
  <2> QED
    BY <1>2, <2>2, <2>3 DEF RemoteDeletes
<1>3. CASE RemoteModifies(r)
  <2>1. server' = [server EXCEPT ![On(r)] = Modified(server[On(r)], Act(r), About(r))]
        /\ Modifies(r) /\ remote'[r] = "success"
    BY <1>3, <1>p DEF RemoteModifies, RemoteGoes
  <2>2. CASE On(r) # i
    BY <1>p, <1>r, <2>1, <2>2
  <2>3. CASE On(r) = i
    <3>1. server'[i] = Modified(server[i], Act(r), About(r))
      BY <1>p, <2>1, <2>3
    <3>2. CASE Act(r) = "set_flavor"
      BY <1>p, <1>r, <1>j, <1>s, <2>1, <2>3, <3>1, <3>2 DEF Modified, Servers
    <3>3. CASE Act(r) \in {"add_volume", "del_volume"}
      <4>1. server'[i].up = server[i].up /\ server'[i].type = server[i].type
            /\ server'[i].groups = server[i].groups
        BY <1>s, <3>1, <3>3 DEF Modified, Servers
      <4> QED
        BY <1>j, <1>p, <1>r, <3>3, <4>1
    <3>4. CASE Act(r) = "add_security_group"
      <4>1. server'[i].up = server[i].up /\ server'[i].type = server[i].type
            /\ server'[i].groups = server[i].groups \cup {About(r)}
        BY <1>s, <3>1, <3>4 DEF Modified, Servers
      <4> QED
        BY <1>j, <1>p, <1>r, <2>1, <2>3, <3>4, <4>1
    <3>5. CASE Act(r) = "del_security_group"
      <4>1. server'[i].up = server[i].up /\ server'[i].type = server[i].type
            /\ server'[i].groups = server[i].groups \ {About(r)}
        BY <1>s, <3>1, <3>5 DEF Modified, Servers
      <4> QED
        BY <1>j, <1>p, <1>r, <2>1, <2>3, <3>5, <4>1
    <3> QED
      BY <1>j, <2>1, <3>2, <3>3, <3>4, <3>5 DEF Modifies, ActionNames
  <2> QED
    BY <2>2, <2>3
<1>4. CASE RemoteFails(r)
  <2>1. UNCHANGED server /\ remote'[r] = "failure"
    BY <1>4, <1>p DEF RemoteFails, RemoteGoes, resources
  <2> QED
    BY <1>p, <1>r, <2>1
<1> QED
  BY <1>1, <1>2, <1>3, <1>4 DEF Remote
\* A server changes only by the resource service, and comes up only by the
\* creation of its instance.
LEMMA ServerKept ==
  ASSUME TInv, NEW r \in Requests, Serving(r) \/ Working(r)
  PROVE  UNCHANGED <<server, disks>>
BY DEF Serving, Working, ChangeDefinition, Begin, Dispatch, PostDelete, DropVolumeRow,
       PostDeleteEnds, TaskStarts, AskResource, AskResourceFails, RemoteAnswers, WaitFails,
       ResourceDone, ScanVolume, AdoptVolume, ImportEnds, Finish, TaskFails, resources

LEMMA BegunStays ==
  ASSUME TInv, RowsBegun, NEW r \in Requests, Asking(r) \/ Goes(r)
  PROVE  RowsBegun'
<1>p. /\ row \in [Rows -> Rec] /\ (\A i \in Instances : i \in Rows)
      /\ \A q \in Requests : Row(q) \in Rows
  BY Parts DEF Rows
<1>1. CASE Asking(r)
  <2>1. rpc'[r] # "idle" /\ UNCHANGED server
    BY <1>1, WhatIsAsked
  <2>2. \A q \in Requests \ {r} : /\ rpc'[q] = rpc[q] /\ Op(q)' = Op(q) /\ Row(q)' = Row(q)
    BY <1>1, OthersKeep
  <2>3. \A x \in Rows : /\ row[x].state # "absent" => row'[x].state # "absent"
                        /\ row'[x].state = "absent" => row'[x] = row[x]
    BY <1>1, <1>p, WhatIsAsked DEF Rec
  <2>4. row'[Row(r)'].state # "absent"
    <3>1. CASE \E i \in Instances : Row(r)' = i /\ row' = [row EXCEPT ![i].state = "present"]
      BY <3>1, <1>p DEF Rec
    <3>2. CASE \E x \in Rows : Row(r)' = x /\ MayChange(x) /\ UNCHANGED row
      BY <3>2 DEF MayChange, Visible
    <3> QED
      BY <1>1, <3>1, <3>2, WhatIsAsked
  <2>5. \A i \in Instances, q \in Requests :
          setter'[i] = q => rpc'[q] # "idle" /\ On(q)' = i
    <3>1. UNCHANGED setter /\ rpc[r] = "idle" /\ \A q \in Requests \ {r} : On(q)' = On(q)
      BY <1>1, WhatIsAsked, OthersKeep
    <3> QED
      BY <2>1, <2>2, <3>1 DEF RowsBegun
  <2> QED
    BY <1>p, <2>1, <2>2, <2>3, <2>4, <2>5 DEF RowsBegun
<1>2. CASE Goes(r)
  <2>1. \A q \in Requests : /\ rpc'[q] = "idle" <=> rpc[q] = "idle"
                            /\ Op(q)' = Op(q) /\ Row(q)' = Row(q)
    BY <1>2, OthersKeep, OwnStep
  <2>2. rpc[r] # "idle"
    BY <1>2, OwnStep
  <2>3. /\ \A x \in Rows : row[x].state # "absent" => row'[x].state # "absent"
        /\ \A i \in Instances : row'[i].state = "absent" => row'[i] = row[i]
    BY <1>2, <1>p, <2>2, RowStep DEF RowsBegun
  <2>4. \A i \in Instances : row'[i].state = "absent" => ~server'[i].up
    <3>1. CASE Remote(r)
      <4> SUFFICES ASSUME NEW i \in Instances, row'[i].state = "absent" PROVE ~server'[i].up
        OBVIOUS
      <4>1. ~server[i].up /\ Row(r) # i
        BY <1>p, <2>2, <2>3 DEF RowsBegun
      <4> QED
        BY <3>1, <4>1, ServerStep
    <3>2. CASE Serving(r) \/ Working(r)
      BY <3>2, <2>3, ServerKept DEF RowsBegun
    <3> QED
      BY <1>2, <3>1, <3>2 DEF Goes
  <2>5. \A i \in Instances, q \in Requests :
          setter'[i] = q => rpc'[q] # "idle" /\ On(q)' = i
    <3>1. \A q \in Requests : On(q)' = On(q)
      BY <1>2, OthersKeep, OwnStep
    <3>2. CASE UNCHANGED setter
      BY <2>1, <3>1, <3>2 DEF RowsBegun
    <3>3. CASE ChangeDefinition(r)
      <4>1. setter' = [setter EXCEPT ![On(r)] = r] /\ setter \in Setters /\ rpc'[r] # "idle"
        BY <1>2, <3>3, OwnStep, Parts DEF ChangeDefinition
      <4> QED
        BY <2>1, <3>1, <4>1 DEF RowsBegun, Setters
    <3> QED
      BY <1>2, <3>2, <3>3, SetterStep DEF Goes
  <2> QED
    BY <1>p, <2>1, <2>3, <2>4, <2>5 DEF RowsBegun
<1> QED
  BY <1>1, <1>2

LEMMA HoldersStay ==
  ASSUME ~Overlap, HInv, NEW r \in Requests, Asking(r) \/ Goes(r)
  PROVE  OneHolder'
<1>p. /\ row \in [Rows -> Rec] /\ (\A i \in Instances : i \in Rows)
      /\ \A q \in Requests : Row(q) \in Rows
      /\ TInv /\ RowsBegun /\ OneHolder
  BY Parts DEF HInv, Rows
<1>f. \A i \in Rows : FailedOn(i) => FailedOn(i)'
  BY <1>p, FailedStays
<1>o. \A q \in Requests \ {r} : /\ Row(q)' = Row(q) /\ Holding(q)' = Holding(q)
                                /\ Reading(q)' = Reading(q)
  BY <1>p, OthersKeep
<1>1. CASE Asking(r)
  <2>0. rpc[r] = "idle" /\ ~Reading(r)
    BY <1>1, <1>p, WhatIsAsked DEF Reading
  <2>h. \A x \in Rows : MayAsk(r) /\ MayChange(x) /\ ~FailedOn(x) =>
          \A q \in Requests : Row(q) = x => ~Holding(q)
    BY <1>p DEF MayAsk, MayChange, OneHolder, Holding
  <2>1. CASE \E i \in Instances : /\ row[i].state = "absent"
                                  /\ row' = [row EXCEPT ![i].state = "present"]
                                  /\ rpc'[r] = "dispatch" /\ Row(r)' = i /\ tpc'[r] = "none"
    <3>1. PICK i \in Instances : /\ row[i].state = "absent"
                                  /\ row' = [row EXCEPT ![i].state = "present"]
                                  /\ rpc'[r] = "dispatch" /\ Row(r)' = i /\ tpc'[r] = "none"
      BY <2>1
    <3>2. \A q \in Requests \ {r} : Row(q) = i => ~Holding(q)
      <4> SUFFICES ASSUME NEW q \in Requests \ {r}, Row(q) = i PROVE ~Holding(q)
        OBVIOUS
      <4>1. rpc[q] = "idle"
        BY <1>p, <3>1 DEF RowsBegun
      <4> QED
        BY <1>p, <4>1, Parts DEF StageOK, Holding, Reading
    <3>3. row'[i].status = "DRAFT" /\ \A x \in Rows \ {i} : row'[x] = row[x]
      BY <1>p, <3>1 DEF RowsBegun, Rec
    <3>4. ~Reading(r)'
      BY <3>1 DEF Reading
    <3>5. \A q, s \in Requests : Reading(q)' /\ Reading(s)' => q = s
      BY <1>o, <1>p, <3>4 DEF OneHolder
    <3>6. ASSUME NEW q \in Requests, ~FailedOn(Row(q))', Holding(q)', ~Reading(q)'
          PROVE  row'[Row(q)'].status \notin Settled
      BY <1>f, <1>o, <1>p, <3>1, <3>2, <3>3, <3>6 DEF OneHolder, Settled
    <3>7. ASSUME NEW q \in Requests, NEW s \in Requests, ~FailedOn(Row(s))',
                 Row(q)' = Row(s)', Holding(q)', Holding(s)'
          PROVE  q = s
      BY <1>f, <1>o, <1>p, <3>1, <3>2, <3>7 DEF OneHolder
    <3> QED
      BY <3>5, <3>6, <3>7 DEF OneHolder
  <2>2. CASE \E x \in Rows : /\ MayAsk(r) /\ MayChange(x) /\ UNCHANGED row
                             /\ rpc'[r] = "checked" /\ Row(r)' = x /\ tpc'[r] = "none"
    <3>1. PICK x \in Rows : /\ MayAsk(r) /\ MayChange(x) /\ UNCHANGED row
                            /\ rpc'[r] = "checked" /\ Row(r)' = x /\ tpc'[r] = "none"
      BY <2>2
    <3>2. \A q \in Requests : ~Reading(q)
      BY <3>1 DEF MayAsk
    <3>3. Reading(r)'
      BY <3>1 DEF Reading
    <3>4. ~FailedOn(x) => \A q \in Requests : Row(q) = x => ~Holding(q)
      BY <2>h, <3>1
    <3>5. \A q, s \in Requests : Reading(q)' /\ Reading(s)' => q = s
      BY <1>o, <3>2
    <3>6. ASSUME NEW q \in Requests, ~FailedOn(Row(q))', Holding(q)', ~Reading(q)'
          PROVE  row'[Row(q)'].status \notin Settled
      BY <1>f, <1>o, <1>p, <3>1, <3>3, <3>6 DEF OneHolder
    <3>7. ASSUME NEW q \in Requests, NEW s \in Requests, ~FailedOn(Row(s))',
                 Row(q)' = Row(s)', Holding(q)', Holding(s)'
          PROVE  q = s
      BY <1>f, <1>o, <1>p, <3>1, <3>4, <3>7 DEF OneHolder
    <3> QED
      BY <3>5, <3>6, <3>7 DEF OneHolder
  <2> QED
    BY <1>1, <1>p, <2>1, <2>2, WhatIsAsked
<1>2. CASE Goes(r)
  <2>1. /\ Row(r)' = Row(r) /\ (Holding(r)' => Holding(r) /\ (~Reading(r) => ~Reading(r)'))
    BY <1>2, <1>p, OwnStep
  <2>2. \A q \in Requests : Row(q)' = Row(q) /\ (Holding(q)' => Holding(q)) /\ (Reading(q)' => Reading(q))
    BY <1>o, <2>1 DEF Holding
  <2>3. \A q, s \in Requests : Reading(q)' /\ Reading(s)' => q = s
    BY <1>p, <2>2 DEF OneHolder
  <2>4. ASSUME NEW q \in Requests, ~FailedOn(Row(q))', Holding(q)', ~Reading(q)'
        PROVE  row'[Row(q)'].status \notin Settled
    <3> DEFINE i == Row(q)
    <3>1. i \in Rows /\ ~FailedOn(i) /\ Holding(q) /\ Row(q)' = i /\ row[i].state # "absent"
      <4>1. rpc[q] # "idle"
        BY <1>p, <2>2, <2>4, Parts DEF StageOK, Holding, Reading
      <4> QED
        BY <1>f, <1>p, <2>2, <2>4, <4>1 DEF RowsBegun
    <3>2. CASE q = r
      BY <1>2, <1>p, <2>2, <2>4, <3>1, <3>2, RowStep DEF OneHolder
    <3>3. CASE q # r
      <4>1. ~Reading(q)
        BY <1>o, <2>4, <3>3
      <4>2. ~(Row(r) = i /\ (Holding(r) \/ Failed(r)))
        BY <1>p, <3>1, <3>3 DEF OneHolder, FailedOn
      <4>3. row'[i].status = row[i].status
        BY <1>2, <1>p, <3>1, <4>2, RowStep DEF NewVolume
      <4> QED
        BY <1>p, <3>1, <4>1, <4>3 DEF OneHolder
    <3> QED
      BY <3>2, <3>3
  <2>5. ASSUME NEW q \in Requests, NEW s \in Requests, ~FailedOn(Row(s))',
               Row(q)' = Row(s)', Holding(q)', Holding(s)'
        PROVE  q = s
    BY <1>f, <1>p, <2>2, <2>5 DEF OneHolder
  <2> QED
    BY <2>3, <2>4, <2>5 DEF OneHolder
<1> QED
  BY <1>1, <1>2
\* A request that keeps its instance to itself finds it as it left it.
LEMMA OthersMind ==
  ASSUME ~Overlap, HInv, NEW r \in Requests, Asking(r) \/ Goes(r),
         NEW q \in Requests, q # r, Minds(q)'
  PROVE  /\ Minds(q)
         /\ rpc'[q] = rpc[q] /\ tpc'[q] = tpc[q] /\ remote'[q] = remote[q] /\ job'[q] = job[q]
         /\ Op(q)' = Op(q) /\ On(q)' = On(q)
         /\ Op(q) \in {"create", "set_type", "set_both", "groups"} =>
              /\ type'[On(q)] = type[On(q)] /\ setter'[On(q)] = setter[On(q)]
              /\ server'[On(q)].up = server[On(q)].up
              /\ server'[On(q)].type = server[On(q)].type
              /\ server'[On(q)].groups = server[On(q)].groups
<1> DEFINE i == Row(q)
<1>p. TInv /\ RowsBegun /\ OneHolder /\ JobOK(job[q]) /\ JobOK(job[r])
      /\ StageOK(r) /\ StageOK(q) /\ type \in [Instances -> Types]
  BY Parts DEF HInv
<1>1. /\ rpc'[q] = rpc[q] /\ tpc'[q] = tpc[q] /\ remote'[q] = remote[q] /\ job'[q] = job[q]
      /\ Op(q)' = Op(q) /\ On(q)' = On(q) /\ Row(q)' = i /\ Holding(q)' = Holding(q)
  BY <1>p, OthersKeep
<1>2. i \in Instances /\ ~FailedOn(i) /\ Holding(q) /\ Minds(q)
  BY <1>1, <1>p, FailedStays DEF Minds
<1>3. Row(r) = i => ~Holding(r) /\ ~Failed(r)
  BY <1>2, <1>p DEF OneHolder, FailedOn
<1>4. type'[i] = type[i] /\ setter'[i] = setter[i]
  <2>1. CASE Asking(r)
    <3>1. row[i].state # "absent"
      BY <1>2, <1>p DEF RowsBegun, StageOK, Holding, Reading
    <3> QED
      BY <1>2, <1>p, <2>1, <3>1, WhatIsAsked
  <2>2. CASE ChangeDefinition(r)
    <3>1. Holding(r) /\ Row(r) = On(r)
      BY <2>2, <1>p DEF ChangeDefinition, SetsType, Holding, Reading, JobOK, Op, Row, On
    <3>2. On(r) # i
      BY <3>1, <1>3
    <3> QED
      BY <1>2, <1>p, <2>2, <3>2 DEF ChangeDefinition
  <2>3. CASE Goes(r) /\ ~ChangeDefinition(r)
    BY <2>3
       DEF Goes, Serving, Working, Remote, RemoteCreates, RemoteDeletes, RemoteModifies, RemoteFails,
           Begin, Dispatch, PostDelete, DropVolumeRow, PostDeleteEnds, TaskStarts, AskResource,
           AskResourceFails, RemoteAnswers, WaitFails, ResourceDone, ScanVolume, AdoptVolume,
           ImportEnds, Finish, TaskFails, rows
  <2> QED
    BY <2>1, <2>2, <2>3
<1>5. /\ server'[i].up = server[i].up /\ server'[i].type = server[i].type
      /\ server'[i].groups = server[i].groups
  <2>1. CASE Remote(r)
    <3>1. remote[r] = "running"
      BY <1>p, <1>2, <2>1, ServerStep
    <3>2. Holding(r) \/ Failed(r)
      BY <3>1, <1>p DEF StageOK, Holding, Failed
    <3>3. Row(r) # i
      BY <3>2, <1>3
    <3> QED
      BY <1>p, <1>2, <2>1, <3>3, ServerStep
  <2>2. CASE ~Remote(r)
    BY <1>p, <2>2, WhatIsAsked, ServerKept DEF Goes
  <2> QED
    BY <2>1, <2>2
<1>6. Op(q) \in {"create", "set_type", "set_both", "groups"} => On(q) = i
  BY <1>p DEF JobOK, Op, Row, On
<1> QED
  BY <1>1, <1>2, <1>4, <1>5, <1>6

\* Actions taken from a set of one leave none.
LEMMA OneLess ==
  ASSUME NEW S, NEW A, S \subseteq {A}, NEW a \in S
  PROVE  a = A /\ S \ {a} = {}
OBVIOUS

\* A request that keeps an instance to itself knows what type its server has,
\* and will have.
LEMMA OwnTypeKnown ==
  ASSUME ~Overlap, HInv, TypesKnown, NEW r \in Requests, Asking(r) \/ Goes(r), Minds(r)'
  PROVE  KnowsType(r)'
<1>p. /\ TInv /\ RowsBegun /\ JobOK(job[r]) /\ StageOK(r) /\ ChangingOK(r) /\ job[r] \in Jobs
      /\ type \in [Instances -> Types] /\ On(r) \in Instances
      /\ rpc \in [Requests -> RequestStages] /\ tpc \in [Requests -> TaskStages]
      /\ remote \in [Requests -> RemoteStages] /\ job \in [Requests -> Jobs]
  BY Parts DEF HInv, TypeOK
<1>1. CASE Asking(r)
  <2>1. rpc[r] = "idle" /\ tpc'[r] = "none" /\ remote'[r] = "none" /\ UNCHANGED server
    BY <1>1, <1>p, WhatIsAsked
  <2>2. CASE \E i \in Instances, t \in Types :
                 /\ row[i].state = "absent"
                 /\ type' = [type EXCEPT ![i] = t]
                 /\ Op(r)' = "create" /\ On(r)' = i
                 /\ job'[r].acts = {Action("create", t)}
    <3>1. PICK i \in Instances, t \in Types :
                 /\ row[i].state = "absent"
                 /\ type' = [type EXCEPT ![i] = t]
                 /\ Op(r)' = "create" /\ On(r)' = i
                 /\ job'[r].acts = {Action("create", t)}
      BY <2>2
    <3>2. type'[i] = t /\ ~server[i].up
      BY <1>p, <3>1 DEF RowsBegun
    <3> QED
      BY <2>1, <3>1, <3>2 DEF KnowsType, NewType
  <2>3. CASE /\ Op(r)' # "create" /\ rpc'[r] = "checked"
             /\ Op(r)' = "set_type" =>
                  /\ server[On(r)'].up
                  /\ job'[r].acts = {Action("set_flavor", job'[r].to)}
    BY <2>1, <2>3 DEF KnowsType
  <2> QED
    BY <1>1, <1>p, <2>2, <2>3, WhatIsAsked
<1>2. CASE Goes(r)
  <2>1. /\ Op(r)' = Op(r) /\ On(r)' = On(r) /\ Row(r)' = Row(r) /\ Minds(r) /\ Holding(r)'
        /\ rpc'[r] # "idle"
    BY <1>2, <1>p, OwnStep, FailedStays DEF Minds
  <2>2. KnowsType(r)
    BY <2>1 DEF TypesKnown
  <2>j. Op(r) \in {"create", "set_type"} => Row(r) = On(r)
    BY <1>p DEF JobOK, Op, Row, On
  <2>3. CASE Remote(r)
    <3>1. /\ UNCHANGED <<type, setter, rpc, tpc, job>>
          /\ remote[r] = "running" /\ remote'[r] \in {"success", "failure"}
          /\ Op(r) = "set_type" =>
               /\ server'[On(r)].up = server[On(r)].up
               /\ remote'[r] = "failure" \/ server'[On(r)].type = About(r)
      BY <1>p, <2>3, <2>j, ServerStep
    <3> QED
      BY <2>1, <2>2, <3>1 DEF KnowsType, NewType
  <2>4. CASE Serving(r) \/ Working(r)
    <3>s. server' = server
      BY <1>p, <2>4, ServerKept
    <3>u. ~ChangeDefinition(r) => setter' = setter
      BY <1>p, <2>4, SetterStep
    <3>c. ~ChangeDefinition(r) /\ Op(r) = "set_type" /\ rpc'[r] # "checked" /\ rpc[r] = "checked" => FALSE
      BY <1>p, <2>4
         DEF Serving, Working, Begin, Dispatch, PostDelete, DropVolumeRow, PostDeleteEnds, TaskStarts,
             AskResource, AskResourceFails, RemoteAnswers, WaitFails, ResourceDone, ScanVolume,
             AdoptVolume, ImportEnds, Finish, TaskFails, SetsType, rows
    <3>k. ~ChangeDefinition(r) /\ Op(r) = "set_type" /\ rpc'[r] # "checked" => setter'[On(r)] = r
      BY <2>2, <3>u, <3>c DEF KnowsType
    <3>1. CASE ChangeDefinition(r)
      <4>1. /\ type'[On(r)] = job[r].to /\ setter'[On(r)] = r
            /\ tpc[r] = "none" /\ remote[r] = "none" /\ UNCHANGED <<tpc, remote, job>>
        BY <3>1, <1>p, Parts DEF ChangeDefinition, StageOK, Setters
      <4>2. Op(r) # "create" /\ (Op(r) = "set_type" => rpc'[r] = "begin")
        BY <3>1, <1>p DEF ChangeDefinition, RequestGoes, SetsType
      <4>3. Op(r) = "set_type" => job[r].acts = {Action("set_flavor", job[r].to)}
        BY <3>1, <1>p DEF ChangeDefinition, ChangingOK
      <4> QED
        BY <2>1, <2>2, <3>s, <4>1, <4>2, <4>3 DEF KnowsType, NewType
    <3> SUFFICES ASSUME ~ChangeDefinition(r) PROVE KnowsType(r)'
      BY <3>1
    <3>x. ~ChangeDefinition(r)
      OBVIOUS
    <3>2. CASE Begin(r)
      <4>1. rpc'[r] = "dispatch" /\ UNCHANGED <<type, tpc, remote, job>>
            /\ tpc[r] = "none" /\ remote[r] = "none" /\ (Op(r) = "set_type" => rpc[r] = "begin")
        BY <3>2, <1>p DEF Begin, RequestGoes, StageOK, SetsType
      <4> QED
        BY <2>1, <2>2, <3>s, <3>k, <3>x, <4>1 DEF KnowsType, NewType
    <3>3. CASE Dispatch(r)
      <4>1. /\ tpc'[r] = "queued" /\ job'[r] = [job[r] EXCEPT !.has = HasResource(r)]
            /\ rpc'[r] \in {"post", "done"} /\ rpc[r] = "dispatch" /\ remote[r] = "none"
            /\ UNCHANGED <<type, remote>>
        BY <2>1, <3>3, <1>p DEF Dispatch, TaskGoes, RequestGoes, Holds, StageOK, Holding, Reading
      <4>2. job'[r].acts = job[r].acts /\ job'[r].act = job[r].act /\ job'[r].has = HasResource(r)
        <5> HIDE DEF HasResource
        <5> QED
          BY <1>p, <4>1 DEF Jobs
      <4>3. Op(r) = "set_type" => HasResource(r)
        BY <1>p, <2>2, <2>j DEF HasResource, KnowsType
      <4>4. About(r)' = About(r)
        BY <4>2 DEF About
      <4> QED
        BY <2>1, <2>2, <3>s, <3>k, <3>x, <4>1, <4>2, <4>3, <4>4 DEF KnowsType, NewType
    <3>4. CASE PostDelete(r) \/ DropVolumeRow(r) \/ PostDeleteEnds(r)
      <4>1. /\ job'[r].acts = job[r].acts /\ job'[r].act = job[r].act /\ job'[r].has = job[r].has
            /\ rpc[r] \in {"post", "drop"} /\ rpc'[r] \in {"drop", "done"}
            /\ UNCHANGED <<type, tpc, remote>>
        BY <3>4, <1>p DEF PostDelete, DropVolumeRow, PostDeleteEnds, Holds, RequestGoes, Jobs, rows
      <4>2. About(r)' = About(r)
        BY <4>1 DEF About
      <4> QED
        BY <2>1, <2>2, <3>s, <3>k, <3>x, <4>1, <4>2 DEF KnowsType, NewType
    <3>5. CASE AskResource(r)
      <4>1. PICK a \in job[r].acts : job'[r] = [job[r] EXCEPT !.act = a, !.acts = @ \ {a}]
        BY <3>5, <1>p DEF AskResource, Holds
      <4>2. job'[r].acts = job[r].acts \ {a} /\ job'[r].act = a /\ job'[r].has = job[r].has
        BY <1>p, <4>1 DEF Jobs
      <4>3. /\ tpc[r] = "work" /\ tpc'[r] = "wait" /\ remote'[r] = "running"
            /\ UNCHANGED <<type, rpc>> /\ rpc[r] \notin {"checked", "begin", "dispatch"}
        BY <3>5, <1>p DEF AskResource, TaskGoes, RemoteGoes, StageOK
      <4>4. About(r)' = a[2]
        BY <4>2 DEF About
      <4>5. CASE Op(r) = "create"
        <5>1. a = Action("create", type[On(r)]) /\ job'[r].acts = {}
          BY <2>2, <4>2, <4>5, OneLess DEF KnowsType
        <5>2. a[2] = type[On(r)]
          BY <5>1 DEF Action
        <5> QED
          BY <2>1, <3>s, <4>3, <4>4, <4>5, <5>1, <5>2 DEF KnowsType
      <4>6. CASE Op(r) = "set_type"
        <5>1. a = NewType(r) /\ job'[r].acts = {}
          BY <2>2, <4>2, <4>3, <4>6, OneLess DEF KnowsType
        <5>2. a[2] = type[On(r)]
          BY <5>1 DEF NewType, Action
        <5> QED
          BY <2>1, <2>2, <3>s, <3>k, <3>x, <4>2, <4>3, <4>4, <4>6, <5>1, <5>2 DEF KnowsType
      <4> QED
        BY <2>1, <4>5, <4>6 DEF KnowsType
    <3>6. CASE ResourceDone(r)
      <4>1. /\ job'[r].acts = job[r].acts /\ job'[r].act = job[r].act /\ job'[r].has = job[r].has
            /\ tpc[r] = "work" /\ tpc'[r] \in {"scan", "finish"}
            /\ job[r].acts = {} \/ ~job[r].has
            /\ UNCHANGED <<type, rpc, remote>>
        <5>1. job'[r] = [job[r] EXCEPT !.todo = IF Imports(r) THEN server[On(r)].disks ELSE @]
              /\ tpc'[r] \in {"scan", "finish", "failing"} /\ rpc'[r] = rpc[r] /\ tpc[r] = "work"
              /\ (job[r].acts = {} \/ ~job[r].has)
              /\ UNCHANGED <<type, rpc, remote>>
          BY <3>6, <1>p DEF ResourceDone, Holds, TaskGoes, rows
        <5>2. tpc'[r] # "failing"
          <6>1. Holding(r)' /\ rpc'[r] \notin {"checked", "begin", "dispatch"}
            BY <2>1, <5>1, <1>p DEF StageOK
          <6> QED
            BY <6>1 DEF Holding, Reading
        <5> DEFINE d == IF Imports(r) THEN server[On(r)].disks ELSE job[r].todo
        <5>3. job'[r] = [job[r] EXCEPT !.todo = d]
          BY <5>1
        <5> HIDE DEF d
        <5>4. job'[r].acts = job[r].acts /\ job'[r].act = job[r].act /\ job'[r].has = job[r].has
          BY <1>p, <5>3 DEF Jobs
        <5> QED
          BY <5>1, <5>2, <5>4
      <4>2. About(r)' = About(r)
        BY <4>1 DEF About
      <4> QED
        BY <2>1, <2>2, <3>s, <3>k, <3>x, <4>1, <4>2 DEF KnowsType, NewType
    <3>7. CASE ScanVolume(r) \/ AdoptVolume(r) \/ ImportEnds(r)
      <4>1. /\ job'[r].acts = job[r].acts /\ job'[r].act = job[r].act /\ job'[r].has = job[r].has
            /\ tpc[r] \in {"scan", "adopt"} /\ tpc'[r] # "none" /\ tpc'[r] # "queued"
            /\ UNCHANGED <<type, rpc, remote>>
        <5>1. CASE ScanVolume(r)
          <6>1. PICK d \in job[r].todo : job'[r] = [job[r] EXCEPT !.todo = @ \ {d}, !.disk = d]
            BY <5>1, <1>p DEF ScanVolume, Holds
          <6>2. job'[r].acts = job[r].acts /\ job'[r].act = job[r].act /\ job'[r].has = job[r].has
            BY <1>p, <6>1 DEF Jobs
          <6> QED
            BY <5>1, <6>2, <1>p DEF ScanVolume, TaskGoes, rows
        <5>2. CASE AdoptVolume(r) \/ ImportEnds(r)
          BY <5>2, <1>p DEF AdoptVolume, ImportEnds, TaskGoes, rows
        <5> QED
          BY <3>7, <5>1, <5>2
      <4>2. About(r)' = About(r)
        BY <4>1 DEF About
      <4> QED
        BY <2>1, <2>2, <3>s, <3>k, <3>x, <4>1, <4>2 DEF KnowsType, NewType
    <3>8. CASE TaskStarts(r) \/ RemoteAnswers(r)
      <4>1. /\ UNCHANGED <<type, rpc, job>> /\ tpc[r] \in {"queued", "wait"}
            /\ tpc'[r] \in {"work", "failing"}
            /\ \/ remote'[r] = remote[r]
               \/ remote[r] = "success" /\ remote'[r] = "none"
        BY <3>8, <1>p DEF TaskStarts, RemoteAnswers, RemoteGoes, TaskGoes, rows
      <4> QED
        BY <2>1, <2>2, <3>s, <3>k, <3>x, <4>1 DEF KnowsType, NewType, About
    <3>9. CASE AskResourceFails(r) \/ WaitFails(r) \/ Finish(r) \/ TaskFails(r)
      <4>1. tpc'[r] \in {"failing", "ended", "failed"} /\ UNCHANGED rpc
            /\ rpc[r] \notin {"checked", "begin", "dispatch"}
        BY <3>9, <1>p DEF AskResourceFails, WaitFails, Finish, TaskFails, TaskGoes, StageOK
      <4> QED
        BY <2>1, <4>1 DEF Holding, Reading
    <3> QED
      BY <2>4, <3>2, <3>3, <3>4, <3>5, <3>6, <3>7, <3>8, <3>9 DEF Serving, Working
  <2> QED
    BY <1>2, <2>3, <2>4 DEF Goes
<1> QED
  BY <1>1, <1>2
\* What a step does to the actions a request has still to ask for, and to the
\* one it has asked for.
LEMMA ActsStep ==
  ASSUME TInv, NEW r \in Requests, Goes(r)
  PROVE  /\ \/ /\ AskResource(r) /\ tpc[r] = "work" /\ tpc'[r] = "wait" /\ remote'[r] = "running"
               /\ \E a \in job[r].acts : job'[r].acts = job[r].acts \ {a} /\ job'[r].act = a
            \/ /\ ~AskResource(r)
               /\ job'[r].acts = job[r].acts /\ job'[r].act = job[r].act
               /\ remote'[r] = "running" => remote[r] = "running"
         /\ tpc'[r] \in {"scan", "adopt"} =>
              \/ tpc[r] \in {"scan", "adopt"}
              \/ /\ ResourceDone(r) /\ tpc[r] = "work" /\ tpc'[r] = "scan"
                 /\ Op(r) \in {"create", "patch"} /\ job[r].acts = {}
<1>p. /\ job[r] \in Jobs /\ StageOK(r)
      /\ tpc \in [Requests -> TaskStages]
      /\ remote \in [Requests -> RemoteStages] /\ job \in [Requests -> Jobs]
  BY Parts DEF TypeOK
<1>1. CASE AskResource(r)
  <2>1. PICK a \in job[r].acts : job'[r] = [job[r] EXCEPT !.act = a, !.acts = @ \ {a}]
    BY <1>1, <1>p DEF AskResource, Holds
  <2>2. job'[r].acts = job[r].acts \ {a} /\ job'[r].act = a
    BY <1>p, <2>1 DEF Jobs
  <2> QED
    BY <1>1, <1>p, <2>2 DEF AskResource, TaskGoes, RemoteGoes
<1>2. CASE ResourceDone(r)
  <2> DEFINE d == IF Imports(r) THEN server[On(r)].disks ELSE job[r].todo
  <2>1. job'[r] = [job[r] EXCEPT !.todo = d] /\ UNCHANGED remote /\ tpc[r] = "work"
    BY <1>2, <1>p DEF ResourceDone, Holds, TaskGoes
  <2> HIDE DEF d
  <2>2. job'[r].acts = job[r].acts /\ job'[r].act = job[r].act
    BY <1>p, <2>1 DEF Jobs
  <2>3. /\ tpc'[r] # "adopt" /\ tpc'[r] # "wait"
        /\ tpc'[r] = "scan" => Imports(r)
    BY <1>2, <1>p DEF ResourceDone, TaskGoes
  <2>4. Imports(r) => job[r].acts = {} /\ Op(r) \in {"create", "patch"}
    BY <1>2 DEF ResourceDone, Imports
  <2>5. ~AskResource(r)
    BY <1>p, <2>3 DEF AskResource, TaskGoes
  <2> QED
    BY <1>2, <2>1, <2>2, <2>3, <2>4, <2>5
<1>3. CASE ~AskResource(r) /\ ~ResourceDone(r)
  <2>1. job'[r].acts = job[r].acts /\ job'[r].act = job[r].act
    <3>1. CASE Dispatch(r)
      <4>1. UNCHANGED job \/ job'[r] = [job[r] EXCEPT !.has = HasResource(r)]
        BY <3>1, <1>p DEF Dispatch, Holds
      <4> HIDE DEF HasResource
      <4> QED
        BY <1>p, <4>1 DEF Jobs
    <3>2. CASE PostDelete(r) \/ DropVolumeRow(r) \/ ScanVolume(r)
      BY <3>2, <1>p DEF PostDelete, DropVolumeRow, ScanVolume, Holds, Jobs
    <3>3. CASE Remote(r)
      BY <3>3 DEF Remote, RemoteCreates, RemoteDeletes, RemoteModifies, RemoteFails
    <3>4. CASE ~Remote(r) /\ ~Dispatch(r) /\ ~PostDelete(r) /\ ~DropVolumeRow(r) /\ ~ScanVolume(r)
      BY <1>3, <3>4
         DEF Goes, Serving, Working, ChangeDefinition, Begin, PostDeleteEnds, TaskStarts,
             AskResourceFails, RemoteAnswers, WaitFails, AdoptVolume, ImportEnds, Finish, TaskFails
    <3> QED
      BY <3>1, <3>2, <3>3, <3>4
  <2>2. CASE Working(r)
    BY <1>3, <1>p, <2>1, <2>2
       DEF Working, TaskStarts, AskResourceFails, RemoteAnswers, WaitFails, ScanVolume, AdoptVolume,
           ImportEnds, Finish, TaskFails, TaskGoes, RemoteGoes
  <2>3. CASE Serving(r)
    BY <1>3, <1>p, <2>1, <2>3
       DEF Serving, ChangeDefinition, Begin, Dispatch, PostDelete, DropVolumeRow, PostDeleteEnds,
           TaskGoes
  <2>4. CASE Remote(r)
    BY <1>3, <1>p, <2>1, <2>4
       DEF Remote, RemoteCreates, RemoteDeletes, RemoteModifies, RemoteFails, RemoteGoes
  <2> QED
    BY <2>2, <2>3, <2>4 DEF Goes
<1> QED
  BY <1>1, <1>2, <1>3

\* A request for one action on security groups has seen another one left, and
\* is alone to change them.
LEMMA OwnGroupsKnown ==
  ASSUME Batch = 1, ~Overlap, HInv, GroupsKnown, NEW r \in Requests, Asking(r) \/ Goes(r), Minds(r)'
  PROVE  KnowsGroups(r)'
<1>p. /\ TInv /\ JobOK(job[r]) /\ StageOK(r) /\ job[r] \in Jobs
      /\ tpc \in [Requests -> TaskStages]
      /\ remote \in [Requests -> RemoteStages] /\ job \in [Requests -> Jobs]
      /\ server \in [Instances -> Servers]
  BY Parts DEF HInv, TypeOK
<1>1. CASE Asking(r)
  <2>1. remote'[r] = "none" /\ UNCHANGED server
    BY <1>1, <1>p, WhatIsAsked
  <2>2. SUFFICES ASSUME Op(r)' \in {"groups", "set_both"} PROVE KnowsGroups(r)'
    BY DEF KnowsGroups
  <2>3. PICK i \in Instances : /\ On(r)' = i /\ job'[r].acts \in SUBSET GroupActions(i)
                               /\ Cardinality(job'[r].acts) <= 1
    BY <1>1, <1>p, <2>2, WhatIsAsked DEF GroupLists
  <2> DEFINE S == job'[r].acts
             G == server[i].groups
  <2> HIDE DEF S
  <2>4. G \in SUBSET Groups /\ IsFiniteSet(G)
    BY <1>p, ConstantsAssumption, FS_Subset DEF Servers
  <2>5. IsFiniteSet(S)
    <3>1. IsFiniteSet({"add_security_group", "del_security_group"})
      <4>1. IsFiniteSet({"add_security_group"} \cup {"del_security_group"})
        BY FS_Singleton, FS_AddElement
      <4> QED
        BY <4>1
    <3>2. IsFiniteSet({"add_security_group", "del_security_group"} \X Groups)
      BY <3>1, ConstantsAssumption, FS_Product
    <3>3. GroupActions(i) \subseteq {"add_security_group", "del_security_group"} \X Groups
      BY <2>4 DEF GroupActions, Action
    <3> QED
      BY <2>3, <3>2, <3>3, FS_Subset DEF S
  <2>6. \A a, b \in S : a = b
    <3>1. Cardinality(S) \in Nat /\ Cardinality(S) <= 1
      BY <2>3, <2>5, FS_CardinalityType DEF S
    <3>2. S = {} \/ \E x : S = {x}
      BY <2>5, <3>1, FS_EmptySet, FS_Singleton
    <3> QED
      BY <3>2
  <2>7. ASSUME NEW a \in S, a[1] = "del_security_group" PROVE G \ {a[2]} # {}
    <3>1. a \in GroupActions(i)
      BY <2>3 DEF S
    <3>2. a[2] \in G /\ Cardinality(G) # 1
      BY <2>7, <3>1 DEF GroupActions, Action
    <3>3. ~ \E x : G = {x}
      BY <2>4, <3>2, FS_Singleton
    <3> QED
      BY <3>2, <3>3
  <2> QED
    BY <2>1, <2>3, <2>6, <2>7 DEF KnowsGroups, Leaves, S
<1>2. CASE Goes(r)
  <2>1. /\ Op(r)' = Op(r) /\ On(r)' = On(r) /\ Row(r)' = Row(r) /\ Minds(r)
    BY <1>2, <1>p, OwnStep, FailedStays DEF Minds
  <2>2. SUFFICES ASSUME Op(r) \in {"groups", "set_both"} PROVE KnowsGroups(r)'
    BY <2>1 DEF KnowsGroups
  <2>3. KnowsGroups(r)
    BY <2>1 DEF GroupsKnown
  <2>4. CASE Remote(r)
    <3>1. UNCHANGED job /\ remote[r] = "running" /\ remote'[r] \in {"success", "failure"}
      BY <1>p, <2>1, <2>4, ServerStep DEF Minds
    <3> QED
      BY <2>1, <2>2, <2>3, <3>1 DEF KnowsGroups
  <2>5. CASE Serving(r) \/ Working(r)
    <3>1. server' = server
      BY <1>p, <2>5, ServerKept
    <3>2. CASE AskResource(r)
      <4>2. PICK a \in job[r].acts : job'[r].acts = job[r].acts \ {a} /\ job'[r].act = a
        BY <1>2, <1>p, <3>2, ActsStep
      <4>3. job'[r].acts = {} /\ Leaves(On(r), a)
        BY <2>2, <2>3, <4>2 DEF KnowsGroups
      <4> QED
        BY <2>1, <3>1, <4>2, <4>3 DEF KnowsGroups, Leaves
    <3>3. CASE ~AskResource(r)
      <4>1. /\ job'[r].acts = job[r].acts /\ job'[r].act = job[r].act
            /\ remote'[r] = "running" => remote[r] = "running"
        BY <1>2, <1>p, <3>3, ActsStep
      <4> QED
        BY <2>1, <2>3, <3>1, <4>1 DEF KnowsGroups, Leaves
    <3> QED
      BY <3>2, <3>3
  <2> QED
    BY <1>2, <2>4, <2>5 DEF Goes
<1> QED
  BY <1>1, <1>2

\* What requests know lasts.
LEMMA TypesStayKnown ==
  ASSUME ~Overlap, HInv, TypesKnown, NEW r \in Requests, Asking(r) \/ Goes(r)
  PROVE  TypesKnown'
<1> SUFFICES ASSUME NEW q \in Requests, Minds(q)' PROVE KnowsType(q)'
  BY DEF TypesKnown
<1>1. CASE q = r
  BY <1>1, OwnTypeKnown
<1>2. CASE q # r
  <2>1. KnowsType(q)
    BY <1>2, OthersMind DEF TypesKnown
  <2>2. About(q)' = About(q)
    BY <1>2, OthersMind DEF About
  <2> QED
    BY <1>2, <2>1, <2>2, OthersMind DEF KnowsType, NewType
<1> QED
  BY <1>1, <1>2

LEMMA GroupsStayKnown ==
  ASSUME Batch = 1, ~Overlap, HInv, GroupsKnown, NEW r \in Requests, Asking(r) \/ Goes(r)
  PROVE  GroupsKnown'
<1> SUFFICES ASSUME NEW q \in Requests, Minds(q)' PROVE KnowsGroups(q)'
  BY DEF GroupsKnown
<1>1. CASE q = r
  BY <1>1, OwnGroupsKnown
<1>2. CASE q # r
  <2>1. KnowsGroups(q)
    BY <1>2, OthersMind DEF GroupsKnown
  <2> QED
    BY <1>2, <2>1, OthersMind DEF KnowsGroups, Leaves
<1> QED
  BY <1>1, <1>2

\* The resource service changes a server that no task failed about only for a
\* request that minds it.
LEMMA ServesMinded ==
  ASSUME TInv, NEW r \in Requests, Remote(r), Row(r) \in Instances, ~FailedOn(Row(r))
  PROVE  Minds(r)
<1>2. tpc[r] \in {"wait", "failing", "failed"}
  <2>1. remote[r] = "running"
    BY ServerStep, ConstantsAssumption
  <2> QED
    BY <2>1, Parts DEF StageOK
<1>3. ~Failed(r)
  BY DEF FailedOn
<1>4. Holding(r)
  BY <1>2, <1>3 DEF Failed, Holding
<1> QED
  BY <1>4 DEF Minds

LEMMA GroupStays ==
  ASSUME HInv, GroupsKnown, KeepsGroup, NEW r \in Requests, Asking(r) \/ Goes(r)
  PROVE  KeepsGroup'
<1>p. TInv
  BY DEF HInv
<1> SUFFICES ASSUME NEW i \in Instances, server'[i].up, ~FailedOn(i)' PROVE server'[i].groups # {}
  BY DEF KeepsGroup
<1>0. ~FailedOn(i)
  BY <1>p, FailedStays
<1>1. CASE Remote(r)
  <2>1. CASE server'[i].up = server[i].up /\ server'[i].groups = server[i].groups
    BY <1>0, <2>1 DEF KeepsGroup
  <2>2. CASE Row(r) = i /\ On(r) = i /\ remote[r] = "running"
    <3>1. Minds(r)
      BY <1>p, <1>0, <1>1, <2>2, ServesMinded
    <3>2. Op(r) \in {"groups", "set_both"} => Leaves(i, job[r].act)
      BY <2>2, <3>1 DEF GroupsKnown, KnowsGroups
    <3>3. CASE server'[i] \in {NewServer(i, About(r)), NoServer}
      BY <3>3 DEF NewServer, NoServer
    <3>4. CASE server'[i].up = server[i].up /\ server'[i].groups = server[i].groups
      BY <1>0, <3>4 DEF KeepsGroup
    <3>5. CASE /\ Op(r) \in {"groups", "set_both"} /\ Act(r) = "del_security_group"
               /\ server'[i].groups = server[i].groups \ {About(r)}
      BY <3>2, <3>5 DEF Leaves, Act, About
    <3>6. CASE server'[i].groups # {}
      BY <3>6
    <3> QED
      BY <1>p, <1>1, <3>3, <3>4, <3>5, <3>6, ServerStep
  <2> QED
    BY <1>p, <1>1, <2>1, <2>2, ServerStep
<1>2. CASE ~Remote(r)
  <2>1. UNCHANGED server
    BY <1>p, <1>2, WhatIsAsked, ServerKept DEF Goes
  <2> QED
    BY <1>0, <2>1 DEF KeepsGroup
<1> QED
  BY <1>1, <1>2
\* The condition of TypeKept on the request that wrote the definition last.
Through(i) == setter[i] \in Requests => Op(setter[i]) = "set_type" /\ tpc[setter[i]] = "ended"

LEMMA TypeStays ==
  ASSUME HInv, TypesKnown, TypeKept, NEW r \in Requests, Asking(r) \/ Goes(r)
  PROVE  TypeKept'
<1>p. TInv /\ RowsBegun /\ JobOK(job[r]) /\ StageOK(r) /\ type \in [Instances -> Types]
      /\ setter \in Setters
  BY Parts DEF HInv
<1> SUFFICES ASSUME NEW i \in Instances, server'[i].up, ~FailedOn(i)', Through(i)'
             PROVE  server'[i].type = type'[i]
  BY DEF TypeKept, Through
<1>0. ~FailedOn(i)
  BY <1>p, FailedStays
<1>o. \A q \in Requests \ {r} : /\ Row(q)' = Row(q) /\ Op(q)' = Op(q) /\ tpc'[q] = tpc[q]
  BY <1>p, OthersKeep
<1>k. server[i].up /\ Through(i) => server[i].type = type[i]
  BY <1>0 DEF TypeKept, Through
<1>1. CASE Asking(r)
  <2>1. rpc[r] = "idle" /\ UNCHANGED <<server, setter>>
    BY <1>1, <1>p, WhatIsAsked
  <2>2. setter[i] # r
    BY <1>p, <2>1 DEF RowsBegun
  <2>3. server[i].type = type[i]
    BY <1>k, <1>o, <2>1, <2>2 DEF Through
  <2>4. type'[i] = type[i]
    <3>1. row[i].state # "absent"
      BY <1>p, <2>1 DEF RowsBegun
    <3> QED
      BY <1>1, <1>p, <3>1, WhatIsAsked
  <2> QED
    BY <2>1, <2>3, <2>4
<1>2. CASE Goes(r)
  <2>1. Op(r)' = Op(r) /\ Row(r)' = Row(r)
    BY <1>2, <1>p, OwnStep
  <2>s. ~ChangeDefinition(r) => setter' = setter
    BY <1>2, <1>p, SetterStep DEF Goes
  <2>c. ChangeDefinition(r) => On(r) # i
    <3> SUFFICES ASSUME ChangeDefinition(r), On(r) = i PROVE FALSE
      OBVIOUS
    <3>1. setter'[i] = r /\ tpc'[r] = "none"
      BY <1>p DEF ChangeDefinition, Setters, StageOK
    <3> QED
      BY <3>1 DEF Through
  <2>i. setter'[i] = setter[i]
    BY <1>p, <2>s, <2>c DEF ChangeDefinition, Setters
  <2>2. CASE setter[i] = r /\ tpc[r] # "ended"
    <3>1. tpc'[r] = "ended" /\ Op(r) = "set_type"
      BY <2>1, <2>2, <2>i DEF Through
    <3>2. Finish(r)
      <4>1. TypeOK
        BY <1>p DEF TInv
      <4>2. tpc'[r] # tpc[r] /\ tpc \in [Requests -> TaskStages]
        BY <2>2, <3>1, <4>1 DEF TypeOK
      <4> QED
        BY <1>2, <3>1, <4>2
           DEF Goes, Serving, Working, Remote, RemoteCreates, RemoteDeletes, RemoteModifies, RemoteFails,
               ChangeDefinition, Begin, Dispatch, PostDelete, DropVolumeRow, PostDeleteEnds, TaskStarts,
               AskResource, AskResourceFails, RemoteAnswers, WaitFails, ResourceDone, ScanVolume,
               AdoptVolume, ImportEnds, TaskFails, TaskGoes
    <3>3. tpc[r] = "finish" /\ remote[r] = "none" /\ UNCHANGED <<type, server>>
      BY <3>2, <1>p DEF Finish, StageOK, resources
    <3>5. On(r) = i /\ Row(r) = i
      BY <1>p, <2>2, <3>1 DEF RowsBegun, JobOK, Op, Row, On
    <3>4. Minds(r)
      BY <1>0, <3>3, <3>5 DEF Minds, Holding
    <3> QED
      BY <3>1, <3>3, <3>4, <3>5 DEF TypesKnown, KnowsType
  <2>3. CASE ~(setter[i] = r /\ tpc[r] # "ended")
    <3>0. Through(i)
      BY <1>o, <2>1, <2>3, <2>i DEF Through
    <3>1. server[i].up => server[i].type = type[i]
      BY <1>k, <3>0
    <3>2. CASE Remote(r)
      <4>0. type' = type
        BY <1>p, <3>2, ServerStep
      <4>1. CASE server'[i].up = server[i].up /\ server'[i].type = server[i].type
        BY <3>1, <4>0, <4>1
      <4>2. CASE Row(r) = i /\ On(r) = i /\ Op(r) = "create" /\ server'[i] = NewServer(i, About(r))
                 /\ remote[r] = "running"
        <5>1. Minds(r)
          BY <1>p, <1>0, <3>2, <4>2, ServesMinded
        <5>2. About(r) = type[i]
          BY <4>2, <5>1 DEF TypesKnown, KnowsType
        <5> QED
          BY <4>0, <4>2, <5>2 DEF NewServer
      <4>3. CASE server'[i] = NoServer
        BY <4>3 DEF NoServer
      <4>4. CASE Row(r) = i /\ On(r) = i /\ Op(r) = "set_type" /\ remote[r] = "running"
        <5>1. Minds(r)
          BY <1>p, <1>0, <3>2, <4>4, ServesMinded
        <5>2. rpc[r] # "checked" /\ tpc[r] # "ended"
          BY <1>p, <4>4 DEF StageOK
        <5>3. setter[i] = r
          BY <4>4, <5>1, <5>2 DEF TypesKnown, KnowsType
        <5> QED
          BY <2>3, <5>2, <5>3
      <4> QED
        BY <1>p, <3>2, <4>1, <4>2, <4>3, <4>4, ServerStep
    <3>3. CASE ChangeDefinition(r)
      BY <1>p, <2>c, <3>1, <3>3, ServerKept DEF ChangeDefinition, resources
    <3>4. CASE ~Remote(r) /\ ~ChangeDefinition(r)
      <4>1. UNCHANGED server
        BY <1>2, <1>p, <3>4, ServerKept DEF Goes
      <4>2. UNCHANGED type
        BY <1>2, <3>4
           DEF Goes, Serving, Working, Begin, Dispatch, PostDelete, DropVolumeRow, PostDeleteEnds,
               TaskStarts, AskResource, AskResourceFails, RemoteAnswers, WaitFails, ResourceDone,
               ScanVolume, AdoptVolume, ImportEnds, Finish, TaskFails, rows
      <4> QED
        BY <3>1, <4>1, <4>2
    <3> QED
      BY <3>2, <3>3, <3>4
  <2> QED
    BY <2>2, <2>3
<1> QED
  BY <1>1, <1>2

LEMMA InitHInv ==
  ASSUME Init
  PROVE  /\ HInv /\ TypesKnown /\ GroupsKnown /\ TypeKept /\ KeepsGroup
<1>1. TInv
  BY InitTyped
<1>2. \A r \in Requests : rpc[r] = "idle" /\ tpc[r] = "none" /\ Op(r) = "patch"
  BY DEF Init, Job, Op
<1>3. \A r \in Requests : ~Holding(r) /\ ~Reading(r)
  BY <1>2 DEF Holding, Reading
<1>4. RowsBegun
  <2>3. \A i \in Instances : setter[i] \notin Requests
    BY ConstantsAssumption DEF Init
  <2> SUFFICES ASSUME NEW i \in Instances, row[i].state = "absent"
               PROVE  row[i].status = "DRAFT" /\ ~server[i].up
    BY <1>2, <2>3 DEF RowsBegun
  <2>1. i \in Rows
    BY DEF Rows
  <2>2. i \notin Existing /\ row[i].status = "DRAFT"
    BY <2>1 DEF Init
  <2> QED
    BY <2>2 DEF Init, NoServer
<1>5. TypesKnown /\ GroupsKnown /\ OneHolder
  BY <1>3 DEF TypesKnown, GroupsKnown, OneHolder, Minds
<1>6. TypeKept /\ KeepsGroup
  BY DEF Init, TypeKept, KeepsGroup, NewServer, NoServer
<1> QED
  BY <1>1, <1>4, <1>5, <1>6 DEF HInv

\* When nothing happens, nothing is forgotten.
LEMMA Stutters ==
  ASSUME UNCHANGED vars
  PROVE  /\ HInv => HInv'
         /\ TypesKnown => TypesKnown'
         /\ GroupsKnown => GroupsKnown'
         /\ TypeKept => TypeKept'
         /\ KeepsGroup => KeepsGroup'
<1>1. HInv => TInv'
  BY NextTyped DEF HInv
<1>2. /\ RowsBegun => RowsBegun'
      /\ OneHolder => OneHolder'
  BY DEF vars, RowsBegun, OneHolder, FailedOn, Failed, Holding, Reading, Op, Row, On
<1>3. \A r \in Requests : Minds(r)' = Minds(r) /\ KnowsType(r)' = KnowsType(r)
                          /\ KnowsGroups(r)' = KnowsGroups(r)
  BY DEF vars, Minds, FailedOn, Failed, Holding, Reading, KnowsType, NewType, KnowsGroups, Leaves,
         About, Op, Row, On
<1>4. /\ TypeKept => TypeKept'
      /\ KeepsGroup => KeepsGroup'
  BY DEF vars, TypeKept, KeepsGroup, FailedOn, Failed, Op, Row
<1> QED
  BY <1>1, <1>2, <1>3, <1>4 DEF HInv, TypesKnown, GroupsKnown

LEMMA HInvStep ==
  ~Overlap => (HInv /\ [Next]_vars => HInv')
<1> SUFFICES ASSUME ~Overlap, HInv, [Next]_vars PROVE HInv'
  OBVIOUS
<1>1. CASE UNCHANGED vars
  BY <1>1, Stutters
<1>2. CASE Next
  <2>1. PICK r \in Requests : Asking(r) \/ Goes(r)
    BY <1>2 DEF Next, Goes
  <2>2. TInv'
    BY NextTyped DEF HInv
  <2> QED
    BY <2>1, <2>2, BegunStays, HoldersStay DEF HInv
<1> QED
  BY <1>1, <1>2

\* A server keeps a security group when requests do not read while another one
\* has still to write, and each asks for one action: until a task about its
\* instance fails, the status of the row keeps all others away from what
\* change_security_group has seen.
THEOREM GroupIsKept == ~Overlap /\ Batch = 1 => (Spec => []KeepsGroup)
<1> SUFFICES ASSUME ~Overlap, Batch = 1 PROVE Spec => []KeepsGroup
  OBVIOUS
<1> DEFINE GInv == HInv /\ GroupsKnown /\ KeepsGroup
<1>1. Init => GInv
  BY InitHInv
<1>2. GInv /\ [Next]_vars => GInv'
  <2> SUFFICES ASSUME GInv, [Next]_vars PROVE GInv'
    OBVIOUS
  <2>1. CASE UNCHANGED vars
    BY <2>1, Stutters
  <2>2. CASE Next
    <3>1. PICK r \in Requests : Asking(r) \/ Goes(r)
      BY <2>2 DEF Next, Goes
    <3>2. HInv'
      BY HInvStep
    <3> QED
      BY <3>1, <3>2, GroupsStayKnown, GroupStays
  <2> QED
    BY <2>1, <2>2
<1>3. GInv => KeepsGroup
  OBVIOUS
<1> QED
  BY <1>1, <1>2, <1>3, PTL DEF Spec

\* The definition written before the server changes is the one the server has
\* when the last request that wrote it has gone through, whatever the earlier ones
\* left, for requests that do not read while another one has still to write. A
\* request with other attributes beside the type is excepted: see FlavorAgrees.
THEOREM FlavorIsAgreed == ~Overlap => (Spec => []FlavorAgrees)
<1> SUFFICES ASSUME ~Overlap PROVE Spec => []FlavorAgrees
  OBVIOUS
<1> DEFINE FInv == HInv /\ TypesKnown /\ TypeKept
<1>1. Init => FInv
  BY InitHInv
<1>2. FInv /\ [Next]_vars => FInv'
  <2> SUFFICES ASSUME FInv, [Next]_vars PROVE FInv'
    OBVIOUS
  <2>1. CASE UNCHANGED vars
    BY <2>1, Stutters
  <2>2. CASE Next
    <3>1. PICK r \in Requests : Asking(r) \/ Goes(r)
      BY <2>2 DEF Next, Goes
    <3>2. HInv'
      BY HInvStep
    <3> QED
      BY <3>1, <3>2, TypesStayKnown, TypeStays
  <2> QED
    BY <2>1, <2>2
<1>3. FInv => FlavorAgrees
  BY DEF TypeKept, FlavorAgrees
<1> QED
  BY <1>1, <1>2, <1>3, PTL DEF Spec
----------------------------------------------------------------------------
(* Volumes. The row of a disk keeps its requests apart as that of an instance *)
(* does, as long as it is the only one. It is until one is deleted: a disk    *)
(* without a row is still on the server it was made with, so that only one    *)
(* request can import it.                                                     *)

Begun(r) == rpc[r] # "idle"

\* Something is still to be asked for, or to be done by the resource service.
Asked(r) == job[r].acts # {} \/ remote[r] = "running"

AboutVolume(r) == Op(r) \in {"attach", "detach", "delete_volume"}

\* The row and the actions of a request are those of its operation.
Fit(r) ==
  /\ AboutVolume(r) =>
       /\ Row(r) \in VolumeRows
       /\ \A a \in job[r].acts : a[2] = Row(r)[1]
       /\ remote[r] = "running" => About(r) = Row(r)[1]
  /\ ~AboutVolume(r) => Row(r) = On(r)
  /\ Op(r) \notin {"groups", "set_both"} => /\ \A a, b \in job[r].acts : a = b
                                            /\ remote[r] = "running" => job[r].acts = {}
  /\ tpc[r] \in {"scan", "adopt"} => job[r].acts = {} /\ Op(r) \in {"create", "patch"}
  /\ rpc[r] \in {"post", "drop"} => Op(r) = "delete"

JobsFit ==
  /\ \A r \in Requests : Begun(r) => Fit(r)
  /\ \A q, r \in Requests :
       /\ Begun(q) /\ Begun(r) /\ On(q) = On(r)
       /\ Op(q) = "create" /\ Op(r) = "create"
       => q = r

\* A disk that never had a row.
Unrowed(d) == \A x \in {d} \X Copies : row[x].state = "absent"

\* The server of i has still to be made.
ToCreate(i) ==
  \/ row[i].state = "absent"
  \/ \E r \in Requests : Begun(r) /\ Op(r) = "create" /\ On(r) = i /\ Asked(r)

\* A disk has no row before its server is made, and is with it until it has one.
DisksFirst ==
  /\ \A i \in Instances :
       ToCreate(i) => Unrowed(Boot[i]) /\ \A j \in Instances : Boot[i] \notin server[j].disks
  /\ \A i \in Instances : \A d \in server[i].disks : Unrowed(d) => Boot[i] = d

InHand(r) == IF tpc[r] = "adopt" THEN job[r].todo \cup {job[r].disk} ELSE job[r].todo

\* What a task imports is on its server, if it is new.
ImportsOwn ==
  \A r \in Requests : tpc[r] \in {"scan", "adopt"} =>
    /\ \A d \in InHand(r) : Unrowed(d) => d \in server[On(r)].disks
    /\ tpc[r] = "adopt" => Unrowed(job[r].disk) \/ Dropped(job[r].disk)

OneRow ==
  \A d \in Disks : ~Dropped(d) =>
    \A x, y \in {d} \X Copies : row[x].state # "absent" /\ row[y].state # "absent" => x = y

\* A disk that is to be attached or deleted stays free.
WantsFree ==
  \A r \in Requests :
    /\ Begun(r) /\ Op(r) \in {"attach", "delete_volume"}
    /\ Holding(r) /\ Asked(r) /\ ~Dropped(Row(r)[1])
    => ~IsAttached(Row(r)[1])

VInv == /\ HInv /\ JobsFit
        /\ NoneFailed => DisksFirst /\ ImportsOwn /\ OneRow /\ WantsFree

\* What a client asks fits its operation, and a disk to be attached or deleted
\* is free.
LEMMA FitAsked ==
  ASSUME TInv, NEW r \in Requests, Asking(r)
  PROVE  /\ Fit(r)'
         /\ Op(r)' \in {"attach", "delete_volume"} => ~IsAttached(Row(r)'[1])
<1>p. /\ job \in [Requests -> Jobs] /\ StageOK(r)
  BY Parts DEF TypeOK
<1>n. tpc'[r] = "none" /\ remote'[r] = "none" /\ rpc'[r] \in {"checked", "dispatch"}
  BY WhatIsAsked
<1>j. ASSUME NEW op, NEW x, NEW i, NEW t, NEW acts, job' = [job EXCEPT ![r] = Job(op, x, i, t, acts)]
      PROVE  Op(r)' = op /\ Row(r)' = x /\ On(r)' = i /\ job'[r].acts = acts
  <2>1. job'[r] = Job(op, x, i, t, acts)
    BY <1>p, <1>j
  <2> QED
    BY <2>1 DEF Job, Op, Row, On
<1>a. ASSUME NEW op, NEW x, NEW i, NEW t, NEW acts, Asks(r, Job(op, x, i, t, acts))
      PROVE  Op(r)' = op /\ Row(r)' = x /\ On(r)' = i /\ job'[r].acts = acts
  BY <1>a, <1>j DEF Asks, Holds
<1>1. ASSUME NEW i \in Instances,
             \/ CreateInstance(r, i) \/ DeleteInstance(r, i) \/ PatchInstance(r, i)
             \/ SetInstanceType(r, i)
      PROVE  /\ Op(r)' \in {"create", "delete", "patch", "set_type", "set_both"}
             /\ Row(r)' = On(r)'
             /\ Op(r)' # "set_both" => \A a, b \in job'[r].acts : a = b
  <2>1. CASE CreateInstance(r, i)
    <3>1. PICK t \in Types : job' = [job EXCEPT ![r] = Job("create", i, i, t, {Action("create", t)})]
      BY <2>1 DEF CreateInstance, Holds
    <3>2. Op(r)' = "create" /\ Row(r)' = i /\ On(r)' = i /\ job'[r].acts = {Action("create", t)}
      BY <1>j, <3>1
    <3> QED
      BY <3>2
  <2>2. CASE DeleteInstance(r, i)
    BY <1>a, <2>2 DEF DeleteInstance
  <2>3. CASE PatchInstance(r, i)
    BY <1>a, <2>3 DEF PatchInstance
  <2>4. CASE SetInstanceType(r, i)
    <3>1. PICK t \in Types : \E jb \in TypeRequests(i, t) : Asks(r, jb)
      BY <2>4 DEF SetInstanceType
    <3>2. CASE Asks(r, Job("set_type", i, i, t, {Action("set_flavor", t)}))
      BY <1>a, <3>2
    <3>3. CASE \E acts \in GroupLists(i) : Asks(r, Job("set_both", i, i, t, acts))
      BY <1>a, <3>3
    <3> QED
      BY <3>1, <3>2, <3>3 DEF TypeRequests
  <2> QED
    BY <1>1, <2>1, <2>2, <2>3, <2>4
<1>2. ASSUME NEW i \in Instances, ChangeSecurityGroups(r, i)
      PROVE  Op(r)' = "groups" /\ Row(r)' = On(r)'
  BY <1>2, <1>a DEF ChangeSecurityGroups
<1>3. ASSUME NEW x \in VolumeRows, NEW i \in Instances,
             Attach(r, i, x) \/ Detach(r, i, x) \/ DeleteVolume(r, x)
      PROVE  /\ Op(r)' \in {"attach", "detach", "delete_volume"} /\ Row(r)' = x
             /\ \A a, b \in job'[r].acts : a = b
             /\ \A a \in job'[r].acts : a[2] = x[1]
             /\ Op(r)' # "detach" => ~IsAttached(x[1])
  <2>1. CASE Attach(r, i, x)
    BY <1>a, <2>1 DEF Attach, Action
  <2>2. CASE Detach(r, i, x)
    BY <1>a, <2>2 DEF Detach, Action
  <2>3. CASE DeleteVolume(r, x)
    BY <1>a, <2>3 DEF DeleteVolume, Action
  <2> QED
    BY <1>3, <2>1, <2>2, <2>3
<1>4. CASE \E i \in Instances :
             \/ CreateInstance(r, i) \/ DeleteInstance(r, i) \/ PatchInstance(r, i)
             \/ SetInstanceType(r, i)
  BY <1>1, <1>4, <1>n DEF Fit, AboutVolume
<1>5. CASE \E i \in Instances : ChangeSecurityGroups(r, i)
  BY <1>2, <1>5, <1>n DEF Fit, AboutVolume
<1>6. CASE \E x \in VolumeRows, i \in Instances :
              Attach(r, i, x) \/ Detach(r, i, x) \/ DeleteVolume(r, x)
  BY <1>3, <1>6, <1>n DEF Fit, AboutVolume
<1> QED
  BY <1>4, <1>5, <1>6, AnyOnes DEF Asking

LEMMA FitStays ==
  ASSUME HInv, JobsFit, NEW r \in Requests, Asking(r) \/ Goes(r)
  PROVE  JobsFit'
<1>p. TInv /\ RowsBegun
  BY DEF HInv
<1>o. \A q \in Requests \ {r} :
        /\ rpc'[q] = rpc[q] /\ tpc'[q] = tpc[q] /\ remote'[q] = remote[q] /\ job'[q] = job[q]
        /\ Op(q)' = Op(q) /\ Row(q)' = Row(q) /\ On(q)' = On(q)
  BY <1>p, OthersKeep
<1>1. ASSUME NEW q \in Requests, q # r, Begun(q)' PROVE Fit(q)'
  <2>1. Fit(q)
    BY <1>o, <1>1 DEF JobsFit, Begun
  <2> QED
    BY <1>o, <1>1, <2>1 DEF Fit, AboutVolume, About
<1>2. CASE Asking(r)
  <2>1. Fit(r)'
    BY <1>2, <1>p, FitAsked
  <2>2. ASSUME NEW q \in Requests, q # r, Begun(q), Op(q) = "create", Op(r)' = "create"
        PROVE  On(q) # On(r)'
    <3>1. row[Row(q)].state # "absent" /\ Row(q) = On(q)
      BY <1>p, <2>2 DEF RowsBegun, Begun, JobsFit, Fit, AboutVolume
    <3>2. row[On(r)'].state = "absent"
      BY <1>2, <1>p, <2>2, WhatIsAsked
    <3> QED
      BY <3>1, <3>2
  <2> QED
    BY <1>o, <1>1, <2>1, <2>2 DEF JobsFit, Begun
<1>3. CASE Goes(r)
  <2>1. /\ Op(r)' = Op(r) /\ Row(r)' = Row(r) /\ On(r)' = On(r) /\ Begun(r)
    BY <1>3, <1>p, OwnStep DEF Begun
  <2>2. Fit(r)
    BY <2>1 DEF JobsFit
  <2>p. rpc'[r] \in {"post", "drop"} => rpc[r] \in {"post", "drop"} \/ Op(r) = "delete"
    <3>1. rpc \in [Requests -> RequestStages]
      BY <1>p, Parts DEF TypeOK, TInv
    <3> QED
      BY <1>3, <3>1
         DEF Goes, Serving, Remote, Working, ChangeDefinition, Begin, Dispatch, PostDelete,
             DropVolumeRow, PostDeleteEnds, RemoteCreates, RemoteDeletes, RemoteModifies,
             RemoteFails, TaskStarts, AskResource, AskResourceFails, RemoteAnswers, WaitFails,
             ResourceDone, ScanVolume, AdoptVolume, ImportEnds, Finish, TaskFails, RequestGoes
  <2>3. Fit(r)'
    <3>1. CASE AskResource(r)
      <4>1. /\ tpc'[r] = "wait"
            /\ \E a \in job[r].acts : job'[r].acts = job[r].acts \ {a} /\ job'[r].act = a
        BY <1>3, <1>p, <3>1, ActsStep
      <4> QED
        BY <2>1, <2>2, <2>p, <4>1 DEF Fit, AboutVolume, About
    <3>2. CASE ~AskResource(r)
      <4>1. /\ job'[r].acts = job[r].acts /\ job'[r].act = job[r].act
            /\ remote'[r] = "running" => remote[r] = "running"
            /\ tpc'[r] \in {"scan", "adopt"} =>
                 \/ tpc[r] \in {"scan", "adopt"}
                 \/ Op(r) \in {"create", "patch"} /\ job[r].acts = {}
        BY <1>3, <1>p, <3>2, ActsStep
      <4> QED
        BY <2>1, <2>2, <2>p, <4>1 DEF Fit, AboutVolume, About
    <3> QED
      BY <3>1, <3>2
  <2>4. \A q \in Requests : (Begun(q)' => Begun(q)) /\ Op(q)' = Op(q) /\ On(q)' = On(q)
    BY <1>o, <2>1 DEF Begun
  <2> QED
    BY <1>1, <2>3, <2>4 DEF JobsFit
<1> QED
  BY <1>2, <1>3

\* A row of a disk comes only where a task imports the disk, one at a time, and
\* goes for good.
LEMMA VolumeRowStep ==
  ASSUME TInv, NEW r \in Requests, Asking(r) \/ Goes(r), NEW x \in VolumeRows
  PROVE  /\ row[x].state # "absent" => row'[x].state # "absent"
         /\ row[x].state = "deleted" => row'[x].state = "deleted"
         /\ row[x].state = "absent" /\ row'[x].state # "absent" =>
              /\ AdoptVolume(r) /\ x[1] = job[r].disk
              /\ \A y \in VolumeRows \ {x} : row'[y] = row[y]
<1>p. /\ row \in [Rows -> Rec] /\ job[r] \in Jobs
      /\ \A y \in VolumeRows : y \in Rows /\ y \notin Instances
  BY Parts, ConstantsAssumption DEF Rows, VolumeRows
<1>1. CASE Asking(r)
  BY <1>1, <1>p, WhatIsAsked
<1>2. CASE Goes(r)
  <2>1. /\ row[x].state # "absent" => row'[x].state # "absent"
        /\ row[x].state = "deleted" => row'[x].state = "deleted"
    BY <1>2, <1>p, RowStep DEF NewVolume
  <2>2. CASE AdoptVolume(r)
    <3>1. PICK k \in Copies :
            /\ row[<<job[r].disk, k>>].state = "absent"
            /\ row' = [row EXCEPT ![<<job[r].disk, k>>] =
                         [state |-> "present", status |-> "ACTIVE"]]
      BY <2>2 DEF AdoptVolume
    <3> QED
      BY <1>p, <2>1, <2>2, <3>1
  <2>3. CASE DropVolumeRow(r)
    <3>1. PICK d \in job[r].todo :
            \/ UNCHANGED row
            \/ \E y \in Newest(d) : row' = [row EXCEPT ![y].state = "deleted"]
      BY <2>3 DEF DropVolumeRow
    <3>2. \A y \in Newest(d) : row[y].state = "present"
      BY DEF Newest, RowsOf, Visible
    <3> QED
      BY <1>p, <2>1, <3>1, <3>2
  <2>4. CASE Finish(r)
    <3>1. CASE UNCHANGED row \/ WithStatus(Row(r), "ACTIVE")
      BY <1>p, <2>1, <3>1 DEF WithStatus, Rec
    <3>2. CASE Visible(Row(r)) /\ row' = [row EXCEPT ![Row(r)].state = "deleted"]
      BY <1>p, <2>1, <3>2 DEF Visible
    <3> QED
      BY <2>4, <3>1, <3>2 DEF Finish
  <2>5. CASE ~AdoptVolume(r) /\ ~DropVolumeRow(r) /\ ~Finish(r)
    <3>1. row'[x].state = row[x].state
      <4>1. CASE Remote(r) \/ ChangeDefinition(r) \/ Begin(r) \/ Dispatch(r) \/ PostDelete(r)
                 \/ PostDeleteEnds(r)
        BY <1>p, <4>1
           DEF Remote, RemoteCreates, RemoteDeletes, RemoteModifies, RemoteFails, ChangeDefinition,
               Begin, Dispatch, PostDelete, PostDeleteEnds, WithStatus, rows, Rec
      <4>2. CASE Working(r)
        <5>1. UNCHANGED row \/ \E t : row' = [row EXCEPT ![Row(r)].status = t]
          BY <2>5, <4>2
             DEF Working, TaskStarts, AskResource, AskResourceFails, RemoteAnswers, WaitFails,
                 ResourceDone, ScanVolume, ImportEnds, TaskFails, WithStatus, rows
        <5> QED
          BY <1>p, <5>1 DEF Rec
      <4> QED
        BY <1>2, <2>5, <4>1, <4>2 DEF Goes, Serving
    <3> QED
      BY <2>1, <3>1
  <2> QED
    BY <2>2, <2>3, <2>4, <2>5
<1> QED
  BY <1>1, <1>2

\* The same of all rows of a disk.
LEMMA DiskRowsStep ==
  ASSUME TInv, NEW r \in Requests, Asking(r) \/ Goes(r), NEW d \in Disks
  PROVE  /\ Dropped(d) => Dropped(d)'
         /\ Unrowed(d)' => Unrowed(d)
         /\ Unrowed(d) /\ ~Unrowed(d)' => AdoptVolume(r) /\ job[r].disk = d
<1>1. \A x \in {d} \X Copies : x \in VolumeRows /\ x[1] = d
  BY DEF VolumeRows
<1> QED
  BY <1>1, VolumeRowStep DEF Dropped, Unrowed

\* What the resource service does to the disks of servers.
LEMMA DiskStep ==
  ASSUME HInv, JobsFit, NEW r \in Requests, Remote(r)
  PROVE  /\ Begun(r) /\ remote[r] = "running" /\ remote'[r] # "running"
         /\ UNCHANGED <<row, tpc, rpc, job>>
         /\ \A i \in Instances : \A d \in server'[i].disks \ server[i].disks :
              \/ Op(r) = "create" /\ On(r) = i /\ d = Boot[i]
              \/ Op(r) = "attach" /\ d = Row(r)[1]
         /\ \A i \in Instances : \A d \in server[i].disks \ server'[i].disks :
              \/ Op(r) \in {"create", "delete"} /\ Row(r) = i
              \/ AboutVolume(r) /\ d = Row(r)[1]
         /\ \A d \in disks' \ disks : Op(r) = "create" /\ d = Boot[On(r)]
<1>p. TInv /\ On(r) \in Instances /\ server \in [Instances -> Servers]
  BY Parts DEF HInv
<1>1. Begun(r) /\ Fit(r)
  BY <1>p, OwnStep DEF Begun, JobsFit, Goes
<1>2. /\ remote[r] = "running" /\ remote'[r] # "running" /\ UNCHANGED <<row, tpc, rpc, job>>
  BY <1>p, ServerStep
<1>3. /\ Act(r) = "create" => Op(r) = "create"
      /\ Act(r) = "delete" => Op(r) = "delete"
      /\ Act(r) = "add_volume" => Op(r) = "attach"
      /\ Act(r) \in {"delete_disk", "del_volume"} => AboutVolume(r)
      /\ Act(r) \in ActionNames
  BY <1>2, <1>p, Parts DEF RunningOK, ActionOK, Act, AboutVolume
<1>4. /\ AboutVolume(r) => About(r) = Row(r)[1]
      /\ Op(r) \in {"create", "delete"} => Row(r) = On(r)
      /\ Op(r) = "attach" => AboutVolume(r)
  BY <1>1, <1>2 DEF Fit, AboutVolume
<1>5. CASE RemoteCreates(r)
  <2>1. /\ server' = [server EXCEPT ![On(r)] = NewServer(On(r), About(r))]
        /\ disks' = disks \cup {Boot[On(r)]} /\ Op(r) = "create"
    BY <1>3, <1>5 DEF RemoteCreates
  <2>2. \A i \in Instances \ {On(r)} : server'[i] = server[i]
    BY <1>p, <2>1
  <2>3. server'[On(r)].disks = {Boot[On(r)]}
    BY <1>p, <2>1 DEF NewServer
  <2> QED
    BY <1>1, <1>2, <1>4, <2>1, <2>2, <2>3
<1>6. CASE RemoteDeletes(r)
  <2>1. CASE Act(r) = "delete"
    <3>1. server' = [server EXCEPT ![On(r)] = NoServer] /\ disks' \subseteq disks
          /\ Op(r) = "delete"
      BY <1>3, <1>6, <2>1 DEF RemoteDeletes
    <3>2. \A i \in Instances \ {On(r)} : server'[i] = server[i]
      BY <1>p, <3>1
    <3>3. server'[On(r)].disks = {}
      BY <1>p, <3>1 DEF NoServer
    <3> QED
      BY <1>1, <1>2, <1>4, <3>1, <3>2, <3>3
  <2>2. CASE Act(r) = "delete_disk"
    <3>1. server' = Without(About(r)) /\ disks' \subseteq disks /\ AboutVolume(r)
      BY <1>3, <1>6, <2>2 DEF RemoteDeletes
    <3>2. \A i \in Instances : server'[i].disks = server[i].disks \ {About(r)}
      BY <1>p, <3>1 DEF Without, Servers
    <3> QED
      BY <1>1, <1>2, <1>4, <3>1, <3>2
  <2> QED
    BY <1>6, <2>1, <2>2 DEF RemoteDeletes
<1>7. CASE RemoteModifies(r)
  <2> DEFINE s == Modified(server[On(r)], Act(r), About(r))
  <2>1. server' = [server EXCEPT ![On(r)] = s] /\ UNCHANGED disks /\ Modifies(r)
    BY <1>7 DEF RemoteModifies
  <2>2. server[On(r)] \in Servers
    BY <1>p
  <2>3. /\ s.disks \subseteq server[On(r)].disks \cup {About(r)}
        /\ s.disks # server[On(r)].disks => Act(r) \in {"add_volume", "del_volume"}
        /\ Act(r) = "del_volume" => s.disks = server[On(r)].disks \ {About(r)}
        /\ Act(r) = "add_volume" => s.disks = server[On(r)].disks \cup {About(r)}
    BY <1>3, <2>1, <2>2 DEF Modified, Modifies, Servers, ActionNames
  <2> HIDE DEF s
  <2>4. \A i \in Instances \ {On(r)} : server'[i] = server[i]
    BY <1>p, <2>1
  <2>5. server'[On(r)] = s
    BY <1>p, <2>1
  <2> QED
    BY <1>1, <1>2, <1>3, <1>4, <2>1, <2>3, <2>4, <2>5
<1>8. CASE RemoteFails(r)
  BY <1>1, <1>2, <1>8 DEF RemoteFails, resources
<1> QED
  BY <1>5, <1>6, <1>7, <1>8 DEF Remote

\* What is still to be done was to be done before.
LEMMA AskedBefore ==
  ASSUME TInv, NEW r \in Requests, Goes(r), NEW q \in Requests
  PROVE  /\ Asked(q)' => Asked(q)
         /\ Begun(q)' => Begun(q)
         /\ Holding(q)' => Holding(q)
         /\ Op(q)' = Op(q) /\ Row(q)' = Row(q) /\ On(q)' = On(q)
<1>1. CASE q = r
  BY <1>1, OwnStep, ActsStep DEF Asked, Begun
<1>2. CASE q # r
  BY <1>2, OthersKeep DEF Asked, Begun
<1> QED
  BY <1>1, <1>2

LEMMA CalmBefore ==
  ASSUME TInv, NEW r \in Requests, Asking(r) \/ Goes(r), NoneFailed'
  PROVE  NoneFailed /\ (\A x \in Rows : ~FailedOn(x))
<1> SUFFICES ASSUME NEW q \in Requests, Failed(q) PROVE Failed(q)'
  BY DEF NoneFailed, FailedOn
<1>1. CASE q # r
  BY <1>1, OthersKeep
<1>2. CASE q = r /\ Goes(r)
  BY <1>2, OwnStep
<1>3. CASE q = r /\ Asking(r)
  <2>1. rpc[r] = "idle"
    BY <1>3, WhatIsAsked
  <2> QED
    BY <1>3, <2>1, Parts DEF StageOK, Failed
<1> QED
  BY <1>1, <1>2, <1>3

\* What the invariant says while no task has failed.
Calm == NoneFailed /\ DisksFirst /\ ImportsOwn /\ OneRow /\ WantsFree

\* The row of a request on a volume is a row of that disk.
LEMMA AboutRows ==
  ASSUME HInv, JobsFit, NEW r \in Requests, Begun(r), AboutVolume(r)
  PROVE  /\ Row(r) \in VolumeRows /\ Row(r) \in {Row(r)[1]} \X Copies
         /\ row[Row(r)].state # "absent" /\ ~Unrowed(Row(r)[1])
<1>1. Row(r) \in VolumeRows
  BY DEF JobsFit, Fit
<1>2. Row(r) \in {Row(r)[1]} \X Copies
  BY <1>1 DEF VolumeRows
<1>3. row[Row(r)].state # "absent"
  BY DEF HInv, RowsBegun, Begun
<1> QED
  BY <1>1, <1>2, <1>3 DEF Unrowed

\* An import is of the server of the row that the request keeps.
LEMMA AboutImports ==
  ASSUME HInv, JobsFit, NEW r \in Requests, tpc[r] \in {"scan", "adopt"}
  PROVE  /\ Begun(r) /\ Holding(r) /\ Row(r) = On(r) /\ On(r) \in Instances
         /\ Op(r) \in {"create", "patch"} /\ job[r].acts = {} /\ remote[r] = "none"
         /\ rpc[r] \notin {"post", "drop"}
<1>1. StageOK(r) /\ On(r) \in Instances
  BY Parts DEF HInv
<1>2. Begun(r) /\ Holding(r)
  BY <1>1 DEF StageOK, Begun, Holding
<1> QED
  BY <1>1, <1>2 DEF StageOK, JobsFit, Fit, AboutVolume

\* Two tasks do not import one new disk.
LEMMA OneImporter ==
  ASSUME HInv, JobsFit, Calm, NEW q \in Requests, NEW r \in Requests, NEW d \in Disks,
         tpc[q] \in {"scan", "adopt"}, tpc[r] \in {"scan", "adopt"},
         d \in InHand(q), d \in InHand(r), Unrowed(d)
  PROVE  q = r
<1>1. d \in server[On(q)].disks /\ d \in server[On(r)].disks
  BY DEF Calm, ImportsOwn
<1>2. On(q) \in Instances /\ On(r) \in Instances
  BY AboutImports
<1>3. Boot[On(q)] = d /\ Boot[On(r)] = d
  BY <1>1, <1>2 DEF Calm, DisksFirst
<1>4. On(q) = On(r)
  BY <1>2, <1>3, ConstantsAssumption
<1>5. Row(q) = Row(r) /\ Holding(q) /\ Holding(r)
  BY <1>4, AboutImports
<1>6. ~FailedOn(Row(r))
  BY DEF Calm, NoneFailed, FailedOn
<1> QED
  BY <1>5, <1>6 DEF HInv, OneHolder

LEMMA FirstStays ==
  ASSUME HInv, JobsFit, Calm, NEW r \in Requests, Asking(r) \/ Goes(r)
  PROVE  DisksFirst'
<1>p. /\ TInv /\ RowsBegun /\ row \in [Rows -> Rec]
      /\ \A i \in Instances : i \in Rows /\ Boot[i] \in Disks /\ server[i].disks \in SUBSET Disks
      /\ \A i, j \in Instances : Boot[i] = Boot[j] => i = j
  BY Parts, ConstantsAssumption DEF HInv, Rows, Servers
<1>1. ASSUME NEW i \in Instances, ToCreate(i)'
      PROVE  ToCreate(i)
  <2>1. CASE Asking(r)
    <3>1. \A x \in Instances : row'[x].state = "absent" => row[x].state = "absent"
      BY <2>1, <1>p, WhatIsAsked DEF Rec
    <3>2. ASSUME NEW q \in Requests, Begun(q)', Op(q)' = "create", On(q)' = i, Asked(q)'
          PROVE  ToCreate(i)
      <4>1. CASE q = r
        BY <2>1, <1>p, <3>2, <4>1, WhatIsAsked DEF ToCreate
      <4>2. CASE q # r
        BY <2>1, <1>p, <3>2, <4>2, OthersKeep DEF ToCreate, Begun, Asked
      <4> QED
        BY <4>1, <4>2
    <3> QED
      BY <1>1, <3>1, <3>2 DEF ToCreate
  <2>2. CASE Goes(r)
    <3>1. row'[i].state = "absent" => row[i].state = "absent"
      BY <2>2, <1>p, RowStep
    <3> QED
      BY <1>1, <2>2, <1>p, <3>1, AskedBefore DEF ToCreate
  <2> QED
    BY <2>1, <2>2
<1>2. ASSUME NEW i \in Instances, ToCreate(i)'
      PROVE  Unrowed(Boot[i])'
  <2>1. Unrowed(Boot[i]) /\ \A j \in Instances : Boot[i] \notin server[j].disks
    BY <1>1, <1>2 DEF Calm, DisksFirst
  <2>2. SUFFICES ASSUME AdoptVolume(r), job[r].disk = Boot[i] PROVE FALSE
    BY <1>p, <2>1, DiskRowsStep
  <2>3. tpc[r] = "adopt" /\ On(r) \in Instances
    BY <2>2, AboutImports DEF AdoptVolume
  <2> QED
    BY <2>1, <2>2, <2>3 DEF Calm, ImportsOwn, InHand
<1>3. ASSUME NEW i \in Instances, ToCreate(i)', NEW j \in Instances
      PROVE  Boot[i] \notin server'[j].disks
  <2>1. Unrowed(Boot[i]) /\ Boot[i] \notin server[j].disks
    BY <1>1, <1>3 DEF Calm, DisksFirst
  <2>2. CASE UNCHANGED server
    BY <2>1, <2>2
  <2>3. CASE Remote(r)
    <3>1. CASE Op(r) = "create" /\ On(r) = j /\ Boot[i] = Boot[j]
      <4>1. i = j /\ Begun(r) /\ Fit(r) /\ remote'[r] # "running" /\ remote[r] = "running"
            /\ UNCHANGED <<row, rpc, job>>
        BY <1>p, <2>3, <3>1, DiskStep DEF JobsFit
      <4>2. row'[i].state # "absent"
        BY <1>p, <3>1, <4>1 DEF RowsBegun, Begun, Fit, AboutVolume
      <4>3. PICK q \in Requests : Begun(q)' /\ Op(q)' = "create" /\ On(q)' = i /\ Asked(q)'
        BY <1>3, <4>2 DEF ToCreate
      <4>4. Begun(q) /\ Op(q) = "create" /\ On(q) = i
        BY <4>1, <4>3 DEF Begun, Op, On
      <4>5. q = r
        BY <3>1, <4>1, <4>4 DEF JobsFit
      <4>6. job[r].acts = {}
        BY <3>1, <4>1 DEF Fit
      <4> QED
        BY <4>1, <4>3, <4>5, <4>6 DEF Asked
    <3>2. CASE Op(r) = "attach" /\ Boot[i] = Row(r)[1]
      <4>1. Begun(r) /\ AboutVolume(r)
        BY <2>3, <3>2, DiskStep DEF AboutVolume
      <4> QED
        BY <2>1, <3>2, <4>1, AboutRows
    <3> QED
      BY <2>1, <2>3, <3>1, <3>2, DiskStep
  <2> QED
    BY <1>p, <2>2, <2>3, WhatIsAsked, ServerKept DEF Goes
<1>4. ASSUME NEW i \in Instances, NEW d \in server'[i].disks, Unrowed(d)'
      PROVE  Boot[i] = d
  <2>1. CASE UNCHANGED server
    <3>1. d \in Disks /\ d \in server[i].disks
      BY <1>4, <1>p, <2>1
    <3>2. Unrowed(d)
      BY <1>4, <1>p, <3>1, DiskRowsStep
    <3> QED
      BY <3>1, <3>2 DEF Calm, DisksFirst
  <2>2. CASE Remote(r)
    <3>1. Unrowed(d)
      BY <1>4, <2>2, DiskStep DEF Unrowed
    <3>2. CASE d \in server[i].disks
      BY <3>1, <3>2 DEF Calm, DisksFirst
    <3>3. CASE Op(r) = "attach" /\ d = Row(r)[1]
      <4>1. Begun(r) /\ AboutVolume(r)
        BY <2>2, <3>3, DiskStep DEF AboutVolume
      <4> QED
        BY <3>1, <3>3, <4>1, AboutRows
    <3> QED
      BY <1>4, <2>2, <3>2, <3>3, DiskStep
  <2> QED
    BY <1>p, <2>1, <2>2, WhatIsAsked, ServerKept DEF Goes
<1> QED
  BY <1>2, <1>3, <1>4 DEF DisksFirst

\* What a task has in hand comes from its server, and is looked at once.
LEMMA OwnImports ==
  ASSUME HInv, JobsFit, NEW r \in Requests, Goes(r), tpc'[r] \in {"scan", "adopt"}
  PROVE  /\ UNCHANGED server
         /\ \/ tpc[r] \in {"scan", "adopt"} /\ InHand(r)' \subseteq InHand(r)
            \/ InHand(r)' = server[On(r)].disks
         /\ tpc'[r] = "adopt" => RowsOf(job'[r].disk) = {} /\ UNCHANGED row
<1>p. /\ TInv /\ job[r] \in Jobs /\ StageOK(r)
      /\ tpc \in [Requests -> TaskStages] /\ job \in [Requests -> Jobs]
  BY Parts DEF HInv, TypeOK
<1>1. CASE tpc[r] \in {"scan", "adopt"}
  <2>1. /\ remote[r] = "none"
        /\ rpc[r] \notin {"idle", "checked", "begin", "dispatch", "post", "drop"}
    BY <1>1, <1>p, AboutImports DEF StageOK
  <2>2. ~Remote(r) /\ ~Serving(r)
    BY <2>1
       DEF Remote, RemoteCreates, RemoteDeletes, RemoteModifies, RemoteFails, Serving,
           ChangeDefinition, Begin, Dispatch, PostDelete, DropVolumeRow, PostDeleteEnds
  <2>3. Working(r)
    BY <2>2 DEF Goes
  <2>4. UNCHANGED server
    BY <1>p, <2>3, ServerKept
  <2>5. CASE ScanVolume(r)
    <3>1. PICK d \in job[r].todo :
            /\ job' = [job EXCEPT ![r] = [job[r] EXCEPT !.todo = @ \ {d}, !.disk = d]]
            /\ tpc' = [tpc EXCEPT ![r] = IF d \notin disks THEN "failing"
                                         ELSE IF RowsOf(d) = {} THEN "adopt" ELSE "scan"]
            /\ tpc[r] = "scan" /\ UNCHANGED row
      BY <2>5 DEF ScanVolume, Holds, TaskGoes, rows
    <3>2. job'[r].todo = job[r].todo \ {d} /\ job'[r].disk = d
      BY <1>p, <3>1 DEF Jobs
    <3>3. tpc'[r] = "adopt" => RowsOf(d) = {}
      BY <1>p, <3>1
    <3> QED
      BY <1>1, <2>4, <3>1, <3>2, <3>3 DEF InHand
  <2>6. CASE AdoptVolume(r)
    <3>1. tpc[r] = "adopt" /\ tpc'[r] = "scan" /\ UNCHANGED job
      BY <1>p, <2>6 DEF AdoptVolume, TaskGoes
    <3> QED
      BY <2>4, <3>1 DEF InHand
  <2>7. CASE ~ScanVolume(r) /\ ~AdoptVolume(r)
    BY <1>1, <1>p, <2>3, <2>7
       DEF Working, TaskStarts, AskResource, AskResourceFails, RemoteAnswers, WaitFails,
           ResourceDone, ImportEnds, Finish, TaskFails, TaskGoes
  <2> QED
    BY <2>5, <2>6, <2>7
<1>2. CASE tpc[r] \notin {"scan", "adopt"}
  <2>1. ResourceDone(r) /\ tpc'[r] = "scan"
    BY <1>2, <1>p, ActsStep
  <2>2. Imports(r) /\ UNCHANGED server
    BY <1>p, <2>1 DEF ResourceDone, TaskGoes, resources
  <2>3. job'[r] = [job[r] EXCEPT !.todo = server[On(r)].disks]
    BY <1>p, <2>1, <2>2 DEF ResourceDone, Holds
  <2>4. job'[r].todo = server[On(r)].disks
    BY <1>p, <2>3 DEF Jobs
  <2> QED
    BY <2>1, <2>2, <2>4 DEF InHand
<1> QED
  BY <1>1, <1>2

LEMMA ImportsStay ==
  ASSUME HInv, JobsFit, Calm, NEW r \in Requests, Asking(r) \/ Goes(r)
  PROVE  ImportsOwn'
<1>p. TInv /\ \A q \in Requests : job[q].disk \in Disks /\ job[q].todo \in SUBSET Disks
  BY Parts, JobParts DEF HInv
<1>d. \A q \in Requests : InHand(q) \in SUBSET Disks
  BY <1>p DEF InHand
<1> SUFFICES ASSUME NEW q \in Requests, tpc'[q] \in {"scan", "adopt"}
             PROVE  /\ \A d \in InHand(q)' : Unrowed(d)' => d \in server'[On(q)'].disks
                    /\ tpc'[q] = "adopt" => Unrowed(job[q].disk)' \/ Dropped(job[q].disk)'
  BY DEF ImportsOwn
<1>1. CASE q = r
  <2>1. Goes(r)
    BY <1>1, <1>p, WhatIsAsked
  <2>2. /\ UNCHANGED server /\ On(r)' = On(r)
        /\ \/ tpc[r] \in {"scan", "adopt"} /\ InHand(r)' \subseteq InHand(r)
           \/ InHand(r)' = server[On(r)].disks
        /\ tpc'[r] = "adopt" => RowsOf(job'[r].disk) = {} /\ UNCHANGED row
    BY <1>1, <1>p, <2>1, OwnImports, OwnStep
  <2>3. ASSUME NEW d \in InHand(r)', Unrowed(d)' PROVE d \in server[On(r)].disks
    <3>1. CASE InHand(r)' = server[On(r)].disks
      BY <2>3, <3>1
    <3>2. CASE tpc[r] \in {"scan", "adopt"} /\ InHand(r)' \subseteq InHand(r)
      <4>1. d \in InHand(r) /\ d \in Disks
        BY <1>d, <2>3, <3>2
      <4>2. Unrowed(d)
        BY <1>p, <2>1, <2>3, <4>1, DiskRowsStep
      <4> QED
        BY <3>2, <4>1, <4>2 DEF Calm, ImportsOwn
    <3> QED
      BY <2>2, <3>1, <3>2
  <2>4. ASSUME tpc'[r] = "adopt"
        PROVE  Unrowed(job[r].disk)' \/ Dropped(job[r].disk)'
    <3> DEFINE e == job'[r].disk
    <3>1. RowsOf(e) = {} /\ UNCHANGED row
      BY <2>2, <2>4
    <3>2. e \in Disks
      <4>1. TInv'
        BY <1>p, <2>1, NextTyped DEF Next, Goes
      <4>2. job'[r] \in Jobs
        BY <4>1 DEF TInv, TypeOK
      <4> QED
        BY <4>2, JobParts
    <3>3. \A x \in {e} \X Copies : row[x].state \in RowStates
      BY <1>p, <3>2, Parts DEF Rows, VolumeRows, Rec
    <3>4. \A x \in {e} \X Copies : row[x].state # "present"
      BY <3>1 DEF RowsOf, Visible
    <3>5. (\A x \in {e} \X Copies : row'[x].state = "absent")
          \/ \E x \in {e} \X Copies : row'[x].state = "deleted"
      BY <3>1, <3>3, <3>4 DEF RowStates
    <3> QED
      BY <3>5 DEF Unrowed, Dropped
  <2> QED
    BY <1>1, <2>2, <2>3, <2>4
<1>2. CASE q # r
  <2>1. /\ tpc'[q] = tpc[q] /\ job'[q] = job[q] /\ On(q)' = On(q)
        /\ InHand(q)' = InHand(q)
    BY <1>2, <1>p, OthersKeep DEF InHand
  <2>q. /\ Begun(q) /\ Holding(q) /\ Row(q) = On(q) /\ On(q) \in Instances
    BY <2>1, AboutImports
  <2>2. ASSUME NEW d \in InHand(q), Unrowed(d)' PROVE d \in server'[On(q)].disks
    <3>1. Unrowed(d)
      BY <1>d, <1>p, <2>2, DiskRowsStep
    <3>2. d \in server[On(q)].disks
      BY <2>1, <2>2, <3>1 DEF Calm, ImportsOwn
    <3>3. CASE UNCHANGED server
      BY <3>2, <3>3
    <3>4. CASE Remote(r)
      <4> SUFFICES ASSUME d \notin server'[On(q)].disks PROVE FALSE
        OBVIOUS
      <4>1. CASE Op(r) \in {"create", "delete"} /\ Row(r) = On(q)
        <5>1. Holding(r)
          <6>1. remote[r] = "running" /\ StageOK(r) /\ ~Failed(r)
            BY <1>p, <3>4, DiskStep, Parts DEF Calm, NoneFailed
          <6> QED
            BY <6>1 DEF StageOK, Failed, Holding
        <5>2. ~FailedOn(Row(r))
          BY DEF Calm, NoneFailed, FailedOn
        <5> QED
          BY <1>2, <2>q, <4>1, <5>1, <5>2 DEF HInv, OneHolder
      <4>2. CASE AboutVolume(r) /\ d = Row(r)[1]
        <5>1. Begun(r)
          BY <3>4, DiskStep
        <5> QED
          BY <3>1, <4>2, <5>1, AboutRows
      <4> QED
        BY <2>q, <3>2, <3>4, <4>1, <4>2, DiskStep
    <3> QED
      BY <1>p, <3>3, <3>4, WhatIsAsked, ServerKept DEF Goes
  <2>3. ASSUME tpc[q] = "adopt"
        PROVE  Unrowed(job[q].disk)' \/ Dropped(job[q].disk)'
    <3> DEFINE e == job[q].disk
    <3>1. job'[q].disk = e /\ e \in Disks /\ e \in InHand(q)
      BY <1>p, <2>1, <2>3 DEF InHand
    <3>2. CASE Dropped(e)
      <4>1. \E x \in {e} \X Copies : row'[x].state = "deleted"
        BY <1>p, <3>1, <3>2, DiskRowsStep DEF Dropped
      <4> QED
        BY <3>1, <4>1 DEF Dropped
    <3>3. CASE Unrowed(e)
      <4>1. CASE AdoptVolume(r) /\ job[r].disk = e
        <5>1. tpc[r] = "adopt" /\ e \in InHand(r)
          BY <4>1 DEF AdoptVolume, InHand
        <5> QED
          BY <1>2, <2>3, <3>1, <3>3, <5>1, OneImporter
      <4>2. CASE \A x \in {e} \X Copies : row'[x].state = "absent"
        BY <3>1, <4>2 DEF Unrowed
      <4> QED
        BY <1>p, <3>1, <3>3, <4>1, <4>2, DiskRowsStep DEF Unrowed
    <3> QED
      BY <2>3, <3>2, <3>3 DEF Calm, ImportsOwn
  <2> QED
    BY <2>1, <2>2, <2>3
<1> QED
  BY <1>1, <1>2

LEMMA OneRowStays ==
  ASSUME HInv, JobsFit, Calm, NEW r \in Requests, Asking(r) \/ Goes(r)
  PROVE  OneRow'
<1>p. TInv
  BY DEF HInv
<1> SUFFICES ASSUME NEW d \in Disks, ~Dropped(d)',
                    NEW x \in {d} \X Copies, NEW y \in {d} \X Copies,
                    row'[x].state # "absent", row'[y].state # "absent"
             PROVE  x = y
  BY DEF OneRow
<1>1. x \in VolumeRows /\ y \in VolumeRows /\ x[1] = d /\ y[1] = d
  BY DEF VolumeRows
<1>2. ~Dropped(d)
  BY <1>p, DiskRowsStep
<1>3. CASE row[x].state # "absent" /\ row[y].state # "absent"
  BY <1>2, <1>3 DEF Calm, OneRow
<1>4. ASSUME NEW z \in {x, y}, row[z].state = "absent"
      PROVE  x = y
  <2>1. /\ AdoptVolume(r) /\ job[r].disk = d
        /\ \A w \in VolumeRows \ {z} : row'[w] = row[w]
    BY <1>1, <1>4, <1>p, VolumeRowStep
  <2>2. tpc[r] = "adopt"
    BY <2>1 DEF AdoptVolume
  <2>3. Unrowed(d)
    BY <1>2, <2>1, <2>2 DEF Calm, ImportsOwn
  <2> QED
    BY <1>1, <2>1, <2>3 DEF Unrowed
<1> QED
  BY <1>3, <1>4

LEMMA FreeStays ==
  ASSUME HInv, JobsFit, Calm, NEW r \in Requests, Asking(r) \/ Goes(r)
  PROVE  WantsFree'
<1>p. /\ TInv
      /\ \A i \in Instances : server[i].disks \in SUBSET Disks
  BY Parts DEF HInv, Servers
<1> SUFFICES ASSUME NEW q \in Requests, Begun(q)', Op(q)' \in {"attach", "delete_volume"},
                    Holding(q)', Asked(q)', ~Dropped(Row(q)[1])', IsAttached(Row(q)[1])'
             PROVE  FALSE
  BY DEF WantsFree
<1>1. CASE Asking(r)
  <2>1. UNCHANGED <<server, disks>>
    BY <1>1, <1>p, WhatIsAsked
  <2>2. CASE q = r
    <3>1. ~IsAttached(Row(r)'[1])
      BY <1>1, <1>p, <2>2, FitAsked
    <3> QED
      BY <2>1, <2>2, <3>1 DEF IsAttached
  <2>3. CASE q # r
    <3>1. /\ Begun(q) /\ Op(q) \in {"attach", "delete_volume"} /\ Holding(q) /\ Asked(q)
          /\ Row(q)' = Row(q)
      BY <1>1, <1>p, <2>3, OthersKeep DEF Begun, Asked
    <3>2. Row(q)[1] \in Disks
      BY <3>1, AboutRows DEF AboutVolume, VolumeRows
    <3>3. ~Dropped(Row(q)[1])
      <4>1. \A x \in {Row(q)[1]} \X Copies : row'[x].state # "deleted"
        BY <3>1 DEF Dropped
      <4> QED
        BY <1>1, <1>p, <3>2, <4>1, DiskRowsStep DEF Dropped
    <3>4. ~IsAttached(Row(q)[1])
      BY <3>1, <3>3 DEF Calm, WantsFree
    <3> QED
      BY <2>1, <3>1, <3>4 DEF IsAttached
  <2> QED
    BY <2>2, <2>3
<1>2. CASE Goes(r)
  <2>1. /\ Begun(q) /\ Op(q) \in {"attach", "delete_volume"} /\ Holding(q) /\ Asked(q)
        /\ Row(q)' = Row(q) /\ AboutVolume(q)
    BY <1>2, <1>p, AskedBefore DEF AboutVolume
  <2> DEFINE d == Row(q)[1]
  <2>2. /\ d \in Disks /\ Row(q) \in {d} \X Copies /\ row[Row(q)].state # "absent" /\ ~Unrowed(d)
    BY <2>1, AboutRows DEF VolumeRows
  <2>3. ~Dropped(d)
    <3>1. \A x \in {d} \X Copies : row'[x].state # "deleted"
      BY <2>1 DEF Dropped
    <3> QED
      BY <1>2, <1>p, <2>2, <3>1, DiskRowsStep DEF Dropped
  <2>4. ~IsAttached(d)
    BY <2>1, <2>3 DEF Calm, WantsFree
  <2>5. PICK i \in Instances : d \in server'[i].disks /\ d \in disks'
    BY <2>1 DEF IsAttached
  <2>6. CASE Remote(r)
    <3>1. ASSUME NEW j \in Instances, Op(r) = "create", On(r) = j, d = Boot[j] PROVE FALSE
      <4>1. Begun(r) /\ remote[r] = "running"
        BY <2>6, DiskStep
      <4>2. ToCreate(j)
        BY <3>1, <4>1 DEF ToCreate, Asked
      <4> QED
        BY <2>2, <3>1, <4>2 DEF Calm, DisksFirst
    <3>2. CASE Op(r) = "attach" /\ d = Row(r)[1]
      <4>1. Begun(r) /\ AboutVolume(r) /\ remote[r] = "running" /\ remote'[r] # "running"
            /\ UNCHANGED job
        BY <2>6, <3>2, DiskStep DEF AboutVolume
      <4>2. Row(r) \in {d} \X Copies /\ row[Row(r)].state # "absent"
        BY <3>2, <4>1, AboutRows
      <4>3. Row(q) = Row(r)
        BY <2>2, <2>3, <4>2 DEF Calm, OneRow
      <4>4. Holding(r)
        <5>1. StageOK(r) /\ ~Failed(r)
          BY <1>p, Parts DEF Calm, NoneFailed
        <5> QED
          BY <4>1, <5>1 DEF StageOK, Failed, Holding
      <4>5. ~FailedOn(Row(r))
        BY DEF Calm, NoneFailed, FailedOn
      <4>6. q = r
        BY <2>1, <4>3, <4>4, <4>5 DEF HInv, OneHolder
      <4>7. job[r].acts = {}
        BY <3>2, <4>1 DEF JobsFit, Fit
      <4> QED
        BY <4>1, <4>6, <4>7 DEF Asked
    <3>3. d \in disks
      <4>1. On(r) \in Instances
        BY <1>p, Parts
      <4> QED
        BY <2>5, <2>6, <3>1, <4>1, DiskStep
    <3>4. d \notin server[i].disks
      BY <2>4, <3>3 DEF IsAttached
    <3> QED
      BY <2>5, <2>6, <3>1, <3>2, <3>4, DiskStep
  <2>7. CASE Serving(r) \/ Working(r)
    BY <1>p, <2>4, <2>5, <2>7, ServerKept DEF IsAttached
  <2> QED
    BY <1>2, <2>6, <2>7 DEF Goes
<1> QED
  BY <1>1, <1>2

LEMMA InitVInv ==
  ASSUME Init
  PROVE  VInv
<1>1. HInv
  BY InitHInv
<1>2. \A r \in Requests : rpc[r] = "idle" /\ tpc[r] = "none"
  BY DEF Init
<1>3. JobsFit /\ ImportsOwn /\ WantsFree
  BY <1>2 DEF JobsFit, Begun, ImportsOwn, WantsFree
<1>4. \A x \in VolumeRows : row[x].state # "absent" <=> x \in FirstDisks \X {1}
  <2>1. \A x \in VolumeRows : x \in Rows /\ x \notin Existing
    BY ConstantsAssumption DEF Rows, VolumeRows
  <2> QED
    BY <2>1 DEF Init
<1>5. OneRow
  <2> SUFFICES ASSUME NEW d \in Disks, NEW x \in {d} \X Copies, NEW y \in {d} \X Copies,
                      row[x].state # "absent", row[y].state # "absent"
               PROVE  x = y
    BY DEF OneRow
  <2>1. x \in FirstDisks \X {1} /\ y \in FirstDisks \X {1}
    BY <1>4 DEF VolumeRows
  <2> QED
    BY <2>1
<1>6. DisksFirst
  <2>1. \A i \in Instances : server[i].disks = IF i \in Existing THEN {Boot[i]} ELSE {}
    BY DEF Init, NewServer, NoServer
  <2>2. ASSUME NEW i \in Instances, ToCreate(i)
        PROVE  Unrowed(Boot[i]) /\ \A j \in Instances : Boot[i] \notin server[j].disks
    <3>1. row[i].state = "absent"
      BY <1>2, <2>2 DEF ToCreate, Begun
    <3>2. i \notin Existing /\ Boot[i] \in Disks
      BY <3>1, ConstantsAssumption DEF Init, Rows
    <3>3. Boot[i] \notin FirstDisks
      BY <3>2 DEF FirstDisks
    <3>4. \A x \in {Boot[i]} \X Copies : x \in VolumeRows /\ x \notin FirstDisks \X {1}
      BY <3>2, <3>3 DEF VolumeRows
    <3>5. Unrowed(Boot[i])
      BY <1>4, <3>4 DEF Unrowed
    <3>6. \A j \in Instances : Boot[i] \notin server[j].disks
      BY <2>1, <3>2, ConstantsAssumption
    <3> QED
      BY <3>5, <3>6
  <2> QED
    BY <2>1, <2>2 DEF DisksFirst
<1> QED
  BY <1>1, <1>3, <1>5, <1>6 DEF VInv

LEMMA VInvStep ==
  ~Overlap => (VInv /\ [Next]_vars => VInv')
<1> SUFFICES ASSUME ~Overlap, VInv, [Next]_vars PROVE VInv'
  OBVIOUS
<1>1. HInv'
  BY HInvStep DEF VInv
<1>2. CASE UNCHANGED vars
  <2>1. JobsFit'
    BY <1>2 DEF VInv, vars, JobsFit, Fit, AboutVolume, Begun, About, Op, Row, On
  <2>2. NoneFailed' => NoneFailed
    BY <1>2 DEF vars, NoneFailed, Failed
  <2>3. DisksFirst => DisksFirst'
    BY <1>2 DEF vars, DisksFirst, ToCreate, Unrowed, Begun, Asked, Op, On
  <2>4. ImportsOwn => ImportsOwn'
    BY <1>2 DEF vars, ImportsOwn, InHand, Unrowed, Dropped, On
  <2>5. OneRow => OneRow'
    BY <1>2 DEF vars, OneRow, Dropped
  <2>6. WantsFree => WantsFree'
    BY <1>2 DEF vars, WantsFree, Begun, Asked, Holding, Reading, Dropped, IsAttached, Op, Row
  <2> QED
    BY <1>1, <2>1, <2>2, <2>3, <2>4, <2>5, <2>6 DEF VInv
<1>3. CASE Next
  <2>1. PICK r \in Requests : Asking(r) \/ Goes(r)
    BY <1>3 DEF Next, Goes
  <2>2. HInv /\ TInv /\ JobsFit
    BY DEF VInv, HInv
  <2>3. JobsFit'
    BY <2>1, <2>2, FitStays
  <2>4. NoneFailed' => Calm
    BY <2>1, <2>2, CalmBefore DEF VInv, Calm
  <2> QED
    BY <1>1, <2>1, <2>2, <2>3, <2>4, FirstStays, ImportsStay, OneRowStays, FreeStays DEF VInv
<1> QED
  BY <1>2, <1>3

\* While no task fails and no row of it is deleted, a disk that the resource
\* service is asked to attach or to delete is free, whatever the requests.
LEMMA RunningIsFree ==
  ASSUME VInv, NoneFailed, NEW r \in Requests, remote[r] = "running",
         Act(r) \in {"add_volume", "delete_disk"}, ~Dropped(About(r))
  PROVE  ~IsAttached(About(r))
<1>1. TInv /\ JobsFit /\ WantsFree
  BY DEF VInv, HInv
<1>2. StageOK(r) /\ ~Failed(r) /\ ActionOK(Op(r), job[r].act)
  BY <1>1, Parts DEF RunningOK, NoneFailed
<1>3. Op(r) \in {"attach", "delete_volume"} /\ AboutVolume(r)
  BY <1>2 DEF ActionOK, Act, AboutVolume
<1>4. Holding(r) /\ Begun(r)
  BY <1>2 DEF StageOK, Failed, Holding, Begun
<1>5. About(r) = Row(r)[1]
  BY <1>1, <1>3, <1>4 DEF JobsFit, Fit
<1> QED
  BY <1>1, <1>3, <1>4, <1>5 DEF WantsFree, Asked

LEMMA VolumesKept == ~Overlap => (Spec => []VInv)
<1> SUFFICES ASSUME ~Overlap PROVE Spec => []VInv
  OBVIOUS
<1>1. Init => VInv
  BY InitVInv
<1>2. VInv /\ [Next]_vars => VInv'
  BY VInvStep
<1> QED
  BY <1>1, <1>2, PTL DEF Spec

\* A disk has one row while no task has failed and none of its rows was deleted,
\* for requests that do not read while another one has still to write.
THEOREM OneRowIsKept == ~Overlap => (Spec => []OneRowPerVolume)
<1> SUFFICES ASSUME ~Overlap PROVE Spec => []OneRowPerVolume
  OBVIOUS
<1>1. VInv => OneRowPerVolume
  <2> SUFFICES ASSUME VInv, NoneFailed, NEW d \in Disks, ~Dropped(d)
               PROVE  Cardinality(RowsOf(d)) <= 1
    BY DEF OneRowPerVolume
  <2>1. \A x, y \in RowsOf(d) : x = y
    BY DEF VInv, OneRow, RowsOf, Visible
  <2>2. CASE RowsOf(d) = {}
    BY <2>2, FS_EmptySet
  <2>3. CASE RowsOf(d) # {}
    <3>1. PICK x \in RowsOf(d) : RowsOf(d) = {x}
      BY <2>1, <2>3
    <3> QED
      BY <3>1, FS_Singleton
  <2> QED
    BY <2>2, <2>3
<1> QED
  BY <1>1, VolumesKept, PTL

\* A disk that a task attaches is free, under the same conditions: the status of
\* its one row keeps others from attaching it since attach looked.
THEOREM AttachedIsFree == ~Overlap => (Spec => []AttachingFree)
<1> SUFFICES ASSUME ~Overlap PROVE Spec => []AttachingFree
  OBVIOUS
<1>1. VInv => AttachingFree
  BY RunningIsFree DEF AttachingFree
<1> QED
  BY <1>1, VolumesKept, PTL

\* A volume is not deleted while a server uses it, under the same conditions.
THEOREM UsedIsKept == ~Overlap => (Spec => InUseIsKept)
<1> SUFFICES ASSUME ~Overlap PROVE Spec => InUseIsKept
  OBVIOUS
<1>1. VInv => \A r \in Requests :
                remote[r] = "running" /\ remote'[r] = "success" /\ Act(r) = "delete_disk"
                  /\ NoneFailed /\ ~Dropped(About(r))
                  => ~IsAttached(About(r))
  BY RunningIsFree
<1> QED
  BY <1>1, VolumesKept, PTL DEF InUseIsKept
==============================================================================
