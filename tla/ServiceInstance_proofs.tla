------------------------ MODULE ServiceInstance_proofs ------------------------
(* Theorems about ServiceInstance for every set of instances and requests.   *)
EXTENDS ServiceInstance, TLAPS

----------------------------------------------------------------------------
(* Type correctness.                                                       *)

\* A row keeps its type when its status is written.
LEMMA WithStatusType ==
  ASSUME TypeOK, NEW i \in Instances, NEW s \in Statuses
  PROVE  WithStatus(i, s) \in Rows
BY DEF TypeOK, WithStatus, Rows

\* The handler of a request works on an instance.
LEMMA JobType ==
  ASSUME TypeOK, NEW r \in Requests
  PROVE  On(r) \in Instances /\ Op(r) \in OperationKinds /\ job[r].seen \in Statuses
BY DEF TypeOK, Jobs, On, Op

\* What a client asks for is a job.
LEMMA NewJobType ==
  ASSUME NEW op \in Operations, NEW i \in Instances, NEW s \in Statuses,
         NEW opts \in SUBSET OptionsOf(op, i)
  PROVE  Job(op, i, s, opts) \in Jobs
<1>1. op \in OperationKinds
  BY ConstantsAssumption DEF ConstantsAssumption
<1>2. OptionsOf(op, i) \subseteq Options
  BY DEF OptionsOf
<1>3. opts \in SUBSET OptionKinds
  BY <1>2, ConstantsAssumption DEF ConstantsAssumption
<1> QED
  BY <1>1, <1>3 DEF Job, Jobs, Uuids

\* The steps with which a request arrives keep the type invariant.
LEMMA ArriveType ==
  ASSUME TypeOK, NEW r \in Requests, Arrive(r)
  PROVE  TypeOK'
<1>1. PICK i \in Instances : InsertInstance(r, i) \/ Load(r, i)
  BY DEF Arrive
<1>2. CASE InsertInstance(r, i)
  <2>1. PICK op \in Operations \cap {"add", "import"} :
          \E opts \in SUBSET OptionsOf(op, i) :
            job' = [job EXCEPT ![r] = Job(op, i, "DRAFT", opts)]
    BY <1>2 DEF InsertInstance
  <2>2. PICK opts \in SUBSET OptionsOf(op, i) :
          job' = [job EXCEPT ![r] = Job(op, i, "DRAFT", opts)]
    BY <2>1
  <2>3. job' \in [Requests -> Jobs]
    BY <2>2, NewJobType DEF TypeOK, Statuses, Transient
  <2> QED
    BY <1>2, <2>3 DEF InsertInstance, TypeOK, Rows, RowStates, RequestGoes,
                      RequestStages
<1>3. CASE Load(r, i)
  <2>1. PICK op \in Operations \ {"add", "import"} :
          \E opts \in SUBSET OptionsOf(op, i) :
            job' = [job EXCEPT ![r] = Job(op, i, row[i].status, opts)]
    BY <1>3 DEF Load
  <2>2. PICK opts \in SUBSET OptionsOf(op, i) :
          job' = [job EXCEPT ![r] = Job(op, i, row[i].status, opts)]
    BY <2>1
  <2>3. row[i].status \in Statuses
    BY DEF TypeOK, Rows
  <2>4. job' \in [Requests -> Jobs]
    BY <2>2, <2>3, NewJobType DEF TypeOK
  <2> QED
    BY <1>3, <2>4 DEF Load, TypeOK, RequestGoes, RequestStages
<1> QED
  BY <1>1, <1>2, <1>3

\* A status write keeps the type of the table.
LEMMA UpdateStatusType ==
  ASSUME TypeOK, NEW i \in Instances, NEW s \in Statuses, UpdateStatus(i, s)
  PROVE  row' \in [Instances -> Rows]
BY WithStatusType DEF TypeOK, UpdateStatus

\* So does the soft delete of the configuration and of the row.
LEMMA DeletedType ==
  ASSUME TypeOK, NEW i \in Instances, ConfigDeleted(i) \/ RowDeleted(i)
  PROVE  row' \in [Instances -> Rows]
<1>1. row[i] \in Rows /\ row \in [Instances -> Rows]
  BY DEF TypeOK
<1>2. CASE ConfigDeleted(i)
  BY <1>1, <1>2 DEF ConfigDeleted, Rows, Statuses, Transient
<1>3. CASE RowDeleted(i)
  BY <1>1, <1>3 DEF RowDeleted, Rows, RowStates, Statuses
<1> QED
  BY <1>2, <1>3

\* check_resource returns a resource uuid or None.
LEMMA CheckResourceType ==
  ASSUME TypeOK, NEW i \in Instances
  PROVE  CheckResource(i) \subseteq Uuids
BY DEF TypeOK, CheckResource, Rows, Uuids

\* The steps of a request keep the type invariant.
LEMMA RequestStepType ==
  ASSUME TypeOK, NEW r \in Requests, RequestStep(r)
  PROVE  TypeOK'
<1> USE JobType
<1> DEFINE i == On(r)
<1>t. /\ "ERROR" \in Statuses /\ "DRAFT" \in Statuses /\ "BUILDING" \in Statuses
      /\ "ACTIVE" \in Statuses /\ "DELETING" \in Statuses
  BY DEF Statuses, Settled, Transient
<1>i. i \in Instances /\ row[i] \in Rows
  BY DEF TypeOK
<1>1. CASE Configure(r)
  <2>1. WithStatus(i, "DRAFT") \in Rows /\ WithStatus(i, "ERROR") \in Rows
    BY <1>t, <1>i, WithStatusType
  <2>2. row' \in [Instances -> Rows]
    BY <1>1, <1>i, <2>1 DEF Configure, TypeOK, Rows
  <2> QED
    BY <1>1, <2>2 DEF Configure, TypeOK, RequestGoes, RequestStages
<1>2. CASE InstanceLost(r) \/ PreCreate(r) \/ PreHookRaises(r) \/ BeginAction(r)
  BY <1>2 DEF InstanceLost, PreCreate, PreHookRaises, BeginAction, TypeOK,
              RequestGoes, RequestStages
<1>3. CASE AdoptResource(r)
  <2>1. row' \in [Instances -> Rows]
    BY <1>3, <1>i DEF AdoptResource, TypeOK, Rows, Uuids
  <2> QED
    BY <1>3, <1>i, <2>1 DEF AdoptResource, TypeOK, RequestGoes, RequestStages
<1>4. CASE Expunge(r)
  <2>1. row' \in [Instances -> Rows]
    BY <1>4, <1>i DEF Expunge, TypeOK, Rows, RowStates
  <2> QED
    BY <1>4, <2>1 DEF Expunge, TypeOK, RequestGoes, RequestStages
<1>5. CASE PreImport(r)
  <2>1. row' \in [Instances -> Rows]
    BY <1>5, <1>i, <1>t, UpdateStatusType DEF PreImport, TypeOK, Rows, Uuids
  <2>2. remote' \in [Instances -> SUBSET {"own", "given"}]
    BY <1>5, <1>i DEF PreImport, TypeOK
  <2> QED
    BY <1>5, <2>1, <2>2 DEF PreImport, TypeOK, RequestGoes, RequestStages
<1>6. CASE SubmitCreate(r)
  <2>1. row' \in [Instances -> Rows]
    BY <1>6, <1>i, <1>t, UpdateStatusType DEF SubmitCreate, TypeOK
  <2>2. job' \in [Requests -> Jobs]
    <3>1. job' = [job EXCEPT ![r].queued = "class"] \/ job' = job
      BY <1>6 DEF SubmitCreate
    <3> QED
      BY <3>1 DEF TypeOK, Jobs
  <2> QED
    BY <1>6, <2>1, <2>2 DEF SubmitCreate, TypeOK, RequestGoes, TaskGoes,
                            RequestStages, TaskStages
<1>7. CASE BeginUpdate(r) \/ BeginPatch(r) \/ BeginDelete(r)
  <2>1. row' \in [Instances -> Rows]
    BY <1>7, <1>i, <1>t, UpdateStatusType DEF BeginUpdate, BeginPatch, BeginDelete
  <2> QED
    BY <1>7, <2>1 DEF BeginUpdate, BeginPatch, BeginDelete, TypeOK, RequestGoes,
                      RequestStages
<1>8. CASE UpdatePrelude(r)
  <2>1. row' \in [Instances -> Rows]
    BY <1>8, <1>i DEF UpdatePrelude, TypeOK, Rows, Uuids
  <2>2. remote' \in [Instances -> SUBSET {"own", "given"}]
    BY <1>8, <1>i DEF UpdatePrelude, TypeOK
  <2> QED
    BY <1>8, <2>1, <2>2 DEF UpdatePrelude, TypeOK, RequestGoes, RequestStages
<1>9. CASE UpdateTags(r)
  <2>1. row' \in [Instances -> Rows]
    BY <1>9, <1>i, UpdateStatusType DEF UpdateTags, TypeOK
  <2> QED
    BY <1>9, <2>1 DEF UpdateTags, TypeOK, RequestGoes, RequestStages
<1>10. CASE Dispatch(r)
  <2>1. PICK uuid \in CheckResource(On(r)) :
          job' = [job EXCEPT ![r].queued = "class", ![r].uuid = uuid]
    BY <1>10 DEF Dispatch
  <2>2. uuid \in Uuids
    BY <1>i, <2>1, CheckResourceType
  <2>3. job' \in [Requests -> Jobs]
    BY <2>1, <2>2 DEF TypeOK, Jobs
  <2> QED
    BY <1>10, <2>3 DEF Dispatch, TypeOK, RequestGoes, TaskGoes, RequestStages,
                       TaskStages
<1>11. CASE DispatchRaises(r) \/ FinishRaises(r)
  <2>1. row' \in [Instances -> Rows]
    BY <1>11, <1>i, <1>t, UpdateStatusType
       DEF DispatchRaises, FinishRaises, RequestRaises
  <2> QED
    BY <1>11, <2>1 DEF DispatchRaises, FinishRaises, RequestRaises, TypeOK,
                       RequestGoes, RequestStages
<1>12. CASE PostHook(r)
  <2>1. row' \in [Instances -> Rows]
    BY <1>12, <1>i, <1>t, UpdateStatusType DEF PostHook, RequestRaises, TypeOK
  <2> QED
    BY <1>12, <2>1 DEF PostHook, RequestRaises, TypeOK, RequestGoes, RequestStages
<1>13. CASE FinishHere(r)
  <2>1. \/ UNCHANGED row /\ (RequestGoes(r, "done") \/ RequestGoes(r, "delete_config"))
        \/ UpdateStatus(On(r), "ACTIVE") /\ RequestGoes(r, "done")
    BY <1>13 DEF FinishHere
  <2>2. row' \in [Instances -> Rows]
    BY <2>1, <1>i, <1>t, UpdateStatusType DEF TypeOK
  <2>3. rpc' \in [Requests -> RequestStages]
    BY <2>1 DEF TypeOK, RequestGoes, RequestStages
  <2> QED
    BY <1>13, <2>2, <2>3 DEF FinishHere, TypeOK
<1>14. CASE DeleteConfigHere(r) \/ DeleteRowHere(r)
  <2>1. row' \in [Instances -> Rows]
    BY <1>14, <1>i, DeletedType DEF DeleteConfigHere, DeleteRowHere
  <2> QED
    BY <1>14, <2>1 DEF DeleteConfigHere, DeleteRowHere, TypeOK, RequestGoes,
                       RequestStages
<1>15. CASE DeleteHereRaises(r)
  <2>1. row' \in [Instances -> Rows]
    BY <1>15, <1>i, <1>t, UpdateStatusType DEF DeleteHereRaises, RequestRaises, TypeOK
  <2> QED
    BY <1>15, <2>1 DEF DeleteHereRaises, RequestRaises, TypeOK, RequestGoes,
                       RequestStages
<1> QED
  BY <1>1, <1>2, <1>3, <1>4, <1>5, <1>6, <1>7, <1>8, <1>9, <1>10, <1>11, <1>12,
     <1>13, <1>14, <1>15 DEF RequestStep

\* The steps of a celery task keep the type invariant.
LEMMA TaskStepType ==
  ASSUME TypeOK, NEW r \in Requests, TaskStep(r)
  PROVE  TypeOK'
<1> USE JobType
<1> DEFINE i == On(r)
<1>t. /\ "ERROR" \in Statuses /\ "CREATED" \in Statuses /\ "ACTIVE" \in Statuses
  BY DEF Statuses, Settled, Transient
<1>i. i \in Instances /\ row[i] \in Rows
  BY DEF TypeOK
<1>1. CASE TaskLoad(r) \/ TaskDeleteRaises(r)
  BY <1>1 DEF TaskLoad, TaskDeleteRaises, TypeOK, TaskGoes, TaskStages
<1>2. CASE CreateResource(r)
  <2>1. row' \in [Instances -> Rows]
    BY <1>2, <1>i DEF CreateResource, TypeOK, Rows, Uuids, Statuses, Transient
  <2>2. remote' \in [Instances -> SUBSET {"own", "given"}]
    BY <1>2, <1>i DEF CreateResource, TypeOK
  <2> QED
    BY <1>2, <2>1, <2>2 DEF CreateResource, TypeOK, TaskGoes, TaskStages
<1>3. CASE CreateResourceRaises(r)
  <2>1. row' \in [Instances -> Rows]
    BY <1>3, <1>i, <1>t, UpdateStatusType DEF CreateResourceRaises
  <2>2. remote' \in [Instances -> SUBSET {"own", "given"}]
    BY <1>3, <1>i DEF CreateResourceRaises, TypeOK
  <2> QED
    BY <1>3, <2>1, <2>2 DEF CreateResourceRaises, TypeOK, TaskGoes, TaskStages
<1>4. CASE WaitResource(r) \/ ChangeResource(r) \/ TaskActivates(r) \/ TaskFailure(r)
  <2>1. row' \in [Instances -> Rows]
    BY <1>4, <1>i, <1>t, UpdateStatusType
       DEF WaitResource, ChangeResource, TaskActivates, TaskFailure, TypeOK
  <2> QED
    BY <1>4, <2>1 DEF WaitResource, ChangeResource, TaskActivates, TaskFailure,
                      TypeOK, TaskGoes, TaskStages
<1>5. CASE DeleteResource(r)
  <2>1. row' \in [Instances -> Rows]
    BY <1>5, <1>i, <1>t, UpdateStatusType DEF DeleteResource, TypeOK
  <2>2. remote' \in [Instances -> SUBSET {"own", "given"}]
    <3>1. \/ UNCHANGED remote
          \/ \E uuid : remote' = [remote EXCEPT ![i] = @ \ {uuid}]
      BY <1>5 DEF DeleteResource
    <3> QED
      BY <3>1, <1>i DEF TypeOK
  <2> QED
    BY <1>5, <2>1, <2>2 DEF DeleteResource, TypeOK, TaskGoes, TaskStages
<1>6. CASE TaskDeletesConfig(r) \/ TaskDeletesRow(r)
  <2>1. row' \in [Instances -> Rows]
    BY <1>6, <1>i, DeletedType DEF TaskDeletesConfig, TaskDeletesRow
  <2> QED
    BY <1>6, <2>1 DEF TaskDeletesConfig, TaskDeletesRow, TypeOK, TaskGoes, TaskStages
<1> QED
  BY <1>1, <1>2, <1>3, <1>4, <1>5, <1>6 DEF TaskStep

\* The initial states have the right types.
LEMMA InitType == Init => TypeOK
<1> SUFFICES ASSUME Init PROVE TypeOK
  OBVIOUS
<1>1. PICK i0 \in Instances : i0 = CHOOSE i \in Instances : TRUE
  BY ConstantsAssumption DEF ConstantsAssumption
<1>2. Job("action", i0, "DRAFT", {}) \in Jobs
  BY DEF Job, Jobs, OperationKinds, Statuses, Transient, Uuids
<1>3. job \in [Requests -> Jobs]
  BY <1>1, <1>2 DEF Init
<1>4. OldRow \in Rows /\ NoRow \in Rows
  BY DEF OldRow, NoRow, Rows, RowStates, Statuses, Settled, Transient, Uuids
<1>5. row \in [Instances -> Rows]
  BY <1>4 DEF Init
<1> QED
  BY <1>3, <1>5 DEF Init, TypeOK, RequestStages, TaskStages

\* Every variable holds values of its kind, for any number of instances,
\* requests, options and faults.
THEOREM TypeCorrect == Spec => []TypeOK
<1>1. TypeOK /\ [Next]_vars => TypeOK'
  <2> SUFFICES ASSUME TypeOK, [Next]_vars PROVE TypeOK'
    OBVIOUS
  <2>1. CASE Next
    BY <2>1, ArriveType, RequestStepType, TaskStepType DEF Next
  <2>2. CASE UNCHANGED vars
    BY <2>2 DEF vars, TypeOK
  <2> QED
    BY <2>1, <2>2
<1> QED
  BY InitType, <1>1, PTL DEF Spec

----------------------------------------------------------------------------
(* Every status that refuses operations has an owner.                      *)

\* Request r is the owner of a status, or is the one that abandoned it.
Holds(r) == RequestWorks(r) \/ TaskWorks(r) \/ rpc[r] = "escaped"

\* What the handlers keep true on the way: a request that still has to submit
\* its operation, or escaped before it did, has queued nothing, the stages of a
\* creation belong to add and import, and update puts back a status that
\* check_status accepted.
HandlersOK ==
  \A r \in Requests :
    /\ rpc[r] \notin {"post", "done", "failed"} => tpc[r] = "none"
    /\ rpc[r] \in {"configure", "pre_create", "pre_import", "submit"} => Op(r) # "action"
    /\ rpc[r] \in {"loaded", "prelude", "tags"} /\ Op(r) = "update"
         => job[r].seen \in Settled
    /\ rpc[r] \in {"prelude", "tags"} => Op(r) = "update"
    /\ tpc[r] \in {"wait", "finish", "delete_config", "delete_row"} => Op(r) # "action"

Inv == TypeOK /\ HandlersOK /\ NoUnownedTransit

\* A step of request r or its task touches nothing else.
OnlyBy(r) ==
  /\ \A q \in Requests \ {r} : rpc'[q] = rpc[q] /\ tpc'[q] = tpc[q] /\ job'[q] = job[q]
  /\ \A k \in Instances \ {job'[r].on} : row'[k] = row[k]

\* The argument of the proof, for every action: NoUnownedTransit survives a
\* step of r when r gives up its instance only once it is out of transit, and
\* when an instance that r brings into transit is held by r.
LEMMA OwnerStep ==
  ASSUME TypeOK, NoUnownedTransit, NEW r \in Requests, OnlyBy(r),
         NEW i \in Instances, job'[r].on = i,
         On(r) = i \/ ~Holds(r),
         InTransit(i)' => Holds(r)' \/ (InTransit(i) /\ ~Holds(r))
  PROVE  NoUnownedTransit'
<1> SUFFICES ASSUME NEW k \in Instances, InTransit(k)'
             PROVE  \E q \in Requests : job'[q].on = k /\ Holds(q)'
  BY DEF NoUnownedTransit, WorkedOn, EscapedOn, Holds, On
<1>1. CASE k = i /\ Holds(r)'
  BY <1>1
<1>2. CASE ~(k = i /\ Holds(r)')
  <2>1. InTransit(k)
    <3>1. CASE k = i
      BY <1>2, <3>1
    <3>2. CASE k # i
      BY <3>2 DEF OnlyBy, InTransit, Visible
    <3> QED
      BY <3>1, <3>2
  <2>2. PICK q \in Requests : On(q) = k /\ Holds(q)
    BY <2>1 DEF NoUnownedTransit, WorkedOn, EscapedOn, Holds
  <2>3. q # r
    BY <1>2, <2>2
  <2>4. job'[q] = job[q] /\ (Holds(q) <=> Holds(q)')
    BY <2>3 DEF OnlyBy, Op, Holds, RequestWorks, TaskWorks
  <2> QED
    BY <2>2, <2>4 DEF On
<1> QED
  BY <1>1, <1>2

\* A settled status leaves no instance in transit and touches one row.
LEMMA SettledWrite ==
  ASSUME TypeOK, NEW i \in Instances, NEW s \in Settled, UpdateStatus(i, s)
  PROVE  ~InTransit(i)' /\ \A k \in Instances \ {i} : row'[k] = row[k]
BY DEF TypeOK, Rows, UpdateStatus, WithStatus, InTransit, Visible, Stored

\* Any status write touches one row.
LEMMA OneRow ==
  ASSUME TypeOK, NEW i \in Instances, NEW s, UpdateStatus(i, s)
  PROVE  \A k \in Instances \ {i} : row'[k] = row[k]
BY DEF TypeOK, UpdateStatus

\* A request arrives: the row it inserts is its own, and it held nothing before.
LEMMA ArriveOwned ==
  ASSUME Inv, NEW r \in Requests, Arrive(r)
  PROVE  /\ HandlersOK' /\ NoUnownedTransit'
         /\ OnlyBy(r) /\ ~Holds(r) /\ rpc'[r] # "escaped"
         /\ row' = row \/ Holds(r)'
<1> USE DEF Inv
<1>1. PICK i \in Instances : InsertInstance(r, i) \/ Load(r, i)
  BY DEF Arrive
<1>2. /\ rpc[r] = "idle" /\ tpc[r] = "none" /\ ~Holds(r)
  BY <1>1 DEF InsertInstance, Load, RequestAt, HandlersOK, Holds, RequestWorks, TaskWorks
<1>3. CASE InsertInstance(r, i)
  <2>a. PICK op \in {"add", "import"} :
          \E opts \in SUBSET OptionsOf(op, i) :
            job' = [job EXCEPT ![r] = Job(op, i, "DRAFT", opts)]
    BY <1>3, Zenon DEF InsertInstance
  <2>1. PICK opts \in SUBSET OptionsOf(op, i) :
          job' = [job EXCEPT ![r] = Job(op, i, "DRAFT", opts)]
    BY <2>a
  <2>2. job'[r].on = i /\ job'[r].op = op
    BY <2>1 DEF TypeOK, Job
  <2>3. OnlyBy(r)
    BY <1>3, <2>1, <2>2 DEF OnlyBy, InsertInstance, RequestGoes, TypeOK
  <2>4. rpc'[r] = "configure"
    BY <1>3 DEF InsertInstance, RequestGoes, TypeOK
  <2>5. Holds(r)'
    BY <2>4 DEF Holds, RequestWorks
  <2>6. NoUnownedTransit'
    BY <1>2, <2>2, <2>3, <2>5, OwnerStep
  <2>7. HandlersOK'
    BY <1>2, <1>3, <2>2, <2>3, <2>4 DEF HandlersOK, OnlyBy, InsertInstance, Op
  <2> QED
    BY <1>2, <2>3, <2>4, <2>5, <2>6, <2>7
<1>4. CASE Load(r, i)
  <2>1. PICK op, opts :
          /\ \/ op = "action" \/ op = "delete"
             \/ row[i].status \in Settled
          /\ job' = [job EXCEPT ![r] = Job(op, i, row[i].status, opts)]
    BY <1>4 DEF Load
  <2>2. /\ job'[r].on = i
        /\ job'[r].op = "update" => job'[r].seen \in Settled
    BY <2>1 DEF TypeOK, Job
  <2>3. OnlyBy(r)
    BY <1>4, <2>1, <2>2 DEF OnlyBy, Load, RequestGoes, TypeOK
  <2>4. rpc'[r] = "loaded" /\ row' = row /\ tpc' = tpc
    BY <1>4 DEF Load, RequestGoes, TypeOK
  <2>5. NoUnownedTransit'
    BY <1>2, <2>2, <2>3, <2>4, OwnerStep DEF InTransit, Visible
  <2>6. HandlersOK'
    BY <1>2, <2>2, <2>3, <2>4 DEF HandlersOK, OnlyBy, Op
  <2> QED
    BY <1>2, <2>3, <2>4, <2>5, <2>6
<1> QED
  BY <1>1, <1>3, <1>4

\* What a step of request r owes: nobody else is touched, the job stays on its
\* instance, and the instance is left settled, held, or as it was.
Owes(r, i) ==
  /\ OnlyBy(r)
  /\ On(r) = i /\ job'[r].on = i
  /\ InTransit(i)' => Holds(r)' \/ (InTransit(i) /\ ~Holds(r))

\* The steps of a request.
LEMMA RequestStepOwned ==
  ASSUME Inv, NEW r \in Requests, RequestStep(r)
  PROVE  HandlersOK' /\ NoUnownedTransit' /\ \E i \in Instances : Owes(r, i)
<1> USE DEF Inv
<1>i. PICK i \in Instances : i = On(r) /\ i = job[r].on
  BY JobType DEF On
<1> USE <1>i
<1>s. "ERROR" \in Settled /\ "ACTIVE" \in Settled
  BY DEF Settled
<1>h. /\ rpc[r] \notin {"post", "done", "failed"} => tpc[r] = "none"
      /\ rpc[r] \in {"configure", "pre_create", "pre_import", "submit"} => Op(r) # "action"
      /\ rpc[r] \in {"loaded", "prelude", "tags"} /\ Op(r) = "update"
           => job[r].seen \in Settled
      /\ rpc[r] \in {"prelude", "tags"} => Op(r) = "update"
      /\ tpc[r] \in {"wait", "finish", "delete_config", "delete_row"} => Op(r) # "action"
  BY DEF HandlersOK
<1>q. Owes(r, i) => NoUnownedTransit'
  BY OwnerStep DEF Owes
<1>1. CASE Configure(r)
  <2>1. rpc[r] = "configure" /\ Op(r) # "action" /\ UNCHANGED <<tpc, job>>
    BY <1>1, <1>h DEF Configure, RequestAt
  <2>2. OnlyBy(r)
    BY <1>1, <1>i DEF Configure, OnlyBy, RequestGoes, TypeOK, On
  <2>3. \/ rpc'[r] \in {"pre_create", "pre_import", "escaped"}
        \/ rpc'[r] = "failed" /\ ~InTransit(i)'
    <3>1. CASE rpc'[r] = "failed"
      <4>1. PICK config \in {"none", "live"} :
               row' = [row EXCEPT ![i] = [WithStatus(i, "ERROR") EXCEPT !.config = config]]
        BY <1>1, <3>1 DEF Configure, RequestGoes, TypeOK
      <4> QED
        BY <3>1, <4>1, <1>i DEF WithStatus, TypeOK, Rows, InTransit, Visible, Stored, Settled
    <3>2. CASE rpc'[r] # "failed"
      BY <1>1, <3>2 DEF Configure, RequestGoes, TypeOK
    <3> QED
      BY <3>1, <3>2
  <2>4. Owes(r, i)
    BY <2>1, <2>2, <2>3 DEF Owes, Holds, RequestWorks, On
  <2>5. HandlersOK'
    <3>1. rpc'[r] \in {"pre_create", "pre_import", "escaped", "failed"}
      BY <2>3
    <3> QED
      BY <2>1, <2>2, <3>1, <1>h DEF HandlersOK, OnlyBy, Op
  <2> QED
    BY <1>q, <2>4, <2>5
<1>2. CASE InstanceLost(r) \/ Expunge(r)
  <2>1. rpc'[r] = "failed" /\ UNCHANGED <<tpc, job>>
    BY <1>2 DEF InstanceLost, Expunge, RequestGoes, TypeOK
  <2>2. OnlyBy(r)
    BY <1>2, <1>i DEF InstanceLost, Expunge, OnlyBy, RequestGoes, TypeOK, On
  <2>3. ~InTransit(i)'
    BY <1>2, <1>i DEF InstanceLost, Expunge, InTransit, Visible, TypeOK, Rows
  <2>4. Owes(r, i)
    BY <2>1, <2>2, <2>3 DEF Owes, On
  <2>5. HandlersOK'
    BY <2>1, <2>2, <1>h DEF HandlersOK, OnlyBy, Op
  <2> QED
    BY <1>q, <2>4, <2>5
<1>3. CASE AdoptResource(r) \/ PreCreate(r) \/ PreImport(r)
  <2>1. /\ rpc[r] \in {"pre_create", "pre_import"} /\ Op(r) # "action"
        /\ rpc'[r] \in {"escaped", "submit", "dispatch"} /\ UNCHANGED <<tpc, job>>
    BY <1>3, <1>h DEF AdoptResource, PreCreate, PreImport, RequestAt, RequestGoes, TypeOK
  <2>2. OnlyBy(r)
    BY <1>3, <1>i, OneRow
       DEF AdoptResource, PreCreate, PreImport, OnlyBy, RequestGoes, TypeOK, On
  <2>3. Holds(r)'
    BY <2>1 DEF Holds, RequestWorks, Op
  <2>4. Owes(r, i)
    BY <2>1, <2>2, <2>3 DEF Owes, On
  <2>5. HandlersOK'
    BY <2>1, <2>2, <1>h DEF HandlersOK, OnlyBy, Op
  <2> QED
    BY <1>q, <2>4, <2>5
<1>4. CASE SubmitCreate(r)
  <2>1. /\ rpc[r] = "submit" /\ Op(r) # "action"
        /\ job'[r].on = i /\ Op(r)' = Op(r)
        /\ \/ rpc'[r] = "post" /\ tpc'[r] = "queued"
           \/ rpc'[r] = "dispatch" /\ tpc'[r] = tpc[r]
    <3>1. job' = [job EXCEPT ![r].queued = "class"] \/ job' = job
      BY <1>4 DEF SubmitCreate
    <3>2. job'[r].on = i /\ Op(r)' = Op(r)
      BY <3>1 DEF TypeOK, Jobs, On, Op
    <3> QED
      BY <1>4, <1>h, <3>2 DEF SubmitCreate, RequestAt, RequestGoes, TaskGoes, TypeOK
  <2>2. OnlyBy(r)
    <3>1. \A q \in Requests \ {r} : rpc'[q] = rpc[q] /\ tpc'[q] = tpc[q] /\ job'[q] = job[q]
      BY <1>4 DEF SubmitCreate, RequestGoes, TaskGoes, TypeOK
    <3>2. \A k \in Instances \ {i} : row'[k] = row[k]
      BY <1>4, <1>i, OneRow DEF SubmitCreate
    <3> QED
      BY <2>1, <3>1, <3>2 DEF OnlyBy
  <2>3. Holds(r)'
    BY <2>1 DEF Holds, RequestWorks, TaskWorks
  <2>4. Owes(r, i)
    BY <2>1, <2>2, <2>3 DEF Owes
  <2>5. HandlersOK'
    BY <2>1, <2>2, <1>h DEF HandlersOK, OnlyBy, Op
  <2> QED
    BY <1>q, <2>4, <2>5
<1>5. CASE PreHookRaises(r) \/ BeginAction(r)
  <2>1. /\ rpc[r] = "loaded" /\ tpc[r] = "none" /\ UNCHANGED <<row, tpc, job>>
        /\ rpc'[r] = "failed" \/ (rpc'[r] = "dispatch" /\ Op(r) = "action")
    BY <1>5, <1>h DEF PreHookRaises, BeginAction, RequestAt, RequestGoes, TypeOK
  <2>2. OnlyBy(r)
    BY <1>5 DEF PreHookRaises, BeginAction, OnlyBy, RequestGoes, TypeOK
  <2>3. ~Holds(r)
    BY <2>1 DEF Holds, RequestWorks, TaskWorks
  <2>4. Owes(r, i)
    BY <2>1, <2>2, <2>3 DEF Owes, InTransit, Visible, On
  <2>5. HandlersOK'
    BY <2>1, <2>2, <1>h DEF HandlersOK, OnlyBy, Op
  <2> QED
    BY <1>q, <2>4, <2>5
<1>6. CASE BeginUpdate(r) \/ BeginPatch(r) \/ BeginDelete(r)
  <2>1. /\ rpc[r] = "loaded" /\ Op(r) # "action" /\ UNCHANGED <<tpc, job>>
        /\ rpc'[r] \in {"prelude", "dispatch", "delete_config"}
        /\ rpc'[r] = "prelude" => Op(r) = "update"
        /\ \E s : UpdateStatus(i, s)
    BY <1>6 DEF BeginUpdate, BeginPatch, BeginDelete, RequestAt, RequestGoes, TypeOK
  <2>2. OnlyBy(r)
    <3>1. \A k \in Instances \ {i} : row'[k] = row[k]
      BY <2>1, <1>i, OneRow
    <3> QED
      BY <1>6, <2>1, <3>1
         DEF BeginUpdate, BeginPatch, BeginDelete, OnlyBy, RequestGoes, TypeOK, On
  <2>3. Holds(r)'
    BY <2>1 DEF Holds, RequestWorks, Op
  <2>4. Owes(r, i)
    BY <2>1, <2>2, <2>3 DEF Owes, On
  <2>5. HandlersOK'
    BY <2>1, <2>2, <1>h DEF HandlersOK, OnlyBy, Op
  <2> QED
    BY <1>q, <2>4, <2>5
<1>7. CASE UpdatePrelude(r)
  <2>1. /\ rpc[r] = "prelude" /\ UNCHANGED <<tpc, job>>
        /\ rpc'[r] \in {"tags", "escaped"}
    BY <1>7 DEF UpdatePrelude, RequestAt, RequestGoes, TypeOK
  <2>2. OnlyBy(r)
    BY <1>7, <1>i, <2>1 DEF UpdatePrelude, OnlyBy, RequestGoes, TypeOK, On
  <2>3. Holds(r)'
    BY <2>1 DEF Holds, RequestWorks
  <2>4. Owes(r, i)
    BY <2>1, <2>2, <2>3 DEF Owes, On
  <2>5. HandlersOK'
    BY <2>1, <2>2, <1>h DEF HandlersOK, OnlyBy, Op
  <2> QED
    BY <1>q, <2>4, <2>5
<1>8. CASE UpdateTags(r)
  <2>1. /\ rpc[r] = "tags" /\ UNCHANGED <<tpc, job>>
        /\ rpc'[r] \in {"dispatch", "failed"}
    BY <1>8 DEF UpdateTags, RequestAt, RequestGoes, TypeOK
  <2>2. OnlyBy(r)
    <3>1. \A k \in Instances \ {i} : row'[k] = row[k]
      BY <1>8, OneRow DEF UpdateTags
    <3> QED
      BY <1>8, <2>1, <3>1 DEF UpdateTags, OnlyBy, RequestGoes, TypeOK
  <2>3. rpc'[r] = "dispatch" => Op(r) = "action" \/ Holds(r)'
    BY <2>1 DEF Holds, RequestWorks, Op
  <2>4. Op(r) = "update"
    BY <2>1, <1>h
  <2>5. rpc'[r] = "failed" => ~InTransit(i)'
    BY <1>8, <2>1, <2>4, <1>h, SettledWrite DEF UpdateTags, RequestGoes, TypeOK
  <2>6. Owes(r, i)
    BY <2>1, <2>2, <2>3, <2>4, <2>5 DEF Owes
  <2>7. HandlersOK'
    BY <2>1, <2>2, <1>h DEF HandlersOK, OnlyBy, Op
  <2> QED
    BY <1>q, <2>6, <2>7
<1>9. CASE Dispatch(r)
  <2>1. PICK uuid : job' = [job EXCEPT ![r].queued = "class", ![r].uuid = uuid]
    BY <1>9 DEF Dispatch
  <2>2. /\ rpc[r] = "dispatch" /\ tpc[r] = "none" /\ UNCHANGED row
        /\ rpc'[r] = "post" /\ tpc'[r] = "queued"
        /\ job'[r].on = i /\ Op(r)' = Op(r)
    BY <1>9, <2>1, <1>h DEF Dispatch, RequestAt, RequestGoes, TaskGoes, TypeOK, Jobs, Op
  <2>3. OnlyBy(r)
    BY <1>9, <2>1, <2>2 DEF Dispatch, OnlyBy, RequestGoes, TaskGoes, TypeOK
  <2>4. Op(r) # "action" => Holds(r)'
    BY <2>2 DEF Holds, TaskWorks
  <2>5. Op(r) = "action" => ~Holds(r)
    BY <2>2 DEF Holds, RequestWorks, TaskWorks
  <2>6. Owes(r, i)
    BY <2>2, <2>3, <2>4, <2>5 DEF Owes, InTransit, Visible
  <2>7. HandlersOK'
    BY <2>2, <2>3, <1>h DEF HandlersOK, OnlyBy, Op
  <2> QED
    BY <1>q, <2>6, <2>7
<1>10. CASE DispatchRaises(r) \/ FinishRaises(r)
  <2>1. RequestRaises(r) /\ UNCHANGED <<tpc, job>>
    BY <1>10 DEF DispatchRaises, FinishRaises
  <2>2. /\ rpc'[r] = "failed" /\ ~InTransit(i)'
        /\ \A k \in Instances \ {i} : row'[k] = row[k]
    BY <1>s, <2>1, SettledWrite DEF RequestRaises, RequestGoes, TypeOK
  <2>3. OnlyBy(r)
    BY <2>1, <2>2 DEF OnlyBy, RequestRaises, RequestGoes, TypeOK
  <2>4. Owes(r, i)
    BY <2>1, <2>2, <2>3 DEF Owes
  <2>5. HandlersOK'
    BY <2>1, <2>2, <2>3, <1>h DEF HandlersOK, OnlyBy, Op
  <2> QED
    BY <1>q, <2>4, <2>5
<1>11. CASE PostHook(r)
  <2>1. /\ rpc[r] = "post" /\ UNCHANGED <<tpc, job>>
        /\ \/ RequestGoes(r, "done") /\ UNCHANGED row
           \/ RequestRaises(r)
    BY <1>11 DEF PostHook, RequestAt
  <2>2. /\ \A k \in Instances \ {i} : row'[k] = row[k]
        /\ rpc'[r] \in {"done", "failed"}
        /\ row' = row \/ ~InTransit(i)'
    BY <1>s, <2>1, SettledWrite DEF RequestRaises, RequestGoes, TypeOK
  <2>3. OnlyBy(r)
    BY <2>1, <2>2 DEF OnlyBy, RequestRaises, RequestGoes, TypeOK
  <2>4. TaskWorks(r) => Holds(r)'
    BY <2>1 DEF Holds, TaskWorks, Op
  <2>5. ~TaskWorks(r) => ~Holds(r)
    BY <2>1 DEF Holds, RequestWorks
  <2>6. Owes(r, i)
    BY <2>1, <2>2, <2>3, <2>4, <2>5 DEF Owes, InTransit, Visible
  <2>7. HandlersOK'
    BY <2>1, <2>2, <2>3, <1>h DEF HandlersOK, OnlyBy, Op
  <2> QED
    BY <1>q, <2>6, <2>7
<1>12. CASE FinishHere(r)
  <2>1. /\ rpc[r] = "dispatch" /\ tpc[r] = "none" /\ UNCHANGED <<tpc, job>>
        /\ \/ RequestGoes(r, "delete_config") /\ UNCHANGED row
           \/ RequestGoes(r, "done") /\ UNCHANGED row /\ Op(r) = "action"
           \/ RequestGoes(r, "done") /\ UpdateStatus(i, "ACTIVE")
    BY <1>12, <1>h DEF FinishHere, RequestAt
  <2>2. /\ \A k \in Instances \ {i} : row'[k] = row[k]
        /\ \/ rpc'[r] = "delete_config"
           \/ rpc'[r] = "done" /\ row' = row /\ Op(r) = "action"
           \/ rpc'[r] = "done" /\ ~InTransit(i)'
    BY <1>s, <2>1, SettledWrite DEF RequestGoes, TypeOK
  <2>3. OnlyBy(r)
    BY <2>1, <2>2 DEF OnlyBy, RequestGoes, TypeOK
  <2>4. rpc'[r] = "delete_config" => Holds(r)'
    BY DEF Holds, RequestWorks
  <2>5. Op(r) = "action" => ~Holds(r)
    BY <2>1 DEF Holds, RequestWorks, TaskWorks
  <2>6. Owes(r, i)
    BY <2>1, <2>2, <2>3, <2>4, <2>5 DEF Owes, InTransit, Visible
  <2>7. HandlersOK'
    BY <2>1, <2>2, <2>3, <1>h DEF HandlersOK, OnlyBy, Op
  <2> QED
    BY <1>q, <2>6, <2>7
<1>13. CASE DeleteConfigHere(r) \/ DeleteRowHere(r)
  <2>1. /\ rpc[r] \in {"delete_config", "delete_row"} /\ UNCHANGED <<tpc, job>>
        /\ \/ rpc'[r] = "delete_row" /\ ConfigDeleted(i)
           \/ rpc'[r] = "done" /\ RowDeleted(i)
    BY <1>13 DEF DeleteConfigHere, DeleteRowHere, RequestAt, RequestGoes, TypeOK
  <2>2. OnlyBy(r)
    BY <1>13, <2>1 DEF DeleteConfigHere, DeleteRowHere, OnlyBy, RequestGoes,
                       ConfigDeleted, RowDeleted, TypeOK
  <2>3. RowDeleted(i) => ~InTransit(i)'
    BY DEF RowDeleted, InTransit, Visible, Stored, TypeOK, Rows
  <2>4. rpc'[r] = "delete_row" => Holds(r)'
    BY DEF Holds, RequestWorks
  <2>5. Owes(r, i)
    BY <2>1, <2>2, <2>3, <2>4 DEF Owes
  <2>6. HandlersOK'
    BY <2>1, <2>2, <1>h DEF HandlersOK, OnlyBy, Op
  <2> QED
    BY <1>q, <2>5, <2>6
<1>14. CASE DeleteHereRaises(r)
  <2>1. /\ rpc[r] \in {"delete_config", "delete_row"} /\ UNCHANGED <<tpc, job>>
        /\ \/ RequestGoes(r, "escaped") /\ UNCHANGED row
           \/ RequestRaises(r)
    BY <1>14 DEF DeleteHereRaises, RequestAt
  <2>2. /\ \A k \in Instances \ {i} : row'[k] = row[k]
        /\ rpc'[r] = "escaped" \/ (rpc'[r] = "failed" /\ ~InTransit(i)')
    BY <1>s, <2>1, SettledWrite DEF RequestRaises, RequestGoes, TypeOK
  <2>3. OnlyBy(r)
    BY <2>1, <2>2 DEF OnlyBy, RequestRaises, RequestGoes, TypeOK
  <2>4. rpc'[r] = "escaped" => Holds(r)'
    BY DEF Holds
  <2>5. Owes(r, i)
    BY <2>1, <2>2, <2>3, <2>4 DEF Owes
  <2>6. HandlersOK'
    BY <2>1, <2>2, <2>3, <1>h DEF HandlersOK, OnlyBy, Op
  <2> QED
    BY <1>q, <2>5, <2>6
<1> QED
  BY <1>1, <1>2, <1>3, <1>4, <1>5, <1>6, <1>7, <1>8, <1>9, <1>10, <1>11, <1>12,
     <1>13, <1>14 DEF RequestStep

\* The steps of a celery task. Only the stage of the task changes: the task is
\* at work before the step.
LEMMA TaskStepOwned ==
  ASSUME Inv, NEW r \in Requests, TaskStep(r)
  PROVE  HandlersOK' /\ NoUnownedTransit' /\ \E i \in Instances : Owes(r, i)
<1> USE DEF Inv
<1>i. PICK i \in Instances : i = On(r) /\ i = job[r].on
  BY JobType DEF On
<1> USE <1>i
<1>s. "ERROR" \in Settled /\ "ACTIVE" \in Settled
  BY DEF Settled
<1>q. Owes(r, i) => NoUnownedTransit'
  BY OwnerStep DEF Owes
<1>1. tpc[r] \notin {"none", "ended"} /\ UNCHANGED <<rpc, job>>
  BY DEF TaskStep, TaskAt, TaskLoad, CreateResource, CreateResourceRaises,
         WaitResource, ChangeResource, DeleteResource, TaskActivates,
         TaskDeletesConfig, TaskDeletesRow, TaskDeleteRaises, TaskFailure
<1>2. \E stage \in TaskStages : TaskGoes(r, stage)
  BY DEF TaskStep, TaskStages, TaskLoad, CreateResource, CreateResourceRaises,
         WaitResource, ChangeResource, DeleteResource, TaskActivates,
         TaskDeletesConfig, TaskDeletesRow, TaskDeleteRaises, TaskFailure
<1>3. \A k \in Instances \ {i} : row'[k] = row[k]
  <2>1. CASE TaskLoad(r) \/ TaskDeleteRaises(r)
    BY <2>1 DEF TaskLoad, TaskDeleteRaises
  <2>2. CASE CreateResource(r)
    BY <2>2 DEF CreateResource, TypeOK
  <2>3. CASE \/ CreateResourceRaises(r) \/ WaitResource(r) \/ ChangeResource(r)
             \/ DeleteResource(r) \/ TaskActivates(r) \/ TaskFailure(r)
    <3>1. UNCHANGED row \/ \E s : UpdateStatus(i, s)
      BY <2>3 DEF CreateResourceRaises, WaitResource, ChangeResource,
                  DeleteResource, TaskActivates, TaskFailure
    <3> QED
      BY <3>1, OneRow
  <2>4. CASE TaskDeletesConfig(r) \/ TaskDeletesRow(r)
    BY <2>4 DEF TaskDeletesConfig, TaskDeletesRow, ConfigDeleted, RowDeleted, TypeOK
  <2> QED
    BY <2>1, <2>2, <2>3, <2>4 DEF TaskStep
<1>4. OnlyBy(r)
  BY <1>1, <1>2, <1>3 DEF OnlyBy, TaskGoes, TypeOK
<1>5. tpc'[r] = "ended" /\ Op(r) # "action" => ~InTransit(i)'
  <2> SUFFICES ASSUME tpc'[r] = "ended", Op(r) # "action" PROVE ~InTransit(i)'
    OBVIOUS
  <2>1. CASE TaskLoad(r)
    BY <2>1 DEF TaskLoad, TaskGoes, TypeOK, InTransit, Visible
  <2>2. CASE TaskActivates(r) \/ TaskFailure(r)
    <3>1. \/ \E s \in Settled : UpdateStatus(i, s)
          \/ UNCHANGED row /\ ~Visible(i)
      BY <2>2, <1>s DEF TaskActivates, TaskFailure
    <3> QED
      BY <3>1, SettledWrite DEF InTransit, Visible
  <2>3. CASE TaskDeletesRow(r)
    BY <2>3 DEF TaskDeletesRow, RowDeleted, InTransit, Visible, Stored, TypeOK, Rows
  <2>4. CASE \/ CreateResource(r) \/ CreateResourceRaises(r) \/ WaitResource(r)
             \/ ChangeResource(r) \/ DeleteResource(r) \/ TaskDeletesConfig(r)
             \/ TaskDeleteRaises(r)
    BY <2>4 DEF CreateResource, CreateResourceRaises, WaitResource, ChangeResource,
                DeleteResource, TaskDeletesConfig, TaskDeleteRaises, TaskGoes, TypeOK
  <2> QED
    BY <2>1, <2>2, <2>3, <2>4 DEF TaskStep
<1>6. tpc'[r] # "none"
  BY DEF TaskStep, TypeOK, TaskGoes, TaskLoad, CreateResource, CreateResourceRaises,
         WaitResource, ChangeResource, DeleteResource, TaskActivates,
         TaskDeletesConfig, TaskDeletesRow, TaskDeleteRaises, TaskFailure
<1>o. tpc'[r] \in {"wait", "finish", "delete_config", "delete_row"} => Op(r) # "action"
  <2>1. CASE \/ TaskLoad(r) \/ CreateResourceRaises(r) \/ TaskActivates(r)
             \/ TaskDeletesRow(r) \/ TaskDeleteRaises(r) \/ TaskFailure(r)
    BY <2>1 DEF TaskLoad, CreateResourceRaises, TaskActivates, TaskDeletesRow,
                TaskDeleteRaises, TaskFailure, TaskGoes, TypeOK
  <2>2. CASE CreateResource(r) \/ ChangeResource(r) \/ DeleteResource(r)
    BY <2>2 DEF CreateResource, ChangeResource, DeleteResource, TaskGoes, TypeOK
  <2>3. CASE WaitResource(r) \/ TaskDeletesConfig(r)
    BY <2>3 DEF WaitResource, TaskDeletesConfig, TaskAt, HandlersOK
  <2> QED
    BY <2>1, <2>2, <2>3 DEF TaskStep
<1>p. HandlersOK'
  BY <1>1, <1>4, <1>o DEF HandlersOK, OnlyBy, Op
<1>7. CASE Op(r) # "action"
  <2>1. tpc'[r] # "ended" => Holds(r)'
    BY <1>1, <1>6, <1>7 DEF Holds, TaskWorks, Op
  <2>2. Owes(r, i)
    BY <1>1, <1>4, <1>5, <1>7, <2>1 DEF Owes
  <2> QED
    BY <1>i, <1>p, <2>2, <1>q
<1>8. CASE Op(r) = "action"
  <2>1. Holds(r)' <=> Holds(r)
    BY <1>1, <1>8 DEF Holds, RequestWorks, TaskWorks, Op
  <2>2. row' = row \/ ~InTransit(i)'
    <3>1. row' = row \/ \E s \in Settled : UpdateStatus(i, s)
      <4>1. TaskAt(r, "work") \/ TaskAt(r, "queued") \/ TaskAt(r, "failing")
              => row' = row \/ \E s \in Settled : UpdateStatus(i, s)
        BY <1>8, <1>s
           DEF TaskStep, TaskAt, TaskLoad, CreateResource, CreateResourceRaises,
               WaitResource, ChangeResource, DeleteResource, TaskActivates,
               TaskDeletesConfig, TaskDeletesRow, TaskDeleteRaises, TaskFailure
      <4>2. tpc[r] \in {"work", "queued", "failing"}
        BY <1>1, <1>8 DEF HandlersOK, TypeOK, TaskStages
      <4> QED
        BY <4>1, <4>2 DEF TaskAt
    <3> QED
      BY <3>1, SettledWrite
  <2>3. Owes(r, i)
    BY <1>1, <1>4, <2>1, <2>2 DEF Owes, InTransit, Visible
  <2> QED
    BY <1>i, <1>p, <2>3, <1>q
<1> QED
  BY <1>7, <1>8

\* At the start nothing is in transit and no request has arrived.
LEMMA InitInv == Init => Inv
<1> SUFFICES ASSUME Init PROVE Inv
  OBVIOUS
<1>1. HandlersOK
  BY DEF Init, HandlersOK
<1>2. NoUnownedTransit
  BY DEF Init, NoUnownedTransit, InTransit, Visible, OldRow, NoRow, Settled
<1> QED
  BY <1>1, <1>2, InitType DEF Inv

\* The inductive invariant.
LEMMA InvStep == Inv /\ [Next]_vars => Inv'
<1> SUFFICES ASSUME Inv, [Next]_vars PROVE Inv'
  OBVIOUS
<1>1. CASE Next
  <2>1. PICK r \in Requests : Arrive(r) \/ RequestStep(r) \/ TaskStep(r)
    BY <1>1 DEF Next
  <2>2. TypeOK'
    BY <2>1, ArriveType, RequestStepType, TaskStepType DEF Inv
  <2> QED
    BY <2>1, <2>2, ArriveOwned, RequestStepOwned, TaskStepOwned DEF Inv
<1>2. CASE UNCHANGED vars
  BY <1>2 DEF vars, Inv, TypeOK, HandlersOK, NoUnownedTransit, InTransit, Visible,
              WorkedOn, EscapedOn, RequestWorks, TaskWorks, On, Op
<1> QED
  BY <1>1, <1>2

\* An instance in a status that refuses operations is owned by a request or a
\* task that will write its status, or was abandoned by a request that left its
\* handler: for any number of instances and requests, all options and faults.
THEOREM TransitIsOwned == Spec => []NoUnownedTransit
<1>1. Inv => NoUnownedTransit
  BY DEF Inv
<1> QED
  BY InitInv, InvStep, <1>1, PTL DEF Spec

----------------------------------------------------------------------------
(* Deletion is final.                                                      *)

\* A row that is gone: soft deleted or expunged.
Gone(t) == t.state \in {"soft", "purged"}

\* Row t became u by a write that brings nothing back and inserts nothing.
Keeps(t, u) ==
  /\ Gone(t) => Gone(u)
  /\ t.state = "absent" <=> u.state = "absent"
  /\ t.state = "absent" => u.status = t.status

\* Writes of a status, soft deletes included, are such writes.
LEMMA WritesKeep ==
  ASSUME TypeOK, NEW i \in Instances, NEW k \in Instances, NEW s,
         \/ UpdateStatus(i, s)
         \/ Visible(i) /\ ConfigDeleted(i)
         \/ RowDeleted(i)
  PROVE  Keeps(row[k], row'[k])
<1>1. row[k] \in Rows /\ row[i] \in Rows
  BY DEF TypeOK
<1>2. CASE UpdateStatus(i, s)
  BY <1>1, <1>2 DEF TypeOK, UpdateStatus, WithStatus, Stored, Keeps, Gone, Rows
<1>3. CASE Visible(i) /\ ConfigDeleted(i)
  BY <1>1, <1>3 DEF TypeOK, ConfigDeleted, Visible, Keeps, Gone, Rows
<1>4. CASE RowDeleted(i)
  BY <1>1, <1>4 DEF TypeOK, RowDeleted, Stored, Keeps, Gone, Rows
<1> QED
  BY <1>2, <1>3, <1>4

\* So is every write of a request that has arrived, and of a task.
LEMMA StepsKeep ==
  ASSUME TypeOK, NEW r \in Requests, RequestStep(r) \/ TaskStep(r),
         NEW k \in Instances
  PROVE  Keeps(row[k], row'[k])
<1>1. PICK i \in Instances : i = On(r)
  BY JobType
<1>2. row[k] \in Rows /\ row[i] \in Rows /\ row \in [Instances -> Rows]
  BY DEF TypeOK
<1>3. row' = row => Keeps(row[k], row'[k])
  BY DEF Keeps
<1>4. CASE RequestStep(r)
  <2>1. CASE Configure(r)
    <3>1. \A s \in Statuses : /\ WithStatus(i, s) \in Rows
                              /\ Keeps(row[i], WithStatus(i, s))
      BY <1>2 DEF WithStatus, Rows, Stored, Keeps, Gone
    <3>2. "DRAFT" \in Statuses /\ "ERROR" \in Statuses
      BY DEF Statuses, Settled, Transient
    <3>3. PICK t \in {row[i], WithStatus(i, "DRAFT"), WithStatus(i, "ERROR")} :
            \E config : row' = [row EXCEPT ![i] = [t EXCEPT !.config = config]]
      BY <1>1, <1>2, <2>1 DEF Configure
    <3>4. t \in Rows /\ Keeps(row[i], t)
      BY <1>2, <3>1, <3>2 DEF Keeps
    <3> QED
      BY <1>2, <3>3, <3>4 DEF Keeps, Gone, Rows
  <2>2. CASE AdoptResource(r) \/ Expunge(r) \/ UpdatePrelude(r)
    BY <1>1, <1>2, <1>3, <2>2 DEF AdoptResource, Expunge, UpdatePrelude, Visible, Stored,
                                  Keeps, Gone, Rows
  <2>3. CASE PreImport(r)
    BY <1>1, <1>2, <2>3, WritesKeep DEF PreImport, Visible, Keeps, Gone, Rows
  <2>4. CASE ~(\/ Configure(r) \/ AdoptResource(r) \/ Expunge(r) \/ UpdatePrelude(r)
               \/ PreImport(r))
    <3>1. \/ UNCHANGED row
          \/ \E s : UpdateStatus(i, s)
          \/ Visible(i) /\ ConfigDeleted(i)
          \/ RowDeleted(i)
      BY <1>1, <1>4, <2>4
         DEF RequestStep, InstanceLost, PreCreate, SubmitCreate, PreHookRaises,
             BeginUpdate, BeginPatch, BeginAction, BeginDelete, UpdateTags, Dispatch,
             DispatchRaises, PostHook, FinishHere, FinishRaises, DeleteConfigHere,
             DeleteRowHere, DeleteHereRaises, RequestRaises
    <3> QED
      BY <1>3, <3>1, WritesKeep
  <2> QED
    BY <2>1, <2>2, <2>3, <2>4
<1>5. CASE TaskStep(r)
  <2>1. CASE CreateResource(r)
    BY <1>1, <1>2, <1>3, <2>1 DEF CreateResource, Stored, Keeps, Gone, Rows
  <2>2. CASE ~CreateResource(r)
    <3>1. \/ UNCHANGED row
          \/ \E s : UpdateStatus(i, s)
          \/ Visible(i) /\ ConfigDeleted(i)
          \/ RowDeleted(i)
      BY <1>1, <1>5, <2>2
         DEF TaskStep, TaskLoad, CreateResourceRaises, WaitResource, ChangeResource,
             DeleteResource, TaskActivates, TaskDeletesConfig, TaskDeletesRow,
             TaskDeleteRaises, TaskFailure
    <3> QED
      BY <1>3, <3>1, WritesKeep
  <2> QED
    BY <2>1, <2>2
<1> QED
  BY <1>4, <1>5

\* An arriving request inserts a row where there was none, and writes no other.
LEMMA ArriveInserts ==
  ASSUME TypeOK, NEW r \in Requests, Arrive(r), NEW k \in Instances
  PROVE  \/ row'[k] = row[k]
         \/ /\ row[k].state = "absent" /\ row'[k].state = "present"
            /\ row'[k].status = row[k].status
BY DEF TypeOK, Rows, Arrive, InsertInstance, Load

\* No step brings back a soft deleted or an expunged instance.
THEOREM DeletedForGood == Spec => DeletionIsFinal
<1>1. ASSUME TypeOK, Next, NEW k \in Instances, Gone(row[k])
      PROVE  Gone(row'[k])
  BY <1>1, StepsKeep, ArriveInserts DEF Next, Keeps, Gone
<1>2. TypeOK /\ [Next]_vars
        => [\A i \in Instances :
              row[i].state \in {"soft", "purged"} => ~Visible(i)' /\ row'[i].state # "absent"]_vars
  BY <1>1 DEF Gone, Visible
<1> QED
  BY TypeCorrect, <1>2, PTL DEF Spec, DeletionIsFinal

----------------------------------------------------------------------------
(* The steps implement ServiceLifecycle.                                   *)

\* A row that was never inserted has the status of a row just inserted.
UnbornDraft == \A k \in Instances : row[k].state = "absent" => row[k].status = "DRAFT"

RInv == Inv /\ UnbornDraft

\* The inductive invariant of the refinement.
LEMMA InitRInv == Init => RInv
BY InitInv DEF RInv, Init, UnbornDraft, NoRow, OldRow

LEMMA RInvStep == RInv /\ [Next]_vars => RInv'
<1> SUFFICES ASSUME RInv, [Next]_vars, NEW k \in Instances, row'[k].state = "absent"
             PROVE  row'[k].status = "DRAFT"
  BY InvStep DEF RInv, UnbornDraft
<1>1. CASE Next
  <2>1. PICK r \in Requests : Arrive(r) \/ RequestStep(r) \/ TaskStep(r)
    BY <1>1 DEF Next
  <2>2. row[k].state = "absent" /\ row'[k].status = row[k].status
    BY <2>1, StepsKeep, ArriveInserts DEF RInv, Inv, Keeps
  <2> QED
    BY <2>2 DEF RInv, UnbornDraft
<1>2. CASE UNCHANGED vars
  BY <1>2 DEF vars, RInv, UnbornDraft
<1> QED
  BY <1>1, <1>2

\* Request r or its task is at work.
Works(r) == RequestWorks(r) \/ TaskWorks(r)

\* A request that leaves its handler through no except clause leaves the
\* transit of its instance as it was: no status is written on the way out.
LEMMA EscapesQuietly ==
  ASSUME TypeOK, NEW r \in Requests, RequestStep(r), rpc'[r] = "escaped",
         rpc[r] # "escaped", NEW i \in Instances, i = On(r)
  PROVE  InTransit(i)' => InTransit(i)
<1>2. row[i] \in Rows /\ row \in [Instances -> Rows] /\ rpc \in [Requests -> RequestStages]
  BY DEF TypeOK
<1>3. \/ Configure(r) \/ AdoptResource(r) \/ UpdatePrelude(r) \/ DeleteHereRaises(r)
  BY <1>2 DEF RequestStep, RequestGoes, RequestRaises, InstanceLost, PreCreate, Expunge,
              PreImport, SubmitCreate, PreHookRaises, BeginUpdate, BeginPatch,
              BeginAction, BeginDelete, UpdateTags, Dispatch, DispatchRaises, PostHook,
              FinishHere, FinishRaises, DeleteConfigHere, DeleteRowHere
<1>4. row'[i].state = row[i].state /\ row'[i].status = row[i].status
  BY <1>2, <1>3 DEF Configure, AdoptResource, UpdatePrelude, DeleteHereRaises,
                    RequestGoes, RequestRaises, Rows
<1> QED
  BY <1>4 DEF InTransit, Visible

\* What any step of r does to the rows: it touches one instance, which r works
\* on when the step brings it into transit.
LEMMA StepBrings ==
  ASSUME Inv, NEW r \in Requests, Arrive(r) \/ RequestStep(r) \/ TaskStep(r)
  PROVE  /\ OnlyBy(r)
         /\ job'[r].on \in Instances
         /\ On(r) = job'[r].on \/ ~Works(r)
         /\ \A k \in Instances :
              k = job'[r].on /\ InTransit(k)' => InTransit(k) \/ Works(r)'
<1>1. job'[r].on \in Instances
  BY ArriveType, RequestStepType, TaskStepType DEF Inv, TypeOK, Jobs
<1>2. PICK i \in Instances : i = job'[r].on
  BY <1>1
<1>3. CASE Arrive(r)
  BY <1>2, <1>3, ArriveOwned DEF Holds, Works, InTransit, Visible
<1>4. CASE RequestStep(r)
  <2>1. Owes(r, i) /\ On(r) = i
    BY <1>2, <1>4, RequestStepOwned DEF Owes
  <2>2. rpc[r] # "escaped"
    BY <1>4 DEF RequestStep, RequestAt, Configure, InstanceLost, AdoptResource, PreCreate,
                Expunge, PreImport, SubmitCreate, PreHookRaises, BeginUpdate, BeginPatch,
                BeginAction, BeginDelete, UpdatePrelude, UpdateTags, Dispatch,
                DispatchRaises, PostHook, FinishHere, FinishRaises, DeleteConfigHere,
                DeleteRowHere, DeleteHereRaises
  <2>3. CASE rpc'[r] = "escaped"
    <3>1. InTransit(i)' => InTransit(i)
      BY <1>4, <2>1, <2>2, <2>3, EscapesQuietly DEF Inv
    <3> QED
      BY <1>2, <2>1, <3>1 DEF Owes
  <2>4. CASE rpc'[r] # "escaped"
    BY <1>2, <2>1, <2>4 DEF Owes, Holds, Works
  <2> QED
    BY <2>3, <2>4
<1>5. CASE TaskStep(r)
  <2>1. Owes(r, i) /\ On(r) = i
    BY <1>2, <1>5, TaskStepOwned DEF Owes
  <2>2. tpc[r] # "none" /\ rpc' = rpc
    BY <1>5 DEF TaskStep, TaskAt, TaskLoad, CreateResource, CreateResourceRaises,
                WaitResource, ChangeResource, DeleteResource, TaskActivates,
                TaskDeletesConfig, TaskDeletesRow, TaskDeleteRaises, TaskFailure
  <2>3. rpc'[r] # "escaped"
    BY <2>2 DEF Inv, HandlersOK
  <2> QED
    BY <1>2, <2>1, <2>3 DEF Owes, Holds, Works
<1> QED
  BY <1>3, <1>4, <1>5

\* The phases, one by one, before and after a step.
LEMMA Phases ==
  ASSUME TypeOK, TypeOK', NEW k \in Instances
  PROVE  /\ Phase(k) = "none" <=> row[k].state = "absent"
         /\ Phase(k) = "gone" <=> Gone(row[k])
         /\ Phase(k) = "ready" <=> Visible(k) /\ ~InTransit(k)
         /\ Phase(k) = "busy" <=> InTransit(k) /\ WorkedOn(k)
         /\ Phase(k) = "stranded" <=> InTransit(k) /\ ~WorkedOn(k)
         /\ Phase(k) \in {"none", "gone", "ready", "busy", "stranded"}
         /\ Phase(k)' = "none" <=> row'[k].state = "absent"
         /\ Phase(k)' = "gone" <=> Gone(row'[k])
         /\ Phase(k)' = "ready" <=> Visible(k)' /\ ~InTransit(k)'
         /\ Phase(k)' = "busy" <=> InTransit(k)' /\ WorkedOn(k)'
         /\ Phase(k)' = "stranded" <=> InTransit(k)' /\ ~WorkedOn(k)'
         /\ Phase(k)' \in {"none", "gone", "ready", "busy", "stranded"}
<1>1. row[k].state \in RowStates /\ row'[k].state \in RowStates
  BY DEF TypeOK, Rows
<1>2. /\ Gone(row[k]) <=> ~Visible(k) /\ row[k].state # "absent"
      /\ Gone(row'[k]) <=> ~Visible(k)' /\ row'[k].state # "absent"
      /\ Visible(k) => row[k].state # "absent"
      /\ Visible(k)' => row'[k].state # "absent"
      /\ InTransit(k) => Visible(k)
      /\ InTransit(k)' => Visible(k)'
  BY <1>1 DEF RowStates, Gone, Visible, InTransit
<1> QED
  BY <1>2 DEF Phase

\* The instances the step is not about keep their phase.
LEMMA OthersKeepPhase ==
  ASSUME TypeOK, TypeOK', NEW r \in Requests, OnlyBy(r),
         On(r) = job'[r].on \/ ~Works(r),
         NEW k \in Instances, k # job'[r].on
  PROVE  Phase(k)' = Phase(k)
<1>1. row'[k] = row[k]
  BY DEF OnlyBy
<1>2. (Visible(k)' <=> Visible(k)) /\ (InTransit(k)' <=> InTransit(k))
  BY <1>1 DEF Visible, InTransit
<1>3. WorkedOn(k)' <=> WorkedOn(k)
  <2>1. \A q \in Requests \ {r} : (On(q)' = On(q)) /\ (Works(q)' <=> Works(q))
    BY DEF OnlyBy, On, Op, Works, RequestWorks, TaskWorks
  <2>2. /\ WorkedOn(k) <=> \E q \in Requests : On(q) = k /\ Works(q)
        /\ WorkedOn(k)' <=> \E q \in Requests : On(q)' = k /\ Works(q)'
    BY DEF WorkedOn, Works
  <2>3. ~(On(r) = k /\ Works(r)) /\ On(r)' # k
    BY DEF On
  <2> QED
    BY <2>1, <2>2, <2>3
<1> QED
  BY <1>1, <1>2, <1>3, Phases

\* The step of ServiceLifecycle that a step of r takes, or none.
LEMMA StepMoves ==
  ASSUME RInv, RInv', NEW r \in Requests, Arrive(r) \/ RequestStep(r) \/ TaskStep(r),
         NEW k \in Instances, k = job'[r].on
  PROVE  \/ Phase(k)' = Phase(k)
         \/ Phase(k) = "none" /\ Phase(k)' = "busy"
         \/ Phase(k) \in {"ready", "stranded"} /\ Phase(k)' = "busy"
         \/ Phase(k) \in {"busy", "stranded"} /\ Phase(k)' = "ready"
         \/ Phase(k) = "busy" /\ Phase(k)' = "stranded"
         \/ Phase(k) \in {"busy", "ready", "stranded"} /\ Phase(k)' = "gone"
<1> USE DEF RInv, Inv
<1>1. InTransit(k)' => InTransit(k) \/ WorkedOn(k)'
  <2>1. InTransit(k)' => InTransit(k) \/ Works(r)'
    BY StepBrings
  <2>2. Works(r)' => WorkedOn(k)'
    BY DEF WorkedOn, Works, On
  <2> QED
    BY <2>1, <2>2
<1>2. Gone(row[k]) => Gone(row'[k])
  BY StepsKeep, ArriveInserts DEF Keeps, Gone
<1>3. row'[k].state = "absent" => row[k].state = "absent"
  BY StepsKeep, ArriveInserts DEF Keeps
<1>4. row[k].state = "absent" => row'[k].state = "absent" \/ InTransit(k)'
  <2>1. CASE Arrive(r)
    BY <2>1, ArriveInserts DEF UnbornDraft, InTransit, Visible, Settled
  <2>2. CASE RequestStep(r) \/ TaskStep(r)
    BY <2>2, StepsKeep DEF Keeps
  <2> QED
    BY <2>1, <2>2
<1>5. row[k].state = "absent" => ~InTransit(k)
  BY DEF InTransit, Visible
<1>6. Visible(k) /\ ~InTransit(k) => Phase(k)' \in {"ready", "busy", "gone"}
  BY <1>1, <1>3, Phases DEF Visible
<1> QED
  BY <1>1, <1>2, <1>3, <1>4, <1>5, <1>6, Phases

\* Requests and tasks take an instance only along the moves of ServiceLifecycle:
\* it is created busy, becomes ready or stranded only out of an operation, never
\* falls from ready into a refused status without an owner, and stays gone; for
\* any number of instances and requests, all options and faults.
THEOREM StepsRefineLifecycle == Spec => Lifecycle!Safety
<1> DEFINE phases == [i \in Instances |-> Phase(i)]
<1>1. Init => Lifecycle!Init
  <2> SUFFICES ASSUME Init, NEW k \in Instances
               PROVE  Phase(k) = IF k \in Existing THEN "ready" ELSE "none"
    BY DEF Lifecycle!Init
  <2>1. row[k] = IF k \in Existing THEN OldRow ELSE NoRow
    BY DEF Init
  <2>2. CASE k \in Existing
    <3>1. row[k].state = "present" /\ row[k].status \in Settled
      BY <2>1, <2>2 DEF OldRow, Settled
    <3> QED
      BY <2>2, <3>1 DEF Phase, Visible, InTransit
  <2>3. CASE k \notin Existing
    <3>1. row[k].state = "absent"
      BY <2>1, <2>3 DEF NoRow
    <3> QED
      BY <2>3, <3>1 DEF Phase, Visible, InTransit
  <2> QED
    BY <2>2, <2>3
<1>2. RInv /\ RInv' /\ [Next]_vars => [Lifecycle!Next]_([i \in Instances |-> Phase(i)])
  <2> SUFFICES ASSUME RInv, RInv', [Next]_vars
               PROVE  Lifecycle!Next \/ phases' = phases
    OBVIOUS
  <2>1. CASE Next
    <3>1. PICK r \in Requests : Arrive(r) \/ RequestStep(r) \/ TaskStep(r)
      BY <2>1 DEF Next
    <3>2. PICK k \in Instances : k = job'[r].on
      BY <3>1, StepBrings DEF RInv
    <3>3. \A j \in Instances \ {k} : Phase(j)' = Phase(j)
      BY <3>1, <3>2, StepBrings, OthersKeepPhase DEF RInv, Inv
    <3>4. phases' = [phases EXCEPT ![k] = Phase(k)']
      BY <3>3
    <3>5. phases[k] = Phase(k)
      OBVIOUS
    <3>6. CASE Phase(k)' = Phase(k)
      BY <3>4, <3>5, <3>6
    <3>7. CASE Phase(k)' # Phase(k)
      <4>1. \/ Lifecycle!Create(k) \/ Lifecycle!Begin(k) \/ Lifecycle!Finish(k)
            \/ Lifecycle!Abandon(k) \/ Lifecycle!Remove(k)
        BY <3>1, <3>2, <3>4, <3>5, <3>7, StepMoves
           DEF Lifecycle!Create, Lifecycle!Begin, Lifecycle!Finish,
               Lifecycle!Abandon, Lifecycle!Remove, Lifecycle!Moves
      <4> QED
        BY <4>1 DEF Lifecycle!Next
    <3> QED
      BY <3>6, <3>7
  <2>2. CASE UNCHANGED vars
    BY <2>2 DEF vars, Phase, Visible, InTransit, WorkedOn, RequestWorks, TaskWorks, On, Op
  <2> QED
    BY <2>1, <2>2
<1> QED
  BY InitRInv, RInvStep, <1>1, <1>2, PTL DEF Spec, Lifecycle!Safety
============================================================================
