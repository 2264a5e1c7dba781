---------------------- MODULE ServiceInstance_calm_proofs ----------------------
(* What ServiceInstance keeps under the conditions of the run calm, each      *)
(* property from the conditions it needs, for every set of instances and      *)
(* requests.                                                                  *)
EXTENDS ServiceInstance_proofs

----------------------------------------------------------------------------
(* An ACTIVE instance has its configuration.                               *)

\* Request r is about to write the configuration, or to delete the row whose
\* configuration it deleted.
Mends(r) == rpc[r] \in {"configure", "delete_row"} \/ tpc[r] = "delete_row"

ConfigMended ==
  \A i \in Instances :
    Visible(i) /\ row[i].config # "live" => \E r \in Requests : On(r) = i /\ Mends(r)

NoConfigFault == {"insert", "soft_delete"} \cap Faults = {}

\* A request that mends has a status to write.
LEMMA MendsWorks ==
  ASSUME Inv, NEW r \in Requests, Mends(r)
  PROVE  Works(r) /\ rpc[r] # "idle"
BY DEF Inv, HandlersOK, Mends, Works, RequestWorks, TaskWorks

\* A step of r leaves the configuration of its instance live, or mends it, or
\* finds it missing while somebody else mends it.
LEMMA StepMends ==
  ASSUME Inv, NoConfigFault, NEW r \in Requests, RequestStep(r) \/ TaskStep(r),
         NEW i \in Instances, i = On(r), Visible(i)', row'[i].config # "live"
  PROVE  Mends(r)' \/ (Visible(i) /\ row[i].config # "live" /\ ~Mends(r))
<1> USE DEF Inv
<1>1. Visible(i)
  BY StepsKeep DEF Keeps, Gone, Visible, TypeOK, Rows, RowStates
<1>2. row[i] \in Rows /\ row \in [Instances -> Rows]
      /\ rpc \in [Requests -> RequestStages] /\ tpc \in [Requests -> TaskStages]
  BY DEF TypeOK
<1>3. ~May("insert") /\ ~May("soft_delete")
  BY DEF NoConfigFault, May
<1>4. CASE RequestStep(r)
  <2>1. CASE Configure(r)
    <3>1. WithStatus(i, "DRAFT") \in Rows
      BY WithStatusType DEF Statuses, Transient
    <3>2. PICK t \in {row[i], WithStatus(i, "DRAFT")} :
            row' = [row EXCEPT ![i] = [t EXCEPT !.config = "live"]]
      BY <1>3, <2>1 DEF Configure
    <3> QED
      BY <1>2, <3>1, <3>2 DEF Rows
  <2>2. CASE DeleteConfigHere(r)
    BY <1>2, <2>2 DEF DeleteConfigHere, RequestGoes, Mends
  <2>3. CASE Expunge(r) \/ DeleteRowHere(r)
    BY <1>2, <2>3 DEF Expunge, DeleteRowHere, RowDeleted, Visible, Stored, Rows
  <2>4. CASE PostHook(r)
    <3>1. row'[i].config = row[i].config
      BY <1>2, <2>4 DEF PostHook, RequestRaises, UpdateStatus, WithStatus, Rows
    <3>2. Mends(r) => Mends(r)'
      BY <2>4 DEF PostHook, RequestAt, Mends
    <3> QED
      BY <1>1, <3>1, <3>2
  <2>5. CASE ~(\/ Configure(r) \/ DeleteConfigHere(r) \/ Expunge(r)
               \/ DeleteRowHere(r) \/ PostHook(r))
    <3>1. /\ rpc[r] \in {"pre_create", "pre_import", "submit", "loaded", "prelude",
                         "tags", "dispatch", "delete_config"}
      BY <1>3, <1>4, <2>5
         DEF RequestStep, RequestAt, InstanceLost, AdoptResource, PreCreate, PreImport,
             SubmitCreate, PreHookRaises, BeginUpdate, BeginPatch, BeginAction,
             BeginDelete, UpdatePrelude, UpdateTags, Dispatch, DispatchRaises,
             FinishHere, FinishRaises, DeleteHereRaises
    <3>2. ~Mends(r)
      BY <3>1 DEF Mends, HandlersOK
    <3>3. CASE AdoptResource(r) \/ PreImport(r) \/ UpdatePrelude(r)
      <4>1. row'[i].config = row[i].config
        BY <1>2, <3>3 DEF AdoptResource, PreImport, UpdatePrelude, UpdateStatus,
                          WithStatus, Rows
      <4> QED
        BY <1>1, <3>2, <4>1
    <3>4. CASE ~(AdoptResource(r) \/ PreImport(r) \/ UpdatePrelude(r))
      <4>1. UNCHANGED row \/ \E s : UpdateStatus(i, s)
        BY <1>4, <2>5, <3>4
           DEF RequestStep, InstanceLost, PreCreate, SubmitCreate, PreHookRaises,
               BeginUpdate, BeginPatch, BeginAction, BeginDelete, UpdateTags, Dispatch,
               DispatchRaises, FinishHere, FinishRaises, DeleteHereRaises, RequestRaises
      <4>2. row'[i].config = row[i].config
        BY <1>2, <4>1 DEF UpdateStatus, WithStatus, Rows
      <4> QED
        BY <1>1, <3>2, <4>2
    <3> QED
      BY <3>3, <3>4
  <2> QED
    BY <2>1, <2>2, <2>3, <2>4, <2>5
<1>5. CASE TaskStep(r)
  <2>1. tpc[r] # "none"
    BY <1>5 DEF TaskStep, TaskAt, TaskLoad, CreateResource, CreateResourceRaises,
                WaitResource, ChangeResource, DeleteResource, TaskActivates,
                TaskDeletesConfig, TaskDeletesRow, TaskDeleteRaises, TaskFailure
  <2>2. rpc[r] \notin {"configure", "delete_row"}
    BY <2>1 DEF HandlersOK
  <2>3. CASE TaskDeletesConfig(r)
    BY <1>2, <2>3 DEF TaskDeletesConfig, TaskGoes, Mends
  <2>4. CASE TaskDeletesRow(r)
    BY <1>2, <2>4 DEF TaskDeletesRow, RowDeleted, Visible, Stored, Rows
  <2>5. CASE ~(TaskDeletesConfig(r) \/ TaskDeletesRow(r))
    <3>1. tpc[r] # "delete_row"
      BY <1>3, <1>5, <2>5
         DEF TaskStep, TaskAt, TaskLoad, CreateResource, CreateResourceRaises,
             WaitResource, ChangeResource, DeleteResource, TaskActivates,
             TaskDeleteRaises, TaskFailure
    <3>2. CASE CreateResource(r)
      BY <1>1, <1>2, <2>2, <3>1, <3>2 DEF CreateResource, Rows, Mends
    <3>3. CASE ~CreateResource(r)
      <4>1. UNCHANGED row \/ \E s : UpdateStatus(i, s)
        BY <1>5, <2>5, <3>3
           DEF TaskStep, TaskLoad, CreateResourceRaises, WaitResource, ChangeResource,
               DeleteResource, TaskActivates, TaskDeleteRaises, TaskFailure
      <4>2. row'[i].config = row[i].config
        BY <1>2, <4>1 DEF UpdateStatus, WithStatus, Rows
      <4> QED
        BY <1>1, <2>2, <3>1, <4>2 DEF Mends
    <3> QED
      BY <3>2, <3>3
  <2> QED
    BY <2>3, <2>4, <2>5
<1> QED
  BY <1>4, <1>5

\* The invariant is kept: the instances nobody touches have the same mender.
LEMMA ConfigMendedStep ==
  ASSUME NoConfigFault, Inv, ConfigMended, [Next]_vars
  PROVE  ConfigMended'
<1>1. CASE Next
  <2>1. PICK r \in Requests : Arrive(r) \/ RequestStep(r) \/ TaskStep(r)
    BY <1>1 DEF Next
  <2>2. OnlyBy(r) /\ (On(r) = job'[r].on \/ ~Works(r))
    BY <2>1, StepBrings
  <2> SUFFICES ASSUME NEW k \in Instances, Visible(k)', row'[k].config # "live"
               PROVE  \E q \in Requests : job'[q].on = k /\ Mends(q)'
    BY DEF ConfigMended, On
  <2>3. \A q \in Requests \ {r} : On(q) = k /\ Mends(q) => job'[q].on = k /\ Mends(q)'
    BY <2>2 DEF OnlyBy, On, Mends
  <2>4. CASE k # job'[r].on
    <3>1. row'[k] = row[k]
      BY <2>2, <2>4 DEF OnlyBy
    <3>2. PICK q \in Requests : On(q) = k /\ Mends(q)
      BY <3>1 DEF ConfigMended, Visible
    <3>3. q # r
      BY <2>2, <2>4, <3>2, MendsWorks
    <3> QED
      BY <2>3, <3>2, <3>3
  <2>5. CASE k = job'[r].on
    <3>1. CASE Arrive(r)
      <4>1. PICK i \in Instances : InsertInstance(r, i) \/ Load(r, i)
        BY <3>1 DEF Arrive
      <4>2. rpc[r] = "idle"
        BY <4>1 DEF InsertInstance, Load, RequestAt
      <4>3. CASE InsertInstance(r, i)
        BY <2>5, <4>3 DEF InsertInstance, RequestGoes, Mends, Inv, TypeOK
      <4>4. CASE Load(r, i)
        <5>1. row' = row
          BY <4>4 DEF Load
        <5>2. PICK q \in Requests : On(q) = k /\ Mends(q)
          BY <5>1 DEF ConfigMended, Visible
        <5>3. q # r
          BY <4>2, <5>2, MendsWorks
        <5> QED
          BY <2>3, <5>2, <5>3
      <4> QED
        BY <4>1, <4>3, <4>4
    <3>2. CASE RequestStep(r) \/ TaskStep(r)
      <4>1. k = On(r)
        BY <2>5, <3>2, RequestStepOwned, TaskStepOwned DEF Owes
      <4>2. CASE Mends(r)'
        BY <2>5, <4>2
      <4>3. CASE ~Mends(r)'
        <5>1. Visible(k) /\ row[k].config # "live" /\ ~Mends(r)
          BY <3>2, <4>1, <4>3, StepMends
        <5>2. PICK q \in Requests : On(q) = k /\ Mends(q)
          BY <5>1 DEF ConfigMended
        <5> QED
          BY <2>3, <5>1, <5>2
      <4> QED
        BY <4>2, <4>3
    <3> QED
      BY <2>1, <3>1, <3>2
  <2> QED
    BY <2>4, <2>5
<1>2. CASE UNCHANGED vars
  BY <1>2 DEF vars, ConfigMended, Visible, On, Mends
<1> QED
  BY <1>1, <1>2

\* Unless the writes of configurations and the soft deletes raise, an ACTIVE
\* instance nobody works on has its configuration: with every other fault, with
\* forced deletes and with actions too, which the run calm leaves out.
THEOREM ConfiguredWhenActive == NoConfigFault => (Spec => []ActiveIsConfigured)
<1> SUFFICES ASSUME NoConfigFault PROVE Spec => []ActiveIsConfigured
  OBVIOUS
<1>1. Init => ConfigMended
  BY DEF Init, ConfigMended, Visible, OldRow, NoRow
<1>2. Inv /\ ConfigMended /\ [Next]_vars => ConfigMended'
  BY ConfigMendedStep
<1>3. Inv /\ ConfigMended => ActiveIsConfigured
  <2> SUFFICES ASSUME Inv, ConfigMended, NEW i \in Instances, Visible(i),
                      row[i].config # "live"
               PROVE  WorkedOn(i)
    BY DEF ActiveIsConfigured
  <2>1. PICK r \in Requests : On(r) = i /\ Mends(r)
    BY DEF ConfigMended
  <2> QED
    BY <2>1, MendsWorks DEF WorkedOn, Works
<1> QED
  BY InitInv, InvStep, <1>1, <1>2, <1>3, PTL DEF Spec

----------------------------------------------------------------------------
(* A purge loses no resource.                                              *)

\* Request r inserted the row of i.
Creates(r, i) == On(r) = i /\ rpc[r] # "idle" /\ Op(r) \in {"add", "import"}

\* The stages of a creation before it made a resource.
Before == {"configure", "pre_create", "pre_import"}

\* An instance has one creator, the stages of a creation are the creator's, and
\* clients use no other options than these.
OneCreator ==
  /\ \A q, r \in Requests, i \in Instances : Creates(q, i) /\ Creates(r, i) => q = r
  /\ \A r \in Requests, i \in Instances : Creates(r, i) => row[i].state # "absent"
  /\ \A r \in Requests : rpc[r] \in Before \cup {"submit"} => Op(r) \in {"add", "import"}
  /\ \A r \in Requests : job[r].opts \subseteq Options

\* No resource is made for a row not yet inserted, before its creator has
\* passed the hooks, or after it was purged: the creator ended there.
PurgedEmpty ==
  /\ \A i \in Instances : row[i].state \in {"absent", "purged"} => remote[i] = {}
  /\ \A r \in Requests : rpc[r] \in Before => remote[On(r)] = {}
  /\ \A r \in Requests, i \in Instances :
       row[i].state = "purged" /\ Creates(r, i) => rpc[r] = "failed" /\ tpc[r] = "none"

\* What a step leaves of a job.
LEMMA JobKept ==
  ASSUME TypeOK, NEW r \in Requests, RequestStep(r) \/ TaskStep(r)
  PROVE  /\ \A q \in Requests : /\ On(q)' = On(q) /\ Op(q)' = Op(q)
                                /\ job'[q].opts = job[q].opts
         /\ rpc[r] # "idle" \/ TaskStep(r)
         /\ TaskStep(r) => rpc' = rpc
<1>1. \/ job' = job
      \/ job' = [job EXCEPT ![r].queued = "class"]
      \/ \E uuid : job' = [job EXCEPT ![r].queued = "class", ![r].uuid = uuid]
  BY DEF RequestStep, TaskStep, Configure, InstanceLost, AdoptResource, PreCreate,
         Expunge, PreImport, SubmitCreate, PreHookRaises, BeginUpdate, BeginPatch,
         BeginAction, BeginDelete, UpdatePrelude, UpdateTags, Dispatch, DispatchRaises,
         PostHook, FinishHere, FinishRaises, DeleteConfigHere, DeleteRowHere,
         DeleteHereRaises, TaskLoad, CreateResource, CreateResourceRaises, WaitResource,
         ChangeResource, DeleteResource, TaskActivates, TaskDeletesConfig,
         TaskDeletesRow, TaskDeleteRaises, TaskFailure
<1>2. \A q \in Requests : /\ On(q)' = On(q) /\ Op(q)' = Op(q)
                          /\ job'[q].opts = job[q].opts
  BY <1>1 DEF TypeOK, Jobs, On, Op
<1>3. rpc[r] # "idle" \/ TaskStep(r)
  BY DEF RequestStep, RequestAt, Configure, InstanceLost, AdoptResource, PreCreate,
         Expunge, PreImport, SubmitCreate, PreHookRaises, BeginUpdate, BeginPatch,
         BeginAction, BeginDelete, UpdatePrelude, UpdateTags, Dispatch, DispatchRaises,
         PostHook, FinishHere, FinishRaises, DeleteConfigHere, DeleteRowHere,
         DeleteHereRaises
<1>4. TaskStep(r) => rpc' = rpc
  BY DEF TaskStep, TaskLoad, CreateResource, CreateResourceRaises, WaitResource,
         ChangeResource, DeleteResource, TaskActivates, TaskDeletesConfig,
         TaskDeletesRow, TaskDeleteRaises, TaskFailure
<1> QED
  BY <1>2, <1>3, <1>4

\* Where the stages of a request lead.
LEMMA StagesOfRequest ==
  ASSUME Inv, NEW r \in Requests, RequestStep(r)
  PROVE  /\ rpc'[r] # "idle" /\ rpc'[r] # "configure"
         /\ rpc'[r] \in Before => rpc[r] = "configure"
         /\ rpc'[r] = "submit" => rpc[r] = "pre_create"
         /\ rpc[r] \notin {"done", "failed", "escaped"}
         /\ tpc'[r] = tpc[r] \/ (rpc[r] \in {"submit", "dispatch"} /\ tpc'[r] = "queued")
<1>1. rpc \in [Requests -> RequestStages] /\ tpc \in [Requests -> TaskStages]
  BY DEF Inv, TypeOK
<1>2. CASE Configure(r) \/ InstanceLost(r) \/ AdoptResource(r) \/ PreCreate(r)
           \/ Expunge(r) \/ PreImport(r) \/ SubmitCreate(r)
  BY <1>1, <1>2 DEF Before, RequestAt, RequestGoes, TaskGoes, Configure, InstanceLost,
                    AdoptResource, PreCreate, Expunge, PreImport, SubmitCreate
<1>3. CASE PreHookRaises(r) \/ BeginUpdate(r) \/ BeginPatch(r) \/ BeginAction(r)
           \/ BeginDelete(r) \/ UpdatePrelude(r) \/ UpdateTags(r)
  BY <1>1, <1>3 DEF Before, RequestAt, RequestGoes, PreHookRaises, BeginUpdate,
                    BeginPatch, BeginAction, BeginDelete, UpdatePrelude, UpdateTags
<1>4. CASE Dispatch(r) \/ DispatchRaises(r) \/ PostHook(r) \/ FinishHere(r)
           \/ FinishRaises(r)
  BY <1>1, <1>4 DEF Before, RequestAt, RequestGoes, TaskGoes, RequestRaises, Dispatch,
                    DispatchRaises, PostHook, FinishHere, FinishRaises
<1>5. CASE DeleteConfigHere(r) \/ DeleteRowHere(r) \/ DeleteHereRaises(r)
  BY <1>1, <1>5 DEF Before, RequestAt, RequestGoes, RequestRaises, DeleteConfigHere,
                    DeleteRowHere, DeleteHereRaises
<1> QED
  BY <1>2, <1>3, <1>4, <1>5 DEF RequestStep

\* The job with which a request arrives.
LEMMA ArriveJob ==
  ASSUME Inv, NEW r \in Requests, Arrive(r)
  PROVE  /\ rpc[r] = "idle" /\ tpc[r] = "none"
         /\ UNCHANGED <<remote, tpc>>
         /\ job'[r].opts \subseteq Options
         /\ \/ /\ rpc'[r] = "configure" /\ Op(r)' \in {"add", "import"}
               /\ row[job'[r].on].state = "absent"
            \/ /\ rpc'[r] = "loaded" /\ Op(r)' \notin {"add", "import"} /\ row' = row
               /\ Visible(job'[r].on)
               /\ \/ Op(r)' = "action"
                  \/ Op(r)' = "delete" /\ "force" \in job'[r].opts
                  \/ row[job'[r].on].status \in Settled
<1>1. PICK i \in Instances : InsertInstance(r, i) \/ Load(r, i)
  BY DEF Arrive
<1>2. rpc[r] = "idle" /\ tpc[r] = "none" /\ UNCHANGED <<remote, tpc>>
  BY <1>1 DEF InsertInstance, Load, RequestAt, Inv, HandlersOK
<1>3. CASE InsertInstance(r, i)
  <2>a. PICK op \in {"add", "import"} :
          \E opts \in SUBSET OptionsOf(op, i) :
            job' = [job EXCEPT ![r] = Job(op, i, "DRAFT", opts)]
    BY <1>3, Zenon DEF InsertInstance
  <2>1. PICK opts \in SUBSET OptionsOf(op, i) :
          job' = [job EXCEPT ![r] = Job(op, i, "DRAFT", opts)]
    BY <2>a
  <2>2. job'[r].on = i /\ job'[r].op = op /\ job'[r].opts = opts
    BY <2>1 DEF Inv, TypeOK, Job
  <2>3. opts \subseteq Options
    BY DEF OptionsOf
  <2> QED
    BY <1>2, <1>3, <2>2, <2>3 DEF InsertInstance, RequestGoes, Inv, TypeOK, Op
<1>4. CASE Load(r, i)
  <2>a. PICK op \in Operations \ {"add", "import"} :
          \E opts \in SUBSET OptionsOf(op, i) :
            /\ op = "action" \/ (op = "delete" /\ "force" \in opts)
               \/ row[i].status \in Settled
            /\ job' = [job EXCEPT ![r] = Job(op, i, row[i].status, opts)]
    BY <1>4, Zenon DEF Load
  <2>1. PICK opts \in SUBSET OptionsOf(op, i) :
          /\ op = "action" \/ (op = "delete" /\ "force" \in opts)
             \/ row[i].status \in Settled
          /\ job' = [job EXCEPT ![r] = Job(op, i, row[i].status, opts)]
    BY <2>a
  <2>2. job'[r].on = i /\ job'[r].op = op /\ job'[r].opts = opts
    BY <2>1 DEF Inv, TypeOK, Job
  <2>3. opts \subseteq Options
    BY DEF OptionsOf
  <2> QED
    BY <1>2, <1>4, <2>1, <2>2, <2>3 DEF Load, RequestGoes, Inv, TypeOK, Op
<1> QED
  BY <1>1, <1>3, <1>4

\* OneCreator is inductive.
LEMMA OneCreatorStep ==
  ASSUME Inv, OneCreator, [Next]_vars
  PROVE  OneCreator'
<1>1. CASE Next
  <2>1. PICK r \in Requests : Arrive(r) \/ RequestStep(r) \/ TaskStep(r)
    BY <1>1 DEF Next
  <2>2. OnlyBy(r)
    BY <2>1, StepBrings
  <2>3. CASE Arrive(r)
    <3>1. PICK i \in Instances : i = job'[r].on
      BY <2>1, StepBrings
    <3>2. \A q \in Requests \ {r}, k \in Instances : Creates(q, k)' <=> Creates(q, k)
      BY <2>2 DEF OnlyBy, Creates, On, Op
    <3>3. \A k \in Instances : Creates(r, k)' => k = i /\ row[i].state = "absent"
      BY <2>3, <3>1, ArriveJob DEF Creates, On
    <3>4. \A k \in Instances : row'[k].state = "absent" => row[k].state = "absent"
      BY <2>3, ArriveInserts DEF Inv
    <3>5. Creates(r, i)' => row'[i].state = "present"
      <4>1. PICK j \in Instances : InsertInstance(r, j) \/ Load(r, j)
        BY <2>3 DEF Arrive
      <4>2. CASE InsertInstance(r, j)
        <5>a. PICK op : \E opts : job' = [job EXCEPT ![r] = Job(op, j, "DRAFT", opts)]
          BY <4>2, Zenon DEF InsertInstance
        <5>1. job'[r].on = j
          BY <5>a DEF Inv, TypeOK, Job
        <5> QED
          BY <3>1, <4>2, <5>1 DEF InsertInstance, Inv, TypeOK, Rows
      <4>3. CASE Load(r, j)
        BY <2>3, <4>3, ArriveJob DEF Load, RequestGoes, Creates, Inv, TypeOK
      <4> QED
        BY <4>1, <4>2, <4>3
    <3>6. \A q \in Requests : job'[q].opts \subseteq Options
      BY <2>2, <2>3, ArriveJob DEF OneCreator, OnlyBy
    <3>7. \A q \in Requests : rpc'[q] \in Before \cup {"submit"} => Op(q)' \in {"add", "import"}
      BY <2>2, <2>3, ArriveJob DEF OneCreator, OnlyBy, Op, Before
    <3>8. \A q, p \in Requests, k \in Instances : Creates(q, k)' /\ Creates(p, k)' => q = p
      BY <3>2, <3>3 DEF OneCreator
    <3>9. \A q \in Requests, k \in Instances : Creates(q, k)' => row'[k].state # "absent"
      BY <3>2, <3>3, <3>4, <3>5 DEF OneCreator
    <3> QED
      BY <3>6, <3>7, <3>8, <3>9 DEF OneCreator
  <2>4. CASE RequestStep(r) \/ TaskStep(r)
    <3>1. \A q \in Requests : /\ On(q)' = On(q) /\ Op(q)' = Op(q)
                              /\ job'[q].opts = job[q].opts
      BY <2>4, JobKept DEF Inv
    <3>2. \A q \in Requests : rpc'[q] # "idle" => rpc[q] # "idle"
      <4>1. rpc[r] = "idle" => rpc' = rpc
        BY <2>4, JobKept DEF Inv
      <4> QED
        BY <2>2, <4>1 DEF OnlyBy
    <3>3. \A q \in Requests : rpc'[q] \in Before \cup {"submit"}
                                => rpc[q] \in Before \cup {"submit"}
      <4>1. RequestStep(r) \/ rpc' = rpc
        BY <2>4, JobKept DEF Inv
      <4>2. RequestStep(r) => (rpc'[r] \in Before \cup {"submit"}
                                 => rpc[r] \in Before \cup {"submit"})
        BY StagesOfRequest DEF Before
      <4> QED
        BY <2>2, <4>1, <4>2 DEF OnlyBy
    <3>4. \A k \in Instances : row'[k].state = "absent" => row[k].state = "absent"
      BY <2>4, StepsKeep DEF Inv, Keeps
    <3> QED
      BY <3>1, <3>2, <3>3, <3>4 DEF OneCreator, Creates
  <2> QED
    BY <2>1, <2>3, <2>4
<1>2. CASE UNCHANGED vars
  BY <1>2 DEF vars, OneCreator, Creates, On, Op
<1> QED
  BY <1>1, <1>2

LEMMA OneCreatorInit == Init => OneCreator
BY DEF Init, OneCreator, Creates, Before, Job

\* Only a creation makes resources: its hook pre_import, and its task.
LEMMA MakesResource ==
  ASSUME Inv, OneCreator, "given" \notin Options,
         NEW r \in Requests, RequestStep(r) \/ TaskStep(r), NEW k \in Instances
  PROVE  \/ remote'[k] \subseteq remote[k] /\ row'[k].uuid = row[k].uuid
         \/ /\ k = On(r)
            /\ \/ RequestStep(r) /\ rpc[r] = "pre_import"
               \/ TaskStep(r) /\ Op(r) = "add" /\ tpc[r] = "work" /\ tpc'[r] # "work"
<1> USE DEF Inv
<1>1. PICK i \in Instances : i = On(r)
  BY JobType
<1>2. /\ row \in [Instances -> Rows] /\ row[i] \in Rows /\ tpc \in [Requests -> TaskStages]
      /\ remote \in [Instances -> SUBSET {"own", "given"}]
  BY DEF TypeOK
<1>3. ~Asked(r, "given")
  BY DEF OneCreator, Asked
<1>4. \A s : UpdateStatus(i, s) => row'[k].uuid = row[k].uuid
  BY <1>2 DEF UpdateStatus, WithStatus, Rows
<1>5. ConfigDeleted(i) \/ RowDeleted(i) => row'[k].uuid = row[k].uuid
  <2>1. CASE ConfigDeleted(i)
    BY <1>2, <2>1 DEF ConfigDeleted, Rows
  <2>2. CASE RowDeleted(i)
    BY <1>2, <2>2 DEF RowDeleted, Rows
  <2> QED
    BY <2>1, <2>2
<1>6. CASE RequestStep(r)
  <2>1. CASE Configure(r)
    <3>1. \A s \in Statuses : WithStatus(i, s) \in Rows /\ WithStatus(i, s).uuid = row[i].uuid
      BY <1>2 DEF WithStatus, Rows
    <3>2. PICK t \in {row[i], WithStatus(i, "DRAFT"), WithStatus(i, "ERROR")} :
            \E config : row' = [row EXCEPT ![i] = [t EXCEPT !.config = config]]
      BY <1>1, <1>2, <2>1 DEF Configure
    <3>3. t \in Rows /\ t.uuid = row[i].uuid
      BY <1>2, <3>1 DEF Statuses, Settled, Transient
    <3> QED
      BY <1>2, <2>1, <3>2, <3>3 DEF Configure, Rows
  <2>2. CASE PreImport(r)
    <3>1. rpc[r] = "pre_import"
      BY <2>2 DEF PreImport, RequestAt
    <3>2. k # i => remote'[k] = remote[k] /\ row'[k] = row[k]
      BY <1>1, <1>2, <2>2 DEF PreImport, UpdateStatus
    <3> QED
      BY <1>1, <1>6, <3>1, <3>2
  <2>3. CASE AdoptResource(r) \/ UpdatePrelude(r) \/ Expunge(r)
    BY <1>1, <1>2, <1>3, <2>3 DEF AdoptResource, UpdatePrelude, Expunge, Rows
  <2>4. CASE ~(\/ Configure(r) \/ PreImport(r) \/ AdoptResource(r) \/ UpdatePrelude(r)
               \/ Expunge(r))
    <3>1. /\ UNCHANGED remote
          /\ \/ UNCHANGED row
             \/ \E s : UpdateStatus(i, s)
             \/ ConfigDeleted(i) \/ RowDeleted(i)
      BY <1>1, <1>6, <2>4
         DEF RequestStep, InstanceLost, PreCreate, SubmitCreate, PreHookRaises,
             BeginUpdate, BeginPatch, BeginAction, BeginDelete, UpdateTags, Dispatch,
             DispatchRaises, PostHook, FinishHere, FinishRaises, DeleteConfigHere,
             DeleteRowHere, DeleteHereRaises, RequestRaises
    <3> QED
      BY <1>4, <1>5, <3>1
  <2> QED
    BY <2>1, <2>2, <2>3, <2>4
<1>7. CASE TaskStep(r)
  <2>1. CASE CreateResource(r) \/ CreateResourceRaises(r)
    <3>1. tpc[r] = "work" /\ Op(r) = "add" /\ tpc'[r] # "work"
      BY <1>2, <2>1 DEF CreateResource, CreateResourceRaises, TaskAt, TaskGoes
    <3>2. k # i => remote'[k] = remote[k] /\ row'[k] = row[k]
      BY <1>1, <1>2, <2>1 DEF CreateResource, CreateResourceRaises, UpdateStatus
    <3> QED
      BY <1>1, <1>7, <3>1, <3>2
  <2>2. CASE DeleteResource(r)
    <3>1. UNCHANGED row \/ \E s : UpdateStatus(i, s)
      BY <1>1, <2>2 DEF DeleteResource
    <3>2. remote' = remote \/ \E uuid : remote' = [remote EXCEPT ![i] = @ \ {uuid}]
      BY <1>1, <2>2 DEF DeleteResource
    <3>3. remote'[k] \subseteq remote[k]
      BY <1>2, <3>2
    <3> QED
      BY <1>4, <3>1, <3>3
  <2>3. CASE ~(CreateResource(r) \/ CreateResourceRaises(r) \/ DeleteResource(r))
    <3>1. /\ UNCHANGED remote
          /\ \/ UNCHANGED row
             \/ \E s : UpdateStatus(i, s)
             \/ ConfigDeleted(i) \/ RowDeleted(i)
      BY <1>1, <1>7, <2>3
         DEF TaskStep, TaskLoad, WaitResource, ChangeResource, TaskActivates,
             TaskDeletesConfig, TaskDeletesRow, TaskDeleteRaises, TaskFailure
    <3> QED
      BY <1>4, <1>5, <3>1
  <2> QED
    BY <2>1, <2>2, <2>3
<1> QED
  BY <1>6, <1>7

\* Only the creator purges a row, before it made a resource.
LEMMA PurgesEarly ==
  ASSUME Inv, NEW r \in Requests, RequestStep(r) \/ TaskStep(r), NEW k \in Instances,
         row'[k].state = "purged", row[k].state # "purged"
  PROVE  /\ k = On(r) /\ rpc[r] \in Before /\ rpc'[r] = "failed"
         /\ remote' = remote /\ tpc' = tpc
<1> USE DEF Inv
<1>1. PICK i \in Instances : i = On(r)
  BY JobType
<1>2. /\ row \in [Instances -> Rows] /\ row[i] \in Rows
      /\ rpc \in [Requests -> RequestStages]
  BY DEF TypeOK
<1>3. ~Expunge(r)
        => row'[k].state \in {row[k].state, "soft"}
  <2>1. \A s : UpdateStatus(i, s) => row'[k].state = row[k].state
    BY <1>2 DEF UpdateStatus, WithStatus, Rows
  <2>2. ConfigDeleted(i) \/ RowDeleted(i) => row'[k].state \in {row[k].state, "soft"}
    <3>1. CASE ConfigDeleted(i)
      BY <1>2, <3>1 DEF ConfigDeleted, Rows
    <3>2. CASE RowDeleted(i)
      BY <1>2, <3>2 DEF RowDeleted, Rows
    <3> QED
      BY <3>1, <3>2
  <2>3. CASE Configure(r)
    <3>1. \A s \in Statuses : WithStatus(i, s) \in Rows /\ WithStatus(i, s).state = row[i].state
      BY <1>2 DEF WithStatus, Rows
    <3>2. PICK t \in {row[i], WithStatus(i, "DRAFT"), WithStatus(i, "ERROR")} :
            \E config : row' = [row EXCEPT ![i] = [t EXCEPT !.config = config]]
      BY <1>1, <1>2, <2>3 DEF Configure
    <3>3. t \in Rows /\ t.state = row[i].state
      BY <1>2, <3>1 DEF Statuses, Settled, Transient
    <3> QED
      BY <1>2, <3>2, <3>3 DEF Rows
  <2>4. CASE PreImport(r) \/ AdoptResource(r) \/ UpdatePrelude(r) \/ CreateResource(r)
    <3>1. CASE PreImport(r)
      BY <1>1, <1>2, <2>1, <3>1 DEF PreImport, Rows
    <3>2. CASE AdoptResource(r) \/ UpdatePrelude(r)
      BY <1>1, <1>2, <3>2 DEF AdoptResource, UpdatePrelude, Rows
    <3>3. CASE CreateResource(r)
      BY <1>1, <1>2, <3>3 DEF CreateResource, Rows
    <3> QED
      BY <2>4, <3>1, <3>2, <3>3
  <2>5. CASE ~(\/ Configure(r) \/ PreImport(r) \/ AdoptResource(r) \/ UpdatePrelude(r)
               \/ CreateResource(r))
    <3>1. ~Expunge(r) => \/ UNCHANGED row
                         \/ \E s : UpdateStatus(i, s)
                         \/ ConfigDeleted(i) \/ RowDeleted(i)
      BY <1>1, <2>5
         DEF RequestStep, InstanceLost, PreCreate, SubmitCreate, PreHookRaises,
             BeginUpdate, BeginPatch, BeginAction, BeginDelete, UpdateTags, Dispatch,
             DispatchRaises, PostHook, FinishHere, FinishRaises, DeleteConfigHere,
             DeleteRowHere, DeleteHereRaises, RequestRaises, TaskStep, TaskLoad,
             CreateResourceRaises, WaitResource, ChangeResource, DeleteResource,
             TaskActivates, TaskDeletesConfig, TaskDeletesRow, TaskDeleteRaises,
             TaskFailure
    <3> QED
      BY <2>1, <2>2, <3>1
  <2> QED
    BY <2>3, <2>4, <2>5
<1>4. Expunge(r)
  BY <1>3
<1>5. k = On(r)
  BY <1>1, <1>2, <1>4 DEF Expunge
<1> QED
  BY <1>2, <1>4, <1>5 DEF Expunge, RequestAt, RequestGoes, Before

\* PurgedEmpty is inductive.
LEMMA PurgedEmptyStep ==
  ASSUME Inv, OneCreator, PurgedEmpty, "given" \notin Options, [Next]_vars
  PROVE  PurgedEmpty'
<1> USE DEF Inv
<1>1. CASE Next
  <2>1. PICK r \in Requests : Arrive(r) \/ RequestStep(r) \/ TaskStep(r)
    BY <1>1 DEF Next
  <2>2. OnlyBy(r)
    BY <2>1, StepBrings
  <2>3. CASE Arrive(r)
    <3>1. /\ remote' = remote /\ tpc' = tpc
          /\ rpc'[r] \in Before => row[On(r)'].state = "absent"
      BY <2>3, ArriveJob DEF Before, On
    <3>2. \A k \in Instances : row'[k].state \in {"absent", "purged"} => row'[k] = row[k]
      BY <2>3, ArriveInserts
    <3>3. \A q \in Requests \ {r} : rpc'[q] = rpc[q] /\ On(q)' = On(q)
                                    /\ \A k \in Instances : Creates(q, k)' <=> Creates(q, k)
      BY <2>2 DEF OnlyBy, On, Op, Creates
    <3>4. \A k \in Instances : Creates(r, k)' => row[k].state = "absent"
      BY <2>3, ArriveJob DEF Creates, On
    <3>5. On(r)' \in Instances
      BY <2>1, StepBrings DEF On
    <3>6. \A q \in Requests : rpc'[q] \in Before => remote'[On(q)'] = {}
      BY <3>1, <3>3, <3>5 DEF PurgedEmpty
    <3>7. \A k \in Instances : row'[k].state \in {"absent", "purged"} => remote'[k] = {}
      BY <3>1, <3>2 DEF PurgedEmpty
    <3>8. \A q \in Requests, k \in Instances :
            row'[k].state = "purged" /\ Creates(q, k)' => rpc'[q] = "failed" /\ tpc'[q] = "none"
      BY <3>1, <3>2, <3>3, <3>4 DEF PurgedEmpty
    <3> QED
      BY <3>6, <3>7, <3>8 DEF PurgedEmpty
  <2>4. CASE RequestStep(r) \/ TaskStep(r)
    <3>1. \A q \in Requests : On(q)' = On(q) /\ Op(q)' = Op(q)
      BY <2>4, JobKept
    <3>2. \A q \in Requests \ {r} : rpc'[q] = rpc[q] /\ tpc'[q] = tpc[q]
      BY <2>2 DEF OnlyBy
    <3>3. \A q \in Requests, k \in Instances : Creates(q, k)' => Creates(q, k)
      <4>1. rpc[r] = "idle" => rpc' = rpc
        BY <2>4, JobKept
      <4> QED
        BY <3>1, <3>2, <4>1 DEF Creates
    <3>i. On(r) \in Instances
      BY JobType
    <3>m. ASSUME NEW k \in Instances, ~(remote'[k] \subseteq remote[k])
          PROVE  /\ k = On(r) /\ Creates(r, k)
                 /\ rpc[r] # "failed" \/ tpc[r] # "none"
                 /\ rpc'[r] \notin Before
      <4>1. /\ k = On(r)
            /\ \/ RequestStep(r) /\ rpc[r] = "pre_import"
               \/ TaskStep(r) /\ Op(r) = "add" /\ tpc[r] = "work"
        BY <2>4, <3>m, MakesResource
      <4>2. CASE RequestStep(r) /\ rpc[r] = "pre_import"
        BY <4>1, <4>2, StagesOfRequest DEF OneCreator, Creates, Before
      <4>3. CASE TaskStep(r) /\ Op(r) = "add" /\ tpc[r] = "work"
        <5>1. rpc' = rpc
          BY <4>3, JobKept
        <5>2. rpc[r] # "idle" /\ rpc[r] \notin Before
          BY <4>3 DEF HandlersOK, Before
        <5> QED
          BY <4>1, <4>3, <5>1, <5>2 DEF Creates
      <4> QED
        BY <4>1, <4>2, <4>3
    <3>p. ASSUME NEW k \in Instances, row'[k].state = "purged", row[k].state # "purged"
          PROVE  /\ k = On(r) /\ remote'[k] = {} /\ Creates(r, k)
                 /\ rpc'[r] = "failed" /\ tpc'[r] = "none"
      <4>1. /\ k = On(r) /\ rpc[r] \in Before /\ rpc'[r] = "failed"
            /\ remote' = remote /\ tpc' = tpc
        BY <2>4, <3>p, PurgesEarly
      <4>2. Creates(r, k) /\ tpc[r] = "none"
        BY <4>1 DEF OneCreator, Creates, Before, HandlersOK
      <4> QED
        BY <4>1, <4>2 DEF PurgedEmpty
    <3>a. \A k \in Instances : row'[k].state = "absent" => row[k].state = "absent"
      BY <2>4, StepsKeep DEF Keeps
    <3>4. \A k \in Instances : row'[k].state \in {"absent", "purged"} => remote'[k] = {}
      <4> SUFFICES ASSUME NEW k \in Instances, row'[k].state \in {"absent", "purged"}
                   PROVE  remote'[k] = {}
        OBVIOUS
      <4>1. CASE row[k].state \in {"absent", "purged"}
        <5>1. remote[k] = {}
          BY <4>1 DEF PurgedEmpty
        <5>2. remote'[k] \subseteq remote[k]
          BY <3>m, <4>1 DEF OneCreator, PurgedEmpty
        <5> QED
          BY <5>1, <5>2
      <4>2. CASE row[k].state \notin {"absent", "purged"}
        BY <3>a, <3>p, <4>2
      <4> QED
        BY <4>1, <4>2
    <3>5. \A q \in Requests : rpc'[q] \in Before => remote'[On(q)'] = {}
      <4> SUFFICES ASSUME NEW q \in Requests, rpc'[q] \in Before
                   PROVE  remote'[On(q)] = {}
        BY <3>1
      <4>1. rpc[q] \in Before
        <5>1. RequestStep(r) \/ rpc' = rpc
          BY <2>4, JobKept
        <5>2. RequestStep(r) /\ rpc'[r] \in Before => rpc[r] \in Before
          BY StagesOfRequest DEF Before
        <5> QED
          BY <3>2, <5>1, <5>2
      <4>2. remote[On(q)] = {} /\ On(q) \in Instances
        BY <4>1, JobType DEF PurgedEmpty
      <4>3. Creates(q, On(q))
        BY <4>1 DEF OneCreator, Creates, Before
      <4>4. remote'[On(q)] \subseteq remote[On(q)]
        <5>1. CASE ~(remote'[On(q)] \subseteq remote[On(q)])
          <6>1. On(q) = On(r) /\ Creates(r, On(q)) /\ rpc'[r] \notin Before
            BY <3>m, <4>2, <5>1
          <6>2. q = r
            BY <4>2, <4>3, <6>1 DEF OneCreator
          <6> QED
            BY <6>1, <6>2
        <5> QED
          BY <5>1
      <4> QED
        BY <4>2, <4>4
    <3>6. \A q \in Requests, k \in Instances :
            row'[k].state = "purged" /\ Creates(q, k)' => rpc'[q] = "failed" /\ tpc'[q] = "none"
      <4> SUFFICES ASSUME NEW q \in Requests, NEW k \in Instances,
                          row'[k].state = "purged", Creates(q, k)
                   PROVE  rpc'[q] = "failed" /\ tpc'[q] = "none"
        BY <3>3
      <4>1. CASE row[k].state = "purged"
        <5>1. rpc[q] = "failed" /\ tpc[q] = "none"
          BY <4>1 DEF PurgedEmpty
        <5>2. RequestStep(r) => rpc[r] # "failed"
          BY StagesOfRequest
        <5>3. TaskStep(r) => tpc[r] # "none"
          BY DEF TaskStep, TaskAt, TaskLoad, CreateResource, CreateResourceRaises,
                 WaitResource, ChangeResource, DeleteResource, TaskActivates,
                 TaskDeletesConfig, TaskDeletesRow, TaskDeleteRaises, TaskFailure
        <5>4. q # r
          BY <2>4, <5>1, <5>2, <5>3
        <5> QED
          BY <3>2, <5>1, <5>4
      <4>2. CASE row[k].state # "purged"
        BY <3>p, <4>2 DEF OneCreator
      <4> QED
        BY <4>1, <4>2
    <3> QED
      BY <3>4, <3>5, <3>6 DEF PurgedEmpty
  <2> QED
    BY <2>1, <2>3, <2>4
<1>2. CASE UNCHANGED vars
  BY <1>2 DEF vars, PurgedEmpty, Creates, On, Op
<1> QED
  BY <1>1, <1>2

\* Unless clients bring resources of their own, expunging a row loses no
\* resource: with every operation and fault, and with forced deletes.
THEOREM PurgeIsEmpty == "given" \notin Options => (Spec => []PurgeLosesNothing)
<1> SUFFICES ASSUME "given" \notin Options PROVE Spec => []PurgeLosesNothing
  OBVIOUS
<1>1. Init => PurgedEmpty
  BY DEF Init, PurgedEmpty, Creates, Before, OldRow, NoRow
<1>2. Inv /\ OneCreator /\ PurgedEmpty /\ [Next]_vars => PurgedEmpty'
  BY PurgedEmptyStep
<1>3. Inv /\ OneCreator /\ [Next]_vars => OneCreator'
  BY OneCreatorStep
<1>4. PurgedEmpty => PurgeLosesNothing
  BY DEF PurgedEmpty, PurgeLosesNothing
<1> QED
  BY InitInv, InvStep, OneCreatorInit, <1>1, <1>2, <1>3, <1>4, PTL DEF Spec

----------------------------------------------------------------------------
(* A deletion leaves no resource behind.                                   *)

\* The conditions: every plugin has tasks, nobody forces a delete, stops its
\* propagation or brings a resource of his own, nobody asks for an action, and
\* the hooks after queueing and the checks of resources answer.
Calm ==
  /\ Async = Instances
  /\ {"force", "no_propagate", "given"} \cap Options = {}
  /\ "action" \notin Operations
  /\ {"hook", "check"} \cap Faults = {}

\* The creation of a resource is still to come.
Making(r) ==
  \/ rpc[r] \in Before \cup {"submit"}
  \/ Op(r) = "add" /\ tpc[r] \in {"queued", "work"}

\* The resource the row names is gone.
Clean(i) == row[i].uuid \notin remote[i]

\* Nobody else is on an instance being made, no request deletes rows itself
\* (a task does), and no creation comes back to dispatch.
MakerAlone ==
  /\ \A r \in Requests :
       Making(r) => /\ row[On(r)].state \notin {"absent", "soft"}
                    /\ row[On(r)].status \notin Settled
                    /\ \A q \in Requests \ {r} : rpc[q] = "idle" \/ On(q) # On(r)
  /\ \A r \in Requests : rpc[r] # "idle" => row[On(r)].state # "absent"
  /\ \A r \in Requests : rpc[r] \notin {"delete_config", "delete_row"}
  /\ \A r \in Requests : /\ rpc[r] = "dispatch" => Op(r) # "add"
                         /\ rpc[r] = "pre_import" => Op(r) = "import"
  /\ \A r \in Requests : rpc[r] # "idle" => Op(r) # "action"

\* A task deletes rows only after the resource, or when it was told of none.
DeletesAfterResource ==
  /\ \A r \in Requests :
       tpc[r] \in {"delete_config", "delete_row"} => Op(r) = "delete" /\ Clean(On(r))
  /\ \A r \in Requests :
       tpc[r] \in {"queued", "work"} /\ Op(r) = "delete" /\ job[r].uuid = "none"
         => Clean(On(r))
  /\ \A i \in Instances : row[i].state = "soft" => Clean(i)

NInv == Inv /\ OneCreator /\ UnbornDraft /\ MakerAlone /\ DeletesAfterResource

\* Where a task is after a step of it.
LEMMA StagesOfTask ==
  ASSUME Inv, NEW r \in Requests, TaskStep(r)
  PROVE  /\ tpc[r] # "none" /\ rpc[r] # "idle"
         /\ tpc'[r] \in {"queued", "work"} => tpc[r] = "queued" /\ row' = row
         /\ tpc'[r] # "queued"
         /\ tpc'[r] = "delete_row" => tpc[r] = "delete_config"
         /\ tpc'[r] = "delete_config" => DeleteResource(r)
<1>1. rpc \in [Requests -> RequestStages] /\ tpc \in [Requests -> TaskStages]
  BY DEF Inv, TypeOK
<1>2. CASE TaskLoad(r) \/ CreateResource(r) \/ CreateResourceRaises(r) \/ WaitResource(r)
  BY <1>1, <1>2 DEF TaskAt, TaskGoes, TaskLoad, CreateResource, CreateResourceRaises,
                    WaitResource, Inv, HandlersOK
<1>3. CASE ChangeResource(r) \/ DeleteResource(r) \/ TaskActivates(r)
  BY <1>1, <1>3 DEF TaskAt, TaskGoes, ChangeResource, DeleteResource, TaskActivates,
                    Inv, HandlersOK
<1>4. CASE \/ TaskDeletesConfig(r) \/ TaskDeletesRow(r) \/ TaskDeleteRaises(r)
           \/ TaskFailure(r)
  BY <1>1, <1>4 DEF TaskAt, TaskGoes, TaskDeletesConfig, TaskDeletesRow,
                    TaskDeleteRaises, TaskFailure, Inv, HandlersOK
<1> QED
  BY <1>2, <1>3, <1>4 DEF TaskStep

\* A request at work before the step is still making only if it was, and then
\* its step left the status refused and the row there.
LEMMA MakingStep ==
  ASSUME Calm, NInv, NEW r \in Requests, RequestStep(r) \/ TaskStep(r), Making(r)'
  PROVE  /\ Making(r)
         /\ row'[On(r)].state = row[On(r)].state
         /\ row'[On(r)].status \notin Settled
<1> USE DEF NInv, Inv
<1>1. PICK i \in Instances : i = On(r)
  BY JobType
<1>2. /\ row \in [Instances -> Rows] /\ row[i] \in Rows
      /\ rpc \in [Requests -> RequestStages] /\ tpc \in [Requests -> TaskStages]
  BY DEF TypeOK
<1>3. Op(r)' = Op(r) /\ i = On(r)'
  BY <1>1, JobKept
<1>4. CASE TaskStep(r)
  <2>1. rpc' = rpc
    BY <1>4, JobKept
  <2>2. tpc'[r] \in {"queued", "work"} => tpc[r] = "queued" /\ row' = row
    BY <1>4, StagesOfTask
  <2>3. rpc[r] \notin Before \cup {"submit"}
    BY <1>4, StagesOfTask DEF HandlersOK, Before
  <2>4. Making(r) /\ row' = row
    BY <1>3, <2>1, <2>2, <2>3 DEF Making
  <2> QED
    BY <2>4 DEF MakerAlone
<1>5. CASE RequestStep(r)
  <2>1. CASE Configure(r)
    <3>1. rpc'[r] \notin {"failed", "escaped"}
      BY <1>3, <1>5, <2>1, StagesOfRequest
         DEF Making, Before, HandlersOK, Configure, RequestAt
    <3>2. PICK t \in {row[i], WithStatus(i, "DRAFT")} :
            row' = [row EXCEPT ![i] = [t EXCEPT !.config = "live"]]
      BY <1>1, <1>2, <2>1, <3>1 DEF Configure, RequestGoes
    <3>3. WithStatus(i, "DRAFT") \in Rows
      BY WithStatusType DEF Statuses, Transient
    <3>4. Making(r)
      BY <2>1 DEF Configure, RequestAt, Making, Before
    <3>5. row[i].status \notin Settled
      BY <1>1, <3>4 DEF MakerAlone
    <3>6. t.state = row[i].state /\ t.status \notin Settled /\ t \in Rows
      BY <1>2, <3>2, <3>3, <3>5 DEF WithStatus, Rows, Settled
    <3> QED
      BY <1>1, <1>2, <3>2, <3>4, <3>6 DEF Rows
  <2>2. CASE PreCreate(r)
    <3>1. Making(r) /\ row' = row
      BY <2>2 DEF PreCreate, RequestAt, Making, Before
    <3> QED
      BY <3>1 DEF MakerAlone
  <2>3. CASE SubmitCreate(r) \/ Dispatch(r)
    <3>1. CASE SubmitCreate(r)
      <4>1. Making(r)
        BY <3>1 DEF SubmitCreate, RequestAt, Making
      <4>2. row' = row
        BY <1>2, <1>3, <3>1
           DEF SubmitCreate, RequestAt, RequestGoes, TaskGoes, Making, Before, HandlersOK
      <4> QED
        BY <4>1, <4>2 DEF MakerAlone
    <3>2. CASE Dispatch(r)
      BY <1>2, <1>3, <3>2 DEF Dispatch, RequestAt, RequestGoes, Making, Before, MakerAlone
    <3> QED
      BY <2>3, <3>1, <3>2
  <2>4. CASE PostHook(r)
    <3>1. row' = row /\ tpc' = tpc /\ rpc'[r] = "done"
      BY <1>2, <2>4 DEF PostHook, RequestGoes, Calm, May
    <3>2. Making(r)
      BY <1>3, <3>1 DEF Making, Before
    <3> QED
      BY <3>1, <3>2 DEF MakerAlone
  <2>5. CASE ~(\/ Configure(r) \/ PreCreate(r) \/ SubmitCreate(r) \/ Dispatch(r)
               \/ PostHook(r))
    <3>1. rpc[r] \notin {"post", "done", "failed"}
      BY <1>5, <2>5
         DEF RequestStep, RequestAt, InstanceLost, AdoptResource, Expunge, PreImport,
             PreHookRaises, BeginUpdate, BeginPatch, BeginAction, BeginDelete,
             UpdatePrelude, UpdateTags, DispatchRaises, FinishHere, FinishRaises,
             DeleteConfigHere, DeleteRowHere, DeleteHereRaises
    <3>2. tpc' = tpc
      BY <1>5, <2>5
         DEF RequestStep, InstanceLost, AdoptResource, Expunge, PreImport,
             PreHookRaises, BeginUpdate, BeginPatch, BeginAction, BeginDelete,
             UpdatePrelude, UpdateTags, DispatchRaises, FinishHere, FinishRaises,
             DeleteConfigHere, DeleteRowHere, DeleteHereRaises
    <3>3. tpc'[r] = "none"
      BY <3>1, <3>2 DEF HandlersOK
    <3>4. rpc'[r] \notin Before \cup {"submit"}
      <4>1. rpc[r] # "configure" /\ (rpc[r] = "pre_create" => rpc'[r] # "submit")
        BY <1>2, <1>5, <2>5
           DEF RequestStep, RequestAt, RequestGoes, InstanceLost, AdoptResource, Expunge,
               PreImport, PreHookRaises, BeginUpdate, BeginPatch, BeginAction, BeginDelete,
               UpdatePrelude, UpdateTags, DispatchRaises, FinishHere, FinishRaises,
               DeleteConfigHere, DeleteRowHere, DeleteHereRaises, RequestRaises
      <4> QED
        BY <1>5, <4>1, StagesOfRequest DEF Before
    <3> QED
      BY <3>3, <3>4 DEF Making
  <2> QED
    BY <2>1, <2>2, <2>3, <2>4, <2>5
<1> QED
  BY <1>4, <1>5

\* An instance in the making is refused to those who arrive.
LEMMA MakerAloneStep ==
  ASSUME Calm, NInv, [Next]_vars
  PROVE  MakerAlone'
<1> USE DEF NInv, Inv
<1>1. CASE Next
  <2>1. PICK r \in Requests : Arrive(r) \/ RequestStep(r) \/ TaskStep(r)
    BY <1>1 DEF Next
  <2>2. /\ \A q \in Requests \ {r} : rpc'[q] = rpc[q] /\ tpc'[q] = tpc[q]
                                     /\ On(q)' = On(q) /\ Op(q)' = Op(q)
        /\ \A k \in Instances \ {On(r)'} : row'[k] = row[k]
    BY <2>1, StepBrings DEF OnlyBy, On, Op
  <2>3. \A q \in Requests \ {r} : Making(q)' <=> Making(q)
    BY <2>2 DEF Making
  <2>4. \A q \in Requests : Making(q) => rpc[q] # "idle"
    BY DEF Making, Before, HandlersOK
  <2>j. \A q \in Requests : On(q) \in Instances
    BY JobType
  <2>5. CASE Arrive(r)
    <3>1. PICK i \in Instances : i = On(r)'
      BY <2>1, StepBrings DEF On
    <3>2. /\ rpc[r] = "idle" /\ tpc'[r] = "none"
          /\ \/ rpc'[r] = "configure" /\ Op(r)' \in {"add", "import"}
                /\ row[i].state = "absent"
             \/ rpc'[r] = "loaded" /\ Op(r)' \notin {"add", "import"} /\ row' = row
                /\ Visible(i)
                /\ (Op(r)' = "action" \/ row[i].status \in Settled)
      BY <2>5, <3>1, ArriveJob DEF Calm, On
    <3>a. Op(r)' # "action"
      <4>1. PICK k \in Instances : InsertInstance(r, k) \/ Load(r, k)
        BY <2>5 DEF Arrive
      <4>2. CASE InsertInstance(r, k)
        BY <3>2, <4>2 DEF InsertInstance, RequestGoes, TypeOK
      <4>3. CASE Load(r, k)
        <5>1. PICK op \in Operations : \E opts :
                job' = [job EXCEPT ![r] = Job(op, k, row[k].status, opts)]
          BY <4>3, Zenon DEF Load
        <5>2. Op(r)' = op
          BY <5>1 DEF TypeOK, Job, Op
        <5> QED
          BY <5>2 DEF Calm
      <4> QED
        BY <4>1, <4>2, <4>3
    <3>3. \A q \in Requests \ {r} : Making(q) => On(q) # i
      BY <2>j, <3>2, <3>a DEF MakerAlone, Visible
    <3>4. \A k \in Instances : row'[k].state = "absent" => row[k].state = "absent"
      BY <2>5, ArriveInserts
    <3>5. Making(r)' => /\ row[i].state = "absent" /\ row'[i].state = "present"
                        /\ row'[i].status \notin Settled
      <4>1. Making(r)' => rpc'[r] = "configure"
        BY <3>2 DEF Making, Before
      <4>2. CASE rpc'[r] = "configure"
        <5>1. row[i].state = "absent" /\ row[i].status = "DRAFT"
          BY <3>2, <4>2 DEF UnbornDraft
        <5>2. row'[i].state # "absent"
          <6>1. PICK k \in Instances : InsertInstance(r, k)
            BY <2>5, <4>2 DEF Arrive, Load, RequestGoes, TypeOK
          <6>a. PICK op : \E opts : job' = [job EXCEPT ![r] = Job(op, k, "DRAFT", opts)]
            BY <6>1, Zenon DEF InsertInstance
          <6>2. job'[r].on = k
            BY <6>a DEF TypeOK, Job
          <6> QED
            BY <3>1, <6>1, <6>2 DEF InsertInstance, TypeOK, Rows, On
        <5> QED
          BY <2>5, <5>1, <5>2, ArriveInserts DEF Settled
      <4> QED
        BY <4>1, <4>2
    <3>6. \A q \in Requests :
            Making(q)' => /\ row'[On(q)'].state \notin {"absent", "soft"}
                          /\ row'[On(q)'].status \notin Settled
                          /\ \A p \in Requests \ {q} : rpc'[p] = "idle" \/ On(p)' # On(q)'
      <4> SUFFICES ASSUME NEW q \in Requests, Making(q)'
                   PROVE  /\ row'[On(q)'].state \notin {"absent", "soft"}
                          /\ row'[On(q)'].status \notin Settled
                          /\ \A p \in Requests \ {q} : rpc'[p] = "idle" \/ On(p)' # On(q)'
        OBVIOUS
      <4>1. CASE q = r
        <5>1. \A p \in Requests \ {r} : rpc[p] = "idle" \/ On(p) # i
          BY <2>j, <3>5, <4>1 DEF MakerAlone
        <5> QED
          BY <2>2, <3>1, <3>5, <4>1, <5>1
      <4>2. CASE q # r
        <5>1. Making(q) /\ On(q) # i /\ On(q)' = On(q)
          BY <2>2, <2>3, <3>3, <4>2
        <5>2. row'[On(q)] = row[On(q)]
          BY <2>2, <2>j, <3>1, <5>1
        <5> QED
          BY <2>2, <3>1, <4>2, <5>1, <5>2 DEF MakerAlone
      <4> QED
        BY <4>1, <4>2
    <3>7. \A q \in Requests : rpc'[q] # "idle" => row'[On(q)'].state # "absent"
      <4>1. CASE rpc'[r] = "configure"
        BY <2>2, <2>j, <3>1, <3>4, <3>5, <4>1 DEF MakerAlone, Making, Before
      <4>2. CASE rpc'[r] # "configure"
        BY <2>2, <2>j, <3>1, <3>2, <3>4, <4>2 DEF MakerAlone, Visible
      <4> QED
        BY <4>1, <4>2
    <3> QED
      BY <2>2, <3>2, <3>a, <3>6, <3>7 DEF MakerAlone
  <2>6. CASE RequestStep(r) \/ TaskStep(r)
    <3>1. \A q \in Requests : On(q)' = On(q) /\ Op(q)' = Op(q)
      BY <2>6, JobKept
    <3>2. rpc[r] # "idle"
      BY <2>6, JobKept, StagesOfTask
    <3>3. \A k \in Instances : row'[k].state = "absent" <=> row[k].state = "absent"
      BY <2>6, StepsKeep DEF Keeps
    <3>4. \A q \in Requests :
            Making(q)' => /\ row'[On(q)].state \notin {"absent", "soft"}
                          /\ row'[On(q)].status \notin Settled
                          /\ \A p \in Requests \ {q} : rpc'[p] = "idle" \/ On(p) # On(q)
      <4> SUFFICES ASSUME NEW q \in Requests, Making(q)'
                   PROVE  /\ row'[On(q)].state \notin {"absent", "soft"}
                          /\ row'[On(q)].status \notin Settled
                          /\ \A p \in Requests \ {q} : rpc'[p] = "idle" \/ On(p) # On(q)
        OBVIOUS
      <4>1. CASE q = r
        <5>1. /\ Making(r) /\ row'[On(r)].state = row[On(r)].state
              /\ row'[On(r)].status \notin Settled
          BY <2>6, <4>1, MakingStep
        <5> QED
          BY <2>2, <4>1, <5>1 DEF MakerAlone
      <4>2. CASE q # r
        <5>1. Making(q) /\ On(q) # On(r)
          BY <2>3, <3>2, <4>2 DEF MakerAlone
        <5>2. row'[On(q)] = row[On(q)]
          BY <2>2, <2>j, <3>1, <5>1
        <5> QED
          BY <2>2, <4>2, <5>1, <5>2 DEF MakerAlone
      <4> QED
        BY <4>1, <4>2
    <3>5. rpc'[r] \notin {"delete_config", "delete_row"}
          /\ (rpc'[r] = "dispatch" => Op(r) # "add")
          /\ (rpc'[r] = "pre_import" => Op(r) = "import")
      <4>1. CASE TaskStep(r)
        BY <4>1, JobKept DEF MakerAlone
      <4>2. CASE RequestStep(r)
        <5>1. On(r) \in Async /\ ~Asked(r, "force") /\ ~Asked(r, "no_propagate")
          BY <2>j DEF Calm, OneCreator, Asked
        <5>2. IsAsync(r) <=> Op(r) # "import"
          BY <5>1 DEF IsAsync
        <5>t. rpc \in [Requests -> RequestStages]
          BY DEF TypeOK
        <5>3. CASE Configure(r) \/ InstanceLost(r) \/ AdoptResource(r) \/ PreCreate(r)
                   \/ Expunge(r) \/ PreHookRaises(r) \/ UpdatePrelude(r)
                   \/ Dispatch(r) \/ DispatchRaises(r) \/ PostHook(r) \/ FinishRaises(r)
          BY <5>t, <5>3
             DEF RequestGoes, Configure, InstanceLost, AdoptResource, PreCreate, Expunge,
                 PreHookRaises, UpdatePrelude, Dispatch, DispatchRaises, PostHook,
                 FinishRaises, RequestRaises
        <5>4. CASE BeginUpdate(r) \/ BeginPatch(r) \/ BeginAction(r) \/ BeginDelete(r)
          BY <5>t, <5>1, <5>4
             DEF RequestGoes, BeginUpdate, BeginPatch, BeginAction, BeginDelete
        <5>5. CASE UpdateTags(r)
          BY <5>t, <5>5 DEF RequestAt, RequestGoes, UpdateTags, HandlersOK
        <5>6. CASE SubmitCreate(r)
          BY <5>t, <5>2, <5>6 DEF RequestGoes, SubmitCreate
        <5>7. CASE FinishHere(r)
          BY <5>t, <5>2, <5>7 DEF RequestGoes, FinishHere
        <5>8. CASE DeleteConfigHere(r) \/ DeleteRowHere(r) \/ DeleteHereRaises(r)
          BY <5>8 DEF RequestAt, DeleteConfigHere, DeleteRowHere, DeleteHereRaises, MakerAlone
        <5>9. CASE PreImport(r)
          BY <5>t, <5>9 DEF RequestAt, RequestGoes, PreImport, MakerAlone, OneCreator
        <5> QED
          BY <4>2, <5>3, <5>4, <5>5, <5>6, <5>7, <5>8, <5>9 DEF RequestStep
      <4> QED
        BY <2>6, <4>1, <4>2
    <3> QED
      BY <2>2, <2>j, <3>1, <3>2, <3>3, <3>4, <3>5 DEF MakerAlone
  <2> QED
    BY <2>1, <2>5, <2>6
<1>2. CASE UNCHANGED vars
  BY <1>2 DEF vars, MakerAlone, Making, On, Op
<1> QED
  BY <1>1, <1>2

\* A row becomes soft deleted in the step RowDeleted of a task.
LEMMA SoftDeletes ==
  ASSUME NInv, NEW r \in Requests, RequestStep(r) \/ TaskStep(r),
         NEW i \in Instances, i = On(r), row'[i].state = "soft", row[i].state # "soft"
  PROVE  tpc[r] = "delete_row"
<1> USE DEF NInv, Inv
<1>1. /\ row \in [Instances -> Rows] /\ row[i] \in Rows
  BY DEF TypeOK
<1>2. \A s : ~UpdateStatus(i, s)
  BY <1>1 DEF UpdateStatus, WithStatus, Rows
<1>3. ~ConfigDeleted(i)
  BY <1>1 DEF ConfigDeleted, Rows
<1>4. row' # row
  OBVIOUS
<1>5. ~Configure(r)
  <2> SUFFICES ASSUME Configure(r) PROVE FALSE
    OBVIOUS
  <2>1. \A s \in Statuses : WithStatus(i, s) \in Rows /\ WithStatus(i, s).state = row[i].state
    BY <1>1 DEF WithStatus, Rows
  <2>2. PICK t \in {row[i], WithStatus(i, "DRAFT"), WithStatus(i, "ERROR")} :
          \E config : row' = [row EXCEPT ![i] = [t EXCEPT !.config = config]]
    BY <1>1 DEF Configure
  <2>3. t \in Rows /\ t.state = row[i].state
    BY <1>1, <2>1 DEF Statuses, Settled, Transient
  <2> QED
    BY <1>1, <2>2, <2>3 DEF Rows
<1>6. ~(AdoptResource(r) \/ UpdatePrelude(r) \/ Expunge(r) \/ PreImport(r))
  BY <1>1, <1>2 DEF AdoptResource, UpdatePrelude, Expunge, PreImport, Rows
<1>7. ~CreateResource(r)
  BY <1>1 DEF CreateResource, Rows
<1>8. ~DeleteRowHere(r)
  BY DEF DeleteRowHere, RequestAt, MakerAlone
<1>9. ~RequestStep(r)
  BY <1>2, <1>3, <1>4, <1>5, <1>6, <1>8
     DEF RequestStep, InstanceLost, PreCreate, SubmitCreate, PreHookRaises,
         BeginUpdate, BeginPatch, BeginAction, BeginDelete, UpdateTags, Dispatch,
         DispatchRaises, PostHook, FinishHere, FinishRaises, DeleteConfigHere,
         DeleteHereRaises, RequestRaises
<1>10. TaskDeletesRow(r)
  BY <1>2, <1>3, <1>4, <1>7, <1>9
     DEF TaskStep, TaskLoad, CreateResourceRaises, WaitResource, ChangeResource,
         DeleteResource, TaskActivates, TaskDeletesConfig, TaskDeleteRaises, TaskFailure
<1> QED
  BY <1>10 DEF TaskDeletesRow, TaskAt

\* A resource named by a row that is clean comes back only in its making.
LEMMA StaysClean ==
  ASSUME Calm, NInv, NEW r \in Requests, RequestStep(r) \/ TaskStep(r),
         NEW k \in Instances, Clean(k)
  PROVE  Clean(k)' \/ (k = On(r) /\ Making(r))
<1>1. \/ remote'[k] \subseteq remote[k] /\ row'[k].uuid = row[k].uuid
      \/ /\ k = On(r)
         /\ \/ rpc[r] = "pre_import"
            \/ Op(r) = "add" /\ tpc[r] = "work"
  BY MakesResource DEF NInv, Calm
<1> QED
  BY <1>1 DEF Clean, Making, Before

\* DeleteResource leaves its instance clean when it goes on to the row.
LEMMA DeleteCleans ==
  ASSUME Calm, NInv, NEW r \in Requests, DeleteResource(r),
         tpc'[r] = "delete_config", NEW i \in Instances, i = On(r)
  PROVE  Clean(i)'
<1> USE DEF NInv, Inv
<1>1. /\ row' = row /\ tpc[r] = "work" /\ Op(r) = "delete"
      /\ \E uuid \in (IF job[r].uuid = "none" THEN {"none"} ELSE CheckResource(i)) :
           remote' = [remote EXCEPT ![i] = @ \ {uuid}]
  BY DEF DeleteResource, TaskAt, TaskGoes, TypeOK
<1>2. PICK uuid \in (IF job[r].uuid = "none" THEN {"none"} ELSE CheckResource(i)) :
        remote' = [remote EXCEPT ![i] = @ \ {uuid}]
  BY <1>1
<1>3. remote \in [Instances -> SUBSET {"own", "given"}]
  BY DEF TypeOK
<1>4. remote'[i] = remote[i] \ {uuid}
  BY <1>2, <1>3
<1>5. CASE job[r].uuid = "none"
  BY <1>1, <1>4, <1>5 DEF DeletesAfterResource, Clean
<1>6. CASE job[r].uuid # "none"
  <2>1. uuid = row[i].uuid \/ row[i].uuid \notin remote[i]
    BY <1>2, <1>6 DEF CheckResource, Calm, May
  <2> QED
    BY <1>1, <1>4, <2>1 DEF Clean
<1> QED
  BY <1>5, <1>6

\* Dispatch tells a delete task of no resource only when there is none.
LEMMA DispatchTells ==
  ASSUME Calm, NInv, NEW r \in Requests, Dispatch(r), job'[r].uuid = "none",
         NEW i \in Instances, i = On(r)
  PROVE  Clean(i)'
<1>1. PICK uuid \in CheckResource(i) :
        job' = [job EXCEPT ![r].queued = "class", ![r].uuid = uuid]
  BY DEF Dispatch
<1>2. uuid = "none"
  BY <1>1 DEF NInv, Inv, TypeOK, Jobs
<1>3. remote[i] \subseteq {"own", "given"} /\ row' = row /\ remote' = remote
  BY DEF NInv, Inv, TypeOK, Dispatch
<1> QED
  BY <1>2, <1>3 DEF CheckResource, Calm, May, Clean

\* Rows are soft deleted by tasks that deleted the resource.
LEMMA DeletesAfterResourceStep ==
  ASSUME Calm, NInv, [Next]_vars
  PROVE  DeletesAfterResource'
<1> USE DEF NInv, Inv
<1>1. CASE Next
  <2>1. PICK r \in Requests : Arrive(r) \/ RequestStep(r) \/ TaskStep(r)
    BY <1>1 DEF Next
  <2>2. /\ \A q \in Requests \ {r} : rpc'[q] = rpc[q] /\ tpc'[q] = tpc[q]
                                     /\ job'[q] = job[q]
                                     /\ On(q)' = On(q) /\ Op(q)' = Op(q)
        /\ \A k \in Instances \ {On(r)'} : row'[k] = row[k]
    BY <2>1, StepBrings DEF OnlyBy, On, Op
  <2>j. \A q \in Requests : On(q) \in Instances
    BY JobType
  <2>i. \A q \in Requests : rpc[q] = "idle" => tpc[q] = "none"
    BY DEF HandlersOK
  <2>3. CASE Arrive(r)
    <3>1. remote' = remote /\ tpc' = tpc /\ tpc[r] = "none"
      BY <2>3, ArriveJob
    <3>2. \A k \in Instances : row[k].state # "absent" => row'[k] = row[k]
      BY <2>3, ArriveInserts
    <3>3. \A k \in Instances : row'[k].state = "soft" => row'[k] = row[k]
      BY <2>3, ArriveInserts
    <3>4. \A q \in Requests : tpc[q] # "none" => row'[On(q)] = row[On(q)] /\ q # r
      BY <2>j, <2>i, <3>1, <3>2 DEF MakerAlone
    <3>5. \A k \in Instances : row'[k].state = "soft" => Clean(k)'
      BY <3>1, <3>3 DEF DeletesAfterResource, Clean
    <3>6. \A q \in Requests : tpc'[q] # "none" => (Clean(On(q)) => row'[On(q)'].uuid \notin remote'[On(q)'])
      BY <2>2, <3>1, <3>4 DEF Clean
    <3> QED
      BY <2>2, <3>1, <3>4, <3>5, <3>6 DEF DeletesAfterResource, Clean
  <2>4. CASE RequestStep(r) \/ TaskStep(r)
    <3>1. \A q \in Requests : On(q)' = On(q) /\ Op(q)' = Op(q)
      BY <2>4, JobKept
    <3>2. rpc[r] # "idle"
      BY <2>4, JobKept, StagesOfTask
    <3>3. PICK i \in Instances : i = On(r)
      BY <2>j
    \* The others on a clean instance see it stay clean: its maker is alone.
    <3>4. ASSUME NEW q \in Requests \ {r}, rpc[q] # "idle", Clean(On(q))
          PROVE  row'[On(q)].uuid \notin remote'[On(q)]
      <4>1. PICK k \in Instances : k = On(q)
        BY <2>j
      <4>2. Clean(k)' \/ (k = On(r) /\ Making(r))
        BY <2>4, <3>4, <4>1, StaysClean
      <4>3. ~(k = On(r) /\ Making(r))
        BY <3>4, <4>1 DEF MakerAlone
      <4> QED
        BY <4>1, <4>2, <4>3 DEF Clean
    \* What r itself owes.
    <3>5. tpc'[r] \in {"delete_config", "delete_row"} => Op(r) = "delete" /\ Clean(i)'
      <4> SUFFICES ASSUME tpc'[r] \in {"delete_config", "delete_row"}
                   PROVE  Op(r) = "delete" /\ Clean(i)'
        OBVIOUS
      <4>1. CASE tpc[r] \in {"delete_config", "delete_row"}
        <5>1. Op(r) = "delete" /\ Clean(i)
          BY <3>3, <4>1 DEF DeletesAfterResource
        <5>2. ~Making(r)
          BY <4>1, <5>1 DEF Making, HandlersOK, Before
        <5> QED
          BY <2>4, <3>3, <5>1, <5>2, StaysClean
      <4>2. CASE tpc[r] \notin {"delete_config", "delete_row"}
        <5>1. DeleteResource(r) /\ tpc'[r] = "delete_config"
          BY <2>4, <4>2, StagesOfTask, StagesOfRequest
        <5>2. Op(r) = "delete"
          BY <5>1 DEF DeleteResource
        <5> QED
          BY <3>3, <5>1, <5>2, DeleteCleans
      <4> QED
        BY <4>1, <4>2
    <3>6. tpc'[r] \in {"queued", "work"} /\ Op(r) = "delete" /\ job'[r].uuid = "none" => Clean(i)'
      <4> SUFFICES ASSUME tpc'[r] \in {"queued", "work"}, Op(r) = "delete", job'[r].uuid = "none"
                   PROVE  Clean(i)'
        OBVIOUS
      <4>1. CASE tpc[r] \in {"queued", "work"} /\ job'[r] = job[r]
        <5>1. Clean(i)
          BY <3>3, <4>1 DEF DeletesAfterResource
        <5>2. ~Making(r)
          BY <4>1 DEF Making, HandlersOK, Before
        <5> QED
          BY <2>4, <3>3, <5>1, <5>2, StaysClean
      <4>2. CASE ~(tpc[r] \in {"queued", "work"} /\ job'[r] = job[r])
        <5>1. Dispatch(r)
          <6>1. CASE TaskStep(r)
            <7>1. tpc[r] = "queued"
              BY <6>1, StagesOfTask
            <7>2. job' = job
              BY <6>1 DEF TaskStep, TaskLoad, CreateResource, CreateResourceRaises,
                          WaitResource, ChangeResource, DeleteResource, TaskActivates,
                          TaskDeletesConfig, TaskDeletesRow, TaskDeleteRaises, TaskFailure
            <7> QED
              BY <4>2, <7>1, <7>2
          <6>2. CASE RequestStep(r)
            <7>1. ~SubmitCreate(r)
              BY DEF SubmitCreate, RequestAt, OneCreator
            <7>2. Dispatch(r) \/ (tpc' = tpc /\ job' = job)
              BY <6>2, <7>1
                 DEF RequestStep, Configure, InstanceLost, AdoptResource, PreCreate,
                     Expunge, PreImport, PreHookRaises, BeginUpdate, BeginPatch,
                     BeginAction, BeginDelete, UpdatePrelude, UpdateTags, DispatchRaises,
                     PostHook, FinishHere, FinishRaises, DeleteConfigHere, DeleteRowHere,
                     DeleteHereRaises
            <7> QED
              BY <4>2, <7>2
          <6> QED
            BY <2>4, <6>1, <6>2
        <5> QED
          BY <3>3, <5>1, DispatchTells
      <4> QED
        BY <4>1, <4>2
    <3>7. ASSUME NEW k \in Instances, row'[k].state = "soft"
          PROVE  Clean(k)'
      <4>1. CASE row[k].state = "soft"
        <5>1. Clean(k)
          BY <4>1 DEF DeletesAfterResource
        <5>2. ~(k = On(r) /\ Making(r))
          BY <4>1 DEF MakerAlone
        <5> QED
          BY <2>4, <5>1, <5>2, StaysClean
      <4>2. CASE row[k].state # "soft"
        <5>1. k = i
          BY <2>2, <3>1, <3>3, <3>7, <4>2
        <5>2. tpc[r] = "delete_row"
          BY <2>4, <3>3, <3>7, <4>2, <5>1, SoftDeletes
        <5>3. Clean(i) /\ Op(r) = "delete"
          BY <3>3, <5>2 DEF DeletesAfterResource
        <5>4. ~Making(r)
          BY <5>2 DEF Making, HandlersOK, Before
        <5> QED
          BY <2>4, <3>3, <5>1, <5>3, <5>4, StaysClean
      <4> QED
        BY <4>1, <4>2
    <3>8. \A q \in Requests :
            tpc'[q] \in {"delete_config", "delete_row"}
              => Op(q)' = "delete" /\ row'[On(q)'].uuid \notin remote'[On(q)']
      <4> TAKE q \in Requests
      <4>1. CASE q = r
        BY <3>1, <3>3, <3>5, <4>1 DEF Clean
      <4>2. CASE q # r
        BY <2>2, <2>i, <3>1, <3>4, <4>2 DEF DeletesAfterResource
      <4> QED
        BY <4>1, <4>2
    <3>9. \A q \in Requests :
            tpc'[q] \in {"queued", "work"} /\ Op(q)' = "delete" /\ job'[q].uuid = "none"
              => row'[On(q)'].uuid \notin remote'[On(q)']
      <4> TAKE q \in Requests
      <4>1. CASE q = r
        BY <3>1, <3>3, <3>6, <4>1 DEF Clean
      <4>2. CASE q # r
        BY <2>2, <2>i, <3>1, <3>4, <4>2 DEF DeletesAfterResource
      <4> QED
        BY <4>1, <4>2
    <3> QED
      BY <3>7, <3>8, <3>9 DEF DeletesAfterResource, Clean
  <2> QED
    BY <2>1, <2>3, <2>4
<1>2. CASE UNCHANGED vars
  BY <1>2 DEF vars, DeletesAfterResource, Clean, On, Op
<1> QED
  BY <1>1, <1>2

\* In a calm system a soft deleted instance has no resource left: the status
\* check keeps every other request off an instance in the making, and a task
\* deletes the row only after the resource, whoever else works on the instance.
THEOREM NoOrphanWhenCalm == Calm => (Spec => []NoOrphanResource)
<1> SUFFICES ASSUME Calm PROVE Spec => []NoOrphanResource
  OBVIOUS
<1>1. Init => MakerAlone /\ DeletesAfterResource
  <2> SUFFICES ASSUME Init PROVE MakerAlone /\ DeletesAfterResource
    OBVIOUS
  <2>1. \A r \in Requests : rpc[r] = "idle" /\ tpc[r] = "none" /\ ~Making(r)
    BY DEF Init, Making, Before
  <2>2. \A i \in Instances : row[i].state # "soft"
    BY DEF Init, OldRow, NoRow
  <2> QED
    BY <2>1, <2>2 DEF MakerAlone, DeletesAfterResource
<1>2. Init => NInv
  BY <1>1, InitRInv, OneCreatorInit DEF NInv, RInv
<1>3. NInv /\ [Next]_vars => NInv'
  <2> SUFFICES ASSUME NInv, [Next]_vars PROVE NInv'
    OBVIOUS
  <2>1. RInv'
    BY RInvStep DEF NInv, RInv
  <2>2. OneCreator'
    BY OneCreatorStep DEF NInv
  <2>3. MakerAlone' /\ DeletesAfterResource'
    BY MakerAloneStep, DeletesAfterResourceStep
  <2> QED
    BY <2>1, <2>2, <2>3 DEF NInv, RInv
<1>4. NInv => NoOrphanResource
  BY DEF NInv, DeletesAfterResource, Clean, NoOrphanResource
<1> QED
  BY <1>2, <1>3, <1>4, PTL DEF Spec
============================================================================
