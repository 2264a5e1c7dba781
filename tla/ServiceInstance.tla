--------------------------- MODULE ServiceInstance ---------------------------
(* The life of a service instance: API requests (AsyncApiServiceTypePlugin)  *)
(* and the celery tasks they queue (TypePluginInstance*Task) work on the     *)
(* same rows of table service_instance, each write of a row being a          *)
(* transaction of its own.                                                   *)
(*                                                                           *)
(* A request serves one client operation: a thread in the API server, and at *)
(* most one task in a celery worker. No lock is held between its steps.      *)
EXTENDS FiniteSets, Naturals

CONSTANTS
  Instances,    \* oids of service instances
  Requests,     \* client requests, each serving one operation
  Async,        \* instances whose plugin has celery tasks
  Existing,     \* instances created before the first request
  Operations,   \* operations the clients ask for
  Options,      \* request options the clients use
  Faults        \* calls that may raise

OperationKinds == {"add", "import", "update", "patch", "action", "delete"}
OptionKinds == {"force", "no_propagate", "given", "override"}
FaultKinds == {"insert", "hook", "prelude", "tags", "dispatch", "check",
               "remote", "lost_reply", "soft_delete"}

ASSUME ConstantsAssumption ==
  /\ Instances # {}
  /\ Async \subseteq Instances
  /\ Existing \subseteq Instances
  /\ Operations \subseteq OperationKinds
  /\ Options \subseteq OptionKinds
  /\ Faults \subseteq FaultKinds

VARIABLES
  row,      \* row[i]: the service_instance row, its config row and resource_uuid
  remote,   \* remote[i]: resources made for i that the resource service keeps
  rpc,      \* rpc[r]: where the API thread of request r is
  tpc,      \* tpc[r]: where the celery task queued by request r is
  job       \* job[r]: what request r asked for and what its handler holds

vars == <<row, remote, rpc, tpc, job>>

----------------------------------------------------------------------------
(* States.                                                                 *)

Settled == {"ACTIVE", "ERROR"}            \* accepted by check_status
Transient == {"DRAFT", "BUILDING", "PENDING", "CREATED", "DELETING"}
Statuses == Settled \cup Transient \cup {"DELETED"}

Uuids == {"none", "own", "given"}         \* values of resource_uuid
RowStates == {"absent", "present", "soft", "purged"}

Rows == [state : RowStates, status : Statuses,
         config : {"none", "live", "deleted"}, uuid : Uuids]

NoRow == [state |-> "absent", status |-> "DRAFT", config |-> "none", uuid |-> "none"]
OldRow == [state |-> "present", status |-> "ACTIVE", config |-> "live", uuid |-> "own"]

\* seen: status in the model the request loaded; queued: name of the task it
\* queued; uuid: resource uuid it passed to the task.
Jobs == [op : OperationKinds, on : Instances, seen : Statuses,
         opts : SUBSET OptionKinds, queued : {"none", "class", "override"},
         uuid : Uuids]

Job(op, i, seen, opts) ==
  [op |-> op, on |-> i, seen |-> seen, opts |-> opts,
   queued |-> "none", uuid |-> "none"]

RequestStages == {"idle", "configure", "pre_create", "pre_import", "submit",
                  "loaded", "prelude", "tags", "dispatch", "post",
                  "delete_config", "delete_row", "done", "failed", "escaped"}
TaskStages == {"none", "queued", "work", "wait", "finish", "delete_config",
               "delete_row", "failing", "ended"}

Init ==
  /\ row = [i \in Instances |-> IF i \in Existing THEN OldRow ELSE NoRow]
  /\ remote = [i \in Instances |-> IF i \in Existing THEN {"own"} ELSE {}]
  /\ rpc = [r \in Requests |-> "idle"]
  /\ tpc = [r \in Requests |-> "none"]
  /\ job = [r \in Requests |-> Job("action", CHOOSE i \in Instances : TRUE, "DRAFT", {})]

----------------------------------------------------------------------------
(* The row and its writers.                                                *)

\* get_entity finds a row that is neither missing nor soft deleted.
Visible(i) == row[i].state = "present"

\* update_entity finds a row by its id, soft deleted or not.
Stored(i) == row[i].state \in {"present", "soft"}

On(r) == job[r].on
Op(r) == job[r].op
Asked(r, option) == option \in job[r].opts
May(fault) == fault \in Faults

\* Bug: the write clears the expiry date of a soft deleted row.
BugWithStatusRevives(i, s) ==
  IF Stored(i) THEN [row[i] EXCEPT !.status = s, !.state = "present"] ELSE row[i]

\* update_status: a write by oid that looks at nothing.
WithStatus(i, s) == IF Stored(i) THEN [row[i] EXCEPT !.status = s] ELSE row[i]
UpdateStatus(i, s) == row' = [row EXCEPT ![i] = WithStatus(i, s)]

RequestAt(r, stage) == rpc[r] = stage
RequestGoes(r, stage) == rpc' = [rpc EXCEPT ![r] = stage]
TaskAt(r, stage) == tpc[r] = stage
TaskGoes(r, stage) == tpc' = [tpc EXCEPT ![r] = stage]

\* The handler's except clause: status ERROR, the exception raised again.
RequestRaises(r) ==
  /\ UpdateStatus(On(r), "ERROR")
  /\ RequestGoes(r, "failed")

\* The plugin hands the operation to a celery task.
IsAsync(r) ==
  /\ On(r) \in Async
  /\ Op(r) # "import"
  /\ ~(Op(r) = "update" /\ Asked(r, "force"))

\* check_resource: the resource uuid, or None when the resource service does
\* not know it or does not answer.
CheckResource(i) ==
  (IF row[i].uuid \in remote[i] THEN {row[i].uuid} ELSE {"none"})
    \cup (IF May("check") THEN {"none"} ELSE {})

OptionsOf(op, i) ==
  Options \cap CASE op = "add"    -> {"given"}
                 [] op = "update" -> {"given", "force"}
                 [] op = "delete" -> {"force", "no_propagate"}
                 [] op = "action" -> IF i \in Async THEN {"override"} ELSE {}
                 [] OTHER         -> {}

----------------------------------------------------------------------------
(* add_service_type_plugin and import_service_type_plugin.                 *)

\* Bug: the row is inserted ACTIVE.
BugInsertActive(r, i) ==
  /\ RequestAt(r, "idle")
  /\ row[i].state = "absent"
  /\ row' = [row EXCEPT ![i].state = "present", ![i].status = "ACTIVE"]
  /\ \E op \in Operations \cap {"add", "import"} :
       \E opts \in SUBSET OptionsOf(op, i) :
         job' = [job EXCEPT ![r] = Job(op, i, "DRAFT", opts)]
  /\ RequestGoes(r, "configure")
  /\ UNCHANGED <<remote, tpc>>

\* The DRAFT row is inserted.
InsertInstance(r, i) ==
  /\ RequestAt(r, "idle")
  /\ row[i].state = "absent"
  /\ row' = [row EXCEPT ![i].state = "present"]
  /\ \E op \in Operations \cap {"add", "import"} :
       \E opts \in SUBSET OptionsOf(op, i) :
         job' = [job EXCEPT ![r] = Job(op, i, "DRAFT", opts)]
  /\ RequestGoes(r, "configure")
  /\ UNCHANGED <<remote, tpc>>

\* Its configuration and its link to the parent follow; add writes no status
\* (None), import writes DRAFT. Only ApiManagerError is caught.
Configure(r) ==
  LET i == On(r) IN
  /\ RequestAt(r, "configure")
  /\ \/ /\ row' = [row EXCEPT
                     ![i] = [(IF Op(r) = "import" THEN WithStatus(i, "DRAFT") ELSE row[i])
                             EXCEPT !.config = "live"]]
        /\ RequestGoes(r, IF Op(r) = "import" THEN "pre_import" ELSE "pre_create")
     \/ /\ May("insert")
        /\ \E config \in {"none", "live"} :
             row' = [row EXCEPT ![i] = [WithStatus(i, "ERROR") EXCEPT !.config = config]]
        /\ RequestGoes(r, "failed")
     \/ /\ May("insert")
        /\ \E config \in {"none", "live"} : row' = [row EXCEPT ![i].config = config]
        /\ RequestGoes(r, "escaped")
  /\ UNCHANGED <<remote, tpc, job>>

\* The row is read again; nobody may have deleted it.
InstanceLost(r) ==
  /\ rpc[r] \in {"pre_create", "pre_import"}
  /\ ~Visible(On(r))
  /\ RequestGoes(r, "failed")
  /\ UNCHANGED <<row, remote, tpc, job>>

\* A resource passed by the client is recorded and nothing else is done.
AdoptResource(r) ==
  LET i == On(r) IN
  /\ RequestAt(r, "pre_create")
  /\ Visible(i)
  /\ Asked(r, "given")
  /\ row' = [row EXCEPT ![i].uuid = "given"]
  /\ remote' = [remote EXCEPT ![i] = @ \cup {"given"}]
  /\ RequestGoes(r, "escaped")
  /\ UNCHANGED <<tpc, job>>

PreCreate(r) ==
  /\ RequestAt(r, "pre_create")
  /\ Visible(On(r))
  /\ ~Asked(r, "given")
  /\ RequestGoes(r, "submit")
  /\ UNCHANGED <<row, remote, tpc, job>>

\* Bug: a failing post_import expunges the instance too.
BugExpungeLate(r) ==
  LET i == On(r) IN
  /\ rpc[r] \in {"pre_create", "pre_import", "dispatch"}
  /\ Visible(i)
  /\ row' = [row EXCEPT ![i].state = "purged", ![i].config = "none"]
  /\ RequestGoes(r, "failed")
  /\ UNCHANGED <<remote, tpc, job>>

\* pre_create or pre_import raises: expunge_instance.
Expunge(r) ==
  LET i == On(r) IN
  /\ \/ RequestAt(r, "pre_create") /\ ~Asked(r, "given")
     \/ RequestAt(r, "pre_import")
  /\ Visible(i)
  /\ row' = [row EXCEPT ![i].state = "purged", ![i].config = "none"]
  /\ RequestGoes(r, "failed")
  /\ UNCHANGED <<remote, tpc, job>>

\* pre_import keeps or drops the resource of the client; status BUILDING.
PreImport(r) ==
  LET i == On(r) IN
  /\ RequestAt(r, "pre_import")
  /\ Visible(i)
  /\ \/ /\ row' = [row EXCEPT ![i].uuid = "given", ![i].status = "BUILDING"]
        /\ remote' = [remote EXCEPT ![i] = @ \cup {"given"}]
     \/ UpdateStatus(i, "BUILDING") /\ UNCHANGED remote
  /\ RequestGoes(r, "dispatch")
  /\ UNCHANGED <<tpc, job>>

\* The create task is queued, or status BUILDING is written before post_create.
SubmitCreate(r) ==
  /\ RequestAt(r, "submit")
  /\ \/ /\ IsAsync(r)
        /\ job' = [job EXCEPT ![r].queued = "class"]
        /\ TaskGoes(r, "queued")
        /\ RequestGoes(r, "post")
        /\ UNCHANGED row
     \/ /\ ~IsAsync(r)
        /\ UpdateStatus(On(r), "BUILDING")
        /\ RequestGoes(r, "dispatch")
        /\ UNCHANGED <<tpc, job>>
  /\ UNCHANGED remote

----------------------------------------------------------------------------
(* update, patch, action and delete of the service type plugin.            *)

\* Bug: the status is not checked.
BugLoadAnyStatus(r, i) ==
  /\ RequestAt(r, "idle")
  /\ Visible(i)
  /\ \E op \in Operations \ {"add", "import"} :
       \E opts \in SUBSET OptionsOf(op, i) :
         job' = [job EXCEPT ![r] = Job(op, i, row[i].status, opts)]
  /\ RequestGoes(r, "loaded")
  /\ UNCHANGED <<row, remote, tpc>>

\* The view loads the instance; the handler checks the status it loaded.
Load(r, i) ==
  /\ RequestAt(r, "idle")
  /\ Visible(i)
  /\ \E op \in Operations \ {"add", "import"} :
       \E opts \in SUBSET OptionsOf(op, i) :
         /\ \/ op = "action"
            \/ op = "delete" /\ "force" \in opts
            \/ row[i].status \in Settled
         /\ job' = [job EXCEPT ![r] = Job(op, i, row[i].status, opts)]
  /\ RequestGoes(r, "loaded")
  /\ UNCHANGED <<row, remote, tpc>>

\* pre_update, pre_patch, pre_action or pre_delete raises.
PreHookRaises(r) ==
  /\ RequestAt(r, "loaded")
  /\ ~Asked(r, "no_propagate")
  /\ RequestGoes(r, "failed")
  /\ UNCHANGED <<row, remote, tpc, job>>

BeginUpdate(r) ==
  /\ RequestAt(r, "loaded")
  /\ Op(r) = "update"
  /\ UpdateStatus(On(r), "BUILDING")
  /\ RequestGoes(r, "prelude")
  /\ UNCHANGED <<remote, tpc, job>>

BeginPatch(r) ==
  /\ RequestAt(r, "loaded")
  /\ Op(r) = "patch"
  /\ UpdateStatus(On(r), "BUILDING")
  /\ RequestGoes(r, "dispatch")
  /\ UNCHANGED <<remote, tpc, job>>

BeginAction(r) ==
  /\ RequestAt(r, "loaded")
  /\ Op(r) = "action"
  /\ RequestGoes(r, "dispatch")
  /\ UNCHANGED <<row, remote, tpc, job>>

\* Bug: a status that does not exist.
BugBeginDeleteStatus(r) ==
  /\ RequestAt(r, "loaded")
  /\ Op(r) = "delete"
  /\ UpdateStatus(On(r), "DELETE")
  /\ RequestGoes(r, IF Asked(r, "no_propagate") THEN "delete_config" ELSE "dispatch")
  /\ UNCHANGED <<remote, tpc, job>>

BeginDelete(r) ==
  /\ RequestAt(r, "loaded")
  /\ Op(r) = "delete"
  /\ UpdateStatus(On(r), "DELETING")
  /\ RequestGoes(r, IF Asked(r, "no_propagate") THEN "delete_config" ELSE "dispatch")
  /\ UNCHANGED <<remote, tpc, job>>

\* update writes resource_uuid and links the parent outside any try.
UpdatePrelude(r) ==
  LET i == On(r) IN
  /\ RequestAt(r, "prelude")
  /\ IF Asked(r, "given") /\ Stored(i)
     THEN /\ row' = [row EXCEPT ![i].uuid = "given"]
          /\ remote' = [remote EXCEPT ![i] = @ \cup {"given"}]
     ELSE UNCHANGED <<row, remote>>
  /\ \/ RequestGoes(r, "tags")
     \/ May("prelude") /\ RequestGoes(r, "escaped")
  /\ UNCHANGED <<tpc, job>>

\* A failure on the tags puts back the status the request had loaded.
UpdateTags(r) ==
  /\ RequestAt(r, "tags")
  /\ \/ /\ RequestGoes(r, "dispatch")
        /\ UNCHANGED row
     \/ /\ May("tags")
        /\ UpdateStatus(On(r), job[r].seen)
        /\ RequestGoes(r, "failed")
  /\ UNCHANGED <<remote, tpc, job>>

\* prepare_or_run_task queues the task of the plugin class, with the resource
\* check_resource found. (action pops an overriding task name and ignores it.)
Dispatch(r) ==
  /\ RequestAt(r, "dispatch")
  /\ IsAsync(r)
  /\ \E uuid \in CheckResource(On(r)) :
       job' = [job EXCEPT ![r].queued = "class", ![r].uuid = uuid]
  /\ TaskGoes(r, "queued")
  /\ RequestGoes(r, "post")
  /\ UNCHANGED <<row, remote>>

\* Bug: the except clause does not write ERROR.
BugDispatchRaisesSilently(r) ==
  /\ May("dispatch")
  /\ RequestAt(r, "submit") \/ RequestAt(r, "dispatch")
  /\ IsAsync(r)
  /\ RequestGoes(r, "failed")
  /\ UNCHANGED <<row, remote, tpc, job>>

DispatchRaises(r) ==
  /\ May("dispatch")
  /\ RequestAt(r, "submit") \/ RequestAt(r, "dispatch")
  /\ IsAsync(r)
  /\ RequestRaises(r)
  /\ UNCHANGED <<remote, tpc, job>>

\* post_* after the task is queued: the task goes on whatever happens here.
PostHook(r) ==
  /\ RequestAt(r, "post")
  /\ \/ /\ RequestGoes(r, "done")
        /\ UNCHANGED row
     \/ May("hook") /\ RequestRaises(r)
  /\ UNCHANGED <<remote, tpc, job>>

\* A plugin without tasks ends the operation in the request.
FinishHere(r) ==
  /\ RequestAt(r, "dispatch")
  /\ ~IsAsync(r)
  /\ Op(r) = "import" => Visible(On(r))
  /\ CASE Op(r) = "delete" -> RequestGoes(r, "delete_config") /\ UNCHANGED row
       [] Op(r) = "action" -> RequestGoes(r, "done") /\ UNCHANGED row
       [] OTHER -> UpdateStatus(On(r), "ACTIVE") /\ RequestGoes(r, "done")
  /\ UNCHANGED <<remote, tpc, job>>

FinishRaises(r) ==
  /\ RequestAt(r, "dispatch")
  /\ ~IsAsync(r)
  /\ May("hook") \/ (Op(r) = "import" /\ ~Visible(On(r)))
  /\ RequestRaises(r)
  /\ UNCHANGED <<remote, tpc, job>>

----------------------------------------------------------------------------
(* delete_instance: soft delete of the configuration, then of the row.     *)

ConfigDeleted(i) ==
  row' = [row EXCEPT ![i].config = IF @ = "live" THEN "deleted" ELSE @,
                     ![i].status = "DELETING"]

\* Bug: the status is written, the expiry date is not.
BugRowDeletedStays(i) ==
  row' = [row EXCEPT ![i] = IF Stored(i) THEN [@ EXCEPT !.status = "DELETED"] ELSE @]

RowDeleted(i) ==
  row' = [row EXCEPT ![i] = IF Stored(i)
                            THEN [@ EXCEPT !.state = "soft", !.status = "DELETED"]
                            ELSE @]

DeleteConfigHere(r) ==
  /\ RequestAt(r, "delete_config")
  /\ Visible(On(r))
  /\ ConfigDeleted(On(r))
  /\ RequestGoes(r, "delete_row")
  /\ UNCHANGED <<remote, tpc, job>>

DeleteRowHere(r) ==
  /\ RequestAt(r, "delete_row")
  /\ RowDeleted(On(r))
  /\ RequestGoes(r, "done")
  /\ UNCHANGED <<remote, tpc, job>>

\* Without propagation no except clause surrounds delete_instance.
DeleteHereRaises(r) ==
  /\ \/ RequestAt(r, "delete_config") /\ (May("soft_delete") \/ ~Visible(On(r)))
     \/ RequestAt(r, "delete_row") /\ May("soft_delete")
  /\ IF Asked(r, "no_propagate")
     THEN RequestGoes(r, "escaped") /\ UNCHANGED row
     ELSE RequestRaises(r)
  /\ UNCHANGED <<remote, tpc, job>>

----------------------------------------------------------------------------
(* Celery tasks.                                                           *)

\* get_type_plugin, or the 404 that ends the task without a trace.
TaskLoad(r) ==
  /\ TaskAt(r, "queued")
  /\ TaskGoes(r, IF Visible(On(r)) THEN "work" ELSE "ended")
  /\ UNCHANGED <<row, remote, rpc, job>>

\* create_resource: POST, set_resource, status PENDING.
CreateResource(r) ==
  LET i == On(r) IN
  /\ TaskAt(r, "work")
  /\ Op(r) = "add"
  /\ row' = [row EXCEPT ![i] = IF Stored(i)
                               THEN [@ EXCEPT !.uuid = "own", !.status = "PENDING"]
                               ELSE @]
  /\ remote' = [remote EXCEPT ![i] = @ \cup {"own"}]
  /\ TaskGoes(r, "wait")
  /\ UNCHANGED <<rpc, job>>

\* The POST fails; with a lost reply the resource exists and its uuid is not known.
CreateResourceRaises(r) ==
  LET i == On(r) IN
  /\ TaskAt(r, "work")
  /\ Op(r) = "add"
  /\ \/ May("remote") /\ UNCHANGED remote
     \/ May("lost_reply") /\ remote' = [remote EXCEPT ![i] = @ \cup {"own"}]
  /\ UpdateStatus(i, "ERROR")
  /\ TaskGoes(r, "failing")
  /\ UNCHANGED <<rpc, job>>

\* wait_for_task, then CREATED; a failed or late remote task writes ERROR.
WaitResource(r) ==
  /\ TaskAt(r, "wait")
  /\ \/ UpdateStatus(On(r), "CREATED") /\ TaskGoes(r, "finish")
     \/ May("remote") /\ UpdateStatus(On(r), "ERROR") /\ TaskGoes(r, "failing")
  /\ UNCHANGED <<remote, rpc, job>>

\* update_resource, patch_resource or action_resource; skipped without resource.
ChangeResource(r) ==
  /\ TaskAt(r, "work")
  /\ Op(r) \in {"update", "patch", "action"}
  /\ \/ /\ TaskGoes(r, IF Op(r) = "action" THEN "ended" ELSE "finish")
        /\ UNCHANGED row
     \/ /\ May("remote")
        /\ job[r].uuid # "none"
        /\ UpdateStatus(On(r), "ERROR")
        /\ TaskGoes(r, "failing")
  /\ UNCHANGED <<remote, rpc, job>>

\* delete_resource, skipped without resource: checks the resource again, and
\* returns False when the check finds none.
DeleteResource(r) ==
  LET i == On(r) IN
  /\ TaskAt(r, "work")
  /\ Op(r) = "delete"
  /\ \/ /\ \E uuid \in (IF job[r].uuid = "none" THEN {"none"} ELSE CheckResource(i)) :
             remote' = [remote EXCEPT ![i] = @ \ {uuid}]
        /\ TaskGoes(r, "delete_config")
        /\ UNCHANGED row
     \/ /\ May("remote")
        /\ job[r].uuid # "none"
        /\ UpdateStatus(i, "ERROR")
        /\ TaskGoes(r, "failing")
        /\ UNCHANGED remote
  /\ UNCHANGED <<rpc, job>>

\* The last line of the create, update and patch steps: status ACTIVE.
TaskActivates(r) ==
  /\ TaskAt(r, "finish")
  /\ UpdateStatus(On(r), "ACTIVE")
  /\ TaskGoes(r, "ended")
  /\ UNCHANGED <<remote, rpc, job>>

TaskDeletesConfig(r) ==
  /\ TaskAt(r, "delete_config")
  /\ Visible(On(r))
  /\ ConfigDeleted(On(r))
  /\ TaskGoes(r, "delete_row")
  /\ UNCHANGED <<remote, rpc, job>>

TaskDeletesRow(r) ==
  /\ TaskAt(r, "delete_row")
  /\ RowDeleted(On(r))
  /\ TaskGoes(r, "ended")
  /\ UNCHANGED <<remote, rpc, job>>

TaskDeleteRaises(r) ==
  /\ \/ TaskAt(r, "delete_config") /\ (May("soft_delete") \/ ~Visible(On(r)))
     \/ TaskAt(r, "delete_row") /\ May("soft_delete")
  /\ TaskGoes(r, "failing")
  /\ UNCHANGED <<row, remote, rpc, job>>

\* Bug: failure() leaves the status alone.
BugTaskFailureSilent(r) ==
  /\ TaskAt(r, "failing")
  /\ TaskGoes(r, "ended")
  /\ UNCHANGED <<row, remote, rpc, job>>

\* failure(): status ERROR, unless the instance is not found any more.
TaskFailure(r) ==
  /\ TaskAt(r, "failing")
  /\ IF Visible(On(r)) THEN UpdateStatus(On(r), "ERROR") ELSE UNCHANGED row
  /\ TaskGoes(r, "ended")
  /\ UNCHANGED <<remote, rpc, job>>

----------------------------------------------------------------------------
(* Specification.                                                          *)

Arrive(r) == \E i \in Instances : InsertInstance(r, i) \/ Load(r, i)

RequestStep(r) ==
  \/ Configure(r) \/ InstanceLost(r) \/ AdoptResource(r) \/ PreCreate(r)
  \/ Expunge(r) \/ PreImport(r) \/ SubmitCreate(r)
  \/ PreHookRaises(r) \/ BeginUpdate(r) \/ BeginPatch(r) \/ BeginAction(r)
  \/ BeginDelete(r) \/ UpdatePrelude(r) \/ UpdateTags(r)
  \/ Dispatch(r) \/ DispatchRaises(r) \/ PostHook(r)
  \/ FinishHere(r) \/ FinishRaises(r)
  \/ DeleteConfigHere(r) \/ DeleteRowHere(r) \/ DeleteHereRaises(r)

TaskStep(r) ==
  \/ TaskLoad(r) \/ CreateResource(r) \/ CreateResourceRaises(r)
  \/ WaitResource(r) \/ ChangeResource(r) \/ DeleteResource(r)
  \/ TaskActivates(r) \/ TaskDeletesConfig(r) \/ TaskDeletesRow(r)
  \/ TaskDeleteRaises(r) \/ TaskFailure(r)

Next == \E r \in Requests : Arrive(r) \/ RequestStep(r) \/ TaskStep(r)

Spec == Init /\ [][Next]_vars

\* A thread that started a handler runs it to its end, and a celery worker
\* runs every queued task to its end.
FairSpec ==
  /\ Spec
  /\ \A r \in Requests : WF_vars(RequestStep(r)) /\ WF_vars(TaskStep(r))

----------------------------------------------------------------------------
(* Properties.                                                             *)

\* Every variable holds values of its kind.
TypeOK ==
  /\ row \in [Instances -> Rows]
  /\ remote \in [Instances -> SUBSET {"own", "given"}]
  /\ rpc \in [Requests -> RequestStages]
  /\ tpc \in [Requests -> TaskStages]
  /\ job \in [Requests -> Jobs]

\* Request r, or the task it queued, still has a status to write on its row.
\* (The action handler writes one only when it fails.)
RequestWorks(r) ==
  \/ rpc[r] \in {"configure", "pre_create", "pre_import", "submit", "prelude",
                 "tags", "delete_config", "delete_row"}
  \/ rpc[r] = "dispatch" /\ Op(r) # "action"
TaskWorks(r) == tpc[r] \notin {"none", "ended"} /\ Op(r) # "action"
WorkedOn(i) == \E r \in Requests : On(r) = i /\ (RequestWorks(r) \/ TaskWorks(r))

\* Request r left a handler through code no except clause surrounds.
EscapedOn(i) == \E r \in Requests : On(r) = i /\ rpc[r] = "escaped"

InTransit(i) == Visible(i) /\ row[i].status \notin Settled

\* A service instance in a status that check_status refuses (DRAFT, BUILDING,
\* PENDING, CREATED, DELETING) always has a request or a task that will write
\* its status, unless a request left the handler outside any try: the parent
\* link of update (service_type.py:661-668), the delete without propagation
\* (957-965), an uncaught exception of add_service_type_plugin, or its early
\* return for a given resource (controller/__init__.py:2389-2393).
NoUnownedTransit == \A i \in Instances : InTransit(i) => WorkedOn(i) \/ EscapedOn(i)

\* When nobody forces a delete or stops its propagation, and the hooks after
\* queueing and the resource checks answer, a soft deleted instance leaves no
\* resource behind in the resource service, however requests and tasks
\* interleave (delete_resource_step deletes the resource before the row).
NoOrphanResource ==
  \A i \in Instances : row[i].state = "soft" => row[i].uuid \notin remote[i]

\* expunge_instance removes the row for good: no resource may be lost with it.
PurgeLosesNothing ==
  \A i \in Instances : row[i].state = "purged" => remote[i] = {}

\* When nobody works on it any more, an ACTIVE instance has its configuration
\* (delete_instance deletes the configuration before the row, while update and
\* patch tasks may still write ACTIVE).
ActiveIsConfigured ==
  \A i \in Instances :
    Visible(i) /\ row[i].status = "ACTIVE" /\ ~WorkedOn(i) => row[i].config = "live"

\* A soft deleted or expunged instance is never seen again, whatever stale
\* handle writes its status, and an oid is never inserted twice.
DeletionIsFinal ==
  [][\A i \in Instances :
       row[i].state \in {"soft", "purged"} => ~Visible(i)' /\ row'[i].state # "absent"]_vars

\* Every operation comes to an end: an instance does not stay in a status that
\* check_status refuses, unless a request left its handler outside any try.
TransitEnds ==
  \A i \in Instances : InTransit(i) ~> (~InTransit(i) \/ EscapedOn(i))

----------------------------------------------------------------------------
(* Refinement of ServiceLifecycle.                                         *)

Phase(i) ==
  CASE row[i].state = "absent"       -> "none"
    [] ~Visible(i) /\ row[i].state # "absent" -> "gone"
    [] InTransit(i) /\ WorkedOn(i)   -> "busy"
    [] InTransit(i) /\ ~WorkedOn(i)  -> "stranded"
    [] Visible(i) /\ ~InTransit(i)   -> "ready"

Lifecycle == INSTANCE ServiceLifecycle WITH phase <- [i \in Instances |-> Phase(i)]

\* Requests and tasks together implement the lifecycle clients see: no step
\* takes an instance to a state outside it, and no operation runs for ever.
ImplementsLifecycle == Lifecycle!Spec
============================================================================
