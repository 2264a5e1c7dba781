# beehive-service in TLA+

beehive-service is the service layer of the Nivola cloud platform: an API
through which clients create, change and delete *service instances* (virtual
machines, databases, file systems ...) inside their *accounts*. The layer keeps
rows in a relational database, queues celery tasks, and asks a second system,
the resource service, to make the real resources. This directory holds TLA+
models of that behaviour, the TLC configurations that check them, and theorems
proved with TLAPS.

## The system: inventory

| component | state it keeps | operations | hard behaviour | what makes it correct |
|---|---|---|---|---|
| Service instance life cycle (`entity/service_type.py`, `entity/service_instance.py`, `controller/__init__.py` 2264-2590, `task_v2/servicetypeplugin.py`) | row of `service_instance` (status, resource uuid, expiry date), its configuration row, the resource in the resource service | add, import, update, patch, action, delete, each a handler in an API thread and mostly a celery task | no lock between check and write; a status written by whoever comes last; exceptions outside `try`; tasks that outlive their request | an instance never stays in a status that refuses every operation; no resource lost; deleted is final |
| Wait for a remote task (`service_type.py` 1151-1277) | elapsed time, last state read | poll until an end state or a time limit | late answers, unanswered polls | a task that succeeded is not reported failed without cause |
| Account capabilities (`controller/api_account.py`, `task_v2/account_capability.py`) | status of `account_capabilities_assoc` | add or update a capability: create its services in dependency order | several capabilities share parent services; silent skips | ACTIVE means that its services exist |
| Account deletion (`task_v2/servicetypeplugin.py` 21-143, `api_account.py` 974-1060) | account status, its services and tags | delete services depth first, delete tags, close the account | failures between the steps, services added meanwhile | no service survives its account |
| Organizations, divisions, wallets, agreements (`controller/api_*.py`) | hierarchy rows, wallet year and capital | insert, update, delete, close and open a year | deletion guarded by counting children, without a lock | a parent in use is not deleted |
| Tags and links (`entity/service_instance.py` 762-811) | tag rows, tag assignments | add, remove | get-or-create by two requests | one tag of a name per account |
| Types, definitions, catalogs (`entity/service_definition.py` ...) | definition status, catalog contents | insert, update, delete, `can_instantiate` | definition changed between check and use | an instance is made of an ACTIVE definition the account may use |
| Metrics, consumes, jobs, prices (`task_v2/metrics.py`, `controller/__init__.py` 1080-1317, `db_script/procedure/db_service_procedure.sql`) | metric types, stored metrics, consumes of a day, exposed consumes, status of jobs | survey of the containers, metrics added by clients, the daily job | types added by several tasks; containers, accounts and saves that fail alone; a daily job that dies and is done again | a metric has the type of its name; a day is charged whole, fairly and once |
| Compute plugin (`plugins/computeservice/controller.py`) | rows of instances and volumes, definition of an instance; servers and disks in the resource service | create, delete, patch, change of type and of groups; attach, detach, delete a volume | two rows and two services change in one request, and one status guards them; hooks that run before their task; waits that give up | a disk has one row and one server; a server keeps a group and the type its row says |
| Storage plugin (`plugins/storageservice/controller.py`, `tasks_v2.py`) | row and JSON configuration of a file system; its share in the resource service | create, replicate, mount and unmount, resize, grants, compliance, actions on replicas, delete | size, mode and source kept in two places; actions that look at no status; whole configurations written back; tasks of several steps | no share without a row; configuration and share agree; a replica is not changed |
| Other plugins (`plugins/*`) | quotas, rules, resource calls | hooks and resource methods of each type | quota checked before it is taken | hooks keep the life cycle's contract |
| Event consumer, monitoring messages, old task framework, views, schema, other database scripts | - | - | none of their own | see `PROJECT.json` for the reason each is not modelled |

The parts interact by calls (view, controller, plugin, entity, DAO), by the
message broker (handlers queue celery tasks) and by HTTP (plugins call the
resource service and poll its tasks). All share the database, in which each
write is a transaction of its own.

## Plan

In the order of importance. The first six are done; the rest is what remains.

| module | what it models | checked, proved |
|---|---|---|
| `ServiceInstance`, with `ServiceLifecycle` as its abstract specification | requests, tasks and rows of instances | status ownership, no orphan resource, finality of deletion, liveness, refinement |
| `AccountCapability` | the services that a capability brings to an account | capability status, meaning of ACTIVE |
| `AccountDelete` | deletion of an account's services, tags and row | order, completeness, liveness |
| `ComputeVolume` | instances and volumes, and the servers and disks behind them | what one row's status protects |
| `Metering` | surveys, metrics and the daily consumes | types of metrics, completeness and fairness of a day |
| `FileSystem` | file systems and the shares behind them | no lost share, agreement of configuration and share |
| `Authority` (to do) | organizations, divisions, wallets, agreements, account customization | no parent deleted while in use, one open wallet per year, CLOSED is not overwritten |
| `Tags` (to do) | get-or-create of a tag and its assignments | one tag of a name per account |
| `Catalog` (to do) | definitions, catalogs and `can_instantiate` | instances of ACTIVE and granted definitions only |

Every safety property that a passing run checks is also a theorem; what stays with
TLC is liveness (see the end of Proofs).

How the modules meet. `AccountCapability` and `AccountDelete` keep of an
instance its status only, and take from `ServiceInstance` what they assume of
it: an instance in a transient status is owned and settles (`NoUnownedTransit`,
`TransitEnds`), it can be deleted in a settled status, and a deleted row may
still be written by a late task (`LateWrite`) but never comes back
(`DeletionIsFinal`). `ComputeVolume` is the same life cycle for one plugin, where
the hooks and resource methods that `ServiceInstance` keeps abstract are written
out, and leaves out what `ServiceInstance` checks: DRAFT rows, forced deletions, a
resource service that does not answer a check. `FileSystem` does the same for
the storage plugin, whose requests are mostly actions, the one operation that
`ServiceInstance` lets in whatever the status is. `Metering` shares no state with
the others.

## `ServiceInstance`: requests, tasks and rows

State. `row[i]` is the row of instance `i`: whether it exists, is soft deleted
(expiry date set) or expunged, its status, its configuration row and its
`resource_uuid`. `remote[i]` is the set of resources made for `i` that the
resource service keeps. `rpc[r]` and `tpc[r]` say where the API thread and the
celery task of request `r` are; `job[r]` is what the handler holds: the
operation, the options, the status in the model it loaded, the name of the task
it queued and the resource uuid it passed to it. Stages stand for program
points between two writes or remote calls; code between them runs in one step.

| actions | code |
|---|---|
| `InsertInstance`, `Configure`, `InstanceLost`, `AdoptResource`, `PreCreate`, `Expunge`, `SubmitCreate` | `add_service_type_plugin` |
| `InsertInstance`, `Configure`, `InstanceLost`, `PreImport`, `Expunge`, `FinishHere`, `FinishRaises` | `import_service_type_plugin` |
| `Load`, `PreHookRaises`, `Begin*`, `UpdatePrelude`, `UpdateTags`, `Dispatch`, `DispatchRaises`, `PostHook`, `FinishHere`, `FinishRaises` | `update`, `patch`, `action`, `delete` of the plugin |
| `DeleteConfigHere`, `DeleteRowHere`, `DeleteHereRaises`, `TaskDelete*` | `delete_instance`, in the request or in the task |
| `TaskLoad`, `CreateResource*`, `WaitResource`, `ChangeResource`, `DeleteResource`, `TaskActivates`, `TaskFailure` | the celery task steps and `failure()` |

The resource methods of plugins differ; `CreateResource` follows the database
plugin (`instance_v2.py` 1814-1855), the pattern most plugins repeat. `Async`
names the instances whose plugin has tasks; the others end every operation in
the request.

`Faults` names the calls that may raise, and `Options` what clients ask for, so
that a run can say under which conditions a property holds:
`insert` (a row, its configuration or link), `hook` (post_* after the task is
queued), `prelude` (parent link of update), `tags`, `dispatch` (queueing the
task), `check` (a resource check without answer), `remote` (a resource call or
its task fails or is late), `lost_reply` (the POST acted, its reply was lost),
`soft_delete` (the soft delete of the configuration or of the row). The pre_*
hooks may always raise: they validate the client's input.

What is assumed of code outside the repository (the beehive framework):
`update_entity` writes by id whatever the expiry date and drops parameters that
are None, `get_entity` hides expired rows, a model re-reads its attributes after
a commit, and single writes of the database do not fail unless a fault says so.
A synchronous task (`sync=True`) is prepared and run by the caller; it is
modelled like a queued one. A celery worker that dies in a task is not modelled:
nothing in this code handles it.

### Runs

| run | instance | what it shows |
|---|---|---|
| `all` | 2 requests; an old instance without tasks, a new one with them; every operation, option and fault, with fairness | `TypeOK`, `NoUnownedTransit`, `DeletionIsFinal`, `TransitEnds`, and `ServiceLifecycle` refined |
| `calm` | 3 requests on one new instance; no forced or non-propagating delete, no action, hooks and checks answer | `NoOrphanResource`, `PurgeLosesNothing`, `ActiveIsConfigured` |

Bounds. The only bounds are the numbers of instances and requests: a request
serves one operation, so two requests give each pair of operations in every
interleaving and three (`calm`) give a create, its deletion and a third writer;
that no number of writers breaks `NoUnownedTransit` is proved. Instances
only meet in requests that choose one, so one instance shows every race and a
second shows independence and the other kind of plugin. The properties of `calm`
are proved for any number of both. Deadlock is not checked:
requests are one-shot, and the system rightly stops when all are served.

The conditions of `calm` are needed for `NoOrphanResource` (the two other properties
need less, see Proofs): with `force`, a delete passes the row of an
instance whose task is still creating its resource; with `check`, the deletion
of the resource is skipped; an action that fails writes ERROR and so unlocks a
delete during a creation; a hook that fails after the task is queued does the
same. In each case the resource is left without a row. What the status check
alone gives is exactly what `calm` states.

`NoUnownedTransit` has the exception `EscapedOn`: four places leave a handler
outside any `try` (named at the property) and strand the instance. They are the
`Abandon` step of `ServiceLifecycle`.

### Fairness

`FairSpec` has weak fairness on the steps of each request and of each task: the
web server runs a handler to its end, and celery delivers a queued task and a
worker runs it to its end. There is no fairness on the arrival of requests nor
on any fault. The fairness of `WaitResource` rests on the time limit of
`wait_for_task`, which makes the wait end whatever the resource service does.

### Where the code and its documentation disagree

None of these has a run.

* `propagate` promises to "propagate delete to all cmp modules" (line 935), but `check_resource` (1279-1295) answers None on any error
  of the resource service, and a delete then removes the row and keeps the
  resource. `NoOrphanResource` of run `calm` fails as soon as `check` is among the
  faults.
* `pre_action` may name a task "which override self.action_task"
  (line 821), but line 870 queues `self.action_task`; `Dispatch` does as the code.

## `AccountCapability`: the services an account needs

State. `assoc[c]` is the status of capability `c` in the account (one account is
modelled: accounts share nothing here), `accType` the account type in its
params, `granted` the services whose definition the account has, `srv[s]` the
instance of service `s` and the request that made it, `dropped` the capabilities
deleted from the platform. `rpc[r]` and `tpc[r]` are the API thread and the task
of request `r`; `job[r]` holds the capability, what the request saw, and where
the task is in the creation order.

| actions | code |
|---|---|
| `AddCapability`, `UpdateCapability`, `Submit` | `ApiAccount.add_capability`, `update_capability`, `check_valid_capability`, `has_building_capability` |
| `DropCapability` | deletion of the capability entity |
| `TaskLoads`, `TaskMarksBuilding` | `get_account_and_capability`, `set_capability_status` |
| `AddDefinitions` | `add_definitions` |
| `CheckService`, `ReplaceService`, `CheckRequirement`, `CreateService`, `WaitService` | `add_service`, for each service of a level |
| `NextLevel` (`FirstLevel`, `LevelAfter`) | `__get_creation_order` and the loop over it |
| `TaskActivates`, `TaskFailure` | the end of `add_or_update_capability` and `failure()` |
| `BuildService` | the life cycle of an instance, see `ServiceInstance` |

A service on a cycle of requirements, or that requires one on a cycle, is on no
level in the code, and so never created by that task. One whose requirement the
capability does not bring is on the first level, and passed over unless the
account has the required service already.
Pods are checked and written like the account type and on the same object; the
fault `dispatch` stands for a refusal of the pods as well as for a task that
cannot be queued, both after the type is written. A service
requires at most one other, as in the code.

`Faults`: `definition` (a definition cannot be added; only logged), `dispatch`,
`create` (the creation is refused), `build` (the instance ends in ERROR),
`delete` (the forced delete fails), `timeout` (the wait ends first).

| run | instance | what it shows |
|---|---|---|
| `cap_live` | 2 requests in any order, 2 capabilities that share a service, one may be dropped, every fault, fairness | `TypeOK`, `BuildingOwned`, `BuildingEnds` |
| `cap_patient` | 3 requests one at a time, 3 capabilities of which one needs another's service and one another account type, every fault | `ActiveMeansServices`, `ServiceHasRequirement`, `AccountTypeWriteOnce` |
| `cap_overlap` | 2 requests, no fault | `OverlapWithoutErrors` is violated |

Bounds. Three services make a chain of requirements of three (`VpcRequires`) or
a requirement outside the capability (`OpenContent`); two overlapping
capabilities share one service and each have one of their own. Two tasks meet in
every order on the shared service; a third impatient request repeats what the
second does, and the safety properties are proved for any number.

`Patient` says that a client waits for the end of the last task, of whatever
outcome, before it asks again. The three properties of `cap_patient` need it:
without it two requests that both loaded an untyped account write its type
twice, and a forced delete takes a service from the task that waits for it.
`ActiveMeansServices` is about the services whose requirements the capability
brings itself (`Reached`): others may be passed over, and the capability still
becomes ACTIVE.

Fairness. `FairSpec` has weak fairness on the steps of each task and on each
`BuildService`: a worker runs the task to its end, and an instance settles,
which is `TransitEnds` of `ServiceInstance`. There is none on clients, faults,
or the deletion of a capability.

A disagreement: the docstring of `add_or_update_capability`
(`account_capability.py` 389) promises that capabilities that overlap "can be
added to the same account without errors". The request looks for a capability in
BUILDING (`api_account.py` 1352), but it is the task it queues that writes
BUILDING, so two requests made close together both run. One then finds the
other's instance still BUILDING, deletes it by force and creates its own, and the
other waits for an instance that is gone: a capability ends in ERROR_CREATION.
The method that would look and write at once,
`set_capability_building_only_if_none_building`, is never called.

## `AccountDelete`: the end of an account

State. `acct` is the row of the account (visible or expired; ACTIVE, CLOSED or
DELETED), `svc[s]` the row of service `s`, its status and whether its link to
its parent was made, `tags` the tags of the account, `cpc[s]` the creation of
`s`, `rpc[r]` and `tpc[r]` the request and the task of deletion `r`, `job[r]`
its options, its index of the services (who is left, under whom, with which
status) and the tags it listed.

| actions | code |
|---|---|
| `AddCheck`, `AddInsert`, `AddLink`, `Build` | creation of an instance: `can_instantiate`, `add_service_instance`, its link, its life cycle |
| `DeleteByClient`, `LateWrite`, `AddTag` | what other requests do meanwhile |
| `CheckDelete`, `Submit`, `SyncDelete`, `SyncClose`, `SyncStatus` | `ApiAccount.delete`, with `close`, `services` and `tags` |
| `AskAgain` | a client that repeats a deletion that failed |
| `AccountLost`, `IndexServices` (`InTrees`, `ParentOf`), `DeleteService`, `RemoveService`, `ServicesDone` | `delete_services_step`, `get_service_index` |
| `ListTags`, `DeleteTag`, `TagsDone` | `delete_tags_step` |
| `CloseAccount`, `DeleteAccount`, `MarkDeleted` | `delete_account_step` |

The task deletes in any order in which the children of the index come before
their parent; the code takes one of these (depth first). The status that
`plugin.delete` looks at is the one of the index or the one of the row, because
a session may or may not have refreshed the model. Whether `get_account` of the
framework finds an expired account is not known here, so that `AccountLost` may
or may not happen. A deletion of a service (`RemoveService`) is the delete of
`ServiceInstance` run by the task itself, to its end or to ERROR.

`Guarded` are services of the ten types that have to be deleted before the
account. `Quiet` says that clients create nothing in an account while they
delete it. `Faults`: `link` (the link to the parent fails), `build` (the service
ends in ERROR), `late` (a late status write), `dispatch` (the task is not
queued), `resource` (the deletion of a service fails), `tag`, `role` (expiring
the roles of a closed account fails, after the status is written).

| run | instance | what it shows |
|---|---|---|
| `acc_quiet` | 2 deletions, `Quiet`, 3 services of which one is below another and one guarded, 1 tag, every option, every fault but `late` | `TypeOK`, `NothingOutlives`, `NoTagOutlives`, `ChildrenFirst`, `InactiveTakesNoService` |
| `acc_live` | 1 deletion, clients create and delete meanwhile, the faults of clients | `DeleteSucceeds` |

Bounds. Three services give a parent, its child, and one outside the tree; two
deletions race on each of them, and each may be repeated without bound. One tag
is enough for a tag that is listed, deleted by the other task, or left. The
properties of `acc_quiet` are proved for any number of each. A service
is created once, which is the bound that makes `DeleteSucceeds` meaningful: a
client that kept creating services could keep a deletion from ever succeeding.
`late` is left out of `acc_quiet`, where it breaks `NothingOutlives`: a late
write gives a deleted parent a status other than DELETED, so that `get_parent`
still answers it and the index has a child without a tree: the code then leaves
that child, a hazard listed at `api_account.py` 1155. `acc_live` has it.

Fairness. Weak fairness of handlers, tasks and creations, as in
`ServiceInstance`. Strong fairness of the client that asks again (`AskAgain`,
and `CheckDelete` with `services` and `tags`): the property is about a client who
insists, and other clients can disable the request in between.

A disagreement, without a run of its own (`NothingOutlives` of `acc_quiet` fails
when `Quiet` is FALSE): the option promises to "delete all child services
before remove the account" (`api_account.py` 967), but the line that would mark
the account DELETING (1041) is commented out and the services are indexed once,
so that one created afterwards outlives the account. Another:
`add_service_instance` checks that the name is free (`controller/__init__.py`
3491) and inserts in another transaction (`AddCheck`, `AddInsert`), and the table
has no constraint on it, so that two services may have one name.

## `ComputeVolume`: instances, volumes and what is behind them

State. `row[x]` is the row of an instance or of a volume: a volume is named by
its disk and a copy number, because nothing in the table keeps two rows from
having one resource uuid. `type[i]` is the definition of instance `i`, `setter[i]`
the request that wrote it last (for the properties), `server[i]` its server in the resource service (up or not, its type, its security
groups, its disks) and `disks` the disks there. `rpc[r]`, `tpc[r]` and `remote[r]`
say where the API thread of request `r`, its celery task and the task of the
resource service are; `job[r]` is what they hold.

| actions | code |
|---|---|
| `CreateInstance`, `DeleteInstance`, `PatchInstance`, `SetInstanceType`, `ChangeSecurityGroups` | the view and the pre_* hooks of `ApiComputeInstance` (2235-2651) |
| `Attach`, `Detach`, `DeleteVolume` | `ApiComputeVolume` (5749-5926) |
| `TypeRequests`, `GroupLists` | what `pre_update` (2458-2482) makes of the attributes of one request |
| `ChangeDefinition`, `Begin`, `Dispatch` | `change_definition`; the busy status and the task in `update`, `patch`, `delete` of the plugin |
| `PostDelete`, `DropVolumeRow`, `PostDeleteEnds` | `post_delete` (2522-2567) |
| `TaskStarts`, `AskResource*`, `RemoteAnswers`, `WaitFails`, `ResourceDone`, `Finish`, `TaskFails` | the task steps, `create_resource`, `update_resource`, `delete_resource`, `wait_for_task`, `failure()` |
| `ScanVolume`, `AdoptVolume`, `ImportEnds` | `__import_volumes_from_resource` (3365-3424) |
| `Remote*` | the resource service; external, from the requests this code makes of it |

A request reads everything it checks in one step (`checked`), and writes its
busy status in a later one (`Begin`): between them lies the race that every
plugin has. `Overlap = FALSE` says that no other request reads in that gap, and
is what the properties assume: with it they say what one busy status protects,
since a status is all the lock there is. `Batch` is the number of security group
actions in one request: 1, because each action of `GroupId.N` is checked by
itself, and a list of two `:DEL` takes both groups of a server although
`CHANGELOG.md` 121 says that a server "must have al least one security group".

One `ModifyInstanceAttribute` request may carry several attributes: the view says
"You can specify only one attribute at a time" (`views/instance.py` 1181), and
`put` (1207-1211) hands on what there is. A request for a type is thus `set_type`,
alone, or `set_both`, with a list of group actions, which may be empty.
`set_instance_type` writes the new definition at once (`ChangeDefinition`); then
`params.update` (2472) puts the actions of `GroupId.N` in the place of `set_flavor`.
The task ends well, the instance is ACTIVE, and the server has its old type. Or
the second attribute is refused, and the definition stays without any task
(`ChangeDefinition` that ends in `failed`). This is a disagreement of code and
documentation without a run of its own: `FlavorAgrees` says of an instance whose
definition was written last by a request of the type alone that the server has that
type, whatever the requests before it left, and fails without this condition.
`Nvl_User` in the same request does the same again (its actions replace, or it is
refused), so that the empty list and the refusal stand for it.

All properties but `TypeOK` except a task that has failed. `wait_for_task` writes
ERROR itself, when the task of the resource service failed, was too slow, or gave
no answer; ERROR unlocks the row, while the celery task has still to run
`failure()`, which writes ERROR once more over what the next request wrote, and
while the remote task may still change the server. So a failure voids the lock,
which is a hazard listed at `service_type.py` 1276.

The three on volumes also except a disk of which a row was deleted (`Dropped`). A
volume has a status in its row, and thus a lock, only as long as that row is the
one of its disk. `post_delete` deletes the newest row of each disk it found on the
server, without a look at its status, and the disk may be elsewhere by then. No
failure is needed, only seven requests: a detach of the disk is under way when its
server is deleted, and `post_delete` has read the disks (1, 2); the disk is
attached to a second server (3), which a patch reads while the disk is detached
again (4, 5); an attachment to a third is checked and begun (6); now `post_delete`
drops the row, the patch finds none and imports the disk again, and the new row
lets another attachment in (7) beside the first. The run has too few requests for
this; it was found when the theorems were tried without the exception.

| run | instance | what it shows |
|---|---|---|
| `lock` | 3 requests of any kind; an instance that exists, one that does not, their root disks and a data disk; two types, two groups; every fault | `TypeOK`, `KeepsGroup`, `OneRowPerVolume`, `AttachingFree`, `FlavorAgrees`, `InUseIsKept` |

Bounds. Three requests give every pair of operations and a third that comes in
after one of them (a patch after a creation that another patch overlaps). Two
instances and a data disk are what an attachment needs to conflict; two copies of
a row are what `OneRowPerVolume` needs to fail; two groups let the last go.

Left out: disabling the monitoring before a deletion, a remote task that makes no
task of its own (`taskid` None), restoring from a backup, and what `ServiceInstance`
checks for every plugin.

## `FileSystem`: file systems and their shares

State. `row[f]` is the row of file system `f` with its resource uuid, `conf[f]` the
part of its JSON configuration that is also in the share: size, compliance mode,
and whether there is a `SourceId`, which makes it a replica. `share[s]` is share
`s` in the resource service. `rpc[r]`, `tpc[r]` and `remote[r]` are the API thread,
the celery task and the task of the resource service of request `r`; `job[r]` is
what they hold: the configuration that was read, the one that is wanted, the
steps of the task still to be done.

| actions | code |
|---|---|
| `Create`, `CreateReplica` | `pre_create` (360-461), `CreateFileSystemReplica.post` |
| `CreateMountTarget`, `DeleteMountTarget` | 1098-1196 |
| `Resize`, `WriteSize`, `Touch` | `resize_filesystem`, `update_efs_status`, `update_snapshot_policy` (1198-1304), which go through `update` |
| `ManageGrant`, `Manage`, `UpdateCompliance`, `ManageReplica` | 1306-1503, which go through `action`; `pre_action` chooses the steps |
| `DeleteShare`, `Delete` | `delete_share` (507-545); the common deletion with `pre_delete` |
| `BeginUpdate`, `BeginAction`, `Dispatch*` | `update`, `action`, `delete` of every plugin |
| `StepBegins`, `AskShare`, `AskChange`, `AskFails`, `RemoteAnswers`, `WaitFails`, `StepWrites`, `StepEnds`, `TaskFails` | the steps of `tasks_v2.py` and the resource methods (463-491, 1553-1845), `wait_for_task`, `failure()` |
| `RemoteServes`, `RemoteFails` | the resource service; external |

A step of a task is: load the plugin, write UPDATING, ask and wait, write the
configuration, write ACTIVE. `update_compliance_step` writes three properties one
after the other, with a status before and after each, and is modelled as the
steps `compliance`, `rpo` and, when the mode is switched off, `rpo` again.

What is assumed of the resource service: a creation that fails leaves a share
(`broken`) that a GET finds and that can be deleted; a share that is not `live` is
not changed or copied, and a replica of a missing source is refused; a task runs
to its end whether or not somebody waits.

| run | instance | what it shows |
|---|---|---|
| `efs` | 2 requests of any kind on a new file system, an existing one, a replica and one of version 1.0; 2 sizes, 5 shares; every fault but `check`, fairness | `TypeOK`, `NoOrphanShare`, `DirectionFits`, `ComplianceAgrees`, `ReplicaUntouched`, `SettlesAgain` |
| `efs_sizes` | 2 requests one after the other on one file system, `remote` fails | `SizeAgrees` is violated |

Bounds. Two requests give each pair of operations in every order, and on different
file systems, of which there is one of each kind the code tells apart: not there,
with a share, a replica, of version 1.0 (and with orchestrator openstack, the only
kind of old ones that can do something). Three shares that exist and two that
requests make are five. The safety properties are proved for any number of requests,
file systems and shares.

Two requests had hidden a case that the proof of `DirectionFits` brought out, and
that four need (the exception `MadeReplica`). A resize writes the new size (1240) before
the share has it; a replica created in between copies the configuration, and
its share is copied from one with the old size (`pre_create`); when it is unlinked it may be
resized itself, and the direction (1223) is then computed from a size its share never
had.

`Alone` names the operations that are not asked for while something else goes on
about a file system: `mount`, `drop`, `resize` and `compliance`. It is an
assumption about clients, since an action checks no status, and each name in it is
needed:

* two `mount`, or a `mount` and a creation, each find no share, make one, and write
  its uuid over that of the other;
* `drop` during a creation that has not stored its uuid yet deletes the row, and the
  creation goes on to make a share;
* `resize`, `compliance` and the steps that set one property write back the whole
  configuration as they read it, so that one loses what the other wrote.

The other operations overlap freely. `check` is left out, as in `calm`: a GET that
gets no answer counts as a share that is not there, in `create_mount_target` (1115)
as in `check_resource`, and both then lose it.

Fairness. Weak fairness of the API threads, of the tasks and of the resource
service, for the reasons given for `ServiceInstance`; none of clients or faults.

A bug, found by `efs_sizes`. `resize_filesystem` writes the new size as soon as its
task is queued (1240), and nothing takes it back when the resource service refuses
the resize: the configuration then has a size that the share has not, a client
who asks again for a grow sends "shrink" for a share that is to grow (1223 compares with the
configuration), and the file system is described with a size it does not have.
`DirectionFits` says that until a resize fails, the direction is right.

Noted while modelling. `delete_share` passes the grants of an old share as `grants`
(`data.grants`), and `manage_mount_target_grant_step` reads `grant`, so that the
grants are not revoked, and the step only writes the status. A mount target made
anew (`create_mount_target` after `delete_mount_target`) is not compliant, whatever
`ComplianceMode` says: `ComplianceAgrees` excepts it.

Left out: the storage service above the file systems and its quotas, queries,
the checks of client lists and names, the policies of replication and snapshots
beyond the call that sets them.

## `Metering`: from metrics to consumes

State. `types` are the names that have a metric type, `stored` the rows of
`service_metric` in the order of their ids, `consumes` the rows of
`aggregate_cost`, `exposed` those of `mv_aggregate_consumes` with the job that
wrote them. `spc[s]`, `survey[s]` and `told[s]` are the survey task `s`: where it
is, its variables (the dictionary `known`, the accounts and containers left, the
metric it reads, the type of the one before, what it has got, and the hour `at`
with which it is to be stored) and the status of its `service_job`. `cpc[r]` is a
client's request and `asked[r]` the metric it adds, with its date; `dpc[d]` and
`daily[d]` a daily job, the account it works on and, for the properties, how many
rows (`from`) and which jobs (`after`) were there when it started. `now` is a clock
of hours.

| actions | code |
|---|---|
| `SurveyStarts`, `NextAccount`, `AccountFails` | `acquire_service_metrics_step`, `acquire_metrics_by_account` |
| `NextContainer`, `TakeKnown`, `TakeNew`, `ContainerEnds` | the loop over the containers of an account, `compute_metric_type_id` |
| `Finalize`, `SurveyFails` | the last step, `on_success`, `on_failure` |
| `DateMetrics`, `SaveMetrics` | the rows are made, with their date (251-266); the bulk insert (267) |
| `ClientAsks`, `ClientTypes`, `ClientAdds` | `add_service_metrics`: the date (1172-1183), the type (1186-1199), the insert (1237-1249) |
| `DailyStarts` (`Billed`) | `step_generate_daily_consumes`, the cursor of procedure `dailyconsumes` |
| `CountRows`, `DeleteRows`, `InsertRows` | procedure `dailyconsumes_by_account_new`, one transaction each |
| `Unexpose`, `Expose` | procedure `expose_consumes` |
| `Crash` | a worker that dies, or whose session does |

`Consume` is the query of the procedure: a metric lasts until the next one of its
service and type, the first one of the day is preceded by the last one of the days
before, and what is charged is the average by duration, kept as a fraction (`total`
over `hours`). `exposed` keeps each consume apart; the code adds up those of one
account and type.

| run | instance | what it shows |
|---|---|---|
| `meter_days` | two containers of two accounts, two names of which one is new, two days of two hours, values 0 and 2; every fault, fairness | `TypeOK`, `KnownTyped`, `DayIsComplete`, `FairCharge`, `ExposedOnce`, `SurveyIsTold` |
| `meter_names` | two surveys, no fault | `MetricTyped` is violated |

Bounds. `Casts` says who takes part in a behaviour: a survey and a client, a
survey and a daily job, two clients and a daily job, a client and two daily jobs.
What is left out is more of the same at once; surveys, clients and daily jobs
only meet in the tables. `Hours` and `Days`, both 2, give a day with none, one or
several metrics after a day with or without. `Alone`: no daily job starts while
another runs; two at once may both find no rows, and the unique index of
`aggregate_cost` makes one of them fail (`InsertRows`, `refused`), so that the day
of the accounts after it is not done by that job. A client's request has one
metric, of any date (`creation_date` is a parameter); a survey stores the rows of an
account with one date. One account is there all the time, and one is made in the
first day and expires in the last (`Opened`, `Expires`).

A metric has its date before it is stored: between them lie the lookups of a type
and a service, or the rest of a bulk insert, and so other rows, a daily job, or
midnight. Two of the properties have to except what then happens, which no code
prevents:

* a row of a day may be stored after the day was billed, and is never charged, for a
  job that finds consumes of an account leaves them as they are. `DayIsComplete`
  excepts an account of which a row that counts was stored when a job of the day had
  started already (`StoredLate`): the row was late, or the job early, which a client
  may ask for;
* ids and dates may disagree, and `LAG` in the order of the ids then gives a metric a
  negative duration, so that the average may be outside its values. `FairCharge` says
  what holds when the rows that count are in the order of their dates (`InDateOrder`).

The cursor of `dailyconsumes` (`db_service_procedure.sql` 40) takes the accounts
made before the first hour of the day and not expired by then (`Billed`): the first day
of an account is not billed, whatever its metrics. A survey reads them all, expired
or not. `DayIsComplete` says both: what a billed account has, and that the others have
nothing.

`ExposedOnce` is about the last job of a period to start, once it has ended: jobs
before it may have failed or died at any step, also between the deletion and the
insertion of `expose_consumes`.

Fairness. Weak fairness of the steps of each survey that has started: a worker
goes on with its task. None on the clock, clients, daily jobs, faults or crashes.
No liveness is stated of daily jobs: nothing tells their `service_job` when they
end (`GenerateDailyConsumesTask` has neither `on_success` nor `on_failure`), so
that it stays RUNNING.

A bug, found by `meter_names`. `compute_metric_type_id` makes a type for a new
name and then writes `metric_dict.update({metric_name: metric_type_id})`
(`task_v2/metrics.py` 171): `metric_type_id` is the variable of the enclosing
loop, and holds the type of the metric before. Later metrics of the name are
stored under that type, for the rest of the survey. At the first metric of an account the
variable has no value, and the exception loses the rest of the container, until
the next survey reads the type that was made. `KnownTyped` is what holds
nevertheless, and is proved.

Left out: `patch_db`, which repairs the rows of single days; the number of a survey
(`get_task_intervals`); metrics of a resource filed under the service of that
resource instead of its container; documents sent to elasticsearch.
`db_script/procedure/dailyconsumes_by_account_new.sql` is another text of the
procedure that goes on only if the day has *no* metric; the mutant `BugCountRows`
does as it says, and breaks `DayIsComplete`. The model follows
`db_service_procedure.sql`, the dump of the whole schema.

## Proofs

All theorems hold for every value of the constants, from `ConstantsAssumption` of
the module alone.

`ServiceInstance_proofs`

* `TypeCorrect`: `Spec => []TypeOK`;
* `TransitIsOwned`: `Spec => []NoUnownedTransit`. `NoUnownedTransit` is not
  inductive: that a step of another request cannot take the last owner away
  needs to know which operation a handler at a given stage serves. `Inv` adds
  `HandlersOK` (stage and operation agree: an `action` is never at a stage that
  writes a transient status, a task works on the operation that queued it), and
  `OwnerStep` reduces every action to one question: a request that stops owning
  an instance leaves it in a settled status, invisible, or escapes;
* `DeletedForGood`: `Spec => DeletionIsFinal`. `StepsKeep` says what the steps of a
  request do to the existence of rows: they may hide a row and never show one;
* `StepsRefineLifecycle`: `Spec => Lifecycle!Safety`, for any sets of instances,
  requests and faults: every step maps to one move of one instance, or to a
  stutter. The inductive invariant `RInv` adds to `Inv` that a row not yet inserted
  has the status of a new one. `StepMoves` splits the steps by who works on the
  instance before and after.

`ServiceInstance_calm_proofs`: what holds under the conditions of run `calm`, each
theorem with those that its argument needs.

* `ConfiguredWhenActive`: `Spec => []ActiveIsConfigured`, if neither the insertion
  of a configuration nor a soft delete fails (`NoConfigFault`); forced deletes,
  actions and lost checks may happen. `ConfigMended` is inductive: whoever takes
  the configuration away goes on to take the row;
* `PurgeIsEmpty`: `Spec => []PurgeLosesNothing`, whatever fails, if clients bring no
  resource of their own (`given`). An instance has one creator (`OneCreator`), and
  it expunges the row only before the task that makes the resource is queued
  (`PurgedEmpty`);
* `NoOrphanWhenCalm`: `Calm => (Spec => []NoOrphanResource)`. While a resource is
  being made its instance has an unsettled status, so that nobody else is admitted
  (`MakerAlone`, where forced deletes, failing hooks and actions would break in), and
  a task deletes rows only after the resource, or when it was told of none
  (`DeletesAfterResource`, where unanswered checks would break in).

`AccountCapability_proofs`

* `TypeCorrect`: `Spec => []TypeOK`;
* `BuildingIsOwned`: `Spec => []BuildingOwned`, patient clients or not. `Inv` adds
  `TasksOfRequests`: a request has a task only once it is served, so that a new
  request never replaces the job of a task that owns a BUILDING capability;
* `TypeWrittenOnce`: `Patient => (Spec => AccountTypeWriteOnce)`. `OneAtATime` says
  that one request at most is between its check and the end of its task, and
  `TypeKnown` that what it read of the account's type is still true when it writes;
* `RequirementsHold`: `Patient => (Spec => []ServiceHasRequirement)`, whatever the
  requirements, on a cycle or not. `SeenRequirement` is what the task knows at each
  stage: the service it creates has its requirement ACTIVE, and nothing requires
  the one it replaces;
* `ActiveIsComplete`: `Patient => (Spec => []ActiveMeansServices)`. `KInv` says of a
  task in its levels that there is a set `H` of services it has settled (`Settled`): those
  that the capability reaches are ACTIVE, and what requires one of them is in
  the current level, or settled too. At the end the level is empty, so `H` has with
  a service all that require it, and holds all of `Reached` (`ReachedIsLeast`). `Kept`
  is the property without its exception for pending tasks, which the proof did not
  need: a task replaces only what is not ACTIVE;
* `PatientOverlap`: `Patient /\ NoFaults => (Spec => []OverlapWithoutErrors)`, where
  `NoFaults` allows `dispatch`. The property that `cap_overlap` violates holds of
  clients that wait, so that the race is all that breaks it. `Smooth` says of a task
  that what it found, was granted and made is as it left it, whenever it looks again.

`AccountDelete_proofs`

* `TypeCorrect`: `Spec => []TypeOK`, whatever `Parent` is;
* `QuietAccountsTakeNoService`: `Quiet => (Spec => InactiveTakesNoService)`.
  The invariant `CreatedQuietly` says that while a creation is under way the
  account is active and nobody deletes it. `ActiveUnlessDeleting` carries it: only a
  deletion under way makes an account inactive;
* `NoTagLeft`: `Quiet => (Spec => []NoTagOutlives)`. `KnowsTags` follows what each
  deletion knows of the tags: that there were none when it was asked for, or that
  every one left is in its list;
* `ChildrenGoFirst`: `Quiet => (Spec => ChildrenFirst)`. `KnowsChildren` says that the
  index of a task has every child of the services it has still to delete;
* `NoServiceOutlives`: `Quiet /\ "late" \notin Faults => (Spec => []NothingOutlives)`.
  A service is created after its parent (`CreatedAfterParent`), so that from each
  one upwards there is a first (`Rooted`), and its parent is there or DELETED
  (`ParentsFound`); so each is in a tree (`TreesClosed`), and in the index of a task until
  that deletes it (`KnowsServices`).

`TreesClosed` and `ReachedIsLeast` are about functions defined by recursion on a level.
A tree has as many levels as there are services at most, because each adds one or
is the last (`LevelsClose`): this is what the assumption that `Services` is finite is
for.

`ComputeVolume_proofs`

* `ComputeTyped`: `Spec => []TypeOK`, overlapping requests or not. `TInv` adds that
  an action still to be asked for, and the one that runs, are about a disk, a type
  or a group as their name says (`ActionOK`), that a request has no task before it
  is dispatched, and that only a task that waits or failed has a remote one.

The others assume that no request reads between the read and the write of another
(`~Overlap`). They rest on `HInv`: a row about which no task has failed has one
request at most from its read to the end of its task, because its status is not
settled from the write to that end (`OneHolder`; `RowStep` says what each step
writes to a row).

* `GroupIsKept`: `Spec => []KeepsGroup`, if also `Batch = 1`. The request that keeps an
  instance for itself knows that the one action it asked for leaves a group
  (`KnowsGroups`), and no other changes the server (`ServerStep`);
* `FlavorIsAgreed`: `Spec => []FlavorAgrees`. `KnowsType` follows a creation and a
  change of type alone through their stages: that no other request has written the
  definition since, what is still to be asked for, what runs, and what the server
  has then. `TypeKept` is the property without the status of the row: a request
  that writes the definition becomes its `setter`, and takes the claim away until
  it has gone through;
* `OneRowIsKept`, `AttachedIsFree` and `UsedIsKept`: `Spec => []OneRowPerVolume`,
  `Spec => []AttachingFree` and `Spec => InUseIsKept`. `VInv` explains why two imports
  never meet on one new disk, though no lock is about disks: a disk that never had
  a row (`Unrowed`) is still on the server it was made with (`DisksFirst`), where only
  the request that keeps that instance finds it (`ImportsOwn`). So a disk has one row
  (`OneRow`), its status is the lock of the disk, and what attach or a deletion has
  seen of it stays true (`WantsFree`).

`FileSystem_proofs`

* `EfsTyped`: `Spec => []TypeOK`, whatever `Alone` and `Faults` are. `TInv` adds that
  a request has no task before it is dispatched, and that a task that is at a
  step has one (`StageOK`): without it the `Tail` of `StepEnds` and the share of a new
  replica have no type;
* `ReplicasStay`: `"mount" \in Alone => (Spec => ReplicaUntouched)`, whatever else
  meets on a file system and whatever fails. The checks of resize and compliance
  read the configuration, and the share is changed steps later. `PlainKnown`
  explains why that is right: a configuration without a source means that the
  file system is `Plain` (no replica behind it, none on its way), and plain is for
  good, so that a copy of the configuration read long ago tells the same. What a
  request knows (`KnowsPlain`) follows its stage: that it read no source, that it
  passed the check, or that its unlink is done. `OneShareComes` says that the share of a
  file system is asked for once. `mount` has to be in `Alone`: a mount
  target asked for before a replica has its share makes a share of its own, which
  lets an unlink pass and take the source away, and then the creation makes the
  replica.

`FileSystem_share_proofs`: what the names in `Alone` protect, each theorem with those
that it needs. They rest on `BInv`, which adds `StepsInOrder`, `OneAtATime` and `OwnShare`
to the invariant of `ReplicasStay`: the steps left to a task are those of its
operation from the one it is at, an operation in `Alone` has its file system for
itself until it has ended, and a task works on the share of its file system.

* `NoShareIsLost`: `{"mount", "drop"} \subseteq Alone /\ "check" \notin Faults =>
  (Spec => []NoOrphanShare)`. A share that is not gone is in a row, or the
  request that asked for it is about to write it there (`SharesHoused`); one that asks
  for a share has seen that there is none, and nobody else makes one
  (`NothingThere`);
* `ComplianceKept`: `{"mount", "compliance"} \subseteq Alone =>
  (Spec => []ComplianceAgrees)`. The modes agree (`ModeAgrees`) but while a request
  is setting them, and a step that writes a whole configuration back has read the
  mode that is still there (`ModeKnown`);
* `ResizesFit`: `{"mount", "resize"} \subseteq Alone /\ "check" \notin Faults =>
  (Spec => []DirectionFits)`. `SizesKept` says the same of the size, and `SizeKnown`
  of what each request read and wants;
* `SizesAgreeOtherwise`: under the same conditions `SizeAgrees`, which `efs_sizes`
  violates, holds as long as no resize failed, and no file system is of version 1.0
  or was made as a replica (`Misjudged`).

`Metering_proofs`

* `TypeCorrect`: `Spec => []TypeOK`, surveys and bills (`TInv`). A survey reads metrics
  of a container only when it has one (`AtContainer`), and the sums of `Consume` are
  numbers;
* `KnownNamesTyped`: `Spec => []KnownTyped`, for any number of them. It needs that
  the dictionary of a survey is right on the names that had a type when it started
  (an entry written later is for another name), that what it has read and not yet
  saved is right on them too, and that `start` does not change;
* `ChargesAreFair`: `Spec => []FairCharge`, without a condition on clients, surveys or
  jobs. When the rows that count are in the order of their dates, the hours each
  metric lasts are not negative and add up to the hours charged, and an average
  lies between two of the values (`Fair`). A consume stays as it was computed while
  rows are added: it is shown that it stays fair as long as the rows that count then
  are in order (`FairIfOrdered`), also with rows that came after it;
* `DaysAreComplete`: `Alone => (Spec => []DayIsComplete)`. `RowsRight`: the
  rows of an account and a day without a late row are none, or all those of
  its metrics. A job inserts where there are none (`NoRowsYet`), has done the
  accounts that it does not have to do any more but the one it is at
  (`AccountsDone`), and does those that are billed and no others (`JobsRight`,
  `ConsumesBilled`);
* `ExposedExactlyOnce`: `Alone => (Spec => []ExposedOnce)`. A job that runs is the last
  to have started (`RunsLast`). One that is about to expose has taken away what
  earlier ones exposed, whether they ended or died (`Cleared`), and what the last
  one has exposed is there once until another starts (`OnceExposed`).

Induction. The induction theorems of the library take an operator as a parameter,
which the provers here cannot instantiate. Where a definition is recursive (`InTrees`,
`Reached`, the sums of `Consume`) the induction is on a set of natural numbers, by
its least element (`NaturalInduction`, from the well-foundedness of `<`), and a recursive
function is shown to exist before anything is shown of it.

Only model-checked: `TransitEnds`, `BuildingEnds`, `DeleteSucceeds`, `SurveyIsTold`,
`SettlesAgain` and the liveness of the refinement of `ServiceLifecycle`. They rest on
fairness, and so on ENABLED, about which the provers here cannot reason. The
three properties that a run shows violated are no theorems as they stand; the
conditions under which two of them hold are (`PatientOverlap`,
`SizesAgreeOtherwise`), and `KnownTyped` is what holds of the third.

## Not modelled

The components with status `not_modelled` in `PROJECT.json`, each with its reason
there: the part of the plan that is to do, parts with no interaction of their own
to check (queries, views, schema, the old task framework, the event consumer), and
the plugins whose creations and deletions are the life cycle of `ServiceInstance`
again. The largest files of the repository are of the last two kinds: views and
plugins that translate parameters, and query builders.
