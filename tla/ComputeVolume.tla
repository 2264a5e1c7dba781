--------------------------- MODULE ComputeVolume ---------------------------
(* Compute instances and the volumes they use: plugin classes                *)
(* ApiComputeInstance and ApiComputeVolume, which keep rows in table         *)
(* service_instance and ask the resource service for the servers and disks   *)
(* behind them.                                                              *)
(*                                                                           *)
(* A request reads a status, checks the resource, writes a busy status and   *)
(* queues a task; nothing but that status keeps two requests apart. The life *)
(* common to every service is in module ServiceInstance: left out here are   *)
(* forced deletions, DRAFT rows and a resource service that does not answer. *)
EXTENDS FiniteSets, Naturals

CONSTANTS
  Instances,    \* oids of compute instances
  Disks,        \* resource uuids of volumes
  Boot,         \* Boot[i]: the disk that is made with the server of i
  Copies,       \* volume rows of one disk: 1 is there from the start
  Existing,     \* instances created before the first request
  Types,        \* instance types, each a service definition
  Groups,       \* security groups
  FirstGroup,   \* the security group of a new server
  Requests,     \* client requests
  Batch,        \* security group actions of one request, at most
  Overlap,      \* another request may read before this one has written
  Faults        \* calls that may raise; wait: the wait for the resource service

FaultKinds == {"dispatch", "remote", "wait"}

Nobody == "nobody"

ASSUME ConstantsAssumption ==
  /\ Boot \in [Instances -> Disks]
  /\ \A i, j \in Instances : Boot[i] = Boot[j] => i = j
  /\ Instances # {} /\ Disks # {} /\ Types # {}
  /\ Copies \subseteq Nat \ {0}
  /\ 1 \in Copies
  /\ Existing \subseteq Instances
  /\ FirstGroup \in Groups
  /\ Batch \in Nat \ {0}
  /\ IsFiniteSet(Groups)
  /\ Overlap \in BOOLEAN
  /\ Faults \subseteq FaultKinds
  /\ Instances \cap (Disks \X Copies) = {}
  /\ Nobody \notin Requests

VARIABLES
  row,      \* row[x]: the row of an instance, or of the copy k of disk d: x = <<d, k>>
  type,     \* type[i]: the definition and configuration of instance i
  setter,   \* setter[i]: for the properties, the request that wrote it last
  server,   \* server[i]: the server of i in the resource service
  disks,    \* disks in the resource service
  rpc,      \* rpc[r]: where the API thread of request r is
  tpc,      \* tpc[r]: where its celery task is
  remote,   \* remote[r]: the task of the resource service it waits for
  job       \* job[r]: what they hold

rows == <<row, type, setter>>
resources == <<server, disks>>
vars == <<row, type, setter, server, disks, rpc, tpc, remote, job>>

VolumeRows == Disks \X Copies
Rows == Instances \cup VolumeRows
Settled == {"ACTIVE", "ERROR"}            \* accepted by check_status
Statuses == Settled \cup {"DRAFT", "PENDING", "CREATED", "BUILDING", "DELETING"}
RowStates == {"absent", "present", "deleted"}
Servers == [up : BOOLEAN, type : Types, groups : SUBSET Groups, disks : SUBSET Disks]

\* An action on a resource: its name, and the disk, type or group it is about.
ActionNames == {"create", "delete", "delete_disk", "set_flavor", "add_volume",
                "del_volume", "add_security_group", "del_security_group"}
Action(name, about) == <<name, about>>
Subjects == Disks \cup Types \cup Groups

Operations == {"create", "delete", "patch", "set_type", "set_both", "groups",
               "attach", "detach", "delete_volume"}
SetsType == {"set_type", "set_both"}
RequestStages == {"idle", "checked", "begin", "dispatch", "post", "drop", "done", "failed"}
TaskStages == {"none", "queued", "work", "wait", "scan", "adopt", "finish",
               "failing", "ended", "failed"}
RemoteStages == {"none", "running", "success", "failure"}

\* row: the row whose status the request writes; on: the instance it is about;
\* to: the type it sets; has: check_resource found its resource; acts: actions
\* still to be asked for;
\* act: the last one asked for; todo: disks whose rows are still to be looked
\* at; disk: the one in hand.
Jobs == [op : Operations, row : Rows, on : Instances, to : Types, has : BOOLEAN,
         acts : SUBSET (ActionNames \X Subjects), act : ActionNames \X Subjects,
         todo : SUBSET Disks, disk : Disks]

AnyDisk == CHOOSE d \in Disks : TRUE
AnyInstance == CHOOSE i \in Instances : TRUE
AnyType == CHOOSE t \in Types : TRUE

Job(op, x, i, t, acts) ==
  [op |-> op, row |-> x, on |-> i, to |-> t, has |-> TRUE, acts |-> acts,
   act |-> Action("create", AnyDisk), todo |-> {}, disk |-> AnyDisk]

NoServer == [up |-> FALSE, type |-> AnyType, groups |-> {}, disks |-> {}]
NewServer(i, t) == [up |-> TRUE, type |-> t, groups |-> {FirstGroup}, disks |-> {Boot[i]}]
FirstDisks == {d \in Disks : \A i \in Instances \ Existing : d # Boot[i]}

Init ==
  /\ row = [x \in Rows |->
              IF x \in Existing \cup (FirstDisks \X {1})
              THEN [state |-> "present", status |-> "ACTIVE"]
              ELSE [state |-> "absent", status |-> "DRAFT"]]
  /\ type = [i \in Instances |-> AnyType]
  /\ setter = [i \in Instances |-> Nobody]
  /\ server = [i \in Instances |->
                 IF i \in Existing THEN NewServer(i, AnyType) ELSE NoServer]
  /\ disks = FirstDisks
  /\ rpc = [r \in Requests |-> "idle"]
  /\ tpc = [r \in Requests |-> "none"]
  /\ remote = [r \in Requests |-> "none"]
  /\ job = [r \in Requests |-> Job("patch", AnyInstance, AnyInstance, AnyType, {})]

----------------------------------------------------------------------------
(* What the code reads and writes.                                         *)

Visible(x) == row[x].state = "present"
WithStatus(x, s) == row' = [row EXCEPT ![x].status = s]
Row(r) == job[r].row
On(r) == job[r].on
Op(r) == job[r].op
May(fault) == fault \in Faults
RequestGoes(r, stage) == rpc' = [rpc EXCEPT ![r] = stage]
Holds(r, j) == job' = [job EXCEPT ![r] = j]
TaskGoes(r, stage) == tpc' = [tpc EXCEPT ![r] = stage]

\* check_status.
MayChange(x) == Visible(x) /\ row[x].status \in Settled

\* is_attached: "used", in the disk that the resource service knows.
IsAttached(d) == d \in disks /\ \E i \in Instances : d \in server[i].disks

\* get_service_type_plugins by resource uuid: the rows of a disk, newest first.
RowsOf(d) == {x \in {d} \X Copies : Visible(x)}
Newest(d) == {x \in RowsOf(d) : \A y \in RowsOf(d) : y[2] <= x[2]}

----------------------------------------------------------------------------
(* Requests: the view loads the rows, the plugin checks what they allow.    *)

Reading(r) == rpc[r] \in {"checked", "begin"}

MayAsk(r) ==
  /\ rpc[r] = "idle"
  /\ ~Overlap => \A q \in Requests : ~Reading(q)

Asks(r, j) ==
  /\ Holds(r, j)
  /\ RequestGoes(r, "checked")
  /\ UNCHANGED <<rows, resources, tpc, remote>>

\* A new instance: its DRAFT row, of a definition the client chooses.
CreateInstance(r, i) ==
  /\ rpc[r] = "idle"
  /\ row[i].state = "absent"
  /\ row' = [row EXCEPT ![i].state = "present"]
  /\ \E t \in Types :
       /\ type' = [type EXCEPT ![i] = t]
       /\ Holds(r, Job("create", i, i, t, {Action("create", t)}))
  /\ RequestGoes(r, "dispatch")
  /\ UNCHANGED <<setter, resources, tpc, remote>>

DeleteInstance(r, i) ==
  /\ MayAsk(r)
  /\ MayChange(i)
  /\ Asks(r, Job("delete", i, i, AnyType, {Action("delete", Boot[i])}))

PatchInstance(r, i) ==
  /\ MayAsk(r)
  /\ MayChange(i)
  /\ Asks(r, Job("patch", i, i, AnyType, {}))

\* Bug: change_security_group lets the last security group go.
BugGroupActions(i) ==
  {Action("add_security_group", g) : g \in Groups \ server[i].groups}
    \cup {Action("del_security_group", g) : g \in server[i].groups}

\* change_security_group, by the server the view has read: what one action of
\* GroupId.N may be.
GroupActions(i) ==
  {Action("add_security_group", g) : g \in Groups \ server[i].groups}
    \cup {Action("del_security_group", g) :
            g \in {h \in server[i].groups : Cardinality(server[i].groups) # 1}}

\* Each action of the list is checked by itself.
GroupLists(i) == {acts \in SUBSET GroupActions(i) : Cardinality(acts) <= Batch}

ChangeSecurityGroups(r, i) ==
  /\ MayAsk(r)
  /\ MayChange(i)
  /\ \E acts \in GroupLists(i) : Asks(r, Job("groups", i, i, AnyType, acts))

\* pre_update goes through the attributes of one request, and what the last of
\* them asks for takes the place of what the others did: set_flavor is asked for
\* when the type is the only one.
TypeRequests(i, t) ==
  {Job("set_type", i, i, t, {Action("set_flavor", t)})}
    \cup {Job("set_both", i, i, t, acts) : acts \in GroupLists(i)}

\* Bug: the status of the instance is not checked.
BugSetInstanceType(r, i) ==
  /\ MayAsk(r)
  /\ Visible(i)
  /\ server[i].up
  /\ \E t \in Types \ {type[i]} : \E j \in TypeRequests(i, t) : Asks(r, j)

\* set_instance_type: a server that has a run state, and another definition.
SetInstanceType(r, i) ==
  /\ MayAsk(r)
  /\ MayChange(i)
  /\ server[i].up
  /\ \E t \in Types \ {type[i]} : \E j \in TypeRequests(i, t) : Asks(r, j)

\* Bug: the status of the volume is not checked.
BugAttach(r, i, x) ==
  /\ MayAsk(r)
  /\ Visible(x)
  /\ ~IsAttached(x[1])
  /\ MayChange(i)
  /\ Asks(r, Job("attach", x, i, AnyType, {Action("add_volume", x[1])}))

\* attach looks at the status of the instance, and writes the volume's only.
Attach(r, i, x) ==
  /\ MayAsk(r)
  /\ ~IsAttached(x[1])
  /\ MayChange(i)
  /\ MayChange(x)
  /\ Asks(r, Job("attach", x, i, AnyType, {Action("add_volume", x[1])}))

\* detach does not ask whether the volume is attached to this instance.
Detach(r, i, x) ==
  /\ MayAsk(r)
  /\ IsAttached(x[1])
  /\ MayChange(i)
  /\ MayChange(x)
  /\ Asks(r, Job("detach", x, i, AnyType, {Action("del_volume", x[1])}))

\* Bug: pre_delete does not ask whether the volume is in use.
BugDeleteVolume(r, x) ==
  /\ MayAsk(r)
  /\ MayChange(x)
  /\ Asks(r, Job("delete_volume", x, AnyInstance, AnyType, {Action("delete_disk", x[1])}))

DeleteVolume(r, x) ==
  /\ MayAsk(r)
  /\ MayChange(x)
  /\ ~IsAttached(x[1])
  /\ Asks(r, Job("delete_volume", x, AnyInstance, AnyType, {Action("delete_disk", x[1])}))

----------------------------------------------------------------------------
(* Requests: the busy status and the task.                                  *)

\* change_definition writes the new definition before the status, and before
\* the server has changed. Another attribute of the request may then be refused:
\* the definition stays.
ChangeDefinition(r) ==
  /\ rpc[r] = "checked"
  /\ Op(r) \in SetsType
  /\ type' = [type EXCEPT ![On(r)] = job[r].to]
  /\ setter' = [setter EXCEPT ![On(r)] = r]
  /\ \/ RequestGoes(r, "begin")
     \/ Op(r) = "set_both" /\ RequestGoes(r, "failed")
  /\ UNCHANGED <<row, resources, tpc, remote, job>>

\* Bug: a status that instances do not have.
BugBegin(r) ==
  /\ \/ rpc[r] = "begin"
     \/ rpc[r] = "checked" /\ Op(r) \notin SetsType
  /\ WithStatus(Row(r), "UPDATING")
  /\ RequestGoes(r, "dispatch")
  /\ UNCHANGED <<type, setter, resources, tpc, remote, job>>

Begin(r) ==
  /\ \/ rpc[r] = "begin"
     \/ rpc[r] = "checked" /\ Op(r) \notin SetsType
  /\ WithStatus(Row(r), IF Op(r) \in {"delete", "delete_volume"}
                        THEN "DELETING" ELSE "BUILDING")
  /\ RequestGoes(r, "dispatch")
  /\ UNCHANGED <<type, setter, resources, tpc, remote, job>>

\* check_resource: the resource of the row is still there.
HasResource(r) ==
  IF Row(r) \in Instances THEN Op(r) = "create" \/ server[Row(r)].up
                          ELSE Row(r)[1] \in disks

\* The task is queued. Only the deletion of an instance has a post hook.
Dispatch(r) ==
  /\ rpc[r] = "dispatch"
  /\ \/ /\ TaskGoes(r, "queued")
        /\ Holds(r, [job[r] EXCEPT !.has = HasResource(r)])
        /\ RequestGoes(r, IF Op(r) = "delete" THEN "post" ELSE "done")
        /\ UNCHANGED row
     \/ /\ May("dispatch")
        /\ WithStatus(Row(r), "ERROR")
        /\ RequestGoes(r, "failed")
        /\ UNCHANGED <<tpc, job>>
  /\ UNCHANGED <<type, setter, resources, remote>>

\* post_delete runs at once, while the task deletes the server: the disks it
\* finds are those of a server that is still there.
PostDelete(r) ==
  /\ rpc[r] = "post"
  /\ Holds(r, [job[r] EXCEPT !.todo = server[On(r)].disks])
  /\ RequestGoes(r, "drop")
  /\ UNCHANGED <<rows, resources, tpc, remote>>

\* The newest row of each disk is soft deleted, whatever its status.
DropVolumeRow(r) ==
  /\ rpc[r] = "drop"
  /\ \E d \in job[r].todo :
       /\ Holds(r, [job[r] EXCEPT !.todo = @ \ {d}])
       /\ \/ RowsOf(d) = {} /\ UNCHANGED row
          \/ \E x \in Newest(d) : row' = [row EXCEPT ![x].state = "deleted"]
  /\ UNCHANGED <<type, setter, resources, rpc, tpc, remote>>

PostDeleteEnds(r) ==
  /\ rpc[r] = "drop"
  /\ job[r].todo = {}
  /\ RequestGoes(r, "done")
  /\ UNCHANGED <<rows, resources, tpc, remote, job>>

----------------------------------------------------------------------------
(* Tasks of the resource service, which runs them to their end whether or    *)
(* not the task that asked still waits. External.                            *)

Act(r) == job[r].act[1]
About(r) == job[r].act[2]
RemoteGoes(r, stage) == remote' = [remote EXCEPT ![r] = stage]
Without(d) == [i \in Instances |-> [server[i] EXCEPT !.disks = @ \ {d}]]

RemoteCreates(r) ==
  /\ remote[r] = "running"
  /\ Act(r) = "create"
  /\ server' = [server EXCEPT ![On(r)] = NewServer(On(r), About(r))]
  /\ disks' = disks \cup {Boot[On(r)]}
  /\ RemoteGoes(r, "success")
  /\ UNCHANGED <<rows, rpc, tpc, job>>

\* The disks of a server go with it.
RemoteDeletes(r) ==
  /\ remote[r] = "running"
  /\ \/ /\ Act(r) = "delete"
        /\ server' = [server EXCEPT ![On(r)] = NoServer]
        /\ disks' = disks \ server[On(r)].disks
     \/ /\ Act(r) = "delete_disk"
        /\ server' = Without(About(r))
        /\ disks' = disks \ {About(r)}
  /\ RemoteGoes(r, "success")
  /\ UNCHANGED <<rows, rpc, tpc, job>>

\* What the resource service refuses: a disk in use, a server that is gone.
CanModify(r) ==
  /\ server[On(r)].up
  /\ Act(r) = "add_volume" => About(r) \in disks /\ ~IsAttached(About(r))
  /\ Act(r) = "del_volume" => About(r) \in server[On(r)].disks

Modified(s, name, about) ==
  CASE name = "set_flavor"         -> [s EXCEPT !.type = about]
    [] name = "add_volume"         -> [s EXCEPT !.disks = @ \cup {about}]
    [] name = "del_volume"         -> [s EXCEPT !.disks = @ \ {about}]
    [] name = "add_security_group" -> [s EXCEPT !.groups = @ \cup {about}]
    [] name = "del_security_group" -> [s EXCEPT !.groups = @ \ {about}]

Modifies(r) == Act(r) \notin {"create", "delete", "delete_disk"}

RemoteModifies(r) ==
  /\ remote[r] = "running"
  /\ Modifies(r)
  /\ CanModify(r)
  /\ server' = [server EXCEPT ![On(r)] = Modified(@, Act(r), About(r))]
  /\ RemoteGoes(r, "success")
  /\ UNCHANGED <<rows, disks, rpc, tpc, job>>

RemoteFails(r) ==
  /\ remote[r] = "running"
  /\ May("remote") \/ (Modifies(r) /\ ~CanModify(r))
  /\ RemoteGoes(r, "failure")
  /\ UNCHANGED <<rows, resources, rpc, tpc, job>>

----------------------------------------------------------------------------
(* Celery tasks.                                                           *)

TaskStarts(r) ==
  /\ tpc[r] = "queued"
  /\ TaskGoes(r, IF Visible(Row(r)) THEN "work" ELSE "failing")
  /\ UNCHANGED <<rows, resources, rpc, remote, job>>

\* The next action is asked for; a new server's uuid is written and PENDING.
AskResource(r) ==
  /\ tpc[r] = "work"
  /\ job[r].has
  /\ \E a \in job[r].acts :
       Holds(r, [job[r] EXCEPT !.act = a, !.acts = @ \ {a}])
  /\ IF Op(r) = "create" THEN WithStatus(Row(r), "PENDING") ELSE UNCHANGED row
  /\ RemoteGoes(r, "running")
  /\ TaskGoes(r, "wait")
  /\ UNCHANGED <<type, setter, resources, rpc>>

\* The except clauses of *_resource: ERROR, and then the task fails.
AskResourceFails(r) ==
  /\ May("remote")
  /\ tpc[r] = "work"
  /\ job[r].has
  /\ job[r].acts # {}
  /\ WithStatus(Row(r), "ERROR")
  /\ TaskGoes(r, "failing")
  /\ UNCHANGED <<type, setter, resources, rpc, remote, job>>

\* wait_for_task.
RemoteAnswers(r) ==
  /\ tpc[r] = "wait"
  /\ remote[r] = "success"
  /\ IF Op(r) = "create" THEN WithStatus(Row(r), "CREATED") ELSE UNCHANGED row
  /\ RemoteGoes(r, "none")
  /\ TaskGoes(r, "work")
  /\ UNCHANGED <<type, setter, resources, rpc, job>>

\* wait_for_task writes ERROR too, before the task fails. A status call that
\* gets no answer counts as a failure, and so does a task that is too slow.
WaitFails(r) ==
  /\ tpc[r] = "wait"
  /\ \/ remote[r] = "failure"
     \/ May("wait")
  /\ WithStatus(Row(r), "ERROR")
  /\ TaskGoes(r, "failing")
  /\ UNCHANGED <<type, setter, resources, rpc, remote, job>>

\* create_resource and patch_resource go on to import the disks of the server.
Imports(r) == Op(r) \in {"create", "patch"} /\ job[r].has

ResourceDone(r) ==
  /\ tpc[r] = "work"
  /\ job[r].acts = {} \/ ~job[r].has
  /\ Holds(r, [job[r] EXCEPT !.todo = IF Imports(r) THEN server[On(r)].disks ELSE @])
  /\ TaskGoes(r, IF ~Imports(r) THEN "finish"
                 ELSE IF server[On(r)].up THEN "scan" ELSE "failing")
  /\ UNCHANGED <<rows, resources, rpc, remote>>

\* Bug: a row is added without looking for one.
BugScanVolume(r) ==
  /\ tpc[r] = "scan"
  /\ \E d \in job[r].todo :
       /\ Holds(r, [job[r] EXCEPT !.todo = @ \ {d}, !.disk = d])
       /\ TaskGoes(r, "adopt")
  /\ UNCHANGED <<rows, resources, rpc, remote>>

\* A disk without a row is to have one; a disk that is gone fails the task.
ScanVolume(r) ==
  /\ tpc[r] = "scan"
  /\ \E d \in job[r].todo :
       /\ Holds(r, [job[r] EXCEPT !.todo = @ \ {d}, !.disk = d])
       /\ TaskGoes(r, IF d \notin disks THEN "failing"
                      ELSE IF RowsOf(d) = {} THEN "adopt" ELSE "scan")
  /\ UNCHANGED <<rows, resources, rpc, remote>>

\* add_service_type_plugin and update_status: until it has its resource uuid
\* nobody finds the new row by its disk.
AdoptVolume(r) ==
  /\ tpc[r] = "adopt"
  /\ \E k \in Copies :
       /\ row[<<job[r].disk, k>>].state = "absent"
       /\ \A l \in Copies : row[<<job[r].disk, l>>].state = "absent" => k <= l
       /\ row' = [row EXCEPT ![<<job[r].disk, k>>] =
                    [state |-> "present", status |-> "ACTIVE"]]
  /\ TaskGoes(r, "scan")
  /\ UNCHANGED <<type, setter, resources, rpc, remote, job>>

ImportEnds(r) ==
  /\ tpc[r] = "scan"
  /\ job[r].todo = {}
  /\ TaskGoes(r, "finish")
  /\ UNCHANGED <<rows, resources, rpc, remote, job>>

\* update_status(ACTIVE), or delete_instance.
Finish(r) ==
  /\ tpc[r] = "finish"
  /\ \/ /\ Op(r) \notin {"delete", "delete_volume"}
        /\ WithStatus(Row(r), "ACTIVE")
        /\ TaskGoes(r, "ended")
     \/ /\ Op(r) \in {"delete", "delete_volume"}
        /\ Visible(Row(r))
        /\ row' = [row EXCEPT ![Row(r)].state = "deleted"]
        /\ TaskGoes(r, "ended")
     \/ /\ Op(r) \in {"delete", "delete_volume"}
        /\ ~Visible(Row(r))
        /\ TaskGoes(r, "failing")
        /\ UNCHANGED row
  /\ UNCHANGED <<type, setter, resources, rpc, remote, job>>

\* failure(): ERROR once more, unless the row is gone.
TaskFails(r) ==
  /\ tpc[r] = "failing"
  /\ row' = IF Visible(Row(r)) THEN [row EXCEPT ![Row(r)].status = "ERROR"] ELSE row
  /\ TaskGoes(r, "failed")
  /\ UNCHANGED <<type, setter, resources, rpc, remote, job>>

----------------------------------------------------------------------------
Asking(r) ==
  \/ \E i \in Instances :
       \/ CreateInstance(r, i) \/ DeleteInstance(r, i) \/ PatchInstance(r, i)
       \/ SetInstanceType(r, i) \/ ChangeSecurityGroups(r, i)
       \/ \E x \in VolumeRows : Attach(r, i, x) \/ Detach(r, i, x)
  \/ \E x \in VolumeRows : DeleteVolume(r, x)

Serving(r) ==
  \/ ChangeDefinition(r) \/ Begin(r) \/ Dispatch(r) \/ PostDelete(r)
  \/ DropVolumeRow(r) \/ PostDeleteEnds(r)

Remote(r) ==
  RemoteCreates(r) \/ RemoteDeletes(r) \/ RemoteModifies(r) \/ RemoteFails(r)

Working(r) ==
  \/ TaskStarts(r) \/ AskResource(r) \/ AskResourceFails(r) \/ RemoteAnswers(r)
  \/ WaitFails(r) \/ ResourceDone(r) \/ ScanVolume(r) \/ AdoptVolume(r)
  \/ ImportEnds(r) \/ Finish(r) \/ TaskFails(r)

Next == \E r \in Requests : Asking(r) \/ Serving(r) \/ Remote(r) \/ Working(r)

Spec == Init /\ [][Next]_vars

----------------------------------------------------------------------------
(* Properties.                                                             *)

\* Types of the variables.
TypeOK ==
  /\ row \in [Rows -> [state : RowStates, status : Statuses]]
  /\ type \in [Instances -> Types]
  /\ setter \in [Instances -> Requests \cup {Nobody}]
  /\ server \in [Instances -> Servers]
  /\ disks \subseteq Disks
  /\ rpc \in [Requests -> RequestStages]
  /\ tpc \in [Requests -> TaskStages]
  /\ remote \in [Requests -> RemoteStages]
  /\ job \in [Requests -> Jobs]

\* A task about a row that failed, or is failing.
Failed(r) == tpc[r] \in {"failing", "failed"}
FailedOn(i) == \E r \in Requests : Row(r) = i /\ Failed(r)

\* A server keeps a security group, unless a task of its instance failed, which
\* lets the next request in before the failed one has ended.
KeepsGroup ==
  \A i \in Instances : server[i].up /\ ~FailedOn(i) => server[i].groups # {}

NoneFailed == \A r \in Requests : ~Failed(r)

\* A row of the disk was deleted: by the request that deletes it, or by the
\* deletion of a server it was on, which drops the row even when the disk has
\* since been detached and a request on that row is under way.
Dropped(d) == \E x \in {d} \X Copies : row[x].state = "deleted"

\* A disk has one row at most, though patch and create both import it.
OneRowPerVolume ==
  \A d \in Disks : NoneFailed /\ ~Dropped(d) => Cardinality(RowsOf(d)) <= 1

\* A task that attaches a disk finds it free: no other request has attached it
\* since attach looked.
AttachingFree ==
  \A r \in Requests :
    /\ remote[r] = "running"
    /\ Act(r) = "add_volume"
    /\ NoneFailed /\ ~Dropped(About(r))
    => ~IsAttached(About(r))

\* The definition of an instance, written before its server changes, is what the
\* server has once the last request that wrote it has gone through, whatever the
\* requests before it left. Not if that request carried other attributes as well,
\* which the code takes: what they ask for replaces the change of the server.
FlavorAgrees ==
  \A i \in Instances :
    /\ Visible(i) /\ row[i].status = "ACTIVE"
    /\ server[i].up
    /\ ~FailedOn(i)
    /\ setter[i] \in Requests => Op(setter[i]) = "set_type" /\ tpc[setter[i]] = "ended"
    => server[i].type = type[i]

\* No disk is deleted while a server uses it, but with the server.
InUseIsKept ==
  [][\A r \in Requests :
       remote[r] = "running" /\ remote'[r] = "success" /\ Act(r) = "delete_disk"
         /\ NoneFailed /\ ~Dropped(About(r))
         => ~IsAttached(About(r))]_vars
============================================================================
