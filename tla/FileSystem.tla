----------------------------- MODULE FileSystem -----------------------------
(* File systems of the storage plugin: class ApiStorageEFS, which keeps rows  *)
(* in table service_instance and asks the resource service for the shares    *)
(* behind them.                                                              *)
(*                                                                           *)
(* Size, compliance mode and source of a replica are kept twice: in the JSON *)
(* configuration of the instance, which the checks of the requests read, and *)
(* in the share. A handler reads the whole configuration with its plugin and *)
(* writes the whole of it back. Most requests are actions, which look at no  *)
(* status; the life common to every service is in module ServiceInstance.    *)
EXTENDS Naturals, Sequences

CONSTANTS
  FileSystems,  \* oids
  Old,          \* those of version 1.0
  OpenStack,    \* those of orchestrator openstack, which come from the past
  Existing,     \* those with a share before the first request
  Copies,       \* replicas among them
  Share,        \* Share[f]: the first share of f in Existing
  Sizes,        \* sizes of shares
  Shares,       \* uuids of shares, at most that many are ever made
  NoShare,
  Requests,     \* client requests
  Alone,        \* operations nothing else is asked of a file system beside
  Faults        \* calls that may raise; wait: the wait for the resource service

Operations == {"create", "mount", "unmount", "resize", "touch", "grant", "manage",
               "compliance", "unlink", "suspend", "rpo", "drop", "delete"}
FaultKinds == {"dispatch", "check", "remote", "wait"}

ASSUME ConstantsAssumption ==
  /\ Old \subseteq FileSystems /\ OpenStack \subseteq Old
  /\ Existing \subseteq FileSystems /\ OpenStack \subseteq Existing
  /\ Copies \subseteq Existing \ Old
  /\ Share \in [Existing -> Shares]
  /\ \A f, g \in Existing : Share[f] = Share[g] => f = g
  /\ FileSystems # {} /\ Sizes # {}
  /\ Sizes \subseteq Nat
  /\ NoShare \notin Shares
  /\ Alone \subseteq Operations
  /\ Faults \subseteq FaultKinds

VARIABLES
  row,      \* row[f]: the row of f and the resource uuid in it
  conf,     \* conf[f]: its configuration: size, ComplianceMode, whether it has a SourceId
  share,    \* share[s]: the share in the resource service
  rpc,      \* rpc[r]: where the API thread of request r is
  tpc,      \* tpc[r]: where its celery task is
  remote,   \* remote[r]: the task of the resource service it waits for
  job       \* job[r]: what they hold

vars == <<row, conf, share, rpc, tpc, remote, job>>

Settled == {"ACTIVE", "ERROR"}            \* accepted by check_status
Statuses == Settled \cup {"DRAFT", "PENDING", "CREATED", "BUILDING", "UPDATING", "DELETING"}
RowStates == {"absent", "present", "deleted"}
Configs == [size : Sizes, compliance : BOOLEAN, replica : BOOLEAN]
\* A broken share is one whose creation failed: it is there to be deleted.
ShareStates == {"free", "building", "live", "broken", "gone"}

\* The steps of tasks_v2, and the update and delete steps of every service.
StepNames == {"create", "mount", "unmount", "update", "grant", "manage",
              "compliance", "replica", "rename", "rpo", "drop", "delete"}
RequestStages == {"idle", "read", "dispatch", "config", "done", "failed"}
TaskStages == {"none", "step", "ask", "wait", "write", "close", "failing", "ended", "failed"}
RemoteStages == {"none", "running", "success", "failure"}

\* conf: the configuration the thread that will write it has read; want: what
\* the request asks for; extend: the direction of a resize; source: the share a
\* new replica is made of; has: there is a share to ask for; share: that share;
\* steps: those of the task still to be done.
Jobs == [op : Operations, on : FileSystems, conf : Configs, want : Configs,
         extend : BOOLEAN, source : Shares \cup {NoShare}, has : BOOLEAN,
         share : Shares \cup {NoShare}, steps : Seq(StepNames)]

FirstConfig(f) == [size |-> CHOOSE n \in Sizes : TRUE, compliance |-> FALSE,
                   replica |-> f \in Copies]
NewShare(state, c) ==
  [state |-> state, size |-> c.size, compliance |-> c.compliance, replica |-> c.replica]

Job(op, f, c, want, steps) ==
  [op |-> op, on |-> f, conf |-> c, want |-> want, extend |-> FALSE, source |-> NoShare,
   has |-> TRUE, share |-> NoShare, steps |-> steps]

Init ==
  /\ row = [f \in FileSystems |->
              IF f \in Existing
              THEN [state |-> "present", status |-> "ACTIVE", share |-> Share[f]]
              ELSE [state |-> "absent", status |-> "DRAFT", share |-> NoShare]]
  /\ conf = [f \in FileSystems |-> FirstConfig(f)]
  /\ share = [s \in Shares |->
                IF \E f \in Existing : Share[f] = s
                THEN NewShare("live", FirstConfig(CHOOSE f \in Existing : Share[f] = s))
                ELSE NewShare("free", FirstConfig(CHOOSE f \in FileSystems : TRUE))]
  /\ rpc = [r \in Requests |-> "idle"]
  /\ tpc = [r \in Requests |-> "none"]
  /\ remote = [r \in Requests |-> "none"]
  /\ job = [r \in Requests |->
              LET f == CHOOSE f \in FileSystems : TRUE
              IN Job("touch", f, FirstConfig(f), FirstConfig(f), <<>>)]

----------------------------------------------------------------------------
(* What the code reads and writes.                                         *)

Visible(f) == row[f].state = "present"
WithStatus(f, s) == row' = [row EXCEPT ![f].status = s]
On(r) == job[r].on
Op(r) == job[r].op
Step(r) == Head(job[r].steps)
May(fault) == fault \in Faults
RequestGoes(r, stage) == rpc' = [rpc EXCEPT ![r] = stage]
TaskGoes(r, stage) == tpc' = [tpc EXCEPT ![r] = stage]
RemoteGoes(r, stage) == remote' = [remote EXCEPT ![r] = stage]
Holds(r, j) == job' = [job EXCEPT ![r] = j]

\* check_status.
MayChange(f) == Visible(f) /\ row[f].status \in Settled

\* get_available_capabilities.
Capabilities(f) ==
  IF f \in OpenStack THEN {"resize", "grant"}
  ELSE IF f \in Old THEN {}
  ELSE {"resize", "grant", "set-status", "replica", "snapshot-policy", "compliance"}

HasUuid(f) == row[f].share # NoShare
\* The resource service answers a GET of the share: it is not there, or it is.
Known(f) == HasUuid(f) /\ share[row[f].share].state \in {"building", "live", "broken"}
\* check_resource, and the except clauses that take any error for an absence.
Found(f) == {Known(f)} \cup (IF May("check") THEN {FALSE} ELSE {})

\* set_config: the whole configuration, as it was read, with one property changed.
WithConfig(f, c) == conf' = [conf EXCEPT ![f] = c]

----------------------------------------------------------------------------
(* Requests: a view loads plugin and configuration, the plugin checks them.  *)

Busy(r) ==
  \/ rpc[r] \notin {"idle", "done", "failed"}
  \/ tpc[r] \notin {"none", "ended", "failed"}

MayAsk(r, f, op) ==
  /\ rpc[r] = "idle"
  /\ \A q \in Requests :
       On(q) = f /\ Busy(q) => op \notin Alone /\ Op(q) \notin Alone

Asks(r, j) ==
  /\ Holds(r, j)
  /\ RequestGoes(r, "read")
  /\ UNCHANGED <<row, conf, share, tpc, remote>>

Asking(r, op, f, steps) == Asks(r, Job(op, f, conf[f], conf[f], steps))

Adds(r, f, c, source) ==
  /\ row' = [row EXCEPT ![f].state = "present"]
  /\ WithConfig(f, c)
  /\ Holds(r, [Job("create", f, c, c, <<"create">>) EXCEPT
                 !.source = source, !.has = f \notin Old])
  /\ RequestGoes(r, "dispatch")
  /\ UNCHANGED <<share, tpc, remote>>

\* A new instance and pre_create: of version 1.0 it gets no share yet.
Create(r, f) ==
  /\ rpc[r] = "idle"
  /\ row[f].state = "absent"
  /\ \E c \in Configs : ~c.replica /\ Adds(r, f, c, NoShare)

\* A replica takes over the configuration of its source; pre_create reads the
\* resource uuid of the source, which need not have one.
CreateReplica(r, f, g) ==
  /\ rpc[r] = "idle"
  /\ row[f].state = "absent" /\ f \notin Old
  /\ Visible(g) /\ g \notin Old
  /\ Adds(r, f, [conf[g] EXCEPT !.compliance = FALSE, !.replica = TRUE], row[g].share)

\* Bug: create_mount_target does not look for a share.
BugCreateMountTarget(r, f) ==
  /\ MayAsk(r, f, "mount")
  /\ Visible(f)
  /\ Asking(r, "mount", f, <<"mount">>)

\* create_mount_target: no share, or one the resource service does not find.
CreateMountTarget(r, f) ==
  /\ MayAsk(r, f, "mount")
  /\ Visible(f)
  /\ FALSE \in Found(f)
  /\ Asking(r, "mount", f, <<"mount">>)

DeleteMountTarget(r, f) ==
  /\ MayAsk(r, f, "unmount")
  /\ Visible(f)
  /\ Known(f)
  /\ Asking(r, "unmount", f, <<"unmount">>)

\* resize_filesystem: extend or shrink, by the size in the configuration.
Resize(r, f) ==
  /\ MayAsk(r, f, "resize")
  /\ "resize" \in Capabilities(f)
  /\ HasUuid(f)
  /\ f \in Old \/ ~conf[f].replica
  /\ MayChange(f)
  /\ \E n \in Sizes :
       Asks(r, [Job("resize", f, conf[f], [conf[f] EXCEPT !.size = n], <<"update">>) EXCEPT
                  !.extend = n > conf[f].size])

\* update_efs_status and update_snapshot_policy.
Touch(r, f) ==
  /\ MayAsk(r, f, "touch")
  /\ "set-status" \in Capabilities(f)
  /\ HasUuid(f)
  /\ MayChange(f)
  /\ Asking(r, "touch", f, <<"update">>)

ManageGrant(r, f) ==
  /\ MayAsk(r, f, "grant")
  /\ Visible(f)
  /\ "grant" \in Capabilities(f)
  /\ HasUuid(f)
  /\ Asking(r, "grant", f, <<"grant">>)

Manage(r, f) ==
  /\ MayAsk(r, f, "manage")
  /\ Visible(f)
  /\ "set-status" \in Capabilities(f)
  /\ HasUuid(f)
  /\ Asking(r, "manage", f, <<"manage">>)

\* Bug: the mode is asked for, and not written.
BugComplianceSteps(on) == <<"manage">>

\* ComplianceMode and Rpo, which is unset with it, in steps of their own.
ComplianceSteps(on) ==
  IF on THEN <<"manage", "compliance", "rpo">> ELSE <<"manage", "compliance", "rpo", "rpo">>

UpdateCompliance(r, f) ==
  /\ MayAsk(r, f, "compliance")
  /\ Visible(f)
  /\ "compliance" \in Capabilities(f)
  /\ HasUuid(f)
  /\ ~conf[f].replica
  /\ LET on == ~conf[f].compliance
     IN Asks(r, Job("compliance", f, conf[f], [conf[f] EXCEPT !.compliance = on],
                    ComplianceSteps(on)))

\* Bug: the replica is renamed, and forgets its source, before it is unlinked.
BugReplicaSteps(op) ==
  CASE op = "unlink"  -> <<"rename", "replica">>
    [] op = "suspend" -> <<"replica">>
    [] op = "rpo"     -> <<"replica", "rpo">>

\* pre_action; a suspended replica is resumed by the same steps.
ReplicaSteps(op) ==
  CASE op = "unlink"  -> <<"replica", "rename">>
    [] op = "suspend" -> <<"replica">>
    [] op = "rpo"     -> <<"replica", "rpo">>

ManageReplica(r, f) ==
  /\ Visible(f)
  /\ "replica" \in Capabilities(f)
  /\ HasUuid(f)
  /\ conf[f].replica
  /\ \E op \in {"unlink", "suspend", "rpo"} :
       MayAsk(r, f, op) /\ Asking(r, op, f, ReplicaSteps(op))

\* delete_share. The grants are passed under a name that the grant step does
\* not look at, so that it only changes the status.
DeleteShare(r, f) ==
  /\ MayAsk(r, f, "drop")
  /\ Visible(f)
  /\ HasUuid(f) => Known(f)
  /\ Asks(r, [Job("drop", f, conf[f], conf[f],
                  IF f \in Old THEN <<"grant", "drop">> ELSE <<"drop">>) EXCEPT
                !.has = HasUuid(f)])

\* The deletion every service has, and pre_delete: refused while there is a share.
Delete(r, f) ==
  /\ MayAsk(r, f, "delete")
  /\ MayChange(f)
  /\ FALSE \in Found(f)
  /\ Asking(r, "delete", f, <<"delete">>)

----------------------------------------------------------------------------
(* Requests: the busy status, if any, and the task.                         *)

BeginUpdate(r) ==
  /\ rpc[r] = "read"
  /\ Op(r) \in {"resize", "touch", "delete"}
  /\ WithStatus(On(r), IF Op(r) = "delete" THEN "DELETING" ELSE "BUILDING")
  /\ RequestGoes(r, "dispatch")
  /\ UNCHANGED <<conf, share, tpc, remote, job>>

\* Actions write no status; create_mount_target writes mount_target_data.
BeginAction(r) ==
  /\ rpc[r] = "read"
  /\ Op(r) \notin {"resize", "touch", "delete"}
  /\ IF Op(r) = "mount" THEN WithConfig(On(r), job[r].conf) ELSE UNCHANGED conf
  /\ RequestGoes(r, "dispatch")
  /\ UNCHANGED <<row, share, tpc, remote, job>>

\* The task is queued; that of an update or deletion is told what check_resource
\* has found.
Dispatch(r) ==
  /\ rpc[r] = "dispatch"
  /\ \E found \in Found(On(r)) :
       Holds(r, [job[r] EXCEPT !.has =
                   IF Op(r) \in {"resize", "touch", "delete"} THEN found ELSE @])
  /\ TaskGoes(r, "step")
  /\ RequestGoes(r, IF Op(r) = "resize" THEN "config" ELSE "done")
  /\ UNCHANGED <<row, conf, share, remote>>

DispatchFails(r) ==
  /\ May("dispatch")
  /\ rpc[r] = "dispatch"
  /\ WithStatus(On(r), "ERROR")
  /\ RequestGoes(r, "failed")
  /\ UNCHANGED <<conf, share, tpc, remote, job>>

\* Bug: the new size is not written.
BugWriteSize(r) ==
  /\ rpc[r] = "config"
  /\ RequestGoes(r, "done")
  /\ UNCHANGED <<row, conf, share, tpc, remote, job>>

\* The new size is written once the task is queued, however it will end.
WriteSize(r) ==
  /\ rpc[r] = "config"
  /\ WithConfig(On(r), job[r].want)
  /\ RequestGoes(r, "done")
  /\ UNCHANGED <<row, share, tpc, remote, job>>

----------------------------------------------------------------------------
(* Celery tasks: each step loads the plugin, writes a status, asks the        *)
(* resource service and waits, writes the configuration and ACTIVE.          *)

\* Steps that write the configuration.
Configures(step) == step \in {"mount", "unmount", "compliance", "rename", "rpo", "drop"}

\* Steps that ask the resource service for something.
AsksService(r) ==
  CASE Step(r) \in {"create", "update", "drop", "delete"} -> job[r].has
    [] Step(r) = "grant" -> Op(r) = "grant"
    [] Step(r) \in {"mount", "unmount", "manage", "replica"} -> TRUE
    [] OTHER -> FALSE

StepBegins(r) ==
  /\ tpc[r] = "step"
  /\ IF Visible(On(r))
     THEN /\ TaskGoes(r, IF AsksService(r) THEN "ask" ELSE "write")
          /\ IF Step(r) \in {"create", "update", "delete"}
             THEN UNCHANGED row ELSE WithStatus(On(r), "UPDATING")
          /\ Holds(r, [job[r] EXCEPT !.conf = conf[On(r)]])
     ELSE TaskGoes(r, "failing") /\ UNCHANGED <<row, job>>
  /\ UNCHANGED <<conf, share, rpc, remote>>

\* A replica of a source without a share is asked for as a share without size.
CanAsk(r) ==
  CASE Step(r) = "create" ->
         job[r].want.replica => /\ job[r].source # NoShare
                                /\ share[job[r].source].state \in {"building", "live", "broken"}
    [] Step(r) = "mount" -> TRUE
    [] OTHER -> Known(On(r))

Makes(r) == Step(r) \in {"create", "mount"}
FreeShare == CHOOSE s \in Shares : share[s].state = "free"

\* A mount target is neither a replica nor compliant; a replica has the size of
\* its source.
Made(r) ==
  LET want == job[r].want
  IN IF Step(r) = "mount" THEN [want EXCEPT !.compliance = FALSE, !.replica = FALSE]
     ELSE IF want.replica THEN [want EXCEPT !.size = share[job[r].source].size]
     ELSE want

\* The uuid of a new share is written before it is there.
AskShare(r) ==
  /\ tpc[r] = "ask"
  /\ Makes(r)
  /\ CanAsk(r)
  /\ \E s \in Shares : share[s].state = "free"
  /\ share' = [share EXCEPT ![FreeShare] = NewShare("building", Made(r))]
  /\ row' = [row EXCEPT ![On(r)].share = FreeShare,
                        ![On(r)].status = IF Step(r) = "create" THEN "PENDING" ELSE "BUILDING"]
  /\ Holds(r, [job[r] EXCEPT !.share = FreeShare])
  /\ RemoteGoes(r, "running")
  /\ TaskGoes(r, "wait")
  /\ UNCHANGED <<conf, rpc>>

AskChange(r) ==
  /\ tpc[r] = "ask"
  /\ ~Makes(r)
  /\ CanAsk(r)
  /\ Holds(r, [job[r] EXCEPT !.share = row[On(r)].share])
  /\ RemoteGoes(r, "running")
  /\ TaskGoes(r, "wait")
  /\ UNCHANGED <<row, conf, share, rpc>>

\* The call raises: creations and deletions write ERROR by themselves.
AskFails(r) ==
  /\ tpc[r] = "ask"
  /\ May("remote") \/ ~CanAsk(r)
  /\ IF Step(r) \in {"create", "unmount", "drop"}
     THEN WithStatus(On(r), "ERROR") ELSE UNCHANGED row
  /\ TaskGoes(r, "failing")
  /\ UNCHANGED <<conf, share, rpc, remote, job>>

\* wait_for_task.
RemoteAnswers(r) ==
  /\ tpc[r] = "wait"
  /\ remote[r] = "success"
  /\ IF Step(r) = "create" THEN WithStatus(On(r), "CREATED") ELSE UNCHANGED row
  /\ RemoteGoes(r, "none")
  /\ TaskGoes(r, "write")
  /\ UNCHANGED <<conf, share, rpc, job>>

\* The task of the resource service failed, or is still running.
WaitFails(r) ==
  /\ tpc[r] = "wait"
  /\ remote[r] = "failure" \/ May("wait")
  /\ WithStatus(On(r), "ERROR")
  /\ TaskGoes(r, "failing")
  /\ UNCHANGED <<conf, share, rpc, remote, job>>

\* What a step writes into the configuration it has read.
Configured(r) ==
  CASE Step(r) = "compliance" -> [job[r].conf EXCEPT !.compliance = job[r].want.compliance]
    [] Step(r) = "rename"     -> [job[r].conf EXCEPT !.replica = FALSE]
    [] OTHER                  -> job[r].conf

\* A share that was deleted is taken out of the row.
StepWrites(r) ==
  /\ tpc[r] = "write"
  /\ IF Configures(Step(r)) /\ (Step(r) = "drop" => job[r].has)
     THEN WithConfig(On(r), Configured(r)) ELSE UNCHANGED conf
  /\ row' = IF Step(r) \in {"unmount", "drop"} THEN [row EXCEPT ![On(r)].share = NoShare] ELSE row
  /\ TaskGoes(r, "close")
  /\ UNCHANGED <<share, rpc, remote, job>>

\* Bug: a file system whose share was deleted gets a status and no expiry date.
BugStepEnds(r) ==
  /\ tpc[r] = "close"
  /\ IF Step(r) \in {"drop", "delete"}
     THEN WithStatus(On(r), "DELETED") ELSE WithStatus(On(r), "ACTIVE")
  /\ Holds(r, [job[r] EXCEPT !.steps = Tail(@)])
  /\ TaskGoes(r, IF Len(job[r].steps) = 1 THEN "ended" ELSE "step")
  /\ UNCHANGED <<conf, share, rpc, remote>>

\* ACTIVE, or the expiry date of the row.
StepEnds(r) ==
  /\ tpc[r] = "close"
  /\ IF Step(r) \in {"drop", "delete"}
     THEN row' = [row EXCEPT ![On(r)].state = "deleted"] ELSE WithStatus(On(r), "ACTIVE")
  /\ Holds(r, [job[r] EXCEPT !.steps = Tail(@)])
  /\ TaskGoes(r, IF Len(job[r].steps) = 1 THEN "ended" ELSE "step")
  /\ UNCHANGED <<conf, share, rpc, remote>>

\* Bug: a task that fails says nothing.
BugTaskFails(r) ==
  /\ tpc[r] = "failing"
  /\ TaskGoes(r, "failed")
  /\ UNCHANGED <<row, conf, share, rpc, remote, job>>

\* failure(): ERROR, unless the row is gone.
TaskFails(r) ==
  /\ tpc[r] = "failing"
  /\ row' = IF Visible(On(r)) THEN [row EXCEPT ![On(r)].status = "ERROR"] ELSE row
  /\ TaskGoes(r, "failed")
  /\ UNCHANGED <<conf, share, rpc, remote, job>>

----------------------------------------------------------------------------
(* Tasks of the resource service, which run to their end whether or not the   *)
(* task that asked still waits. External.                                    *)

Deletes(r) == Step(r) \in {"unmount", "drop", "delete"}

\* Only a share that is whole is changed or copied.
CanServe(r) ==
  LET s == share[job[r].share].state
  IN IF Makes(r) THEN /\ s = "building"
                      /\ job[r].want.replica /\ Step(r) = "create" => share[job[r].source].state = "live"
     ELSE IF Deletes(r) THEN s # "gone" ELSE s = "live"

\* What becomes of the share.
Served(r) ==
  LET s == share[job[r].share]
      want == job[r].want
  IN CASE Makes(r) -> [s EXCEPT !.state = "live"]
       [] Deletes(r) -> [s EXCEPT !.state = "gone"]
       [] Op(r) = "resize" -> [s EXCEPT !.size = want.size]
       [] Op(r) = "compliance" -> [s EXCEPT !.compliance = want.compliance]
       [] Op(r) = "unlink" -> [s EXCEPT !.replica = FALSE]
       [] OTHER -> s

RemoteServes(r) ==
  /\ remote[r] = "running"
  /\ CanServe(r)
  /\ share' = [share EXCEPT ![job[r].share] = Served(r)]
  /\ RemoteGoes(r, "success")
  /\ UNCHANGED <<row, conf, rpc, tpc, job>>

RemoteFails(r) ==
  /\ remote[r] = "running"
  /\ May("remote") \/ ~CanServe(r)
  /\ share' = IF Makes(r) /\ share[job[r].share].state = "building"
              THEN [share EXCEPT ![job[r].share].state = "broken"] ELSE share
  /\ RemoteGoes(r, "failure")
  /\ UNCHANGED <<row, conf, rpc, tpc, job>>

----------------------------------------------------------------------------
Client(r) ==
  \E f \in FileSystems :
    \/ Create(r, f) \/ \E g \in FileSystems : CreateReplica(r, f, g)
    \/ CreateMountTarget(r, f) \/ DeleteMountTarget(r, f)
    \/ Resize(r, f) \/ Touch(r, f) \/ ManageGrant(r, f) \/ Manage(r, f)
    \/ UpdateCompliance(r, f) \/ ManageReplica(r, f)
    \/ DeleteShare(r, f) \/ Delete(r, f)

Serving(r) ==
  BeginUpdate(r) \/ BeginAction(r) \/ Dispatch(r) \/ DispatchFails(r) \/ WriteSize(r)

Working(r) ==
  \/ StepBegins(r) \/ AskShare(r) \/ AskChange(r) \/ AskFails(r) \/ RemoteAnswers(r)
  \/ WaitFails(r) \/ StepWrites(r) \/ StepEnds(r) \/ TaskFails(r)

Remote(r) == RemoteServes(r) \/ RemoteFails(r)

Next == \E r \in Requests : Client(r) \/ Serving(r) \/ Working(r) \/ Remote(r)

Spec == Init /\ [][Next]_vars

\* API threads, celery workers and the resource service go on; clients need not.
FairSpec ==
  Spec /\ \A r \in Requests : WF_vars(Serving(r)) /\ WF_vars(Working(r)) /\ WF_vars(Remote(r))

----------------------------------------------------------------------------
(* Properties.                                                             *)

\* Types of the variables.
TypeOK ==
  /\ row \in [FileSystems -> [state : RowStates, status : Statuses,
                              share : Shares \cup {NoShare}]]
  /\ conf \in [FileSystems -> Configs]
  /\ share \in [Shares -> [state : ShareStates, size : Sizes,
                          compliance : BOOLEAN, replica : BOOLEAN]]
  /\ rpc \in [Requests -> RequestStages]
  /\ tpc \in [Requests -> TaskStages]
  /\ remote \in [Requests -> RemoteStages]
  /\ job \in [Requests -> Jobs]

\* An operation on f that failed, or is failing.
FailedOn(f, ops) ==
  \E r \in Requests :
    /\ On(r) = f
    /\ Op(r) \in ops
    /\ rpc[r] = "failed" \/ tpc[r] \in {"failing", "failed"}

\* Nothing is going on about f.
Quiet(f) == \A r \in Requests : On(r) = f => ~Busy(r)

\* A share that exists is in the row of a file system, where it is found to be
\* deleted: whichever requests follow each other, and whichever fail.
NoOrphanShare ==
  \A s \in Shares : share[s].state = "live" => \E f \in FileSystems : Visible(f) /\ row[f].share = s

\* The file system was created as the replica of another.
MadeReplica(f) ==
  \E r \in Requests : On(r) = f /\ Op(r) = "create" /\ job[r].want.replica

\* The resource service is told to extend a share that is to grow, though the
\* request knows the size in the configuration only: unless a resize has failed,
\* or the file system is a replica that was unlinked, which got its share from
\* the share of its source and its configuration from the configuration.
DirectionFits ==
  \A r \in Requests :
    /\ remote[r] = "running" /\ Op(r) = "resize" /\ On(r) \notin Old
    /\ ~FailedOn(On(r), {"resize"})
    /\ ~MadeReplica(On(r))
    => (job[r].extend <=> job[r].want.size > share[job[r].share].size)

\* The configuration has the size of the share when nothing is going on. What
\* the comment of the last write of resize_filesystem says.
SizeAgrees ==
  \A f \in FileSystems :
    /\ Visible(f) /\ Quiet(f) /\ ~conf[f].replica
    /\ Known(f) /\ share[row[f].share].state = "live"
    => conf[f].size = share[row[f].share].size

\* The configuration has the compliance mode of the share, though two steps of
\* a task set them, unless one of those failed or the share was made anew.
ComplianceAgrees ==
  \A f \in FileSystems :
    /\ Visible(f) /\ Quiet(f)
    /\ Known(f) /\ share[row[f].share].state = "live"
    /\ ~FailedOn(f, {"compliance"})
    /\ \A r \in Requests : On(r) = f => Op(r) # "mount"
    => conf[f].compliance = share[row[f].share].compliance

\* No replica is resized, or made compliant, though the requests look for the
\* source in the configuration and another task takes it away.
ReplicaUntouched ==
  [][\A s \in Shares :
       share[s].state = "live" /\ share[s].replica /\ share'[s].replica
         => share'[s].size = share[s].size /\ share'[s].compliance = share[s].compliance]_vars

\* Whatever is asked for and whatever fails, a file system comes to a status in
\* which it may be updated or deleted.
SettlesAgain ==
  \A f \in FileSystems :
    Visible(f) /\ row[f].status \notin Settled
      ~> ~Visible(f) \/ row[f].status \in Settled
============================================================================
