--------------------------- MODULE AccountDelete ---------------------------
(* Deletion of an account: its services, children before parents, its tags,  *)
(* and then its row; while clients create and delete services in it.         *)
(*                                                                           *)
(* The request (ApiAccount.delete) checks what the account holds. With       *)
(* nothing to delete first it deletes the account itself; else it queues     *)
(* AccountDeleteTask, whose steps load and index everything anew. No status  *)
(* says meanwhile that the account is being deleted.                         *)
EXTENDS FiniteSets, Naturals

CONSTANTS
  Services,    \* services that clients may create, once each
  Parent,      \* Parent[s]: the service s is linked under, or NoService
  NoService,
  Name,        \* Name[s]: the name s is created with
  Guarded,     \* services of the types a client has to delete before
  Tags,
  Requests,    \* requests to delete the account
  Quiet,       \* clients create nothing in an account they are deleting
  Faults       \* calls that may raise, and late writes

FaultKinds == {"link", "build", "late", "dispatch", "resource", "tag", "role"}

ASSUME ConstantsAssumption ==
  /\ IsFiniteSet(Services)
  /\ NoService \notin Services
  /\ Parent \in [Services -> Services \cup {NoService}]
  /\ DOMAIN Name = Services
  /\ Guarded \subseteq Services
  /\ Quiet \in BOOLEAN
  /\ Faults \subseteq FaultKinds

VARIABLES
  acct,   \* the row of the account: whether it is expired, its status
  svc,    \* svc[s]: the row of service s, its status, its link to the parent
  tags,   \* tags of the account
  cpc,    \* cpc[s]: where the creation of s is
  rpc,    \* rpc[r]: where the API thread of request r is
  tpc,    \* tpc[r]: where its celery task is
  job     \* job[r]: what they hold

vars == <<acct, svc, tags, cpc, rpc, tpc, job>>

Options == {"services", "tags", "close"}
Statuses == {"DRAFT", "BUILDING", "ACTIVE", "ERROR", "DELETING", "DELETED"}
Rows == [state : {"absent", "live", "deleted"}, status : Statuses, linked : BOOLEAN]
NoRow == [state |-> "absent", status |-> "DRAFT", linked |-> FALSE]

\* left: services indexed and not yet deleted; under[s]: parent of s in the
\* index; seen[s]: status of s in it; now: service being deleted; tags: tags listed.
Jobs == [opts : SUBSET Options, left : SUBSET Services,
         under : [Services -> Services \cup {NoService}], seen : [Services -> Statuses],
         now : Services \cup {NoService}, tags : SUBSET Tags]

Job(opts) ==
  [opts |-> opts, left |-> {}, under |-> [s \in Services |-> NoService],
   seen |-> [s \in Services |-> "DRAFT"], now |-> NoService, tags |-> {}]

Init ==
  /\ acct = [visible |-> TRUE, status |-> "ACTIVE"]
  /\ svc = [s \in Services |-> NoRow]
  /\ tags = {}
  /\ cpc = [s \in Services |-> "none"]
  /\ rpc = [r \in Requests |-> "idle"]
  /\ tpc = [r \in Requests |-> "none"]
  /\ job = [r \in Requests |-> Job({})]

May(fault) == fault \in Faults
Live(s) == svc[s].state = "live"
AnyLive == \E s \in Services : Live(s)
\* An account in UPDATING is active too; this model has no customization.
IsActive == acct.visible /\ acct.status = "ACTIVE"

\* Bug: an instance in ERROR cannot be deleted.
BugDeletable == {"ACTIVE"}

Deletable == {"ACTIVE", "ERROR"}

TaskGoes(r, stage) == tpc' = [tpc EXCEPT ![r] = stage]
TaskEnds(r, stage) == TaskGoes(r, stage) /\ job' = [job EXCEPT ![r] = Job({})]
RequestGoes(r, stage) == rpc' = [rpc EXCEPT ![r] = stage]
SetService(s, row) == svc' = [svc EXCEPT ![s] = row]

Deleting ==
  \E r \in Requests : rpc[r] \in {"checked", "sync", "sync_close", "sync_status"}
                      \/ tpc[r] \notin {"none", "ended", "failed"}
Creating == \E s \in Services : cpc[s] \in {"checked", "row"}

----------------------------------------------------------------------------
(* Clients create, build and delete services, and add tags.                *)

\* Bug: can_instantiate is not asked.
BugAddCheck(s) ==
  /\ cpc[s] = "none"
  /\ Quiet => ~Deleting
  /\ Parent[s] # NoService => Live(Parent[s])
  /\ ~\E t \in Services : Live(t) /\ Name[t] = Name[s]
  /\ cpc' = [cpc EXCEPT ![s] = "checked"]
  /\ UNCHANGED <<acct, svc, tags, rpc, tpc, job>>

\* can_instantiate, and the name check of add_service_instance.
AddCheck(s) ==
  /\ cpc[s] = "none"
  /\ Quiet => ~Deleting
  /\ IsActive
  /\ Parent[s] # NoService => Live(Parent[s])
  /\ ~\E t \in Services : Live(t) /\ Name[t] = Name[s]
  /\ cpc' = [cpc EXCEPT ![s] = "checked"]
  /\ UNCHANGED <<acct, svc, tags, rpc, tpc, job>>

AddInsert(s) ==
  /\ cpc[s] = "checked"
  /\ SetService(s, [NoRow EXCEPT !.state = "live"])
  /\ cpc' = [cpc EXCEPT ![s] = "row"]
  /\ UNCHANGED <<acct, tags, rpc, tpc, job>>

\* The link to the parent is a row of its own; then the creation is queued.
AddLink(s) ==
  /\ cpc[s] = "row"
  /\ \/ svc' = [svc EXCEPT ![s].status = "BUILDING", ![s].linked = (Parent[s] # NoService)]
     \/ May("link") /\ svc' = [svc EXCEPT ![s].status = "ERROR"]
  /\ cpc' = [cpc EXCEPT ![s] = "done"]
  /\ UNCHANGED <<acct, tags, rpc, tpc, job>>

Build(s) ==
  /\ Live(s) /\ svc[s].status = "BUILDING"
  /\ \/ svc' = [svc EXCEPT ![s].status = "ACTIVE"]
     \/ May("build") /\ svc' = [svc EXCEPT ![s].status = "ERROR"]
  /\ UNCHANGED <<acct, tags, cpc, rpc, tpc, job>>

\* Bug: the row is removed, as expunge does.
BugGone(s) == [svc EXCEPT ![s].state = "purged", ![s].status = "DELETED"]

Gone(s) == [svc EXCEPT ![s].state = "deleted", ![s].status = "DELETED"]

\* The delete of a plugin looks at no child of the instance.
DeleteByClient(s) ==
  /\ Live(s) /\ svc[s].status \in Deletable
  /\ svc' = Gone(s)
  /\ UNCHANGED <<acct, tags, cpc, rpc, tpc, job>>

\* A task of a deleted instance writes its status (see ServiceInstance).
LateWrite(s) ==
  /\ May("late")
  /\ svc[s].state = "deleted" /\ svc[s].status = "DELETED"
  /\ svc' = [svc EXCEPT ![s].status = "ERROR"]
  /\ UNCHANGED <<acct, tags, cpc, rpc, tpc, job>>

AddTag(t) ==
  /\ t \notin tags /\ acct.visible
  /\ Quiet => ~Deleting
  /\ tags' = tags \cup {t}
  /\ UNCHANGED <<acct, svc, cpc, rpc, tpc, job>>

----------------------------------------------------------------------------
(* ApiAccount.delete.                                                      *)

CheckDelete(r, opts) ==
  /\ rpc[r] = "idle"
  /\ Quiet => ~Creating
  /\ acct.visible
  /\ "close" \in opts => IsActive
  /\ ~\E s \in Guarded : Live(s)
  /\ "services" \in opts \/ ~AnyLive
  /\ "tags" \in opts \/ tags = {}
  /\ job' = [job EXCEPT ![r] = Job(opts)]
  /\ RequestGoes(r, "checked")
  /\ UNCHANGED <<acct, svc, tags, cpc, tpc>>

\* With services or tags to delete first a task does it all.
Submit(r) ==
  LET o == job[r].opts IN
  /\ rpc[r] = "checked"
  /\ IF o \cap {"services", "tags"} = {}
     THEN RequestGoes(r, "sync") /\ UNCHANGED tpc
     ELSE \/ /\ RequestGoes(r, "done")
             /\ TaskGoes(r, IF "services" \in o THEN "services" ELSE "tags")
          \/ May("dispatch") /\ RequestGoes(r, "failed") /\ UNCHANGED tpc
  /\ UNCHANGED <<acct, svc, tags, cpc, job>>

\* Closing here deletes the row first.
SyncDelete(r) ==
  /\ rpc[r] = "sync"
  /\ acct' = [acct EXCEPT !.visible = FALSE]
  /\ RequestGoes(r, IF "close" \in job[r].opts THEN "sync_close" ELSE "sync_status")
  /\ UNCHANGED <<svc, tags, cpc, tpc, job>>

\* A closed account expires after EXPIRE_DAYS.
Closed == [visible |-> TRUE, status |-> "CLOSED"]

\* Expiring the roles of the account, after the status is written, may raise.
SyncClose(r) ==
  /\ rpc[r] = "sync_close"
  /\ acct' = Closed
  /\ RequestGoes(r, "done") \/ (May("role") /\ RequestGoes(r, "failed"))
  /\ UNCHANGED <<svc, tags, cpc, tpc, job>>

SyncStatus(r) ==
  /\ rpc[r] = "sync_status"
  /\ acct' = [acct EXCEPT !.status = "DELETED"]
  /\ RequestGoes(r, "done")
  /\ UNCHANGED <<svc, tags, cpc, tpc, job>>

\* The client asks again when the task failed.
AskAgain(r) ==
  /\ rpc[r] = "failed" \/ tpc[r] = "failed"
  /\ RequestGoes(r, "idle")
  /\ TaskGoes(r, "none")
  /\ UNCHANGED <<acct, svc, tags, cpc, job>>

----------------------------------------------------------------------------
(* AccountDeleteTask.                                                      *)

\* get_parent: the linked instance, expired or not, unless it is DELETED.
ParentOf(s) ==
  IF svc[s].linked /\ svc[Parent[s]].status # "DELETED" THEN Parent[s] ELSE NoService

\* Bug: an instance without children is not indexed as a core service.
BugInTrees == {s \in Services : Live(s) /\ ParentOf(s) = NoService
                                /\ \E t \in Services : Live(t) /\ ParentOf(t) = s}

\* The instances below the ones without parent: under a parent that is not
\* listed an instance is in no tree.
InTrees ==
  LET Down[n \in 0..Cardinality(Services)] ==
        IF n = 0 THEN {s \in Services : Live(s) /\ ParentOf(s) = NoService}
        ELSE Down[n - 1] \cup {s \in Services : Live(s) /\ ParentOf(s) \in Down[n - 1]}
  IN {s \in Services : s \in Down[Cardinality(Services)]}

\* get_account; it is not known here whether it finds an expired account.
AccountLost(r) ==
  /\ tpc[r] \in {"services", "tags", "account"}
  /\ ~acct.visible
  /\ TaskEnds(r, "failed")
  /\ UNCHANGED <<acct, svc, tags, cpc, rpc>>

\* get_service_index.
IndexServices(r) ==
  /\ tpc[r] = "services"
  /\ job' = [job EXCEPT
       ![r].left = InTrees,
       ![r].under = [s \in Services |-> IF s \in InTrees THEN ParentOf(s) ELSE NoService],
       ![r].seen = [s \in Services |-> IF s \in InTrees THEN svc[s].status ELSE "DRAFT"]]
  /\ TaskGoes(r, "deleting")
  /\ UNCHANGED <<acct, svc, tags, cpc, rpc>>

\* Bug: an instance is deleted before its children.
BugNext(r, s) == s \in job[r].left /\ job[r].under[s] \notin job[r].left

\* loop_childs deletes the children of the index before their parent.
NextToDelete(r, s) ==
  s \in job[r].left /\ \A t \in job[r].left : job[r].under[t] # s

\* plugin.delete, not forced; the model of the index may be the old one still.
DeleteService(r, s) ==
  /\ tpc[r] = "deleting"
  /\ NextToDelete(r, s)
  /\ \E status \in {job[r].seen[s], svc[s].status} :
       IF status \in Deletable
       THEN /\ svc' = [svc EXCEPT ![s].status = "DELETING"]
            /\ job' = [job EXCEPT ![r].now = s]
            /\ TaskGoes(r, "removing")
       ELSE TaskEnds(r, "failed") /\ UNCHANGED svc
  /\ UNCHANGED <<acct, tags, cpc, rpc>>

\* The delete task of the service runs here, to the deleted row or an error.
RemoveService(r) ==
  LET s == job[r].now IN
  /\ tpc[r] = "removing"
  /\ \/ /\ Live(s)
        /\ svc' = Gone(s)
        /\ job' = [job EXCEPT ![r].left = @ \ {s}]
        /\ TaskGoes(r, "deleting")
     \/ /\ ~Live(s) \/ May("resource")
        /\ svc' = [svc EXCEPT ![s].status = "ERROR"]
        /\ TaskEnds(r, "failed")
  /\ UNCHANGED <<acct, tags, cpc, rpc>>

ServicesDone(r) ==
  /\ tpc[r] = "deleting"
  /\ job[r].left = {}
  /\ job' = [job EXCEPT ![r] = Job(@.opts)]
  /\ TaskGoes(r, IF "tags" \in job[r].opts THEN "tags" ELSE "account")
  /\ UNCHANGED <<acct, svc, tags, cpc, rpc>>

\* Bug: the filter on the tags' object id misses the ones of the account.
BugListTags(r) ==
  /\ tpc[r] = "tags"
  /\ TaskGoes(r, "untagging")
  /\ UNCHANGED <<acct, svc, tags, cpc, rpc, job>>

ListTags(r) ==
  /\ tpc[r] = "tags"
  /\ job' = [job EXCEPT ![r].tags = tags]
  /\ TaskGoes(r, "untagging")
  /\ UNCHANGED <<acct, svc, tags, cpc, rpc>>

DeleteTag(r, t) ==
  /\ tpc[r] = "untagging"
  /\ t \in job[r].tags
  /\ \/ /\ t \in tags
        /\ tags' = tags \ {t}
        /\ job' = [job EXCEPT ![r].tags = @ \ {t}]
        /\ UNCHANGED tpc
     \/ /\ t \notin tags \/ May("tag")
        /\ TaskEnds(r, "failed")
        /\ UNCHANGED tags
  /\ UNCHANGED <<acct, svc, cpc, rpc>>

TagsDone(r) ==
  /\ tpc[r] = "untagging"
  /\ job[r].tags = {}
  /\ TaskGoes(r, "account")
  /\ UNCHANGED <<acct, svc, tags, cpc, rpc, job>>

\* delete_account_step closes the account, or deletes its row and then writes
\* the status.
CloseAccount(r) ==
  /\ tpc[r] = "account" /\ "close" \in job[r].opts
  /\ acct' = Closed
  /\ TaskEnds(r, "ended") \/ (May("role") /\ TaskEnds(r, "failed"))
  /\ UNCHANGED <<svc, tags, cpc, rpc>>

DeleteAccount(r) ==
  /\ tpc[r] = "account" /\ "close" \notin job[r].opts
  /\ acct' = [acct EXCEPT !.visible = FALSE]
  /\ TaskGoes(r, "status")
  /\ UNCHANGED <<svc, tags, cpc, rpc, job>>

MarkDeleted(r) ==
  /\ tpc[r] = "status"
  /\ acct' = [acct EXCEPT !.status = "DELETED"]
  /\ TaskEnds(r, "ended")
  /\ UNCHANGED <<svc, tags, cpc, rpc>>

----------------------------------------------------------------------------
(* Specification.                                                          *)

Create(s) == AddCheck(s) \/ AddInsert(s) \/ AddLink(s)

Ask(r) == \E opts \in SUBSET Options : CheckDelete(r, opts)

RequestStep(r) == Submit(r) \/ SyncDelete(r) \/ SyncClose(r) \/ SyncStatus(r)

TaskStep(r) ==
  \/ AccountLost(r) \/ IndexServices(r)
  \/ \E s \in Services : DeleteService(r, s)
  \/ RemoveService(r) \/ ServicesDone(r) \/ ListTags(r)
  \/ \E t \in Tags : DeleteTag(r, t)
  \/ TagsDone(r) \/ CloseAccount(r) \/ DeleteAccount(r) \/ MarkDeleted(r)

Next ==
  \/ \E s \in Services : Create(s) \/ Build(s) \/ DeleteByClient(s) \/ LateWrite(s)
  \/ \E t \in Tags : AddTag(t)
  \/ \E r \in Requests : Ask(r) \/ AskAgain(r) \/ RequestStep(r) \/ TaskStep(r)

Spec == Init /\ [][Next]_vars

\* Handlers and tasks run to their end, creations too; the client asks again.
FairSpec ==
  /\ Spec
  /\ \A s \in Services : WF_vars(AddInsert(s) \/ AddLink(s)) /\ WF_vars(Build(s))
  /\ \A r \in Requests :
       /\ WF_vars(RequestStep(r)) /\ WF_vars(TaskStep(r))
       /\ SF_vars(AskAgain(r) \/ CheckDelete(r, {"services", "tags"}))

----------------------------------------------------------------------------
(* Properties.                                                             *)

\* Every variable holds values of its kind.
TypeOK ==
  /\ acct \in [visible : BOOLEAN, status : {"ACTIVE", "CLOSED", "DELETED"}]
  /\ svc \in [Services -> Rows]
  /\ tags \subseteq Tags
  /\ cpc \in [Services -> {"none", "checked", "row", "done"}]
  /\ rpc \in [Requests -> {"idle", "checked", "sync", "sync_close", "sync_status",
                           "done", "failed"}]
  /\ tpc \in [Requests -> {"none", "services", "deleting", "removing", "tags",
                           "untagging", "account", "status", "ended", "failed"}]
  /\ job \in [Requests -> Jobs]

\* "if True delete all child services before remove the account"
\* (api_account.py:967), and without it services have to be removed before: an
\* account that is deleted or closed has no service.
NothingOutlives == ~IsActive => ~AnyLive

\* A deleted account has no tag.
NoTagOutlives == ~acct.visible => tags = {}

\* The task of an account deletes no service with a live child in a tree of its.
ChildrenFirst ==
  [][\A r \in Requests, s \in Services :
       RemoveService(r) /\ job[r].now = s /\ Live(s)
       => ~\E t \in Services : Live(t)' /\ svc[t].linked /\ Parent[t] = s]_vars

\* "Account not in ACTIVE state" (api_account.py:1183): such an account takes no
\* new service.
InactiveTakesNoService ==
  [][~IsActive => \A s \in Services : Live(s)' => Live(s)]_vars

\* A deletion of everything that is asked again until it works succeeds.
DeleteSucceeds ==
  \A r \in Requests :
    rpc[r] = "checked" /\ job[r].opts = {"services", "tags"} ~> ~IsActive
============================================================================
