------------------------- MODULE AccountCapability -------------------------
(* Capabilities of one account: each is a set of services the account needs, *)
(* and a celery task creates the missing ones, required services first.      *)
(*                                                                           *)
(* Clients ask to add or update a capability (ApiAccount.add_capability and  *)
(* update_capability); AccountCapabilityTask does the work. The request      *)
(* looks for a capability in BUILDING, the task that it queues writes it.    *)
EXTENDS FiniteSets, Naturals

CONSTANTS
  Services,      \* names of services
  Capabilities,
  Content,       \* Content[c]: services of capability c
  Requires,      \* Requires[s]: the service that s requires, or NoService
  NoService,
  Core,          \* services the task makes itself; it asks the API for the others
  AccountTypes,
  CapType,       \* CapType[c]: the account type c needs, or "blank"
  Requests,      \* client requests
  Patient,       \* clients wait for the task of a request before the next one
  Dropped,       \* capabilities that may be deleted meanwhile
  Faults         \* calls that may raise

FaultKinds == {"definition", "dispatch", "create", "build", "delete", "timeout"}

ASSUME ConstantsAssumption ==
  /\ IsFiniteSet(Services)
  /\ NoService \notin Services
  /\ Content \in [Capabilities -> SUBSET Services]
  /\ Requires \in [Services -> Services \cup {NoService}]
  /\ Core \subseteq Services
  /\ "blank" \notin AccountTypes
  /\ CapType \in [Capabilities -> AccountTypes \cup {"blank"}]
  /\ Patient \in BOOLEAN
  /\ Dropped \subseteq Capabilities
  /\ Faults \subseteq FaultKinds
  /\ Capabilities # {}

VARIABLES
  assoc,     \* assoc[c]: status of the capability in the account, "none" without one
  dropped,   \* capabilities soft deleted from the platform
  accType,   \* type of the account, write once
  granted,   \* services whose definition the account may instantiate
  srv,       \* srv[s]: the instance of service s: its status and who made it
  rpc,       \* rpc[r]: where the API thread of request r is
  tpc,       \* tpc[r]: where its celery task is
  job        \* job[r]: what they hold

vars == <<assoc, dropped, accType, granted, srv, rpc, tpc, job>>

AssocStatuses == {"none", "BUILDING", "ACTIVE", "ERROR_CREATION"}
ServiceStatuses == {"absent", "BUILDING", "ACTIVE", "ERROR"}
RequestStages == {"idle", "submit", "done", "failed"}
TaskStages == {"none", "queued", "mark", "definitions", "service", "replace",
               "require", "create", "wait", "end", "failing", "ended"}

\* Nobody: no request made the instance.
Nobody == "nobody"

\* level: the services of the current level; todo: the ones not looked at yet;
\* now: the service in hand; seen: who made the instance found; has: the
\* association was found; type: account type in the model the request loaded.
Jobs == [cap : Capabilities, op : {"add", "update"}, type : AccountTypes \cup {"blank"},
         has : BOOLEAN, level : SUBSET Services, todo : SUBSET Services,
         now : Services \cup {NoService}, seen : Requests \cup {Nobody}]

Job(c, op) ==
  [cap |-> c, op |-> op, type |-> accType, has |-> FALSE, level |-> {}, todo |-> {},
   now |-> NoService, seen |-> Nobody]

Init ==
  /\ assoc = [c \in Capabilities |-> "none"]
  /\ dropped = {}
  /\ accType = "blank"
  /\ granted = {}
  /\ srv = [s \in Services |-> [status |-> "absent", by |-> Nobody]]
  /\ rpc = [r \in Requests |-> "idle"]
  /\ tpc = [r \in Requests |-> "none"]
  /\ job = [r \in Requests |->
              [cap |-> CHOOSE c \in Capabilities : TRUE, op |-> "add", type |-> "blank",
               has |-> FALSE, level |-> {}, todo |-> {}, now |-> NoService,
               seen |-> Nobody]]

Cap(r) == job[r].cap
Now(r) == job[r].now
May(fault) == fault \in Faults
TaskAt(r, stage) == tpc[r] = stage
TaskGoes(r, stage) == tpc' = [tpc EXCEPT ![r] = stage]

----------------------------------------------------------------------------
(* __get_creation_order: the levels of the forest of requirements. A service *)
(* on a cycle, or that requires one, is on no level.                         *)

FirstLevel(c) == {s \in Content[c] : Requires[s] \notin Content[c]}
LevelAfter(c, level) == {s \in Content[c] : Requires[s] \in level}

----------------------------------------------------------------------------
(* Requests.                                                               *)

\* has_building_capability.
HasBuilding == \E c \in Capabilities : assoc[c] = "BUILDING"

TaskPending(r) == tpc[r] \notin {"none", "ended"}

MayAsk(r) ==
  /\ rpc[r] = "idle"
  /\ Patient => \A q \in Requests : rpc[q] # "submit" /\ ~TaskPending(q)
  /\ ~HasBuilding

\* check_valid_capability lets through a capability of the type of the account.
TypeFits(c) == accType = "blank" \/ CapType[c] \in {"blank", accType}

\* Bug: params of the account are not parsed, and it looks untyped.
BugAddCapability(r, c) ==
  /\ MayAsk(r)
  /\ assoc[c] = "none"
  /\ c \notin dropped
  /\ job' = [job EXCEPT ![r] = [Job(c, "add") EXCEPT !.type = "blank"]]
  /\ rpc' = [rpc EXCEPT ![r] = "submit"]
  /\ UNCHANGED <<assoc, dropped, accType, granted, srv, tpc>>

AddCapability(r, c) ==
  /\ MayAsk(r)
  /\ assoc[c] = "none"
  /\ c \notin dropped
  /\ TypeFits(c)
  /\ job' = [job EXCEPT ![r] = Job(c, "add")]
  /\ rpc' = [rpc EXCEPT ![r] = "submit"]
  /\ UNCHANGED <<assoc, dropped, accType, granted, srv, tpc>>

UpdateCapability(r, c) ==
  /\ MayAsk(r)
  /\ assoc[c] # "none"
  /\ job' = [job EXCEPT ![r] = Job(c, "update")]
  /\ rpc' = [rpc EXCEPT ![r] = "submit"]
  /\ UNCHANGED <<assoc, dropped, accType, granted, srv, tpc>>

\* add gives an account without type the type of the capability, by the model
\* it loaded; it may then refuse the capability's pods, or fail to queue the task.
Submit(r) ==
  /\ rpc[r] = "submit"
  /\ accType' = IF /\ job[r].op = "add"
                   /\ job[r].type = "blank"
                   /\ CapType[Cap(r)] # "blank"
                THEN CapType[Cap(r)] ELSE accType
  /\ \/ /\ rpc' = [rpc EXCEPT ![r] = "done"]
        /\ TaskGoes(r, "queued")
     \/ /\ May("dispatch")
        /\ rpc' = [rpc EXCEPT ![r] = "failed"]
        /\ UNCHANGED tpc
  /\ UNCHANGED <<assoc, dropped, granted, srv, job>>

\* delete_capability looks at no account.
DropCapability(c) ==
  /\ c \in Dropped \ dropped
  /\ dropped' = dropped \cup {c}
  /\ UNCHANGED <<assoc, accType, granted, srv, rpc, tpc, job>>

----------------------------------------------------------------------------
(* add_or_update_capability.                                               *)

\* get_account_and_capability, then set_capability_status looks for the association.
TaskLoads(r) ==
  /\ TaskAt(r, "queued")
  /\ IF Cap(r) \in dropped
     THEN TaskGoes(r, "failing") /\ UNCHANGED job
     ELSE /\ job' = [job EXCEPT ![r].has = (assoc[Cap(r)] # "none")]
          /\ TaskGoes(r, "mark")
  /\ UNCHANGED <<assoc, dropped, accType, granted, srv, rpc>>

\* BUILDING is written over the association found, or inserted with a new one;
\* a second row for the same account and capability violates a constraint.
TaskMarksBuilding(r) ==
  /\ TaskAt(r, "mark")
  /\ IF job[r].has \/ assoc[Cap(r)] = "none"
     THEN assoc' = [assoc EXCEPT ![Cap(r)] = "BUILDING"] /\ TaskGoes(r, "definitions")
     ELSE UNCHANGED assoc /\ TaskGoes(r, "failing")
  /\ UNCHANGED <<dropped, accType, granted, srv, rpc, job>>

\* add_definitions swallows every exception.
AddDefinitions(r) ==
  /\ TaskAt(r, "definitions")
  /\ \E D \in SUBSET Content[Cap(r)] :
       /\ May("definition") \/ D = Content[Cap(r)]
       /\ granted' = granted \cup D
  /\ job' = [job EXCEPT ![r].level = FirstLevel(Cap(r)), ![r].todo = FirstLevel(Cap(r))]
  /\ TaskGoes(r, "service")
  /\ UNCHANGED <<assoc, dropped, accType, srv, rpc>>

\* Bug: the status of an existing service is not looked at.
BugCheckServiceAnyStatus(r, s) ==
  /\ TaskAt(r, "service")
  /\ s \in job[r].todo
  /\ job' = [job EXCEPT ![r].todo = @ \ {s}, ![r].now = s, ![r].seen = srv[s].by]
  /\ TaskGoes(r, IF srv[s].status = "absent" THEN "require" ELSE "service")
  /\ UNCHANGED <<assoc, dropped, accType, granted, srv, rpc>>

\* An ACTIVE service is left alone, any other existing one is replaced.
CheckService(r, s) ==
  /\ TaskAt(r, "service")
  /\ s \in job[r].todo
  /\ job' = [job EXCEPT ![r].todo = @ \ {s}, ![r].now = s, ![r].seen = srv[s].by]
  /\ TaskGoes(r, CASE srv[s].status = "absent" -> "require"
                   [] srv[s].status = "ACTIVE" -> "service"
                   [] OTHER                    -> "replace")
  /\ UNCHANGED <<assoc, dropped, accType, granted, srv, rpc>>

NextLevel(r) ==
  LET next == LevelAfter(Cap(r), job[r].level) IN
  /\ TaskAt(r, "service")
  /\ job[r].todo = {}
  /\ job' = [job EXCEPT ![r].level = next, ![r].todo = next]
  /\ IF next = {} THEN TaskGoes(r, "end") ELSE UNCHANGED tpc
  /\ UNCHANGED <<assoc, dropped, accType, granted, srv, rpc>>

\* The instance the task found, or made, is still there.
Same(s, who) == srv[s].status # "absent" /\ srv[s].by = who

\* A forced delete of the instance found, whatever became of it since.
ReplaceService(r) ==
  LET s == Now(r) IN
  /\ TaskAt(r, "replace")
  /\ \/ /\ Same(s, job[r].seen)
        /\ srv' = [srv EXCEPT ![s].status = "absent"]
        /\ TaskGoes(r, "require")
     \/ /\ Same(s, job[r].seen)
        /\ May("delete")
        /\ srv' = [srv EXCEPT ![s].status = "ERROR"]
        /\ TaskGoes(r, "failing")
     \/ /\ ~Same(s, job[r].seen)
        /\ TaskGoes(r, "failing") \/ TaskGoes(r, "require")
        /\ UNCHANGED srv
  /\ UNCHANGED <<assoc, dropped, accType, granted, rpc, job>>

\* Bug: the required service only has to exist.
BugCheckRequirement(r) ==
  LET q == Requires[Now(r)] IN
  /\ TaskAt(r, "require")
  /\ TaskGoes(r, IF q = NoService THEN "create"
                 ELSE IF srv[q].status # "absent" THEN "create" ELSE "service")
  /\ UNCHANGED <<assoc, dropped, accType, granted, srv, rpc, job>>

\* Without its required service, or with one that is not ACTIVE, a service is
\* passed over and the task goes on.
CheckRequirement(r) ==
  LET q == Requires[Now(r)] IN
  /\ TaskAt(r, "require")
  /\ TaskGoes(r, IF q = NoService THEN "create"
                 ELSE IF srv[q].status = "ACTIVE" THEN "create" ELSE "service")
  /\ UNCHANGED <<assoc, dropped, accType, granted, srv, rpc, job>>

\* The account must have the definition, and no instance of that name.
CreateService(r) ==
  LET s == Now(r) IN
  /\ TaskAt(r, "create")
  /\ \/ /\ s \in granted
        /\ srv[s].status = "absent"
        /\ srv' = [srv EXCEPT ![s] = [status |-> "BUILDING", by |-> r]]
        /\ TaskGoes(r, "wait")
     \/ /\ s \notin granted \/ srv[s].status # "absent" \/ May("create")
        /\ TaskGoes(r, "failing")
        /\ UNCHANGED srv
  /\ UNCHANGED <<assoc, dropped, accType, granted, rpc, job>>

\* __wait_for_service polls a uuid: a deleted instance has no state and the
\* wait ends by its time limit. The task of a core service runs here, and does
\* not notice that the instance was deleted meanwhile.
WaitService(r) ==
  LET s == Now(r) IN
  /\ TaskAt(r, "wait")
  /\ \/ Same(s, r) /\ srv[s].status = "ACTIVE" /\ TaskGoes(r, "service")
     \/ Same(s, r) /\ srv[s].status = "ERROR" /\ TaskGoes(r, "failing")
     \/ s \notin Core /\ (~Same(s, r) \/ May("timeout")) /\ TaskGoes(r, "failing")
     \/ s \in Core /\ ~Same(s, r) /\ TaskGoes(r, "service")
  /\ UNCHANGED <<assoc, dropped, accType, granted, srv, rpc, job>>

\* The capability is read again, then set ACTIVE.
TaskActivates(r) ==
  /\ TaskAt(r, "end")
  /\ IF Cap(r) \in dropped
     THEN TaskGoes(r, "failing") /\ UNCHANGED assoc
     ELSE TaskGoes(r, "ended") /\ assoc' = [assoc EXCEPT ![Cap(r)] = "ACTIVE"]
  /\ UNCHANGED <<dropped, accType, granted, srv, rpc, job>>

\* Bug: failure() does not write the status.
BugTaskFailureSilent(r) ==
  /\ TaskAt(r, "failing")
  /\ TaskGoes(r, "ended")
  /\ UNCHANGED <<assoc, dropped, accType, granted, srv, rpc, job>>

\* Bug: failure() writes the status of an instance in error.
BugTaskFailureStatus(r) ==
  /\ TaskAt(r, "failing")
  /\ assoc' = IF Cap(r) \in dropped THEN assoc ELSE [assoc EXCEPT ![Cap(r)] = "ERROR"]
  /\ TaskGoes(r, "ended")
  /\ UNCHANGED <<dropped, accType, granted, srv, rpc, job>>

\* failure(): ERROR_CREATION, unless the capability is not found any more.
TaskFailure(r) ==
  /\ TaskAt(r, "failing")
  /\ assoc' = IF Cap(r) \in dropped THEN assoc
              ELSE [assoc EXCEPT ![Cap(r)] = "ERROR_CREATION"]
  /\ TaskGoes(r, "ended")
  /\ UNCHANGED <<dropped, accType, granted, srv, rpc, job>>

\* The life cycle of the instance brings it to ACTIVE or ERROR.
BuildService(s) ==
  /\ srv[s].status = "BUILDING"
  /\ \/ srv' = [srv EXCEPT ![s].status = "ACTIVE"]
     \/ May("build") /\ srv' = [srv EXCEPT ![s].status = "ERROR"]
  /\ UNCHANGED <<assoc, dropped, accType, granted, rpc, tpc, job>>

----------------------------------------------------------------------------
(* Specification.                                                          *)

Ask(r) == \E c \in Capabilities : AddCapability(r, c) \/ UpdateCapability(r, c)

TaskStep(r) ==
  \/ TaskLoads(r) \/ TaskMarksBuilding(r) \/ AddDefinitions(r)
  \/ \E s \in Services : CheckService(r, s)
  \/ NextLevel(r) \/ ReplaceService(r) \/ CheckRequirement(r)
  \/ CreateService(r) \/ WaitService(r) \/ TaskActivates(r) \/ TaskFailure(r)

Next ==
  \/ \E r \in Requests : Ask(r) \/ Submit(r) \/ TaskStep(r)
  \/ \E c \in Capabilities : DropCapability(c)
  \/ \E s \in Services : BuildService(s)

Spec == Init /\ [][Next]_vars

\* Workers run queued tasks to their end; every instance settles, which
\* ServiceInstance shows of its life cycle.
FairSpec ==
  /\ Spec
  /\ \A r \in Requests : WF_vars(TaskStep(r))
  /\ \A s \in Services : WF_vars(BuildService(s))

----------------------------------------------------------------------------
(* Properties.                                                             *)

\* Every variable holds values of its kind.
TypeOK ==
  /\ assoc \in [Capabilities -> AssocStatuses]
  /\ dropped \subseteq Capabilities
  /\ accType \in AccountTypes \cup {"blank"}
  /\ granted \subseteq Services
  /\ srv \in [Services -> [status : ServiceStatuses, by : Requests \cup {Nobody}]]
  /\ rpc \in [Requests -> RequestStages]
  /\ tpc \in [Requests -> TaskStages]
  /\ job \in [Requests -> Jobs]

\* The task of r has marked its capability and has still to settle it.
Building(r) == tpc[r] \notin {"none", "queued", "mark", "ended"}

\* A capability in BUILDING, which makes has_building_capability refuse every
\* other one, has a task that will settle it, unless the capability was deleted.
BuildingOwned ==
  \A c \in Capabilities :
    assoc[c] = "BUILDING" => c \in dropped \/ \E r \in Requests : Cap(r) = c /\ Building(r)

\* It is settled in the end: the account is not blocked for ever.
BuildingEnds ==
  \A c \in Capabilities :
    assoc[c] = "BUILDING" ~> assoc[c] # "BUILDING" \/ c \in dropped

\* Services of c the levels reach, whose requirements are in c.
Reached(c) ==
  LET Up[n \in 0 .. Cardinality(Services)] ==
        IF n = 0 THEN {s \in Content[c] : Requires[s] = NoService}
        ELSE Up[n - 1] \cup LevelAfter(c, Up[n - 1])
  IN Up[Cardinality(Services)]

\* When clients are patient, an ACTIVE capability has each of its services
\* ACTIVE whose requirements it brings itself (add_service creates what is
\* missing and replaces what is not ACTIVE, required services first).
ActiveMeansServices ==
  \A c \in Capabilities :
    /\ assoc[c] = "ACTIVE"
    /\ ~\E r \in Requests : Cap(r) = c /\ TaskPending(r)
    => \A s \in Reached(c) : srv[s].status = "ACTIVE"

\* When clients are patient, no service exists without an ACTIVE required one.
ServiceHasRequirement ==
  \A s \in Services :
    srv[s].status # "absent" /\ Requires[s] # NoService
    => srv[Requires[s]].status = "ACTIVE"

\* "All the operations are idempotent so that capabilities that partially
\* overlaps can be added to the same account without errors"
\* (account_capability.py:389): without faults no capability ends in error.
OverlapWithoutErrors == \A c \in Capabilities : assoc[c] # "ERROR_CREATION"

\* When clients are patient the type of an account is written once
\* ("account_type already set", api_account.py:945).
AccountTypeWriteOnce == [][accType # "blank" => accType' = accType]_vars
============================================================================
