--------------------- MODULE AccountCapability_proofs ---------------------
(* Theorems about AccountCapability for every set of services, capabilities  *)
(* and requests, patient or not, with any faults.                            *)
EXTENDS AccountCapability, WellFoundedInduction, FiniteSetTheorems, TLAPS

----------------------------------------------------------------------------
(* Type correctness.                                                       *)

\* A request starts with a job, whatever it asks for.
LEMMA JobType ==
  ASSUME TypeOK, NEW c \in Capabilities, NEW op \in {"add", "update"}
  PROVE  Job(c, op) \in Jobs
BY DEF TypeOK, Job, Jobs

\* The levels of the creation order are sets of services.
LEMMA LevelType ==
  ASSUME NEW c \in Capabilities, NEW level
  PROVE  FirstLevel(c) \subseteq Services /\ LevelAfter(c, level) \subseteq Services
BY ConstantsAssumption DEF ConstantsAssumption, FirstLevel, LevelAfter

\* The task in hand of a request works on a capability and knows who made what.
LEMMA TaskTypes ==
  ASSUME TypeOK, NEW r \in Requests
  PROVE  /\ Cap(r) \in Capabilities
         /\ Now(r) \in Services \cup {NoService}
         /\ job[r] \in Jobs
BY DEF TypeOK, Jobs, Cap, Now

\* What a task writes to its own job, piece by piece, keeps the type of jobs.
LEMMA JobWrites ==
  ASSUME TypeOK, NEW r \in Requests
  PROVE  /\ \A b \in BOOLEAN : [job EXCEPT ![r].has = b] \in [Requests -> Jobs]
         /\ \A L, D \in SUBSET Services :
              [job EXCEPT ![r].level = L, ![r].todo = D] \in [Requests -> Jobs]
         /\ \A s \in Services :
              [job EXCEPT ![r].todo = @ \ {s}, ![r].now = s, ![r].seen = srv[s].by]
                \in [Requests -> Jobs]
<1>1. job \in [Requests -> Jobs] /\ job[r] \in Jobs
  BY DEF TypeOK
<1>2. \A b \in BOOLEAN : [job EXCEPT ![r].has = b] \in [Requests -> Jobs]
  BY <1>1 DEF Jobs
<1>3. \A L, D \in SUBSET Services :
        [job EXCEPT ![r].level = L, ![r].todo = D] \in [Requests -> Jobs]
  BY <1>1 DEF Jobs
<1>4. ASSUME NEW s \in Services
      PROVE  [job EXCEPT ![r].todo = @ \ {s}, ![r].now = s, ![r].seen = srv[s].by]
               \in [Requests -> Jobs]
  <2>1. srv[s].by \in Requests \cup {Nobody}
    BY DEF TypeOK
  <2>2. job[r].todo \ {s} \in SUBSET Services
    BY <1>1 DEF Jobs
  <2> QED
    BY <1>1, <2>1, <2>2 DEF Jobs
<1> QED
  BY <1>2, <1>3, <1>4

\* The steps of clients keep the type invariant.
LEMMA ClientType ==
  ASSUME TypeOK, NEW r \in Requests, Ask(r) \/ Submit(r)
  PROVE  TypeOK'
<1>1. CASE Ask(r)
  <2>1. PICK c \in Capabilities : AddCapability(r, c) \/ UpdateCapability(r, c)
    BY <1>1 DEF Ask
  <2>2. job' \in [Requests -> Jobs]
    BY <2>1, JobType DEF AddCapability, UpdateCapability, TypeOK
  <2> QED
    BY <2>1, <2>2 DEF AddCapability, UpdateCapability, TypeOK, RequestStages
<1>2. CASE Submit(r)
  <2>1. accType' \in AccountTypes \cup {"blank"}
    BY <1>2, TaskTypes, ConstantsAssumption DEF ConstantsAssumption, Submit, TypeOK
  <2> QED
    BY <1>2, <2>1 DEF Submit, TypeOK, RequestStages, TaskStages, TaskGoes
<1> QED
  BY <1>1, <1>2

\* So do the steps of tasks.
LEMMA TaskType ==
  ASSUME TypeOK, NEW r \in Requests, TaskStep(r)
  PROVE  TypeOK'
<1>a. Cap(r) \in Capabilities
  BY TaskTypes
<1>1. CASE TaskLoads(r)
  <2>1. CASE Cap(r) \in dropped
    BY <1>1, <2>1 DEF TaskLoads, TypeOK, TaskGoes, TaskStages
  <2>2. CASE Cap(r) \notin dropped
    <3>1. (assoc[Cap(r)] # "none") \in BOOLEAN
      OBVIOUS
    <3>2. [job EXCEPT ![r].has = (assoc[Cap(r)] # "none")] \in [Requests -> Jobs]
      BY <3>1, JobWrites
    <3> QED
      BY <1>1, <2>2, <3>2 DEF TaskLoads, TypeOK, TaskGoes, TaskStages
  <2> QED
    BY <2>1, <2>2
<1>2. CASE TaskMarksBuilding(r)
  BY <1>a, <1>2 DEF TaskMarksBuilding, TypeOK, AssocStatuses, TaskGoes, TaskStages
<1>3. CASE AddDefinitions(r)
  <2>1. job' \in [Requests -> Jobs]
    BY <1>a, <1>3, JobWrites, LevelType DEF AddDefinitions
  <2>2. granted' \subseteq Services
    BY <1>a, <1>3, ConstantsAssumption DEF ConstantsAssumption, AddDefinitions, TypeOK
  <2> QED
    BY <1>3, <2>1, <2>2 DEF AddDefinitions, TypeOK, TaskGoes, TaskStages
<1>4. ASSUME NEW s \in Services, CheckService(r, s)
      PROVE  TypeOK'
  <2>1. job' \in [Requests -> Jobs]
    BY <1>4, JobWrites DEF CheckService
  <2>2. tpc' \in [Requests -> TaskStages]
    <3>1. tpc' = [tpc EXCEPT ![r] = "require"] \/ tpc' = [tpc EXCEPT ![r] = "service"]
          \/ tpc' = [tpc EXCEPT ![r] = "replace"]
      BY <1>4 DEF CheckService, TaskGoes
    <3> QED
      BY <3>1 DEF TypeOK, TaskStages
  <2> QED
    BY <1>4, <2>1, <2>2 DEF CheckService, TypeOK
<1>5. CASE NextLevel(r)
  <2>1. job' \in [Requests -> Jobs]
    BY <1>a, <1>5, JobWrites, LevelType DEF NextLevel
  <2> QED
    BY <1>5, <2>1 DEF NextLevel, TypeOK, TaskGoes, TaskStages
<1>6. CASE ReplaceService(r)
  <2>1. srv' \in [Services -> [status : ServiceStatuses, by : Requests \cup {Nobody}]]
    BY <1>6 DEF ReplaceService, TypeOK, ServiceStatuses
  <2> QED
    BY <1>6, <2>1 DEF ReplaceService, TypeOK, TaskGoes, TaskStages
<1>7. CASE CheckRequirement(r)
  <2>1. tpc' = [tpc EXCEPT ![r] = "create"] \/ tpc' = [tpc EXCEPT ![r] = "service"]
    BY <1>7 DEF CheckRequirement, TaskGoes
  <2> QED
    BY <1>7, <2>1 DEF CheckRequirement, TypeOK, TaskStages
<1>8. CASE CreateService(r)
  <2>1. srv' \in [Services -> [status : ServiceStatuses, by : Requests \cup {Nobody}]]
    BY <1>8 DEF CreateService, TypeOK, ServiceStatuses
  <2> QED
    BY <1>8, <2>1 DEF CreateService, TypeOK, TaskGoes, TaskStages
<1>9. CASE WaitService(r)
  BY <1>9 DEF WaitService, TypeOK, TaskGoes, TaskStages
<1>10. CASE TaskActivates(r)
  BY <1>a, <1>10 DEF TaskActivates, TypeOK, AssocStatuses, TaskGoes, TaskStages
<1>11. CASE TaskFailure(r)
  BY <1>a, <1>11 DEF TaskFailure, TypeOK, AssocStatuses, TaskGoes, TaskStages
<1> QED
  BY <1>1, <1>2, <1>3, <1>4, <1>5, <1>6, <1>7, <1>8, <1>9, <1>10, <1>11 DEF TaskStep

\* The type invariant holds at the start and is kept by every step.
LEMMA TypeInductive ==
  /\ Init => TypeOK
  /\ TypeOK /\ [Next]_vars => TypeOK'
<1>1. ASSUME Init PROVE TypeOK
  <2>1. (CHOOSE c \in Capabilities : TRUE) \in Capabilities
    BY ConstantsAssumption DEF ConstantsAssumption
  <2> QED
    BY <1>1, <2>1 DEF Init, TypeOK, Jobs, AssocStatuses, ServiceStatuses, RequestStages,
                      TaskStages
<1>2. ASSUME TypeOK, [Next]_vars PROVE TypeOK'
  <2>1. CASE UNCHANGED vars
    BY <1>2, <2>1 DEF vars, TypeOK
  <2>2. ASSUME NEW c \in Capabilities, DropCapability(c) PROVE TypeOK'
    BY <1>2, <2>2 DEF DropCapability, TypeOK
  <2>3. ASSUME NEW s \in Services, BuildService(s) PROVE TypeOK'
    BY <1>2, <2>3 DEF BuildService, TypeOK, ServiceStatuses
  <2> QED
    BY <1>2, <2>1, <2>2, <2>3, ClientType, TaskType DEF Next
<1> QED
  BY <1>1, <1>2

\* AccountCapability is type correct: in particular a task never works on a
\* service its account does not know, whatever the levels of its creation order.
THEOREM TypeCorrect == Spec => []TypeOK
BY TypeInductive, PTL DEF Spec

----------------------------------------------------------------------------
(* A capability in BUILDING has a task that settles it.                    *)

\* A task exists only of a request that was sent.
TasksOfRequests == \A r \in Requests : tpc[r] # "none" => rpc[r] = "done"

Inv == TypeOK /\ TasksOfRequests /\ BuildingOwned

\* A request that does not stop working on its capability keeps it owned.
LEMMA OthersKeepOwned ==
  ASSUME Inv, NEW r \in Requests, Building(r) => Building(r)' /\ Cap(r)' = Cap(r),
         \A q \in Requests \ {r} : tpc'[q] = tpc[q] /\ job'[q] = job[q],
         \A c \in Capabilities : assoc'[c] = "BUILDING" => assoc[c] = "BUILDING",
         dropped' = dropped
  PROVE  BuildingOwned'
<1>1. ASSUME NEW c \in Capabilities, assoc'[c] = "BUILDING"
      PROVE  c \in dropped \/ \E q \in Requests : (Cap(q) = c /\ Building(q))'
  <2>1. c \in dropped \/ \E q \in Requests : Cap(q) = c /\ Building(q)
    BY <1>1 DEF Inv, BuildingOwned
  <2>2. ASSUME NEW q \in Requests, Cap(q) = c, Building(q)
        PROVE  (Cap(q) = c /\ Building(q))'
    BY <2>2 DEF Cap, Building
  <2> QED
    BY <2>1, <2>2
<1> QED
  BY <1>1 DEF BuildingOwned

\* Steps of clients.
LEMMA ClientOwned ==
  ASSUME Inv, NEW r \in Requests, Ask(r) \/ Submit(r)
  PROVE  TasksOfRequests' /\ BuildingOwned'
<1>1. tpc \in [Requests -> TaskStages] /\ rpc \in [Requests -> RequestStages]
      /\ job \in [Requests -> Jobs]
  BY DEF Inv, TypeOK
<1>2. CASE Ask(r)
  <2>1. /\ rpc[r] = "idle" /\ tpc' = tpc /\ assoc' = assoc /\ dropped' = dropped
        /\ rpc' = [rpc EXCEPT ![r] = "submit"]
        /\ \A q \in Requests \ {r} : job'[q] = job[q]
    BY <1>1, <1>2 DEF Ask, AddCapability, UpdateCapability, MayAsk
  <2>2. tpc[r] = "none"
    BY <2>1 DEF Inv, TasksOfRequests
  <2>3. TasksOfRequests'
    BY <1>1, <2>1, <2>2 DEF Inv, TasksOfRequests
  <2>4. ~Building(r)
    BY <2>2 DEF Building
  <2> QED
    BY <2>1, <2>3, <2>4, OthersKeepOwned
<1>3. CASE Submit(r)
  <2>1. /\ rpc[r] = "submit" /\ assoc' = assoc /\ dropped' = dropped /\ job' = job
        /\ \/ rpc' = [rpc EXCEPT ![r] = "done"] /\ tpc' = [tpc EXCEPT ![r] = "queued"]
           \/ rpc' = [rpc EXCEPT ![r] = "failed"] /\ tpc' = tpc
    BY <1>3 DEF Submit, TaskGoes
  <2>2. tpc[r] = "none"
    BY <2>1 DEF Inv, TasksOfRequests
  <2>3. TasksOfRequests'
    BY <1>1, <2>1, <2>2 DEF Inv, TasksOfRequests
  <2>4. ~Building(r)
    BY <2>2 DEF Building
  <2>5. \A q \in Requests \ {r} : tpc'[q] = tpc[q]
    BY <1>1, <2>1
  <2> QED
    BY <2>1, <2>3, <2>4, <2>5, OthersKeepOwned
<1> QED
  BY <1>2, <1>3

\* Steps of tasks.
LEMMA TaskOwned ==
  ASSUME Inv, NEW r \in Requests, TaskStep(r)
  PROVE  TasksOfRequests' /\ BuildingOwned'
<1> DEFINE c == Cap(r)
<1>1. /\ tpc \in [Requests -> TaskStages] /\ rpc \in [Requests -> RequestStages]
      /\ job \in [Requests -> Jobs] /\ assoc \in [Capabilities -> AssocStatuses]
      /\ c \in Capabilities
  BY TaskTypes DEF Inv, TypeOK
<1>2. /\ rpc' = rpc /\ dropped' = dropped /\ tpc[r] # "none"
      /\ \A q \in Requests \ {r} : tpc'[q] = tpc[q] /\ job'[q] = job[q]
  BY <1>1 DEF TaskStep, TaskLoads, TaskMarksBuilding, AddDefinitions, CheckService,
              NextLevel, ReplaceService, CheckRequirement, CreateService, WaitService,
              TaskActivates, TaskFailure, TaskAt, TaskGoes
<1>3. TasksOfRequests'
  BY <1>1, <1>2 DEF Inv, TasksOfRequests
<1>4. Cap(r)' = Cap(r)
  <2>1. CASE TaskLoads(r) \/ AddDefinitions(r) \/ NextLevel(r)
    BY <1>1, <2>1 DEF TaskLoads, AddDefinitions, NextLevel, Cap, Jobs
  <2>2. CASE \E s \in Services : CheckService(r, s)
    BY <1>1, <2>2 DEF CheckService, Cap, Jobs
  <2>3. CASE job' = job
    BY <2>3 DEF Cap
  <2> QED
    BY <2>1, <2>2, <2>3
       DEF TaskStep, TaskMarksBuilding, ReplaceService, CheckRequirement, CreateService,
           WaitService, TaskActivates, TaskFailure
<1>5. CASE TaskLoads(r)
  <2>1. ~Building(r) /\ assoc' = assoc
    BY <1>5 DEF TaskLoads, TaskAt, Building
  <2> QED
    BY <1>2, <1>3, <2>1, OthersKeepOwned
<1>6. CASE TaskMarksBuilding(r)
  <2>1. CASE assoc' = assoc
    <3>1. ~Building(r)
      BY <1>6 DEF TaskMarksBuilding, TaskAt, Building
    <3> QED
      BY <1>2, <1>3, <2>1, <3>1, OthersKeepOwned
  <2>2. CASE assoc' # assoc
    <3>1. assoc' = [assoc EXCEPT ![c] = "BUILDING"] /\ tpc'[r] = "definitions"
      BY <1>1, <1>6, <2>2 DEF TaskMarksBuilding, TaskGoes
    <3>2. Building(r)' /\ Cap(r)' = c
      BY <1>4, <3>1 DEF Building
    <3>3. ASSUME NEW d \in Capabilities \ {c}, assoc'[d] = "BUILDING"
          PROVE  d \in dropped \/ \E q \in Requests : (Cap(q) = d /\ Building(q))'
      <4>1. d \in dropped \/ \E q \in Requests : Cap(q) = d /\ Building(q)
        BY <1>1, <3>1, <3>3 DEF Inv, BuildingOwned
      <4>2. ASSUME NEW q \in Requests, Cap(q) = d, Building(q)
            PROVE  (Cap(q) = d /\ Building(q))'
        BY <1>2, <3>3, <4>2 DEF Cap, Building
      <4> QED
        BY <4>1, <4>2
    <3> QED
      BY <1>2, <1>3, <3>2, <3>3 DEF BuildingOwned
  <2> QED
    BY <2>1, <2>2
<1>7. CASE TaskActivates(r) \/ TaskFailure(r)
  <2>1. CASE Building(r)' /\ assoc' = assoc
    BY <1>2, <1>3, <1>4, <2>1, OthersKeepOwned
  <2>2. CASE ~(Building(r)' /\ assoc' = assoc)
    <3>1. \/ c \in dropped /\ assoc' = assoc
          \/ assoc' = [assoc EXCEPT ![c] = "ACTIVE"]
          \/ assoc' = [assoc EXCEPT ![c] = "ERROR_CREATION"]
      BY <1>1, <1>7, <2>2 DEF TaskActivates, TaskFailure, TaskGoes, Building
    <3>2. ASSUME NEW d \in Capabilities, assoc'[d] = "BUILDING"
          PROVE  d \in dropped \/ \E q \in Requests : (Cap(q) = d /\ Building(q))'
      <4>1. assoc[d] = "BUILDING" /\ (d = c => c \in dropped)
        BY <1>1, <3>1, <3>2
      <4>2. d \in dropped \/ \E q \in Requests : Cap(q) = d /\ Building(q)
        BY <4>1 DEF Inv, BuildingOwned
      <4>3. ASSUME NEW q \in Requests, Cap(q) = d, Building(q), d # c
            PROVE  (Cap(q) = d /\ Building(q))'
        BY <1>2, <4>3 DEF Cap, Building
      <4> QED
        BY <4>1, <4>2, <4>3
    <3> QED
      BY <1>2, <1>3, <3>2 DEF BuildingOwned
  <2> QED
    BY <2>1, <2>2
<1>8. CASE ~(TaskLoads(r) \/ TaskMarksBuilding(r) \/ TaskActivates(r) \/ TaskFailure(r))
  <2>1. assoc' = assoc
    BY <1>8 DEF TaskStep, AddDefinitions, CheckService, NextLevel, ReplaceService,
                CheckRequirement, CreateService, WaitService
  <2>2. tpc'[r] \in {"service", "replace", "require", "create", "wait", "end", "failing"}
    <3>1. CASE \E s \in Services : CheckService(r, s)
      BY <1>1, <3>1 DEF CheckService, TaskAt, TaskGoes
    <3>2. CASE AddDefinitions(r) \/ NextLevel(r) \/ ReplaceService(r)
      BY <1>1, <3>2 DEF AddDefinitions, NextLevel, ReplaceService, TaskAt, TaskGoes
    <3>3. CASE CheckRequirement(r) \/ CreateService(r) \/ WaitService(r)
      BY <1>1, <3>3 DEF CheckRequirement, CreateService, WaitService, TaskAt, TaskGoes
    <3> QED
      BY <1>8, <3>1, <3>2, <3>3 DEF TaskStep
  <2>3. Building(r)'
    BY <2>2 DEF Building
  <2> QED
    BY <1>2, <1>3, <1>4, <2>1, <2>3, OthersKeepOwned
<1> QED
  BY <1>5, <1>6, <1>7, <1>8

\* The inductive invariant.
LEMMA InvInductive == Inv /\ [Next]_vars => Inv'
<1> SUFFICES ASSUME Inv, [Next]_vars PROVE Inv'
  OBVIOUS
<1>1. TypeOK'
  BY TypeInductive DEF Inv
<1>2. CASE UNCHANGED vars
  BY <1>1, <1>2 DEF vars, Inv, TasksOfRequests, BuildingOwned, Building, Cap
<1>3. ASSUME NEW c \in Capabilities, DropCapability(c) PROVE Inv'
  BY <1>1, <1>3 DEF DropCapability, Inv, TasksOfRequests, BuildingOwned, Building, Cap
<1>4. ASSUME NEW s \in Services, BuildService(s) PROVE Inv'
  BY <1>1, <1>4 DEF BuildService, Inv, TasksOfRequests, BuildingOwned, Building, Cap
<1>5. ASSUME NEW r \in Requests, Ask(r) \/ Submit(r) \/ TaskStep(r) PROVE Inv'
  BY <1>1, <1>5, ClientOwned, TaskOwned DEF Inv
<1> QED
  BY <1>2, <1>3, <1>4, <1>5 DEF Next

\* Whatever tasks interleave, of one capability or of several, and whatever call
\* raises, a capability in BUILDING has a task that has still to settle it, unless
\* the capability was deleted: has_building_capability never refuses requests for
\* a status nobody will write over.
THEOREM BuildingIsOwned == Spec => []BuildingOwned
<1>1. Init => Inv
  BY TypeInductive DEF Init, Inv, TasksOfRequests, BuildingOwned
<1> QED
  BY <1>1, InvInductive, PTL DEF Spec, Inv

----------------------------------------------------------------------------
(* Patient clients: one request at a time.                                 *)

\* Request r is between its check and the end of its task.
Engaged(r) == rpc[r] = "submit" \/ TaskPending(r)

OneAtATime ==
  /\ \A q, r \in Requests : Engaged(q) /\ Engaged(r) => q = r
  /\ \A r \in Requests : tpc[r] # "none" => rpc[r] \in {"done", "failed"}

\* Only the request and its task change where they are; a step after the check
\* is taken by an engaged request.
LEMMA EngagedSteps ==
  ASSUME TypeOK, NEW r \in Requests, Ask(r) \/ Submit(r) \/ TaskStep(r)
  PROVE  /\ \A q \in Requests \ {r} : rpc'[q] = rpc[q] /\ tpc'[q] = tpc[q] /\ job'[q] = job[q]
         /\ Engaged(r) \/ (Ask(r) /\ rpc'[r] = "submit" /\ rpc[r] = "idle" /\ tpc' = tpc)
         /\ TaskStep(r) => rpc' = rpc /\ tpc[r] \notin {"none", "ended"}
         /\ Submit(r) => rpc[r] = "submit" /\ rpc'[r] \in {"done", "failed"}
<1>1. /\ tpc \in [Requests -> TaskStages] /\ rpc \in [Requests -> RequestStages]
      /\ job \in [Requests -> Jobs]
  BY DEF TypeOK
<1>2. CASE Ask(r)
  BY <1>1, <1>2 DEF Ask, AddCapability, UpdateCapability, MayAsk, TaskStep, Submit, TaskAt,
                    TaskLoads, TaskMarksBuilding, AddDefinitions, CheckService,
                    NextLevel, ReplaceService, CheckRequirement, CreateService,
                    WaitService, TaskActivates, TaskFailure
<1>3. CASE Submit(r)
  BY <1>1, <1>3 DEF Submit, TaskGoes, Engaged, TaskStep, TaskAt, TaskLoads,
                    TaskMarksBuilding, AddDefinitions, CheckService, NextLevel,
                    ReplaceService, CheckRequirement, CreateService, WaitService,
                    TaskActivates, TaskFailure
<1>4. CASE TaskStep(r)
  <2>1. /\ rpc' = rpc /\ tpc[r] \notin {"none", "ended"}
        /\ \A q \in Requests \ {r} : tpc'[q] = tpc[q] /\ job'[q] = job[q]
    BY <1>1, <1>4 DEF TaskStep, TaskLoads, TaskMarksBuilding, AddDefinitions, CheckService,
                NextLevel, ReplaceService, CheckRequirement, CreateService, WaitService,
                TaskActivates, TaskFailure, TaskAt, TaskGoes
  <2> QED
    BY <1>1, <1>4, <2>1 DEF Engaged, TaskPending, Submit
<1> QED
  BY <1>2, <1>3, <1>4

LEMMA OneAtATimeStep ==
  ASSUME Patient, TypeOK, OneAtATime, TasksOfRequests, [Next]_vars
  PROVE  OneAtATime'
<1>1. ASSUME NEW r \in Requests, Ask(r) \/ Submit(r) \/ TaskStep(r)
      PROVE  OneAtATime'
  <2>1. /\ \A q \in Requests \ {r} : rpc'[q] = rpc[q] /\ tpc'[q] = tpc[q]
        /\ Engaged(r) \/ (Ask(r) /\ rpc'[r] = "submit" /\ rpc[r] = "idle" /\ tpc' = tpc)
        /\ TaskStep(r) => rpc' = rpc /\ tpc[r] \notin {"none", "ended"}
        /\ Submit(r) => rpc[r] = "submit" /\ rpc'[r] \in {"done", "failed"}
    BY <1>1, EngagedSteps
  <2>2. \A q \in Requests \ {r} : Engaged(q)' <=> Engaged(q)
    BY <2>1 DEF Engaged, TaskPending
  <2>3. Engaged(r) \/ \A q \in Requests : ~Engaged(q)
    BY <2>1 DEF Ask, AddCapability, UpdateCapability, MayAsk, Engaged
  <2>4. tpc'[r] # "none" => rpc'[r] \in {"done", "failed"}
    <3>1. CASE Ask(r)
      <4>1. rpc[r] = "idle" /\ tpc' = tpc
        BY <3>1 DEF Ask, AddCapability, UpdateCapability, MayAsk
      <4> QED
        BY <4>1 DEF OneAtATime
    <3>2. CASE Submit(r)
      BY <2>1, <3>2
    <3>3. CASE TaskStep(r)
      BY <2>1, <3>3 DEF OneAtATime
    <3> QED
      BY <1>1, <3>1, <3>2, <3>3
  <2> QED
    BY <2>1, <2>2, <2>3, <2>4 DEF OneAtATime
<1>2. CASE (\E c \in Capabilities : DropCapability(c)) \/ \E s \in Services : BuildService(s)
  BY <1>2 DEF DropCapability, BuildService, OneAtATime, Engaged, TaskPending
<1>3. CASE UNCHANGED vars
  BY <1>3 DEF vars, OneAtATime, Engaged, TaskPending
<1> QED
  BY <1>1, <1>2, <1>3 DEF Next

\* What a request knows of the type of the account stays true until it writes it.
TypeKnown == \A r \in Requests : rpc[r] = "submit" => job[r].type = accType

\* The type of an account is written once when clients are patient: a second
\* request is checked only after the first has written the type.
THEOREM TypeWrittenOnce == Patient => (Spec => AccountTypeWriteOnce)
<1> SUFFICES ASSUME Patient PROVE Spec => AccountTypeWriteOnce
  OBVIOUS
<1> DEFINE TW == Inv /\ OneAtATime /\ TypeKnown
<1>1. Init => TW
  <2> SUFFICES ASSUME Init PROVE TW
    OBVIOUS
  <2>1. Inv
    BY TypeInductive DEF Init, Inv, TasksOfRequests, BuildingOwned
  <2>2. \A r \in Requests : rpc[r] = "idle" /\ tpc[r] = "none"
    BY DEF Init
  <2> QED
    BY <2>1, <2>2 DEF OneAtATime, TypeKnown, Engaged, TaskPending
<1>2. TW /\ [Next]_vars => TypeKnown'
  <2> SUFFICES ASSUME TW, [Next]_vars PROVE TypeKnown'
    OBVIOUS
  <2>1. ASSUME NEW r \in Requests, Ask(r) \/ Submit(r) \/ TaskStep(r)
        PROVE  TypeKnown'
    <3>1. /\ \A q \in Requests \ {r} : rpc'[q] = rpc[q] /\ job'[q] = job[q]
          /\ TaskStep(r) => rpc' = rpc /\ tpc[r] \notin {"none", "ended"}
          /\ Submit(r) => rpc[r] = "submit" /\ rpc'[r] \in {"done", "failed"}
      BY <2>1, EngagedSteps DEF Inv
    <3>2. CASE Ask(r)
      <4>1. accType' = accType /\ \E c, op : job' = [job EXCEPT ![r] = Job(c, op)]
        BY <3>2 DEF Ask, AddCapability, UpdateCapability
      <4>2. job'[r].type = accType
        BY <4>1 DEF Inv, TypeOK, Job
      <4> QED
        BY <3>1, <4>1, <4>2 DEF TypeKnown
    <3>3. CASE Submit(r)
      <4>1. \A q \in Requests \ {r} : rpc[q] # "submit"
        BY <3>1, <3>3 DEF OneAtATime, Engaged
      <4> QED
        BY <3>1, <3>3, <4>1 DEF TypeKnown
    <3>4. CASE TaskStep(r)
      <4>1. accType' = accType
        BY <3>4 DEF TaskStep, TaskLoads, TaskMarksBuilding, AddDefinitions, CheckService,
                    NextLevel, ReplaceService, CheckRequirement, CreateService,
                    WaitService, TaskActivates, TaskFailure
      <4>2. rpc[r] # "submit"
        BY <3>1, <3>4 DEF OneAtATime
      <4> QED
        BY <3>1, <3>4, <4>1, <4>2 DEF TypeKnown
    <3> QED
      BY <2>1, <3>2, <3>3, <3>4
  <2>2. CASE (\E c \in Capabilities : DropCapability(c)) \/ \E s \in Services : BuildService(s)
    BY <2>2 DEF DropCapability, BuildService, TypeKnown
  <2>3. CASE UNCHANGED vars
    BY <2>3 DEF vars, TypeKnown
  <2> QED
    BY <2>1, <2>2, <2>3 DEF Next
<1>3. TW /\ [Next]_vars => [accType # "blank" => accType' = accType]_vars
  <2> SUFFICES ASSUME TW, Next, accType # "blank" PROVE accType' = accType
    OBVIOUS
  <2>1. ASSUME NEW r \in Requests, Submit(r) PROVE accType' = accType
    BY <2>1 DEF Submit, TypeKnown
  <2>2. ASSUME NEW r \in Requests, Ask(r) \/ TaskStep(r) PROVE accType' = accType
    BY <2>2 DEF Ask, AddCapability, UpdateCapability, TaskStep, TaskLoads,
                TaskMarksBuilding, AddDefinitions, CheckService, NextLevel,
                ReplaceService, CheckRequirement, CreateService, WaitService,
                TaskActivates, TaskFailure
  <2> QED
    BY <2>1, <2>2 DEF Next, DropCapability, BuildService
<1>4. TW /\ [Next]_vars => TW'
  BY <1>2, InvInductive, OneAtATimeStep DEF Inv
<1> QED
  BY <1>1, <1>3, <1>4, PTL DEF Spec, AccountTypeWriteOnce

----------------------------------------------------------------------------
(* No service without the one it requires.                                 *)

Exists(s) == srv[s].status # "absent"
Ready(s) == Requires[s] = NoService \/ srv[Requires[s]].status = "ACTIVE"

\* The task about to create a service has seen its requirement; the one about to
\* replace a service has seen it not ACTIVE, so that nothing requires it.
SeenRequirement ==
  \A r \in Requests :
    /\ tpc[r] \in {"replace", "require", "create"} => Now(r) \in Services
    /\ tpc[r] = "create" => Ready(Now(r))
    /\ tpc[r] = "replace" => \A t \in Services : Requires[t] = Now(r) => ~Exists(t)

SInv == Inv /\ OneAtATime /\ ServiceHasRequirement /\ SeenRequirement

\* A task that is not engaged alone does not exist: the others stand still.
LEMMA RequirementTask ==
  ASSUME SInv, NEW r \in Requests, TaskStep(r)
  PROVE  ServiceHasRequirement' /\ SeenRequirement'
<1> USE DEF SInv, Inv
<1>1. /\ tpc \in [Requests -> TaskStages] /\ job \in [Requests -> Jobs]
      /\ srv \in [Services -> [status : ServiceStatuses, by : Requests \cup {Nobody}]]
      /\ \A s \in Services : Requires[s] \in Services \cup {NoService}
      /\ NoService \notin Services
  BY ConstantsAssumption DEF TypeOK, ConstantsAssumption
<1>2. \A q \in Requests \ {r} : tpc'[q] \notin {"replace", "require", "create"}
  <2>1. tpc[r] \notin {"none", "ended"} /\ \A q \in Requests \ {r} : tpc'[q] = tpc[q]
    BY EngagedSteps
  <2> QED
    BY <2>1 DEF OneAtATime, Engaged, TaskPending
<1>3. CASE \E s \in Services : CheckService(r, s)
  <2>1. PICK s \in Services : CheckService(r, s)
    BY <1>3
  <2>2. /\ srv' = srv /\ Now(r)' = s /\ tpc'[r] \in {"require", "service", "replace"}
        /\ tpc'[r] = "replace" => srv[s].status # "ACTIVE"
    BY <1>1, <2>1 DEF CheckService, Now, Jobs, TaskGoes
  <2>3. tpc'[r] = "replace" => \A t \in Services : Requires[t] = s => ~Exists(t)
    BY <1>1, <2>2 DEF ServiceHasRequirement, Exists
  <2> QED
    BY <1>2, <2>2, <2>3 DEF ServiceHasRequirement, SeenRequirement, Exists
<1>4. CASE CheckRequirement(r)
  <2>1. srv' = srv /\ job' = job /\ tpc'[r] \in {"create", "service"}
        /\ (tpc'[r] = "create" => Ready(Now(r)))
    BY <1>1, <1>4 DEF CheckRequirement, TaskGoes, Ready
  <2>2. tpc'[r] = "create" => Now(r) \in Services
    BY <1>4 DEF CheckRequirement, TaskAt, SeenRequirement
  <2> QED
    BY <1>2, <2>1, <2>2 DEF ServiceHasRequirement, SeenRequirement, Ready, Now
<1>5. CASE ReplaceService(r)
  <2>1. PICK s \in Services : s = Now(r)
    BY <1>5 DEF ReplaceService, TaskAt, SeenRequirement
  <2>2. \A t \in Services : Requires[t] = s => ~Exists(t)
    BY <1>5, <2>1 DEF ReplaceService, TaskAt, SeenRequirement
  <2>3. /\ tpc'[r] \in {"require", "failing"} /\ Now(r)' = s
        /\ \A t \in Services : t # s => srv'[t] = srv[t]
        /\ Exists(s)' => Exists(s)
    BY <1>1, <1>5, <2>1 DEF ReplaceService, TaskGoes, Same, Exists, Now
  <2> QED
    BY <1>1, <1>2, <2>2, <2>3 DEF ServiceHasRequirement, SeenRequirement, Exists
<1>6. CASE CreateService(r)
  <2>1. PICK s \in Services : s = Now(r) /\ Ready(s)
    BY <1>6 DEF CreateService, TaskAt, SeenRequirement
  <2>2. /\ tpc'[r] \in {"wait", "failing"}
        /\ srv' = srv \/ (~Exists(s) /\ \A t \in Services : t # s => srv'[t] = srv[t])
    BY <1>1, <1>6, <2>1 DEF CreateService, TaskGoes, Exists
  <2>3. ~Exists(s) => \A t \in Services : Requires[t] = s => ~Exists(t)
    BY <1>1 DEF ServiceHasRequirement, Exists
  <2>4. Requires[s] = s => Exists(s)
    BY <1>1, <2>1 DEF Ready, Exists
  <2> QED
    BY <1>1, <1>2, <2>1, <2>2, <2>3, <2>4
       DEF ServiceHasRequirement, SeenRequirement, Exists, Ready
<1>7. CASE ~(\/ \E s \in Services : CheckService(r, s)
             \/ CheckRequirement(r) \/ ReplaceService(r) \/ CreateService(r))
  <2>1. srv' = srv /\ tpc'[r] \notin {"replace", "require", "create"}
    BY <1>1, <1>7 DEF TaskStep, TaskLoads, TaskMarksBuilding, AddDefinitions, NextLevel,
                      WaitService, TaskActivates, TaskFailure, TaskAt, TaskGoes
  <2> QED
    BY <1>2, <2>1 DEF ServiceHasRequirement, SeenRequirement
<1> QED
  BY <1>3, <1>4, <1>5, <1>6, <1>7

\* When clients are patient no service exists whose required service is not
\* ACTIVE, whatever calls raise and however late instances settle.
THEOREM RequirementsHold == Patient => (Spec => []ServiceHasRequirement)
<1> SUFFICES ASSUME Patient PROVE Spec => []ServiceHasRequirement
  OBVIOUS
<1>1. Init => SInv
  <2> SUFFICES ASSUME Init PROVE SInv
    OBVIOUS
  <2>1. Inv
    BY TypeInductive DEF Init, Inv, TasksOfRequests, BuildingOwned
  <2>2. \A r \in Requests : rpc[r] = "idle" /\ tpc[r] = "none"
    BY DEF Init
  <2>3. ServiceHasRequirement
    BY DEF Init, ServiceHasRequirement
  <2> QED
    BY <2>1, <2>2, <2>3 DEF SInv, OneAtATime, SeenRequirement, Engaged, TaskPending
<1>2. SInv /\ [Next]_vars => ServiceHasRequirement' /\ SeenRequirement'
  <2> SUFFICES ASSUME SInv, [Next]_vars
               PROVE  ServiceHasRequirement' /\ SeenRequirement'
    OBVIOUS
  <2>1. ASSUME NEW r \in Requests, Ask(r) \/ Submit(r)
        PROVE  ServiceHasRequirement' /\ SeenRequirement'
    <3>1. srv' = srv
      BY <2>1 DEF Ask, AddCapability, UpdateCapability, Submit
    <3>2. \A q \in Requests : tpc'[q] \in {"replace", "require", "create"}
                                => tpc[q] = tpc'[q] /\ job'[q] = job[q]
      <4>1. \A q \in Requests \ {r} : tpc'[q] = tpc[q] /\ job'[q] = job[q]
        BY <2>1, EngagedSteps DEF SInv, Inv
      <4>2. tpc[r] = "none"
        BY <2>1 DEF Ask, AddCapability, UpdateCapability, MayAsk, Submit, SInv, OneAtATime,
                    Inv, TasksOfRequests
      <4>3. tpc'[r] \in {"none", "queued"}
        BY <2>1, <4>2 DEF Ask, AddCapability, UpdateCapability, Submit, TaskGoes, SInv, Inv,
                          TypeOK
      <4> QED
        BY <4>1, <4>3
    <3> QED
      BY <3>1, <3>2 DEF SInv, ServiceHasRequirement, SeenRequirement, Exists, Ready, Now
  <2>2. ASSUME NEW r \in Requests, TaskStep(r)
        PROVE  ServiceHasRequirement' /\ SeenRequirement'
    BY <2>2, RequirementTask
  <2>3. ASSUME NEW c \in Capabilities, DropCapability(c)
        PROVE  ServiceHasRequirement' /\ SeenRequirement'
    BY <2>3 DEF DropCapability, SInv, ServiceHasRequirement, SeenRequirement, Exists, Ready, Now
  <2>4. ASSUME NEW s \in Services, BuildService(s)
        PROVE  ServiceHasRequirement' /\ SeenRequirement'
    <3>1. /\ srv[s].status = "BUILDING" /\ srv'[s].status \in {"ACTIVE", "ERROR"}
          /\ \A t \in Services \ {s} : srv'[t] = srv[t]
          /\ tpc' = tpc /\ job' = job
      BY <2>4 DEF BuildService, SInv, Inv, TypeOK
    <3>2. \A t \in Services : Exists(t)' <=> Exists(t)
      BY <3>1 DEF Exists
    <3>3. \A t \in Services : Requires[t] \in Services \cup {NoService}
      BY ConstantsAssumption DEF ConstantsAssumption
    <3>4. \A t \in Services : srv[t].status = "ACTIVE" => srv'[t].status = "ACTIVE"
      BY <3>1
    <3>5. \A t \in Services : Ready(t) => Ready(t)'
      BY <3>3, <3>4 DEF Ready
    <3> QED
      BY <3>1, <3>2, <3>3, <3>4, <3>5
         DEF SInv, ServiceHasRequirement, SeenRequirement, Exists, Now
  <2>5. CASE UNCHANGED vars
    BY <2>5 DEF vars, SInv, ServiceHasRequirement, SeenRequirement, Exists, Ready, Now
  <2> QED
    BY <2>1, <2>2, <2>3, <2>4, <2>5 DEF Next
<1>3. SInv /\ [Next]_vars => SInv'
  BY <1>2, InvInductive, OneAtATimeStep DEF SInv, Inv
<1> QED
  BY <1>1, <1>3, PTL DEF Spec, SInv

----------------------------------------------------------------------------
(* The services a capability reaches.                                      *)

\* Induction on the natural numbers, for a set of them: by its least element.
LEMMA NaturalInduction ==
  ASSUME NEW S, 0 \in S, \A n \in Nat : n \in S => n + 1 \in S
  PROVE  \A n \in Nat : n \in S
<1> DEFINE R == OpToRel(<, Nat)
           Rest == Nat \ S
<1> SUFFICES ASSUME Rest # {} PROVE FALSE
  OBVIOUS
<1>1. IsWellFoundedOn(R, Nat)
  BY NatLessThanWellFounded
<1>2. \A x, y \in Nat : y < x => <<y, x>> \in R
  BY DEF OpToRel
<1> HIDE DEF R
<1>3. PICK x \in Rest : \A y \in Rest : ~(<<y, x>> \in R)
  <2>1. Rest \subseteq Nat
    OBVIOUS
  <2> HIDE DEF Rest
  <2> QED  BY <1>1, <2>1, WFMin
<1>4. \A y \in Nat : y < x => y \in S
  BY <1>2, <1>3
<1>5. x # 0 /\ x \in Nat
  BY <1>3
<1>6. x - 1 \in Nat /\ x - 1 \in S /\ (x - 1) + 1 = x
  BY <1>4, <1>5
<1> QED
  BY <1>3, <1>6

\* The services of c that require nothing, and what Reached computes up to level n.
Base(c) == {s \in Content[c] : Requires[s] = NoService}
Levels(f, c, n) ==
  f = [k \in 0 .. n |-> IF k = 0 THEN Base(c) ELSE f[k - 1] \cup LevelAfter(c, f[k - 1])]

\* There is such a function, so that the recursion has a value.
LEMMA LevelsExist ==
  ASSUME NEW c, NEW N \in Nat
  PROVE  \E f : Levels(f, c, N)
<1> DEFINE G == {n \in Nat : \E f : Levels(f, c, n)}
<1>1. 0 \in G
  <2> DEFINE f == [k \in 0 .. 0 |-> Base(c)]
  <2>1. Levels(f, c, 0)
    BY DEF Levels
  <2> QED  BY <2>1
<1>2. ASSUME NEW n \in Nat, n \in G
      PROVE  n + 1 \in G
  <2>1. PICK f : Levels(f, c, n)
    BY <1>2
  <2> DEFINE g == [k \in 0 .. n + 1 |->
                     IF k = n + 1 THEN f[n] \cup LevelAfter(c, f[n]) ELSE f[k]]
  <2>2. \A k \in 0 .. n + 1 :
          g[k] = IF k = 0 THEN Base(c) ELSE g[k - 1] \cup LevelAfter(c, g[k - 1])
    <3> TAKE k \in 0 .. n + 1
    <3>1. CASE k = n + 1
      <4>1. g[k] = f[n] \cup LevelAfter(c, f[n]) /\ g[k - 1] = f[n] /\ k # 0
        BY <3>1
      <4> QED  BY <4>1
    <3>2. CASE k # n + 1
      <4>1. k \in 0 .. n /\ (k # 0 => k - 1 \in 0 .. n)
        BY <3>2
      <4>2. f[k] = IF k = 0 THEN Base(c) ELSE f[k - 1] \cup LevelAfter(c, f[k - 1])
        BY <2>1, <4>1 DEF Levels
      <4>3. g[k] = f[k] /\ (k # 0 => g[k - 1] = f[k - 1])
        BY <3>2, <4>1
      <4> QED  BY <4>2, <4>3
    <3> QED  BY <3>1, <3>2
  <2>3. g = [k \in 0 .. n + 1 |-> g[k]]
    OBVIOUS
  <2> HIDE DEF g
  <2>4. Levels(g, c, n + 1)
    BY <2>2, <2>3 DEF Levels
  <2>5. \E h : Levels(h, c, n + 1)
    BY <2>4
  <2> QED  BY <2>5
<1> HIDE DEF G
<1>3. N \in G
  BY <1>1, <1>2, NaturalInduction
<1> QED
  BY <1>3 DEF G

\* The recursion of Reached, as facts about its levels.
LEMMA ReachedLevels ==
  ASSUME NEW c
  PROVE  /\ Cardinality(Services) \in Nat
         /\ \E f : /\ Reached(c) = f[Cardinality(Services)]
                   /\ \A n \in 0 .. Cardinality(Services) :
                        f[n] = IF n = 0 THEN Base(c) ELSE f[n - 1] \cup LevelAfter(c, f[n - 1])
<1> DEFINE N == Cardinality(Services)
           Up == CHOOSE f : Levels(f, c, N)
<1>0. N \in Nat
  BY ConstantsAssumption, FS_CardinalityType DEF ConstantsAssumption
<1>1. Levels(Up, c, N)
  BY <1>0, LevelsExist
<1>2. Reached(c) = Up[N]
  BY DEF Reached, Levels, Base
<1> HIDE DEF Up
<1>3. \A n \in 0 .. N : Up[n] = IF n = 0 THEN Base(c) ELSE Up[n - 1] \cup LevelAfter(c, Up[n - 1])
  BY <1>0, <1>1 DEF Levels
<1> QED
  BY <1>0, <1>2, <1>3

\* A service reached is of the capability, and what it requires is reached too.
LEMMA ReachedRequires ==
  ASSUME NEW c, NEW s \in Reached(c)
  PROVE  s \in Content[c] /\ (Requires[s] = NoService \/ Requires[s] \in Reached(c))
<1> DEFINE N == Cardinality(Services)
<1>0. N \in Nat
  BY ReachedLevels
<1>1. PICK f : /\ Reached(c) = f[N]
               /\ \A n \in 0 .. N :
                    f[n] = IF n = 0 THEN Base(c) ELSE f[n - 1] \cup LevelAfter(c, f[n - 1])
  BY ReachedLevels
<1> HIDE DEF N
<1> DEFINE Fine(n) == \A t \in f[n] : t \in Content[c] /\ (Requires[t] = NoService \/ Requires[t] \in f[n])
           G == {n \in Nat : n <= N => Fine(n)}
<1>2. 0 \in G
  <2>1. 0 \in 0 .. N
    BY <1>0
  <2>2. f[0] = Base(c)
    BY <1>1, <2>1
  <2>3. Fine(0)
    BY <2>2 DEF Base
  <2> QED  BY <2>3
<1>3. ASSUME NEW n \in Nat, n \in G
      PROVE  n + 1 \in G
  <2> SUFFICES ASSUME n + 1 <= N PROVE Fine(n + 1)
    BY <1>3
  <2>1. n + 1 \in 0 .. N /\ n + 1 # 0 /\ (n + 1) - 1 = n
    BY <1>0
  <2>2. f[n + 1] = f[n] \cup LevelAfter(c, f[n])
    BY <1>1, <2>1
  <2>3. Fine(n)
    BY <1>0, <1>3
  <2> QED  BY <2>2, <2>3 DEF LevelAfter
<1> HIDE DEF G
<1>4. N \in G
  BY <1>0, <1>2, <1>3, NaturalInduction
<1>5. Fine(N)
  BY <1>0, <1>4 DEF G
<1> QED
  BY <1>1, <1>5

\* Services that hold the ones without requirement, and with a service all that
\* require it, hold every service reached.
LEMMA ReachedIsLeast ==
  ASSUME NEW c, NEW H, Base(c) \subseteq H, LevelAfter(c, H) \subseteq H
  PROVE  Reached(c) \subseteq H
<1> DEFINE N == Cardinality(Services)
<1>0. N \in Nat
  BY ReachedLevels
<1>1. PICK f : /\ Reached(c) = f[N]
               /\ \A n \in 0 .. N :
                    f[n] = IF n = 0 THEN Base(c) ELSE f[n - 1] \cup LevelAfter(c, f[n - 1])
  BY ReachedLevels
<1> HIDE DEF N
<1> DEFINE G == {n \in Nat : n <= N => f[n] \subseteq H}
<1>2. 0 \in G
  <2>1. 0 \in 0 .. N
    BY <1>0
  <2>2. f[0] = Base(c)
    BY <1>1, <2>1
  <2> QED  BY <2>2
<1>3. ASSUME NEW n \in Nat, n \in G
      PROVE  n + 1 \in G
  <2> SUFFICES ASSUME n + 1 <= N PROVE f[n + 1] \subseteq H
    BY <1>3
  <2>1. n + 1 \in 0 .. N /\ n + 1 # 0 /\ (n + 1) - 1 = n
    BY <1>0
  <2>2. f[n + 1] = f[n] \cup LevelAfter(c, f[n])
    BY <1>1, <2>1
  <2>3. f[n] \subseteq H
    BY <1>0, <1>3
  <2>4. LevelAfter(c, f[n]) \subseteq LevelAfter(c, H)
    BY <2>3 DEF LevelAfter
  <2> QED  BY <2>2, <2>3, <2>4
<1> HIDE DEF G
<1>4. N \in G
  BY <1>0, <1>2, <1>3, NaturalInduction
<1> QED
  BY <1>0, <1>1, <1>4 DEF G

----------------------------------------------------------------------------
(* An ACTIVE capability has its services ACTIVE.                           *)

Active(s) == srv[s].status = "ACTIVE"

\* The services of the current level the task of r has still to settle.
InHand == {"replace", "require", "create", "wait"}
Working == InHand \cup {"service", "end"}
Todo(r) == job[r].todo \cup {s \in Services : tpc[r] \in InHand /\ s = Now(r)}

\* The task of r has settled the services in H: those that c reaches are ACTIVE,
\* and the rest of what it reaches is in the current level or above it.
Settled(r, H) ==
  /\ \A s \in H \cap Reached(Cap(r)) : Active(s)
  /\ \A s \in Content[Cap(r)] : Requires[s] = NoService => s \in H \cup Todo(r)
  /\ \A s \in Content[Cap(r)] : Requires[s] \in H \ job[r].level => s \in H \cup Todo(r)
  /\ job[r].level \subseteq H \cup Todo(r)
  /\ \A s \in job[r].level : Requires[s] \in Content[Cap(r)] => Requires[s] \in H
  /\ tpc[r] = "replace" => Now(r) \notin H \cap Reached(Cap(r))

\* What the task of r knows of the service it is to replace, or waits for.
Holds(r) ==
  /\ job[r].todo \subseteq job[r].level
  /\ tpc[r] \in InHand => Now(r) \in job[r].level
  /\ tpc[r] = "end" => job[r].level = {}
  /\ tpc[r] = "wait" => Same(Now(r), r)
  /\ tpc[r] = "replace" =>
       \A c \in Capabilities : assoc[c] = "ACTIVE" => Now(r) \notin Reached(c)

Progress(r) ==
  tpc[r] \in Working => Holds(r) /\ \E H \in SUBSET Services : Settled(r, H)

\* No ACTIVE capability loses a service, not even while its task runs.
Kept == \A c \in Capabilities : assoc[c] = "ACTIVE" => \A s \in Reached(c) : Active(s)

KInv == TypeOK /\ OneAtATime /\ TasksOfRequests /\ Kept /\ \A r \in Requests : Progress(r)

\* While the task of r steps the others do not work.
LEMMA OthersRest ==
  ASSUME TypeOK, OneAtATime, NEW r \in Requests, Ask(r) \/ Submit(r) \/ TaskStep(r),
         TaskPending(r) \/ rpc[r] = "submit" \/ \A q \in Requests : ~TaskPending(q)
  PROVE  \A q \in Requests \ {r} : tpc'[q] \notin Working
<1>1. \A q \in Requests \ {r} : tpc'[q] = tpc[q]
  BY EngagedSteps
<1>2. \A q \in Requests \ {r} : ~TaskPending(q)
  BY DEF OneAtATime, Engaged
<1> QED
  BY <1>1, <1>2 DEF TaskPending, Working, InHand

\* A task that does not write the services and is not at work leaves nothing to show.
LEMMA ClientKeeps ==
  ASSUME Patient, KInv, NEW r \in Requests, Ask(r) \/ Submit(r)
  PROVE  Kept' /\ \A q \in Requests : Progress(q)'
<1> USE DEF KInv
<1>1. assoc' = assoc /\ srv' = srv
  BY DEF Ask, AddCapability, UpdateCapability, Submit
<1>2. tpc[r] = "none"
  BY DEF Ask, AddCapability, UpdateCapability, MayAsk, Submit, OneAtATime, TasksOfRequests
<1>3. tpc'[r] \notin Working
  BY <1>2 DEF Ask, AddCapability, UpdateCapability, Submit, TaskGoes, TypeOK, Working, InHand
<1>4. \A q \in Requests \ {r} : tpc'[q] \notin Working
  BY OthersRest DEF Ask, AddCapability, UpdateCapability, MayAsk, Submit
<1> QED
  BY <1>1, <1>3, <1>4 DEF Kept, Active, Progress

\* A service on the way to be ACTIVE was not before.
LEMMA BuildKeeps ==
  ASSUME KInv, NEW s \in Services, BuildService(s)
  PROVE  Kept' /\ \A q \in Requests : Progress(q)'
<1> USE DEF KInv
<1>1. /\ ~Active(s)
      /\ \A t \in Services : Active(t) => Active(t)'
      /\ \A t \in Services : \A who : Same(t, who) => Same(t, who)'
      /\ tpc' = tpc /\ job' = job /\ assoc' = assoc
  BY DEF BuildService, Active, Same, TypeOK
<1>2. \A c \in Capabilities : Reached(c) \subseteq Services
  BY ReachedRequires, ConstantsAssumption DEF ConstantsAssumption
<1>3. Kept'
  BY <1>1, <1>2 DEF Kept
<1>4. ASSUME NEW q \in Requests, tpc[q] \in Working PROVE Progress(q)'
  <2>1. Holds(q) /\ Cap(q) \in Capabilities /\ Cap(q)' = Cap(q) /\ Now(q)' = Now(q)
    BY <1>1, <1>4, TaskTypes DEF Progress, Cap, Now
  <2>2. job[q].level \subseteq Services \/ tpc[q] # "wait"
    BY DEF TypeOK, Jobs
  <2>3. tpc[q] = "wait" => Now(q) \in Services
    BY <2>1, <2>2 DEF Holds, InHand
  <2>4. Holds(q)'
    BY <1>1, <2>1, <2>3 DEF Holds
  <2>5. PICK H \in SUBSET Services : Settled(q, H)
    BY <1>4 DEF Progress
  <2>6. Todo(q)' = Todo(q)
    BY <1>1, <2>1 DEF Todo
  <2>7. \A t \in H \cap Reached(Cap(q)) : Active(t)'
    BY <1>1, <1>2, <2>1, <2>5 DEF Settled
  <2>8. Settled(q, H)'
    BY <1>1, <2>1, <2>5, <2>6, <2>7 DEF Settled
  <2> QED  BY <2>1, <2>4, <2>5, <2>8 DEF Progress
<1> QED
  BY <1>1, <1>3, <1>4 DEF Progress

\* The steps of a task that write no service: those before the services are looked
\* at, and its ends. It is ACTIVE in the end when all that is reached is settled.
LEMMA EndsKeep ==
  ASSUME KInv, NEW r \in Requests,
         TaskLoads(r) \/ TaskMarksBuilding(r) \/ TaskActivates(r) \/ TaskFailure(r)
  PROVE  Kept' /\ Progress(r)'
<1> USE DEF KInv
<1>1. tpc'[r] \notin Working /\ srv' = srv
  BY DEF TaskLoads, TaskMarksBuilding, TaskActivates, TaskFailure, TaskGoes, TaskAt, TypeOK,
         Working, InHand
<1>2. Cap(r) \in Capabilities
  BY TaskTypes
<1>3. ASSUME NEW c \in Capabilities, assoc'[c] = "ACTIVE", assoc[c] # "ACTIVE"
      PROVE  \A s \in Reached(c) : Active(s)
  <2>1. c = Cap(r) /\ TaskAt(r, "end")
    BY <1>2, <1>3 DEF TaskLoads, TaskMarksBuilding, TaskActivates, TaskFailure, TypeOK
  <2>2. Holds(r)
    BY <2>1 DEF Progress, TaskAt, Working
  <2>3. PICK H \in SUBSET Services : Settled(r, H)
    BY <2>1 DEF Progress, TaskAt, Working
  <2>4. job[r].level = {} /\ Todo(r) = {}
    BY <2>1, <2>2 DEF Holds, Todo, TaskAt, InHand
  <2>5. Base(c) \subseteq H /\ LevelAfter(c, H) \subseteq H
    BY <2>1, <2>3, <2>4 DEF Settled, Base, LevelAfter
  <2>6. Reached(c) \subseteq H
    BY <2>5, ReachedIsLeast
  <2> QED  BY <2>1, <2>3, <2>6 DEF Settled
<1>4. Kept'
  BY <1>1, <1>3 DEF Kept, Active
<1> QED
  BY <1>1, <1>4 DEF Progress

\* The task starts with the services that require none of the capability.
LEMMA StartKeeps ==
  ASSUME KInv, NEW r \in Requests, AddDefinitions(r)
  PROVE  Kept' /\ Progress(r)'
<1> USE DEF KInv
<1> DEFINE c == Cap(r)
<1>1. c \in Capabilities /\ FirstLevel(c) \subseteq Services
      /\ Content[c] \subseteq Services /\ NoService \notin Services
  BY TaskTypes, LevelType, ConstantsAssumption DEF ConstantsAssumption
<1>2. /\ job'[r].level = FirstLevel(c) /\ job'[r].todo = FirstLevel(c)
      /\ Cap(r)' = c /\ tpc'[r] = "service" /\ srv' = srv /\ assoc' = assoc
  BY DEF AddDefinitions, TaskGoes, TypeOK, Jobs, Cap
<1>3. Todo(r)' = FirstLevel(c)
  BY <1>2 DEF Todo, InHand
<1>4. Holds(r)'
  BY <1>2 DEF Holds, InHand
<1> HIDE DEF c
<1>5. Settled(r, {})'
  BY <1>1, <1>2, <1>3 DEF Settled, FirstLevel
<1>6. {} \in SUBSET Services
  OBVIOUS
<1> QED
  BY <1>2, <1>4, <1>5, <1>6 DEF Progress, Kept, Active

\* The next level: what requires a service of the one just settled.
LEMMA LevelKeeps ==
  ASSUME KInv, NEW r \in Requests, NextLevel(r)
  PROVE  Kept' /\ Progress(r)'
<1> USE DEF KInv
<1> DEFINE c == Cap(r)
           next == LevelAfter(c, job[r].level)
<1>1. /\ job'[r].level = next /\ job'[r].todo = next
      /\ Cap(r)' = c /\ srv' = srv /\ assoc' = assoc
      /\ tpc'[r] \in {"service", "end"} /\ tpc[r] = "service" /\ job[r].todo = {}
      /\ tpc'[r] = "end" => next = {}
  BY DEF NextLevel, TaskGoes, TaskAt, TypeOK, Jobs, Cap
<1>2. PICK H \in SUBSET Services : Settled(r, H)
  BY <1>1 DEF Progress, Working
<1>3. Todo(r) = {} /\ Todo(r)' = next
  BY <1>1 DEF Todo, InHand
<1>4. Holds(r)'
  BY <1>1 DEF Holds, InHand
<1>5. \A s \in Content[c] : Requires[s] \in H => s \in H \cup next
  BY <1>2, <1>3 DEF Settled, LevelAfter
<1>6. job[r].level \subseteq H
  BY <1>2, <1>3 DEF Settled
<1>7. \A s \in next : Requires[s] \in H
  BY <1>6 DEF LevelAfter
<1> HIDE DEF next
<1>8. \A s \in H \cap Reached(c) : Active(s)'
  BY <1>1, <1>2 DEF Settled, Active
<1>9. \A s \in Content[c] : Requires[s] = NoService => s \in H
  BY <1>2, <1>3 DEF Settled
<1> HIDE DEF c
<1>10. Settled(r, H)'
  BY <1>1, <1>3, <1>5, <1>7, <1>8, <1>9 DEF Settled
<1> QED
  BY <1>1, <1>2, <1>4, <1>10 DEF Progress, Kept, Active

\* The service in hand is settled: it is ACTIVE, or the capability does not reach it.
LEMMA HandSettled ==
  ASSUME KInv, NEW r \in Requests, NEW s \in Services, tpc'[r] = "service",
         srv' = srv, Cap(r)' = Cap(r), job'[r].level = job[r].level,
         tpc[r] \in Working, s \in job[r].level,
         Todo(r) \subseteq job'[r].todo \cup {s}, job'[r].todo \subseteq job[r].todo,
         s \in Reached(Cap(r)) => Active(s)
  PROVE  Progress(r)'
<1> USE DEF KInv
<1> DEFINE c == Cap(r)
<1>1. Holds(r)
  BY DEF Progress
<1>2. PICK H \in SUBSET Services : Settled(r, H)
  BY DEF Progress
<1> DEFINE K == H \cup {s}
<1>3. Todo(r)' = job'[r].todo
  BY DEF Todo, InHand
<1>4. Holds(r)'
  BY <1>1 DEF Holds, InHand
<1>5. \A t \in K \cap Reached(c) : Active(t)'
  BY <1>2 DEF Settled, Active
<1>6. H \cup Todo(r) \subseteq K \cup Todo(r)'
  BY <1>3
<1>7. K \ job[r].level = H \ job[r].level
  OBVIOUS
<1>8. \A t \in job[r].level : Requires[t] \in Content[c] => Requires[t] \in K
  BY <1>2 DEF Settled
<1> HIDE DEF K
<1>9. Settled(r, K)'
  BY <1>2, <1>5, <1>6, <1>7, <1>8 DEF Settled
<1>10. K \in SUBSET Services
  BY DEF K
<1> QED
  BY <1>4, <1>9, <1>10 DEF Progress

\* The service in hand stays in hand: nothing settled is lost.
LEMMA HandStays ==
  ASSUME KInv, NEW r \in Requests, NEW s \in Services, tpc'[r] \in InHand,
         Now(r)' = s, Cap(r)' = Cap(r), job'[r].level = job[r].level,
         tpc[r] \in Working, s \in job[r].level,
         Todo(r) \subseteq job'[r].todo \cup {s}, job'[r].todo \subseteq job[r].todo,
         \A t \in Services \ {s} : srv'[t] = srv[t],
         srv'[s] = srv[s] \/ ~Active(s),
         tpc'[r] = "wait" => Same(s, r)',
         tpc'[r] = "replace" =>
           ~Active(s) /\ assoc' = assoc
  PROVE  Progress(r)'
<1> USE DEF KInv
<1> DEFINE c == Cap(r)
<1>1. Holds(r)
  BY DEF Progress
<1>2. PICK H \in SUBSET Services : Settled(r, H)
  BY DEF Progress
<1>3. Todo(r)' = job'[r].todo \cup {s}
  BY DEF Todo
<1>4. \A d \in Capabilities : assoc[d] = "ACTIVE" /\ ~Active(s) => s \notin Reached(d)
  BY DEF Kept
<1>5. Holds(r)'
  BY <1>1, <1>4 DEF Holds, InHand
<1>6. \A t \in H \cap Reached(c) : Active(t)'
  BY <1>2 DEF Settled, Active
<1>7. tpc'[r] = "replace" => s \notin H \cap Reached(c)
  BY <1>2 DEF Settled
<1>8. H \cup Todo(r) \subseteq H \cup Todo(r)'
  BY <1>3
<1>9. Settled(r, H)'
  BY <1>2, <1>6, <1>7, <1>8 DEF Settled
<1> QED
  BY <1>2, <1>5, <1>9 DEF Progress

\* Looking at a service takes it in hand, or leaves it ACTIVE as it is.
LEMMA CheckKeeps ==
  ASSUME KInv, NEW r \in Requests, NEW s \in Services, CheckService(r, s)
  PROVE  Kept' /\ Progress(r)'
<1> USE DEF KInv
<1>1. /\ job'[r].todo = job[r].todo \ {s} /\ Now(r)' = s /\ s \in job[r].todo
      /\ Cap(r)' = Cap(r) /\ job'[r].level = job[r].level
      /\ srv' = srv /\ assoc' = assoc /\ tpc[r] = "service"
  BY DEF CheckService, TaskAt, TypeOK, Jobs, Cap, Now
<1>2. \/ tpc'[r] = "service" /\ Active(s)
      \/ tpc'[r] \in {"require", "replace"} /\ ~Active(s)
  BY DEF CheckService, TaskGoes, TypeOK, Active
<1>3. s \in job[r].level /\ tpc[r] \in Working
  BY <1>1 DEF Progress, Holds, Working
<1>4. Todo(r) = job[r].todo
  BY <1>1 DEF Todo, InHand
<1> SUFFICES Progress(r)'
  BY <1>1 DEF Kept, Active
<1>5. CASE tpc'[r] = "service"
  BY <1>1, <1>2, <1>3, <1>4, <1>5, HandSettled
<1>6. CASE tpc'[r] \in {"require", "replace"}
  BY <1>1, <1>2, <1>3, <1>4, <1>6, HandStays DEF InHand
<1> QED
  BY <1>2, <1>5, <1>6

\* What the task has in hand between these steps.
LEMMA InHandFacts ==
  ASSUME KInv, NEW r \in Requests, tpc[r] \in InHand
  PROVE  /\ Now(r) \in Services /\ Now(r) \in job[r].level /\ tpc[r] \in Working
         /\ Todo(r) = job[r].todo \cup {Now(r)}
         /\ tpc[r] = "wait" => Same(Now(r), r)
         /\ tpc[r] = "replace" =>
              \A c \in Capabilities : assoc[c] = "ACTIVE" => Now(r) \notin Reached(c)
         /\ \A q \in {Requires[Now(r)]} :
              Now(r) \in Reached(Cap(r)) /\ q # NoService => Active(q)
<1> USE DEF KInv
<1>1. tpc[r] \in Working /\ Holds(r)
  BY DEF Progress, Working
<1>2. Now(r) \in job[r].level /\ job[r].level \subseteq Services
  BY <1>1 DEF Holds, TypeOK, Jobs
<1>3. PICK H \in SUBSET Services : Settled(r, H)
  BY <1>1 DEF Progress
<1>4. ASSUME NEW q, q = Requires[Now(r)], Now(r) \in Reached(Cap(r)), q # NoService
      PROVE  Active(q)
  <2>1. q \in Reached(Cap(r)) /\ q \in Content[Cap(r)]
    BY <1>4, ReachedRequires
  <2> QED  BY <1>2, <1>3, <1>4, <2>1 DEF Settled
<1> QED
  BY <1>1, <1>2, <1>4 DEF Holds, Todo

\* A service passed over is one the capability does not reach: the others that it
\* requires are ACTIVE when its turn comes.
LEMMA RequireKeeps ==
  ASSUME KInv, NEW r \in Requests, CheckRequirement(r)
  PROVE  Kept' /\ Progress(r)'
<1> USE DEF KInv
<1> DEFINE s == Now(r)
<1>1. /\ srv' = srv /\ assoc' = assoc /\ job' = job /\ tpc[r] = "require"
      /\ s' = s /\ Cap(r)' = Cap(r)
  BY DEF CheckRequirement, TaskAt, Now, Cap
<1>2. \/ tpc'[r] = "create"
      \/ tpc'[r] = "service" /\ Requires[s] # NoService /\ ~Active(Requires[s])
  BY DEF CheckRequirement, TaskGoes, TypeOK, Active
<1>3. /\ s \in Services /\ s \in job[r].level /\ tpc[r] \in Working
      /\ Todo(r) = job[r].todo \cup {s}
      /\ s \in Reached(Cap(r)) /\ Requires[s] # NoService => Active(Requires[s])
  BY <1>1, InHandFacts DEF InHand
<1> HIDE DEF s
<1> SUFFICES Progress(r)'
  BY <1>1 DEF Kept, Active
<1>4. CASE tpc'[r] = "create"
  <2>1. Now(r)' = s
    BY <1>1 DEF s
  <2> QED  BY <1>1, <1>3, <1>4, <2>1, HandStays DEF InHand
<1>5. CASE tpc'[r] = "service"
  BY <1>1, <1>2, <1>3, <1>5, HandSettled
<1> QED
  BY <1>2, <1>4, <1>5

\* A task that fails has nothing to show, as long as what is ACTIVE stays so.
LEMMA LossKeeps ==
  ASSUME KInv, NEW s \in Services, assoc' = assoc,
         \A t \in Services \ {s} : srv'[t] = srv[t],
         srv'[s] = srv[s] \/ ~Active(s)
                \/ \A c \in Capabilities : assoc[c] = "ACTIVE" => s \notin Reached(c)
  PROVE  Kept'
<1>1. ASSUME NEW c \in Capabilities, assoc[c] = "ACTIVE", NEW t \in Reached(c)
      PROVE  Active(t)'
  <2>1. Active(t) /\ t \in Services
    BY <1>1, ReachedRequires, ConstantsAssumption DEF KInv, Kept, ConstantsAssumption
  <2> QED  BY <1>1, <2>1 DEF Active
<1> QED
  BY <1>1 DEF Kept

\* Deleting the instance in hand takes no service from an ACTIVE capability.
LEMMA ReplaceKeeps ==
  ASSUME KInv, NEW r \in Requests, ReplaceService(r)
  PROVE  Kept' /\ Progress(r)'
<1> USE DEF KInv
<1> DEFINE s == Now(r)
<1>1. /\ assoc' = assoc /\ job' = job /\ tpc[r] = "replace"
      /\ s' = s /\ Cap(r)' = Cap(r) /\ tpc'[r] \in {"require", "failing"}
      /\ \A t \in Services \ {s} : srv'[t] = srv[t]
  BY DEF ReplaceService, TaskGoes, TaskAt, Now, Cap, TypeOK
<1>2. /\ s \in Services /\ s \in job[r].level /\ tpc[r] \in Working
      /\ Todo(r) = job[r].todo \cup {s}
      /\ \A c \in Capabilities : assoc[c] = "ACTIVE" => s \notin Reached(c)
  BY <1>1, InHandFacts DEF InHand
<1>3. PICK H \in SUBSET Services : Settled(r, H)
  BY <1>2 DEF Progress
<1>4. s \notin H \cap Reached(Cap(r))
  BY <1>1, <1>3 DEF Settled
<1>5. Holds(r)
  BY <1>2 DEF Progress
<1> HIDE DEF s
<1> SUFFICES Progress(r)'
  BY <1>1, <1>2, LossKeeps
<1>7. CASE tpc'[r] = "require"
  <2>1. Holds(r)'
    BY <1>1, <1>2, <1>5, <1>7 DEF Holds, InHand, s
  <2>2. Todo(r)' = Todo(r)
    BY <1>1, <1>7 DEF Todo, InHand, s
  <2>3. \A t \in H \cap Reached(Cap(r)) : Active(t)'
    BY <1>1, <1>3, <1>4 DEF Settled, Active
  <2>4. Settled(r, H)'
    BY <1>1, <1>3, <1>7, <2>2, <2>3 DEF Settled
  <2> QED  BY <2>1, <2>4 DEF Progress
<1>8. CASE tpc'[r] = "failing"
  BY <1>8 DEF Progress, Working, InHand
<1> QED
  BY <1>1, <1>7, <1>8

\* Creating an instance takes none away.
LEMMA CreateKeeps ==
  ASSUME KInv, NEW r \in Requests, CreateService(r)
  PROVE  Kept' /\ Progress(r)'
<1> USE DEF KInv
<1> DEFINE s == Now(r)
<1>1. /\ assoc' = assoc /\ job' = job /\ tpc[r] = "create"
      /\ s' = s /\ Cap(r)' = Cap(r) /\ tpc'[r] \in {"wait", "failing"}
      /\ \A t \in Services \ {s} : srv'[t] = srv[t]
      /\ srv' = srv \/ ~Active(s)
  BY DEF CreateService, TaskGoes, TaskAt, Now, Cap, TypeOK, Active
<1>2. /\ s \in Services /\ s \in job[r].level /\ tpc[r] \in Working
      /\ Todo(r) = job[r].todo \cup {s}
  BY <1>1, InHandFacts DEF InHand
<1>3. tpc'[r] = "wait" => Same(s, r)'
  BY <1>1, <1>2 DEF CreateService, TaskGoes, Same, TypeOK
<1> HIDE DEF s
<1> SUFFICES Progress(r)'
  BY <1>1, <1>2, LossKeeps
<1>5. CASE tpc'[r] = "wait"
  <2>1. Now(r)' = s
    BY <1>1 DEF s
  <2> QED  BY <1>1, <1>2, <1>3, <1>5, <2>1, HandStays DEF InHand
<1>6. CASE tpc'[r] = "failing"
  BY <1>6 DEF Progress, Working, InHand
<1> QED
  BY <1>1, <1>5, <1>6

\* The wait of a task ends well only with its own instance ACTIVE.
LEMMA WaitKeeps ==
  ASSUME KInv, NEW r \in Requests, WaitService(r)
  PROVE  Kept' /\ Progress(r)'
<1> USE DEF KInv
<1> DEFINE s == Now(r)
<1>1. /\ assoc' = assoc /\ srv' = srv /\ job' = job /\ tpc[r] = "wait"
      /\ s' = s /\ Cap(r)' = Cap(r)
  BY DEF WaitService, TaskAt, Now, Cap
<1>2. /\ s \in Services /\ s \in job[r].level /\ tpc[r] \in Working
      /\ Todo(r) = job[r].todo \cup {s} /\ Same(s, r)
  BY <1>1, InHandFacts DEF InHand
<1>3. (tpc'[r] = "service" /\ Active(s)) \/ tpc'[r] = "failing"
  BY <1>2 DEF WaitService, TaskGoes, Active, TypeOK
<1> HIDE DEF s
<1> SUFFICES Progress(r)'
  BY <1>1 DEF Kept, Active
<1>4. CASE tpc'[r] = "service"
  BY <1>1, <1>2, <1>3, <1>4, HandSettled
<1>5. CASE tpc'[r] = "failing"
  BY <1>5 DEF Progress, Working, InHand
<1> QED
  BY <1>3, <1>4, <1>5

LEMMA KeptStep ==
  ASSUME Patient, KInv, [Next]_vars
  PROVE  Kept' /\ \A r \in Requests : Progress(r)'
<1>1. ASSUME NEW r \in Requests, Ask(r) \/ Submit(r)
      PROVE  Kept' /\ \A q \in Requests : Progress(q)'
  BY <1>1, ClientKeeps
<1>2. ASSUME NEW r \in Requests, TaskStep(r)
      PROVE  Kept' /\ \A q \in Requests : Progress(q)'
  <2>1. Kept' /\ Progress(r)'
    BY <1>2, EndsKeep, StartKeeps, LevelKeeps, CheckKeeps, RequireKeeps, ReplaceKeeps,
       CreateKeeps, WaitKeeps DEF TaskStep
  <2>2. TaskPending(r)
    BY <1>2, EngagedSteps DEF KInv, TaskPending
  <2>3. \A q \in Requests \ {r} : tpc'[q] \notin Working
    BY <1>2, <2>2, OthersRest DEF KInv
  <2> QED  BY <2>1, <2>3 DEF Progress
<1>3. ASSUME NEW c \in Capabilities, DropCapability(c)
      PROVE  Kept' /\ \A q \in Requests : Progress(q)'
  BY <1>3 DEF DropCapability, KInv, Kept, Progress, Holds, Settled, Todo, Active, Same, Now, Cap
<1>4. CASE \E s \in Services : BuildService(s)
  BY <1>4, BuildKeeps
<1>5. CASE UNCHANGED vars
  BY <1>5 DEF vars, KInv, Kept, Progress, Holds, Settled, Todo, Active, Same, Now, Cap
<1> QED
  BY <1>1, <1>2, <1>3, <1>4, <1>5 DEF Next

\* When clients are patient an ACTIVE capability has ACTIVE every service that it
\* reaches, whatever calls raise: a task sets it ACTIVE only when all the levels
\* are settled, and no task takes from it a service that it has.
THEOREM ActiveIsComplete == Patient => (Spec => []ActiveMeansServices)
<1> SUFFICES ASSUME Patient PROVE Spec => []ActiveMeansServices
  OBVIOUS
<1>1. Init => KInv
  <2> SUFFICES ASSUME Init PROVE KInv
    OBVIOUS
  <2>1. TypeOK
    BY TypeInductive
  <2>2. \A r \in Requests : rpc[r] = "idle" /\ tpc[r] = "none"
    BY DEF Init
  <2>3. Kept
    BY DEF Init, Kept
  <2> QED
    BY <2>1, <2>2, <2>3
       DEF KInv, OneAtATime, TasksOfRequests, Engaged, TaskPending, Progress, Working, InHand
<1>2. KInv /\ Inv /\ [Next]_vars => KInv'
  BY KeptStep, OneAtATimeStep, InvInductive DEF KInv, Inv
<1>3. Init => Inv
  BY TypeInductive DEF Init, Inv, TasksOfRequests, BuildingOwned
<1>4. KInv => ActiveMeansServices
  BY DEF KInv, Kept, ActiveMeansServices, Active
<1> QED
  BY <1>1, <1>2, <1>3, <1>4, InvInductive, PTL DEF Spec

----------------------------------------------------------------------------
(* Capabilities that overlap, without errors.                              *)

\* Nothing takes the task of r to its failure: what it found, granted and made is
\* as it left it, when it looks again. Only a capability that was deleted fails.
Smooth(r) ==
  /\ tpc[r] = "mark" => (job[r].has <=> assoc[Cap(r)] # "none")
  /\ tpc[r] \in Working =>
       Content[Cap(r)] \subseteq granted /\ job[r].level \cup job[r].todo \subseteq Content[Cap(r)]
  /\ tpc[r] \in InHand => Now(r) \in Content[Cap(r)]
  /\ tpc[r] = "replace" => Same(Now(r), job[r].seen)
  /\ tpc[r] \in {"require", "create"} => srv[Now(r)].status = "absent"
  /\ tpc[r] = "wait" => Same(Now(r), r)
  /\ tpc[r] = "failing" => Cap(r) \in dropped

NoServiceFailed == \A s \in Services : srv[s].status # "ERROR"

EInv ==
  /\ TypeOK /\ OneAtATime /\ TasksOfRequests
  /\ NoServiceFailed /\ OverlapWithoutErrors /\ \A r \in Requests : Smooth(r)

\* No call raises but the one that queues the task.
NoFaults == Faults \subseteq {"dispatch"}

\* A request that waits for its turn knows nothing that could change.
LEMMA RestSmooth ==
  ASSUME NEW r \in Requests, tpc'[r] \notin Working \cup {"mark", "failing"}
  PROVE  Smooth(r)'
BY DEF Smooth, Working, InHand

LEMMA TaskSmooth ==
  ASSUME NoFaults, EInv, NEW r \in Requests, TaskStep(r)
  PROVE  NoServiceFailed' /\ OverlapWithoutErrors' /\ Smooth(r)'
<1> USE DEF EInv
<1>1. /\ tpc \in [Requests -> TaskStages] /\ job \in [Requests -> Jobs] /\ job[r] \in Jobs
      /\ srv \in [Services -> [status : ServiceStatuses, by : Requests \cup {Nobody}]]
      /\ assoc \in [Capabilities -> AssocStatuses]
      /\ Cap(r) \in Capabilities /\ Content[Cap(r)] \subseteq Services
  BY TaskTypes, ConstantsAssumption DEF TypeOK, ConstantsAssumption
<1>2. \A fault \in {"definition", "create", "build", "delete", "timeout"} : ~May(fault)
  BY DEF NoFaults, May
<1>3. Smooth(r)
  OBVIOUS
<1>4. CASE TaskLoads(r)
  <2>1. /\ srv' = srv /\ assoc' = assoc /\ dropped' = dropped /\ Cap(r)' = Cap(r)
        /\ \/ tpc'[r] = "failing" /\ Cap(r) \in dropped
           \/ tpc'[r] = "mark" /\ (job'[r].has <=> assoc[Cap(r)] # "none")
    <3>1. CASE Cap(r) \in dropped
      BY <1>1, <1>4, <3>1 DEF TaskLoads, TaskGoes, Cap
    <3>2. CASE Cap(r) \notin dropped
      <4>1. PICK found \in BOOLEAN : found = (assoc[Cap(r)] # "none")
        OBVIOUS
      <4>2. /\ UNCHANGED <<assoc, dropped, srv>> /\ tpc'[r] = "mark"
            /\ job' = [job EXCEPT ![r].has = found]
        BY <1>1, <1>4, <3>2, <4>1 DEF TaskLoads, TaskGoes
      <4>3. job'[r] = [job[r] EXCEPT !.has = found]
        BY <1>1, <4>2
      <4>4. job'[r].has = found /\ job'[r].cap = job[r].cap
        BY <1>1, <4>3 DEF Jobs
      <4> QED  BY <4>1, <4>2, <4>4 DEF Cap
    <3> QED  BY <3>1, <3>2
  <2> QED  BY <2>1 DEF Smooth, Working, InHand, NoServiceFailed, OverlapWithoutErrors
<1>5. CASE TaskMarksBuilding(r)
  BY <1>1, <1>3, <1>5 DEF TaskMarksBuilding, TaskAt, TaskGoes, Smooth, Working, InHand,
                    NoServiceFailed, OverlapWithoutErrors
<1>6. CASE AddDefinitions(r)
  <2>1. /\ tpc'[r] = "service" /\ Content[Cap(r)] \subseteq granted' /\ Cap(r)' = Cap(r)
        /\ job'[r].level = FirstLevel(Cap(r)) /\ job'[r].todo = FirstLevel(Cap(r))
        /\ srv' = srv /\ assoc' = assoc
    BY <1>1, <1>2, <1>6 DEF AddDefinitions, TaskGoes, Cap, Jobs
  <2>2. FirstLevel(Cap(r)) \subseteq Content[Cap(r)]
    BY DEF FirstLevel
  <2> QED  BY <2>1, <2>2 DEF Smooth, InHand, NoServiceFailed, OverlapWithoutErrors
<1>7. ASSUME NEW s \in Services, CheckService(r, s)
      PROVE  NoServiceFailed' /\ OverlapWithoutErrors' /\ Smooth(r)'
  <2>1. /\ srv' = srv /\ assoc' = assoc /\ granted' = granted /\ Cap(r)' = Cap(r)
        /\ Now(r)' = s /\ s \in job[r].todo /\ tpc[r] = "service"
        /\ job'[r].level = job[r].level /\ job'[r].todo \subseteq job[r].todo
        /\ job'[r].seen = srv[s].by
    BY <1>1, <1>7 DEF CheckService, TaskAt, Cap, Now, Jobs
  <2>2. \/ tpc'[r] = "require" /\ srv[s].status = "absent"
        \/ tpc'[r] = "replace" /\ srv[s].status # "absent"
        \/ tpc'[r] = "service"
    BY <1>1, <1>7 DEF CheckService, TaskGoes
  <2>3. /\ s \in Content[Cap(r)] /\ Content[Cap(r)] \subseteq granted
        /\ job[r].level \cup job[r].todo \subseteq Content[Cap(r)]
    BY <1>3, <2>1 DEF Smooth, Working
  <2> QED
    BY <2>1, <2>2, <2>3 DEF Smooth, InHand, Same, NoServiceFailed, OverlapWithoutErrors
<1>8. CASE NextLevel(r)
  <2>1. /\ tpc'[r] \in {"service", "end"} /\ tpc[r] = "service" /\ Cap(r)' = Cap(r)
        /\ job'[r].level = LevelAfter(Cap(r), job[r].level)
        /\ job'[r].todo = LevelAfter(Cap(r), job[r].level)
        /\ srv' = srv /\ assoc' = assoc /\ granted' = granted
    BY <1>1, <1>8 DEF NextLevel, TaskAt, TaskGoes, Cap, Jobs
  <2>2. LevelAfter(Cap(r), job[r].level) \subseteq Content[Cap(r)]
    BY DEF LevelAfter
  <2>3. Content[Cap(r)] \subseteq granted
    BY <1>3, <2>1 DEF Smooth, Working
  <2> QED  BY <2>1, <2>2, <2>3 DEF Smooth, InHand, NoServiceFailed, OverlapWithoutErrors
<1>9. CASE ReplaceService(r)
  <2>1. /\ tpc[r] = "replace" /\ tpc'[r] = "require" /\ job' = job
        /\ assoc' = assoc /\ granted' = granted
        /\ srv' = [srv EXCEPT ![Now(r)].status = "absent"]
    BY <1>1, <1>2, <1>3, <1>9 DEF ReplaceService, TaskAt, TaskGoes, Smooth
  <2>2. /\ Now(r) \in Content[Cap(r)] /\ Content[Cap(r)] \subseteq granted
        /\ job[r].level \cup job[r].todo \subseteq Content[Cap(r)]
    BY <1>3, <2>1 DEF Smooth, Working, InHand
  <2> QED
    BY <1>1, <2>1, <2>2 DEF Smooth, InHand, Cap, Now, NoServiceFailed, OverlapWithoutErrors
<1>10. CASE CheckRequirement(r)
  <2>1. /\ tpc[r] = "require" /\ tpc'[r] \in {"create", "service"} /\ job' = job
        /\ assoc' = assoc /\ granted' = granted /\ srv' = srv
    BY <1>1, <1>10 DEF CheckRequirement, TaskAt, TaskGoes
  <2> QED
    BY <1>3, <2>1 DEF Smooth, Working, InHand, Cap, Now, NoServiceFailed, OverlapWithoutErrors
<1>11. CASE CreateService(r)
  <2>1. /\ tpc[r] = "create" /\ srv[Now(r)].status = "absent"
        /\ Now(r) \in Content[Cap(r)] /\ Content[Cap(r)] \subseteq granted
        /\ job[r].level \cup job[r].todo \subseteq Content[Cap(r)]
    BY <1>3, <1>11 DEF CreateService, TaskAt, Smooth, Working, InHand
  <2>2. /\ tpc'[r] = "wait" /\ job' = job /\ assoc' = assoc /\ granted' = granted
        /\ srv' = [srv EXCEPT ![Now(r)] = [status |-> "BUILDING", by |-> r]]
    BY <1>1, <1>2, <1>11, <2>1 DEF CreateService, TaskGoes
  <2> QED
    BY <1>1, <2>1, <2>2
       DEF Smooth, InHand, Same, Cap, Now, NoServiceFailed, OverlapWithoutErrors
<1>12. CASE WaitService(r)
  <2>1. Same(Now(r), r) /\ tpc[r] = "wait" /\ srv[Now(r)].status # "ERROR"
    BY <1>1, <1>3, <1>12 DEF WaitService, TaskAt, Smooth, InHand, NoServiceFailed
  <2>2. /\ tpc'[r] = "service" /\ job' = job /\ assoc' = assoc /\ granted' = granted
        /\ srv' = srv
    BY <1>1, <1>2, <1>12, <2>1 DEF WaitService, TaskGoes
  <2> QED
    BY <1>3, <2>1, <2>2
       DEF Smooth, Working, InHand, Cap, NoServiceFailed, OverlapWithoutErrors
<1>13. CASE TaskActivates(r)
  BY <1>1, <1>13 DEF TaskActivates, TaskGoes, Smooth, Cap, Working, InHand,
                     NoServiceFailed, OverlapWithoutErrors
<1>14. CASE TaskFailure(r)
  <2>1. Cap(r) \in dropped
    BY <1>3, <1>14 DEF TaskFailure, TaskAt, Smooth
  <2>2. tpc'[r] = "ended" /\ assoc' = assoc /\ srv' = srv
    BY <1>1, <1>14, <2>1 DEF TaskFailure, TaskGoes
  <2> QED
    BY <2>2 DEF Smooth, Working, InHand, NoServiceFailed, OverlapWithoutErrors
<1> QED
  BY <1>4, <1>5, <1>6, <1>7, <1>8, <1>9, <1>10, <1>11, <1>12, <1>13, <1>14 DEF TaskStep

LEMMA SmoothStep ==
  ASSUME Patient, NoFaults, EInv, [Next]_vars
  PROVE  NoServiceFailed' /\ OverlapWithoutErrors' /\ \A r \in Requests : Smooth(r)'
<1> USE DEF EInv
<1>1. ASSUME NEW r \in Requests, Ask(r) \/ Submit(r) \/ TaskStep(r)
      PROVE  \A q \in Requests \ {r} : tpc'[q] \in {"none", "ended"}
  <2>1. /\ \A q \in Requests \ {r} : tpc'[q] = tpc[q]
        /\ Engaged(r) \/ Ask(r)
    BY <1>1, EngagedSteps
  <2>2. Ask(r) => \A q \in Requests : ~TaskPending(q)
    BY DEF Ask, AddCapability, UpdateCapability, MayAsk
  <2> QED  BY <2>1, <2>2 DEF OneAtATime, Engaged, TaskPending
<1>2. ASSUME NEW r \in Requests, Ask(r) \/ Submit(r)
      PROVE  NoServiceFailed' /\ OverlapWithoutErrors' /\ \A q \in Requests : Smooth(q)'
  <2>1. assoc' = assoc /\ srv' = srv
    BY <1>2 DEF Ask, AddCapability, UpdateCapability, Submit
  <2>2. tpc[r] = "none"
    BY <1>2 DEF Ask, AddCapability, UpdateCapability, MayAsk, Submit, OneAtATime, TasksOfRequests
  <2>3. tpc'[r] \in {"none", "queued"}
    BY <1>2, <2>2 DEF Ask, AddCapability, UpdateCapability, Submit, TaskGoes, TypeOK
  <2>4. \A q \in Requests : Smooth(q)'
    BY <1>1, <1>2, <2>3, RestSmooth DEF Working, InHand
  <2> QED  BY <2>1, <2>4 DEF NoServiceFailed, OverlapWithoutErrors
<1>3. ASSUME NEW r \in Requests, TaskStep(r)
      PROVE  NoServiceFailed' /\ OverlapWithoutErrors' /\ \A q \in Requests : Smooth(q)'
  <2>1. \A q \in Requests \ {r} : Smooth(q)'
    BY <1>1, <1>3, RestSmooth DEF Working, InHand
  <2> QED  BY <1>3, <2>1, TaskSmooth
<1>4. ASSUME NEW c \in Capabilities, DropCapability(c)
      PROVE  NoServiceFailed' /\ OverlapWithoutErrors' /\ \A q \in Requests : Smooth(q)'
  BY <1>4 DEF DropCapability, NoServiceFailed, OverlapWithoutErrors, Smooth, Same, Cap, Now
<1>5. ASSUME NEW s \in Services, BuildService(s)
      PROVE  NoServiceFailed' /\ OverlapWithoutErrors' /\ \A q \in Requests : Smooth(q)'
  <2>1. /\ srv[s].status = "BUILDING" /\ srv' = [srv EXCEPT ![s].status = "ACTIVE"]
        /\ UNCHANGED <<assoc, dropped, granted, tpc, job>>
    BY <1>5 DEF BuildService, NoFaults, May
  <2>2. /\ \A t \in Services \ {s} : srv'[t] = srv[t]
        /\ srv'[s].status = "ACTIVE" /\ srv'[s].by = srv[s].by
    BY <2>1 DEF TypeOK
  <2>3. ASSUME NEW q \in Requests PROVE Smooth(q)'
    <3>1. tpc[q] \in InHand => Now(q) \in Services
      BY TaskTypes, ConstantsAssumption DEF Smooth, ConstantsAssumption
    <3> QED  BY <2>1, <2>2, <3>1 DEF Smooth, Same, Cap, Now, InHand
  <2> QED  BY <2>1, <2>2, <2>3 DEF NoServiceFailed, OverlapWithoutErrors
<1>6. CASE UNCHANGED vars
  BY <1>6 DEF vars, NoServiceFailed, OverlapWithoutErrors, Smooth, Same, Cap, Now
<1> QED
  BY <1>2, <1>3, <1>4, <1>5, <1>6 DEF Next

\* The docstring of add_or_update_capability is right when clients are patient and
\* no call raises: capabilities that overlap are added without errors. So it is the
\* race of two requests that breaks it, whatever they ask for.
THEOREM PatientOverlap == Patient /\ NoFaults => (Spec => []OverlapWithoutErrors)
<1> SUFFICES ASSUME Patient, NoFaults PROVE Spec => []OverlapWithoutErrors
  OBVIOUS
<1>1. Init => EInv
  <2> SUFFICES ASSUME Init PROVE EInv
    OBVIOUS
  <2>1. TypeOK
    BY TypeInductive
  <2>2. \A r \in Requests : rpc[r] = "idle" /\ tpc[r] = "none"
    BY DEF Init
  <2>3. NoServiceFailed /\ OverlapWithoutErrors
    BY DEF Init, NoServiceFailed, OverlapWithoutErrors
  <2> QED
    BY <2>1, <2>2, <2>3
       DEF EInv, OneAtATime, TasksOfRequests, Engaged, TaskPending, Smooth, Working, InHand
<1>2. EInv /\ Inv /\ [Next]_vars => EInv'
  BY SmoothStep, OneAtATimeStep, InvInductive DEF EInv, Inv
<1>3. Init => Inv
  BY TypeInductive DEF Init, Inv, TasksOfRequests, BuildingOwned
<1>4. EInv => OverlapWithoutErrors
  BY DEF EInv
<1> QED
  BY <1>1, <1>2, <1>3, <1>4, InvInductive, PTL DEF Spec
=============================================================================
