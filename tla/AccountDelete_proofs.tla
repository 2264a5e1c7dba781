----------------------- MODULE AccountDelete_proofs -----------------------
(* Theorems about AccountDelete for every set of services, tags, requests.   *)
EXTENDS AccountDelete, FiniteSetTheorems, WellFoundedInduction, TLAPS

----------------------------------------------------------------------------
(* Type correctness.                                                       *)

\* A job that holds nothing but the options of its request.
LEMMA NewJobType ==
  ASSUME NEW opts \in SUBSET Options
  PROVE  Job(opts) \in Jobs
BY DEF Job, Jobs, Statuses

\* The parts of a job.
LEMMA JobType ==
  ASSUME TypeOK, NEW r \in Requests
  PROVE  /\ job[r] \in Jobs
         /\ job[r].opts \in SUBSET Options
         /\ job[r].left \in SUBSET Services
         /\ job[r].now \in Services \cup {NoService}
BY DEF TypeOK, Jobs

\* A task that ends forgets its job.
LEMMA EndsType ==
  ASSUME TypeOK, NEW r \in Requests, NEW stage \in {"ended", "failed"},
         TaskEnds(r, stage)
  PROVE  /\ job' \in [Requests -> Jobs]
         /\ tpc' \in [Requests -> {"none", "services", "deleting", "removing", "tags",
                                   "untagging", "account", "status", "ended", "failed"}]
<1>1. Job({}) \in Jobs
  BY NewJobType
<1> QED
  BY <1>1 DEF TaskEnds, TaskGoes, TypeOK

\* Writes to one row of the table of services.
LEMMA RowWrites ==
  ASSUME TypeOK, NEW s \in Services
  PROVE  /\ Gone(s) \in [Services -> Rows]
         /\ \A status \in Statuses :
              [svc EXCEPT ![s].status = status] \in [Services -> Rows]
<1>1. svc \in [Services -> Rows] /\ svc[s] \in Rows
  BY DEF TypeOK
<1>2. \A status \in Statuses :
        [svc EXCEPT ![s].status = status] \in [Services -> Rows]
  BY <1>1 DEF Rows
<1>3. [svc[s] EXCEPT !.state = "deleted", !.status = "DELETED"] \in Rows
  BY <1>1 DEF Rows, Statuses
<1>4. Gone(s) = [svc EXCEPT ![s] = [svc[s] EXCEPT !.state = "deleted", !.status = "DELETED"]]
  BY <1>1 DEF Gone
<1> QED
  BY <1>1, <1>2, <1>3, <1>4

\* Writes to one job.
LEMMA JobWrites ==
  ASSUME TypeOK, NEW r \in Requests
  PROVE  /\ \A s \in Services : [job EXCEPT ![r].now = s] \in [Requests -> Jobs]
         /\ \A L \in SUBSET Services : [job EXCEPT ![r].left = L] \in [Requests -> Jobs]
         /\ \A T \in SUBSET Tags : [job EXCEPT ![r].tags = T] \in [Requests -> Jobs]
         /\ \A L \in SUBSET Services, up \in [Services -> Services \cup {NoService}],
               st \in [Services -> Statuses] :
              [job EXCEPT ![r].left = L, ![r].under = up, ![r].seen = st]
                \in [Requests -> Jobs]
<1>1. job \in [Requests -> Jobs] /\ job[r] \in Jobs
  BY DEF TypeOK
<1>2. \A s \in Services : [job[r] EXCEPT !.now = s] \in Jobs
  BY <1>1 DEF Jobs
<1>3. \A L \in SUBSET Services : [job[r] EXCEPT !.left = L] \in Jobs
  BY <1>1 DEF Jobs
<1>4. \A T \in SUBSET Tags : [job[r] EXCEPT !.tags = T] \in Jobs
  BY <1>1 DEF Jobs
<1>5. \A L \in SUBSET Services, up \in [Services -> Services \cup {NoService}],
        st \in [Services -> Statuses] :
         [job[r] EXCEPT !.left = L, !.under = up, !.seen = st] \in Jobs
  BY <1>1 DEF Jobs
<1>6. \A L, up, st :
         [job EXCEPT ![r].left = L, ![r].under = up, ![r].seen = st]
           = [job EXCEPT ![r] = [job[r] EXCEPT !.left = L, !.under = up, !.seen = st]]
  BY <1>1
<1> QED
  BY <1>1, <1>2, <1>3, <1>4, <1>5, <1>6

\* Clients that create and delete services keep the type invariant.
LEMMA ServiceType ==
  ASSUME TypeOK, NEW s \in Services,
         Create(s) \/ Build(s) \/ DeleteByClient(s) \/ LateWrite(s)
  PROVE  TypeOK'
<1>1. CASE AddCheck(s)
  BY <1>1 DEF AddCheck, TypeOK
<1>2. CASE AddInsert(s)
  BY <1>2 DEF AddInsert, SetService, NoRow, Rows, Statuses, TypeOK
<1>3. CASE AddLink(s)
  <2>1. svc' \in [Services -> Rows]
    <3> DEFINE linked == (Parent[s] # NoService)
    <3>0. svc[s] \in Rows /\ linked \in BOOLEAN
      BY DEF TypeOK
    <3> HIDE DEF linked
    <3>1. [svc[s] EXCEPT !.status = "BUILDING", !.linked = linked] \in Rows
      BY <3>0 DEF Rows, Statuses
    <3>2. [svc EXCEPT ![s].status = "BUILDING", ![s].linked = linked]
            = [svc EXCEPT ![s] = [svc[s] EXCEPT !.status = "BUILDING", !.linked = linked]]
      BY DEF TypeOK
    <3>3. [svc EXCEPT ![s].status = "BUILDING", ![s].linked = linked]
            \in [Services -> Rows]
      BY <3>1, <3>2 DEF TypeOK
    <3>4. CASE svc' = [svc EXCEPT ![s].status = "BUILDING", ![s].linked = linked]
      BY <3>3, <3>4
    <3>5. CASE svc' = [svc EXCEPT ![s].status = "ERROR"]
      BY <3>5, RowWrites DEF Statuses
    <3> QED
      BY <1>3, <3>4, <3>5 DEF AddLink, linked
  <2> QED
    BY <1>3, <2>1 DEF AddLink, TypeOK
<1>4. CASE Build(s) \/ DeleteByClient(s) \/ LateWrite(s)
  <2>1. svc' \in [Services -> Rows]
    BY <1>4, RowWrites DEF Build, DeleteByClient, LateWrite, Statuses
  <2> QED
    BY <1>4, <2>1 DEF Build, DeleteByClient, LateWrite, TypeOK
<1> QED
  BY <1>1, <1>2, <1>3, <1>4 DEF Create

\* Writes to the row of the account.
LEMMA AccountWrites ==
  ASSUME TypeOK
  PROVE  LET Accounts == [visible : BOOLEAN, status : {"ACTIVE", "CLOSED", "DELETED"}]
         IN  /\ [acct EXCEPT !.visible = FALSE] \in Accounts
             /\ [acct EXCEPT !.status = "DELETED"] \in Accounts
             /\ Closed \in Accounts
<1>1. acct \in [visible : BOOLEAN, status : {"ACTIVE", "CLOSED", "DELETED"}]
  BY DEF TypeOK
<1>2. [acct EXCEPT !.visible = FALSE]
        \in [visible : BOOLEAN, status : {"ACTIVE", "CLOSED", "DELETED"}]
  BY <1>1
<1>3. [acct EXCEPT !.status = "DELETED"]
        \in [visible : BOOLEAN, status : {"ACTIVE", "CLOSED", "DELETED"}]
  BY <1>1
<1> QED
  BY <1>2, <1>3 DEF Closed

\* So do the requests to delete the account.
LEMMA RequestType ==
  ASSUME TypeOK, NEW r \in Requests, Ask(r) \/ AskAgain(r) \/ RequestStep(r)
  PROVE  TypeOK'
<1>1. CASE Ask(r)
  <2>1. PICK opts \in SUBSET Options : CheckDelete(r, opts)
    BY <1>1 DEF Ask
  <2>2. job' \in [Requests -> Jobs]
    BY <2>1, NewJobType DEF CheckDelete, TypeOK
  <2> QED
    BY <2>1, <2>2 DEF CheckDelete, RequestGoes, TypeOK
<1>2. CASE AskAgain(r)
  BY <1>2 DEF AskAgain, RequestGoes, TaskGoes, TypeOK
<1>3. CASE Submit(r)
  BY <1>3 DEF Submit, RequestGoes, TaskGoes, TypeOK
<1>4. CASE SyncDelete(r) \/ SyncClose(r) \/ SyncStatus(r)
  <2>1. acct' \in [visible : BOOLEAN, status : {"ACTIVE", "CLOSED", "DELETED"}]
    BY <1>4, AccountWrites DEF SyncDelete, SyncClose, SyncStatus
  <2>2. rpc' \in [Requests -> {"idle", "checked", "sync", "sync_close", "sync_status",
                              "done", "failed"}]
    <3>1. \E stage \in {"sync_close", "sync_status", "done", "failed"} :
            rpc' = [rpc EXCEPT ![r] = stage]
      BY <1>4 DEF SyncDelete, SyncClose, SyncStatus, RequestGoes
    <3> QED
      BY <3>1 DEF TypeOK
  <2>3. UNCHANGED <<svc, tags, cpc, tpc, job>>
    BY <1>4 DEF SyncDelete, SyncClose, SyncStatus
  <2> QED
    BY <2>1, <2>2, <2>3 DEF TypeOK
<1> QED
  BY <1>1, <1>2, <1>3, <1>4 DEF RequestStep

\* And the steps of its task.
LEMMA TaskType ==
  ASSUME TypeOK, NEW r \in Requests, TaskStep(r)
  PROVE  TypeOK'
<1>1. CASE AccountLost(r)
  BY <1>1, EndsType DEF AccountLost, TypeOK
<1>2. CASE IndexServices(r)
  <2>1. InTrees \subseteq Services
    BY DEF InTrees
  <2>2. [s \in Services |-> IF s \in InTrees THEN ParentOf(s) ELSE NoService]
          \in [Services -> Services \cup {NoService}]
    BY ConstantsAssumption DEF ConstantsAssumption, ParentOf
  <2>3. [s \in Services |-> IF s \in InTrees THEN svc[s].status ELSE "DRAFT"]
          \in [Services -> Statuses]
    BY DEF TypeOK, Rows, Statuses
  <2>4. job' \in [Requests -> Jobs]
    BY <1>2, <2>1, <2>2, <2>3, JobWrites DEF IndexServices
  <2> QED
    BY <1>2, <2>4 DEF IndexServices, TaskGoes, TypeOK
<1>3. ASSUME NEW s \in Services, DeleteService(r, s)
      PROVE  TypeOK'
  <2>1. CASE TaskEnds(r, "failed") /\ UNCHANGED svc
    BY <1>3, <2>1, EndsType DEF DeleteService, TypeOK
  <2>2. CASE /\ svc' = [svc EXCEPT ![s].status = "DELETING"]
             /\ job' = [job EXCEPT ![r].now = s]
             /\ TaskGoes(r, "removing")
    <3>1. svc' \in [Services -> Rows]
      BY <2>2, RowWrites DEF Statuses
    <3>2. job' \in [Requests -> Jobs]
      BY <2>2, JobWrites
    <3> QED
      BY <1>3, <2>2, <3>1, <3>2 DEF DeleteService, TaskGoes, TypeOK
  <2> QED
    BY <1>3, <2>1, <2>2 DEF DeleteService
<1>4. CASE RemoveService(r)
  <2> DEFINE s == job[r].now
  <2>1. CASE /\ Live(s) /\ svc' = Gone(s)
             /\ job' = [job EXCEPT ![r].left = @ \ {s}]
             /\ TaskGoes(r, "deleting")
    <3>1. svc' \in [Services -> Rows]
      <4>1. CASE s \in Services
        BY <2>1, <4>1, RowWrites
      <4>2. CASE s \notin Services
        BY <2>1, <4>2 DEF Gone, TypeOK
      <4> QED
        BY <4>1, <4>2
    <3>2. job' \in [Requests -> Jobs]
      <4>1. job[r].left \ {s} \in SUBSET Services
        BY JobType
      <4> QED
        BY <2>1, <4>1, JobWrites
    <3> QED
      BY <1>4, <2>1, <3>1, <3>2 DEF RemoveService, TaskGoes, TypeOK
  <2>2. CASE svc' = [svc EXCEPT ![s].status = "ERROR"] /\ TaskEnds(r, "failed")
    <3>1. svc' \in [Services -> Rows]
      <4>1. CASE s \in Services
        BY <2>2, <4>1, RowWrites DEF Statuses
      <4>2. CASE s \notin Services
        BY <2>2, <4>2 DEF TypeOK
      <4> QED
        BY <4>1, <4>2
    <3> QED
      BY <1>4, <2>2, <3>1, EndsType DEF RemoveService, TypeOK
  <2> QED
    BY <1>4, <2>1, <2>2 DEF RemoveService
<1>5. CASE ServicesDone(r)
  <2>1. job' \in [Requests -> Jobs]
    BY <1>5, JobType, NewJobType DEF ServicesDone, TypeOK
  <2> QED
    BY <1>5, <2>1 DEF ServicesDone, TaskGoes, TypeOK
<1>6. CASE ListTags(r)
  <2>1. job' \in [Requests -> Jobs]
    BY <1>6, JobWrites DEF ListTags, TypeOK
  <2> QED
    BY <1>6, <2>1 DEF ListTags, TaskGoes, TypeOK
<1>7. ASSUME NEW t \in Tags, DeleteTag(r, t)
      PROVE  TypeOK'
  <2>1. CASE tags' = tags \ {t} /\ job' = [job EXCEPT ![r].tags = @ \ {t}] /\ tpc' = tpc
    <3>1. job' \in [Requests -> Jobs]
      <4>1. job[r].tags \ {t} \in SUBSET Tags
        BY DEF TypeOK, Jobs
      <4> QED
        BY <2>1, <4>1, JobWrites
    <3> QED
      BY <1>7, <2>1, <3>1 DEF DeleteTag, TypeOK
  <2>2. CASE TaskEnds(r, "failed") /\ tags' = tags
    BY <1>7, <2>2, EndsType DEF DeleteTag, TypeOK
  <2> QED
    BY <1>7, <2>1, <2>2 DEF DeleteTag
<1>8. CASE TagsDone(r) \/ DeleteAccount(r)
  BY <1>8 DEF TagsDone, DeleteAccount, TaskGoes, TypeOK
<1>9. CASE CloseAccount(r) \/ MarkDeleted(r)
  <2>1. acct' \in [visible : BOOLEAN, status : {"ACTIVE", "CLOSED", "DELETED"}]
    BY <1>9, AccountWrites DEF CloseAccount, MarkDeleted
  <2>2. PICK stage \in {"ended", "failed"} : TaskEnds(r, stage)
    BY <1>9 DEF CloseAccount, MarkDeleted
  <2>3. UNCHANGED <<svc, tags, cpc, rpc>>
    BY <1>9 DEF CloseAccount, MarkDeleted
  <2> QED
    BY <2>1, <2>2, <2>3, EndsType DEF TypeOK
<1> QED
  BY <1>1, <1>2, <1>3, <1>4, <1>5, <1>6, <1>7, <1>8, <1>9 DEF TaskStep

\* The type invariant holds at the start and is kept by every step.
LEMMA TypeInductive ==
  /\ Init => TypeOK
  /\ TypeOK /\ [Next]_vars => TypeOK'
<1>1. ASSUME Init PROVE TypeOK
  <2>1. Job({}) \in Jobs
    BY NewJobType
  <2> QED
    BY <1>1, <2>1 DEF Init, TypeOK, Rows, NoRow, Statuses
<1>2. ASSUME TypeOK, [Next]_vars PROVE TypeOK'
  <2>1. CASE UNCHANGED vars
    BY <1>2, <2>1 DEF vars, TypeOK
  <2>2. ASSUME NEW t \in Tags, AddTag(t) PROVE TypeOK'
    BY <1>2, <2>2 DEF AddTag, TypeOK
  <2> QED
    BY <1>2, <2>1, <2>2, ServiceType, RequestType, TaskType DEF Next
<1> QED
  BY <1>1, <1>2

\* AccountDelete is type correct, whatever trees the services form.
THEOREM TypeCorrect == Spec => []TypeOK
BY TypeInductive, PTL DEF Spec

----------------------------------------------------------------------------
(* Clients that create nothing while they delete.                          *)

\* Under Quiet a creation is under way only in an active account that nobody
\* deletes.
CreatedQuietly == Creating => IsActive /\ ~Deleting

\* Whoever makes the account inactive is deleting it.
LEMMA ActiveUnlessDeleting ==
  ASSUME [Next]_vars, IsActive, ~Deleting
  PROVE  IsActive'
<1>1. CASE UNCHANGED vars
  BY <1>1 DEF vars, IsActive
<1>2. ASSUME NEW s \in Services, Create(s) \/ Build(s) \/ DeleteByClient(s) \/ LateWrite(s)
      PROVE  acct' = acct
  BY <1>2 DEF Create, AddCheck, AddInsert, AddLink, Build, DeleteByClient, LateWrite
<1>3. ASSUME NEW t \in Tags, AddTag(t)
      PROVE  acct' = acct
  BY <1>3 DEF AddTag
<1>4. ASSUME NEW r \in Requests, Ask(r) \/ AskAgain(r) \/ RequestStep(r) \/ TaskStep(r)
      PROVE  acct' = acct
  <2>1. rpc[r] \notin {"checked", "sync", "sync_close", "sync_status"}
        /\ tpc[r] \in {"none", "ended", "failed"}
    BY DEF Deleting
  <2>2. ~RequestStep(r) /\ ~TaskStep(r)
    BY <2>1 DEF RequestStep, Submit, SyncDelete, SyncClose, SyncStatus, TaskStep,
                AccountLost, IndexServices, DeleteService, RemoveService, ServicesDone,
                ListTags, DeleteTag, TagsDone, CloseAccount, DeleteAccount, MarkDeleted
  <2> QED
    BY <1>4, <2>2 DEF Ask, CheckDelete, AskAgain
<1> QED
  BY <1>1, <1>2, <1>3, <1>4 DEF Next, IsActive

\* CreatedQuietly is kept by every step.
LEMMA QuietStep ==
  ASSUME Quiet, TypeOK, CreatedQuietly, [Next]_vars
  PROVE  CreatedQuietly'
<1>1. CASE UNCHANGED vars
  BY <1>1 DEF vars, CreatedQuietly, Creating, Deleting, IsActive
<1>2. ASSUME NEW s \in Services, AddCheck(s)
      PROVE  CreatedQuietly'
  <2>1. IsActive /\ ~Deleting /\ UNCHANGED <<acct, rpc, tpc>>
    BY <1>2 DEF AddCheck
  <2> QED
    BY <2>1 DEF CreatedQuietly, IsActive, Deleting
<1>3. ASSUME NEW s \in Services,
             AddInsert(s) \/ AddLink(s) \/ Build(s) \/ DeleteByClient(s) \/ LateWrite(s)
      PROVE  CreatedQuietly'
  <2>1. UNCHANGED <<acct, rpc, tpc>> /\ (Creating' => Creating)
    BY <1>3 DEF AddInsert, AddLink, Build, DeleteByClient, LateWrite, Creating, TypeOK
  <2> QED
    BY <2>1 DEF CreatedQuietly, IsActive, Deleting
<1>4. ASSUME NEW t \in Tags, AddTag(t)
      PROVE  CreatedQuietly'
  BY <1>4 DEF AddTag, CreatedQuietly, Creating, IsActive, Deleting
<1>5. ASSUME NEW r \in Requests, Ask(r) \/ AskAgain(r) \/ RequestStep(r) \/ TaskStep(r)
      PROVE  CreatedQuietly'
  <2>1. Creating' => Creating
    BY <1>5 DEF Ask, CheckDelete, AskAgain, RequestStep, Submit, SyncDelete, SyncClose,
                SyncStatus, TaskStep, AccountLost, IndexServices, DeleteService,
                RemoveService, ServicesDone, ListTags, DeleteTag, TagsDone, CloseAccount,
                DeleteAccount, MarkDeleted, Creating
  <2>2. ASSUME Creating
        PROVE  IsActive' /\ ~Deleting'
    <3>1. IsActive /\ ~Deleting
      BY <2>2 DEF CreatedQuietly
    <3>2. IsActive'
      BY <3>1, ActiveUnlessDeleting
    <3>3. rpc[r] \notin {"checked", "sync", "sync_close", "sync_status"}
          /\ tpc[r] \in {"none", "ended", "failed"}
      BY <3>1 DEF Deleting
    <3>4. AskAgain(r)
      BY <1>5, <2>2, <3>3
         DEF Ask, CheckDelete, RequestStep, Submit, SyncDelete, SyncClose, SyncStatus,
             TaskStep, AccountLost, IndexServices, DeleteService, RemoveService,
             ServicesDone, ListTags, DeleteTag, TagsDone, CloseAccount, DeleteAccount,
             MarkDeleted
    <3> QED
      BY <3>1, <3>2, <3>4 DEF AskAgain, RequestGoes, TaskGoes, Deleting, TypeOK
  <2> QED
    BY <2>1, <2>2 DEF CreatedQuietly
<1> QED
  BY <1>1, <1>2, <1>3, <1>4, <1>5 DEF Next, Create

\* When clients create nothing in an account they are deleting, no service
\* appears in an account that is deleted or closed: the check of can_instantiate
\* still holds when the row is inserted, however many deletions race and whatever
\* raises. (Without Quiet it does not.)
THEOREM QuietAccountsTakeNoService == Quiet => (Spec => InactiveTakesNoService)
<1> SUFFICES ASSUME Quiet PROVE Spec => InactiveTakesNoService
  OBVIOUS
<1>1. Init => CreatedQuietly
  BY DEF Init, CreatedQuietly, Creating
<1>2. TypeOK /\ CreatedQuietly /\ [Next]_vars => CreatedQuietly'
  BY QuietStep
<1>3. ASSUME TypeOK, CreatedQuietly, [Next]_vars, ~IsActive, NEW s \in Services, Live(s)'
      PROVE  Live(s)
  <2>1. ~Creating
    BY <1>3 DEF CreatedQuietly
  <2>2. \A t \in Services : ~AddInsert(t)
    BY <2>1 DEF Creating, AddInsert
  <2>3. svc \in [Services -> Rows]
    BY <1>3 DEF TypeOK
  <2>4. ASSUME NEW t \in Services,
               Create(t) \/ Build(t) \/ DeleteByClient(t) \/ LateWrite(t)
        PROVE  svc'[s].state \in {svc[s].state, "deleted"}
    BY <2>2, <2>3, <2>4
       DEF Create, AddCheck, AddLink, Build, DeleteByClient, LateWrite, Gone, Rows
  <2>5. ASSUME NEW r \in Requests, Ask(r) \/ AskAgain(r) \/ RequestStep(r) \/ TaskStep(r)
        PROVE  svc'[s].state \in {svc[s].state, "deleted"}
    <3>1. CASE \E t \in Services : DeleteService(r, t)
      BY <2>3, <3>1 DEF DeleteService, Rows
    <3>2. CASE RemoveService(r)
      BY <2>3, <3>2 DEF RemoveService, Gone, Rows
    <3>3. CASE svc' = svc
      BY <3>3
    <3> QED
      BY <2>5, <3>1, <3>2, <3>3
         DEF Ask, CheckDelete, AskAgain, RequestStep, Submit, SyncDelete, SyncClose,
             SyncStatus, TaskStep, AccountLost, IndexServices, ServicesDone, ListTags,
             DeleteTag, TagsDone, CloseAccount, DeleteAccount, MarkDeleted
  <2>6. ASSUME NEW t \in Tags, AddTag(t)
        PROVE  svc' = svc
    BY <2>6 DEF AddTag
  <2>7. svc'[s].state \in {svc[s].state, "deleted"}
    BY <1>3, <2>4, <2>5, <2>6 DEF Next, vars
  <2> QED
    BY <1>3, <2>7 DEF Live
<1>4. TypeOK /\ CreatedQuietly /\ [Next]_vars
        => [~IsActive => \A s \in Services : Live(s)' => Live(s)]_vars
  BY <1>3
<1> QED
  BY <1>1, <1>2, <1>4, TypeInductive, PTL DEF Spec, InactiveTakesNoService

----------------------------------------------------------------------------
(* The tags of an account.                                                 *)

SyncStages == {"sync", "sync_close", "sync_status"}

\* A request has a task once it is answered.
TasksOfRequests == \A r \in Requests : tpc[r] # "none" => rpc[r] = "done"

\* What request r knows of the tags: that there are none, if it was not asked to
\* delete them; which ones there were, while it deletes them; that none is left.
KnowsTags(r) ==
  /\ rpc[r] = "checked" \/ tpc[r] \in {"services", "deleting", "removing"}
       => "tags" \in job[r].opts \/ tags = {}
  /\ rpc[r] \in SyncStages => tags = {}
  /\ tpc[r] = "untagging" => tags \subseteq job[r].tags
  /\ tpc[r] \in {"account", "status"} => tags = {}

TagInv ==
  CreatedQuietly /\ TasksOfRequests /\ NoTagOutlives /\ \A r \in Requests : KnowsTags(r)

\* A request that is under way.
Works(r) == rpc[r] \in {"checked"} \cup SyncStages \/ tpc[r] \notin {"none", "ended", "failed"}

Own(r) == Ask(r) \/ AskAgain(r) \/ RequestStep(r) \/ TaskStep(r)

Clients(s) == Create(s) \/ Build(s) \/ DeleteByClient(s) \/ LateWrite(s)

\* A step is a client's, or of one request.
LEMMA StepKinds ==
  ASSUME [Next]_vars
  PROVE  \/ UNCHANGED vars
         \/ \E s \in Services : Clients(s)
         \/ \E t \in Tags : AddTag(t)
         \/ \E r \in Requests : Own(r)
BY DEF Next, Clients, Own

\* A client's step leaves the requests alone, and one request the others.
LEMMA OthersStay ==
  ASSUME TypeOK, [Next]_vars, NEW q \in Requests
  PROVE  \/ Own(q)
         \/ rpc'[q] = rpc[q] /\ tpc'[q] = tpc[q] /\ job'[q] = job[q]
<1>1. CASE UNCHANGED vars
  BY <1>1 DEF vars
<1>2. ASSUME NEW s \in Services, Clients(s)
      PROVE  UNCHANGED <<rpc, tpc, job>>
  BY <1>2 DEF Clients, Create, AddCheck, AddInsert, AddLink, Build, DeleteByClient, LateWrite
<1>3. ASSUME NEW t \in Tags, AddTag(t)
      PROVE  UNCHANGED <<rpc, tpc, job>>
  BY <1>3 DEF AddTag
<1>4. ASSUME NEW r \in Requests, Own(r), r # q
      PROVE  rpc'[q] = rpc[q] /\ tpc'[q] = tpc[q] /\ job'[q] = job[q]
  <2>1. /\ rpc' = rpc \/ \E stage : rpc' = [rpc EXCEPT ![r] = stage]
        /\ tpc' = tpc \/ \E stage : tpc' = [tpc EXCEPT ![r] = stage]
        /\ job'[q] = job[q]
    <3>0. job \in [Requests -> Jobs]
      BY DEF TypeOK
    <3>1. CASE Ask(r) \/ AskAgain(r)
      BY <1>4, <3>0, <3>1 DEF Ask, CheckDelete, AskAgain, RequestGoes, TaskGoes
    <3>2. CASE RequestStep(r)
      BY <1>4, <3>2 DEF RequestStep, Submit, SyncDelete, SyncClose, SyncStatus, RequestGoes, TaskGoes
    <3>3. CASE TaskStep(r)
      <4>1. CASE IndexServices(r)
        BY <1>4, <3>0, <4>1 DEF IndexServices, TaskGoes
      <4>2. CASE \E s \in Services : DeleteService(r, s)
        BY <1>4, <3>0, <4>2 DEF DeleteService, TaskEnds, TaskGoes
      <4>3. CASE RemoveService(r)
        BY <1>4, <3>0, <4>3 DEF RemoveService, TaskEnds, TaskGoes
      <4>4. CASE \E t \in Tags : DeleteTag(r, t)
        BY <1>4, <3>0, <4>4 DEF DeleteTag, TaskEnds, TaskGoes
      <4>5. CASE AccountLost(r) \/ ServicesDone(r) \/ ListTags(r) \/ TagsDone(r)
        BY <1>4, <3>0, <4>5 DEF AccountLost, ServicesDone, ListTags, TagsDone, TaskEnds, TaskGoes
      <4>6. CASE CloseAccount(r) \/ DeleteAccount(r) \/ MarkDeleted(r)
        BY <1>4, <3>0, <4>6 DEF CloseAccount, DeleteAccount, MarkDeleted, TaskEnds, TaskGoes
      <4> QED  BY <3>3, <4>1, <4>2, <4>3, <4>4, <4>5, <4>6 DEF TaskStep
    <3> QED  BY <1>4, <3>1, <3>2, <3>3 DEF Own
  <2> QED  BY <1>4, <2>1 DEF TypeOK
<1> QED
  BY <1>1, <1>2, <1>3, <1>4, StepKinds

\* No row appears, and none is linked, but by a creation under way.
LEMMA RowsStay ==
  ASSUME TypeOK, ~Creating, [Next]_vars
  PROVE  \A t \in Services : Live(t)' => Live(t) /\ svc'[t].linked = svc[t].linked
<1>0. svc \in [Services -> Rows]
  BY DEF TypeOK
<1>1. CASE UNCHANGED vars
  BY <1>1 DEF vars, Live
<1>2. ASSUME NEW s \in Services, Clients(s)
      PROVE  \A t \in Services : Live(t)' => Live(t) /\ svc'[t].linked = svc[t].linked
  <2>1. AddCheck(s) \/ Build(s) \/ DeleteByClient(s) \/ LateWrite(s)
    BY <1>2 DEF Clients, Create, AddInsert, AddLink, Creating
  <2> QED
    BY <1>0, <2>1 DEF AddCheck, Build, DeleteByClient, LateWrite, Gone, Live, Rows
<1>3. ASSUME NEW t \in Tags, AddTag(t)
      PROVE  svc' = svc
  BY <1>3 DEF AddTag
<1>4. ASSUME NEW r \in Requests, Own(r)
      PROVE  \A t \in Services : Live(t)' => Live(t) /\ svc'[t].linked = svc[t].linked
  <2>1. CASE \E s \in Services : DeleteService(r, s)
    <3>1. PICK s \in Services : DeleteService(r, s)
      BY <2>1
    <3>2. svc' = svc \/ svc' = [svc EXCEPT ![s].status = "DELETING"]
      BY <3>1 DEF DeleteService
    <3> QED  BY <1>0, <3>2 DEF Live, Rows
  <2>2. CASE RemoveService(r)
    <3> DEFINE s == job[r].now
    <3>1. svc' = Gone(s) \/ svc' = [svc EXCEPT ![s].status = "ERROR"]
      BY <2>2 DEF RemoveService
    <3> QED  BY <1>0, <3>1 DEF Gone, Live, Rows
  <2>3. CASE svc' = svc
    BY <2>3 DEF Live
  <2> QED
    BY <1>4, <2>1, <2>2, <2>3
       DEF Own, Ask, CheckDelete, AskAgain, RequestStep, Submit, SyncDelete, SyncClose,
           SyncStatus, TaskStep, AccountLost, IndexServices, ServicesDone, ListTags,
           DeleteTag, TagsDone, CloseAccount, DeleteAccount, MarkDeleted
<1> QED
  BY <1>1, <1>2, <1>3, <1>4, StepKinds DEF Live

\* While quiet clients delete an account, nothing is added to it.
LEMMA NothingNew ==
  ASSUME Quiet, TypeOK, CreatedQuietly, Deleting, [Next]_vars
  PROVE  /\ cpc' = cpc
         /\ tags' \subseteq tags
         /\ \A t \in Services : Live(t)' => Live(t) /\ svc'[t].linked = svc[t].linked
<1>0. ~Creating
  BY DEF CreatedQuietly
<1>1. ASSUME NEW s \in Services, Clients(s)
      PROVE  UNCHANGED <<cpc, tags>>
  BY <1>0, <1>1 DEF Clients, Create, AddCheck, AddInsert, AddLink, Creating, Build,
                    DeleteByClient, LateWrite
<1>2. ASSUME NEW t \in Tags, AddTag(t)
      PROVE  FALSE
  BY <1>2 DEF AddTag
<1>3. ASSUME NEW r \in Requests, Own(r)
      PROVE  cpc' = cpc /\ tags' \subseteq tags
  BY <1>3
     DEF Own, Ask, CheckDelete, AskAgain, RequestStep, Submit, SyncDelete, SyncClose,
         SyncStatus, TaskStep, AccountLost, IndexServices, DeleteService, RemoveService,
         ServicesDone, ListTags, DeleteTag, TagsDone, CloseAccount, DeleteAccount, MarkDeleted
<1>4. \A t \in Services : Live(t)' => Live(t) /\ svc'[t].linked = svc[t].linked
  BY <1>0, RowsStay
<1> QED
  BY <1>1, <1>2, <1>3, <1>4, StepKinds DEF vars

\* A request has no task until it is answered, and is asked again without one.
LEMMA TasksStep ==
  ASSUME TypeOK, TasksOfRequests, [Next]_vars
  PROVE  TasksOfRequests'
<1> SUFFICES ASSUME NEW r \in Requests, Own(r), tpc'[r] # "none"
             PROVE  rpc'[r] = "done"
  BY OthersStay DEF TasksOfRequests
<1>1. tpc[r] # "none" => rpc[r] = "done"
  BY DEF TasksOfRequests
<1>2. CASE Ask(r) \/ AskAgain(r)
  BY <1>1, <1>2 DEF Ask, CheckDelete, AskAgain, TaskGoes, TypeOK
<1>3. CASE RequestStep(r)
  BY <1>1, <1>3 DEF RequestStep, Submit, SyncDelete, SyncClose, SyncStatus, RequestGoes, TypeOK
<1>4. CASE TaskStep(r)
  <2>1. tpc[r] # "none" /\ rpc' = rpc
    BY <1>4 DEF TaskStep, AccountLost, IndexServices, DeleteService, RemoveService,
                ServicesDone, ListTags, DeleteTag, TagsDone, CloseAccount, DeleteAccount,
                MarkDeleted
  <2> QED  BY <1>1, <2>1
<1> QED
  BY <1>2, <1>3, <1>4 DEF Own

\* The row of the account is hidden by a request that knows that there is no tag.
LEMMA WhoHides ==
  ASSUME [Next]_vars, NoTagOutlives, \A r \in Requests : KnowsTags(r), ~acct'.visible
  PROVE  tags = {}
<1>1. CASE ~acct.visible
  BY <1>1 DEF NoTagOutlives
<1>2. CASE acct.visible
  <2>1. acct' # acct
    BY <1>2
  <2>2. ~\E s \in Services : Clients(s)
    BY <2>1 DEF Clients, Create, AddCheck, AddInsert, AddLink, Build, DeleteByClient, LateWrite
  <2>3. ~\E t \in Tags : AddTag(t)
    BY <2>1 DEF AddTag
  <2>4. PICK r \in Requests : Own(r)
    BY <2>1, <2>2, <2>3, StepKinds DEF vars
  <2>5. SyncDelete(r) \/ SyncClose(r) \/ SyncStatus(r) \/ CloseAccount(r) \/ DeleteAccount(r)
        \/ MarkDeleted(r)
    BY <2>1, <2>4
       DEF Own, Ask, CheckDelete, AskAgain, RequestStep, Submit, TaskStep, AccountLost,
           IndexServices, DeleteService, RemoveService, ServicesDone, ListTags, DeleteTag,
           TagsDone
  <2> QED
    BY <2>5 DEF SyncDelete, SyncClose, SyncStatus, CloseAccount, DeleteAccount, MarkDeleted,
                KnowsTags, SyncStages
<1> QED
  BY <1>1, <1>2

\* What a request knows of the tags stays true while others work.
LEMMA TagsKnown ==
  ASSUME TypeOK, NEW r \in Requests, KnowsTags(r), tags' \subseteq tags \/ ~Works(r),
         rpc'[r] = rpc[r], tpc'[r] = tpc[r], job'[r] = job[r]
  PROVE  KnowsTags(r)'
BY DEF KnowsTags, Works, SyncStages

\* And it learns what it should at each of its own steps.
LEMMA TagsLearned ==
  ASSUME TypeOK, TasksOfRequests, NEW r \in Requests, KnowsTags(r), Own(r)
  PROVE  KnowsTags(r)'
<1>0. tpc[r] # "none" => rpc[r] = "done"
  BY DEF TasksOfRequests
<1>1. CASE Ask(r)
  <2>1. PICK opts \in SUBSET Options : CheckDelete(r, opts)
    BY <1>1 DEF Ask
  <2>2. job'[r].opts = opts /\ rpc'[r] = "checked" /\ tpc'[r] = "none" /\ tags' = tags
    BY <1>0, <2>1 DEF CheckDelete, Job, RequestGoes, TypeOK
  <2> QED  BY <2>1, <2>2 DEF CheckDelete, KnowsTags, SyncStages
<1>2. CASE AskAgain(r)
  BY <1>2 DEF AskAgain, RequestGoes, TaskGoes, KnowsTags, SyncStages, TypeOK
<1>3. CASE Submit(r)
  <2>1. tpc[r] = "none" /\ UNCHANGED <<tags, job>> /\ rpc[r] = "checked"
    BY <1>0, <1>3 DEF Submit
  <2>2. \/ rpc'[r] = "sync" /\ tpc'[r] = "none" /\ "tags" \notin job[r].opts
        \/ rpc'[r] = "failed" /\ tpc'[r] = "none"
        \/ rpc'[r] = "done" /\ tpc'[r] \in {"services", "tags"}
    BY <1>3, <2>1 DEF Submit, RequestGoes, TaskGoes, TypeOK
  <2> QED  BY <2>1, <2>2 DEF KnowsTags, SyncStages
<1>4. CASE SyncDelete(r) \/ SyncClose(r) \/ SyncStatus(r)
  <2>1. tpc[r] = "none" /\ tags = {} /\ UNCHANGED <<tags, job, tpc>>
    BY <1>0, <1>4 DEF SyncDelete, SyncClose, SyncStatus, KnowsTags, SyncStages
  <2>2. rpc'[r] \in {"sync_close", "sync_status", "done", "failed"}
    BY <1>4 DEF SyncDelete, SyncClose, SyncStatus, RequestGoes, TypeOK
  <2> QED  BY <2>1, <2>2 DEF KnowsTags, SyncStages
<1>5. CASE TaskStep(r)
  <2>0. tpc[r] # "none" /\ rpc' = rpc /\ rpc[r] = "done"
    BY <1>0, <1>5 DEF TaskStep, AccountLost, IndexServices, DeleteService, RemoveService,
                ServicesDone, ListTags, DeleteTag, TagsDone, CloseAccount, DeleteAccount,
                MarkDeleted
  <2>1. ASSUME tpc'[r] \in {"ended", "failed"}
        PROVE  KnowsTags(r)'
    BY <2>0, <2>1 DEF KnowsTags, SyncStages
  <2>2. CASE AccountLost(r) \/ CloseAccount(r) \/ MarkDeleted(r)
    BY <2>1, <2>2 DEF AccountLost, CloseAccount, MarkDeleted, TaskEnds, TaskGoes, TypeOK
  <2>3. CASE IndexServices(r)
    <3>1. tpc[r] = "services" /\ tpc'[r] = "deleting" /\ tags' = tags
      BY <2>3 DEF IndexServices, TaskGoes, TypeOK
    <3>2. job'[r].opts = job[r].opts
      <4>1. job \in [Requests -> Jobs]
        BY DEF TypeOK
      <4> QED  BY <2>3, <4>1 DEF IndexServices, Jobs
    <3> QED  BY <2>0, <3>1, <3>2 DEF KnowsTags, SyncStages
  <2>4. CASE \E s \in Services : DeleteService(r, s)
    <3>1. tpc[r] = "deleting" /\ tags' = tags
      BY <2>4 DEF DeleteService
    <3>2. tpc'[r] = "failed" \/ (tpc'[r] = "removing" /\ job'[r].opts = job[r].opts)
      BY <2>4 DEF DeleteService, TaskEnds, TaskGoes, TypeOK, Jobs
    <3> QED  BY <2>0, <2>1, <3>1, <3>2 DEF KnowsTags, SyncStages
  <2>5. CASE RemoveService(r)
    <3>1. tpc[r] = "removing" /\ tags' = tags
      BY <2>5 DEF RemoveService
    <3>2. tpc'[r] = "failed" \/ (tpc'[r] = "deleting" /\ job'[r].opts = job[r].opts)
      BY <2>5 DEF RemoveService, TaskEnds, TaskGoes, TypeOK, Jobs
    <3> QED  BY <2>0, <2>1, <3>1, <3>2 DEF KnowsTags, SyncStages
  <2>6. CASE ServicesDone(r)
    <3>1. tpc[r] = "deleting" /\ tags' = tags
      BY <2>6 DEF ServicesDone
    <3>2. tpc'[r] = "tags" \/ (tpc'[r] = "account" /\ "tags" \notin job[r].opts)
      BY <2>6 DEF ServicesDone, TaskGoes, TypeOK
    <3> QED  BY <2>0, <3>1, <3>2 DEF KnowsTags, SyncStages
  <2>7. CASE ListTags(r)
    <3>1. tpc'[r] = "untagging" /\ tags' = tags /\ job'[r].tags = tags
      BY <2>7 DEF ListTags, TaskGoes, TypeOK, Jobs
    <3> QED  BY <2>0, <3>1 DEF KnowsTags, SyncStages
  <2>8. CASE \E t \in Tags : DeleteTag(r, t)
    <3>1. PICK t \in Tags : DeleteTag(r, t)
      BY <2>8
    <3>2. tpc'[r] = "failed" \/ /\ tpc'[r] = "untagging" /\ tags' = tags \ {t}
                                /\ job'[r].tags = job[r].tags \ {t}
      BY <3>1 DEF DeleteTag, TaskEnds, TaskGoes, TypeOK, Jobs
    <3>3. tpc[r] = "untagging"
      BY <3>1 DEF DeleteTag
    <3> QED  BY <2>0, <2>1, <3>2, <3>3 DEF KnowsTags, SyncStages
  <2>9. CASE TagsDone(r) \/ DeleteAccount(r)
    <3>1. tags = {} /\ tags' = tags
      BY <2>9 DEF TagsDone, DeleteAccount, KnowsTags
    <3>2. tpc'[r] \in {"account", "status"}
      BY <2>9 DEF TagsDone, DeleteAccount, TaskGoes, TypeOK
    <3> QED  BY <2>0, <3>1, <3>2 DEF KnowsTags, SyncStages
  <2> QED
    BY <1>5, <2>2, <2>3, <2>4, <2>5, <2>6, <2>7, <2>8, <2>9 DEF TaskStep
<1> QED
  BY <1>1, <1>2, <1>3, <1>4, <1>5 DEF Own, RequestStep

\* TagInv is kept by every step.
LEMMA TagStep ==
  ASSUME Quiet, TypeOK, TagInv, [Next]_vars
  PROVE  TagInv'
<1>1. CreatedQuietly' /\ TasksOfRequests'
  BY QuietStep, TasksStep DEF TagInv
<1>2. ASSUME ~acct'.visible
      PROVE  tags' = {}
  <2>1. tags = {}
    BY <1>2, WhoHides DEF TagInv
  <2>2. CASE Deleting
    BY <2>1, <2>2, NothingNew DEF TagInv
  <2>3. CASE ~Deleting
    <3>1. acct' = acct
      <4>1. ~\E r \in Requests : SyncDelete(r) \/ SyncClose(r) \/ SyncStatus(r) \/ CloseAccount(r)
                                \/ DeleteAccount(r) \/ MarkDeleted(r)
        BY <2>3 DEF Deleting, SyncDelete, SyncClose, SyncStatus, CloseAccount, DeleteAccount, MarkDeleted
      <4>2. ASSUME NEW r \in Requests, Own(r) PROVE acct' = acct
        BY <4>1, <4>2
           DEF Own, Ask, CheckDelete, AskAgain, RequestStep, Submit, TaskStep, AccountLost,
               IndexServices, DeleteService, RemoveService, ServicesDone, ListTags, DeleteTag,
               TagsDone
      <4>3. ASSUME NEW s \in Services, Clients(s) PROVE acct' = acct
        BY <4>3 DEF Clients, Create, AddCheck, AddInsert, AddLink, Build, DeleteByClient, LateWrite
      <4> QED  BY <4>2, <4>3, StepKinds DEF AddTag, vars
    <3>2. ~\E t \in Tags : AddTag(t)
      BY <1>2, <3>1 DEF AddTag
    <3>3. ASSUME NEW s \in Services, Clients(s) PROVE tags' = tags
      BY <3>3 DEF Clients, Create, AddCheck, AddInsert, AddLink, Build, DeleteByClient, LateWrite
    <3>4. ASSUME NEW r \in Requests, Own(r) PROVE tags' \subseteq tags
      BY <3>4
         DEF Own, Ask, CheckDelete, AskAgain, RequestStep, Submit, SyncDelete, SyncClose,
             SyncStatus, TaskStep, AccountLost, IndexServices, DeleteService, RemoveService,
             ServicesDone, ListTags, DeleteTag, TagsDone, CloseAccount, DeleteAccount, MarkDeleted
    <3> QED  BY <2>1, <3>2, <3>3, <3>4, StepKinds DEF vars
  <2> QED  BY <2>2, <2>3
<1>3. ASSUME NEW r \in Requests
      PROVE  KnowsTags(r)'
  <2>1. CASE Own(r)
    BY <2>1, TagsLearned DEF TagInv
  <2>2. CASE ~Own(r)
    <3>1. tags' \subseteq tags \/ ~Works(r)
      BY NothingNew DEF TagInv, Works, SyncStages, Deleting
    <3> QED  BY <2>2, <3>1, OthersStay, TagsKnown DEF TagInv
  <2> QED  BY <2>1, <2>2
<1> QED
  BY <1>1, <1>2, <1>3 DEF TagInv, NoTagOutlives

\* A deleted account has no tag, whatever races and fails, if nobody adds to it
\* meanwhile: its deletion was asked without tags because there were none, or it
\* lists them once and deletes what it has listed.
THEOREM NoTagLeft == Quiet => (Spec => []NoTagOutlives)
<1> SUFFICES ASSUME Quiet PROVE Spec => []NoTagOutlives
  OBVIOUS
<1>1. Init => TagInv
  BY DEF Init, TagInv, CreatedQuietly, Creating, TasksOfRequests, NoTagOutlives, KnowsTags,
         SyncStages
<1>2. TypeOK /\ TagInv /\ [Next]_vars => TagInv'
  BY TagStep
<1>3. TagInv => NoTagOutlives
  BY DEF TagInv
<1> QED
  BY <1>1, <1>2, <1>3, TypeInductive, PTL DEF Spec

----------------------------------------------------------------------------
(* The trees of the services.                                              *)

\* Induction on the natural numbers, for a set of them: by its least element.
LEMMA NaturalInduction ==
  ASSUME NEW S, 0 \in S, \A n \in Nat : n \in S => n + 1 \in S
  PROVE  \A n \in Nat : n \in S
<1> DEFINE R == OpToRel(<, Nat)
           Rest == Nat \ S
<1> SUFFICES ASSUME Rest # {} PROVE FALSE
  OBVIOUS
<1>1. IsWellFoundedOn(R, Nat)
  BY NatLessThanWellFounded
<1>2. \A x, y \in Nat : y < x => <<y, x>> \in R
  BY DEF OpToRel
<1> HIDE DEF R
<1>3. \E x \in Rest : \A y \in Rest : ~(<<y, x>> \in R)
  <2>1. Rest \subseteq Nat
    OBVIOUS
  <2> HIDE DEF Rest
  <2> QED  BY <1>1, <2>1, WFMin
<1>4. PICK x \in Rest : \A y \in Rest : ~(<<y, x>> \in R)
  BY <1>3
<1>5. \A y \in Nat : y < x => y \in S
  BY <1>2, <1>4
<1>6. x # 0 /\ x \in Nat
  BY <1>4
<1>7. x - 1 \in Nat /\ x - 1 \in S /\ (x - 1) + 1 = x
  BY <1>5, <1>6
<1> QED
  BY <1>4, <1>7

\* The instances without parent, and one level more.
Trunk == {s \in Services : Live(s) /\ ParentOf(s) = NoService}
Below(S) == {s \in Services : Live(s) /\ ParentOf(s) \in S}

\* What InTrees computes, up to level n.
Levels(f, n) == f = [k \in 0 .. n |-> IF k = 0 THEN Trunk ELSE f[k - 1] \cup Below(f[k - 1])]

\* There is such a function, so that the recursion has a value.
LEMMA LevelsExist ==
  ASSUME NEW N \in Nat
  PROVE  \E f : Levels(f, N)
<1> DEFINE G == {n \in Nat : \E f : Levels(f, n)}
<1>1. 0 \in G
  <2> DEFINE f == [k \in 0 .. 0 |-> Trunk]
  <2>1. Levels(f, 0)
    BY DEF Levels
  <2> QED  BY <2>1
<1>2. ASSUME NEW n \in Nat, n \in G
      PROVE  n + 1 \in G
  <2>1. PICK f : Levels(f, n)
    BY <1>2
  <2> DEFINE g == [k \in 0 .. n + 1 |-> IF k = n + 1 THEN f[n] \cup Below(f[n]) ELSE f[k]]
  <2>2. \A k \in 0 .. n + 1 :
          g[k] = IF k = 0 THEN Trunk ELSE g[k - 1] \cup Below(g[k - 1])
    <3> TAKE k \in 0 .. n + 1
    <3>1. CASE k = n + 1
      <4>1. g[k] = f[n] \cup Below(f[n]) /\ g[k - 1] = f[n] /\ k # 0
        BY <3>1
      <4> QED  BY <4>1
    <3>2. CASE k # n + 1
      <4>1. k \in 0 .. n /\ (k # 0 => k - 1 \in 0 .. n)
        BY <3>2
      <4>2. f[k] = IF k = 0 THEN Trunk ELSE f[k - 1] \cup Below(f[k - 1])
        BY <2>1, <4>1 DEF Levels
      <4>3. g[k] = f[k] /\ (k # 0 => g[k - 1] = f[k - 1])
        BY <3>2, <4>1
      <4> QED  BY <4>2, <4>3
    <3> QED  BY <3>1, <3>2
  <2>3. g = [k \in 0 .. n + 1 |-> g[k]]
    OBVIOUS
  <2> HIDE DEF g
  <2>4. Levels(g, n + 1)
    BY <2>2, <2>3 DEF Levels
  <2>5. \E h : Levels(h, n + 1)
    BY <2>4
  <2> QED  BY <2>5
<1> HIDE DEF G
<1>3. N \in G
  BY <1>1, <1>2, NaturalInduction
<1> QED
  BY <1>3 DEF G

\* Each level adds a service or is the last: after as many levels as there are
\* services, none is left to add.
LEMMA LevelsClose ==
  ASSUME NEW f, Levels(f, Cardinality(Services))
  PROVE  Below(f[Cardinality(Services)]) \subseteq f[Cardinality(Services)]
<1> DEFINE N == Cardinality(Services)
           Closed1(n) == Below(f[n]) \subseteq f[n]
           G == {n \in Nat : n <= N => f[n] \subseteq Services /\ (Closed1(n) \/ n <= Cardinality(f[n]))}
<1>0. IsFiniteSet(Services) /\ N \in Nat
  BY ConstantsAssumption, FS_CardinalityType DEF ConstantsAssumption
<1> HIDE DEF N
<1>1. \A n \in 0 .. N : f[n] = IF n = 0 THEN Trunk ELSE f[n - 1] \cup Below(f[n - 1])
  BY <1>0 DEF Levels, N
<1>2. 0 \in G
  <2>1. f[0] = Trunk /\ Trunk \subseteq Services
    <3>1. 0 \in 0 .. N
      BY <1>0
    <3>2. f[0] = Trunk
      BY <1>1, <3>1
    <3> QED  BY <3>2 DEF Trunk
  <2>2. Cardinality(f[0]) \in Nat
    BY <1>0, <2>1, FS_Subset, FS_CardinalityType
  <2> QED  BY <2>1, <2>2
<1>3. ASSUME NEW n \in Nat, n \in G
      PROVE  n + 1 \in G
  <2> SUFFICES ASSUME n + 1 <= N
               PROVE  f[n + 1] \subseteq Services
                      /\ (Closed1(n + 1) \/ n + 1 <= Cardinality(f[n + 1]))
    BY <1>3
  <2>1. f[n + 1] = f[n] \cup Below(f[n])
    <3>1. n + 1 \in 0 .. N /\ n + 1 # 0 /\ (n + 1) - 1 = n
      BY <1>0
    <3> QED  BY <1>1, <3>1
  <2>2. f[n] \subseteq Services /\ (Closed1(n) \/ n <= Cardinality(f[n]))
    BY <1>0, <1>3
  <2>3. f[n + 1] \subseteq Services
    BY <2>1, <2>2 DEF Below
  <2>4. CASE Closed1(n)
    <3>1. f[n + 1] = f[n]
      BY <2>1, <2>4
    <3> QED  BY <2>3, <2>4, <3>1
  <2>5. CASE ~Closed1(n)
    <3>1. f[n] \in SUBSET f[n + 1] /\ f[n] # f[n + 1]
      BY <2>1, <2>5
    <3>2. IsFiniteSet(f[n + 1])
      BY <1>0, <2>3, FS_Subset
    <3>3. Cardinality(f[n]) \in Nat /\ Cardinality(f[n + 1]) \in Nat
      BY <3>1, <3>2, FS_Subset, FS_CardinalityType
    <3>4. Cardinality(f[n]) <= Cardinality(f[n + 1]) /\ Cardinality(f[n]) # Cardinality(f[n + 1])
      BY <3>1, <3>2, FS_Subset
    <3> QED  BY <2>2, <2>3, <2>5, <3>3, <3>4
  <2> QED  BY <2>4, <2>5
<1> HIDE DEF G
<1>4. N \in G
  BY <1>0, <1>2, <1>3, NaturalInduction
<1>5. f[N] \subseteq Services /\ (Closed1(N) \/ N <= Cardinality(f[N]))
  BY <1>0, <1>4 DEF G
<1>6. CASE N <= Cardinality(f[N])
  <2>1. Cardinality(f[N]) <= N /\ Cardinality(f[N]) \in Nat
    BY <1>0, <1>5, FS_Subset, FS_CardinalityType DEF N
  <2>2. Cardinality(f[N]) = Cardinality(Services)
    BY <1>0, <1>6, <2>1 DEF N
  <2>3. f[N] = Services
    BY <1>0, <1>5, <2>2, FS_Subset
  <2> QED  BY <2>3 DEF Below, N
<1> QED
  BY <1>5, <1>6 DEF N

\* So the index has the instances without parent and the children of all it has.
LEMMA TreesClosed ==
  /\ InTrees \subseteq {s \in Services : Live(s)}
  /\ Trunk \subseteq InTrees
  /\ Below(InTrees) \subseteq InTrees
<1> DEFINE N == Cardinality(Services)
           Down == CHOOSE f : Levels(f, N)
<1>0. IsFiniteSet(Services) /\ N \in Nat
  BY ConstantsAssumption, FS_CardinalityType DEF ConstantsAssumption
<1>1. Levels(Down, N)
  BY <1>0, LevelsExist
<1>2. InTrees = {s \in Services : s \in Down[N]}
  BY DEF InTrees, Levels, Trunk, Below
<1> HIDE DEF Down
<1>3. \A n \in 0 .. N : Down[n] = IF n = 0 THEN Trunk ELSE Down[n - 1] \cup Below(Down[n - 1])
  BY <1>0, <1>1 DEF Levels
<1> DEFINE G == {n \in Nat : n <= N => Trunk \subseteq Down[n] /\ Down[n] \subseteq {s \in Services : Live(s)}}
<1>4. 0 \in G
  <2>1. 0 \in 0 .. N
    BY <1>0
  <2>2. Down[0] = Trunk
    BY <1>3, <2>1
  <2>3. Trunk \subseteq {s \in Services : Live(s)}
    BY DEF Trunk
  <2> QED  BY <2>2, <2>3
<1>5. ASSUME NEW n \in Nat, n \in G
      PROVE  n + 1 \in G
  <2> SUFFICES ASSUME n + 1 <= N
               PROVE  Trunk \subseteq Down[n + 1] /\ Down[n + 1] \subseteq {s \in Services : Live(s)}
    BY <1>5
  <2>1. n + 1 \in 0 .. N /\ n + 1 # 0 /\ (n + 1) - 1 = n
    BY <1>0
  <2>2. Down[n + 1] = Down[n] \cup Below(Down[n])
    BY <1>3, <2>1
  <2>3. Trunk \subseteq Down[n] /\ Down[n] \subseteq {s \in Services : Live(s)}
    BY <1>0, <1>5
  <2> QED  BY <2>2, <2>3 DEF Below
<1> HIDE DEF G
<1>6. N \in G
  BY <1>0, <1>4, <1>5, NaturalInduction
<1>7. Trunk \subseteq Down[N] /\ Down[N] \subseteq {s \in Services : Live(s)}
  BY <1>0, <1>6 DEF G
<1>8. Below(Down[N]) \subseteq Down[N]
  BY <1>1, LevelsClose
<1>9. InTrees = Down[N]
  BY <1>2, <1>7
<1> QED
  BY <1>7, <1>8, <1>9

----------------------------------------------------------------------------
(* Children before their parents.                                          *)

\* t is linked under s and not deleted.
ChildOf(t, s) == Live(t) /\ svc[t].linked /\ Parent[t] = s

\* A row that is there is not DELETED: get_parent finds the parent of a child.
LiveStatus == \A s \in Services : Live(s) => svc[s].status # "DELETED"

\* The index of a task has every child of the services it still has to delete,
\* and the service it is at has none.
KnowsChildren(r) ==
  /\ tpc[r] \in {"deleting", "removing"} =>
       \A s \in job[r].left, t \in Services :
         ChildOf(t, s) => t \in job[r].left /\ job[r].under[t] = s
  /\ tpc[r] = "removing" =>
       /\ job[r].now \in job[r].left
       /\ \A t \in Services : ~ChildOf(t, job[r].now)

ChildInv ==
  CreatedQuietly /\ TasksOfRequests /\ LiveStatus /\ \A r \in Requests : KnowsChildren(r)

\* No step writes DELETED into a row and leaves it there.
LEMMA LiveStatusStep ==
  ASSUME TypeOK, LiveStatus, [Next]_vars
  PROVE  LiveStatus'
<1>0. svc \in [Services -> Rows] /\ \A s \in Services : Live(s) => svc[s].status # "DELETED"
  BY DEF TypeOK, LiveStatus
<1>1. CASE UNCHANGED vars
  BY <1>0, <1>1 DEF vars, Live, LiveStatus
<1>2. ASSUME NEW s \in Services, Clients(s)
      PROVE  LiveStatus'
  <2>1. CASE AddInsert(s)
    BY <1>0, <2>1 DEF AddInsert, SetService, NoRow, Live, LiveStatus, Rows
  <2>2. CASE AddCheck(s) \/ AddLink(s)
    BY <1>0, <2>2 DEF AddCheck, AddLink, Live, LiveStatus, Rows
  <2>3. CASE Build(s) \/ DeleteByClient(s) \/ LateWrite(s)
    BY <1>0, <2>3 DEF Build, DeleteByClient, LateWrite, Gone, Live, LiveStatus, Rows
  <2> QED  BY <1>2, <2>1, <2>2, <2>3 DEF Clients, Create
<1>3. ASSUME NEW t \in Tags, AddTag(t)
      PROVE  LiveStatus'
  BY <1>0, <1>3 DEF AddTag, Live, LiveStatus
<1>4. ASSUME NEW r \in Requests, Own(r)
      PROVE  LiveStatus'
  <2>1. CASE \E s \in Services : DeleteService(r, s)
    <3>1. PICK s \in Services : DeleteService(r, s)
      BY <2>1
    <3>2. svc' = svc \/ svc' = [svc EXCEPT ![s].status = "DELETING"]
      BY <3>1 DEF DeleteService
    <3> QED  BY <1>0, <3>2 DEF Live, LiveStatus, Rows
  <2>2. CASE RemoveService(r)
    <3> DEFINE s == job[r].now
    <3>1. svc' = Gone(s) \/ svc' = [svc EXCEPT ![s].status = "ERROR"]
      BY <2>2 DEF RemoveService
    <3> QED  BY <1>0, <3>1 DEF Gone, Live, LiveStatus, Rows
  <2>3. CASE svc' = svc
    BY <1>0, <2>3 DEF Live, LiveStatus
  <2> QED
    BY <1>4, <2>1, <2>2, <2>3
       DEF Own, Ask, CheckDelete, AskAgain, RequestStep, Submit, SyncDelete, SyncClose,
           SyncStatus, TaskStep, AccountLost, IndexServices, ServicesDone, ListTags,
           DeleteTag, TagsDone, CloseAccount, DeleteAccount, MarkDeleted
<1> QED
  BY <1>1, <1>2, <1>3, <1>4, StepKinds

\* What the task of a request knows of the children stays true while others work.
LEMMA ChildrenKnown ==
  ASSUME TypeOK, NEW r \in Requests, KnowsChildren(r),
         Works(r) => \A t \in Services : Live(t)' => Live(t) /\ svc'[t].linked = svc[t].linked,
         rpc'[r] = rpc[r], tpc'[r] = tpc[r], job'[r] = job[r]
  PROVE  KnowsChildren(r)'
<1> SUFFICES ASSUME tpc[r] \in {"deleting", "removing"}
             PROVE  KnowsChildren(r)'
  BY DEF KnowsChildren
<1>1. \A s : \A t \in Services : ChildOf(t, s)' => ChildOf(t, s)
  BY DEF ChildOf, Works
<1>2. job[r].left \subseteq Services
  BY JobType
<1> QED
  BY <1>1, <1>2 DEF KnowsChildren

\* And it learns it from its index.
LEMMA ChildrenLearned ==
  ASSUME TypeOK, TasksOfRequests, LiveStatus, CreatedQuietly, Quiet, [Next]_vars,
         NEW r \in Requests, KnowsChildren(r), Own(r)
  PROVE  KnowsChildren(r)'
<1> SUFFICES ASSUME tpc'[r] \in {"deleting", "removing"}
             PROVE  KnowsChildren(r)'
  BY DEF KnowsChildren
<1>0. job \in [Requests -> Jobs] /\ job[r].left \subseteq Services
  BY JobType DEF TypeOK
<1>1. CASE IndexServices(r)
  <2>1. tpc'[r] = "deleting" /\ svc' = svc
    BY <1>1 DEF IndexServices, TaskGoes, TypeOK
  <2>2. /\ job'[r].left = InTrees
        /\ job'[r].under = [s \in Services |-> IF s \in InTrees THEN ParentOf(s) ELSE NoService]
    BY <1>0, <1>1 DEF IndexServices, Jobs
  <2>3. ASSUME NEW s \in InTrees, NEW t \in Services, ChildOf(t, s)'
        PROVE  t \in InTrees /\ job'[r].under[t] = s
    <3>1. ChildOf(t, s) /\ s \in Services /\ Live(s)
      BY <2>1, <2>3, TreesClosed DEF ChildOf, Live
    <3>2. ParentOf(t) = s
      BY <3>1 DEF ChildOf, LiveStatus, ParentOf
    <3>3. t \in InTrees
      BY <3>1, <3>2, TreesClosed DEF Below, ChildOf
    <3> QED  BY <2>2, <3>2, <3>3
  <2> QED  BY <2>1, <2>2, <2>3 DEF KnowsChildren
<1>2. CASE Ask(r) \/ AskAgain(r) \/ RequestStep(r)
  <2>1. tpc'[r] = tpc[r]
    BY <1>2 DEF Ask, CheckDelete, AskAgain, RequestStep, Submit, SyncDelete, SyncClose,
                SyncStatus, TaskGoes, TypeOK
  <2>2. rpc[r] = "done"
    BY <2>1 DEF TasksOfRequests
  <2>3. UNCHANGED <<svc, job>>
    BY <1>2, <2>2 DEF Ask, CheckDelete, AskAgain, RequestStep, Submit, SyncDelete, SyncClose,
                      SyncStatus
  <2> QED
    BY <2>1, <2>3 DEF KnowsChildren, ChildOf, Live
<1>3. CASE TaskStep(r) /\ ~IndexServices(r)
  <2>0. Deleting
    BY <1>3 DEF TaskStep, AccountLost, DeleteService, RemoveService, ServicesDone, ListTags,
                DeleteTag, TagsDone, CloseAccount, DeleteAccount, MarkDeleted, Deleting
  <2>1. \A s : \A t \in Services : ChildOf(t, s)' => ChildOf(t, s)
    BY <2>0, NothingNew DEF ChildOf
  <2>2. CASE \E s \in Services : DeleteService(r, s)
    <3>1. PICK s \in Services : DeleteService(r, s)
      BY <2>2
    <3>2. tpc'[r] = "removing" /\ job'[r].now = s /\ job'[r].left = job[r].left
          /\ job'[r].under = job[r].under
      BY <1>0, <3>1 DEF DeleteService, TaskEnds, TaskGoes, TypeOK, Jobs
    <3>3. tpc[r] = "deleting" /\ s \in job[r].left
          /\ \A t \in job[r].left : job[r].under[t] # s
      BY <3>1 DEF DeleteService, NextToDelete
    <3>4. \A t \in Services : ~ChildOf(t, s)
      BY <3>3 DEF KnowsChildren
    <3> QED  BY <1>0, <2>1, <3>2, <3>3, <3>4 DEF KnowsChildren
  <2>3. CASE RemoveService(r)
    <3>1. /\ tpc[r] = "removing" /\ tpc'[r] = "deleting"
          /\ svc' = Gone(job[r].now)
          /\ job'[r].left = job[r].left \ {job[r].now}
          /\ job'[r].under = job[r].under
      BY <1>0, <2>3 DEF RemoveService, TaskEnds, TaskGoes, TypeOK, Jobs
    <3>2. svc'[job[r].now].state = "deleted"
      <4>1. job[r].now \in Services
        BY <1>0, <3>1 DEF KnowsChildren
      <4> QED  BY <3>1, <4>1 DEF Gone, TypeOK, Rows
    <3>3. ASSUME NEW s \in job'[r].left, NEW t \in Services, ChildOf(t, s)'
          PROVE  t \in job'[r].left /\ job'[r].under[t] = s
      <4>1. t \in job[r].left /\ job[r].under[t] = s
        BY <2>1, <3>1, <3>3 DEF KnowsChildren
      <4>2. t # job[r].now
        BY <3>2, <3>3 DEF ChildOf, Live
      <4> QED  BY <3>1, <4>1, <4>2
    <3> QED  BY <3>1, <3>3 DEF KnowsChildren
  <2> QED
    BY <1>3, <2>2, <2>3
       DEF TaskStep, AccountLost, ServicesDone, ListTags, DeleteTag, TagsDone, CloseAccount,
           DeleteAccount, MarkDeleted, TaskEnds, TaskGoes, TypeOK
<1> QED
  BY <1>1, <1>2, <1>3 DEF Own

\* ChildInv is kept by every step.
LEMMA ChildStep ==
  ASSUME Quiet, TypeOK, ChildInv, [Next]_vars
  PROVE  ChildInv'
<1>1. CreatedQuietly' /\ TasksOfRequests' /\ LiveStatus'
  BY QuietStep, TasksStep, LiveStatusStep DEF ChildInv
<1>2. ASSUME NEW r \in Requests
      PROVE  KnowsChildren(r)'
  <2>1. CASE Own(r)
    BY <2>1, ChildrenLearned DEF ChildInv
  <2>2. CASE ~Own(r)
    <3>1. Works(r) => \A t \in Services : Live(t)' => Live(t) /\ svc'[t].linked = svc[t].linked
      BY NothingNew DEF ChildInv, Works, SyncStages, Deleting
    <3> QED  BY <2>2, <3>1, OthersStay, ChildrenKnown DEF ChildInv
  <2> QED  BY <2>1, <2>2
<1> QED
  BY <1>1, <1>2 DEF ChildInv

LEMMA ChildInit ==
  ASSUME Init
  PROVE  ChildInv
BY DEF Init, ChildInv, CreatedQuietly, Creating, TasksOfRequests, LiveStatus, Live, NoRow,
       KnowsChildren

\* The task of an account deletes no service with a live child, whatever else is
\* deleted meanwhile and whatever raises: its index has the whole tree, of any
\* depth, and nobody adds to the tree.
THEOREM ChildrenGoFirst == Quiet => (Spec => ChildrenFirst)
<1> SUFFICES ASSUME Quiet PROVE Spec => ChildrenFirst
  OBVIOUS
<1>1. Init => ChildInv
  BY ChildInit
<1>2. TypeOK /\ ChildInv /\ [Next]_vars => ChildInv'
  BY ChildStep
<1>3. ASSUME TypeOK, ChildInv, [Next]_vars, NEW r \in Requests, NEW s \in Services,
             RemoveService(r), job[r].now = s, Live(s)
      PROVE  ~\E t \in Services : Live(t)' /\ svc[t].linked /\ Parent[t] = s
  <2>1. Deleting /\ tpc[r] = "removing"
    BY <1>3 DEF RemoveService, Deleting
  <2>2. \A t \in Services : ~ChildOf(t, s)
    BY <1>3, <2>1 DEF ChildInv, KnowsChildren
  <2>3. \A t \in Services : Live(t)' => Live(t)
    BY <1>3, <2>1, NothingNew DEF ChildInv
  <2> QED  BY <2>2, <2>3 DEF ChildOf
<1>4. TypeOK /\ ChildInv /\ [Next]_vars =>
        [\A r \in Requests, s \in Services :
           RemoveService(r) /\ job[r].now = s /\ Live(s)
           => ~\E t \in Services : Live(t)' /\ svc[t].linked /\ Parent[t] = s]_vars
  BY <1>3
<1> QED
  BY <1>1, <1>2, <1>4, TypeInductive, PTL DEF Spec, ChildrenFirst

----------------------------------------------------------------------------
(* Nothing outlives its account.                                           *)

\* A service is created under one that was created before it ...
CreatedAfterParent ==
  /\ \A s \in Services : cpc[s] = "none" => ~Live(s) /\ ~svc[s].linked
  /\ \A s \in Services : cpc[s] # "none" /\ Parent[s] # NoService => cpc[Parent[s]] # "none"

\* ... so that every set of services that were created has one whose parent is
\* not among them.
Rooted ==
  \A S \in SUBSET {s \in Services : cpc[s] # "none"} :
    S # {} => \E s \in S : Parent[s] \notin S

\* A parent is there, or DELETED: no child is in no tree.
ParentsFound ==
  \A t \in Services :
    /\ cpc[t] \in {"checked", "row"} \/ ChildOf(t, Parent[t])
    /\ Parent[t] # NoService
    => Live(Parent[t]) \/ svc[Parent[t]].status = "DELETED"

\* A row that is inserted waits for its link.
RowsWait == \A s \in Services : cpc[s] = "row" => Live(s) /\ svc[s].status = "DRAFT"

\* What request r knows of the services: that there are none, if it was not asked
\* to delete them; the ones that are left; that none is left.
KnowsServices(r) ==
  /\ rpc[r] = "checked" => "services" \in job[r].opts \/ ~AnyLive
  /\ rpc[r] \in SyncStages => ~AnyLive
  /\ tpc[r] \in {"deleting", "removing"} => \A s \in Services : Live(s) => s \in job[r].left
  /\ tpc[r] \in {"tags", "untagging", "account", "status"} => ~AnyLive

ServiceInv ==
  /\ ChildInv
  /\ CreatedAfterParent /\ Rooted /\ RowsWait /\ ParentsFound
  /\ NothingOutlives /\ \A r \in Requests : KnowsServices(r)

\* So every service is in the index of a task: up from one that is not, no parent
\* would be, and some have none.
LEMMA TreesComplete ==
  ASSUME TypeOK, CreatedAfterParent, Rooted, ParentsFound
  PROVE  \A s \in Services : Live(s) => s \in InTrees
<1> DEFINE Lost == {s \in Services : Live(s) /\ s \notin InTrees}
<1> SUFFICES ASSUME Lost # {} PROVE FALSE
  OBVIOUS
<1>1. Lost \in SUBSET {s \in Services : cpc[s] # "none"}
  BY DEF CreatedAfterParent
<1>2. PICK s \in Lost : Parent[s] \notin Lost
  BY <1>1 DEF Rooted
<1>3. ParentOf(s) # NoService
  BY TreesClosed DEF Trunk
<1>4. svc[s].linked /\ ParentOf(s) = Parent[s] /\ svc[Parent[s]].status # "DELETED"
  BY <1>3 DEF ParentOf
<1>5. Parent[s] \in Services
  BY <1>3, <1>4, ConstantsAssumption DEF ConstantsAssumption
<1>6. Live(Parent[s])
  BY <1>3, <1>4 DEF ParentsFound, ChildOf
<1>7. Parent[s] \in InTrees
  BY <1>2, <1>5, <1>6
<1> QED
  BY <1>4, <1>7, TreesClosed DEF Below

\* No service is created under one that is created after it.
LEMMA RootedStep ==
  ASSUME Quiet, TypeOK, ChildInv, CreatedAfterParent, Rooted, [Next]_vars
  PROVE  CreatedAfterParent' /\ Rooted'
<1>0. svc \in [Services -> Rows] /\ cpc \in [Services -> {"none", "checked", "row", "done"}]
  BY DEF TypeOK
<1>1. CASE \E x \in Services : AddCheck(x)
  <2>1. PICK x \in Services : AddCheck(x)
    BY <1>1
  <2>2. /\ cpc[x] = "none" /\ cpc' = [cpc EXCEPT ![x] = "checked"] /\ svc' = svc
        /\ Parent[x] # NoService => Live(Parent[x])
    BY <2>1 DEF AddCheck
  <2>3. Parent[x] # NoService => Parent[x] \in Services /\ cpc[Parent[x]] # "none"
    BY <2>2, ConstantsAssumption DEF CreatedAfterParent, ConstantsAssumption
  <2>4. CreatedAfterParent'
    BY <1>0, <2>2, <2>3, ConstantsAssumption DEF CreatedAfterParent, Live, ConstantsAssumption
  <2>5. ASSUME NEW S \in SUBSET {s \in Services : cpc'[s] # "none"}, S # {}
        PROVE  \E s \in S : Parent[s] \notin S
    <3>1. S \ {x} \in SUBSET {s \in Services : cpc[s] # "none"}
      BY <1>0, <2>2, <2>5
    <3>2. CASE S \ {x} = {}
      <4>1. S = {x} /\ Parent[x] # x
        BY <2>2, <2>3, <2>5, <3>2, ConstantsAssumption DEF ConstantsAssumption
      <4> QED  BY <4>1
    <3>3. CASE S \ {x} # {}
      <4>1. PICK s \in S \ {x} : Parent[s] \notin S \ {x}
        BY <3>1, <3>3 DEF Rooted
      <4>2. Parent[s] # x
        BY <2>2, <3>1, <4>1, ConstantsAssumption DEF CreatedAfterParent, ConstantsAssumption
      <4> QED  BY <4>1, <4>2
    <3> QED  BY <3>2, <3>3
  <2>6. Rooted'
    BY <2>5 DEF Rooted
  <2> QED  BY <2>4, <2>6
<1>2. CASE ~\E x \in Services : AddCheck(x)
  <2>1. \A s \in Services : (cpc'[s] = "none") <=> (cpc[s] = "none")
    <3>1. ASSUME NEW s \in Services, Clients(s)
          PROVE  cpc' = cpc \/ (cpc[s] # "none" /\ \E stage \in {"row", "done"} : cpc' = [cpc EXCEPT ![s] = stage])
      BY <1>2, <3>1 DEF Clients, Create, AddInsert, AddLink, Build, DeleteByClient, LateWrite
    <3>2. ASSUME NEW t \in Tags, AddTag(t)
          PROVE  cpc' = cpc
      BY <3>2 DEF AddTag
    <3>3. ASSUME NEW r \in Requests, Own(r)
          PROVE  cpc' = cpc
      BY <3>3
         DEF Own, Ask, CheckDelete, AskAgain, RequestStep, Submit, SyncDelete, SyncClose,
             SyncStatus, TaskStep, AccountLost, IndexServices, DeleteService, RemoveService,
             ServicesDone, ListTags, DeleteTag, TagsDone, CloseAccount, DeleteAccount, MarkDeleted
    <3>4. cpc' = cpc \/ \E s \in Services : /\ cpc[s] # "none"
                                            /\ \E stage \in {"row", "done"} : cpc' = [cpc EXCEPT ![s] = stage]
      BY <3>1, <3>2, <3>3, StepKinds DEF vars
    <3> QED  BY <1>0, <3>4
  <2>2. \A s \in Services : cpc[s] = "none" => ~Live(s)' /\ ~svc'[s].linked
    <3> SUFFICES ASSUME NEW s \in Services, cpc[s] = "none"
                 PROVE  svc'[s].state # "live" /\ ~svc'[s].linked
      BY DEF Live
    <3>0. svc[s].state # "live" /\ ~svc[s].linked
      BY DEF CreatedAfterParent, Live
    <3>1. ASSUME NEW x \in Services, Clients(x)
          PROVE  svc'[s].state # "live" /\ ~svc'[s].linked
      <4>1. CASE AddInsert(x) \/ AddLink(x)
        <5>1. x # s
          BY <4>1 DEF AddInsert, AddLink
        <5>2. svc'[s] = svc[s]
          BY <1>0, <4>1, <5>1 DEF AddInsert, AddLink, SetService
        <5> QED  BY <3>0, <5>2
      <4>2. CASE Build(x) \/ DeleteByClient(x) \/ LateWrite(x)
        BY <1>0, <3>0, <4>2 DEF Build, DeleteByClient, LateWrite, Gone, Rows
      <4> QED  BY <1>2, <3>1, <4>1, <4>2 DEF Clients, Create
    <3>2. ASSUME NEW t \in Tags, AddTag(t)
          PROVE  svc' = svc
      BY <3>2 DEF AddTag
    <3>3. ASSUME NEW r \in Requests, Own(r)
          PROVE  svc'[s].state # "live" /\ ~svc'[s].linked
      <4>1. CASE \E x \in Services : DeleteService(r, x)
        <5>1. PICK x \in Services : DeleteService(r, x)
          BY <4>1
        <5>2. svc' = svc \/ svc' = [svc EXCEPT ![x].status = "DELETING"]
          BY <5>1 DEF DeleteService
        <5> QED  BY <1>0, <3>0, <5>2 DEF Rows
      <4>2. CASE RemoveService(r)
        <5> DEFINE x == job[r].now
        <5>1. svc' = Gone(x) \/ svc' = [svc EXCEPT ![x].status = "ERROR"]
          BY <4>2 DEF RemoveService
        <5> QED  BY <1>0, <3>0, <5>1 DEF Gone, Rows
      <4>3. CASE svc' = svc
        BY <3>0, <4>3
      <4> QED
        BY <3>3, <4>1, <4>2, <4>3
           DEF Own, Ask, CheckDelete, AskAgain, RequestStep, Submit, SyncDelete, SyncClose,
               SyncStatus, TaskStep, AccountLost, IndexServices, ServicesDone, ListTags,
               DeleteTag, TagsDone, CloseAccount, DeleteAccount, MarkDeleted
    <3> QED  BY <3>0, <3>1, <3>2, <3>3, StepKinds DEF vars
  <2>3. CreatedAfterParent'
    BY <2>1, <2>2, ConstantsAssumption DEF CreatedAfterParent, ConstantsAssumption
  <2>4. {s \in Services : cpc'[s] # "none"} = {s \in Services : cpc[s] # "none"}
    BY <2>1
  <2> QED  BY <2>3, <2>4 DEF Rooted
<1> QED
  BY <1>1, <1>2

\* While a row waits for its link nobody deletes or builds it.
LEMMA WaitStep ==
  ASSUME Quiet, TypeOK, ChildInv, RowsWait, [Next]_vars
  PROVE  RowsWait'
<1>0. svc \in [Services -> Rows] /\ cpc \in [Services -> {"none", "checked", "row", "done"}]
  BY DEF TypeOK
<1> SUFFICES ASSUME NEW s \in Services, cpc'[s] = "row"
             PROVE  svc'[s].state = "live" /\ svc'[s].status = "DRAFT"
  BY DEF RowsWait, Live
<1>1. CASE AddInsert(s)
  BY <1>0, <1>1 DEF AddInsert, SetService, NoRow
<1>2. CASE ~AddInsert(s)
  <2>1. cpc[s] = "row"
    <3>1. ASSUME NEW x \in Services, Clients(x) PROVE cpc[s] = "row"
      BY <1>0, <1>2, <3>1 DEF Clients, Create, AddCheck, AddInsert, AddLink, Build,
                              DeleteByClient, LateWrite
    <3>2. ASSUME NEW r \in Requests, Own(r) PROVE cpc' = cpc
      BY <3>2
         DEF Own, Ask, CheckDelete, AskAgain, RequestStep, Submit, SyncDelete, SyncClose,
             SyncStatus, TaskStep, AccountLost, IndexServices, DeleteService, RemoveService,
             ServicesDone, ListTags, DeleteTag, TagsDone, CloseAccount, DeleteAccount, MarkDeleted
    <3> QED  BY <3>1, <3>2, StepKinds DEF AddTag, vars
  <2>2. svc[s].state = "live" /\ svc[s].status = "DRAFT"
    BY <2>1 DEF RowsWait, Live
  <2>3. ~Deleting
    BY <2>1 DEF ChildInv, CreatedQuietly, Creating
  <2>4. ASSUME NEW x \in Services, Clients(x) PROVE svc'[s] = svc[s]
    <3>1. x = s => ~Clients(x)
      <4> SUFFICES ASSUME x = s PROVE FALSE
        OBVIOUS
      <4>1. cpc'[s] = "row" /\ cpc[s] = "row"
        BY <2>1
      <4>2. ~AddCheck(s) /\ ~AddInsert(s) /\ ~AddLink(s)
        BY <1>0, <4>1 DEF AddCheck, AddInsert, AddLink
      <4> QED
        BY <2>2, <2>4, <4>2 DEF Clients, Create, Build, DeleteByClient, LateWrite, Deletable
    <3>2. x # s
      BY <2>4, <3>1
    <3> QED
      BY <1>0, <2>4, <3>2 DEF Clients, Create, AddCheck, AddInsert, AddLink, Build,
                              DeleteByClient, LateWrite, Gone, SetService
  <2>5. ASSUME NEW r \in Requests, Own(r) PROVE svc' = svc
    BY <2>3, <2>5
       DEF Deleting, Own, Ask, CheckDelete, AskAgain, RequestStep, Submit, SyncDelete,
           SyncClose, SyncStatus, TaskStep, AccountLost, IndexServices, DeleteService,
           RemoveService, ServicesDone, ListTags, DeleteTag, TagsDone, CloseAccount,
           DeleteAccount, MarkDeleted
  <2>6. svc'[s] = svc[s]
    BY <2>4, <2>5, StepKinds DEF AddTag, vars
  <2> QED  BY <2>2, <2>6
<1> QED
  BY <1>1, <1>2

\* Who writes another status into a row that was deleted is a task, and it does
\* so to a service without children.
LEMMA ParentsStep ==
  ASSUME Quiet, "late" \notin Faults, TypeOK, ChildInv, RowsWait, ParentsFound, [Next]_vars
  PROVE  ParentsFound'
<1>0. /\ svc \in [Services -> Rows] /\ cpc \in [Services -> {"none", "checked", "row", "done"}]
      /\ \A t \in Services : Parent[t] # NoService => Parent[t] \in Services
  BY ConstantsAssumption DEF TypeOK, ConstantsAssumption
<1> DEFINE Found(p) == svc[p].state = "live" \/ svc[p].status = "DELETED"
           Needs(t) == cpc[t] \in {"checked", "row"} \/ (svc[t].state = "live" /\ svc[t].linked)
<1>1. \A t \in Services : Needs(t) /\ Parent[t] # NoService => Found(Parent[t])
  BY DEF ParentsFound, ChildOf, Live
<1> SUFFICES ASSUME NEW t \in Services, Needs(t)', Parent[t] # NoService
             PROVE  Found(Parent[t])'
  BY DEF ParentsFound, ChildOf, Live
<1>2. Parent[t] \in Services
  BY <1>0
<1>3. CASE UNCHANGED vars
  BY <1>1, <1>3 DEF vars
<1>4. ASSUME NEW x \in Tags, AddTag(x)
      PROVE  Found(Parent[t])'
  BY <1>1, <1>4 DEF AddTag
<1>5. ASSUME NEW x \in Services, Clients(x)
      PROVE  Found(Parent[t])'
  <2>1. CASE AddCheck(x)
    BY <1>0, <1>1, <2>1 DEF AddCheck, Live
  <2>2. CASE AddInsert(x)
    <3>1. Needs(t)
      BY <1>0, <2>2 DEF AddInsert, SetService, NoRow
    <3> QED  BY <1>0, <1>1, <1>2, <2>2, <3>1 DEF AddInsert, SetService, NoRow
  <2>3. CASE AddLink(x)
    <3>1. Needs(t)
      <4>1. t = x => cpc[t] = "row"
        BY <2>3 DEF AddLink
      <4>2. t # x => cpc'[t] = cpc[t] /\ svc'[t] = svc[t]
        BY <1>0, <2>3 DEF AddLink
      <4> QED  BY <4>1, <4>2
    <3>2. svc'[Parent[t]].state = svc[Parent[t]].state
          /\ (Parent[t] # x => svc'[Parent[t]] = svc[Parent[t]])
      BY <1>0, <1>2, <2>3 DEF AddLink, Rows
    <3>3. svc[x].state = "live"
      BY <2>3 DEF AddLink, RowsWait, Live
    <3> QED  BY <1>1, <3>1, <3>2, <3>3
  <2>4. CASE Build(x) \/ DeleteByClient(x)
    <3>1. Needs(t)
      BY <1>0, <2>4 DEF Build, DeleteByClient, Gone, Live, Rows
    <3>2. Found(Parent[t])
      BY <1>1, <3>1
    <3> QED  BY <1>0, <1>2, <2>4, <3>2 DEF Build, DeleteByClient, Gone, Live, Rows
  <2> QED  BY <1>5, <2>1, <2>2, <2>3, <2>4 DEF Clients, Create, LateWrite, May
<1>6. ASSUME NEW r \in Requests, Own(r)
      PROVE  Found(Parent[t])'
  <2>1. CASE svc' = svc
    <3>1. cpc' = cpc
      BY <1>6
         DEF Own, Ask, CheckDelete, AskAgain, RequestStep, Submit, SyncDelete, SyncClose,
             SyncStatus, TaskStep, AccountLost, IndexServices, DeleteService, RemoveService,
             ServicesDone, ListTags, DeleteTag, TagsDone, CloseAccount, DeleteAccount, MarkDeleted
    <3> QED  BY <1>1, <2>1, <3>1
  <2>2. ASSUME tpc[r] \in {"deleting", "removing"}, cpc' = cpc
        PROVE  ChildOf(t, Parent[t])
    <3>1. ~Creating
      BY <2>2 DEF Deleting, ChildInv, CreatedQuietly
    <3>2. Live(t)' /\ svc'[t].linked
      BY <2>2, <3>1 DEF Creating, Live
    <3>3. Live(t) /\ svc[t].linked
      BY <3>1, <3>2, RowsStay
    <3> QED  BY <3>3 DEF ChildOf
  <2>3. CASE \E x \in Services : DeleteService(r, x)
    <3>1. PICK x \in Services : DeleteService(r, x)
      BY <2>3
    <3>2. tpc[r] = "deleting" /\ x \in job[r].left /\ cpc' = cpc
          /\ \A u \in job[r].left : job[r].under[u] # x
      BY <3>1 DEF DeleteService, NextToDelete
    <3>3. ChildOf(t, Parent[t])
      BY <2>2, <3>2
    <3>4. Parent[t] # x
      BY <3>2, <3>3 DEF ChildInv, KnowsChildren
    <3>5. svc' = svc \/ svc' = [svc EXCEPT ![x].status = "DELETING"]
      BY <3>1 DEF DeleteService
    <3>6. Found(Parent[t])
      BY <1>1, <3>3 DEF ChildOf, Live
    <3> QED  BY <1>0, <1>2, <3>4, <3>5, <3>6
  <2>4. CASE RemoveService(r)
    <3> DEFINE x == job[r].now
    <3>1. tpc[r] = "removing" /\ cpc' = cpc
      BY <2>4 DEF RemoveService
    <3>2. ChildOf(t, Parent[t])
      BY <2>2, <3>1
    <3>3. Parent[t] # x
      BY <3>1, <3>2 DEF ChildInv, KnowsChildren
    <3>4. svc' = Gone(x) \/ svc' = [svc EXCEPT ![x].status = "ERROR"]
      BY <2>4 DEF RemoveService
    <3>5. Found(Parent[t])
      BY <1>1, <3>2 DEF ChildOf, Live
    <3> QED  BY <1>0, <1>2, <3>3, <3>4, <3>5 DEF Gone
  <2> QED
    BY <1>6, <2>1, <2>3, <2>4
       DEF Own, Ask, CheckDelete, AskAgain, RequestStep, Submit, SyncDelete, SyncClose,
           SyncStatus, TaskStep, AccountLost, IndexServices, ServicesDone, ListTags,
           DeleteTag, TagsDone, CloseAccount, DeleteAccount, MarkDeleted
<1> QED
  BY <1>3, <1>4, <1>5, <1>6, StepKinds

\* What a request knows of the services stays true while others work.
LEMMA ServicesKnown ==
  ASSUME TypeOK, NEW r \in Requests, KnowsServices(r),
         Works(r) => \A t \in Services : Live(t)' => Live(t),
         rpc'[r] = rpc[r], tpc'[r] = tpc[r], job'[r] = job[r]
  PROVE  KnowsServices(r)'
<1>1. CASE Works(r)
  BY <1>1 DEF KnowsServices, AnyLive
<1>2. CASE ~Works(r)
  BY <1>2 DEF KnowsServices, Works, SyncStages
<1> QED
  BY <1>1, <1>2

\* And it learns what it should at each of its own steps.
LEMMA ServicesLearned ==
  ASSUME Quiet, TypeOK, ServiceInv, [Next]_vars, NEW r \in Requests, Own(r)
  PROVE  KnowsServices(r)'
<1>0. /\ tpc[r] # "none" => rpc[r] = "done"
      /\ KnowsServices(r) /\ KnowsChildren(r) /\ CreatedQuietly
      /\ job \in [Requests -> Jobs] /\ svc \in [Services -> Rows]
  BY DEF ServiceInv, ChildInv, TasksOfRequests, TypeOK
<1>1. CASE Ask(r)
  <2>1. PICK opts \in SUBSET Options : CheckDelete(r, opts)
    BY <1>1 DEF Ask
  <2>2. job'[r].opts = opts /\ rpc'[r] = "checked" /\ tpc'[r] = "none" /\ svc' = svc
        /\ ("services" \in opts \/ ~AnyLive)
    BY <1>0, <2>1 DEF CheckDelete, Job, RequestGoes, TypeOK
  <2> QED  BY <2>2 DEF KnowsServices, SyncStages, AnyLive, Live
<1>2. CASE AskAgain(r)
  BY <1>2 DEF AskAgain, RequestGoes, TaskGoes, KnowsServices, SyncStages, TypeOK
<1>3. CASE Submit(r)
  <2>1. tpc[r] = "none" /\ UNCHANGED <<svc, job>> /\ rpc[r] = "checked"
    BY <1>0, <1>3 DEF Submit
  <2>2. \/ rpc'[r] = "sync" /\ tpc'[r] = "none" /\ "services" \notin job[r].opts
        \/ rpc'[r] = "failed" /\ tpc'[r] = "none"
        \/ rpc'[r] = "done" /\ tpc'[r] = "services"
        \/ rpc'[r] = "done" /\ tpc'[r] = "tags" /\ "services" \notin job[r].opts
    BY <1>3, <2>1 DEF Submit, RequestGoes, TaskGoes, TypeOK
  <2> QED  BY <1>0, <2>1, <2>2 DEF KnowsServices, SyncStages, AnyLive, Live
<1>4. CASE SyncDelete(r) \/ SyncClose(r) \/ SyncStatus(r)
  <2>1. tpc[r] = "none" /\ ~AnyLive /\ UNCHANGED <<svc, job, tpc>>
    BY <1>0, <1>4 DEF SyncDelete, SyncClose, SyncStatus, KnowsServices, SyncStages
  <2>2. ~AnyLive'
    BY <2>1 DEF AnyLive, Live
  <2>3. rpc'[r] # "checked" /\ tpc'[r] = "none"
    BY <1>4, <2>1 DEF SyncDelete, SyncClose, SyncStatus, RequestGoes, TypeOK
  <2> QED  BY <2>2, <2>3 DEF KnowsServices
<1>5. CASE TaskStep(r)
  <2>0. tpc[r] \notin {"none", "ended", "failed"} /\ rpc' = rpc /\ rpc[r] = "done"
    BY <1>0, <1>5 DEF TaskStep, AccountLost, IndexServices, DeleteService, RemoveService,
                ServicesDone, ListTags, DeleteTag, TagsDone, CloseAccount, DeleteAccount,
                MarkDeleted
  <2>1. \A t \in Services : Live(t)' => Live(t)
    BY <1>0, <2>0, NothingNew DEF Deleting
  <2>2. ASSUME tpc'[r] \in {"ended", "failed"}
        PROVE  KnowsServices(r)'
    BY <2>0, <2>2 DEF KnowsServices, SyncStages
  <2>3. CASE AccountLost(r) \/ CloseAccount(r) \/ MarkDeleted(r)
    BY <2>2, <2>3 DEF AccountLost, CloseAccount, MarkDeleted, TaskEnds, TaskGoes, TypeOK
  <2>4. CASE IndexServices(r)
    <3>1. tpc'[r] = "deleting" /\ job'[r].left = InTrees
      <4>1. job'[r].left = InTrees
        BY <1>0, <2>4 DEF IndexServices, Jobs
      <4> QED  BY <2>4, <4>1 DEF IndexServices, TaskGoes, TypeOK
    <3>2. \A s \in Services : Live(s) => s \in InTrees
      BY TreesComplete DEF ServiceInv
    <3> QED  BY <2>0, <2>1, <3>1, <3>2 DEF KnowsServices, SyncStages
  <2>5. CASE \E s \in Services : DeleteService(r, s)
    <3>1. tpc[r] = "deleting"
      BY <2>5 DEF DeleteService
    <3>2. tpc'[r] = "failed" \/ (tpc'[r] = "removing" /\ job'[r].left = job[r].left)
      BY <1>0, <2>5 DEF DeleteService, TaskEnds, TaskGoes, TypeOK, Jobs
    <3> QED  BY <1>0, <2>0, <2>1, <2>2, <3>1, <3>2 DEF KnowsServices, SyncStages
  <2>6. CASE RemoveService(r)
    <3>1. tpc[r] = "removing" /\ job[r].now \in job[r].left /\ job[r].left \subseteq Services
      BY <1>0, <2>6, JobType DEF RemoveService, KnowsChildren
    <3>2. \/ tpc'[r] = "failed"
          \/ /\ tpc'[r] = "deleting" /\ job'[r].left = job[r].left \ {job[r].now}
             /\ svc' = Gone(job[r].now)
      BY <1>0, <2>6 DEF RemoveService, TaskEnds, TaskGoes, TypeOK, Jobs
    <3>3. ASSUME svc' = Gone(job[r].now)
          PROVE  svc'[job[r].now].state = "deleted"
      BY <1>0, <3>1, <3>3 DEF Gone, Rows
    <3>4. \A s \in Services : Live(s) => s \in job[r].left
      BY <1>0, <3>1 DEF KnowsServices
    <3>5. ASSUME tpc'[r] = "deleting" PROVE \A s \in Services : Live(s)' => s \in job'[r].left
      BY <2>1, <3>2, <3>3, <3>4, <3>5 DEF Live
    <3> QED  BY <2>0, <2>2, <3>2, <3>5 DEF KnowsServices, SyncStages
  <2>7. CASE ServicesDone(r)
    <3>1. ~AnyLive
      BY <1>0, <2>7 DEF ServicesDone, KnowsServices, AnyLive
    <3>2. tpc'[r] \in {"tags", "account"}
      BY <2>7 DEF ServicesDone, TaskGoes, TypeOK
    <3> QED  BY <2>0, <2>1, <3>1, <3>2 DEF KnowsServices, SyncStages, AnyLive
  <2>8. CASE ListTags(r) \/ (\E t \in Tags : DeleteTag(r, t)) \/ TagsDone(r) \/ DeleteAccount(r)
    <3>1. ~AnyLive
      BY <1>0, <2>8 DEF ListTags, DeleteTag, TagsDone, DeleteAccount, KnowsServices
    <3>2. tpc'[r] \in {"untagging", "account", "status", "failed"}
      BY <2>8 DEF ListTags, DeleteTag, TagsDone, DeleteAccount, TaskEnds, TaskGoes, TypeOK
    <3> QED  BY <2>0, <2>1, <3>1, <3>2 DEF KnowsServices, SyncStages, AnyLive
  <2> QED
    BY <1>5, <2>3, <2>4, <2>5, <2>6, <2>7, <2>8 DEF TaskStep
<1> QED
  BY <1>1, <1>2, <1>3, <1>4, <1>5 DEF Own, RequestStep

\* The row of the account is written by requests that know that no service is left.
LEMMA OutlivesStep ==
  ASSUME Quiet, TypeOK, ServiceInv, [Next]_vars
  PROVE  NothingOutlives'
<1> SUFFICES ASSUME ~IsActive'
             PROVE  ~AnyLive'
  BY DEF NothingOutlives
<1>1. CASE ~IsActive
  <2>1. ~AnyLive /\ ~Creating
    BY <1>1 DEF ServiceInv, NothingOutlives, ChildInv, CreatedQuietly
  <2> QED  BY <2>1, RowsStay DEF AnyLive
<1>2. CASE IsActive
  <2>1. acct' # acct
    BY <1>2 DEF IsActive
  <2>2. ~\E s \in Services : Clients(s)
    BY <2>1 DEF Clients, Create, AddCheck, AddInsert, AddLink, Build, DeleteByClient, LateWrite
  <2>3. PICK r \in Requests : Own(r)
    BY <2>1, <2>2, StepKinds DEF vars, AddTag
  <2>4. SyncDelete(r) \/ SyncClose(r) \/ SyncStatus(r) \/ CloseAccount(r) \/ DeleteAccount(r)
        \/ MarkDeleted(r)
    BY <2>1, <2>3
       DEF Own, Ask, CheckDelete, AskAgain, RequestStep, Submit, TaskStep, AccountLost,
           IndexServices, DeleteService, RemoveService, ServicesDone, ListTags, DeleteTag,
           TagsDone
  <2>5. KnowsServices(r)
    BY DEF ServiceInv
  <2>6. ~AnyLive /\ svc' = svc
    BY <2>4, <2>5 DEF SyncDelete, SyncClose, SyncStatus, CloseAccount, DeleteAccount, MarkDeleted,
                KnowsServices, SyncStages
  <2> QED  BY <2>6 DEF AnyLive, Live
<1> QED
  BY <1>1, <1>2

\* ServiceInv is kept by every step.
LEMMA ServiceStep ==
  ASSUME Quiet, "late" \notin Faults, TypeOK, ServiceInv, [Next]_vars
  PROVE  ServiceInv'
<1>1. ChildInv' /\ CreatedAfterParent' /\ Rooted' /\ RowsWait' /\ ParentsFound' /\ NothingOutlives'
  BY ChildStep, RootedStep, WaitStep, ParentsStep, OutlivesStep DEF ServiceInv
<1>2. ASSUME NEW r \in Requests
      PROVE  KnowsServices(r)'
  <2>1. CASE Own(r)
    BY <2>1, ServicesLearned
  <2>2. CASE ~Own(r)
    <3>1. Works(r) => \A t \in Services : Live(t)' => Live(t)
      BY NothingNew DEF ServiceInv, ChildInv, Works, SyncStages, Deleting
    <3> QED  BY <2>2, <3>1, OthersStay, ServicesKnown DEF ServiceInv
  <2> QED  BY <2>1, <2>2
<1> QED
  BY <1>1, <1>2 DEF ServiceInv

\* No service outlives its account, if clients create nothing while they delete
\* and no task of a deleted instance writes late (a late status makes a deleted
\* parent come back in get_parent, and hides its children from the index). The
\* index is complete for trees of any depth.
THEOREM NoServiceOutlives == Quiet /\ "late" \notin Faults => (Spec => []NothingOutlives)
<1> SUFFICES ASSUME Quiet, "late" \notin Faults PROVE Spec => []NothingOutlives
  OBVIOUS
<1>1. Init => ServiceInv
  <2> SUFFICES ASSUME Init PROVE ServiceInv
    OBVIOUS
  <2>1. \A s \in Services : svc[s] = NoRow /\ cpc[s] = "none"
    BY DEF Init
  <2>2. \A r \in Requests : rpc[r] = "idle" /\ tpc[r] = "none"
    BY DEF Init
  <2>3. CreatedAfterParent /\ Rooted /\ RowsWait /\ ParentsFound
    BY <2>1 DEF CreatedAfterParent, Rooted, RowsWait, ParentsFound, ChildOf, NoRow, Live
  <2>4. NothingOutlives /\ \A r \in Requests : KnowsServices(r)
    BY <2>1, <2>2 DEF NothingOutlives, KnowsServices, AnyLive, Live, NoRow, SyncStages
  <2> QED  BY <2>3, <2>4, ChildInit DEF ServiceInv
<1>2. TypeOK /\ ServiceInv /\ [Next]_vars => ServiceInv'
  BY ServiceStep
<1>3. ServiceInv => NothingOutlives
  BY DEF ServiceInv
<1> QED
  BY <1>1, <1>2, <1>3, TypeInductive, PTL DEF Spec
============================================================================
