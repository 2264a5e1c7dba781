------------------------- MODULE FileSystem_proofs -------------------------
(* Theorems about FileSystem for every set of file systems, shares, sizes and *)
(* requests, whatever is asked for alone and whatever fails.                 *)
EXTENDS FileSystem, SequenceTheorems, TLAPS

----------------------------------------------------------------------------
(* Type correctness. A step that ends has to be there: a job has steps until  *)
(* its task has ended, and no task before its request has dispatched it.     *)

StageOK(r) ==
  /\ rpc[r] \in {"idle", "read", "dispatch"} => tpc[r] = "none"
  /\ \/ rpc[r] \in {"read", "dispatch"}
     \/ tpc[r] \in {"step", "ask", "wait", "write", "close"}
     => job[r].steps # <<>>

TInv == TypeOK /\ \A r \in Requests : StageOK(r)

RowRec == [state : RowStates, status : Statuses, share : Shares \cup {NoShare}]
ShareRec == [state : ShareStates, size : Sizes, compliance : BOOLEAN, replica : BOOLEAN]

\* The configuration a file system starts with.
LEMMA FirstConfigTyped == \A f \in FileSystems : FirstConfig(f) \in Configs
<1>1. (CHOOSE n \in Sizes : TRUE) \in Sizes
  BY ConstantsAssumption
<1> QED
  BY <1>1 DEF FirstConfig, Configs

\* A share that is made of a configuration.
LEMMA NewShareTyped ==
  ASSUME NEW s \in ShareStates, NEW c \in Configs
  PROVE  NewShare(s, c) \in ShareRec
BY DEF NewShare, Configs, ShareRec

\* A new job is typed.
LEMMA JobTyped ==
  ASSUME NEW op \in Operations, NEW f \in FileSystems, NEW c \in Configs, NEW w \in Configs,
         NEW steps \in Seq(StepNames)
  PROVE  Job(op, f, c, w, steps) \in Jobs /\ Job(op, f, c, w, steps).steps = steps
BY DEF Job, Jobs

\* The parts of a job.
LEMMA JobParts ==
  ASSUME NEW j \in Jobs
  PROVE  /\ j.op \in Operations /\ j.on \in FileSystems /\ j.conf \in Configs
         /\ j.want \in Configs /\ j.extend \in BOOLEAN
         /\ j.source \in Shares \cup {NoShare} /\ j.has \in BOOLEAN
         /\ j.share \in Shares \cup {NoShare} /\ j.steps \in Seq(StepNames)
BY DEF Jobs

\* A job stays typed when one of its parts changes.
LEMMA JobChanges ==
  ASSUME NEW j \in Jobs
  PROVE  /\ \A c \in Configs : [j EXCEPT !.conf = c] \in Jobs
         /\ \A b \in BOOLEAN : [j EXCEPT !.has = b] \in Jobs
         /\ \A b \in BOOLEAN : [j EXCEPT !.extend = b] \in Jobs
         /\ \A s \in Shares \cup {NoShare} : [j EXCEPT !.share = s] \in Jobs
         /\ \A s \in Shares \cup {NoShare}, b \in BOOLEAN :
              [j EXCEPT !.source = s, !.has = b] \in Jobs
         /\ \A q \in Seq(StepNames) : [j EXCEPT !.steps = q] \in Jobs
         /\ [j EXCEPT !.conf = j.conf].steps = j.steps
BY DEF Jobs

\* What is left of the steps when one is taken off.
LEMMA TailOfSteps ==
  ASSUME NEW q \in Seq(StepNames), q # <<>>
  PROVE  Tail(q) \in Seq(StepNames) /\ (Len(q) # 1 => Tail(q) # <<>>)
<1>1. Len(q) \in Nat \ {0}
  BY EmptySeq
<1>2. Tail(q) \in Seq(StepNames) /\ Len(Tail(q)) = Len(q) - 1
  BY HeadTailProperties
<1>3. Len(<<>>) = 0
  BY EmptySeq
<1>4. Len(q) # 1 => Len(Tail(q)) # 0
  BY <1>1, <1>2
<1> QED
  BY <1>2, <1>3, <1>4

\* The steps of the longer tasks.
LEMMA StepsTyped ==
  /\ \A on \in BOOLEAN : ComplianceSteps(on) \in Seq(StepNames) /\ ComplianceSteps(on) # <<>>
  /\ \A op \in {"unlink", "suspend", "rpo"} :
       ReplicaSteps(op) \in Seq(StepNames) /\ ReplicaSteps(op) # <<>>
<1>1. \A x \in StepNames : <<x>> \in Seq(StepNames) /\ <<x>> # <<>>
  OBVIOUS
<1>2. \A x, y \in StepNames : <<x, y>> \in Seq(StepNames) /\ <<x, y>> # <<>>
  OBVIOUS
<1>3. \A x, y, z \in StepNames : <<x, y, z>> \in Seq(StepNames) /\ <<x, y, z>> # <<>>
  OBVIOUS
<1>4. \A x, y, z, t \in StepNames : <<x, y, z, t>> \in Seq(StepNames) /\ <<x, y, z, t>> # <<>>
  OBVIOUS
<1>5. {"manage", "compliance", "rpo", "replica", "rename"} \subseteq StepNames
  BY DEF StepNames
<1>6. \A on \in BOOLEAN : ComplianceSteps(on) \in Seq(StepNames) /\ ComplianceSteps(on) # <<>>
  <2> SUFFICES ASSUME NEW on \in BOOLEAN
               PROVE  ComplianceSteps(on) \in Seq(StepNames) /\ ComplianceSteps(on) # <<>>
    OBVIOUS
  <2>1. CASE on
    BY <1>3, <1>5, <2>1 DEF ComplianceSteps
  <2>2. CASE ~on
    BY <1>4, <1>5, <2>2 DEF ComplianceSteps
  <2> QED
    BY <2>1, <2>2
<1>7. ReplicaSteps("unlink") = <<"replica", "rename">>
        /\ ReplicaSteps("suspend") = <<"replica">> /\ ReplicaSteps("rpo") = <<"replica", "rpo">>
  BY DEF ReplicaSteps
<1>8. \A op \in {"unlink", "suspend", "rpo"} :
        ReplicaSteps(op) \in Seq(StepNames) /\ ReplicaSteps(op) # <<>>
  <2>1. ReplicaSteps("unlink") \in Seq(StepNames) /\ ReplicaSteps("unlink") # <<>>
    BY <1>2, <1>5, <1>7
  <2>2. ReplicaSteps("suspend") \in Seq(StepNames) /\ ReplicaSteps("suspend") # <<>>
    BY <1>1, <1>5, <1>7
  <2>3. ReplicaSteps("rpo") \in Seq(StepNames) /\ ReplicaSteps("rpo") # <<>>
    BY <1>2, <1>5, <1>7
  <2> QED
    BY <2>1, <2>2, <2>3
<1> QED
  BY <1>6, <1>8

\* Initially every row, share and job is typed and no request has begun.
LEMMA InitTInv == Init => TInv
<1> SUFFICES ASSUME Init PROVE TInv
  OBVIOUS
<1> DEFINE any == CHOOSE f \in FileSystems : TRUE
<1>1. any \in FileSystems
  BY ConstantsAssumption
<1>2. row \in [FileSystems -> RowRec]
  BY ConstantsAssumption DEF Init, RowRec, RowStates, Statuses, Settled
<1>3. conf \in [FileSystems -> Configs]
  BY FirstConfigTyped DEF Init
<1>4. share \in [Shares -> ShareRec]
  <2>1. \A s \in Shares : (\E f \in Existing : Share[f] = s) =>
          NewShare("live", FirstConfig(CHOOSE f \in Existing : Share[f] = s)) \in ShareRec
    <3> SUFFICES ASSUME NEW s \in Shares, \E f \in Existing : Share[f] = s
                 PROVE  NewShare("live", FirstConfig(CHOOSE f \in Existing : Share[f] = s)) \in ShareRec
      OBVIOUS
    <3>1. (CHOOSE f \in Existing : Share[f] = s) \in FileSystems
      BY ConstantsAssumption
    <3>2. "live" \in ShareStates
      BY DEF ShareStates
    <3> QED
      BY <3>1, <3>2, FirstConfigTyped, NewShareTyped
  <2>2. NewShare("free", FirstConfig(any)) \in ShareRec
    <3>1. "free" \in ShareStates
      BY DEF ShareStates
    <3> QED
      BY <1>1, <3>1, FirstConfigTyped, NewShareTyped
  <2> QED
    BY <2>1, <2>2 DEF Init
<1>5. job \in [Requests -> Jobs]
  <2>1. Job("touch", any, FirstConfig(any), FirstConfig(any), <<>>) \in Jobs
    <3>1. "touch" \in Operations /\ <<>> \in Seq(StepNames)
      BY DEF Operations
    <3> QED
      BY <1>1, <3>1, FirstConfigTyped, JobTyped
  <2> QED
    BY <2>1 DEF Init
<1>6. rpc \in [Requests -> RequestStages] /\ tpc \in [Requests -> TaskStages]
        /\ remote \in [Requests -> RemoteStages]
  BY DEF Init, RequestStages, TaskStages, RemoteStages
<1>7. \A r \in Requests : StageOK(r)
  BY DEF Init, StageOK
<1> QED
  BY <1>2, <1>3, <1>4, <1>5, <1>6, <1>7 DEF TInv, TypeOK, RowRec, ShareRec

----------------------------------------------------------------------------
(* Steps of the client.                                                    *)

\* A request that has read is typed when its job is.
LEMMA AsksTyped ==
  ASSUME TInv, NEW r \in Requests, rpc[r] = "idle",
         NEW j \in Jobs, j.steps # <<>>, Asks(r, j)
  PROVE  TInv'
<1>1. job' \in [Requests -> Jobs] /\ rpc' \in [Requests -> RequestStages]
  BY DEF Asks, Holds, RequestGoes, TInv, TypeOK, RequestStages
<1>2. \A q \in Requests : StageOK(q)'
  BY DEF Asks, Holds, RequestGoes, TInv, TypeOK, StageOK
<1> QED
  BY <1>1, <1>2 DEF Asks, TInv, TypeOK

\* The same for requests that want no other configuration.
LEMMA AskingTyped ==
  ASSUME TInv, NEW r \in Requests, rpc[r] = "idle", NEW f \in FileSystems,
         NEW op \in Operations, NEW steps \in Seq(StepNames), steps # <<>>,
         Asking(r, op, f, steps)
  PROVE  TInv'
<1>1. conf[f] \in Configs
  BY DEF TInv, TypeOK
<1>2. Job(op, f, conf[f], conf[f], steps) \in Jobs
        /\ Job(op, f, conf[f], conf[f], steps).steps # <<>>
  BY <1>1, JobTyped
<1> QED
  BY <1>2, AsksTyped DEF Asking

\* A new instance is typed.
LEMMA AddsTyped ==
  ASSUME TInv, NEW r \in Requests, rpc[r] = "idle", NEW f \in FileSystems,
         NEW c \in Configs, NEW s \in Shares \cup {NoShare}, Adds(r, f, c, s)
  PROVE  TInv'
<1> DEFINE j == Job("create", f, c, c, <<"create">>)
<1> DEFINE k == [j EXCEPT !.source = s, !.has = f \notin Old]
<1>1. "create" \in Operations /\ <<"create">> \in Seq(StepNames) /\ <<"create">> # <<>>
  BY DEF Operations, StepNames
<1>2. j \in Jobs /\ j.steps # <<>>
  BY <1>1, JobTyped
<1>3. k \in Jobs /\ k.steps # <<>>
  <2> HIDE DEF j
  <2>1. k \in Jobs
    BY <1>2, JobChanges
  <2>2. k.steps = j.steps
    BY <1>2 DEF Jobs
  <2> QED
    BY <1>2, <2>1, <2>2
<1> HIDE DEF k
<1>4. job' \in [Requests -> Jobs] /\ rpc' \in [Requests -> RequestStages] /\ job' = [job EXCEPT ![r] = k]
  BY <1>3 DEF Adds, Holds, RequestGoes, TInv, TypeOK, RequestStages, k
<1>5. row' \in [FileSystems -> RowRec] /\ conf' \in [FileSystems -> Configs]
  BY DEF Adds, WithConfig, TInv, TypeOK, RowRec, RowStates
<1>6. \A q \in Requests : StageOK(q)'
  BY <1>3, <1>4 DEF Adds, RequestGoes, TInv, TypeOK, StageOK
<1> QED
  BY <1>4, <1>5, <1>6 DEF Adds, TInv, TypeOK, RowRec

\* Whatever a client asks for, its job is typed and has a step to begin with.
LEMMA ClientTyped ==
  ASSUME TInv, NEW r \in Requests, Client(r)
  PROVE  TInv'
<1>1. PICK f \in FileSystems :
        \/ Create(r, f) \/ \E g \in FileSystems : CreateReplica(r, f, g)
        \/ CreateMountTarget(r, f) \/ DeleteMountTarget(r, f)
        \/ Resize(r, f) \/ Touch(r, f) \/ ManageGrant(r, f) \/ Manage(r, f)
        \/ UpdateCompliance(r, f) \/ ManageReplica(r, f)
        \/ DeleteShare(r, f) \/ Delete(r, f)
  BY DEF Client
<1>2. conf[f] \in Configs /\ row[f].share \in Shares \cup {NoShare}
  BY DEF TInv, TypeOK
<1>3. \A x \in StepNames : <<x>> \in Seq(StepNames) /\ <<x>> # <<>>
  OBVIOUS
<1>4. Operations = {"create", "mount", "unmount", "resize", "touch", "grant", "manage",
                    "compliance", "unlink", "suspend", "rpo", "drop", "delete"}
  BY DEF Operations
<1>5. {"create", "mount", "unmount", "update", "grant", "manage", "drop", "delete"} \subseteq StepNames
  BY DEF StepNames
<1>6. CASE Create(r, f)
  BY <1>6, AddsTyped DEF Create
<1>7. CASE \E g \in FileSystems : CreateReplica(r, f, g)
  <2>1. PICK g \in FileSystems : CreateReplica(r, f, g)
    BY <1>7
  <2>2. conf[g] \in Configs /\ row[g].share \in Shares \cup {NoShare}
    BY DEF TInv, TypeOK
  <2>3. [conf[g] EXCEPT !.compliance = FALSE, !.replica = TRUE] \in Configs
    BY <2>2 DEF Configs
  <2> QED
    BY <2>1, <2>2, <2>3, AddsTyped DEF CreateReplica
<1>8. CASE CreateMountTarget(r, f)
  BY <1>3, <1>4, <1>5, <1>8, AskingTyped DEF CreateMountTarget, MayAsk
<1>9. CASE DeleteMountTarget(r, f)
  BY <1>3, <1>4, <1>5, <1>9, AskingTyped DEF DeleteMountTarget, MayAsk
<1>10. CASE Resize(r, f)
  <2>1. PICK n \in Sizes :
          Asks(r, [Job("resize", f, conf[f], [conf[f] EXCEPT !.size = n], <<"update">>) EXCEPT
                     !.extend = n > conf[f].size])
    BY <1>10 DEF Resize
  <2> DEFINE j == Job("resize", f, conf[f], [conf[f] EXCEPT !.size = n], <<"update">>)
  <2> DEFINE k == [j EXCEPT !.extend = n > conf[f].size]
  <2>2. [conf[f] EXCEPT !.size = n] \in Configs
    BY <1>2 DEF Configs
  <2>3. j \in Jobs /\ j.steps # <<>>
    <3>1. "resize" \in Operations /\ <<"update">> \in Seq(StepNames) /\ <<"update">> # <<>>
      BY <1>3, <1>4, <1>5
    <3> QED
      BY <1>2, <2>2, <3>1, JobTyped
  <2>4. k \in Jobs /\ k.steps = j.steps
    <3>1. (n > conf[f].size) \in BOOLEAN
      OBVIOUS
    <3> HIDE DEF j
    <3> QED
      BY <2>3, <3>1, JobChanges DEF Jobs
  <2>5. Asks(r, k)
    BY <2>1
  <2> HIDE DEF k
  <2> QED
    BY <1>10, <2>3, <2>4, <2>5, AsksTyped DEF Resize, MayAsk
<1>11. CASE Touch(r, f)
  BY <1>3, <1>4, <1>5, <1>11, AskingTyped DEF Touch, MayAsk
<1>12. CASE ManageGrant(r, f)
  BY <1>3, <1>4, <1>5, <1>12, AskingTyped DEF ManageGrant, MayAsk
<1>13. CASE Manage(r, f)
  BY <1>3, <1>4, <1>5, <1>13, AskingTyped DEF Manage, MayAsk
<1>14. CASE UpdateCompliance(r, f)
  <2> DEFINE on == ~conf[f].compliance
  <2>1. Asks(r, Job("compliance", f, conf[f], [conf[f] EXCEPT !.compliance = on], ComplianceSteps(on)))
    BY <1>14 DEF UpdateCompliance
  <2>2. on \in BOOLEAN
    OBVIOUS
  <2>3. [conf[f] EXCEPT !.compliance = on] \in Configs
    BY <1>2, <2>2 DEF Configs
  <2> HIDE DEF on
  <2> DEFINE j == Job("compliance", f, conf[f], [conf[f] EXCEPT !.compliance = on], ComplianceSteps(on))
  <2>4. j \in Jobs /\ j.steps # <<>>
    <3>1. ComplianceSteps(on) \in Seq(StepNames) /\ ComplianceSteps(on) # <<>>
      BY <2>2, StepsTyped
    <3> QED
      BY <1>2, <1>4, <2>3, <3>1, JobTyped
  <2>5. Asks(r, j)
    BY <2>1
  <2> HIDE DEF j
  <2> QED
    BY <1>14, <2>4, <2>5, AsksTyped DEF UpdateCompliance, MayAsk
<1>15. CASE ManageReplica(r, f)
  <2>1. PICK op \in {"unlink", "suspend", "rpo"} : MayAsk(r, f, op) /\ Asking(r, op, f, ReplicaSteps(op))
    BY <1>15 DEF ManageReplica
  <2>2. op \in Operations /\ ReplicaSteps(op) \in Seq(StepNames) /\ ReplicaSteps(op) # <<>>
    BY <1>4, StepsTyped
  <2> QED
    BY <2>1, <2>2, AskingTyped DEF MayAsk
<1>16. CASE DeleteShare(r, f)
  <2> DEFINE steps == IF f \in Old THEN <<"grant", "drop">> ELSE <<"drop">>
  <2>1. steps \in Seq(StepNames) /\ steps # <<>>
    BY <1>3, <1>5
  <2>2. Asks(r, [Job("drop", f, conf[f], conf[f], steps) EXCEPT !.has = HasUuid(f)])
    BY <1>16 DEF DeleteShare
  <2> HIDE DEF steps
  <2> DEFINE j == Job("drop", f, conf[f], conf[f], steps)
  <2> DEFINE k == [j EXCEPT !.has = HasUuid(f)]
  <2>3. j \in Jobs /\ j.steps # <<>>
    BY <1>2, <1>4, <2>1, JobTyped
  <2>4. HasUuid(f) \in BOOLEAN
    BY DEF HasUuid
  <2>5. k \in Jobs /\ k.steps = j.steps
    <3> HIDE DEF j
    <3> QED
      BY <2>3, <2>4, JobChanges DEF Jobs
  <2>6. Asks(r, k)
    BY <2>2
  <2> HIDE DEF k
  <2> QED
    BY <1>16, <2>3, <2>5, <2>6, AsksTyped DEF DeleteShare, MayAsk
<1>17. CASE Delete(r, f)
  BY <1>3, <1>4, <1>5, <1>17, AskingTyped DEF Delete, MayAsk
<1> QED
  BY <1>1, <1>6, <1>7, <1>8, <1>9, <1>10, <1>11, <1>12, <1>13, <1>14, <1>15, <1>16, <1>17

----------------------------------------------------------------------------
(* Steps of the API threads, the tasks and the resource service.           *)

\* What check_resource finds is a truth value.
LEMMA FoundBoolean == \A f \in FileSystems : Found(f) \subseteq BOOLEAN
BY DEF Found, Known

\* A status written into a row leaves the rows typed.
LEMMA RowTyped ==
  ASSUME TInv, NEW f \in FileSystems, NEW s \in Statuses,
         \/ row' = row \/ WithStatus(f, s)
         \/ row' = [row EXCEPT ![f].share = NoShare]
         \/ row' = [row EXCEPT ![f].state = "deleted"]
  PROVE  row' \in [FileSystems -> RowRec]
BY DEF TInv, TypeOK, RowRec, WithStatus, RowStates

\* The parts of a typed state a step of request r may rely on.
LEMMA PartsTyped ==
  ASSUME TInv, NEW r \in Requests
  PROVE  /\ On(r) \in FileSystems
         /\ job[r] \in Jobs
         /\ row \in [FileSystems -> RowRec]
         /\ conf \in [FileSystems -> Configs]
         /\ share \in [Shares -> ShareRec]
         /\ rpc \in [Requests -> RequestStages]
         /\ tpc \in [Requests -> TaskStages]
         /\ remote \in [Requests -> RemoteStages]
         /\ job \in [Requests -> Jobs]
         /\ StageOK(r)
BY JobParts DEF TInv, TypeOK, RowRec, ShareRec, On

\* A state typed in all its parts.
LEMMA TypedAgain ==
  ASSUME row' \in [FileSystems -> RowRec], conf' \in [FileSystems -> Configs],
         share' \in [Shares -> ShareRec], rpc' \in [Requests -> RequestStages],
         tpc' \in [Requests -> TaskStages], remote' \in [Requests -> RemoteStages],
         job' \in [Requests -> Jobs], \A q \in Requests : StageOK(q)'
  PROVE  TInv'
BY DEF TInv, TypeOK, RowRec, ShareRec

\* The API thread writes a status or a configuration it has read, then
\* dispatches a task that has steps.
LEMMA ServingTyped ==
  ASSUME TInv, NEW r \in Requests, Serving(r)
  PROVE  TInv'
<1>1. /\ On(r) \in FileSystems /\ job[r] \in Jobs
      /\ row \in [FileSystems -> RowRec] /\ conf \in [FileSystems -> Configs]
      /\ share \in [Shares -> ShareRec] /\ rpc \in [Requests -> RequestStages]
      /\ tpc \in [Requests -> TaskStages] /\ remote \in [Requests -> RemoteStages]
      /\ job \in [Requests -> Jobs] /\ \A q \in Requests : StageOK(q)
  BY PartsTyped DEF TInv
<1>2. {"DELETING", "BUILDING", "ERROR"} \subseteq Statuses
  BY DEF Statuses, Settled
<1>3. job[r].conf \in Configs /\ job[r].want \in Configs
  BY <1>1, JobParts
<1>4. CASE BeginUpdate(r)
  <2>1. row' \in [FileSystems -> RowRec]
    BY <1>1, <1>2, <1>4, RowTyped DEF BeginUpdate
  <2>2. rpc' \in [Requests -> RequestStages] /\ \A q \in Requests : StageOK(q)'
    BY <1>1, <1>4 DEF BeginUpdate, RequestGoes, RequestStages, StageOK
  <2> QED
    BY <1>1, <1>4, <2>1, <2>2, TypedAgain DEF BeginUpdate
<1>5. CASE BeginAction(r)
  <2>1. conf' \in [FileSystems -> Configs]
    BY <1>1, <1>3, <1>5 DEF BeginAction, WithConfig
  <2>2. rpc' \in [Requests -> RequestStages] /\ \A q \in Requests : StageOK(q)'
    BY <1>1, <1>5 DEF BeginAction, RequestGoes, RequestStages, StageOK
  <2> QED
    BY <1>1, <1>5, <2>1, <2>2, TypedAgain DEF BeginAction
<1>6. CASE Dispatch(r)
  <2>1. PICK found \in BOOLEAN :
          Holds(r, [job[r] EXCEPT !.has =
                      IF Op(r) \in {"resize", "touch", "delete"} THEN found ELSE @])
    BY <1>1, <1>6, FoundBoolean DEF Dispatch
  <2> DEFINE b == IF Op(r) \in {"resize", "touch", "delete"} THEN found ELSE job[r].has
  <2>2. job' = [job EXCEPT ![r] = [job[r] EXCEPT !.has = b]]
    BY <2>1 DEF Holds
  <2>3. b \in BOOLEAN
    BY <1>1, JobParts
  <2> HIDE DEF b
  <2>4. [job[r] EXCEPT !.has = b] \in Jobs /\ [job[r] EXCEPT !.has = b].steps = job[r].steps
    BY <1>1, <2>3, JobChanges DEF Jobs
  <2>5. job' \in [Requests -> Jobs] /\ \A q \in Requests : job'[q].steps = job[q].steps
    BY <1>1, <2>2, <2>4
  <2>6. rpc' \in [Requests -> RequestStages] /\ tpc' \in [Requests -> TaskStages]
    BY <1>1, <1>6 DEF Dispatch, RequestGoes, TaskGoes, RequestStages, TaskStages
  <2>7. \A q \in Requests : StageOK(q)'
    BY <1>1, <1>6, <2>5 DEF Dispatch, RequestGoes, TaskGoes, StageOK
  <2> QED
    BY <1>1, <1>6, <2>5, <2>6, <2>7, TypedAgain DEF Dispatch
<1>7. CASE DispatchFails(r)
  <2>1. row' \in [FileSystems -> RowRec]
    BY <1>1, <1>2, <1>7, RowTyped DEF DispatchFails
  <2>2. rpc' \in [Requests -> RequestStages] /\ \A q \in Requests : StageOK(q)'
    BY <1>1, <1>7 DEF DispatchFails, RequestGoes, RequestStages, StageOK
  <2> QED
    BY <1>1, <1>7, <2>1, <2>2, TypedAgain DEF DispatchFails
<1>8. CASE WriteSize(r)
  <2>1. conf' \in [FileSystems -> Configs]
    BY <1>1, <1>3, <1>8 DEF WriteSize, WithConfig
  <2>2. rpc' \in [Requests -> RequestStages] /\ \A q \in Requests : StageOK(q)'
    BY <1>1, <1>8 DEF WriteSize, RequestGoes, RequestStages, StageOK
  <2> QED
    BY <1>1, <1>8, <2>1, <2>2, TypedAgain DEF WriteSize
<1> QED
  BY <1>4, <1>5, <1>6, <1>7, <1>8 DEF Serving

\* Each step of a task writes a status, a configuration it has read, or the
\* uuid of a share that was free; steps are taken off only where there are some.
LEMMA WorkingTyped ==
  ASSUME TInv, NEW r \in Requests, Working(r)
  PROVE  TInv'
<1>1. /\ On(r) \in FileSystems /\ job[r] \in Jobs
      /\ row \in [FileSystems -> RowRec] /\ conf \in [FileSystems -> Configs]
      /\ share \in [Shares -> ShareRec] /\ rpc \in [Requests -> RequestStages]
      /\ tpc \in [Requests -> TaskStages] /\ remote \in [Requests -> RemoteStages]
      /\ job \in [Requests -> Jobs] /\ \A q \in Requests : StageOK(q)
  BY PartsTyped DEF TInv
<1>2. {"UPDATING", "ERROR", "PENDING", "BUILDING", "CREATED", "ACTIVE"} \subseteq Statuses
  BY DEF Statuses, Settled
<1>3. job[r].conf \in Configs /\ job[r].want \in Configs
  BY <1>1, JobParts
<1>4. CASE StepBegins(r)
  <2>1. row' \in [FileSystems -> RowRec]
    BY <1>1, <1>2, <1>4, RowTyped DEF StepBegins
  <2>2. /\ job' \in [Requests -> Jobs]
        /\ \A q \in Requests : job'[q].steps = job[q].steps
    <3>1. conf[On(r)] \in Configs
      BY <1>1
    <3>2. [job[r] EXCEPT !.conf = conf[On(r)]] \in Jobs
            /\ [job[r] EXCEPT !.conf = conf[On(r)]].steps = job[r].steps
      BY <1>1, <3>1, JobChanges DEF Jobs
    <3>3. job' = job \/ job' = [job EXCEPT ![r] = [job[r] EXCEPT !.conf = conf[On(r)]]]
      BY <1>4 DEF StepBegins, Holds
    <3> QED
      BY <1>1, <3>2, <3>3
  <2>3. tpc' \in [Requests -> TaskStages]
    BY <1>1, <1>4 DEF StepBegins, TaskGoes, TaskStages
  <2>4. \A q \in Requests : StageOK(q)'
    BY <1>1, <1>4, <2>2 DEF StepBegins, TaskGoes, StageOK
  <2> QED
    BY <1>1, <1>4, <2>1, <2>2, <2>3, <2>4, TypedAgain DEF StepBegins
<1>5. CASE AskShare(r)
  <2> DEFINE s == FreeShare
  <2>1. s \in Shares
    BY <1>5 DEF AskShare, FreeShare
  <2>2. Made(r) \in Configs
    <3>1. CASE Step(r) = "mount"
      BY <1>3, <3>1 DEF Made, Configs
    <3>2. CASE Step(r) # "mount" /\ job[r].want.replica
      <4>1. job[r].source \in Shares
        <5>1. job[r].source \in Shares \cup {NoShare}
          BY <1>1, JobParts
        <5>2. Step(r) = "create"
          BY <1>5, <3>2 DEF AskShare, Makes
        <5>3. job[r].source # NoShare
          BY <1>5, <3>2, <5>2 DEF AskShare, CanAsk
        <5> QED
          BY <5>1, <5>3
      <4>2. share[job[r].source].size \in Sizes
        BY <1>1, <4>1 DEF ShareRec
      <4> QED
        BY <1>3, <3>2, <4>2 DEF Made, Configs
    <3>3. CASE Step(r) # "mount" /\ ~job[r].want.replica
      BY <1>3, <3>3 DEF Made
    <3> QED
      BY <3>1, <3>2, <3>3
  <2>3. NewShare("building", Made(r)) \in ShareRec
    <3>1. "building" \in ShareStates
      BY DEF ShareStates
    <3> QED
      BY <2>2, <3>1, NewShareTyped
  <2>4. share' \in [Shares -> ShareRec]
    BY <1>1, <1>5, <2>3 DEF AskShare
  <2> HIDE DEF s
  <2>5. /\ row' = [row EXCEPT ![On(r)].share = s,
                              ![On(r)].status = IF Step(r) = "create" THEN "PENDING" ELSE "BUILDING"]
        /\ job' = [job EXCEPT ![r] = [job[r] EXCEPT !.share = s]]
    BY <1>5 DEF AskShare, Holds, s
  <2>6. row' \in [FileSystems -> RowRec]
    BY <1>1, <1>2, <2>1, <2>5 DEF RowRec
  <2>7. [job[r] EXCEPT !.share = s] \in Jobs /\ [job[r] EXCEPT !.share = s].steps = job[r].steps
    BY <1>1, <2>1, JobChanges DEF Jobs
  <2>8. job' \in [Requests -> Jobs] /\ \A q \in Requests : job'[q].steps = job[q].steps
    BY <1>1, <2>5, <2>7
  <2>9. tpc' \in [Requests -> TaskStages] /\ remote' \in [Requests -> RemoteStages]
    BY <1>1, <1>5 DEF AskShare, TaskGoes, RemoteGoes, TaskStages, RemoteStages
  <2>10. \A q \in Requests : StageOK(q)'
    BY <1>1, <1>5, <2>8 DEF AskShare, TaskGoes, StageOK
  <2> QED
    BY <1>1, <1>5, <2>4, <2>6, <2>8, <2>9, <2>10, TypedAgain DEF AskShare
<1>6. CASE AskChange(r)
  <2> DEFINE s == row[On(r)].share
  <2>1. s \in Shares \cup {NoShare}
    BY <1>1 DEF RowRec
  <2>2. job' = [job EXCEPT ![r] = [job[r] EXCEPT !.share = s]]
    BY <1>6 DEF AskChange, Holds
  <2> HIDE DEF s
  <2>3. [job[r] EXCEPT !.share = s] \in Jobs /\ [job[r] EXCEPT !.share = s].steps = job[r].steps
    BY <1>1, <2>1, JobChanges DEF Jobs
  <2>4. job' \in [Requests -> Jobs] /\ \A q \in Requests : job'[q].steps = job[q].steps
    BY <1>1, <2>2, <2>3
  <2>5. tpc' \in [Requests -> TaskStages] /\ remote' \in [Requests -> RemoteStages]
    BY <1>1, <1>6 DEF AskChange, TaskGoes, RemoteGoes, TaskStages, RemoteStages
  <2>6. \A q \in Requests : StageOK(q)'
    BY <1>1, <1>6, <2>4 DEF AskChange, TaskGoes, StageOK
  <2> QED
    BY <1>1, <1>6, <2>4, <2>5, <2>6, TypedAgain DEF AskChange
<1>7. CASE AskFails(r) \/ WaitFails(r)
  <2>1. row' \in [FileSystems -> RowRec]
    BY <1>1, <1>2, <1>7, RowTyped DEF AskFails, WaitFails
  <2>2. tpc' \in [Requests -> TaskStages] /\ \A q \in Requests : StageOK(q)'
    BY <1>1, <1>7 DEF AskFails, WaitFails, TaskGoes, TaskStages, StageOK
  <2> QED
    BY <1>1, <1>7, <2>1, <2>2, TypedAgain DEF AskFails, WaitFails
<1>8. CASE RemoteAnswers(r)
  <2>1. row' \in [FileSystems -> RowRec]
    BY <1>1, <1>2, <1>8, RowTyped DEF RemoteAnswers
  <2>2. /\ tpc' \in [Requests -> TaskStages] /\ remote' \in [Requests -> RemoteStages]
        /\ \A q \in Requests : StageOK(q)'
    BY <1>1, <1>8 DEF RemoteAnswers, TaskGoes, RemoteGoes, TaskStages, RemoteStages, StageOK
  <2> QED
    BY <1>1, <1>8, <2>1, <2>2, TypedAgain DEF RemoteAnswers
<1>9. CASE StepWrites(r)
  <2>1. Configured(r) \in Configs
    <3>1. job[r].want.compliance \in BOOLEAN
      BY <1>3 DEF Configs
    <3> QED
      BY <1>3, <3>1 DEF Configured, Configs
  <2>2. conf' \in [FileSystems -> Configs]
    BY <1>1, <1>9, <2>1 DEF StepWrites, WithConfig
  <2>3. row' \in [FileSystems -> RowRec]
    BY <1>1, <1>2, <1>9, RowTyped DEF StepWrites
  <2>4. tpc' \in [Requests -> TaskStages] /\ \A q \in Requests : StageOK(q)'
    BY <1>1, <1>9 DEF StepWrites, TaskGoes, TaskStages, StageOK
  <2> QED
    BY <1>1, <1>9, <2>2, <2>3, <2>4, TypedAgain DEF StepWrites
<1>10. CASE StepEnds(r)
  <2> DEFINE rest == Tail(job[r].steps)
  <2>1. row' \in [FileSystems -> RowRec]
    BY <1>1, <1>2, <1>10, RowTyped DEF StepEnds
  <2>2. job[r].steps \in Seq(StepNames) /\ job[r].steps # <<>>
    BY <1>1, <1>10, JobParts DEF StepEnds, StageOK
  <2>3. rest \in Seq(StepNames) /\ (Len(job[r].steps) # 1 => rest # <<>>)
    BY <2>2, TailOfSteps
  <2>4. job' = [job EXCEPT ![r] = [job[r] EXCEPT !.steps = rest]]
    BY <1>10 DEF StepEnds, Holds
  <2> HIDE DEF rest
  <2>5. [job[r] EXCEPT !.steps = rest] \in Jobs /\ [job[r] EXCEPT !.steps = rest].steps = rest
    BY <1>1, <2>3, JobChanges DEF Jobs
  <2>6. /\ job' \in [Requests -> Jobs]
        /\ job'[r].steps = rest
        /\ \A q \in Requests : q # r => job'[q] = job[q]
    BY <1>1, <2>4, <2>5
  <2>7. tpc' \in [Requests -> TaskStages]
    BY <1>1, <1>10 DEF StepEnds, TaskGoes, TaskStages
  <2>8. \A q \in Requests : StageOK(q)'
    BY <1>1, <1>10, <2>3, <2>6 DEF StepEnds, TaskGoes, StageOK
  <2> QED
    BY <1>1, <1>10, <2>1, <2>6, <2>7, <2>8, TypedAgain DEF StepEnds
<1>11. CASE TaskFails(r)
  <2>1. row' \in [FileSystems -> RowRec]
    BY <1>1, <1>2, <1>11, RowTyped DEF TaskFails, WithStatus
  <2>2. tpc' \in [Requests -> TaskStages] /\ \A q \in Requests : StageOK(q)'
    BY <1>1, <1>11 DEF TaskFails, TaskGoes, TaskStages, StageOK
  <2> QED
    BY <1>1, <1>11, <2>1, <2>2, TypedAgain DEF TaskFails
<1> QED
  BY <1>4, <1>5, <1>6, <1>7, <1>8, <1>9, <1>10, <1>11 DEF Working

\* The resource service writes a share the task has named.
LEMMA RemoteTyped ==
  ASSUME TInv, NEW r \in Requests, Remote(r)
  PROVE  TInv'
<1>1. /\ job[r] \in Jobs
      /\ row \in [FileSystems -> RowRec] /\ conf \in [FileSystems -> Configs]
      /\ share \in [Shares -> ShareRec] /\ rpc \in [Requests -> RequestStages]
      /\ tpc \in [Requests -> TaskStages] /\ remote \in [Requests -> RemoteStages]
      /\ job \in [Requests -> Jobs] /\ \A q \in Requests : StageOK(q)
  BY PartsTyped DEF TInv
<1>2. share' \in [Shares -> ShareRec]
  <2>1. CASE RemoteServes(r)
    <3>1. job[r].share \in Shares => Served(r) \in ShareRec
      <4>1. job[r].want.size \in Sizes /\ job[r].want.compliance \in BOOLEAN
        BY <1>1, JobParts DEF Configs
      <4> SUFFICES ASSUME job[r].share \in Shares PROVE Served(r) \in ShareRec
        OBVIOUS
      <4>2. share[job[r].share] \in ShareRec
        BY <1>1
      <4>3. {"live", "gone"} \subseteq ShareStates
        BY DEF ShareStates
      <4> QED
        BY <4>1, <4>2, <4>3 DEF Served, ShareRec
    <3> QED
      BY <1>1, <2>1, <3>1 DEF RemoteServes
  <2>2. CASE RemoteFails(r)
    <3>1. "broken" \in ShareStates
      BY DEF ShareStates
    <3>2. \A s \in Shares : [share[s] EXCEPT !.state = "broken"] \in ShareRec
      BY <1>1, <3>1 DEF ShareRec
    <3>3. share' = share
            \/ share' = [share EXCEPT ![job[r].share] = [share[job[r].share] EXCEPT !.state = "broken"]]
      BY <2>2 DEF RemoteFails
    <3> HIDE DEF ShareRec
    <3> QED
      BY <1>1, <3>2, <3>3
  <2> QED
    BY <2>1, <2>2 DEF Remote
<1>3. remote' \in [Requests -> RemoteStages]
  BY <1>1 DEF Remote, RemoteServes, RemoteFails, RemoteGoes, RemoteStages
<1>4. \A q \in Requests : StageOK(q)'
  BY <1>1 DEF Remote, RemoteServes, RemoteFails, StageOK
<1> QED
  BY <1>1, <1>2, <1>3, <1>4, TypedAgain DEF Remote, RemoteServes, RemoteFails

----------------------------------------------------------------------------
\* Types are kept by every step.
LEMMA TInvStep == TInv /\ [Next]_vars => TInv'
<1> SUFFICES ASSUME TInv, [Next]_vars PROVE TInv'
  OBVIOUS
<1>1. CASE UNCHANGED vars
  BY <1>1 DEF vars, TInv, TypeOK, StageOK
<1>2. CASE Next
  BY <1>2, ClientTyped, ServingTyped, WorkingTyped, RemoteTyped DEF Next
<1> QED
  BY <1>1, <1>2

\* Every variable keeps its type, and no step of a task is taken that is not
\* there, whichever requests meet on a file system and whatever fails.
THEOREM EfsTyped == Spec => []TypeOK
<1>1. TInv => TypeOK
  BY DEF TInv
<1> QED
  BY <1>1, InitTInv, TInvStep, PTL DEF Spec

----------------------------------------------------------------------------
(* Replicas. A request that is to resize a share, or to make it compliant,    *)
(* looks for a source in the configuration only. That it finds none means    *)
(* that the share behind is no replica, and that none is on its way: a fact  *)
(* that lasts, so that a configuration read long ago tells the same.         *)

Begun(r) == rpc[r] # "idle"

\* A share that is no replica, and never will be one.
PlainShare(s) == s \in Shares /\ share[s].state # "free" /\ ~share[s].replica

\* Request r creates a file system, and has still to ask for its share.
Coming(r) == Op(r) = "create" /\ (rpc[r] = "dispatch" \/ tpc[r] \in {"step", "ask"})

\* f has no replica to come.
NoReplicaComes(f) ==
  /\ row[f].state # "absent"
  /\ \A r \in Requests : Coming(r) /\ On(r) = f => ~job[r].want.replica

\* f has no replica, and never will have one.
Plain(f) == NoReplicaComes(f) /\ (HasUuid(f) => PlainShare(row[f].share))

StepsOf(op) ==
  CASE op = "create" -> {"create"}
    [] op = "mount"  -> {"mount"}
    [] op = "unlink" -> {"replica", "rename"}
    [] OTHER -> StepNames \ {"create", "mount", "rename"}

\* The steps of a task are those of its operation; a creation has one.
StepsFit(r) ==
  /\ job[r].steps \in Seq(StepsOf(Op(r)))
  /\ Op(r) = "create" => job[r].steps = <<>> \/ Len(job[r].steps) = 1

\* A file system is created once, and gets no share before its creation asks.
OneShareComes ==
  /\ \A f \in FileSystems : row[f].state = "absent" => ~HasUuid(f)
  /\ \A r \in Requests : Begun(r) => row[On(r)].state # "absent"
  /\ \A r \in Requests : ~Begun(r) => remote[r] = "none"
  /\ \A r \in Requests : rpc[r] = "read" => Op(r) # "create"
  /\ \A q, r \in Requests :
       /\ Begun(q) /\ Begun(r) /\ On(q) = On(r)
       /\ Op(q) = "create" /\ Op(r) = "create"
       => q = r
  /\ \A r \in Requests : Coming(r) => ~HasUuid(On(r))
  /\ \A q, r \in Requests :
       Coming(r) /\ Begun(q) /\ Op(q) = "mount" /\ On(q) = On(r) => ~Busy(q)
  /\ \A r \in Requests : StepsFit(r)

\* The replica of r was unlinked.
Unlinked(r) ==
  \/ tpc[r] = "wait" /\ remote[r] = "success"
  \/ tpc[r] \in {"write", "close"}
  \/ job[r].steps # <<>> /\ Step(r) = "rename"

\* Request r knows of no source, or went past a check of it, or took it away:
\* its file system is plain.
KnowsPlain(r) ==
  /\ ~job[r].conf.replica \/ ~job[r].want.replica => Plain(On(r))
  /\ Op(r) \in {"resize", "compliance"}
       => Plain(On(r)) /\ (remote[r] # "none" => PlainShare(job[r].share))
  /\ Op(r) = "unlink"
       => /\ NoReplicaComes(On(r))
          /\ tpc[r] = "wait" /\ HasUuid(On(r))
               => row[On(r)].share = job[r].share \/ PlainShare(row[On(r)].share)
          /\ Unlinked(r) => Plain(On(r))

\* What says that a file system is no replica is right.
PlainKnown ==
  /\ \A f \in FileSystems : row[f].state # "absent" /\ ~conf[f].replica => Plain(f)
  /\ \A f \in Old : row[f].state # "absent" => Plain(f)
  /\ \A r \in Requests : Begun(r) => KnowsPlain(r)

PInv == TInv /\ OneShareComes /\ PlainKnown

\* What a request asks about a file system that is there.
AskedWell(r, j) ==
  /\ Visible(j.on)
  /\ j.conf = conf[j.on]
  /\ j.want.replica = conf[j.on].replica
  /\ j.op # "create"
  /\ j.steps \in Seq(StepsOf(j.op))
  /\ j.op = "mount" => MayAsk(r, j.on, "mount")
  /\ j.op = "unlink" => HasUuid(j.on) /\ Head(j.steps) = "replica"
  /\ j.op \in {"resize", "compliance"} => j.on \in Old \/ ~conf[j.on].replica

\* A request makes a new file system, or asks well.
ClientWell(r) ==
  \/ \E f \in FileSystems, c \in Configs, s \in Shares \cup {NoShare} :
       Adds(r, f, c, s) /\ row[f].state = "absent" /\ (f \in Old => ~c.replica)
  \/ \E j : Asks(r, j) /\ AskedWell(r, j) /\ j.on \in FileSystems

----------------------------------------------------------------------------
(* What the steps do.                                                      *)

\* The parts of a new job.
LEMMA JobFields ==
  ASSUME NEW op, NEW f, NEW c, NEW w, NEW steps
  PROVE  LET j == Job(op, f, c, w, steps)
         IN /\ j.op = op /\ j.on = f /\ j.conf = c /\ j.want = w /\ j.steps = steps
            /\ \A b : LET k == [j EXCEPT !.extend = b]
                      IN k.op = op /\ k.on = f /\ k.conf = c /\ k.want = w /\ k.steps = steps
            /\ \A b : LET k == [j EXCEPT !.has = b]
                      IN k.op = op /\ k.on = f /\ k.conf = c /\ k.want = w /\ k.steps = steps
            /\ \A s, b : LET k == [j EXCEPT !.source = s, !.has = b]
                         IN k.op = op /\ k.on = f /\ k.conf = c /\ k.want = w /\ k.steps = steps
BY DEF Job

\* A client makes a new file system, or asks well about one that is there.
LEMMA ClientEffect ==
  ASSUME TInv, NEW r \in Requests, Client(r)
  PROVE  /\ rpc[r] = "idle"
         /\ ClientWell(r)
<1>1. PICK f \in FileSystems :
        \/ Create(r, f) \/ \E g \in FileSystems : CreateReplica(r, f, g)
        \/ CreateMountTarget(r, f) \/ DeleteMountTarget(r, f)
        \/ Resize(r, f) \/ Touch(r, f) \/ ManageGrant(r, f) \/ Manage(r, f)
        \/ UpdateCompliance(r, f) \/ ManageReplica(r, f)
        \/ DeleteShare(r, f) \/ Delete(r, f)
  BY DEF Client
<1>2. conf \in [FileSystems -> Configs] /\ row[f].share \in Shares \cup {NoShare}
  BY DEF TInv, TypeOK
<1>3. \A S : \A x \in S : <<x>> \in Seq(S) /\ Head(<<x>>) = x
  OBVIOUS
<1>0. rpc[r] = "idle"
  BY <1>1 DEF Create, CreateReplica, CreateMountTarget, DeleteMountTarget, Resize, Touch,
              ManageGrant, Manage, UpdateCompliance, ManageReplica, DeleteShare, Delete, MayAsk
<1> SUFFICES ClientWell(r)
  BY <1>0
<1>4. ASSUME NEW op \in Operations \ {"create", "mount", "unlink", "resize", "compliance"},
             NEW steps \in Seq(StepsOf(op)), Asking(r, op, f, steps), Visible(f)
      PROVE  ClientWell(r)
  <2> DEFINE j == Job(op, f, conf[f], conf[f], steps)
  <2>1. j.op = op /\ j.on = f /\ j.conf = conf[f] /\ j.want = conf[f] /\ j.steps = steps
    BY JobFields
  <2>2. Asks(r, j)
    BY <1>4 DEF Asking
  <2> HIDE DEF j
  <2>3. AskedWell(r, j)
    BY <1>4, <2>1 DEF AskedWell
  <2> QED
    BY <2>1, <2>2, <2>3 DEF ClientWell
<1>5. CASE Create(r, f)
  BY <1>5 DEF Create, ClientWell
<1>6. CASE \E g \in FileSystems : CreateReplica(r, f, g)
  <2>1. PICK g \in FileSystems : CreateReplica(r, f, g)
    BY <1>6
  <2>2. conf[g] \in Configs /\ row[g].share \in Shares \cup {NoShare}
    BY DEF TInv, TypeOK
  <2>3. [conf[g] EXCEPT !.compliance = FALSE, !.replica = TRUE] \in Configs
    BY <2>2 DEF Configs
  <2> QED
    BY <2>1, <2>2, <2>3 DEF CreateReplica, ClientWell
<1>7. CASE CreateMountTarget(r, f)
  <2> DEFINE j == Job("mount", f, conf[f], conf[f], <<"mount">>)
  <2>1. <<"mount">> \in Seq(StepsOf("mount"))
    BY <1>3 DEF StepsOf
  <2>2. j.op = "mount" /\ j.on = f /\ j.conf = conf[f] /\ j.want = conf[f] /\ j.steps = <<"mount">>
    BY JobFields
  <2>3. Asks(r, j)
    BY <1>7 DEF CreateMountTarget, Asking
  <2> HIDE DEF j
  <2>4. AskedWell(r, j)
    BY <1>7, <2>1, <2>2 DEF AskedWell, CreateMountTarget
  <2> QED
    BY <2>2, <2>3, <2>4 DEF ClientWell
<1>8. CASE DeleteMountTarget(r, f)
  <2>1. <<"unmount">> \in Seq(StepsOf("unmount")) /\ "unmount" \in Operations
    BY <1>3 DEF StepsOf, StepNames, Operations
  <2> QED
    BY <1>4, <1>8, <2>1 DEF DeleteMountTarget
<1>9. CASE Resize(r, f)
  <2>1. PICK n \in Sizes :
          Asks(r, [Job("resize", f, conf[f], [conf[f] EXCEPT !.size = n], <<"update">>) EXCEPT
                     !.extend = n > conf[f].size])
    BY <1>9 DEF Resize
  <2> DEFINE w == [conf[f] EXCEPT !.size = n]
  <2> DEFINE j == [Job("resize", f, conf[f], w, <<"update">>) EXCEPT !.extend = n > conf[f].size]
  <2>2. w.replica = conf[f].replica
    BY <1>2 DEF Configs
  <2>3. <<"update">> \in Seq(StepsOf("resize"))
    BY <1>3 DEF StepsOf, StepNames
  <2>4. j.op = "resize" /\ j.on = f /\ j.conf = conf[f] /\ j.want = w /\ j.steps = <<"update">>
    <3> HIDE DEF w
    <3> QED
      BY JobFields
  <2>5. Asks(r, j)
    BY <2>1
  <2> HIDE DEF j, w
  <2>6. AskedWell(r, j)
    BY <1>9, <2>2, <2>3, <2>4 DEF AskedWell, Resize, MayChange
  <2> QED
    BY <2>4, <2>5, <2>6 DEF ClientWell
<1>10. CASE Touch(r, f)
  <2>1. <<"update">> \in Seq(StepsOf("touch")) /\ "touch" \in Operations
    BY <1>3 DEF StepsOf, StepNames, Operations
  <2> QED
    BY <1>4, <1>10, <2>1 DEF Touch, MayChange
<1>11. CASE ManageGrant(r, f)
  <2>1. <<"grant">> \in Seq(StepsOf("grant")) /\ "grant" \in Operations
    BY <1>3 DEF StepsOf, StepNames, Operations
  <2> QED
    BY <1>4, <1>11, <2>1 DEF ManageGrant
<1>12. CASE Manage(r, f)
  <2>1. <<"manage">> \in Seq(StepsOf("manage")) /\ "manage" \in Operations
    BY <1>3 DEF StepsOf, StepNames, Operations
  <2> QED
    BY <1>4, <1>12, <2>1 DEF Manage
<1>13. CASE UpdateCompliance(r, f)
  <2> DEFINE on == ~conf[f].compliance
  <2> DEFINE w == [conf[f] EXCEPT !.compliance = on]
  <2> DEFINE j == Job("compliance", f, conf[f], w, ComplianceSteps(on))
  <2>1. w.replica = conf[f].replica
    BY <1>2 DEF Configs
  <2>2. ComplianceSteps(on) \in Seq(StepsOf("compliance"))
    <3> DEFINE S == StepsOf("compliance")
    <3>1. {"manage", "compliance", "rpo"} \subseteq S
      BY DEF StepsOf, StepNames
    <3> HIDE DEF S
    <3>2. \A x, y, z \in S : <<x, y, z>> \in Seq(S)
      OBVIOUS
    <3>3. \A x, y, z, t \in S : <<x, y, z, t>> \in Seq(S)
      OBVIOUS
    <3>4. ComplianceSteps(on) \in {<<"manage", "compliance", "rpo">>, <<"manage", "compliance", "rpo", "rpo">>}
      BY DEF ComplianceSteps
    <3>5. ComplianceSteps(on) \in Seq(S)
      BY <3>1, <3>2, <3>3, <3>4
    <3> QED
      BY <3>5 DEF S
  <2>3. Asks(r, j)
    BY <1>13 DEF UpdateCompliance
  <2>4. j.op = "compliance" /\ j.on = f /\ j.conf = conf[f] /\ j.want = w /\ j.steps = ComplianceSteps(on)
    <3> HIDE DEF w, on
    <3> QED
      BY JobFields
  <2> HIDE DEF j, w, on
  <2>5. AskedWell(r, j)
    BY <1>13, <2>1, <2>2, <2>4 DEF AskedWell, UpdateCompliance
  <2> QED
    BY <2>3, <2>4, <2>5 DEF ClientWell
<1>14. CASE ManageReplica(r, f)
  <2>1. PICK op \in {"unlink", "suspend", "rpo"} : Asking(r, op, f, ReplicaSteps(op))
    BY <1>14 DEF ManageReplica
  <2>2. Visible(f) /\ HasUuid(f)
    BY <1>14 DEF ManageReplica
  <2>3. CASE op = "unlink"
    <3> DEFINE j == Job("unlink", f, conf[f], conf[f], <<"replica", "rename">>)
    <3>1. <<"replica", "rename">> \in Seq(StepsOf("unlink")) /\ Head(<<"replica", "rename">>) = "replica"
      BY DEF StepsOf
    <3>2. Asks(r, j)
      BY <2>1, <2>3 DEF Asking, ReplicaSteps
    <3>3. /\ j.op = "unlink" /\ j.on = f /\ j.conf = conf[f] /\ j.want = conf[f]
          /\ j.steps = <<"replica", "rename">>
      BY JobFields
    <3> HIDE DEF j
    <3>4. AskedWell(r, j)
      BY <2>2, <3>1, <3>3 DEF AskedWell
    <3> QED
      BY <3>2, <3>3, <3>4 DEF ClientWell
  <2>4. CASE op = "suspend"
    <3>1. <<"replica">> \in Seq(StepsOf("suspend")) /\ "suspend" \in Operations
      BY <1>3 DEF StepsOf, StepNames, Operations
    <3> QED
      BY <1>4, <2>1, <2>2, <2>4, <3>1 DEF ReplicaSteps
  <2>5. CASE op = "rpo"
    <3>1. {"replica", "rpo"} \subseteq StepsOf("rpo") /\ "rpo" \in Operations
      BY DEF StepsOf, StepNames, Operations
    <3>2. <<"replica", "rpo">> \in Seq(StepsOf("rpo"))
      BY <3>1
    <3> QED
      BY <1>4, <2>1, <2>2, <2>5, <3>1, <3>2 DEF ReplicaSteps
  <2> QED
    BY <2>1, <2>3, <2>4, <2>5
<1>15. CASE DeleteShare(r, f)
  <2> DEFINE steps == IF f \in Old THEN <<"grant", "drop">> ELSE <<"drop">>
  <2> DEFINE j == [Job("drop", f, conf[f], conf[f], steps) EXCEPT !.has = HasUuid(f)]
  <2>1. {"grant", "drop"} \subseteq StepsOf("drop")
    BY DEF StepsOf, StepNames
  <2>2. steps \in Seq(StepsOf("drop"))
    BY <2>1
  <2>3. Asks(r, j)
    BY <1>15 DEF DeleteShare
  <2> HIDE DEF steps
  <2>4. j.op = "drop" /\ j.on = f /\ j.conf = conf[f] /\ j.want = conf[f] /\ j.steps = steps
    BY JobFields
  <2> HIDE DEF j
  <2>5. AskedWell(r, j)
    BY <1>15, <2>2, <2>4 DEF AskedWell, DeleteShare
  <2> QED
    BY <2>3, <2>4, <2>5 DEF ClientWell
<1>16. CASE Delete(r, f)
  <2>1. <<"delete">> \in Seq(StepsOf("delete")) /\ "delete" \in Operations
    BY <1>3 DEF StepsOf, StepNames, Operations
  <2> QED
    BY <1>4, <1>16, <2>1 DEF Delete, MayChange
<1> QED
  BY <1>1, <1>5, <1>6, <1>7, <1>8, <1>9, <1>10, <1>11, <1>12, <1>13, <1>14, <1>15, <1>16

\* What the steps after the reading leave of the requests.
Goes(r) == Serving(r) \/ Working(r) \/ Remote(r)

LEMMA OthersWait ==
  ASSUME TInv, NEW r \in Requests, Goes(r)
  PROVE  \A q \in Requests \ {r} :
           rpc'[q] = rpc[q] /\ tpc'[q] = tpc[q] /\ remote'[q] = remote[q] /\ job'[q] = job[q]
<1>1. /\ rpc \in [Requests -> RequestStages] /\ tpc \in [Requests -> TaskStages]
      /\ remote \in [Requests -> RemoteStages] /\ job \in [Requests -> Jobs]
  BY DEF TInv, TypeOK
<1>2. CASE Serving(r)
  BY <1>1, <1>2 DEF Serving, BeginUpdate, BeginAction, Dispatch, DispatchFails, WriteSize,
                    RequestGoes, TaskGoes, Holds
<1>3. CASE Working(r)
  BY <1>1, <1>3 DEF Working, StepBegins, AskShare, AskChange, AskFails, RemoteAnswers, WaitFails,
                    StepWrites, StepEnds, TaskFails, TaskGoes, RemoteGoes, Holds
<1>4. CASE Remote(r)
  BY <1>1, <1>4 DEF Remote, RemoteServes, RemoteFails, RemoteGoes
<1> QED
  BY <1>2, <1>3, <1>4 DEF Goes

\* What a step leaves of a job: its operation and what it wants; its
\* configuration is as it was read, or read anew.
LEMMA JobStays ==
  ASSUME TInv, NEW r \in Requests, Goes(r)
  PROVE  /\ Op(r)' = Op(r) /\ On(r)' = On(r) /\ job'[r].want = job[r].want
         /\ job'[r].source = job[r].source
         /\ \/ job'[r].conf = job[r].conf
            \/ job'[r].conf = conf[On(r)] /\ Visible(On(r))
         /\ AskShare(r) \/ AskChange(r) \/ job'[r].share = job[r].share
         /\ StepEnds(r) \/ job'[r].steps = job[r].steps
<1>1. job \in [Requests -> Jobs] /\ job[r] \in Jobs
  BY DEF TInv, TypeOK
<1>2. CASE job' = job
  BY <1>2 DEF Op, On
<1>3. CASE Dispatch(r)
  <2>1. PICK b : job' = [job EXCEPT ![r] = [job[r] EXCEPT !.has = b]]
    BY <1>3 DEF Dispatch, Holds
  <2> QED
    BY <1>1, <2>1 DEF Op, On, Jobs
<1>4. CASE StepBegins(r)
  BY <1>1, <1>4 DEF StepBegins, Holds, Op, On, Jobs
<1>5. CASE AskShare(r) \/ AskChange(r)
  <2>1. PICK s : job' = [job EXCEPT ![r] = [job[r] EXCEPT !.share = s]]
    BY <1>5 DEF AskShare, AskChange, Holds
  <2> QED
    BY <1>1, <1>5, <2>1 DEF Op, On, Jobs
<1>6. CASE StepEnds(r)
  <2>1. PICK q : job' = [job EXCEPT ![r] = [job[r] EXCEPT !.steps = q]]
    BY <1>6 DEF StepEnds, Holds
  <2> QED
    BY <1>1, <1>6, <2>1 DEF Op, On, Jobs
<1>7. \/ job' = job \/ Dispatch(r) \/ StepBegins(r) \/ AskShare(r) \/ AskChange(r) \/ StepEnds(r)
  BY DEF Goes, Serving, Working, Remote, BeginUpdate, BeginAction, DispatchFails, WriteSize,
         AskFails, RemoteAnswers, WaitFails, StepWrites, TaskFails, RemoteServes, RemoteFails
<1> QED
  BY <1>2, <1>3, <1>4, <1>5, <1>6, <1>7

\* Where a request is after a step of it.
LEMMA StagesAfter ==
  ASSUME TInv, NEW r \in Requests, Goes(r)
  PROVE  /\ Begun(r) => Begun(r)'
         /\ ~Begun(r) => remote[r] # "none"
         /\ rpc'[r] # "read" \/ rpc[r] = "read"
         /\ rpc'[r] = "dispatch" => rpc[r] \in {"read", "dispatch"}
         /\ rpc'[r] = "idle" => rpc[r] = "idle"
         /\ tpc'[r] \in {"step", "ask"}
              => \/ tpc[r] \in {"step", "ask"} /\ job'[r].steps = job[r].steps
                 \/ rpc[r] = "dispatch"
                 \/ StepEnds(r) /\ Len(job[r].steps) # 1
         /\ Busy(r)' => Busy(r)
         /\ remote'[r] # "none" => remote[r] # "none" \/ AskShare(r) \/ AskChange(r)
<1>1. /\ rpc \in [Requests -> RequestStages] /\ tpc \in [Requests -> TaskStages]
      /\ remote \in [Requests -> RemoteStages] /\ job \in [Requests -> Jobs]
      /\ StageOK(r)
  BY DEF TInv, TypeOK
<1>2. CASE Serving(r)
  BY <1>1, <1>2 DEF Serving, BeginUpdate, BeginAction, Dispatch, DispatchFails, WriteSize,
                    RequestGoes, TaskGoes, Begun, Busy
<1>3. CASE Working(r)
  <2>1. Begun(r) /\ Busy(r)
    BY <1>1, <1>3 DEF Working, StepBegins, AskShare, AskChange, AskFails, RemoteAnswers, WaitFails,
                      StepWrites, StepEnds, TaskFails, StageOK, Begun, Busy
  <2>2. rpc' = rpc
    BY <1>3 DEF Working, StepBegins, AskShare, AskChange, AskFails, RemoteAnswers, WaitFails,
                StepWrites, StepEnds, TaskFails
  <2>3. remote' = remote \/ AskShare(r) \/ AskChange(r) \/ remote'[r] = "none"
    BY <1>1, <1>3 DEF Working, StepBegins, AskFails, RemoteAnswers, WaitFails, RemoteGoes,
                      StepWrites, StepEnds, TaskFails
  <2>4. tpc'[r] \in {"step", "ask"} =>
          \/ tpc[r] = "step" /\ job'[r].steps = job[r].steps
          \/ StepEnds(r) /\ Len(job[r].steps) # 1
    <3>1. CASE StepBegins(r)
      <4>1. tpc[r] = "step"
        BY <3>1 DEF StepBegins
      <4>2. ~StepEnds(r)
        BY <4>1 DEF StepEnds
      <4>3. StepEnds(r) \/ job'[r].steps = job[r].steps
        BY JobStays
      <4> QED
        BY <4>1, <4>2, <4>3
    <3>2. CASE StepEnds(r)
      BY <1>1, <3>2 DEF StepEnds, TaskGoes
    <3>3. CASE ~StepBegins(r) /\ ~StepEnds(r)
      BY <1>1, <1>3, <3>3 DEF Working, AskShare, AskChange, AskFails, RemoteAnswers, WaitFails,
                              StepWrites, TaskFails, TaskGoes
    <3> QED
      BY <3>1, <3>2, <3>3
  <2> QED
    BY <1>1, <2>1, <2>2, <2>3, <2>4 DEF Begun
<1>4. CASE Remote(r)
  BY <1>1, <1>4 DEF Remote, RemoteServes, RemoteFails, RemoteGoes, Begun, Busy
<1> QED
  BY <1>2, <1>3, <1>4 DEF Goes

\* What a step leaves of the rows.
LEMMA RowsStay ==
  ASSUME TInv, NEW r \in Requests, Goes(r), NEW f \in FileSystems
  PROVE  /\ row[f].state # "absent" => row'[f].state # "absent"
         /\ \/ row'[f].share = row[f].share
            \/ row'[f].share = NoShare
            \/ AskShare(r) /\ f = On(r) /\ row'[f].share = FreeShare
         /\ f # On(r) => row'[f] = row[f]
<1>1. row \in [FileSystems -> RowRec] /\ On(r) \in FileSystems /\ row[f] \in RowRec
  BY PartsTyped
<1>2. CASE row' = row
  BY <1>2
<1>3. CASE \E s : WithStatus(On(r), s)
  BY <1>1, <1>3 DEF WithStatus, RowRec
<1>4. CASE AskShare(r)
  <2>1. PICK st : row' = [row EXCEPT ![On(r)].share = FreeShare, ![On(r)].status = st]
    BY <1>4 DEF AskShare
  <2> QED
    BY <1>1, <1>4, <2>1 DEF RowRec
<1>5. CASE StepWrites(r)
  BY <1>1, <1>5 DEF StepWrites, RowRec
<1>6. CASE StepEnds(r)
  BY <1>1, <1>6 DEF StepEnds, RowRec, WithStatus
<1>7. CASE TaskFails(r)
  BY <1>1, <1>7 DEF TaskFails, RowRec
<1>8. \/ row' = row \/ (\E s : WithStatus(On(r), s))
      \/ AskShare(r) \/ StepWrites(r) \/ StepEnds(r) \/ TaskFails(r)
  BY DEF Goes, Serving, Working, Remote, BeginUpdate, BeginAction, Dispatch, DispatchFails, WriteSize,
         StepBegins, AskChange, AskFails, RemoteAnswers, WaitFails, RemoteServes, RemoteFails
<1> QED
  BY <1>2, <1>3, <1>4, <1>5, <1>6, <1>7, <1>8

\* The step a task is at is one of its operation.
LEMMA StepFits ==
  ASSUME TInv, OneShareComes, NEW r \in Requests, job[r].steps # <<>>
  PROVE  Step(r) \in StepsOf(Op(r))
<1> DEFINE S == StepsOf(Op(r))
<1>1. job[r].steps \in Seq(S)
  BY DEF OneShareComes, StepsFit
<1> HIDE DEF S
<1>2. Head(job[r].steps) \in S
  BY <1>1, EmptySeq, HeadTailProperties
<1> QED
  BY <1>2 DEF Step, S

\* The operations that have a step that makes a share.
LEMMA MakersOf ==
  \A op : /\ "create" \in StepsOf(op) => op = "create"
          /\ "mount" \in StepsOf(op) => op = "mount"
          /\ "rename" \in StepsOf(op) => op = "unlink"
BY DEF StepsOf

\* A step makes a share only for a creation or a mount target.
LEMMA WhoMakes ==
  ASSUME TInv, OneShareComes, NEW r \in Requests, AskShare(r)
  PROVE  /\ Begun(r) /\ Busy(r)
         /\ \/ Op(r) = "create" /\ Step(r) = "create" /\ Coming(r)
            \/ Op(r) = "mount" /\ Step(r) = "mount"
         /\ FreeShare \in Shares /\ share[FreeShare].state = "free"
         /\ share' = [share EXCEPT ![FreeShare] = NewShare("building", Made(r))]
         /\ row'[On(r)].share = FreeShare /\ HasUuid(On(r))' /\ On(r)' = On(r)
         /\ tpc'[r] = "wait" /\ remote'[r] = "running" /\ job'[r].share = FreeShare
<1>1. /\ row \in [FileSystems -> RowRec] /\ On(r) \in FileSystems
      /\ job \in [Requests -> Jobs] /\ job[r] \in Jobs /\ StageOK(r)
      /\ tpc \in [Requests -> TaskStages] /\ remote \in [Requests -> RemoteStages]
  BY PartsTyped
<1>2. Step(r) \in StepsOf(Op(r)) /\ Begun(r) /\ Busy(r)
  BY <1>1, StepFits DEF AskShare, StageOK, Begun, Busy
<1>3. \/ Op(r) = "create" /\ Step(r) = "create"
      \/ Op(r) = "mount" /\ Step(r) = "mount"
  <2>1. Step(r) \in {"create", "mount"}
    BY DEF AskShare, Makes
  <2> QED
    BY <1>2, <2>1, MakersOf
<1>4. FreeShare \in Shares /\ share[FreeShare].state = "free"
  BY DEF AskShare, FreeShare
<1>5. FreeShare # NoShare
  BY <1>4, ConstantsAssumption
<1>6. /\ job'[r].share = FreeShare /\ On(r)' = On(r)
      /\ tpc'[r] = "wait" /\ remote'[r] = "running" /\ tpc[r] = "ask"
      /\ share' = [share EXCEPT ![FreeShare] = NewShare("building", Made(r))]
  BY <1>1 DEF AskShare, Holds, On, Jobs, TaskGoes, RemoteGoes
<1>7. row'[On(r)].share = FreeShare
  <2>1. PICK st : row' = [row EXCEPT ![On(r)].share = FreeShare, ![On(r)].status = st]
    BY DEF AskShare
  <2> QED
    BY <1>1, <2>1 DEF RowRec
<1> QED
  BY <1>2, <1>3, <1>4, <1>5, <1>6, <1>7 DEF Coming, HasUuid

\* A plain share stays one, whatever the resource service does.
LEMMA PlainShareStays ==
  ASSUME TInv, OneShareComes, NEW r \in Requests, Client(r) \/ Goes(r),
         NEW s \in Shares, PlainShare(s)
  PROVE  PlainShare(s)'
<1>1. share \in [Shares -> ShareRec] /\ share[s] \in ShareRec
  BY PartsTyped
<1>2. CASE Client(r)
  BY <1>2, ClientEffect DEF ClientWell, Adds, Asks, PlainShare
<1>3. CASE AskShare(r)
  BY <1>1, <1>3, WhoMakes DEF PlainShare
<1>4. CASE RemoteServes(r)
  <2>1. share' = [share EXCEPT ![job[r].share] = Served(r)]
    BY <1>4 DEF RemoteServes
  <2>2. job[r].share = s => Served(r).state # "free" /\ ~Served(r).replica
    BY <1>1 DEF Served, PlainShare, ShareRec
  <2> QED
    BY <1>1, <2>1, <2>2 DEF PlainShare
<1>5. CASE RemoteFails(r)
  BY <1>1, <1>5 DEF RemoteFails, PlainShare, ShareRec
<1>6. CASE share' = share
  BY <1>6 DEF PlainShare
<1> QED
  BY <1>2, <1>3, <1>4, <1>5, <1>6
     DEF Goes, Serving, Working, Remote, BeginUpdate, BeginAction, Dispatch, DispatchFails, WriteSize,
         StepBegins, AskChange, AskFails, RemoteAnswers, WaitFails, StepWrites, StepEnds, TaskFails

\* No share comes that was not to come, but that of a file system just made.
LEMMA ComingStays ==
  ASSUME TInv, OneShareComes, NEW r \in Requests, Goes(r), NEW q \in Requests, Coming(q)'
  PROVE  Coming(q) /\ On(q)' = On(q) /\ job'[q].want = job[q].want /\ Op(q) = "create"
<1>1. CASE q # r
  BY <1>1, OthersWait DEF Coming, Op, On
<1>2. CASE q = r
  <2>1. Op(r) = "create" /\ On(r)' = On(r) /\ job'[r].want = job[r].want
    BY <1>2, JobStays DEF Coming
  <2>2. rpc[r] # "read"
    BY <2>1 DEF OneShareComes
  <2>3. ~(StepEnds(r) /\ Len(job[r].steps) # 1)
    BY <2>1, PartsTyped DEF StepEnds, OneShareComes, StepsFit, StageOK
  <2>4. Coming(r)
    BY <1>2, <2>1, <2>2, <2>3, StagesAfter DEF Coming
  <2> QED
    BY <1>2, <2>1, <2>4
<1> QED
  BY <1>1, <1>2

\* No replica comes to a file system to which none was coming.
LEMMA NoReplicaStays ==
  ASSUME TInv, OneShareComes, NEW r \in Requests, Client(r) \/ Goes(r),
         NEW f \in FileSystems, NoReplicaComes(f)
  PROVE  NoReplicaComes(f)'
<1>1. row \in [FileSystems -> RowRec] /\ job \in [Requests -> Jobs]
      /\ rpc \in [Requests -> RequestStages] /\ row[f].state # "absent"
  BY PartsTyped DEF NoReplicaComes
<1>2. CASE Goes(r)
  <2>1. row'[f].state # "absent"
    BY <1>1, <1>2, RowsStay
  <2>2. \A q \in Requests : Coming(q)' /\ On(q)' = f => ~job'[q].want.replica
    BY <1>2, ComingStays DEF NoReplicaComes
  <2> QED
    BY <2>1, <2>2 DEF NoReplicaComes
<1>3. CASE \E g \in FileSystems, c \in Configs, s \in Shares \cup {NoShare} :
             Adds(r, g, c, s) /\ row[g].state = "absent" /\ (g \in Old => ~c.replica)
  <2>1. PICK g \in FileSystems, c \in Configs, s \in Shares \cup {NoShare} : Adds(r, g, c, s) /\ row[g].state = "absent"
    BY <1>3
  <2>2. g # f
    BY <1>1, <2>1
  <2>3. row'[f] = row[f]
    BY <1>1, <2>1, <2>2 DEF Adds
  <2>4. job'[r].on = g
    BY <1>1, <2>1, JobFields DEF Adds, Holds
  <2>5. \A q \in Requests \ {r} : job'[q] = job[q] /\ rpc'[q] = rpc[q] /\ tpc'[q] = tpc[q]
    BY <1>1, <2>1 DEF Adds, Holds, RequestGoes
  <2> QED
    BY <1>1, <2>2, <2>3, <2>4, <2>5 DEF NoReplicaComes, Coming, On, Op
<1>4. CASE \E j : Asks(r, j) /\ AskedWell(r, j)
  <2>1. PICK j : Asks(r, j) /\ AskedWell(r, j)
    BY <1>4
  <2>2. job'[r] = j /\ \A q \in Requests \ {r} : job'[q] = job[q] /\ rpc'[q] = rpc[q] /\ tpc'[q] = tpc[q]
    BY <1>1, <2>1 DEF Asks, Holds, RequestGoes
  <2> QED
    BY <1>1, <2>1, <2>2 DEF Asks, NoReplicaComes, Coming, On, Op, AskedWell
<1> QED
  BY <1>2, <1>3, <1>4, ClientEffect DEF ClientWell

\* A share made for a file system to which no replica comes is plain.
LEMMA MadePlain ==
  ASSUME TInv, OneShareComes, NEW r \in Requests, AskShare(r), NoReplicaComes(On(r)),
         NEW s, s = FreeShare
  PROVE  PlainShare(s)'
<1>1. ~Made(r).replica
  <2>1. CASE Step(r) = "mount"
    <3>1. job[r].want \in Configs
      BY JobParts, PartsTyped
    <3> QED
      BY <2>1, <3>1 DEF Made, Configs
  <2>2. CASE Step(r) = "create" /\ Op(r) = "create" /\ Coming(r)
    <3>1. ~job[r].want.replica
      BY <2>2 DEF NoReplicaComes
    <3> QED
      BY <2>2, <3>1 DEF Made
  <2> QED
    BY <2>1, <2>2, WhoMakes
<1>2. share' = [share EXCEPT ![s] = NewShare("building", Made(r))] /\ s \in Shares
  BY WhoMakes
<1> QED
  BY <1>1, <1>2, PartsTyped DEF PlainShare, NewShare
\* A plain file system stays one.
LEMMA PlainStays ==
  ASSUME TInv, OneShareComes, NEW r \in Requests, Client(r) \/ Goes(r),
         NEW f \in FileSystems, Plain(f)
  PROVE  Plain(f)'
<1>1. row \in [FileSystems -> RowRec] /\ row[f].share \in Shares \cup {NoShare}
        /\ job \in [Requests -> Jobs] /\ NoReplicaComes(f) /\ row[f].state # "absent"
  BY PartsTyped DEF Plain, NoReplicaComes, RowRec
<1>2. NoReplicaComes(f)'
  BY <1>1, NoReplicaStays
<1> SUFFICES ASSUME row'[f].share # NoShare
             PROVE  PlainShare(row[f].share)'
  BY <1>2 DEF Plain, HasUuid
<1>3. CASE row'[f].share = row[f].share
  BY <1>1, <1>3, PlainShareStays DEF Plain, HasUuid
<1>4. CASE AskShare(r) /\ f = On(r) /\ Goes(r)
  <2>1. row'[f].share = FreeShare
    BY <1>4, WhoMakes
  <2> QED
    BY <1>1, <1>4, <2>1, MadePlain
<1>5. CASE Client(r)
  <2>1. row'[f].share = row[f].share
    BY <1>1, <1>5, ClientEffect DEF ClientWell, Adds, Asks, RowRec
  <2> QED
    BY <1>3, <2>1
<1> QED
  BY <1>3, <1>4, <1>5, RowsStay

\* A client's request changes its own job only.
LEMMA ClientKeeps ==
  ASSUME TInv, NEW r \in Requests, Client(r)
  PROVE  /\ \A q \in Requests \ {r} : rpc'[q] = rpc[q] /\ job'[q] = job[q]
         /\ rpc'[r] \in {"read", "dispatch"} /\ Begun(r)' /\ ~Begun(r)
         /\ tpc' = tpc /\ remote' = remote /\ tpc[r] = "none" /\ share' = share
<1>1. /\ rpc \in [Requests -> RequestStages] /\ tpc \in [Requests -> TaskStages]
      /\ job \in [Requests -> Jobs] /\ StageOK(r)
  BY PartsTyped
<1>2. rpc[r] = "idle" /\ ClientWell(r)
  BY ClientEffect
<1>3. CASE \E f \in FileSystems, c \in Configs, s \in Shares \cup {NoShare} : Adds(r, f, c, s)
  BY <1>1, <1>2, <1>3 DEF Adds, Holds, RequestGoes, StageOK, Begun
<1>4. CASE \E j : Asks(r, j)
  BY <1>1, <1>2, <1>4 DEF Asks, Holds, RequestGoes, StageOK, Begun
<1> QED
  BY <1>2, <1>3, <1>4 DEF ClientWell

\* A new file system and its creation.
LEMMA AddsOne ==
  ASSUME "mount" \in Alone, TInv, OneShareComes, NEW r \in Requests, Client(r),
         NEW f \in FileSystems, NEW c \in Configs, NEW s \in Shares \cup {NoShare},
         Adds(r, f, c, s), row[f].state = "absent"
  PROVE  /\ OneShareComes'
         /\ job'[r].op = "create" /\ job'[r].on = f /\ job'[r].conf = c /\ job'[r].want = c
         /\ row'[f].state # "absent" /\ row'[f].share = NoShare
         /\ \A g \in FileSystems \ {f} : row'[g] = row[g]
         /\ conf' = [conf EXCEPT ![f] = c]
<1>1. /\ row \in [FileSystems -> RowRec] /\ row[f] \in RowRec
      /\ rpc \in [Requests -> RequestStages] /\ tpc \in [Requests -> TaskStages]
      /\ job \in [Requests -> Jobs] /\ remote \in [Requests -> RemoteStages]
  BY PartsTyped
<1>2. /\ job'[r].op = "create" /\ job'[r].on = f /\ job'[r].conf = c /\ job'[r].want = c
      /\ job'[r].steps = <<"create">>
  BY <1>1, JobFields DEF Adds, Holds
<1>3. /\ row'[f].state # "absent" /\ row'[f].share = NoShare
      /\ \A g \in FileSystems \ {f} : row'[g] = row[g]
  BY <1>1 DEF Adds, RowRec, OneShareComes, HasUuid
<1>4. /\ \A q \in Requests \ {r} : rpc'[q] = rpc[q] /\ job'[q] = job[q]
      /\ Begun(r)' /\ ~Begun(r) /\ tpc' = tpc /\ remote' = remote /\ tpc[r] = "none"
  BY ClientKeeps
<1>5. rpc'[r] = "dispatch"
  BY <1>1 DEF Adds, RequestGoes
<1>6. \A q \in Requests \ {r} : Begun(q) => On(q) # f
  BY <1>1 DEF OneShareComes
<1>7. \A q \in Requests \ {r} :
        /\ Begun(q)' = Begun(q) /\ Op(q)' = Op(q) /\ On(q)' = On(q) /\ Coming(q)' = Coming(q)
        /\ Busy(q)' = Busy(q)
  BY <1>4 DEF Begun, Op, On, Coming, Busy
<1>8. \A q \in Requests : Coming(q) => Begun(q)
  BY DEF Coming, Begun, TInv, StageOK
<1>9. \A g \in FileSystems : row'[g].state = "absent" => ~HasUuid(g)'
  BY <1>3 DEF OneShareComes, HasUuid
<1>10. \A q \in Requests : Begun(q)' => row'[On(q)'].state # "absent"
  <2>1. \A q \in Requests : On(q) \in FileSystems
    BY PartsTyped
  <2> QED
    BY <1>2, <1>3, <1>6, <1>7, <2>1 DEF OneShareComes, On
<1>11. /\ \A q \in Requests : ~Begun(q)' => remote'[q] = "none"
       /\ \A q \in Requests : rpc'[q] = "read" => Op(q)' # "create"
  BY <1>4, <1>5, <1>7 DEF OneShareComes
<1>12. \A p, q \in Requests :
         /\ Begun(p)' /\ Begun(q)' /\ On(p)' = On(q)'
         /\ Op(p)' = "create" /\ Op(q)' = "create"
         => p = q
  BY <1>2, <1>6, <1>7 DEF OneShareComes, On
<1>13. \A q \in Requests : Coming(q)' => ~HasUuid(On(q))'
  <2>1. \A q \in Requests : On(q) \in FileSystems
    BY PartsTyped
  <2> QED
    BY <1>2, <1>3, <1>6, <1>7, <1>8, <2>1 DEF OneShareComes, On, HasUuid
<1>14. \A p, q \in Requests :
         Coming(q)' /\ Begun(p)' /\ Op(p)' = "mount" /\ On(p)' = On(q)' => ~Busy(p)'
  BY <1>2, <1>6, <1>7, <1>8 DEF OneShareComes, On, Op
<1>15. \A q \in Requests : StepsFit(q)'
  <2>1. <<"create">> \in Seq(StepsOf("create")) /\ Len(<<"create">>) = 1
    <3>1. StepsOf("create") = {"create"}
      BY DEF StepsOf
    <3> QED
      BY <3>1
  <2>2. StepsFit(r)'
    BY <1>2, <2>1 DEF StepsFit, Op
  <2>3. \A q \in Requests \ {r} : StepsFit(q)'
    BY <1>4 DEF OneShareComes, StepsFit, Op
  <2> QED
    BY <2>2, <2>3
<1>16. OneShareComes'
  BY <1>9, <1>10, <1>11, <1>12, <1>13, <1>14, <1>15 DEF OneShareComes
<1> QED
  BY <1>2, <1>3, <1>16 DEF Adds, WithConfig

\* A request about a file system that is there.
LEMMA AsksOne ==
  ASSUME "mount" \in Alone, TInv, OneShareComes, NEW r \in Requests, Client(r),
         NEW j, Asks(r, j), AskedWell(r, j), j.on \in FileSystems
  PROVE  OneShareComes' /\ job'[r] = j
<1>1. /\ rpc \in [Requests -> RequestStages] /\ job \in [Requests -> Jobs]
      /\ \A q \in Requests : StageOK(q)
  BY PartsTyped
<1>2. job'[r] = j /\ rpc'[r] = "read" /\ row' = row
  BY <1>1 DEF Asks, Holds, RequestGoes
<1>3. /\ \A q \in Requests \ {r} : rpc'[q] = rpc[q] /\ job'[q] = job[q]
      /\ Begun(r)' /\ ~Begun(r) /\ tpc' = tpc /\ remote' = remote /\ tpc[r] = "none"
  BY ClientKeeps
<1>4. \A q \in Requests \ {r} :
        /\ Begun(q)' = Begun(q) /\ Op(q)' = Op(q) /\ On(q)' = On(q) /\ Coming(q)' = Coming(q)
        /\ Busy(q)' = Busy(q)
  BY <1>3 DEF Begun, Op, On, Coming, Busy
<1>5. Op(r)' = j.op /\ On(r)' = j.on /\ j.op # "create" /\ ~Coming(r)' /\ row[j.on].state # "absent"
  BY <1>2 DEF Op, On, Coming, AskedWell, Visible
<1>6. \A q \in Requests \ {r} : Coming(q) /\ On(q) = j.on => Busy(q)
  BY <1>1 DEF Coming, Busy
<1>7. j.op = "mount" => \A q \in Requests : On(q) = j.on => ~Busy(q)
  BY DEF AskedWell, MayAsk
<1>8. /\ \A f \in FileSystems : row'[f].state = "absent" => ~HasUuid(f)'
      /\ \A q \in Requests : Begun(q)' => row'[On(q)'].state # "absent"
      /\ \A q \in Requests : ~Begun(q)' => remote'[q] = "none"
      /\ \A q \in Requests : rpc'[q] = "read" => Op(q)' # "create"
  BY <1>2, <1>3, <1>4, <1>5 DEF OneShareComes, HasUuid
<1>9. /\ \A p, q \in Requests :
           /\ Begun(p)' /\ Begun(q)' /\ On(p)' = On(q)'
           /\ Op(p)' = "create" /\ Op(q)' = "create"
           => p = q
      /\ \A q \in Requests : Coming(q)' => ~HasUuid(On(q))'
  BY <1>2, <1>4, <1>5 DEF OneShareComes, HasUuid
<1>10. \A p, q \in Requests :
         Coming(q)' /\ Begun(p)' /\ Op(p)' = "mount" /\ On(p)' = On(q)' => ~Busy(p)'
  BY <1>4, <1>5, <1>6, <1>7 DEF OneShareComes
<1>11. \A q \in Requests : StepsFit(q)'
  <2>1. StepsFit(r)'
    BY <1>2, <1>5 DEF StepsFit, Op, AskedWell
  <2>2. \A q \in Requests \ {r} : StepsFit(q)'
    BY <1>3 DEF OneShareComes, StepsFit, Op
  <2> QED
    BY <2>1, <2>2
<1> QED
  BY <1>2, <1>8, <1>9, <1>10, <1>11 DEF OneShareComes

\* The other steps bring a share to a file system only by its creation or by a
\* mount target, and these are never together.
LEMMA OneShareStays ==
  ASSUME TInv, OneShareComes, NEW r \in Requests, Goes(r)
  PROVE  OneShareComes'
<1>1. /\ \A q \in Requests : On(q) \in FileSystems
      /\ job \in [Requests -> Jobs] /\ \A q \in Requests : StageOK(q)
  BY PartsTyped
<1>2. \A q \in Requests \ {r} :
        rpc'[q] = rpc[q] /\ tpc'[q] = tpc[q] /\ remote'[q] = remote[q] /\ job'[q] = job[q]
  BY OthersWait
<1>3. Op(r)' = Op(r) /\ On(r)' = On(r)
  BY JobStays
<1>4. \A q \in Requests : Op(q)' = Op(q) /\ On(q)' = On(q)
  BY <1>2, <1>3 DEF Op, On
<1>5. \A q \in Requests : Begun(q)' => Begun(q)
  <2>1. Begun(r)
    BY StagesAfter DEF OneShareComes
  <2> QED
    BY <1>2, <2>1 DEF Begun
<1>6. \A q \in Requests : Coming(q)' => Coming(q)
  BY ComingStays
<1>7. \A q \in Requests : Busy(q)' => Busy(q)
  <2>1. Busy(r)' => Busy(r)
    BY StagesAfter
  <2> QED
    BY <1>2, <2>1 DEF Busy
<1>8. \A f \in FileSystems :
        /\ row'[f].state = "absent" => row[f].state = "absent"
        /\ HasUuid(f)' => HasUuid(f) \/ (AskShare(r) /\ f = On(r))
  BY RowsStay DEF HasUuid
<1>9. AskShare(r) => Begun(r) /\ Busy(r) /\ Op(r) \in {"create", "mount"} /\ tpc'[r] = "wait"
  BY WhoMakes
<1>10. /\ \A f \in FileSystems : row'[f].state = "absent" => ~HasUuid(f)'
       /\ \A q \in Requests : Begun(q)' => row'[On(q)'].state # "absent"
  BY <1>1, <1>4, <1>5, <1>8, <1>9 DEF OneShareComes
<1>11. /\ \A q \in Requests : ~Begun(q)' => remote'[q] = "none"
       /\ \A q \in Requests : rpc'[q] = "read" => Op(q)' # "create"
  <2>1. Begun(r)'
    BY StagesAfter DEF OneShareComes
  <2>2. rpc'[r] = "read" => rpc[r] = "read"
    BY StagesAfter
  <2> QED
    BY <1>2, <1>4, <2>1, <2>2 DEF OneShareComes, Begun
<1>12. \A p, q \in Requests :
         /\ Begun(p)' /\ Begun(q)' /\ On(p)' = On(q)'
         /\ Op(p)' = "create" /\ Op(q)' = "create"
         => p = q
  BY <1>4, <1>5 DEF OneShareComes
<1>13. \A q \in Requests : Coming(q)' => ~HasUuid(On(q))'
  <2> SUFFICES ASSUME NEW q \in Requests, Coming(q)', HasUuid(On(q))'
               PROVE  FALSE
    OBVIOUS
  <2>1. Coming(q) /\ Op(q) = "create" /\ ~HasUuid(On(q)) /\ Begun(q)
    <3>1. Coming(q) /\ Op(q) = "create"
      BY <1>6 DEF Coming
    <3> QED
      BY <1>1, <3>1 DEF OneShareComes, Coming, StageOK, Begun
  <2>2. row'[On(q)].share # NoShare
    BY <1>4 DEF HasUuid
  <2>3. AskShare(r) /\ On(q) = On(r)
    BY <1>1, <1>4, <2>1, <2>2, <1>8 DEF HasUuid
  <2>4. CASE q = r
    <3>1. tpc'[r] = "wait" /\ tpc[r] = "ask" /\ rpc' = rpc
      BY <1>9, <2>3 DEF AskShare
    <3>2. rpc[r] # "dispatch"
      BY <1>1, <3>1 DEF StageOK
    <3> QED
      BY <2>4, <3>1, <3>2 DEF Coming
  <2>5. CASE q # r
    BY <1>9, <2>1, <2>3, <2>5 DEF OneShareComes
  <2> QED
    BY <2>4, <2>5
<1>14. \A p, q \in Requests :
         Coming(q)' /\ Begun(p)' /\ Op(p)' = "mount" /\ On(p)' = On(q)' => ~Busy(p)'
  BY <1>4, <1>5, <1>6, <1>7 DEF OneShareComes
<1>15. \A q \in Requests : StepsFit(q)'
  <2>1. StepsFit(r)'
    <3>1. CASE job'[r].steps = job[r].steps
      BY <1>3, <3>1 DEF OneShareComes, StepsFit
    <3>2. CASE StepEnds(r)
      <4> DEFINE S == StepsOf(Op(r))
      <4> DEFINE q == job[r].steps
      <4>1. q \in Seq(S) /\ q # <<>> /\ (Op(r) = "create" => Len(q) = 1)
        BY <1>1, <3>2 DEF OneShareComes, StepsFit, StepEnds, StageOK
      <4>2. job'[r].steps = Tail(q)
        BY <1>1, <3>2 DEF StepEnds, Holds, Jobs
      <4> HIDE DEF S, q
      <4>3. Tail(q) \in Seq(S) /\ (Len(q) = 1 => Tail(q) = <<>>)
        <5>1. Tail(q) \in Seq(S) /\ Len(Tail(q)) = Len(q) - 1
          BY <4>1, HeadTailProperties, EmptySeq
        <5> QED
          BY <5>1, EmptySeq
      <4> QED
        BY <1>3, <4>1, <4>2, <4>3 DEF StepsFit, S
    <3> QED
      BY <3>1, <3>2, JobStays
  <2>2. \A q \in Requests \ {r} : StepsFit(q)'
    BY <1>2 DEF OneShareComes, StepsFit, Op
  <2> QED
    BY <2>1, <2>2
<1> QED
  BY <1>10, <1>11, <1>12, <1>13, <1>14, <1>15 DEF OneShareComes

----------------------------------------------------------------------------
(* What requests know of replicas.                                         *)

\* What the configuration and the jobs say at first is true of the shares.
LEMMA InitPInv == Init => PInv
<1> SUFFICES ASSUME Init PROVE PInv
  OBVIOUS
<1>1. TInv
  BY InitTInv
<1>2. \A r \in Requests : ~Begun(r) /\ ~Coming(r) /\ tpc[r] = "none" /\ remote[r] = "none"
  BY DEF Init, Begun, Coming
<1>3. \A r \in Requests : Op(r) = "touch" /\ job[r].steps = <<>>
  <2> DEFINE f == CHOOSE f \in FileSystems : TRUE
  <2>1. \A r \in Requests : job[r] = Job("touch", f, FirstConfig(f), FirstConfig(f), <<>>)
    BY DEF Init
  <2> HIDE DEF f
  <2> QED
    BY <2>1 DEF Job, Op
<1>4. \A r \in Requests : StepsFit(r)
  <2>1. \A S : <<>> \in Seq(S)
    OBVIOUS
  <2> QED
    BY <1>3, <2>1 DEF StepsFit
<1>5. OneShareComes
  BY <1>2, <1>4 DEF Init, OneShareComes, HasUuid
<1>6. \A f \in Existing : conf[f].replica = (f \in Copies) /\ share[Share[f]].replica = (f \in Copies)
                            /\ share[Share[f]].state = "live" /\ row[f].share = Share[f]
  <2> SUFFICES ASSUME NEW f \in Existing
               PROVE  /\ conf[f].replica = (f \in Copies)
                      /\ share[Share[f]].replica = (f \in Copies)
                      /\ share[Share[f]].state = "live"
                      /\ row[f].share = Share[f]
    OBVIOUS
  <2>1. f \in FileSystems /\ Share[f] \in Shares
    BY ConstantsAssumption
  <2>2. (CHOOSE g \in Existing : Share[g] = Share[f]) = f
    BY ConstantsAssumption
  <2>3. share[Share[f]] = NewShare("live", FirstConfig(f))
    BY <2>1, <2>2 DEF Init
  <2> QED
    BY <2>1, <2>3 DEF Init, FirstConfig, NewShare
<1>7. \A f \in FileSystems : row[f].state # "absent" /\ f \notin Copies => Plain(f)
  <2> SUFFICES ASSUME NEW f \in FileSystems, row[f].state # "absent", f \notin Copies
               PROVE  Plain(f)
    OBVIOUS
  <2>1. f \in Existing
    BY DEF Init
  <2>2. Share[f] \in Shares
    BY <2>1, ConstantsAssumption
  <2> QED
    BY <1>2, <1>6, <2>1, <2>2 DEF Plain, NoReplicaComes, PlainShare
<1>8. \A f \in FileSystems : row[f].state # "absent" /\ ~conf[f].replica => f \notin Copies
  BY <1>6 DEF Init
<1>9. \A f \in Old : f \in FileSystems /\ f \notin Copies
  BY ConstantsAssumption
<1>10. PlainKnown
  BY <1>2, <1>7, <1>8, <1>9 DEF PlainKnown
<1> QED
  BY <1>1, <1>5, <1>10 DEF PInv

\* What a request knows stays true while another one takes a step.
LEMMA OthersKnow ==
  ASSUME TInv, OneShareComes, NEW r \in Requests, Client(r) \/ Goes(r),
         NEW q \in Requests, KnowsPlain(q),
         job'[q] = job[q], tpc'[q] = tpc[q], remote'[q] = remote[q]
  PROVE  KnowsPlain(q)'
<1>1. PICK f \in FileSystems : f = On(q)
  BY PartsTyped
<1>2. On(q)' = f /\ Op(q)' = Op(q) /\ Unlinked(q)' = Unlinked(q)
  BY <1>1 DEF On, Op, Unlinked, Step
<1>3. Plain(f) => Plain(f)'
  BY PlainStays
<1>4. NoReplicaComes(f) => NoReplicaComes(f)'
  BY NoReplicaStays
<1>5. \A s \in Shares : PlainShare(s) => PlainShare(s)'
  BY PlainShareStays
<1>6. /\ Plain(f)' <=> Plain(On(q))'
      /\ NoReplicaComes(f)' <=> NoReplicaComes(On(q))'
  BY <1>2
<1>7. \/ row'[f].share = row[f].share
      \/ row'[f].share = NoShare
      \/ NoReplicaComes(f) => PlainShare(row[f].share)'
  <2>1. CASE Client(r)
    <3>1. row \in [FileSystems -> RowRec] /\ row[f] \in RowRec
      BY PartsTyped
    <3>2. row' = row \/ \E g \in FileSystems : row' = [row EXCEPT ![g].state = "present"]
      BY <2>1, ClientEffect DEF ClientWell, Adds, Asks
    <3> QED
      BY <3>1, <3>2 DEF RowRec
  <2>2. CASE Goes(r)
    <3>1. CASE AskShare(r) /\ f = On(r) /\ row'[f].share = FreeShare
      BY <3>1, MadePlain
    <3> QED
      BY <2>2, <3>1, RowsStay
  <2> QED
    BY <2>1, <2>2
<1>8. row[f].share \in Shares \cup {NoShare}
  BY PartsTyped DEF RowRec
<1>9. ~job'[q].conf.replica \/ ~job'[q].want.replica => Plain(On(q))'
  BY <1>1, <1>3, <1>6 DEF KnowsPlain
<1>10. Op(q)' \in {"resize", "compliance"}
         => Plain(On(q))' /\ (remote'[q] # "none" => PlainShare(job[q].share)')
  <2> SUFFICES ASSUME Op(q) \in {"resize", "compliance"}
               PROVE  Plain(On(q))' /\ (remote'[q] # "none" => PlainShare(job[q].share)')
    BY <1>2
  <2>1. Plain(f) /\ (remote[q] # "none" => PlainShare(job[q].share))
    BY <1>1 DEF KnowsPlain
  <2>2. PlainShare(job[q].share) => PlainShare(job[q].share)'
    BY <1>5 DEF PlainShare
  <2> QED
    BY <1>3, <1>6, <2>1, <2>2
<1>11. Op(q)' = "unlink"
         => /\ NoReplicaComes(On(q))'
            /\ tpc'[q] = "wait" /\ HasUuid(On(q))'
                 => row'[On(q)'].share = job'[q].share \/ PlainShare(row[On(q)].share)'
            /\ Unlinked(q)' => Plain(On(q))'
  <2> SUFFICES ASSUME Op(q) = "unlink"
               PROVE  /\ NoReplicaComes(On(q))'
                      /\ tpc'[q] = "wait" /\ HasUuid(On(q))'
                           => row'[On(q)'].share = job'[q].share \/ PlainShare(row[On(q)].share)'
                      /\ Unlinked(q)' => Plain(On(q))'
    BY <1>2
  <2>1. /\ NoReplicaComes(f)
        /\ tpc[q] = "wait" /\ row[f].share # NoShare
             => row[f].share = job[q].share \/ PlainShare(row[f].share)
        /\ Unlinked(q) => Plain(f)
    BY <1>1 DEF KnowsPlain, HasUuid
  <2>2. tpc[q] = "wait" /\ row'[f].share # NoShare
          => row'[f].share = job[q].share \/ PlainShare(row[f].share)'
    <3>1. CASE row'[f].share = row[f].share
      BY <1>5, <1>8, <2>1, <3>1
    <3> QED
      BY <1>7, <2>1, <3>1
  <2>3. HasUuid(On(q))' => row'[f].share # NoShare
    BY <1>2 DEF HasUuid
  <2>4. PlainShare(row[f].share)' => PlainShare(row[On(q)].share)'
    BY <1>2
  <2> QED
    BY <1>2, <1>3, <1>4, <1>6, <2>1, <2>2, <2>3, <2>4
<1> QED
  BY <1>9, <1>10, <1>11 DEF KnowsPlain

\* A request that has just been made knows what it has read.
LEMMA ClientKnows ==
  ASSUME "mount" \in Alone, PInv, NEW r \in Requests, Client(r)
  PROVE  OneShareComes' /\ PlainKnown'
<1> USE DEF PInv
<1>1. \A q \in Requests \ {r} : job'[q] = job[q] /\ tpc'[q] = tpc[q] /\ remote'[q] = remote[q]
                                  /\ Begun(q)' = Begun(q)
  BY ClientKeeps DEF Begun
<1>2. \A q \in Requests \ {r} : Begun(q)' => KnowsPlain(q)'
  <2> SUFFICES ASSUME NEW q \in Requests \ {r}, Begun(q)
               PROVE  KnowsPlain(q)'
    BY <1>1
  <2> QED
    BY <1>1, OthersKnow DEF PlainKnown
<1>3. tpc'[r] = "none" /\ remote'[r] = "none"
  BY ClientKeeps DEF OneShareComes
<1>4. \A g \in FileSystems : Plain(g) => Plain(g)'
  BY PlainStays
<1>5. conf \in [FileSystems -> Configs]
  BY PartsTyped
<1>6. CASE \E f \in FileSystems, c \in Configs, s \in Shares \cup {NoShare} :
             Adds(r, f, c, s) /\ row[f].state = "absent" /\ (f \in Old => ~c.replica)
  <2>1. PICK f \in FileSystems, c \in Configs, s \in Shares \cup {NoShare} :
          Adds(r, f, c, s) /\ row[f].state = "absent" /\ (f \in Old => ~c.replica)
    BY <1>6
  <2>2. /\ OneShareComes'
        /\ job'[r].op = "create" /\ job'[r].on = f /\ job'[r].conf = c /\ job'[r].want = c
        /\ row'[f].state # "absent" /\ row'[f].share = NoShare
        /\ \A g \in FileSystems \ {f} : row'[g] = row[g]
        /\ conf' = [conf EXCEPT ![f] = c]
    BY <2>1, AddsOne
  <2>3. ~c.replica => Plain(f)'
    <3>1. \A q \in Requests : Coming(q)' /\ On(q)' = f => q = r
      <4> SUFFICES ASSUME NEW q \in Requests \ {r}, Coming(q)', On(q)' = f
                   PROVE  FALSE
        OBVIOUS
      <4>1. Coming(q) /\ On(q) = f
        BY <1>1, ClientKeeps DEF Coming, Op, On
      <4>2. Begun(q)
        BY <4>1 DEF Coming, Begun, TInv, StageOK
      <4> QED
        BY <2>1, <4>1, <4>2 DEF OneShareComes
    <3> QED
      BY <2>2, <3>1 DEF Plain, NoReplicaComes, HasUuid
  <2>4. \A g \in FileSystems : row'[g].state # "absent" /\ ~conf'[g].replica => Plain(g)'
    <3>1. \A g \in FileSystems \ {f} : row'[g] = row[g] /\ conf'[g] = conf[g]
      BY <1>5, <2>2
    <3>2. conf'[f] = c
      BY <1>5, <2>2
    <3> QED
      BY <1>4, <2>3, <3>1, <3>2 DEF PlainKnown
  <2>5. \A g \in Old : row'[g].state # "absent" => Plain(g)'
    BY <1>4, <2>1, <2>2, <2>3, ConstantsAssumption DEF PlainKnown
  <2>6. KnowsPlain(r)'
    <3>1. Op(r)' = "create" /\ On(r)' = f
      BY <2>2 DEF Op, On
    <3>2. Plain(f)' <=> Plain(On(r))'
      BY <3>1
    <3> QED
      BY <2>2, <2>3, <3>1, <3>2 DEF KnowsPlain
  <2> QED
    BY <1>2, <2>2, <2>4, <2>5, <2>6 DEF PlainKnown
<1>7. CASE \E j : Asks(r, j) /\ AskedWell(r, j) /\ j.on \in FileSystems
  <2>1. PICK j : Asks(r, j) /\ AskedWell(r, j) /\ j.on \in FileSystems
    BY <1>7
  <2>2. OneShareComes' /\ job'[r] = j /\ row' = row /\ conf' = conf
    BY <2>1, AsksOne DEF Asks
  <2>3. \A g \in FileSystems : row'[g].state # "absent" /\ ~conf'[g].replica => Plain(g)'
    BY <1>4, <2>2 DEF PlainKnown
  <2>4. \A g \in Old : row'[g].state # "absent" => Plain(g)'
    BY <1>4, <2>2, ConstantsAssumption DEF PlainKnown
  <2>5. PICK f \in FileSystems : f = j.on
    BY <2>1
  <2>6. On(r)' = f /\ Op(r)' = j.op /\ row[f].state # "absent"
    BY <2>1, <2>2, <2>5 DEF On, Op, AskedWell, Visible
  <2>7. Plain(f)' <=> Plain(On(r))'
    BY <2>6
  <2>8. /\ ~j.conf.replica => Plain(f)
        /\ ~j.want.replica => Plain(f)
        /\ j.op \in {"resize", "compliance"} => Plain(f)
    BY <2>1, <2>5, <2>6 DEF AskedWell, PlainKnown
  <2>9. j.op = "unlink" => NoReplicaComes(On(r))' /\ ~Unlinked(r)'
    <3> SUFFICES ASSUME j.op = "unlink" PROVE NoReplicaComes(On(r))' /\ ~Unlinked(r)'
      OBVIOUS
    <3>1. HasUuid(f) /\ Head(j.steps) = "replica"
      BY <2>1, <2>5 DEF AskedWell
    <3>2. NoReplicaComes(f)
      BY <2>6, <3>1 DEF NoReplicaComes, OneShareComes
    <3>3. NoReplicaComes(f)'
      BY <3>2, NoReplicaStays
    <3>4. NoReplicaComes(f)' <=> NoReplicaComes(On(r))'
      BY <2>6
    <3>5. ~Unlinked(r)'
      BY <1>3, <2>2, <3>1 DEF Unlinked, Step
    <3> QED
      BY <3>3, <3>4, <3>5
  <2>10. KnowsPlain(r)'
    BY <1>3, <1>4, <2>2, <2>6, <2>7, <2>8, <2>9 DEF KnowsPlain
  <2> QED
    BY <1>2, <2>2, <2>3, <2>4, <2>10 DEF PlainKnown
<1> QED
  BY <1>6, <1>7, ClientEffect DEF ClientWell

\* A configuration loses its source only when the share behind is plain.
LEMMA ConfTells ==
  ASSUME PInv, NEW r \in Requests, Goes(r), NEW f \in FileSystems,
         row[f].state # "absent", ~conf'[f].replica
  PROVE  Plain(f)
<1> USE DEF PInv
<1>1. /\ conf \in [FileSystems -> Configs] /\ job[r] \in Jobs /\ On(r) \in FileSystems /\ StageOK(r)
      /\ job[r].conf \in Configs /\ job[r].want \in Configs
  BY PartsTyped, JobParts
<1>2. Begun(r)
  BY StagesAfter DEF OneShareComes
<1>3. KnowsPlain(r)
  BY <1>2 DEF PlainKnown
<1>4. CASE conf'[f] = conf[f]
  BY <1>4 DEF PlainKnown
<1>5. CASE conf' = [conf EXCEPT ![On(r)] = job[r].conf] \/ conf' = [conf EXCEPT ![On(r)] = job[r].want]
  BY <1>1, <1>3, <1>4, <1>5 DEF KnowsPlain
<1>6. CASE StepWrites(r) /\ conf' = [conf EXCEPT ![On(r)] = Configured(r)]
  <2>1. CASE Step(r) = "rename"
    <3>1. Op(r) = "unlink"
      BY <1>1, <1>6, <2>1, StepFits, MakersOf DEF StepWrites, StageOK
    <3>2. Unlinked(r)
      BY <1>6 DEF StepWrites, Unlinked
    <3> QED
      BY <1>1, <1>3, <1>4, <1>6, <3>1, <3>2 DEF KnowsPlain
  <2>2. CASE Step(r) # "rename"
    <3>1. Configured(r).replica = job[r].conf.replica
      BY <1>1, <2>2 DEF Configured, Configs
    <3> QED
      BY <1>1, <1>3, <1>4, <1>6, <3>1 DEF KnowsPlain
  <2> QED
    BY <2>1, <2>2
<1>7. \/ conf' = conf
      \/ conf' = [conf EXCEPT ![On(r)] = job[r].conf]
      \/ conf' = [conf EXCEPT ![On(r)] = job[r].want]
      \/ StepWrites(r) /\ conf' = [conf EXCEPT ![On(r)] = Configured(r)]
  BY DEF Goes, Serving, Working, Remote, BeginUpdate, BeginAction, Dispatch, DispatchFails, WriteSize,
         StepBegins, AskShare, AskChange, AskFails, RemoteAnswers, WaitFails, StepWrites, StepEnds,
         TaskFails, RemoteServes, RemoteFails, WithConfig
<1> QED
  BY <1>4, <1>5, <1>6, <1>7

\* A task learns that a replica is unlinked from the task of the resource service.
LEMMA UnlinkingKnows ==
  ASSUME PInv, NEW r \in Requests, Goes(r), Op(r) = "unlink", Begun(r),
         NEW f \in FileSystems, f = On(r)
  PROVE  /\ tpc'[r] = "wait" /\ row'[f].share # NoShare
              => row'[f].share = job'[r].share \/ PlainShare(row[f].share)'
         /\ Unlinked(r)' => Plain(f)'
<1> USE DEF PInv
<1>1. /\ row \in [FileSystems -> RowRec] /\ row[f].share \in Shares \cup {NoShare}
      /\ share \in [Shares -> ShareRec] /\ job \in [Requests -> Jobs] /\ job[r] \in Jobs
      /\ tpc \in [Requests -> TaskStages] /\ remote \in [Requests -> RemoteStages] /\ StageOK(r)
  BY PartsTyped DEF RowRec
<1>2. /\ NoReplicaComes(f)
      /\ tpc[r] = "wait" /\ row[f].share # NoShare
           => row[f].share = job[r].share \/ PlainShare(row[f].share)
      /\ Unlinked(r) => Plain(f)
  BY DEF PlainKnown, KnowsPlain, HasUuid
<1>3. /\ Plain(f) => Plain(f)'
      /\ NoReplicaComes(f)'
      /\ \A s \in Shares : PlainShare(s) => PlainShare(s)'
  BY <1>2, PlainStays, NoReplicaStays, PlainShareStays
<1>4. ~AskShare(r)
  BY WhoMakes
<1>5. row'[f].share = row[f].share \/ row'[f].share = NoShare
  BY <1>4, RowsStay
<1>6. job[r].steps # <<>> => Step(r) \in {"replica", "rename"}
  BY StepFits DEF StepsOf
<1>7. tpc'[r] = "wait" /\ row'[f].share # NoShare
        => row'[f].share = job'[r].share \/ PlainShare(row[f].share)'
  <2> SUFFICES ASSUME tpc'[r] = "wait", row'[f].share # NoShare
               PROVE  row'[f].share = job'[r].share \/ PlainShare(row[f].share)'
    OBVIOUS
  <2>1. row'[f].share = row[f].share
    BY <1>5
  <2>2. CASE AskChange(r)
    BY <1>1, <2>1, <2>2 DEF AskChange, Holds, Jobs
  <2>3. CASE ~AskChange(r)
    <3>1. tpc[r] = "wait"
      <4>1. tpc' = tpc \/ \E st \in TaskStages \ {"wait"} : tpc' = [tpc EXCEPT ![r] = st]
        BY <1>4, <2>3 DEF Goes, Serving, Working, Remote, BeginUpdate, BeginAction, Dispatch,
             DispatchFails, WriteSize, StepBegins, AskFails, RemoteAnswers, WaitFails, StepWrites,
             StepEnds, TaskFails, RemoteServes, RemoteFails, TaskGoes, TaskStages
      <4> QED
        BY <1>1, <4>1
    <3>2. job'[r].share = job[r].share
      BY <1>4, <2>3, JobStays
    <3> QED
      BY <1>1, <1>2, <1>3, <2>1, <3>1, <3>2
  <2> QED
    BY <2>2, <2>3
<1>8. Unlinked(r)' => Plain(f)'
  <2> SUFFICES ASSUME Unlinked(r)' PROVE Plain(f)'
    OBVIOUS
  <2>1. CASE Unlinked(r)
    BY <1>2, <1>3, <2>1
  <2>2. CASE RemoteServes(r) /\ tpc[r] = "wait"
    <3>1. row' = row
      BY <2>2 DEF RemoteServes
    <3>2. row[f].share = job[r].share /\ row[f].share # NoShare => PlainShare(row[f].share)'
      <4> SUFFICES ASSUME row[f].share = job[r].share, row[f].share # NoShare
                   PROVE  PlainShare(row[f].share)'
        OBVIOUS
      <4>1. Step(r) \in {"replica", "rename"}
        BY <1>1, <1>6, <2>2 DEF StageOK
      <4>2. share[job[r].share].state = "live"
        BY <2>2, <4>1 DEF RemoteServes, CanServe, Makes, Deletes
      <4>3. Served(r) = [share[job[r].share] EXCEPT !.replica = FALSE]
        BY <4>1 DEF Served, Makes, Deletes
      <4>4. share' = [share EXCEPT ![job[r].share] = Served(r)]
        BY <2>2 DEF RemoteServes
      <4> QED
        BY <1>1, <3>1, <4>2, <4>3, <4>4 DEF PlainShare, ShareRec
    <3>3. PlainShare(row[f].share) => PlainShare(row[f].share)'
      BY <1>3, <3>1 DEF PlainShare
    <3>4. row[f].share # NoShare => PlainShare(row[f].share)'
      BY <1>2, <2>2, <3>2, <3>3
    <3> QED
      BY <1>3, <3>1, <3>4 DEF Plain, HasUuid
  <2>3. CASE ~Unlinked(r) /\ ~(RemoteServes(r) /\ tpc[r] = "wait")
    <3>1. ~(tpc[r] \in {"write", "close"}) /\ ~(tpc[r] = "wait" /\ remote[r] = "success")
            /\ ~(job[r].steps # <<>> /\ Step(r) = "rename")
      BY <2>3 DEF Unlinked
    <3>2. job'[r].steps = job[r].steps
      BY <3>1, JobStays DEF StepEnds
    <3>3. ~(job'[r].steps # <<>> /\ Step(r)' = "rename")
      BY <3>1, <3>2 DEF Step
    <3>4. CASE Serving(r)
      <4>1. remote' = remote /\ (tpc'[r] = tpc[r] \/ tpc'[r] = "step")
        BY <1>1, <3>4 DEF Serving, BeginUpdate, BeginAction, Dispatch, DispatchFails, WriteSize,
                          TaskGoes
      <4> QED
        BY <3>1, <3>3, <4>1 DEF Unlinked
    <3>5. CASE Remote(r)
      <4>1. tpc' = tpc /\ (remote'[r] = "success" => RemoteServes(r))
        BY <1>1, <3>5 DEF Remote, RemoteServes, RemoteFails, RemoteGoes
      <4> QED
        BY <2>3, <3>1, <3>3, <4>1 DEF Unlinked
    <3>6. CASE StepBegins(r)
      <4>1. tpc[r] = "step" /\ tpc'[r] \in {"ask", "write", "failing"}
        BY <1>1, <3>6 DEF StepBegins, TaskGoes
      <4>2. Step(r) = "replica"
        BY <1>1, <1>6, <3>1, <4>1 DEF StageOK
      <4>3. tpc'[r] # "write"
        BY <1>1, <3>6, <4>2 DEF StepBegins, TaskGoes, AsksService
      <4> QED
        BY <3>3, <4>1, <4>3 DEF Unlinked
    <3>7. CASE AskChange(r)
      <4>1. tpc'[r] = "wait" /\ remote'[r] = "running"
        BY <1>1, <3>7 DEF AskChange, TaskGoes, RemoteGoes
      <4> QED
        BY <3>3, <4>1 DEF Unlinked
    <3>8. CASE AskFails(r) \/ WaitFails(r) \/ TaskFails(r)
      <4>1. tpc'[r] \in {"failing", "failed"}
        BY <1>1, <3>8 DEF AskFails, WaitFails, TaskFails, TaskGoes
      <4> QED
        BY <3>3, <4>1 DEF Unlinked
    <3>9. CASE RemoteAnswers(r) \/ StepWrites(r) \/ StepEnds(r)
      BY <3>1, <3>9 DEF RemoteAnswers, StepWrites, StepEnds
    <3> QED
      BY <1>4, <3>4, <3>5, <3>6, <3>7, <3>8, <3>9 DEF Goes, Working
  <2> QED
    BY <2>1, <2>2, <2>3
<1> QED
  BY <1>7, <1>8

\* What a request knows stays true when it or its task takes a step.
LEMMA GoesKnows ==
  ASSUME PInv, NEW r \in Requests, Goes(r)
  PROVE  PlainKnown'
<1> USE DEF PInv
<1>1. \A q \in Requests \ {r} :
        job'[q] = job[q] /\ tpc'[q] = tpc[q] /\ remote'[q] = remote[q] /\ Begun(q)' = Begun(q)
  BY OthersWait DEF Begun
<1>2. \A q \in Requests \ {r} : Begun(q)' => KnowsPlain(q)'
  <2> SUFFICES ASSUME NEW q \in Requests \ {r}, Begun(q)
               PROVE  KnowsPlain(q)'
    BY <1>1
  <2> QED
    BY <1>1, OthersKnow DEF PlainKnown
<1>3. /\ \A g \in FileSystems : Plain(g) => Plain(g)'
      /\ \A g \in FileSystems : row'[g].state # "absent" => row[g].state # "absent"
  <2>1. \A g \in FileSystems : Plain(g) => Plain(g)'
    BY PlainStays
  <2>2. row[On(r)].state # "absent"
    BY StagesAfter DEF OneShareComes
  <2>3. \A g \in FileSystems : row'[g].state # "absent" => row[g].state # "absent"
    BY <2>2, RowsStay
  <2> QED
    BY <2>1, <2>3
<1>4. \A g \in FileSystems : row'[g].state # "absent" /\ ~conf'[g].replica => Plain(g)'
  BY <1>3, ConfTells
<1>5. \A g \in Old : row'[g].state # "absent" => Plain(g)'
  BY <1>3, ConstantsAssumption DEF PlainKnown
<1>6. Begun(r) /\ KnowsPlain(r)
  BY StagesAfter DEF OneShareComes, PlainKnown
<1>7. PICK f \in FileSystems : f = On(r)
  BY PartsTyped
<1>8. On(r)' = f /\ Op(r)' = Op(r) /\ job'[r].want = job[r].want
  BY <1>7, JobStays
<1>9. /\ Plain(f)' <=> Plain(On(r))'
      /\ NoReplicaComes(f)' <=> NoReplicaComes(On(r))'
      /\ PlainShare(row[f].share)' <=> PlainShare(row[On(r)].share)'
      /\ HasUuid(On(r))' <=> row'[f].share # NoShare
  BY <1>8 DEF HasUuid
<1>10. ~job'[r].conf.replica \/ ~job'[r].want.replica => Plain(f)
  <2>1. CASE job'[r].conf = job[r].conf
    BY <1>6, <1>7, <1>8, <2>1 DEF KnowsPlain
  <2>2. CASE job'[r].conf = conf[On(r)] /\ Visible(On(r))
    BY <1>6, <1>7, <1>8, <2>2 DEF KnowsPlain, PlainKnown, Visible
  <2> QED
    BY <2>1, <2>2, JobStays
<1>11. Op(r) \in {"resize", "compliance"}
         => Plain(f) /\ (remote'[r] # "none" => PlainShare(job[r].share)')
  <2> SUFFICES ASSUME Op(r) \in {"resize", "compliance"}
               PROVE  Plain(f) /\ (remote'[r] # "none" => PlainShare(job[r].share)')
    OBVIOUS
  <2>1. Plain(f) /\ (remote[r] # "none" => PlainShare(job[r].share))
    BY <1>6, <1>7 DEF KnowsPlain
  <2>2. ~AskShare(r)
    BY WhoMakes
  <2>3. \A s \in Shares : PlainShare(s) => PlainShare(s)'
    BY PlainShareStays
  <2>4. CASE AskChange(r)
    <3>1. job'[r].share = row[f].share
      BY <1>7, <2>4, PartsTyped DEF AskChange, Holds, Jobs
    <3>2. row[f].share # NoShare
      <4>1. Step(r) \notin {"create", "mount"}
        BY <2>4 DEF AskChange, Makes
      <4> QED
        BY <1>7, <2>4, <4>1 DEF AskChange, CanAsk, Known, HasUuid
    <3>3. PlainShare(row[f].share)
      BY <2>1, <3>2 DEF Plain, HasUuid
    <3>4. PICK s \in Shares : s = row[f].share
      BY <3>3 DEF PlainShare
    <3>5. PlainShare(s)'
      BY <2>3, <3>3, <3>4
    <3>6. PlainShare(s)' <=> PlainShare(job[r].share)'
      BY <3>1, <3>4
    <3> QED
      BY <2>1, <3>5, <3>6
  <2>5. CASE ~AskChange(r)
    <3>1. job'[r].share = job[r].share /\ (remote'[r] # "none" => remote[r] # "none")
      BY <2>2, <2>5, JobStays, StagesAfter
    <3> SUFFICES ASSUME remote[r] # "none" PROVE PlainShare(job[r].share)'
      BY <2>1, <3>1
    <3>2. PICK s \in Shares : s = job[r].share
      BY <2>1 DEF PlainShare
    <3>3. PlainShare(s)'
      BY <2>1, <2>3, <3>2
    <3>4. PlainShare(s)' <=> PlainShare(job[r].share)'
      BY <3>1, <3>2
    <3> QED
      BY <3>3, <3>4
  <2> QED
    BY <2>4, <2>5
<1>12. Op(r) = "unlink"
         => /\ NoReplicaComes(f)'
            /\ tpc'[r] = "wait" /\ row'[f].share # NoShare
                 => row'[f].share = job'[r].share \/ PlainShare(row[f].share)'
            /\ Unlinked(r)' => Plain(f)'
  <2> SUFFICES ASSUME Op(r) = "unlink"
               PROVE  /\ NoReplicaComes(f)'
                      /\ tpc'[r] = "wait" /\ row'[f].share # NoShare
                           => row'[f].share = job'[r].share \/ PlainShare(row[f].share)'
                      /\ Unlinked(r)' => Plain(f)'
    OBVIOUS
  <2>1. NoReplicaComes(f)
    BY <1>6, <1>7 DEF KnowsPlain
  <2>2. NoReplicaComes(f)'
    BY <2>1, NoReplicaStays
  <2> QED
    BY <1>6, <1>7, <2>2, UnlinkingKnows
<1>13. KnowsPlain(r)'
  BY <1>3, <1>8, <1>9, <1>10, <1>11, <1>12 DEF KnowsPlain
<1> QED
  BY <1>2, <1>4, <1>5, <1>13 DEF PlainKnown

\* What every request knows of replicas is an invariant.
LEMMA PInvStep == "mount" \in Alone => (PInv /\ [Next]_vars => PInv')
<1> SUFFICES ASSUME "mount" \in Alone, PInv, [Next]_vars PROVE PInv'
  OBVIOUS
<1>1. TInv'
  BY TInvStep DEF PInv
<1>2. CASE UNCHANGED vars
  BY <1>1, <1>2
     DEF vars, PInv, OneShareComes, PlainKnown, KnowsPlain, Plain, NoReplicaComes, PlainShare, Coming,
         HasUuid, Begun, Busy, Unlinked, StepsFit, Op, On, Step
<1>3. CASE Next
  <2>1. PICK r \in Requests : Client(r) \/ Goes(r)
    BY <1>3 DEF Next, Goes
  <2>2. CASE Client(r)
    BY <1>1, <2>2, ClientKnows DEF PInv
  <2>3. CASE Goes(r)
    BY <1>1, <2>3, OneShareStays, GoesKnows DEF PInv
  <2> QED
    BY <2>1, <2>2, <2>3
<1> QED
  BY <1>2, <1>3

\* No replica is resized or made compliant, though the checks read the
\* configuration, another task may take the source away meanwhile, and tasks of
\* the resource service run on when nobody waits for them: if a mount target is
\* asked for only when nothing else goes on about its file system.
THEOREM ReplicasStay == "mount" \in Alone => (Spec => ReplicaUntouched)
<1> SUFFICES ASSUME "mount" \in Alone PROVE Spec => ReplicaUntouched
  OBVIOUS
<1> DEFINE Kept(s) == share[s].state = "live" /\ share[s].replica /\ share'[s].replica
                        => share'[s].size = share[s].size /\ share'[s].compliance = share[s].compliance
<1>1. PInv /\ [Next]_vars => \A s \in Shares : Kept(s)
  <2> SUFFICES ASSUME PInv, [Next]_vars, NEW s \in Shares
               PROVE  Kept(s)
    OBVIOUS
  <2>1. CASE share' = share
    BY <2>1
  <2>2. CASE Next /\ share' # share
    <3>1. PICK r \in Requests : Client(r) \/ Goes(r)
      BY <2>2 DEF Next, Goes
    <3>2. /\ share \in [Shares -> ShareRec] /\ share[s] \in ShareRec
          /\ TInv /\ OneShareComes /\ PlainKnown
      BY PartsTyped DEF PInv
    <3>3. AskShare(r) \/ RemoteServes(r) \/ RemoteFails(r)
      <4>1. Goes(r)
        BY <2>2, <3>1, <3>2, ClientKeeps
      <4> QED
        BY <2>2, <4>1
           DEF Goes, Serving, Working, Remote, BeginUpdate, BeginAction, Dispatch, DispatchFails,
               WriteSize, StepBegins, AskChange, AskFails, RemoteAnswers, WaitFails, StepWrites,
               StepEnds, TaskFails
    <3>4. CASE AskShare(r)
      BY <3>2, <3>4, WhoMakes
    <3>5. CASE RemoteServes(r)
      <4>1. share' = [share EXCEPT ![job[r].share] = Served(r)] /\ remote[r] = "running"
        BY <3>5 DEF RemoteServes
      <4>2. Begun(r)
        BY <3>2, <4>1 DEF OneShareComes
      <4>3. CASE Op(r) \in {"resize", "compliance"}
        <5>1. PlainShare(job[r].share)
          BY <3>2, <4>1, <4>2, <4>3 DEF PlainKnown, KnowsPlain
        <5> QED
          BY <3>2, <4>1, <5>1 DEF PlainShare
      <4>4. CASE Op(r) \notin {"resize", "compliance"}
        <5>1. job[r].share = s =>
                Served(r).size = share[s].size /\ Served(r).compliance = share[s].compliance
          BY <3>2, <4>4 DEF Served, ShareRec
        <5> QED
          BY <3>2, <4>1, <5>1
      <4> QED
        BY <4>3, <4>4
    <3>6. CASE RemoteFails(r)
      BY <3>2, <3>6 DEF RemoteFails, ShareRec
    <3> QED
      BY <3>3, <3>4, <3>5, <3>6
  <2> QED
    BY <2>1, <2>2 DEF vars
<1>2. Init => PInv
  BY InitPInv
<1>3. PInv /\ [Next]_vars => PInv'
  BY PInvStep
<1>4. [][\A s \in Shares : Kept(s)]_vars => ReplicaUntouched
  BY PTL DEF ReplicaUntouched
<1> QED
  BY <1>1, <1>2, <1>3, PTL DEF Spec, ReplicaUntouched
============================================================================
