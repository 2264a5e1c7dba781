---------------------- MODULE FileSystem_share_proofs ----------------------
(* Theorems about FileSystem: no share is lost, and what is kept both in the  *)
(* configuration and in the share agrees, whatever requests follow each other *)
(* and whichever of their calls fail.                                        *)
(*                                                                           *)
(* Each of them is about requests beside each other, and names the operations *)
(* that have to have their file system for themselves. The code gives that to *)
(* none: the theorems say what it takes.                                     *)
EXTENDS FileSystem_proofs

----------------------------------------------------------------------------
(* Requests beside each other. What each theorem below rests on: the steps a  *)
(* task has left, which requests go together, and whose share is whose.       *)

\* What may be left of the steps of an operation.
StepsLeft(op) ==
  {<<>>} \cup
    (CASE op = "compliance" ->
            {<<"manage", "compliance", "rpo">>, <<"manage", "compliance", "rpo", "rpo">>,
             <<"compliance", "rpo">>, <<"compliance", "rpo", "rpo">>,
             <<"rpo">>, <<"rpo", "rpo">>}
       [] op = "unlink" -> {<<"replica", "rename">>, <<"rename">>}
       [] op = "rpo"    -> {<<"replica", "rpo">>, <<"rpo">>}
       [] op = "drop"   -> {<<"grant", "drop">>, <<"drop">>}
       [] op = "suspend" -> {<<"replica">>}
       [] op \in {"resize", "touch"} -> {<<"update">>}
       [] OTHER -> {<<op>>})

\* Operations about a file system that has a share.
UsesShare == {"unmount", "resize", "touch", "grant", "manage", "compliance",
              "unlink", "suspend", "rpo"}

\* The tasks do their steps in order.
StepsInOrder ==
  \A r \in Requests :
    /\ ~Begun(r) => Op(r) = "touch"
    /\ Begun(r) => Op(r) \in Operations /\ job[r].steps \in StepsLeft(Op(r))
    /\ tpc[r] \in {"ask", "wait"} => AsksService(r)
    /\ remote[r] \in {"running", "success"} => tpc[r] \in {"wait", "failing", "failed"}

\* What is done alone has its file system for itself, and nobody uses a share
\* that has not come.
OneAtATime ==
  /\ \A q, r \in Requests :
       q # r /\ Op(q) \in Alone /\ Busy(q) /\ Busy(r) => On(q) # On(r)
  /\ \A q, r \in Requests :
       Coming(r) /\ Begun(q) /\ Op(q) \in UsesShare => On(q) # On(r)

\* A share belongs to one file system, and so do the tasks that change it.
OwnShare ==
  /\ \A f \in FileSystems : HasUuid(f) => share[row[f].share].state # "free"
  /\ \A r \in Requests : job[r].share # NoShare => share[job[r].share].state # "free"
  /\ \A f, g \in FileSystems : HasUuid(f) /\ row[f].share = row[g].share => f = g
  /\ \A f \in FileSystems, r \in Requests :
       HasUuid(f) /\ row[f].share = job[r].share => On(r) = f

BInv == PInv /\ StepsInOrder /\ OneAtATime /\ OwnShare

\* What a client asks about a file system that is there.
AskedFor(r, j) ==
  /\ j.on \in FileSystems /\ Visible(j.on)
  /\ j.op \in Operations \ {"create"}
  /\ MayAsk(r, j.on, j.op)
  /\ j.steps \in StepsLeft(j.op)
  /\ j.share = NoShare
  /\ j.conf = conf[j.on]
  /\ j.op # "resize" => j.want.size = conf[j.on].size
  /\ j.op # "compliance" => j.want.compliance = conf[j.on].compliance
  /\ j.op = "resize" => (j.extend <=> j.want.size > conf[j.on].size)
  /\ j.op \in UsesShare => HasUuid(j.on)
  /\ j.op \in {"mount", "delete"} => FALSE \in Found(j.on)
  /\ j.op = "delete" => row[j.on].status \in Settled
  /\ j.op = "compliance" => j.steps # <<>> /\ Head(j.steps) = "manage"
  /\ j.op = "drop" /\ ~j.has => ~HasUuid(j.on)

\* A task takes its steps one after the other.
LEMMA OneStepLess ==
  ASSUME NEW op, NEW q \in StepsLeft(op), q # <<>>
  PROVE  /\ Tail(q) \in StepsLeft(op)
         /\ Len(q) = 1 => Tail(q) = <<>>
         /\ Len(q) # 1 => Tail(q) # <<>>
<1>1. /\ Len(<<>>) = 0
      /\ \A x : Tail(<<x>>) = <<>> /\ Len(<<x>>) = 1
      /\ \A x, y : Tail(<<x, y>>) = <<y>> /\ Len(<<x, y>>) = 2
      /\ \A x, y, z : Tail(<<x, y, z>>) = <<y, z>> /\ Len(<<x, y, z>>) = 3
      /\ \A x, y, z, t : Tail(<<x, y, z, t>>) = <<y, z, t>> /\ Len(<<x, y, z, t>>) = 4
  OBVIOUS
<1>2. CASE \E x : q = <<x>>
  <2>1. Tail(q) = <<>> /\ Len(q) = 1
    BY <1>1, <1>2
  <2> QED
    BY <2>1 DEF StepsLeft
<1>3. CASE \E x, y : q = <<x, y>>
  <2>1. PICK x, y : q = <<x, y>>
    BY <1>3
  <2>2. Tail(q) = <<y>> /\ Len(q) # 1 /\ Len(<<y>>) # Len(<<>>)
    BY <1>1, <2>1
  <2>3. <<y>> \in StepsLeft(op)
    BY <2>1 DEF StepsLeft
  <2> QED
    BY <2>2, <2>3
<1>4. CASE q \in {<<"manage", "compliance", "rpo">>, <<"manage", "compliance", "rpo", "rpo">>,
                  <<"compliance", "rpo", "rpo">>}
  <2>1. op = "compliance"
    BY <1>4 DEF StepsLeft
  <2>0. /\ Tail(<<"manage", "compliance", "rpo">>) = <<"compliance", "rpo">>
        /\ Tail(<<"manage", "compliance", "rpo", "rpo">>) = <<"compliance", "rpo", "rpo">>
        /\ Tail(<<"compliance", "rpo", "rpo">>) = <<"rpo", "rpo">>
    OBVIOUS
  <2>2. Tail(q) \in {<<"compliance", "rpo">>, <<"compliance", "rpo", "rpo">>, <<"rpo", "rpo">>}
    BY <1>4, <2>0
  <2>3. Len(q) # 1 /\ Len(Tail(q)) # 0
    BY <1>1, <1>4
  <2>4. Len(Tail(q)) # Len(<<>>)
    BY <1>1, <2>3
  <2> QED
    BY <2>1, <2>2, <2>3, <2>4 DEF StepsLeft
<1> QED
  BY <1>2, <1>3, <1>4 DEF StepsLeft

\* The operations a step belongs to, and the last steps.
LEMMA StepBelongs ==
  ASSUME NEW op \in Operations, NEW q \in StepsLeft(op), q # <<>>
  PROVE  LET s == Head(q)
         IN /\ s \in StepNames
            /\ s = "create" <=> op = "create"
            /\ s = "mount" <=> op = "mount"
            /\ s = "unmount" <=> op = "unmount"
            /\ s = "delete" <=> op = "delete"
            /\ s = "update" <=> op \in {"resize", "touch"}
            /\ s = "drop" => op = "drop"
            /\ s = "rename" => op = "unlink"
            /\ s = "compliance" => op = "compliance"
            /\ op = "compliance" => s \in {"manage", "compliance", "rpo"}
            /\ op = "compliance" /\ s = "manage" => Head(Tail(q)) = "compliance" /\ Len(q) # 1
            /\ op = "compliance" /\ s # "manage" => Tail(q) = <<>> \/ Head(Tail(q)) = "rpo"
            /\ op = "drop" => s \in {"grant", "drop"}
            /\ op \in {"create", "mount", "unmount", "delete", "resize", "touch"} => Len(q) = 1
            /\ s \in {"drop", "delete"} => Len(q) = 1
<1>1. CASE op = "compliance"
  <2>1. q \in {<<"manage", "compliance", "rpo">>, <<"manage", "compliance", "rpo", "rpo">>,
               <<"compliance", "rpo">>, <<"compliance", "rpo", "rpo">>, <<"rpo">>, <<"rpo", "rpo">>}
    BY <1>1 DEF StepsLeft
  <2>2. CASE q \in {<<"manage", "compliance", "rpo">>, <<"manage", "compliance", "rpo", "rpo">>}
    <3>1. Head(q) = "manage" /\ Head(Tail(q)) = "compliance" /\ Len(q) # 1
      BY <2>2
    <3> QED
      BY <1>1, <3>1 DEF StepNames
  <2>3. CASE q \in {<<"compliance", "rpo">>, <<"compliance", "rpo", "rpo">>}
    <3>1. Head(q) = "compliance" /\ Head(Tail(q)) = "rpo"
      BY <2>3
    <3> QED
      BY <1>1, <3>1 DEF StepNames
  <2>4. CASE q \in {<<"rpo">>, <<"rpo", "rpo">>}
    <3>1. Head(q) = "rpo" /\ (Tail(q) = <<>> \/ Head(Tail(q)) = "rpo")
      BY <2>4
    <3> QED
      BY <1>1, <3>1 DEF StepNames
  <2> QED
    BY <2>1, <2>2, <2>3, <2>4
<1>2. CASE op = "unlink"
  BY <1>2 DEF StepsLeft, StepNames
<1>3. CASE op = "rpo"
  BY <1>3 DEF StepsLeft, StepNames
<1>4. CASE op = "drop"
  BY <1>4 DEF StepsLeft, StepNames
<1>5. CASE op = "suspend"
  BY <1>5 DEF StepsLeft, StepNames
<1>6. CASE op \in {"resize", "touch"}
  BY <1>6 DEF StepsLeft, StepNames
<1>7. CASE op \in {"create", "mount", "unmount", "grant", "manage", "delete"}
  <2>1. q = <<op>>
    BY <1>7 DEF StepsLeft
  <2>2. Head(q) = op /\ Len(q) = 1
    BY <2>1
  <2> QED
    BY <1>7, <2>2 DEF StepNames
<1> QED
  BY <1>1, <1>2, <1>3, <1>4, <1>5, <1>6, <1>7 DEF Operations

\* The other parts of a new job.
LEMMA JobRest ==
  ASSUME NEW op, NEW f, NEW c, NEW w, NEW steps
  PROVE  LET j == Job(op, f, c, w, steps)
         IN /\ j.share = NoShare /\ j.has
            /\ \A b : LET k == [j EXCEPT !.extend = b] IN k.share = NoShare /\ k.extend = b
            /\ \A b : LET k == [j EXCEPT !.has = b] IN k.share = NoShare /\ k.has = b
            /\ \A s, b : LET k == [j EXCEPT !.source = s, !.has = b] IN k.share = NoShare /\ k.has = b
BY DEF Job

\* A client makes a new file system, or asks for what may be asked.
LEMMA ClientAsks ==
  ASSUME TInv, NEW r \in Requests, Client(r)
  PROVE  \/ \E f \in FileSystems, c \in Configs, s \in Shares \cup {NoShare} :
              Adds(r, f, c, s) /\ row[f].state = "absent"
         \/ \E j : Asks(r, j) /\ AskedFor(r, j)
<1>1. PICK f \in FileSystems :
        \/ Create(r, f) \/ \E g \in FileSystems : CreateReplica(r, f, g)
        \/ CreateMountTarget(r, f) \/ DeleteMountTarget(r, f)
        \/ Resize(r, f) \/ Touch(r, f) \/ ManageGrant(r, f) \/ Manage(r, f)
        \/ UpdateCompliance(r, f) \/ ManageReplica(r, f)
        \/ DeleteShare(r, f) \/ Delete(r, f)
  BY DEF Client
<1>2. conf \in [FileSystems -> Configs] /\ conf[f] \in Configs
  BY DEF TInv, TypeOK
<1>3. ASSUME NEW op \in Operations \ {"create", "resize", "compliance", "drop"},
             NEW steps \in StepsLeft(op), Asking(r, op, f, steps), Visible(f), MayAsk(r, f, op),
             op \in UsesShare => HasUuid(f),
             op \in {"mount", "delete"} => FALSE \in Found(f),
             op = "delete" => row[f].status \in Settled
      PROVE  \E j : Asks(r, j) /\ AskedFor(r, j)
  <2> DEFINE j == Job(op, f, conf[f], conf[f], steps)
  <2>1. /\ j.op = op /\ j.on = f /\ j.conf = conf[f] /\ j.want = conf[f] /\ j.steps = steps
        /\ j.share = NoShare
    BY JobFields, JobRest
  <2>2. Asks(r, j)
    BY <1>3 DEF Asking
  <2> HIDE DEF j
  <2>3. AskedFor(r, j)
    BY <1>3, <2>1 DEF AskedFor
  <2> QED
    BY <2>2, <2>3
<1>4. CASE Create(r, f)
  BY <1>4 DEF Create
<1>5. CASE \E g \in FileSystems : CreateReplica(r, f, g)
  <2>1. PICK g \in FileSystems : CreateReplica(r, f, g)
    BY <1>5
  <2>2. conf[g] \in Configs /\ row[g].share \in Shares \cup {NoShare}
    BY DEF TInv, TypeOK
  <2>3. [conf[g] EXCEPT !.compliance = FALSE, !.replica = TRUE] \in Configs
    BY <2>2 DEF Configs
  <2> QED
    BY <2>1, <2>2, <2>3 DEF CreateReplica
<1>6. CASE CreateMountTarget(r, f)
  <2>1. <<"mount">> \in StepsLeft("mount") /\ "mount" \in Operations /\ "mount" \notin UsesShare
    BY DEF StepsLeft, Operations, UsesShare
  <2> QED
    BY <1>3, <1>6, <2>1 DEF CreateMountTarget
<1>7. CASE DeleteMountTarget(r, f)
  <2>1. <<"unmount">> \in StepsLeft("unmount") /\ "unmount" \in Operations
    BY DEF StepsLeft, Operations
  <2> QED
    BY <1>3, <1>7, <2>1 DEF DeleteMountTarget, Known
<1>8. CASE Resize(r, f)
  <2>1. PICK n \in Sizes :
          Asks(r, [Job("resize", f, conf[f], [conf[f] EXCEPT !.size = n], <<"update">>) EXCEPT
                     !.extend = n > conf[f].size])
    BY <1>8 DEF Resize
  <2> DEFINE w == [conf[f] EXCEPT !.size = n]
  <2> DEFINE b == n > conf[f].size
  <2> DEFINE j == [Job("resize", f, conf[f], w, <<"update">>) EXCEPT !.extend = b]
  <2>2. w.size = n /\ w.compliance = conf[f].compliance
    BY <1>2 DEF Configs
  <2>3. <<"update">> \in StepsLeft("resize") /\ "resize" \in Operations
    BY DEF StepsLeft, Operations
  <2>4. /\ j.op = "resize" /\ j.on = f /\ j.conf = conf[f] /\ j.want = w /\ j.steps = <<"update">>
        /\ j.share = NoShare /\ j.extend = b
    <3> HIDE DEF w, b
    <3> QED
      BY JobFields, JobRest
  <2>5. Asks(r, j)
    BY <2>1
  <2>6. j.extend <=> w.size > conf[f].size
    BY <2>2, <2>4
  <2> HIDE DEF j, w, b
  <2>7. AskedFor(r, j)
    BY <1>8, <2>2, <2>3, <2>4, <2>6 DEF AskedFor, Resize, MayChange
  <2> QED
    BY <2>5, <2>7
<1>9. CASE Touch(r, f)
  <2>1. <<"update">> \in StepsLeft("touch") /\ "touch" \in Operations
    BY DEF StepsLeft, Operations
  <2> QED
    BY <1>3, <1>9, <2>1 DEF Touch, MayChange
<1>10. CASE ManageGrant(r, f)
  <2>1. <<"grant">> \in StepsLeft("grant") /\ "grant" \in Operations
    BY DEF StepsLeft, Operations
  <2> QED
    BY <1>3, <1>10, <2>1 DEF ManageGrant
<1>11. CASE Manage(r, f)
  <2>1. <<"manage">> \in StepsLeft("manage") /\ "manage" \in Operations
    BY DEF StepsLeft, Operations
  <2> QED
    BY <1>3, <1>11, <2>1 DEF Manage
<1>12. CASE UpdateCompliance(r, f)
  <2> DEFINE on == ~conf[f].compliance
  <2> DEFINE w == [conf[f] EXCEPT !.compliance = on]
  <2> DEFINE j == Job("compliance", f, conf[f], w, ComplianceSteps(on))
  <2>1. w.size = conf[f].size
    BY <1>2 DEF Configs
  <2>2. /\ ComplianceSteps(on) \in StepsLeft("compliance") /\ "compliance" \in Operations
        /\ ComplianceSteps(on) # <<>> /\ Head(ComplianceSteps(on)) = "manage"
    BY DEF ComplianceSteps, StepsLeft, Operations
  <2>3. Asks(r, j)
    BY <1>12 DEF UpdateCompliance
  <2>4. /\ j.op = "compliance" /\ j.on = f /\ j.conf = conf[f] /\ j.want = w
        /\ j.steps = ComplianceSteps(on) /\ j.share = NoShare
    <3> HIDE DEF w, on
    <3> QED
      BY JobFields, JobRest
  <2> HIDE DEF j, w, on
  <2>5. AskedFor(r, j)
    BY <1>12, <2>1, <2>2, <2>4 DEF AskedFor, UpdateCompliance
  <2> QED
    BY <2>3, <2>5
<1>13. CASE ManageReplica(r, f)
  <2>1. PICK op \in {"unlink", "suspend", "rpo"} :
          MayAsk(r, f, op) /\ Asking(r, op, f, ReplicaSteps(op))
    BY <1>13 DEF ManageReplica
  <2>2. Visible(f) /\ HasUuid(f)
    BY <1>13 DEF ManageReplica
  <2>3. ReplicaSteps(op) \in StepsLeft(op) /\ op \in Operations
    BY DEF ReplicaSteps, StepsLeft, Operations
  <2> QED
    BY <1>3, <2>1, <2>2, <2>3
<1>14. CASE DeleteShare(r, f)
  <2> DEFINE steps == IF f \in Old THEN <<"grant", "drop">> ELSE <<"drop">>
  <2> DEFINE b == HasUuid(f)
  <2> DEFINE j == [Job("drop", f, conf[f], conf[f], steps) EXCEPT !.has = b]
  <2>1. steps \in StepsLeft("drop") /\ "drop" \in Operations /\ "drop" \notin UsesShare
    BY DEF StepsLeft, Operations, UsesShare
  <2>2. Asks(r, j)
    BY <1>14 DEF DeleteShare
  <2> HIDE DEF steps, b
  <2>3. /\ j.op = "drop" /\ j.on = f /\ j.conf = conf[f] /\ j.want = conf[f] /\ j.steps = steps
        /\ j.share = NoShare /\ j.has = b
    BY JobFields, JobRest
  <2> HIDE DEF j
  <2>4. AskedFor(r, j)
    BY <1>14, <2>1, <2>3 DEF AskedFor, DeleteShare, b
  <2> QED
    BY <2>2, <2>4
<1>15. CASE Delete(r, f)
  <2>1. <<"delete">> \in StepsLeft("delete") /\ "delete" \in Operations /\ "delete" \notin UsesShare
    BY DEF StepsLeft, Operations, UsesShare
  <2> QED
    BY <1>3, <1>15, <2>1 DEF Delete, MayChange
<1> QED
  BY <1>1, <1>4, <1>5, <1>6, <1>7, <1>8, <1>9, <1>10, <1>11, <1>12, <1>13, <1>14, <1>15

\* What a step leaves of the rest of a job.
LEMMA JobRestStays ==
  ASSUME TInv, NEW r \in Requests, Goes(r)
  PROVE  /\ job'[r].extend = job[r].extend
         /\ Dispatch(r) \/ job'[r].has = job[r].has
         /\ StepBegins(r) \/ job'[r].conf = job[r].conf
         /\ AskShare(r) => job'[r].share = FreeShare
         /\ AskChange(r) => job'[r].share = row[On(r)].share
<1>1. job \in [Requests -> Jobs] /\ job[r] \in Jobs
  BY DEF TInv, TypeOK
<1>2. CASE job' = job /\ ~AskShare(r) /\ ~AskChange(r)
  BY <1>2
<1>3. CASE Dispatch(r)
  <2>1. PICK b : job' = [job EXCEPT ![r] = [job[r] EXCEPT !.has = b]]
    BY <1>3 DEF Dispatch, Holds
  <2>2. tpc'[r] # "wait" /\ ~AskShare(r) /\ ~AskChange(r)
    BY <1>3, PartsTyped DEF Dispatch, AskShare, AskChange, TaskGoes, StageOK
  <2> QED
    BY <1>1, <1>3, <2>1, <2>2 DEF Jobs
<1>4. CASE StepBegins(r)
  <2>1. ~AskShare(r) /\ ~AskChange(r)
    BY <1>4 DEF StepBegins, AskShare, AskChange
  <2> QED
    BY <1>1, <1>4, <2>1 DEF StepBegins, Holds, Jobs
<1>5. CASE AskShare(r)
  <2>1. ~AskChange(r)
    BY <1>5 DEF AskShare, AskChange
  <2> QED
    BY <1>1, <1>5, <2>1 DEF AskShare, Holds, Jobs
<1>6. CASE AskChange(r)
  <2>1. ~AskShare(r)
    BY <1>6 DEF AskShare, AskChange
  <2> QED
    BY <1>1, <1>6, <2>1 DEF AskChange, Holds, Jobs
<1>7. CASE StepEnds(r)
  <2>1. ~AskShare(r) /\ ~AskChange(r)
    BY <1>7 DEF StepEnds, AskShare, AskChange
  <2> QED
    BY <1>1, <1>7, <2>1 DEF StepEnds, Holds, Jobs
<1>8. \/ job' = job \/ Dispatch(r) \/ StepBegins(r) \/ AskShare(r) \/ AskChange(r) \/ StepEnds(r)
  BY DEF Goes, Serving, Working, Remote, BeginUpdate, BeginAction, DispatchFails, WriteSize,
         AskFails, RemoteAnswers, WaitFails, StepWrites, TaskFails, RemoteServes, RemoteFails
<1> QED
  BY <1>2, <1>3, <1>4, <1>5, <1>6, <1>7, <1>8

\* What a step leaves of the shares.
LEMMA SharesStay ==
  ASSUME TInv, NEW r \in Requests, Client(r) \/ Goes(r), NEW s \in Shares
  PROVE  /\ share[s].state # "free" => share'[s].state # "free"
         /\ \/ share'[s] = share[s]
            \/ AskShare(r) /\ s = FreeShare
            \/ /\ RemoteServes(r) \/ RemoteFails(r)
               /\ s = job[r].share
<1>1. share \in [Shares -> ShareRec] /\ share[s] \in ShareRec
  BY PartsTyped
<1>2. CASE Client(r)
  BY <1>2, ClientEffect DEF ClientWell, Adds, Asks
<1>3. CASE AskShare(r)
  <2>1. share' = [share EXCEPT ![FreeShare] = NewShare("building", Made(r))]
    BY <1>3 DEF AskShare
  <2>2. NewShare("building", Made(r)).state # "free"
    BY DEF NewShare
  <2> QED
    BY <1>1, <1>3, <2>1, <2>2
<1>4. CASE RemoteServes(r)
  <2>1. share' = [share EXCEPT ![job[r].share] = Served(r)]
    BY <1>4 DEF RemoteServes
  <2>2. job[r].share = s => (share[s].state # "free" => Served(r).state # "free")
    BY <1>1 DEF Served, ShareRec
  <2> QED
    BY <1>1, <1>4, <2>1, <2>2
<1>5. CASE RemoteFails(r)
  BY <1>1, <1>5 DEF RemoteFails, ShareRec
<1>6. CASE share' = share
  BY <1>6
<1> QED
  BY <1>2, <1>3, <1>4, <1>5, <1>6
     DEF Goes, Serving, Working, Remote, BeginUpdate, BeginAction, Dispatch, DispatchFails, WriteSize,
         StepBegins, AskChange, AskFails, RemoteAnswers, WaitFails, StepWrites, StepEnds, TaskFails

\* A request that takes a step has begun.
LEMMA GoesBegun ==
  ASSUME TInv, OneShareComes, NEW r \in Requests, Goes(r)
  PROVE  Begun(r) /\ Begun(r)'
BY StagesAfter DEF OneShareComes

\* Who is busy has begun.
LEMMA BusyBegun ==
  ASSUME TInv
  PROVE  \A q \in Requests : /\ Busy(q) => Begun(q)
                             /\ Coming(q) => Busy(q) /\ Begun(q)
BY DEF TInv, StageOK, Busy, Begun, Coming

\* The tasks do their steps in order.
LEMMA StepsInOrderStay ==
  ASSUME TInv, OneShareComes, StepsInOrder, NEW r \in Requests, Goes(r)
  PROVE  StepsInOrder'
<1>1. /\ job \in [Requests -> Jobs] /\ job[r] \in Jobs /\ StageOK(r)
      /\ tpc \in [Requests -> TaskStages] /\ remote \in [Requests -> RemoteStages]
  BY PartsTyped
<1>2. \A q \in Requests \ {r} :
        rpc'[q] = rpc[q] /\ tpc'[q] = tpc[q] /\ remote'[q] = remote[q] /\ job'[q] = job[q]
  BY OthersWait
<1>3. Op(r)' = Op(r) /\ Begun(r) /\ Begun(r)'
  BY JobStays, GoesBegun
<1>4. job'[r].steps \in StepsLeft(Op(r))
  <2>1. CASE StepEnds(r)
    <3>1. job'[r].steps = Tail(job[r].steps) /\ job[r].steps # <<>>
      BY <1>1, <2>1 DEF StepEnds, Holds, Jobs, StageOK
    <3>2. job[r].steps \in StepsLeft(Op(r))
      BY <1>3 DEF StepsInOrder
    <3> QED
      BY <3>1, <3>2, OneStepLess
  <2>2. CASE job'[r].steps = job[r].steps
    BY <1>3, <2>2 DEF StepsInOrder
  <2> QED
    BY <2>1, <2>2, JobStays
<1>5. CASE Serving(r)
  <2>1. tpc'[r] \in {"ask", "wait"} => tpc[r] \in {"ask", "wait"} /\ job' = job
    BY <1>1, <1>5 DEF Serving, BeginUpdate, BeginAction, Dispatch, DispatchFails, WriteSize,
                      TaskGoes, StageOK
  <2>2. remote' = remote /\ (tpc' = tpc \/ tpc[r] = "none")
    BY <1>1, <1>5 DEF Serving, BeginUpdate, BeginAction, Dispatch, DispatchFails, WriteSize,
                      TaskGoes, StageOK
  <2>3. tpc'[r] \in {"ask", "wait"} => AsksService(r)'
    BY <2>1 DEF StepsInOrder, AsksService, Step, Op
  <2>4. remote'[r] \in {"running", "success"} => tpc'[r] \in {"wait", "failing", "failed"}
    BY <2>2 DEF StepsInOrder
  <2> QED
    BY <1>2, <1>3, <1>4, <2>3, <2>4 DEF StepsInOrder, AsksService, Step, Op, Begun
<1>6. CASE Working(r)
  <2>1. tpc'[r] \in {"ask", "wait"} => AsksService(r)'
    <3>1. CASE StepBegins(r)
      <4>1. tpc'[r] \in {"ask", "wait"} => AsksService(r)
        BY <1>1, <3>1 DEF StepBegins, TaskGoes
      <4>2. job'[r].has = job[r].has /\ job'[r].steps = job[r].steps /\ job'[r].op = job[r].op
        BY <1>1, <3>1 DEF StepBegins, Holds, Jobs
      <4> QED
        BY <4>1, <4>2 DEF AsksService, Step, Op
    <3>2. CASE AskShare(r) \/ AskChange(r)
      <4>1. tpc[r] = "ask" /\ ~StepEnds(r) /\ ~Dispatch(r)
        BY <1>1, <3>2 DEF AskShare, AskChange, StepEnds, Dispatch, StageOK
      <4>2. job'[r].has = job[r].has /\ job'[r].steps = job[r].steps /\ Op(r)' = Op(r)
        BY <4>1, JobStays, JobRestStays
      <4> QED
        BY <4>1, <4>2 DEF StepsInOrder, AsksService, Step, Op
    <3>3. CASE ~StepBegins(r) /\ ~AskShare(r) /\ ~AskChange(r)
      BY <1>1, <1>6, <3>3 DEF Working, AskFails, RemoteAnswers, WaitFails, StepWrites, StepEnds,
                              TaskFails, TaskGoes
    <3> QED
      BY <3>1, <3>2, <3>3
  <2>2. remote'[r] \in {"running", "success"} => tpc'[r] \in {"wait", "failing", "failed"}
    BY <1>1, <1>6 DEF Working, StepBegins, AskShare, AskChange, AskFails, RemoteAnswers, WaitFails,
                      StepWrites, StepEnds, TaskFails, TaskGoes, RemoteGoes, StepsInOrder
  <2> QED
    BY <1>2, <1>3, <1>4, <2>1, <2>2 DEF StepsInOrder, AsksService, Step, Op, Begun
<1>7. CASE Remote(r)
  <2>1. tpc' = tpc /\ job' = job /\ remote[r] = "running"
    BY <1>7 DEF Remote, RemoteServes, RemoteFails
  <2> QED
    BY <1>2, <1>3, <1>4, <2>1 DEF StepsInOrder, AsksService, Step, Op, Begun
<1> QED
  BY <1>5, <1>6, <1>7 DEF Goes

\* What is done alone stays alone.
LEMMA OneAtATimeStays ==
  ASSUME TInv, OneShareComes, OneAtATime, NEW r \in Requests, Goes(r)
  PROVE  OneAtATime'
<1>1. \A q \in Requests \ {r} :
        rpc'[q] = rpc[q] /\ tpc'[q] = tpc[q] /\ remote'[q] = remote[q] /\ job'[q] = job[q]
  BY OthersWait
<1>2. Op(r)' = Op(r) /\ On(r)' = On(r) /\ (Busy(r)' => Busy(r)) /\ Begun(r)
  BY JobStays, StagesAfter, GoesBegun
<1>3. \A q \in Requests : /\ Op(q)' = Op(q) /\ On(q)' = On(q)
                          /\ Busy(q)' => Busy(q)
                          /\ Begun(q)' => Begun(q)
  BY <1>1, <1>2 DEF Op, On, Busy, Begun
<1>4. \A q \in Requests : Coming(q)' => Coming(q)
  BY ComingStays
<1> QED
  BY <1>3, <1>4 DEF OneAtATime

\* A share stays with its file system.
LEMMA OwnShareStays ==
  ASSUME TInv, OneShareComes, OwnShare, NEW r \in Requests, Goes(r)
  PROVE  OwnShare'
<1>1. /\ On(r) \in FileSystems /\ row \in [FileSystems -> RowRec]
      /\ \A q \in Requests : job[q].share \in Shares \cup {NoShare} /\ job'[q].share \in Shares \cup {NoShare}
      /\ \A f \in FileSystems : row[f].share \in Shares \cup {NoShare}
                                  /\ row'[f].share \in Shares \cup {NoShare}
  <2>1. TInv'
    BY TInvStep DEF Next, Goes
  <2> QED
    BY <2>1, PartsTyped DEF TInv, TypeOK, Jobs
<1>2. \A q \in Requests \ {r} :
        rpc'[q] = rpc[q] /\ tpc'[q] = tpc[q] /\ remote'[q] = remote[q] /\ job'[q] = job[q]
  BY OthersWait
<1>3. \A q \in Requests : On(q)' = On(q)
  BY <1>2, JobStays DEF On
<1>4. NoShare \notin Shares
  BY ConstantsAssumption
<1>5. \A s \in Shares : share[s].state # "free" => share'[s].state # "free"
  BY SharesStay
<1>6. \A f \in FileSystems : \/ row'[f].share \in {row[f].share, NoShare}
                             \/ AskShare(r) /\ f = On(r) /\ row'[f].share = FreeShare
  BY RowsStay
<1>7. CASE AskShare(r)
  <2>1. /\ FreeShare \in Shares /\ share[FreeShare].state = "free"
        /\ row'[On(r)].share = FreeShare /\ job'[r].share = FreeShare
        /\ share'[FreeShare].state # "free"
    <3>1. share \in [Shares -> ShareRec]
      BY PartsTyped
    <3> QED
      BY <1>7, <3>1, WhoMakes DEF NewShare
  <2>2. /\ \A f \in FileSystems : row[f].share # FreeShare
        /\ \A q \in Requests : job[q].share # FreeShare
    BY <1>4, <2>1 DEF OwnShare, HasUuid
  <2> QED
    BY <1>1, <1>2, <1>3, <1>4, <1>5, <1>6, <2>1, <2>2 DEF OwnShare, HasUuid
<1>8. CASE AskChange(r)
  <2>1. job'[r].share = row[On(r)].share /\ row' = row /\ share' = share
    BY <1>8, JobRestStays DEF AskChange
  <2> QED
    BY <1>1, <1>2, <1>3, <1>4, <2>1 DEF OwnShare, HasUuid
<1>9. CASE ~AskShare(r) /\ ~AskChange(r)
  <2>1. \A q \in Requests : job'[q].share = job[q].share
    BY <1>2, <1>9, JobStays
  <2> QED
    BY <1>1, <1>3, <1>4, <1>5, <1>6, <1>9, <2>1 DEF OwnShare, HasUuid
<1> QED
  BY <1>7, <1>8, <1>9

\* A new file system has a request for itself, and no share.
LEMMA AddsBeside ==
  ASSUME "mount" \in Alone, TInv, OneShareComes, StepsInOrder, OneAtATime, OwnShare,
         NEW r \in Requests, Client(r),
         NEW f \in FileSystems, NEW c \in Configs, NEW s \in Shares \cup {NoShare},
         Adds(r, f, c, s), row[f].state = "absent"
  PROVE  /\ StepsInOrder' /\ OneAtATime' /\ OwnShare'
         /\ Coming(r)' /\ \A q \in Requests \ {r} : Begun(q) => On(q) # f
         /\ job'[r].share = NoShare /\ Op(r)' = "create" /\ On(r)' = f
<1>1. /\ rpc \in [Requests -> RequestStages] /\ job \in [Requests -> Jobs]
      /\ \A q \in Requests : On(q) \in FileSystems
      /\ row \in [FileSystems -> RowRec]
  BY PartsTyped
<1>2. /\ Op(r)' = "create" /\ On(r)' = f /\ job'[r].share = NoShare
      /\ job'[r].steps = <<"create">> /\ rpc'[r] = "dispatch"
  BY <1>1, JobFields, JobRest DEF Adds, Holds, RequestGoes, Op, On
<1>3. /\ \A q \in Requests \ {r} : rpc'[q] = rpc[q] /\ job'[q] = job[q]
      /\ Begun(r)' /\ ~Begun(r) /\ tpc' = tpc /\ remote' = remote /\ tpc[r] = "none" /\ share' = share
  BY ClientKeeps
<1>4. /\ \A q \in Requests \ {r} : Begun(q) => On(q) # f
      /\ remote[r] = "none"
  BY <1>1, <1>3 DEF OneShareComes
<1>5. \A g \in FileSystems : row'[g].share = row[g].share
  BY <1>1 DEF Adds, RowRec
<1>6. \A q \in Requests \ {r} :
        /\ Op(q)' = Op(q) /\ On(q)' = On(q) /\ Busy(q)' = Busy(q) /\ Begun(q)' = Begun(q)
        /\ Coming(q)' = Coming(q) /\ AsksService(q)' = AsksService(q)
  BY <1>3 DEF Op, On, Busy, Begun, Coming, AsksService, Step
<1>7. StepsInOrder'
  <2>1. <<"create">> \in StepsLeft("create") /\ "create" \in Operations
    BY DEF StepsLeft, Operations
  <2>2. /\ \A q \in Requests : ~Begun(q)' => Op(q)' = "touch"
        /\ \A q \in Requests : Begun(q)' => Op(q)' \in Operations /\ job'[q].steps \in StepsLeft(Op(q)')
    BY <1>2, <1>3, <1>6, <2>1 DEF StepsInOrder
  <2>3. /\ \A q \in Requests : tpc'[q] \in {"ask", "wait"} => AsksService(q)'
        /\ \A q \in Requests : remote'[q] \in {"running", "success"} => tpc'[q] \in {"wait", "failing", "failed"}
    BY <1>3, <1>4, <1>6 DEF StepsInOrder
  <2> QED
    BY <2>2, <2>3 DEF StepsInOrder
<1>8. OneAtATime'
  <2>1. \A q \in Requests : (Busy(q) => Begun(q)) /\ (Coming(q) => Begun(q))
    BY BusyBegun
  <2>2. "create" \notin UsesShare
    BY DEF UsesShare
  <2> QED
    BY <1>2, <1>4, <1>6, <2>1, <2>2 DEF OneAtATime
<1>9. OwnShare'
  <2>1. \A g \in FileSystems : HasUuid(g)' = HasUuid(g)
    BY <1>5 DEF HasUuid
  <2>2. \A q \in Requests \ {r} : job'[q].share = job[q].share
    BY <1>3
  <2>3. \A g \in FileSystems : HasUuid(g) => row[g].share # NoShare
    BY DEF HasUuid
  <2>4. \A g \in FileSystems, q \in Requests :
          HasUuid(g)' /\ row'[g].share = job'[q].share => On(q)' = g
    BY <1>2, <1>5, <1>6, <2>1, <2>2, <2>3 DEF OwnShare
  <2>5. \A q \in Requests : job'[q].share # NoShare => share'[job'[q].share].state # "free"
    BY <1>2, <1>3, <2>2 DEF OwnShare
  <2>6. /\ \A g \in FileSystems : HasUuid(g)' => share'[row'[g].share].state # "free"
        /\ \A g, h \in FileSystems : HasUuid(g)' /\ row'[g].share = row'[h].share => g = h
    BY <1>3, <1>5, <2>1 DEF OwnShare
  <2> QED
    BY <2>4, <2>5, <2>6 DEF OwnShare
<1> QED
  BY <1>2, <1>4, <1>7, <1>8, <1>9 DEF Coming

\* A request is asked for only beside requests it may go with.
LEMMA AsksBeside ==
  ASSUME "mount" \in Alone, TInv, OneShareComes, StepsInOrder, OneAtATime, OwnShare,
         NEW r \in Requests, Client(r), NEW j, Asks(r, j), AskedFor(r, j)
  PROVE  /\ StepsInOrder' /\ OneAtATime' /\ OwnShare'
         /\ job'[r] = j /\ Op(r)' = j.op /\ On(r)' = j.on
         /\ rpc'[r] = "read" /\ tpc'[r] = "none" /\ remote'[r] = "none"
         /\ \A q \in Requests : Coming(q)' => Coming(q) /\ q # r
         /\ j.op \in Alone => \A q \in Requests : Busy(q) => On(q) # j.on
<1>1. /\ rpc \in [Requests -> RequestStages] /\ job \in [Requests -> Jobs]
      /\ \A q \in Requests : On(q) \in FileSystems
  BY PartsTyped
<1>2. job'[r] = j /\ rpc'[r] = "read" /\ row' = row /\ Op(r)' = j.op /\ On(r)' = j.on
  BY <1>1 DEF Asks, Holds, RequestGoes, Op, On
<1>3. /\ \A q \in Requests \ {r} : rpc'[q] = rpc[q] /\ job'[q] = job[q]
      /\ Begun(r)' /\ ~Begun(r) /\ tpc' = tpc /\ remote' = remote /\ tpc[r] = "none" /\ share' = share
  BY ClientKeeps
<1>4. remote[r] = "none"
  BY <1>3 DEF OneShareComes
<1>5. \A q \in Requests \ {r} :
        /\ Op(q)' = Op(q) /\ On(q)' = On(q) /\ Busy(q)' = Busy(q) /\ Begun(q)' = Begun(q)
        /\ Coming(q)' = Coming(q) /\ AsksService(q)' = AsksService(q)
  BY <1>3 DEF Op, On, Busy, Begun, Coming, AsksService, Step
<1>6. /\ j.on \in FileSystems /\ j.op \in Operations /\ j.op # "create"
      /\ j.steps \in StepsLeft(j.op) /\ j.share = NoShare
      /\ j.op \in UsesShare => HasUuid(j.on)
      /\ \A q \in Requests : On(q) = j.on /\ Busy(q) => j.op \notin Alone /\ Op(q) \notin Alone
  BY DEF AskedFor, MayAsk
<1>7. ~Coming(r)'
  BY <1>2, <1>6 DEF Coming
<1>8. StepsInOrder'
  <2>1. /\ \A q \in Requests : ~Begun(q)' => Op(q)' = "touch"
        /\ \A q \in Requests : Begun(q)' => Op(q)' \in Operations /\ job'[q].steps \in StepsLeft(Op(q)')
    BY <1>2, <1>3, <1>5, <1>6 DEF StepsInOrder
  <2>2. /\ \A q \in Requests : tpc'[q] \in {"ask", "wait"} => AsksService(q)'
        /\ \A q \in Requests : remote'[q] \in {"running", "success"} => tpc'[q] \in {"wait", "failing", "failed"}
    BY <1>3, <1>4, <1>5 DEF StepsInOrder
  <2> QED
    BY <2>1, <2>2 DEF StepsInOrder
<1>9. OneAtATime'
  <2>1. \A q \in Requests : Coming(q) => ~HasUuid(On(q))
    BY DEF OneShareComes
  <2> QED
    BY <1>2, <1>5, <1>6, <1>7, <2>1 DEF OneAtATime
<1>10. OwnShare'
  <2>1. \A q \in Requests \ {r} : job'[q].share = job[q].share
    BY <1>3
  <2>2. \A g \in FileSystems : HasUuid(g)' = HasUuid(g) /\ (HasUuid(g) => row[g].share # NoShare)
    BY <1>2 DEF HasUuid
  <2>3. \A g \in FileSystems, q \in Requests :
          HasUuid(g)' /\ row'[g].share = job'[q].share => On(q)' = g
    BY <1>2, <1>5, <1>6, <2>1, <2>2 DEF OwnShare
  <2>4. \A q \in Requests : job'[q].share # NoShare => share'[job'[q].share].state # "free"
    BY <1>2, <1>3, <1>6, <2>1 DEF OwnShare
  <2> QED
    BY <1>2, <1>3, <2>2, <2>3, <2>4 DEF OwnShare
<1> QED
  BY <1>2, <1>3, <1>4, <1>5, <1>6, <1>7, <1>8, <1>9, <1>10

\* At first nobody is busy, and every share has one file system.
LEMMA InitBInv == Init => BInv
<1> SUFFICES ASSUME Init PROVE BInv
  OBVIOUS
<1>1. PInv
  BY InitPInv
<1>2. \A r \in Requests : ~Begun(r) /\ ~Coming(r) /\ ~Busy(r) /\ tpc[r] = "none" /\ remote[r] = "none"
  BY DEF Init, Begun, Coming, Busy
<1>3. \A r \in Requests : Op(r) = "touch" /\ job[r].share = NoShare
  <2> DEFINE f == CHOOSE f \in FileSystems : TRUE
  <2>1. \A r \in Requests : job[r] = Job("touch", f, FirstConfig(f), FirstConfig(f), <<>>)
    BY DEF Init
  <2> HIDE DEF f
  <2> QED
    BY <2>1 DEF Job, Op
<1>4. \A f \in FileSystems : HasUuid(f) =>
        f \in Existing /\ row[f].share = Share[f] /\ share[Share[f]].state # "free"
  <2> SUFFICES ASSUME NEW f \in FileSystems, HasUuid(f)
               PROVE  f \in Existing /\ row[f].share = Share[f] /\ share[Share[f]].state # "free"
    OBVIOUS
  <2>1. f \in Existing /\ row[f].share = Share[f]
    BY DEF Init, HasUuid
  <2>2. Share[f] \in Shares
    BY <2>1, ConstantsAssumption
  <2>3. share[Share[f]] = NewShare("live", FirstConfig(CHOOSE g \in Existing : Share[g] = Share[f]))
    BY <2>1, <2>2 DEF Init
  <2> QED
    BY <2>1, <2>3 DEF NewShare
<1>5. \A f, g \in FileSystems : HasUuid(f) /\ row[f].share = row[g].share => f = g
  <2> SUFFICES ASSUME NEW f \in FileSystems, NEW g \in FileSystems, HasUuid(f), row[f].share = row[g].share
               PROVE  f = g
    OBVIOUS
  <2>1. HasUuid(g)
    BY DEF HasUuid
  <2> QED
    BY <1>4, <2>1, ConstantsAssumption
<1>6. OwnShare
  BY <1>3, <1>4, <1>5 DEF OwnShare, HasUuid
<1>7. StepsInOrder /\ OneAtATime
  BY <1>2, <1>3 DEF StepsInOrder, OneAtATime
<1> QED
  BY <1>1, <1>6, <1>7 DEF BInv

LEMMA BInvStep == "mount" \in Alone => (BInv /\ [Next]_vars => BInv')
<1> SUFFICES ASSUME "mount" \in Alone, BInv, [Next]_vars PROVE BInv'
  OBVIOUS
<1>1. PInv' /\ TInv /\ OneShareComes
  BY PInvStep DEF BInv, PInv
<1>2. CASE UNCHANGED vars
  <2>1. StepsInOrder' /\ OneAtATime' /\ OwnShare'
    BY <1>2 DEF BInv, vars, StepsInOrder, OneAtATime, OwnShare, Begun, Op, On, Busy, Coming, AsksService,
                Step, HasUuid
  <2> QED
    BY <1>1, <2>1 DEF BInv
<1>3. CASE Next
  <2>1. PICK r \in Requests : Client(r) \/ Goes(r)
    BY <1>3 DEF Next, Goes
  <2>2. CASE Client(r)
    <3>1. CASE \E f \in FileSystems, c \in Configs, s \in Shares \cup {NoShare} :
                 Adds(r, f, c, s) /\ row[f].state = "absent"
      BY <1>1, <2>2, <3>1, AddsBeside DEF BInv
    <3>2. CASE \E j : Asks(r, j) /\ AskedFor(r, j)
      BY <1>1, <2>2, <3>2, AsksBeside DEF BInv
    <3> QED
      BY <1>1, <2>2, <3>1, <3>2, ClientAsks
  <2>3. CASE Goes(r)
    BY <1>1, <2>3, StepsInOrderStay, OneAtATimeStays, OwnShareStays DEF BInv
  <2> QED
    BY <2>1, <2>2, <2>3
<1> QED
  BY <1>2, <1>3

----------------------------------------------------------------------------
(* No share is lost. A share leaves a row only when it is no more, or there   *)
(* was none: what a mount target, a deletion and the removal of a share have  *)
(* found or done about it stays so while they go on.                         *)

\* The share is there, or there is something of it to delete.
Alive(s) == share[s].state \in {"building", "live", "broken"}

SharesHoused ==
  \A s \in Shares : Alive(s) => \E f \in FileSystems : Visible(f) /\ row[f].share = s

\* A file system whose share is to come has one request.
CreationsAlone ==
  /\ \A f \in FileSystems : row[f].state = "absent" => row[f].status = "DRAFT"
  /\ \A r \in Requests : Coming(r) =>
       /\ Visible(On(r)) /\ row[On(r)].status = "DRAFT"
       /\ \A q \in Requests \ {r} : Begun(q) => On(q) # On(r)

\* The request, or its task, is still to ask the resource service.
StillToAsk(r) == rpc[r] \in {"read", "dispatch"} \/ tpc[r] \in {"step", "ask"}

AtStep(r, step) == job[r].steps # <<>> /\ Step(r) = step

\* The share that r takes out of the row is the one it had deleted.
Removes(r) ==
  /\ tpc[r] = "wait" => row[On(r)].share = job[r].share \/ ~Known(On(r))
  /\ tpc[r] = "wait" /\ remote[r] = "success" => ~Known(On(r))
  /\ tpc[r] \in {"write", "close"} => ~Known(On(r))

\* What r does away with is no more.
NothingThere(r) ==
  /\ Op(r) = "mount" /\ StillToAsk(r) => Visible(On(r)) /\ ~Known(On(r))
  /\ Op(r) = "delete" /\ Busy(r) => ~Known(On(r))
  /\ Op(r) = "drop" /\ Busy(r) /\ ~job[r].has => ~Known(On(r))
  /\ AtStep(r, "unmount") \/ AtStep(r, "drop") => Removes(r)

HInv == BInv /\ SharesHoused /\ CreationsAlone /\ \A r \in Requests : NothingThere(r)

\* A share that is there was there, or is made.
LEMMA AliveStays ==
  ASSUME TInv, NEW r \in Requests, Client(r) \/ Goes(r), NEW s \in Shares, Alive(s)'
  PROVE  Alive(s) \/ (AskShare(r) /\ s = FreeShare)
<1>1. share \in [Shares -> ShareRec] /\ share[s] \in ShareRec
  BY PartsTyped
<1>2. CASE share'[s] = share[s]
  BY <1>2 DEF Alive
<1>3. CASE RemoteServes(r) /\ s = job[r].share
  <2>1. share' = [share EXCEPT ![s] = Served(r)] /\ CanServe(r)
    BY <1>3 DEF RemoteServes
  <2>2. Served(r).state \in {"building", "live", "broken"} => Alive(s)
    BY <1>1, <1>3, <2>1 DEF Served, CanServe, Alive, ShareRec
  <2> QED
    BY <1>1, <2>1, <2>2 DEF Alive
<1>4. CASE RemoteFails(r) /\ s = job[r].share
  BY <1>1, <1>4 DEF RemoteFails, Alive, ShareRec
<1> QED
  BY <1>2, <1>3, <1>4, SharesStay

\* A share that is found was found before, or is just made.
LEMMA KnownStays ==
  ASSUME TInv, OneShareComes, OwnShare, NEW r \in Requests, Client(r) \/ Goes(r),
         NEW f \in FileSystems, Known(f)'
  PROVE  Known(f) \/ (AskShare(r) /\ f = On(r))
<1>1. /\ row \in [FileSystems -> RowRec] /\ row[f].share \in Shares \cup {NoShare}
      /\ row'[f].share # NoShare
  BY PartsTyped DEF Known, HasUuid, RowRec
<1> SUFFICES ASSUME ~(AskShare(r) /\ f = On(r))
             PROVE  Known(f)
  OBVIOUS
<1>2. row'[f].share = row[f].share
  <2>1. CASE Client(r)
    <3>1. row' = row \/ \E g \in FileSystems : row' = [row EXCEPT ![g].state = "present"]
      BY <2>1, ClientEffect DEF ClientWell, Adds, Asks
    <3> QED
      BY <1>1, <3>1 DEF RowRec
  <2>2. CASE Goes(r)
    BY <1>1, <2>2, RowsStay
  <2> QED
    BY <2>1, <2>2
<1> DEFINE s == row[f].share
<1>3. s \in Shares /\ HasUuid(f) /\ share[s].state # "free"
  BY <1>1, <1>2 DEF OwnShare, HasUuid
<1>4. Alive(s)'
  BY <1>2 DEF Known, Alive
<1>5. ~(AskShare(r) /\ s = FreeShare)
  BY <1>3, WhoMakes
<1>6. Alive(s)
  <2> HIDE DEF s
  <2>1. s' = s
    BY <1>2 DEF s
  <2> QED
    BY <1>3, <1>4, <1>5, <2>1, AliveStays DEF Alive
<1> QED
  BY <1>3, <1>6 DEF Known, Alive

\* Rows keep their state and their share, but for three steps.
LEMMA RowsKept ==
  ASSUME TInv, NEW r \in Requests, Goes(r), NEW f \in FileSystems
  PROVE  \/ row'[f].share = row[f].share /\ row'[f].state = row[f].state
         \/ AskShare(r) /\ f = On(r)
         \/ StepWrites(r) /\ f = On(r) /\ Step(r) \in {"unmount", "drop"}
         \/ StepEnds(r) /\ f = On(r) /\ Step(r) \in {"drop", "delete"}
<1>1. row \in [FileSystems -> RowRec] /\ On(r) \in FileSystems /\ row[f] \in RowRec
  BY PartsTyped
<1>2. CASE f # On(r)
  BY <1>2, RowsStay
<1>3. CASE row' = row
  BY <1>3
<1>4. CASE \E s : WithStatus(On(r), s)
  BY <1>1, <1>4 DEF WithStatus, RowRec
<1>5. CASE StepWrites(r) /\ f = On(r)
  BY <1>5 DEF StepWrites
<1>6. CASE StepEnds(r) /\ f = On(r)
  BY <1>1, <1>4, <1>6 DEF StepEnds
<1>7. CASE TaskFails(r)
  BY <1>1, <1>7 DEF TaskFails, RowRec
<1>8. \/ row' = row \/ (\E s : WithStatus(On(r), s))
      \/ AskShare(r) \/ StepWrites(r) \/ StepEnds(r) \/ TaskFails(r)
  BY DEF Goes, Serving, Working, Remote, BeginUpdate, BeginAction, Dispatch, DispatchFails, WriteSize,
         StepBegins, AskChange, AskFails, RemoteAnswers, WaitFails, RemoteServes, RemoteFails
<1> QED
  BY <1>2, <1>3, <1>4, <1>5, <1>6, <1>7, <1>8

\* Where a task comes from.
LEMMA TaskBefore ==
  ASSUME TInv, NEW r \in Requests, Goes(r)
  PROVE  /\ tpc'[r] = "wait" => \/ AskShare(r) \/ AskChange(r)
                                \/ tpc[r] = "wait" /\ job' = job /\ row' = row
         /\ tpc'[r] = "write" => \/ StepBegins(r) /\ ~AsksService(r)
                                 \/ RemoteAnswers(r)
                                 \/ tpc[r] = "write" /\ job' = job /\ row' = row
         /\ tpc'[r] = "close" => \/ StepWrites(r)
                                 \/ tpc[r] = "close" /\ job' = job /\ row' = row
         /\ remote'[r] = "success" => \/ RemoteServes(r)
                                      \/ remote[r] = "success" /\ ~RemoteServes(r)
<1>1. tpc \in [Requests -> TaskStages] /\ remote \in [Requests -> RemoteStages] /\ StageOK(r)
  BY PartsTyped
<1>2. CASE Serving(r)
  BY <1>1, <1>2 DEF Serving, BeginUpdate, BeginAction, Dispatch, DispatchFails, WriteSize,
                    TaskGoes, StageOK
<1>3. CASE Working(r)
  BY <1>1, <1>3 DEF Working, StepBegins, AskShare, AskChange, AskFails, RemoteAnswers, WaitFails,
                    StepWrites, StepEnds, TaskFails, TaskGoes, RemoteGoes
<1>4. CASE Remote(r)
  BY <1>1, <1>4 DEF Remote, RemoteServes, RemoteFails, RemoteGoes
<1> QED
  BY <1>2, <1>3, <1>4 DEF Goes

\* The share of a file system that is in the resource service is housed.
LEMMA HousedStay ==
  ASSUME HInv, NEW r \in Requests, Goes(r)
  PROVE  SharesHoused'
<1>1. /\ TInv /\ OneShareComes /\ StepsInOrder /\ NothingThere(r)
      /\ On(r) \in FileSystems /\ row \in [FileSystems -> RowRec] /\ StageOK(r) /\ Begun(r)
  BY PartsTyped, GoesBegun DEF HInv, BInv, PInv
<1> SUFFICES ASSUME NEW s \in Shares, Alive(s)'
             PROVE  \E f \in FileSystems : Visible(f)' /\ row'[f].share = s
  BY DEF SharesHoused, Visible
<1>2. AskShare(r) => Visible(On(r)) /\ ~Known(On(r))
  <2> SUFFICES ASSUME AskShare(r)
               PROVE  Visible(On(r)) /\ ~Known(On(r))
    OBVIOUS
  <2>1. CASE Coming(r)
    BY <1>1, <2>1 DEF HInv, CreationsAlone, OneShareComes, Known
  <2>2. CASE Op(r) = "mount"
    BY <1>1, <2>2 DEF NothingThere, StillToAsk, AskShare
  <2> QED
    BY <1>1, <2>1, <2>2, WhoMakes
<1>3. CASE AskShare(r) /\ s = FreeShare
  <2>1. row'[On(r)].share = s
    BY <1>1, <1>3, WhoMakes
  <2>2. Visible(On(r))'
    <3>1. PICK st : row' = [row EXCEPT ![On(r)].share = FreeShare, ![On(r)].status = st]
      BY <1>3 DEF AskShare
    <3>2. On(r)' = On(r)
      BY <1>1, JobStays
    <3> QED
      BY <1>1, <1>2, <1>3, <3>1, <3>2 DEF Visible, RowRec
  <2>3. On(r)' = On(r)
    BY <1>1, JobStays
  <2> QED
    BY <1>1, <2>1, <2>2, <2>3 DEF Visible
<1>4. CASE Alive(s)
  <2>1. PICK f \in FileSystems : Visible(f) /\ row[f].share = s
    BY <1>4 DEF HInv, SharesHoused
  <2>2. Known(f)
    BY <1>4, <2>1, ConstantsAssumption DEF Known, HasUuid, Alive
  <2>3. job[r].steps # <<>> => Op(r) \in Operations /\ job[r].steps \in StepsLeft(Op(r))
    BY <1>1 DEF StepsInOrder
  <2>4. ~(StepWrites(r) /\ f = On(r) /\ Step(r) \in {"unmount", "drop"})
    BY <1>1, <2>2 DEF StepWrites, StageOK, NothingThere, AtStep, Removes
  <2>5. ~(StepEnds(r) /\ f = On(r) /\ Step(r) \in {"drop", "delete"})
    <3> SUFFICES ASSUME StepEnds(r), f = On(r), Step(r) \in {"drop", "delete"}
                 PROVE  FALSE
      OBVIOUS
    <3>1. tpc[r] = "close" /\ job[r].steps # <<>> /\ Busy(r)
      BY <1>1 DEF StepEnds, StageOK, Busy
    <3>2. CASE Step(r) = "drop"
      BY <1>1, <2>2, <3>1, <3>2 DEF NothingThere, AtStep, Removes
    <3>3. CASE Step(r) = "delete"
      <4>1. Op(r) = "delete"
        BY <2>3, <3>1, <3>3, StepBelongs DEF Step
      <4> QED
        BY <1>1, <2>2, <3>1, <4>1 DEF NothingThere
    <3> QED
      BY <3>2, <3>3
  <2>6. row'[f].share = row[f].share /\ row'[f].state = row[f].state
    BY <1>1, <1>2, <2>2, <2>4, <2>5, RowsKept
  <2> QED
    BY <2>1, <2>6 DEF Visible
<1> QED
  BY <1>1, <1>3, <1>4, AliveStays

\* Between its creation and its share nothing changes the row of a file system.
LEMMA CreationsStayAlone ==
  ASSUME HInv, NEW r \in Requests, Goes(r)
  PROVE  CreationsAlone'
<1>1. /\ TInv /\ OneShareComes /\ StepsInOrder /\ CreationsAlone
      /\ \A q \in Requests : On(q) \in FileSystems
      /\ StageOK(r) /\ Begun(r) /\ tpc \in [Requests -> TaskStages] /\ rpc \in [Requests -> RequestStages]
  BY PartsTyped, GoesBegun DEF HInv, BInv, PInv
<1>2. \A q \in Requests \ {r} :
        rpc'[q] = rpc[q] /\ tpc'[q] = tpc[q] /\ remote'[q] = remote[q] /\ job'[q] = job[q]
  BY <1>1, OthersWait
<1>3. \A q \in Requests : On(q)' = On(q) /\ (Begun(q)' => Begun(q))
  BY <1>1, <1>2, JobStays DEF On, Begun
<1>4. \A f \in FileSystems : f # On(r) => row'[f] = row[f]
  BY <1>1, RowsStay
<1>5. \A f \in FileSystems : row'[f].state = "absent" => row'[f].status = "DRAFT"
  <2>1. row'[On(r)].state # "absent"
    BY <1>1, RowsStay DEF OneShareComes
  <2> QED
    BY <1>1, <1>4, <2>1 DEF CreationsAlone
<1>6. Coming(r) /\ Coming(r)' => row' = row
  <2> SUFFICES ASSUME Coming(r), Coming(r)'
               PROVE  row' = row
    OBVIOUS
  <2>1. Op(r) = "create" /\ rpc[r] # "read"
    BY <1>1 DEF Coming, OneShareComes
  <2>2. CASE Serving(r)
    BY <1>1, <2>1, <2>2 DEF Serving, BeginUpdate, BeginAction, Dispatch, DispatchFails, WriteSize,
                            RequestGoes, Coming, StageOK
  <2>3. CASE Working(r)
    <3>1. rpc[r] # "dispatch" /\ rpc' = rpc
      BY <1>1, <2>3 DEF Working, StepBegins, AskShare, AskChange, AskFails, RemoteAnswers, WaitFails,
                        StepWrites, StepEnds, TaskFails, StageOK
    <3>2. tpc[r] \in {"step", "ask"} /\ tpc'[r] \in {"step", "ask"}
      BY <3>1 DEF Coming
    <3>3. StepBegins(r)
      BY <1>1, <2>3, <3>2 DEF Working, AskShare, AskChange, AskFails, RemoteAnswers, WaitFails,
                              StepWrites, StepEnds, TaskFails, TaskGoes
    <3>4. Step(r) = "create"
      BY <1>1, <2>1, <3>3, StepBelongs DEF StepsInOrder, StageOK, Step, StepBegins
    <3> QED
      BY <3>3, <3>4 DEF StepBegins
  <2>4. CASE Remote(r)
    BY <2>4 DEF Remote, RemoteServes, RemoteFails
  <2> QED
    BY <2>2, <2>3, <2>4 DEF Goes
<1>7. ASSUME NEW q \in Requests, Coming(q)'
      PROVE  /\ Visible(On(q))' /\ row'[On(q)].status = "DRAFT"
             /\ \A p \in Requests \ {q} : Begun(p)' => On(p)' # On(q)'
  <2>1. Coming(q)
    BY <1>1, <1>7, ComingStays
  <2>2. /\ Visible(On(q)) /\ row[On(q)].status = "DRAFT"
        /\ \A p \in Requests \ {q} : Begun(p) => On(p) # On(q)
    BY <1>1, <2>1 DEF CreationsAlone
  <2>3. row'[On(q)] = row[On(q)]
    BY <1>1, <1>4, <1>6, <1>7, <2>1, <2>2
  <2> QED
    BY <1>3, <2>2, <2>3 DEF Visible
<1> QED
  BY <1>3, <1>5, <1>7 DEF CreationsAlone

\* No share is made for a file system that another request is busy with.
LEMMA MadeAlone ==
  ASSUME "mount" \in Alone, BInv, CreationsAlone, NEW r \in Requests, AskShare(r),
         NEW q \in Requests \ {r}, Busy(q)
  PROVE  On(q) # On(r)
<1>1. TInv /\ OneShareComes
  BY DEF BInv, PInv
<1>2. Begun(q)
  BY <1>1, BusyBegun
<1>3. Busy(r) /\ (Coming(r) \/ Op(r) = "mount")
  BY <1>1, WhoMakes
<1> QED
  BY <1>2, <1>3 DEF CreationsAlone, BInv, OneAtATime

\* What a request does away with stays away while others take steps.
LEMMA OthersNothing ==
  ASSUME "mount" \in Alone, HInv, NEW r \in Requests, Goes(r), NEW q \in Requests \ {r}
  PROVE  NothingThere(q)'
<1>1. /\ TInv /\ OneShareComes /\ OwnShare /\ NothingThere(q) /\ BInv /\ CreationsAlone
      /\ On(q) \in FileSystems /\ StageOK(q) /\ StageOK(r) /\ StepsInOrder
  BY PartsTyped DEF HInv, BInv, PInv
<1>2. rpc'[q] = rpc[q] /\ tpc'[q] = tpc[q] /\ remote'[q] = remote[q] /\ job'[q] = job[q]
  BY <1>1, OthersWait
<1>3. /\ On(q)' = On(q) /\ Op(q)' = Op(q) /\ Busy(q)' = Busy(q) /\ StillToAsk(q)' = StillToAsk(q)
      /\ AtStep(q, "unmount")' = AtStep(q, "unmount") /\ AtStep(q, "drop")' = AtStep(q, "drop")
  BY <1>2 DEF On, Op, Busy, StillToAsk, AtStep, Step
<1>4. Busy(q) => ~(AskShare(r) /\ On(q) = On(r))
  BY <1>1, MadeAlone
<1>5. Busy(q) /\ ~Known(On(q)) => ~Known(On(q))'
  <2> DEFINE f == On(q)
  <2>1. f' = f
    BY <1>3
  <2> HIDE DEF f
  <2>2. f \in FileSystems
    BY <1>1 DEF f
  <2>3. Known(f)' => Known(f) \/ (AskShare(r) /\ f = On(r))
    BY <1>1, <2>1, <2>2, KnownStays DEF Known, HasUuid
  <2> QED
    BY <1>4, <2>3 DEF f
<1>6. Busy(q) => row'[On(q)].share \in {row[On(q)].share, NoShare}
  BY <1>1, <1>4, RowsStay
<1>7. row'[On(q)].share = NoShare => ~Known(On(q))'
  BY <1>3 DEF Known, HasUuid
<1>8. StillToAsk(q) => Busy(q)
  BY <1>1 DEF StillToAsk, Busy
<1>9. Op(q) = "mount" /\ StillToAsk(q) /\ Visible(On(q)) => Visible(On(q))'
  <2> SUFFICES ASSUME Op(q) = "mount", StillToAsk(q), Visible(On(q))
               PROVE  Visible(On(q))'
    OBVIOUS
  <2>1. StepEnds(r) => Busy(r)
    BY <1>1 DEF StepEnds, Busy
  <2>2. ~(StepEnds(r) /\ On(q) = On(r))
    BY <1>1, <1>8, <2>1 DEF BInv, OneAtATime
  <2>3. row'[On(q)].state = row[On(q)].state
    <3>1. CASE On(q) # On(r)
      BY <1>1, <3>1, RowsStay
    <3>2. CASE On(q) = On(r) /\ ~StepEnds(r) /\ ~AskShare(r)
      <4>1. row' = row \/ (\E s : WithStatus(On(r), s)) \/ StepWrites(r) \/ TaskFails(r)
        BY <3>2 DEF Goes, Serving, Working, Remote, BeginUpdate, BeginAction, Dispatch, DispatchFails,
               WriteSize, StepBegins, AskChange, AskFails, RemoteAnswers, WaitFails, RemoteServes, RemoteFails
      <4> QED
        BY <1>1, <3>2, <4>1, PartsTyped DEF WithStatus, StepWrites, TaskFails, RowRec
    <3> QED
      BY <1>4, <1>8, <2>2, <3>1, <3>2
  <2> QED
    BY <1>3, <2>3 DEF Visible
<1>10. AtStep(q, "unmount")' \/ AtStep(q, "drop")' => Removes(q)'
  <2>1. AtStep(q, "unmount")' \/ AtStep(q, "drop")' => Removes(q)
    BY <1>1, <1>3 DEF NothingThere
  <2>2. tpc[q] \in {"wait", "write", "close"} => Busy(q)
    BY DEF Busy
  <2>3. Removes(q) => Removes(q)'
    BY <1>2, <1>3, <1>5, <1>6, <1>7, <2>2 DEF Removes
  <2> QED
    BY <2>1, <2>3
<1> QED
  BY <1>1, <1>2, <1>3, <1>5, <1>8, <1>9, <1>10 DEF NothingThere

\* What a task has deleted, or not found, is no more.
LEMMA ItsNothing ==
  ASSUME "mount" \in Alone, HInv, NEW r \in Requests, Goes(r)
  PROVE  NothingThere(r)'
<1>1. /\ TInv /\ OneShareComes /\ OwnShare /\ NothingThere(r)
      /\ On(r) \in FileSystems /\ StageOK(r) /\ StepsInOrder /\ Begun(r)
      /\ row \in [FileSystems -> RowRec] /\ rpc \in [Requests -> RequestStages]
      /\ tpc \in [Requests -> TaskStages] /\ remote \in [Requests -> RemoteStages]
      /\ job \in [Requests -> Jobs] /\ job[r] \in Jobs
  BY PartsTyped, GoesBegun DEF HInv, BInv, PInv
<1>2. /\ Op(r)' = Op(r) /\ On(r)' = On(r)
      /\ StepEnds(r) \/ job'[r].steps = job[r].steps
      /\ Busy(r)' => Busy(r)
  BY <1>1, JobStays, StagesAfter
<1>3. /\ Op(r) \in Operations /\ job[r].steps \in StepsLeft(Op(r))
  BY <1>1 DEF StepsInOrder
<1>4. ~AskShare(r) /\ ~Known(On(r)) => ~Known(On(r))'
  <2> DEFINE f == On(r)
  <2>1. f' = f
    BY <1>2
  <2> HIDE DEF f
  <2>2. f \in FileSystems
    BY <1>1 DEF f
  <2>3. Known(f)' => Known(f) \/ AskShare(r)
    BY <1>1, <2>1, <2>2, KnownStays DEF Known, HasUuid
  <2> QED
    BY <2>3 DEF f
<1>5. AskShare(r) => Op(r) \in {"create", "mount"} /\ tpc[r] = "ask" /\ tpc'[r] = "wait" /\ rpc' = rpc
  BY <1>1, WhoMakes DEF AskShare
<1>6. Op(r) = "mount" /\ StillToAsk(r)' => Visible(On(r))' /\ ~Known(On(r))'
  <2> SUFFICES ASSUME Op(r) = "mount", StillToAsk(r)'
               PROVE  Visible(On(r))' /\ ~Known(On(r))'
    OBVIOUS
  <2>1. ~StepEnds(r) \/ Len(job[r].steps) = 1
    BY <1>1, <1>3, StepBelongs DEF StepEnds, StageOK
  <2>2. StillToAsk(r)
    BY <1>1, <2>1, StagesAfter DEF StillToAsk
  <2>3. ~AskShare(r)
    BY <1>1, <1>5 DEF StillToAsk, StageOK
  <2>4. Visible(On(r)) /\ ~Known(On(r))
    BY <1>1, <2>2 DEF NothingThere
  <2>5. row'[On(r)].state = row[On(r)].state
    <3>1. ~StepEnds(r) /\ ~StepWrites(r)
      BY <1>1, <2>2 DEF StillToAsk, StageOK, StepEnds, StepWrites
    <3> QED
      BY <1>1, <2>3, <3>1, RowsKept
  <2> QED
    BY <1>2, <1>4, <2>3, <2>4, <2>5 DEF Visible
<1>7. Op(r) = "delete" /\ Busy(r)' => ~Known(On(r))'
  BY <1>1, <1>2, <1>4, <1>5 DEF NothingThere
<1>8. Op(r) = "drop" /\ Busy(r)' /\ ~job'[r].has => ~Known(On(r))'
  <2>1. Op(r) = "drop" => job'[r].has = job[r].has
    <3>1. CASE Dispatch(r)
      BY <1>1, <3>1 DEF Dispatch, Holds, Jobs, Op
    <3> QED
      BY <1>1, <3>1, JobRestStays
  <2> QED
    BY <1>1, <1>2, <1>4, <1>5, <2>1 DEF NothingThere
<1>9. ASSUME AtStep(r, "unmount")' \/ AtStep(r, "drop")'
      PROVE  Removes(r)'
  <2>1. CASE StepEnds(r)
    <3>1. tpc'[r] \in {"ended", "step"}
      BY <1>1, <2>1 DEF StepEnds, TaskGoes
    <3> QED
      BY <3>1 DEF Removes
  <2>2. CASE ~StepEnds(r)
    <3>1. job'[r].steps = job[r].steps /\ Step(r)' = Step(r)
      BY <1>2, <2>2 DEF Step
    <3>2. AtStep(r, "unmount") \/ AtStep(r, "drop")
      BY <1>9, <3>1 DEF AtStep
    <3>3. Step(r) \in {"unmount", "drop"} /\ Removes(r) /\ ~AskShare(r)
          /\ (Step(r) = "drop" => Op(r) = "drop") /\ Op(r) \in {"unmount", "drop"}
      BY <1>1, <1>3, <1>5, <3>2, StepBelongs DEF AtStep, NothingThere, Step, AskShare, Makes
    <3>4. Deletes(r) /\ ~Makes(r)
      BY <3>3 DEF Deletes, Makes
    <3>5. tpc'[r] = "wait" => row'[On(r)].share = job'[r].share \/ ~Known(On(r))'
      <4>1. CASE AskChange(r)
        BY <1>1, <4>1, JobRestStays DEF AskChange
      <4>2. CASE tpc[r] = "wait" /\ job' = job /\ row' = row
        BY <1>4, <3>3, <4>2 DEF Removes
      <4> QED
        BY <1>1, <3>3, <4>1, <4>2, TaskBefore
    <3>6. tpc'[r] = "wait" /\ remote'[r] = "success" => ~Known(On(r))'
      <4> SUFFICES ASSUME tpc'[r] = "wait", remote'[r] = "success"
                   PROVE  ~Known(On(r))'
        OBVIOUS
      <4>1. CASE RemoteServes(r)
        <5>1. /\ tpc[r] = "wait" /\ row' = row /\ job' = job
              /\ share' = [share EXCEPT ![job[r].share] = Served(r)]
          BY <4>1 DEF RemoteServes
        <5>2. share \in [Shares -> ShareRec] /\ row[On(r)].share \in Shares \cup {NoShare}
          BY <1>1, PartsTyped DEF RowRec
        <5>3. CASE ~Known(On(r))
          BY <1>4, <3>3, <5>3
        <5>4. CASE row[On(r)].share = job[r].share /\ Known(On(r))
          <6>1. job[r].share \in Shares
            BY <5>2, <5>4 DEF Known, HasUuid
          <6>2. Served(r).state = "gone"
            <7>1. share[job[r].share] \in ShareRec
              BY <5>2, <6>1
            <7> QED
              BY <3>3, <7>1 DEF Served, ShareRec, Makes, Deletes
          <6>3. share'[row'[On(r)].share].state = "gone"
            BY <5>1, <5>2, <5>4, <6>1, <6>2
          <6> QED
            BY <1>2, <6>3 DEF Known
        <5> QED
          BY <3>3, <5>1, <5>3, <5>4 DEF Removes
      <4>2. CASE remote[r] = "success" /\ ~RemoteServes(r)
        <5>1. ~AskChange(r)
          BY <1>1 DEF AskChange, RemoteGoes
        <5>2. tpc[r] = "wait"
          BY <1>1, <3>3, <5>1, TaskBefore
        <5> QED
          BY <1>4, <3>3, <4>2, <5>2 DEF Removes
      <4> QED
        BY <1>1, <4>1, <4>2, TaskBefore
    <3>7. tpc'[r] = "write" => ~Known(On(r))'
      <4>1. CASE StepBegins(r) /\ ~AsksService(r)
        <5>1. Step(r) = "drop" /\ ~job[r].has /\ Op(r) = "drop"
          BY <3>3, <4>1 DEF AsksService
        <5>2. Busy(r)
          BY <4>1 DEF StepBegins, Busy
        <5> QED
          BY <1>1, <1>4, <3>3, <5>1, <5>2 DEF NothingThere
      <4>2. CASE RemoteAnswers(r)
        BY <1>4, <3>3, <4>2 DEF RemoteAnswers, Removes
      <4>3. CASE tpc[r] = "write"
        BY <1>4, <3>3, <4>3 DEF Removes
      <4> QED
        BY <1>1, <4>1, <4>2, <4>3, TaskBefore
    <3>8. tpc'[r] = "close" => ~Known(On(r))'
      <4>1. tpc'[r] = "close" => tpc[r] \in {"write", "close"}
        BY <1>1, TaskBefore DEF StepWrites
      <4> QED
        BY <1>4, <3>3, <4>1 DEF Removes
    <3> QED
      BY <1>2, <3>5, <3>6, <3>7, <3>8 DEF Removes
  <2> QED
    BY <2>1, <2>2
<1> QED
  BY <1>2, <1>6, <1>7, <1>8, <1>9 DEF NothingThere

\* A client's request finds nothing where it is to make or to remove something.
LEMMA ClientNothing ==
  ASSUME {"mount", "drop"} \subseteq Alone, "check" \notin Faults, HInv,
         NEW r \in Requests, Client(r)
  PROVE  SharesHoused' /\ CreationsAlone' /\ \A q \in Requests : NothingThere(q)'
<1>1. /\ TInv /\ OneShareComes /\ OwnShare /\ StepsInOrder /\ OneAtATime /\ CreationsAlone
      /\ SharesHoused /\ "mount" \in Alone /\ "drop" \in Alone
      /\ \A q \in Requests : On(q) \in FileSystems /\ StageOK(q) /\ NothingThere(q)
      /\ row \in [FileSystems -> RowRec] /\ job \in [Requests -> Jobs] /\ rpc \in [Requests -> RequestStages]
  BY PartsTyped DEF HInv, BInv, PInv
<1>2. /\ \A q \in Requests \ {r} : rpc'[q] = rpc[q] /\ job'[q] = job[q]
      /\ tpc' = tpc /\ remote' = remote /\ tpc[r] = "none" /\ share' = share /\ ~Begun(r) /\ Begun(r)'
  BY <1>1, ClientKeeps
<1>3. \A q \in Requests \ {r} :
        /\ On(q)' = On(q) /\ Op(q)' = Op(q) /\ Busy(q)' = Busy(q) /\ StillToAsk(q)' = StillToAsk(q)
        /\ AtStep(q, "unmount")' = AtStep(q, "unmount") /\ AtStep(q, "drop")' = AtStep(q, "drop")
        /\ Coming(q)' = Coming(q) /\ Begun(q)' = Begun(q)
  BY <1>2 DEF On, Op, Busy, StillToAsk, AtStep, Step, Coming, Begun
<1>4. CASE \E f \in FileSystems, c \in Configs, s \in Shares \cup {NoShare} :
             Adds(r, f, c, s) /\ row[f].state = "absent"
  <2>1. PICK f \in FileSystems, c \in Configs, s \in Shares \cup {NoShare} :
               Adds(r, f, c, s) /\ row[f].state = "absent"
    BY <1>4
  <2>2. /\ Coming(r)' /\ \A q \in Requests \ {r} : Begun(q) => On(q) # f
        /\ Op(r)' = "create" /\ On(r)' = f
    BY <1>1, <2>1, AddsBeside
  <2>3. /\ row' = [row EXCEPT ![f].state = "present"]
        /\ job'[r].steps = <<"create">>
    BY <1>1, <2>1, JobFields DEF Adds, Holds
  <2>4. /\ \A g \in FileSystems : row'[g].share = row[g].share /\ row'[g].status = row[g].status
        /\ \A g \in FileSystems \ {f} : row'[g] = row[g]
        /\ row'[f].state = "present"
    BY <1>1, <2>3 DEF RowRec
  <2>5. \A g \in FileSystems : Known(g)' = Known(g) /\ (Visible(g) => Visible(g)')
    BY <1>2, <2>4 DEF Known, HasUuid, Visible
  <2>6. SharesHoused'
    BY <1>1, <1>2, <2>4, <2>5 DEF SharesHoused, Alive, Visible
  <2>7. CreationsAlone'
    <3>1. \A g \in FileSystems : row'[g].state = "absent" => row'[g].status = "DRAFT"
      BY <1>1, <2>4 DEF CreationsAlone
    <3>2. Visible(f)' /\ row'[f].status = "DRAFT"
      BY <1>1, <2>1, <2>4 DEF CreationsAlone, Visible
    <3>3. \A q \in Requests : Coming(q) => Begun(q)
      BY <1>1, BusyBegun
    <3>4. ASSUME NEW q \in Requests, Coming(q)'
          PROVE  /\ Visible(On(q))' /\ row'[On(q)'].status = "DRAFT"
                 /\ \A p \in Requests \ {q} : Begun(p)' => On(p)' # On(q)'
      <4>1. CASE q = r
        BY <1>3, <2>2, <3>2, <4>1 DEF Visible
      <4>2. CASE q # r
        <5>1. Visible(On(q)) /\ row[On(q)].status = "DRAFT" /\ On(q) # f /\ On(q)' = On(q)
          BY <1>1, <1>3, <2>2, <3>3, <3>4, <4>2 DEF CreationsAlone
        <5>2. \A p \in Requests \ {q} : Begun(p)' => On(p)' # On(q)
          BY <1>1, <1>3, <2>2, <3>4, <4>2, <5>1 DEF CreationsAlone
        <5> QED
          BY <1>1, <2>4, <5>1, <5>2 DEF Visible
      <4> QED
        BY <4>1, <4>2
    <3> QED
      BY <3>1, <3>4 DEF CreationsAlone, Visible
  <2>8. NothingThere(r)'
    <3>1. Head(<<"create">>) = "create"
      OBVIOUS
    <3> QED
      BY <2>2, <2>3, <3>1 DEF NothingThere, AtStep, Step
  <2>9. \A q \in Requests \ {r} : NothingThere(q)'
    <3> SUFFICES ASSUME NEW q \in Requests \ {r}
                 PROVE  NothingThere(q)'
      OBVIOUS
    <3>1. On(q) \in FileSystems /\ On(q)' = On(q) /\ job'[q] = job[q] /\ NothingThere(q)
      BY <1>1, <1>2, <1>3
    <3>2. /\ Known(On(q))' = Known(On(q)) /\ (Visible(On(q)) => Visible(On(q))')
          /\ row'[On(q)].share = row[On(q)].share
      BY <2>4, <2>5, <3>1 DEF Known, HasUuid, Visible
    <3> QED
      BY <1>2, <1>3, <3>1, <3>2 DEF NothingThere, Removes
  <2> QED
    BY <2>6, <2>7, <2>8, <2>9
<1>5. CASE \E j : Asks(r, j) /\ AskedFor(r, j)
  <2>1. PICK j : Asks(r, j) /\ AskedFor(r, j)
    BY <1>5
  <2>2. /\ OneAtATime' /\ job'[r] = j /\ Op(r)' = j.op /\ On(r)' = j.on
        /\ rpc'[r] = "read" /\ tpc'[r] = "none" /\ remote'[r] = "none"
        /\ \A q \in Requests : Coming(q)' => Coming(q) /\ q # r
        /\ j.op \in Alone => \A q \in Requests : Busy(q) => On(q) # j.on
    BY <1>1, <2>1, AsksBeside
  <2>3. row' = row
    BY <2>1 DEF Asks
  <2>4. \A g \in FileSystems : Known(g)' = Known(g) /\ Visible(g)' = Visible(g)
    BY <1>2, <2>3 DEF Known, HasUuid, Visible
  <2>5. SharesHoused'
    BY <1>1, <1>2, <2>3 DEF SharesHoused, Alive, Visible
  <2>6. CreationsAlone'
    <3>1. \A q \in Requests : Coming(q) => j.on # On(q)
      <4> SUFFICES ASSUME NEW q \in Requests, Coming(q)
                   PROVE  j.on # On(q)
        OBVIOUS
      <4>1. Busy(q) /\ Begun(q) /\ q # r
        BY <1>1, <1>2 DEF Coming, Busy, Begun, StageOK
      <4>2. j.op \in {"mount", "drop", "delete"} \cup UsesShare
        BY <2>1 DEF AskedFor, Operations, UsesShare
      <4>3. CASE j.op \in {"mount", "drop"}
        BY <1>1, <2>2, <4>1, <4>3
      <4>4. CASE j.op = "delete"
        <5>1. row[j.on].status \in Settled
          BY <2>1, <4>4 DEF AskedFor
        <5>2. row[On(q)].status = "DRAFT"
          BY <1>1 DEF CreationsAlone
        <5> QED
          BY <5>1, <5>2 DEF Settled
      <4>5. CASE j.op \in UsesShare
        <5>1. HasUuid(j.on) /\ ~HasUuid(On(q))
          BY <1>1, <2>1, <4>5 DEF AskedFor, OneShareComes
        <5> QED
          BY <5>1
      <4> QED
        BY <4>2, <4>3, <4>4, <4>5
    <3>2. ASSUME NEW q \in Requests, Coming(q)'
          PROVE  /\ Visible(On(q))' /\ row'[On(q)'].status = "DRAFT"
                 /\ \A p \in Requests \ {q} : Begun(p)' => On(p)' # On(q)'
      <4>1. Coming(q) /\ q # r /\ On(q)' = On(q)
        BY <1>3, <2>2, <3>2
      <4>2. Visible(On(q)) /\ row[On(q)].status = "DRAFT"
        BY <1>1, <4>1 DEF CreationsAlone
      <4>3. \A p \in Requests \ {q} : Begun(p)' => On(p)' # On(q)
        BY <1>1, <1>3, <2>2, <3>1, <4>1 DEF CreationsAlone
      <4> QED
        BY <2>3, <4>1, <4>2, <4>3 DEF Visible
    <3> QED
      BY <1>1, <2>3, <3>2 DEF CreationsAlone, Visible
  <2>7. NothingThere(r)'
    <3>1. j.on \in FileSystems /\ Visible(j.on)
      BY <2>1 DEF AskedFor
    <3>2. j.op \in {"mount", "delete"} => ~Known(j.on)
      BY <2>1 DEF AskedFor, Found, May
    <3>3. j.op = "drop" /\ ~j.has => ~Known(j.on)
      BY <2>1 DEF AskedFor, Known
    <3>4. Known(On(r))' = Known(j.on) /\ Visible(On(r))' = Visible(j.on)
      BY <1>2, <2>2, <2>3 DEF Known, HasUuid, Visible
    <3> QED
      BY <2>2, <3>1, <3>2, <3>3, <3>4 DEF NothingThere, Removes
  <2>8. \A q \in Requests \ {r} : NothingThere(q)'
    <3> SUFFICES ASSUME NEW q \in Requests \ {r}
                 PROVE  NothingThere(q)'
      OBVIOUS
    <3>1. On(q)' = On(q) /\ job'[q] = job[q] /\ NothingThere(q)
      BY <1>1, <1>2, <1>3
    <3>2. Known(On(q))' = Known(On(q)) /\ Visible(On(q))' = Visible(On(q))
      BY <1>2, <2>3, <3>1 DEF Known, HasUuid, Visible
    <3> QED
      BY <1>2, <1>3, <2>3, <3>1, <3>2 DEF NothingThere, Removes
  <2> QED
    BY <2>5, <2>6, <2>7, <2>8
<1> QED
  BY <1>1, <1>4, <1>5, ClientAsks

LEMMA InitHInv == Init => HInv
<1> SUFFICES ASSUME Init PROVE HInv
  OBVIOUS
<1>1. BInv
  BY InitBInv
<1>2. \A r \in Requests : ~Coming(r) /\ ~Busy(r) /\ ~StillToAsk(r) /\ tpc[r] = "none" /\ job[r].steps = <<>>
  <2> DEFINE f == CHOOSE f \in FileSystems : TRUE
  <2>1. \A r \in Requests : job[r] = Job("touch", f, FirstConfig(f), FirstConfig(f), <<>>)
    BY DEF Init
  <2> HIDE DEF f
  <2>2. \A r \in Requests : job[r].steps = <<>>
    BY <2>1 DEF Job
  <2> QED
    BY <2>2 DEF Init, Coming, Busy, StillToAsk
<1>3. SharesHoused
  <2> SUFFICES ASSUME NEW s \in Shares, Alive(s)
               PROVE  \E f \in FileSystems : Visible(f) /\ row[f].share = s
    BY DEF SharesHoused
  <2>1. \E f \in Existing : Share[f] = s
    BY DEF Init, Alive, NewShare
  <2>2. PICK f \in Existing : Share[f] = s
    BY <2>1
  <2>3. f \in FileSystems
    BY ConstantsAssumption
  <2> QED
    BY <2>2, <2>3 DEF Init, Visible
<1>4. CreationsAlone
  BY <1>2 DEF Init, CreationsAlone
<1>5. \A r \in Requests : NothingThere(r)
  BY <1>2 DEF NothingThere, AtStep
<1> QED
  BY <1>1, <1>3, <1>4, <1>5 DEF HInv

LEMMA HInvStep ==
  {"mount", "drop"} \subseteq Alone /\ "check" \notin Faults => (HInv /\ [Next]_vars => HInv')
<1> SUFFICES ASSUME {"mount", "drop"} \subseteq Alone, "check" \notin Faults, HInv, [Next]_vars
             PROVE  HInv'
  OBVIOUS
<1>1. BInv' /\ "mount" \in Alone
  BY BInvStep DEF HInv
<1>2. CASE UNCHANGED vars
  <2>1. SharesHoused' /\ CreationsAlone'
    BY <1>2 DEF HInv, vars, SharesHoused, CreationsAlone, Alive, Visible, Coming, On, Op, Begun
  <2>2. \A q \in Requests : NothingThere(q)'
    BY <1>2 DEF HInv, vars, NothingThere, Removes, AtStep, Step, StillToAsk, Busy, Known, HasUuid,
                Visible, On, Op
  <2> QED
    BY <1>1, <2>1, <2>2 DEF HInv
<1>3. CASE Next
  <2>1. PICK r \in Requests : Client(r) \/ Goes(r)
    BY <1>3 DEF Next, Goes
  <2>2. CASE Client(r)
    BY <1>1, <2>2, ClientNothing DEF HInv
  <2>3. CASE Goes(r)
    BY <1>1, <2>3, HousedStay, CreationsStayAlone, OthersNothing, ItsNothing DEF HInv
  <2> QED
    BY <2>1, <2>2, <2>3
<1> QED
  BY <1>2, <1>3

\* Whatever is asked for, whatever fails and whoever stops waiting, a share that
\* exists is in a row in which it is found to be deleted: if a mount target and
\* the removal of a share have their file system for themselves, and the resource
\* service answers when it is asked whether a share is there.
THEOREM NoShareIsLost ==
  {"mount", "drop"} \subseteq Alone /\ "check" \notin Faults => (Spec => []NoOrphanShare)
<1> SUFFICES ASSUME {"mount", "drop"} \subseteq Alone, "check" \notin Faults
             PROVE  Spec => []NoOrphanShare
  OBVIOUS
<1>1. Init => HInv
  BY InitHInv
<1>2. HInv /\ [Next]_vars => HInv'
  BY HInvStep
<1>3. HInv => NoOrphanShare
  BY DEF HInv, SharesHoused, NoOrphanShare, Alive
<1> QED
  BY <1>1, <1>2, <1>3, PTL DEF Spec

----------------------------------------------------------------------------
(* What is kept twice. The lemmas of both agreements below.                  *)

\* Only a resize changes the size of a share, and only the compliance its mode.
LEMMA ShareKeeps ==
  ASSUME TInv, NEW r \in Requests, Goes(r), NEW s \in Shares, ~(AskShare(r) /\ s = FreeShare)
  PROVE  /\ \/ share'[s].size = share[s].size
            \/ RemoteServes(r) /\ s = job[r].share /\ Op(r) = "resize"
         /\ \/ share'[s].compliance = share[s].compliance
            \/ RemoteServes(r) /\ s = job[r].share /\ Op(r) = "compliance"
<1>1. share \in [Shares -> ShareRec] /\ share[s] \in ShareRec
  BY PartsTyped
<1>2. CASE share'[s] = share[s]
  BY <1>2
<1>3. CASE RemoteServes(r) /\ s = job[r].share
  <2>1. share' = [share EXCEPT ![s] = Served(r)]
    BY <1>3 DEF RemoteServes
  <2>2. /\ Op(r) # "resize" => Served(r).size = share[s].size
        /\ Op(r) # "compliance" => Served(r).compliance = share[s].compliance
    BY <1>1, <1>3 DEF Served, ShareRec
  <2> QED
    BY <1>1, <1>3, <2>1, <2>2
<1>4. CASE RemoteFails(r) /\ s = job[r].share
  BY <1>1, <1>4 DEF RemoteFails, ShareRec
<1> QED
  BY <1>2, <1>3, <1>4, SharesStay

\* What a resize, or the compliance, does to its share.
LEMMA ServedSets ==
  ASSUME TInv, StepsInOrder, NEW r \in Requests, RemoteServes(r), tpc[r] = "wait",
         Begun(r), job[r].share \in Shares
  PROVE  /\ Op(r) = "resize" => share'[job[r].share].size = job[r].want.size
         /\ Op(r) = "compliance" => share'[job[r].share].compliance = job[r].want.compliance
<1>1. share \in [Shares -> ShareRec] /\ share[job[r].share] \in ShareRec /\ StageOK(r)
  BY PartsTyped
<1>2. Op(r) \in Operations /\ job[r].steps \in StepsLeft(Op(r)) /\ job[r].steps # <<>>
  BY <1>1 DEF StepsInOrder, StageOK
<1>3. Op(r) \in {"resize", "compliance"} => Step(r) \notin {"create", "mount", "unmount", "drop", "delete"}
  BY <1>2, StepBelongs DEF Step
<1>4. share'[job[r].share] = Served(r)
  BY <1>1 DEF RemoteServes
<1>5. Op(r) = "resize" => Served(r).size = job[r].want.size
  BY <1>1, <1>3 DEF Served, Makes, Deletes, ShareRec
<1>6. Op(r) = "compliance" => Served(r).compliance = job[r].want.compliance
  BY <1>1, <1>3 DEF Served, Makes, Deletes, ShareRec
<1> QED
  BY <1>4, <1>5, <1>6

\* Who writes the configuration, and what.
LEMMA ConfChanges ==
  ASSUME TInv, NEW r \in Requests, Goes(r), NEW f \in FileSystems, conf'[f] # conf[f]
  PROVE  /\ f = On(r)
         /\ \/ BeginAction(r) /\ Op(r) = "mount" /\ conf'[f] = job[r].conf
            \/ WriteSize(r) /\ conf'[f] = job[r].want
            \/ StepWrites(r) /\ conf'[f] = Configured(r)
<1>1. conf \in [FileSystems -> Configs] /\ On(r) \in FileSystems
  BY PartsTyped
<1>2. BeginAction(r) \/ WriteSize(r) \/ StepWrites(r)
  BY DEF Goes, Serving, Working, Remote, BeginUpdate, Dispatch, DispatchFails, StepBegins, AskShare,
         AskChange, AskFails, RemoteAnswers, WaitFails, StepEnds, TaskFails, RemoteServes, RemoteFails
<1>3. CASE BeginAction(r)
  BY <1>1, <1>3 DEF BeginAction, WithConfig
<1>4. CASE WriteSize(r)
  BY <1>1, <1>4 DEF WriteSize, WithConfig
<1>5. CASE StepWrites(r)
  <2>1. conf' = conf \/ conf' = [conf EXCEPT ![On(r)] = Configured(r)]
    BY <1>5 DEF StepWrites, WithConfig
  <2> QED
    BY <1>1, <1>5, <2>1
<1> QED
  BY <1>2, <1>3, <1>4, <1>5

\* The parts of what a step writes.
LEMMA ConfiguredParts ==
  ASSUME TInv, NEW r \in Requests
  PROVE  /\ Configured(r).size = job[r].conf.size
         /\ Step(r) # "compliance" => Configured(r).compliance = job[r].conf.compliance
         /\ Step(r) = "compliance" => Configured(r).compliance = job[r].want.compliance
<1>1. job[r].conf \in Configs
  BY PartsTyped, JobParts
<1> QED
  BY <1>1 DEF Configured, Configs

\* The share that is made has the size and the mode that are wanted.
LEMMA MadeParts ==
  ASSUME TInv, NEW r \in Requests
  PROVE  /\ Step(r) = "create" => Made(r).compliance = job[r].want.compliance
         /\ Step(r) = "mount" \/ ~job[r].want.replica => Made(r).size = job[r].want.size
<1>1. job[r].want \in Configs
  BY PartsTyped, JobParts
<1> QED
  BY <1>1 DEF Made, Configs

\* What failed stays so, and so does what was made anew.
LEMMA FailedStays ==
  ASSUME TInv, OneShareComes, StepsInOrder, NEW r \in Requests, Client(r) \/ Goes(r),
         NEW f \in FileSystems, NEW ops
  PROVE  /\ FailedOn(f, ops) => FailedOn(f, ops)'
         /\ \A q \in Requests : Begun(q) => Op(q)' = Op(q) /\ On(q)' = On(q) /\ Begun(q)'
                                              /\ job'[q].want = job[q].want
<1>1. \A q \in Requests : rpc[q] = "failed" \/ tpc[q] \in {"failing", "failed"} => Begun(q)
  BY DEF TInv, StageOK, Begun
<1>2. CASE Client(r)
  <2>1. /\ \A q \in Requests \ {r} : rpc'[q] = rpc[q] /\ job'[q] = job[q]
        /\ ~Begun(r) /\ tpc' = tpc
    BY <1>2, ClientKeeps
  <2>2. \A q \in Requests : Begun(q) => Op(q)' = Op(q) /\ On(q)' = On(q) /\ Begun(q)'
                                              /\ job'[q].want = job[q].want
    BY <2>1 DEF Op, On, Begun
  <2>3. \A q \in Requests : Begun(q) => rpc'[q] = rpc[q]
    BY <2>1
  <2> QED
    BY <1>1, <2>1, <2>2, <2>3 DEF FailedOn
<1>3. CASE Goes(r)
  <2>1. \A q \in Requests \ {r} : rpc'[q] = rpc[q] /\ tpc'[q] = tpc[q] /\ job'[q] = job[q]
    BY <1>3, OthersWait
  <2>2. Op(r)' = Op(r) /\ On(r)' = On(r) /\ Begun(r)' /\ job'[r].want = job[r].want
    BY <1>3, JobStays, GoesBegun
  <2>3. \A q \in Requests : Begun(q) => Op(q)' = Op(q) /\ On(q)' = On(q) /\ Begun(q)'
                                          /\ job'[q].want = job[q].want
    BY <2>1, <2>2 DEF Op, On, Begun
  <2>4. /\ rpc[r] = "failed" => rpc'[r] = "failed"
        /\ tpc[r] \in {"failing", "failed"} => tpc'[r] \in {"failing", "failed"}
    <3>1. tpc \in [Requests -> TaskStages] /\ rpc \in [Requests -> RequestStages] /\ StageOK(r)
      BY PartsTyped
    <3>2. CASE Serving(r)
      BY <3>1, <3>2 DEF Serving, BeginUpdate, BeginAction, Dispatch, DispatchFails, WriteSize,
                        RequestGoes, TaskGoes, StageOK
    <3>3. CASE Working(r)
      BY <3>1, <3>3 DEF Working, StepBegins, AskShare, AskChange, AskFails, RemoteAnswers, WaitFails,
                        StepWrites, StepEnds, TaskFails, TaskGoes
    <3>4. CASE Remote(r)
      BY <3>4 DEF Remote, RemoteServes, RemoteFails
    <3> QED
      BY <1>3, <3>2, <3>3, <3>4 DEF Goes
  <2>5. \A q \in Requests : rpc[q] = "failed" \/ tpc[q] \in {"failing", "failed"}
                              => rpc'[q] = "failed" \/ tpc'[q] \in {"failing", "failed"}
    BY <2>1, <2>4
  <2> QED
    BY <1>1, <2>3, <2>5 DEF FailedOn
<1> QED
  BY <1>2, <1>3

\* A step that changes a row or makes a share is one of a busy request, and so is
\* one that writes the configuration.
LEMMA WritersBusy ==
  ASSUME TInv, NEW r \in Requests
  PROVE  AskShare(r) \/ AskChange(r) \/ StepWrites(r) \/ StepEnds(r) \/ BeginAction(r) \/ WriteSize(r)
           => Busy(r)
BY DEF AskShare, AskChange, StepWrites, StepEnds, BeginAction, WriteSize, Busy

----------------------------------------------------------------------------
(* The compliance mode: a step sets it in the share, the next one writes it.  *)

\* The compliance of f was set and perhaps not written, or its share made anew.
Excused(f) ==
  FailedOn(f, {"compliance"}) \/ \E r \in Requests : On(r) = f /\ Op(r) = "mount"

\* The share has the new mode and the configuration has not.
Setting(r) ==
  /\ Op(r) = "compliance"
  /\ \/ tpc[r] = "wait" /\ remote[r] = "success"
     \/ AtStep(r, "manage") /\ tpc[r] \in {"write", "close"}
     \/ AtStep(r, "compliance") /\ tpc[r] \in {"step", "write"}

ModeAgrees ==
  \A f \in FileSystems :
    /\ ~Excused(f) /\ HasUuid(f)
    /\ \A r \in Requests : On(r) = f => ~Setting(r)
    => conf[f].compliance = share[row[f].share].compliance

\* What a request has read of the mode is still so, and what it has set.
ModeKnown(r) ==
  /\ Setting(r) /\ ~Excused(On(r)) /\ HasUuid(On(r))
       => share[row[On(r)].share].compliance = job[r].want.compliance
  /\ Op(r) = "compliance" /\ tpc[r] = "wait" => row[On(r)].share = job[r].share
  /\ Op(r) = "compliance" /\ rpc[r] \in {"read", "dispatch"} => AtStep(r, "manage")
  /\ tpc[r] \in {"ask", "wait", "write"} => job[r].conf.compliance = conf[On(r)].compliance
  /\ Op(r) = "resize" /\ rpc[r] \in {"read", "dispatch", "config"}
       => job[r].want.compliance = conf[On(r)].compliance
  /\ rpc[r] = "config" => Op(r) = "resize"
  /\ Coming(r) => job[r].want.compliance = conf[On(r)].compliance

CInv == BInv /\ ModeAgrees /\ \A r \in Requests : ModeKnown(r)

\* An excuse stays one.
LEMMA ExcusedStays ==
  ASSUME TInv, OneShareComes, StepsInOrder, NEW r \in Requests, Client(r) \/ Goes(r),
         NEW f \in FileSystems, Excused(f)
  PROVE  Excused(f)'
<1>1. \A q \in Requests : Op(q) = "mount" => Begun(q)
  BY DEF StepsInOrder
<1> QED
  BY <1>1, FailedStays DEF Excused

\* The mode of a share stays, but for the step that is to set it.
LEMMA ModeStays ==
  ASSUME CInv, NEW r \in Requests, Goes(r), NEW f \in FileSystems, ~Excused(f)', HasUuid(f)'
  PROVE  \/ /\ row'[f].share = row[f].share
            /\ share'[row[f].share].compliance = share[row[f].share].compliance
         \/ /\ AskShare(r) /\ f = On(r) /\ Coming(r)
            /\ share'[row'[f].share].compliance = job[r].want.compliance
         \/ RemoteServes(r) /\ f = On(r) /\ Op(r) = "compliance" /\ tpc[r] = "wait"
<1>1. /\ TInv /\ OneShareComes /\ StepsInOrder /\ OwnShare /\ ~Excused(f)
      /\ row \in [FileSystems -> RowRec] /\ row[f].share \in Shares \cup {NoShare}
      /\ row'[f].share # NoShare /\ Begun(r)
      /\ Op(r)' = Op(r) /\ On(r)' = On(r)
  BY PartsTyped, ExcusedStays, GoesBegun, JobStays DEF CInv, BInv, PInv, HasUuid, RowRec
<1>2. CASE AskShare(r) /\ f = On(r)
  <2>1. Op(r) # "mount"
    BY <1>1, <1>2 DEF Excused
  <2>2. /\ Step(r) = "create" /\ Coming(r) /\ FreeShare \in Shares /\ row'[f].share = FreeShare
        /\ share' = [share EXCEPT ![FreeShare] = NewShare("building", Made(r))]
    BY <1>1, <1>2, <2>1, WhoMakes
  <2>3. share'[FreeShare].compliance = Made(r).compliance
    <3>1. share'[FreeShare] = NewShare("building", Made(r))
      BY <1>1, <2>2, PartsTyped
    <3> QED
      BY <3>1 DEF NewShare
  <2> QED
    BY <1>1, <1>2, <2>2, <2>3, MadeParts
<1>3. CASE ~(AskShare(r) /\ f = On(r))
  <2>1. row'[f].share = row[f].share /\ row[f].share \in Shares /\ HasUuid(f)
    BY <1>1, <1>3, RowsStay DEF HasUuid
  <2> DEFINE s == row[f].share
  <2>2. s \in Shares /\ share[s].state # "free"
    BY <1>1, <2>1 DEF OwnShare
  <2>3. ~(AskShare(r) /\ s = FreeShare)
    BY <1>1, <2>2, WhoMakes
  <2>4. CASE share'[s].compliance = share[s].compliance
    BY <2>1, <2>4
  <2>5. CASE RemoteServes(r) /\ s = job[r].share /\ Op(r) = "compliance"
    <3>1. f = On(r)
      BY <1>1, <2>1, <2>5 DEF OwnShare
    <3>2. tpc[r] \in {"wait", "failing", "failed"}
      BY <1>1, <2>5 DEF StepsInOrder, RemoteServes
    <3>3. tpc[r] \notin {"failing", "failed"}
      BY <1>1, <2>5, <3>1 DEF Excused, FailedOn
    <3> QED
      BY <2>5, <3>1, <3>2, <3>3
  <2> HIDE DEF s
  <2> QED
    BY <1>1, <2>2, <2>3, <2>4, <2>5, ShareKeeps
<1> QED
  BY <1>2, <1>3

\* The mode in a configuration stays, but for the step that writes it.
LEMMA ModeWritten ==
  ASSUME CInv, NEW r \in Requests, Goes(r), NEW f \in FileSystems,
         conf'[f].compliance # conf[f].compliance
  PROVE  /\ f = On(r) /\ Busy(r)
         /\ \/ BeginAction(r) /\ Op(r) = "mount"
            \/ /\ StepWrites(r) /\ AtStep(r, "compliance") /\ Op(r) = "compliance"
               /\ conf'[f].compliance = job[r].want.compliance
<1>1. /\ TInv /\ StepsInOrder /\ ModeKnown(r) /\ StageOK(r) /\ OneShareComes
  BY PartsTyped DEF CInv, BInv, PInv
<1>2. /\ f = On(r)
      /\ \/ BeginAction(r) /\ Op(r) = "mount"
         \/ WriteSize(r) /\ conf'[f] = job[r].want
         \/ StepWrites(r) /\ conf'[f] = Configured(r)
  BY <1>1, ConfChanges
<1>3. Busy(r)
  BY <1>1, <1>2, WritersBusy
<1>4. ~(WriteSize(r) /\ conf'[f] = job[r].want)
  BY <1>1, <1>2 DEF ModeKnown, WriteSize
<1>5. CASE StepWrites(r) /\ conf'[f] = Configured(r)
  <2>1. tpc[r] = "write" /\ job[r].steps # <<>> /\ Begun(r)
    BY <1>1, <1>5, GoesBegun DEF StepWrites, StageOK
  <2>2. job[r].conf.compliance = conf[f].compliance
    BY <1>1, <1>2, <2>1 DEF ModeKnown
  <2>3. Step(r) = "compliance" /\ conf'[f].compliance = job[r].want.compliance
    BY <1>1, <1>5, <2>2, ConfiguredParts
  <2>4. Op(r) = "compliance"
    BY <1>1, <2>1, <2>3, StepBelongs DEF StepsInOrder, Step
  <2> QED
    BY <1>2, <1>3, <1>5, <2>1, <2>3, <2>4 DEF AtStep
<1> QED
  BY <1>2, <1>3, <1>4, <1>5

\* The task goes from setting the mode to writing it.
LEMMA SettingGoes ==
  ASSUME CInv, NEW r \in Requests, Goes(r), Op(r) = "compliance"
  PROVE  /\ Setting(r)' => Setting(r) \/ (RemoteServes(r) /\ tpc[r] = "wait")
         /\ Setting(r) /\ ~Excused(On(r))' => Setting(r)' \/ (StepWrites(r) /\ AtStep(r, "compliance"))
         /\ RemoteServes(r) /\ tpc[r] = "wait" => Setting(r)'
<1>1. /\ TInv /\ OneShareComes /\ StepsInOrder /\ ModeKnown(r) /\ StageOK(r) /\ Begun(r)
      /\ tpc \in [Requests -> TaskStages] /\ remote \in [Requests -> RemoteStages]
      /\ job \in [Requests -> Jobs] /\ job[r] \in Jobs /\ rpc \in [Requests -> RequestStages]
      /\ On(r) \in FileSystems
  BY PartsTyped, GoesBegun DEF CInv, BInv, PInv
<1>2. /\ Op(r)' = "compliance" /\ On(r)' = On(r) /\ (StepEnds(r) \/ job'[r].steps = job[r].steps)
  BY <1>1, JobStays
<1>3. job[r].steps \in StepsLeft("compliance")
  BY <1>1 DEF StepsInOrder
<1>4. job[r].steps # <<>> => Step(r) \in {"manage", "compliance", "rpo"}
  BY <1>3, StepBelongs DEF Step, Operations
<1>5. ~AskShare(r)
  BY <1>1, WhoMakes
<1>6. tpc[r] \in {"ask", "wait"} => AtStep(r, "manage")
  BY <1>1, <1>4 DEF StepsInOrder, AsksService, StageOK, AtStep
<1>7. ~StepEnds(r) => /\ AtStep(r, "manage")' = AtStep(r, "manage")
                      /\ AtStep(r, "compliance")' = AtStep(r, "compliance")
  BY <1>2 DEF AtStep, Step
<1>8. StepEnds(r) => /\ tpc[r] = "close" /\ job[r].steps # <<>> /\ job'[r].steps = Tail(job[r].steps)
                     /\ tpc'[r] = IF Len(job[r].steps) = 1 THEN "ended" ELSE "step"
  BY <1>1 DEF StepEnds, StageOK, Holds, TaskGoes, Jobs
<1>9. RemoteServes(r) /\ tpc[r] = "wait" => Setting(r)'
  BY <1>1, <1>2 DEF RemoteServes, RemoteGoes, Setting
<1>10. Setting(r)' => Setting(r) \/ (RemoteServes(r) /\ tpc[r] = "wait")
  <2>1. CASE tpc'[r] = "wait" /\ remote'[r] = "success"
    <3>1. ~AskChange(r)
      BY <1>1, <2>1 DEF AskChange, RemoteGoes
    <3>2. tpc[r] = "wait"
      BY <1>1, <1>5, <2>1, <3>1, TaskBefore
    <3>3. RemoteServes(r) \/ remote[r] = "success"
      BY <1>1, <2>1, TaskBefore
    <3> QED
      BY <3>2, <3>3 DEF Setting
  <2>2. CASE AtStep(r, "manage")' /\ tpc'[r] \in {"write", "close"}
    <3>1. ~StepEnds(r)
      BY <1>8, <2>2
    <3>2. AtStep(r, "manage")
      BY <1>7, <2>2, <3>1
    <3>3. CASE tpc'[r] = "write"
      <4>1. AsksService(r)
        BY <3>2 DEF AsksService, AtStep
      <4>2. RemoteAnswers(r) \/ tpc[r] = "write"
        BY <1>1, <3>3, <4>1, TaskBefore
      <4> QED
        BY <3>2, <4>2 DEF Setting, RemoteAnswers
    <3>4. CASE tpc'[r] = "close"
      BY <1>1, <3>2, <3>4, TaskBefore DEF Setting, StepWrites
    <3> QED
      BY <2>2, <3>3, <3>4
  <2>3. CASE AtStep(r, "compliance")' /\ tpc'[r] = "write"
    <3>1. AtStep(r, "compliance")
      BY <1>7, <1>8, <2>3
    <3>2. tpc[r] \notin {"ask", "wait"}
      BY <1>6, <3>1 DEF AtStep
    <3>3. StepBegins(r) \/ tpc[r] = "write"
      BY <1>1, <2>3, <3>2, TaskBefore DEF RemoteAnswers
    <3> QED
      BY <3>1, <3>3 DEF Setting, StepBegins
  <2>4. CASE AtStep(r, "compliance")' /\ tpc'[r] = "step"
    <3>1. CASE StepEnds(r)
      <4>1. Step(r)' = Head(Tail(job[r].steps)) /\ Tail(job[r].steps) # <<>>
        BY <1>8, <2>4, <3>1 DEF Step, AtStep
      <4>2. Step(r) = "manage"
        <5> DEFINE q == job[r].steps
        <5> HIDE DEF q
        <5>1. q \in StepsLeft("compliance") /\ q # <<>> /\ Head(Tail(q)) = "compliance" /\ Tail(q) # <<>>
          BY <1>3, <1>8, <2>4, <3>1, <4>1 DEF AtStep, q
        <5>2. Head(q) = "manage"
          BY <5>1, StepBelongs DEF Operations
        <5> QED
          BY <5>2 DEF Step, q
      <4> QED
        BY <1>8, <3>1, <4>2 DEF Setting, AtStep
    <3>2. CASE ~StepEnds(r)
      <4>1. AtStep(r, "compliance")
        BY <1>7, <2>4, <3>2
      <4>2. tpc[r] \in {"step", "ask"} \/ rpc[r] = "dispatch"
        BY <1>1, <2>4, <3>2, StagesAfter
      <4>3. rpc[r] # "dispatch"
        BY <1>1, <4>1 DEF ModeKnown, AtStep
      <4>4. tpc[r] # "ask"
        BY <1>6, <4>1 DEF AtStep
      <4> QED
        BY <4>1, <4>2, <4>3, <4>4 DEF Setting
    <3> QED
      BY <3>1, <3>2
  <2> QED
    BY <2>1, <2>2, <2>3, <2>4 DEF Setting
<1>11. ASSUME Setting(r), ~Excused(On(r))'
       PROVE  Setting(r)' \/ (StepWrites(r) /\ AtStep(r, "compliance"))
  <2>0. tpc'[r] # "failing"
    BY <1>1, <1>2, <1>11 DEF Excused, FailedOn
  <2>1. CASE Serving(r)
    <3>1. tpc' = tpc /\ job' = job /\ remote' = remote
      BY <1>1, <1>11, <2>1 DEF Setting, Serving, BeginUpdate, BeginAction, Dispatch, DispatchFails,
                               WriteSize, StageOK
    <3> QED
      BY <1>2, <1>11, <3>1 DEF Setting, AtStep, Step
  <2>2. CASE Remote(r)
    <3>1. tpc' = tpc /\ job' = job /\ remote[r] = "running"
      BY <2>2 DEF Remote, RemoteServes, RemoteFails
    <3> QED
      BY <1>2, <1>11, <3>1 DEF Setting, AtStep, Step
  <2>3. CASE Working(r)
    <3>1. CASE StepBegins(r)
      <4>1. AtStep(r, "compliance")
        BY <1>11, <3>1 DEF Setting, StepBegins
      <4>2. ~AsksService(r)
        BY <4>1 DEF AsksService, AtStep
      <4>3. tpc'[r] = "write"
        BY <1>1, <2>0, <3>1, <4>2 DEF StepBegins, TaskGoes
      <4>4. ~StepEnds(r)
        BY <3>1 DEF StepBegins, StepEnds
      <4> QED
        BY <1>2, <1>7, <4>1, <4>3, <4>4 DEF Setting
    <3>2. CASE RemoteAnswers(r)
      <4>1. AtStep(r, "manage") /\ tpc'[r] = "write" /\ job' = job
        BY <1>1, <1>6, <3>2 DEF RemoteAnswers, TaskGoes
      <4> QED
        BY <1>2, <4>1 DEF Setting, AtStep, Step
    <3>3. CASE StepWrites(r)
      <4>1. tpc[r] = "write" /\ tpc'[r] = "close" /\ job' = job
        BY <1>1, <3>3 DEF StepWrites, TaskGoes
      <4> QED
        BY <1>2, <1>11, <3>3, <4>1 DEF Setting, AtStep, Step
    <3>4. CASE StepEnds(r)
      <4> DEFINE q == job[r].steps
      <4>1. AtStep(r, "manage")
        BY <1>8, <1>11, <3>4 DEF Setting
      <4>2. q \in StepsLeft("compliance") /\ q # <<>> /\ Head(q) = "manage"
        BY <1>3, <4>1 DEF AtStep, Step
      <4>3. job'[r].steps = Tail(q) /\ tpc'[r] = IF Len(q) = 1 THEN "ended" ELSE "step"
        BY <1>8, <3>4
      <4> HIDE DEF q
      <4>4. Head(Tail(q)) = "compliance" /\ Len(q) # 1
        BY <4>2, StepBelongs DEF Operations
      <4>5. Tail(q) # <<>>
        BY <4>2, <4>4, OneStepLess
      <4> QED
        BY <1>2, <4>3, <4>4, <4>5 DEF Setting, AtStep, Step
    <3>5. CASE AskChange(r) \/ AskFails(r) \/ TaskFails(r)
      BY <1>11, <3>5 DEF Setting, AskChange, AskFails, TaskFails
    <3>6. CASE WaitFails(r)
      BY <1>1, <2>0, <3>6 DEF WaitFails, TaskGoes
    <3> QED
      BY <1>5, <2>3, <3>1, <3>2, <3>3, <3>4, <3>5, <3>6 DEF Working
  <2> QED
    BY <2>1, <2>2, <2>3 DEF Goes
<1> QED
  BY <1>9, <1>10, <1>11

\* The others are not at the step that sets the mode, nor at the next one, for
\* what r does.
LEMMA OthersSet ==
  ASSUME TInv, NEW r \in Requests, Goes(r), NEW q \in Requests \ {r}
  PROVE  /\ On(q)' = On(q) /\ Op(q)' = Op(q) /\ job'[q] = job[q]
         /\ rpc'[q] = rpc[q] /\ tpc'[q] = tpc[q] /\ remote'[q] = remote[q]
         /\ Setting(q)' = Setting(q) /\ Coming(q)' = Coming(q)
         /\ AtStep(q, "manage")' = AtStep(q, "manage")
<1>1. rpc'[q] = rpc[q] /\ tpc'[q] = tpc[q] /\ remote'[q] = remote[q] /\ job'[q] = job[q]
  BY OthersWait
<1> QED
  BY <1>1 DEF On, Op, Setting, AtStep, Step, Coming

\* Who sets the mode, or is about to use it, is busy.
LEMMA SettingBusy ==
  ASSUME NEW q \in Requests
  PROVE  /\ Setting(q) => Busy(q) /\ Op(q) = "compliance"
         /\ tpc[q] \in {"ask", "wait", "write"} => Busy(q)
         /\ rpc[q] \in {"read", "dispatch", "config"} => Busy(q)
BY DEF Setting, Busy

\* Share and configuration agree after a step of r.
LEMMA ModeAgreesStays ==
  ASSUME CInv, NEW r \in Requests, Goes(r)
  PROVE  ModeAgrees'
<1>1. /\ TInv /\ OneShareComes /\ StepsInOrder /\ ModeKnown(r) /\ ModeAgrees
      /\ Op(r)' = Op(r) /\ On(r)' = On(r) /\ Begun(r)
  BY JobStays, GoesBegun DEF CInv, BInv, PInv
<1> SUFFICES ASSUME NEW f \in FileSystems, ~Excused(f)', HasUuid(f)',
                    \A q \in Requests : On(q)' = f => ~Setting(q)'
             PROVE  conf'[f].compliance = share'[row'[f].share].compliance
  BY DEF ModeAgrees
<1>2. ~Excused(f) /\ (f = On(r) => Op(r) # "mount")
  BY <1>1, ExcusedStays DEF Excused
<1>3. CASE /\ row'[f].share = row[f].share
           /\ share'[row[f].share].compliance = share[row[f].share].compliance
  <2>1. HasUuid(f)
    BY <1>3 DEF HasUuid
  <2>2. CASE Setting(r) /\ On(r) = f
    <3>1. Op(r) = "compliance" /\ ~Setting(r)'
      BY <1>1, <2>2 DEF Setting
    <3>2. ~Excused(On(r))'
      BY <1>1, <2>2
    <3>3. StepWrites(r) /\ AtStep(r, "compliance")
      BY <2>2, <3>1, <3>2, SettingGoes
    <3>4. Step(r) = "compliance" /\ Configured(r).compliance = job[r].want.compliance
      BY <1>1, <3>3, ConfiguredParts DEF AtStep
    <3>5. conf' = [conf EXCEPT ![f] = Configured(r)] /\ conf \in [FileSystems -> Configs]
      BY <1>1, <2>2, <3>3, <3>4, PartsTyped DEF StepWrites, WithConfig, Configures
    <3>6. conf'[f].compliance = job[r].want.compliance
      BY <3>4, <3>5
    <3>7. share[row[f].share].compliance = job[r].want.compliance
      BY <1>1, <1>2, <2>1, <2>2 DEF ModeKnown
    <3> QED
      BY <1>3, <3>6, <3>7
  <2>3. CASE ~(Setting(r) /\ On(r) = f)
    <3>1. \A q \in Requests : On(q) = f => ~Setting(q)
      BY <1>1, <2>3, OthersSet
    <3>2. conf[f].compliance = share[row[f].share].compliance
      BY <1>1, <1>2, <2>1, <3>1 DEF ModeAgrees
    <3>3. ~(StepWrites(r) /\ AtStep(r, "compliance") /\ Op(r) = "compliance" /\ f = On(r))
      BY <2>3 DEF Setting, StepWrites
    <3>4. conf'[f].compliance = conf[f].compliance
      BY <1>2, <3>3, ModeWritten
    <3> QED
      BY <1>3, <3>2, <3>4
  <2> QED
    BY <2>2, <2>3
<1>4. CASE /\ AskShare(r) /\ f = On(r) /\ Coming(r)
           /\ share'[row'[f].share].compliance = job[r].want.compliance
  <2>1. conf' = conf
    BY <1>4 DEF AskShare
  <2> QED
    BY <1>1, <1>4, <2>1 DEF ModeKnown
<1>5. CASE RemoteServes(r) /\ f = On(r) /\ Op(r) = "compliance" /\ tpc[r] = "wait"
  BY <1>1, <1>5, SettingGoes
<1> QED
  BY <1>3, <1>4, <1>5, ModeStays

\* What the others know of the mode.
LEMMA OthersModeKnown ==
  ASSUME {"mount", "compliance"} \subseteq Alone, CInv, NEW r \in Requests, Goes(r),
         NEW q \in Requests \ {r}
  PROVE  ModeKnown(q)'
<1>1. /\ TInv /\ OneShareComes /\ StepsInOrder /\ OneAtATime /\ ModeKnown(q)
      /\ Begun(r) /\ On(q) \in FileSystems
  BY PartsTyped, GoesBegun DEF CInv, BInv, PInv
<1>2. PICK f \in FileSystems : f = On(q)
  BY <1>1
<1>3. /\ On(q)' = f /\ Op(q)' = Op(q) /\ job'[q] = job[q]
      /\ rpc'[q] = rpc[q] /\ tpc'[q] = tpc[q] /\ remote'[q] = remote[q]
      /\ Setting(q)' = Setting(q) /\ Coming(q)' = Coming(q)
      /\ AtStep(q, "manage")' = AtStep(q, "manage")
  BY <1>1, <1>2, OthersSet
<1>4. Op(q) = "compliance" /\ Busy(q) => (Busy(r) => f # On(r))
  BY <1>1, <1>2 DEF OneAtATime
<1>5. Busy(q) => conf'[f].compliance = conf[f].compliance
  <2> SUFFICES ASSUME Busy(q), conf'[f].compliance # conf[f].compliance
               PROVE  FALSE
    OBVIOUS
  <2>1. f = On(r) /\ Busy(r) /\ Op(r) \in {"mount", "compliance"}
    BY ModeWritten
  <2> QED
    BY <1>1, <1>2, <2>1 DEF OneAtATime
<1>6. ASSUME Setting(q), ~Excused(f)', HasUuid(f)'
      PROVE  share'[row'[f].share].compliance = job[q].want.compliance
  <2>1. Busy(q) /\ Op(q) = "compliance" /\ ~Excused(f)
    BY <1>1, <1>6, SettingBusy, ExcusedStays
  <2>2. ~Busy(r) \/ f # On(r)
    BY <1>4, <2>1
  <2>3. ~(AskShare(r) /\ f = On(r)) /\ ~(f = On(r) /\ tpc[r] = "wait")
    BY <1>1, <2>2, WritersBusy, SettingBusy
  <2>4. /\ row'[f].share = row[f].share
        /\ share'[row[f].share].compliance = share[row[f].share].compliance
    BY <1>6, <2>3, ModeStays
  <2>5. HasUuid(f)
    BY <1>6, <2>4 DEF HasUuid
  <2> QED
    BY <1>1, <1>2, <1>6, <2>1, <2>4, <2>5 DEF ModeKnown
<1>7. ASSUME Op(q) = "compliance", tpc[q] = "wait"
      PROVE  row'[f].share = job[q].share
  <2>1. ~Busy(r) \/ f # On(r)
    BY <1>4, <1>7, SettingBusy
  <2>2. row'[f].share = row[f].share
    BY <1>1, <2>1, RowsKept, WritersBusy
  <2> QED
    BY <1>1, <1>2, <1>7, <2>2 DEF ModeKnown
<1>8. Coming(q) => Busy(q)
  BY <1>1, BusyBegun
<1> HIDE DEF Setting, Coming, AtStep
<1>9. /\ Setting(q)' /\ ~Excused(On(q))' /\ HasUuid(On(q))'
           => share'[row'[f].share].compliance = job[q].want.compliance
      /\ row'[On(q)'].share = row'[f].share /\ job'[q].want = job[q].want
  <2>1. /\ On(q)' = f
        /\ Excused(On(q))' = Excused(f)' /\ HasUuid(On(q))' = HasUuid(f)'
    <3>1. On(q)' = f
      BY <1>3
    <3> QED
      BY <3>1 DEF Excused, FailedOn, HasUuid
  <2> QED
    BY <1>3, <1>6, <2>1
<1> QED
  BY <1>1, <1>2, <1>3, <1>5, <1>7, <1>8, <1>9, SettingBusy DEF ModeKnown

\* What r knows of the mode.
LEMMA ItsModeKnown ==
  ASSUME {"mount", "compliance"} \subseteq Alone, CInv, NEW r \in Requests, Goes(r)
  PROVE  ModeKnown(r)'
<1>1. /\ TInv /\ OneShareComes /\ StepsInOrder /\ OneAtATime /\ ModeKnown(r)
      /\ Begun(r) /\ On(r) \in FileSystems /\ StageOK(r)
      /\ rpc \in [Requests -> RequestStages] /\ tpc \in [Requests -> TaskStages]
      /\ row[On(r)].share \in Shares \cup {NoShare} /\ row \in [FileSystems -> RowRec]
  BY PartsTyped, GoesBegun DEF CInv, BInv, PInv, RowRec
<1>2. PICK f \in FileSystems : f = On(r)
  BY <1>1
<1>3. /\ On(r)' = f /\ Op(r)' = Op(r) /\ job'[r].want = job[r].want
  BY <1>1, <1>2, JobStays
<1>4. AskShare(r) => Op(r) \in {"create", "mount"}
  BY <1>1, WhoMakes
<1>5. ASSUME Setting(r)', ~Excused(f)', HasUuid(f)'
      PROVE  share'[row'[f].share].compliance = job[r].want.compliance
  <2>1. Op(r) = "compliance" /\ ~Excused(f)
    BY <1>1, <1>3, <1>5, ExcusedStays DEF Setting
  <2>2. CASE RemoteServes(r) /\ tpc[r] = "wait"
    <3>1. row' = row /\ row[f].share = job[r].share /\ row[f].share # NoShare
      BY <1>1, <1>2, <1>5, <2>1, <2>2 DEF RemoteServes, ModeKnown, HasUuid
    <3>2. job[r].share \in Shares
      BY <1>1, <1>2, <3>1
    <3> QED
      BY <1>1, <2>1, <2>2, <3>1, <3>2, ServedSets
  <2>3. CASE Setting(r) /\ ~(RemoteServes(r) /\ tpc[r] = "wait")
    <3>1. /\ row'[f].share = row[f].share
          /\ share'[row[f].share].compliance = share[row[f].share].compliance
      BY <1>4, <1>5, <2>1, <2>3, ModeStays
    <3>2. HasUuid(f)
      BY <1>5, <3>1 DEF HasUuid
    <3> QED
      BY <1>1, <1>2, <2>1, <2>3, <3>1, <3>2 DEF ModeKnown
  <2> QED
    BY <1>5, <2>1, <2>2, <2>3, SettingGoes
<1>6. ASSUME Op(r) = "compliance", tpc'[r] = "wait"
      PROVE  row'[f].share = job'[r].share
  <2>1. AskChange(r) \/ (tpc[r] = "wait" /\ job' = job /\ row' = row)
    BY <1>1, <1>4, <1>6, TaskBefore
  <2>2. CASE AskChange(r)
    BY <1>1, <1>2, <2>2, JobRestStays DEF AskChange
  <2> QED
    BY <1>1, <1>2, <1>6, <2>1, <2>2 DEF ModeKnown
<1>7. ASSUME Op(r) = "compliance", rpc'[r] \in {"read", "dispatch"}
      PROVE  AtStep(r, "manage")'
  <2>1. rpc[r] \in {"read", "dispatch"}
    BY <1>1, <1>7, StagesAfter
  <2>2. ~StepEnds(r)
    BY <1>1, <2>1 DEF StepEnds, StageOK
  <2>3. job'[r].steps = job[r].steps
    BY <1>1, <2>2, JobStays
  <2> QED
    BY <1>1, <1>7, <2>1, <2>3 DEF ModeKnown, AtStep, Step
<1>8. ASSUME tpc'[r] \in {"ask", "wait", "write"}
      PROVE  job'[r].conf.compliance = conf'[f].compliance
  <2>1. CASE StepBegins(r)
    <3>1. conf' = conf /\ job' = [job EXCEPT ![r] = [job[r] EXCEPT !.conf = conf[f]]]
      BY <1>1, <1>2, <1>8, <2>1 DEF StepBegins, TaskGoes, Holds
    <3>2. job'[r].conf = conf[f]
      BY <1>1, <3>1, PartsTyped DEF Jobs
    <3> QED
      BY <3>1, <3>2
  <2>2. CASE ~StepBegins(r)
    <3>1. job'[r].conf = job[r].conf
      BY <1>1, <2>2, JobRestStays
    <3>2. tpc[r] \in {"ask", "wait", "write"}
      BY <1>1, <1>8, <2>2 DEF Goes, Serving, Working, Remote, BeginUpdate, BeginAction, Dispatch,
            DispatchFails, WriteSize, AskShare, AskChange, AskFails, RemoteAnswers, WaitFails, StepWrites,
            StepEnds, TaskFails, RemoteServes, RemoteFails, TaskGoes, StageOK
    <3>3. ~BeginAction(r) /\ ~StepWrites(r)
      BY <1>1, <1>8, <3>2 DEF BeginAction, StepWrites, StageOK, TaskGoes
    <3>4. conf'[f].compliance = conf[f].compliance
      BY <3>3, ModeWritten
    <3> QED
      BY <1>1, <1>2, <3>1, <3>2, <3>4 DEF ModeKnown
  <2> QED
    BY <2>1, <2>2
<1>9. rpc'[r] = "config" => Op(r) = "resize" /\ rpc[r] \in {"dispatch", "config"}
  <2>1. CASE Serving(r)
    BY <1>1, <2>1 DEF Serving, BeginUpdate, BeginAction, Dispatch, DispatchFails, WriteSize, RequestGoes,
                      ModeKnown
  <2>2. CASE ~Serving(r)
    <3>1. rpc' = rpc
      BY <2>2 DEF Goes, Working, Remote, StepBegins, AskShare, AskChange, AskFails, RemoteAnswers,
                  WaitFails, StepWrites, StepEnds, TaskFails, RemoteServes, RemoteFails
    <3> QED
      BY <1>1, <3>1 DEF ModeKnown
  <2> QED
    BY <2>1, <2>2
<1>10. Op(r) \notin {"mount", "compliance"} => conf'[f].compliance = conf[f].compliance
  BY ModeWritten
<1>11. ASSUME Op(r) = "resize", rpc'[r] \in {"read", "dispatch", "config"}
       PROVE  job[r].want.compliance = conf'[f].compliance
  <2>1. rpc[r] \in {"read", "dispatch", "config"}
    BY <1>1, <1>9, <1>11, StagesAfter
  <2> QED
    BY <1>1, <1>2, <1>10, <1>11, <2>1 DEF ModeKnown
<1>12. ASSUME Coming(r)'
       PROVE  job[r].want.compliance = conf'[f].compliance
  <2>1. Coming(r) /\ Op(r) = "create"
    BY <1>1, <1>12, ComingStays
  <2> QED
    BY <1>1, <1>2, <1>10, <2>1 DEF ModeKnown
<1> HIDE DEF Setting, Coming, AtStep
<1>13. Excused(On(r))' = Excused(f)' /\ HasUuid(On(r))' = HasUuid(f)'
  <2>1. On(r)' = f
    BY <1>3
  <2> QED
    BY <2>1 DEF Excused, FailedOn, HasUuid
<1> QED
  BY <1>3, <1>5, <1>6, <1>7, <1>8, <1>9, <1>11, <1>12, <1>13 DEF ModeKnown

\* A client's request beside the two modes.
LEMMA ClientMode ==
  ASSUME {"mount", "compliance"} \subseteq Alone, CInv, NEW r \in Requests, Client(r)
  PROVE  ModeAgrees' /\ \A q \in Requests : ModeKnown(q)'
<1>1. /\ TInv /\ OneShareComes /\ StepsInOrder /\ OneAtATime /\ OwnShare /\ ModeAgrees
      /\ "mount" \in Alone
      /\ \A q \in Requests : On(q) \in FileSystems /\ StageOK(q) /\ ModeKnown(q)
      /\ row \in [FileSystems -> RowRec] /\ conf \in [FileSystems -> Configs]
      /\ job \in [Requests -> Jobs] /\ rpc \in [Requests -> RequestStages]
  BY PartsTyped DEF CInv, BInv, PInv
<1>2. /\ \A q \in Requests \ {r} : rpc'[q] = rpc[q] /\ job'[q] = job[q]
      /\ rpc'[r] \in {"read", "dispatch"}
      /\ tpc' = tpc /\ remote' = remote /\ tpc[r] = "none" /\ share' = share /\ ~Begun(r)
  BY <1>1, ClientKeeps
<1>3. \A q \in Requests \ {r} :
        /\ On(q)' = On(q) /\ Op(q)' = Op(q) /\ Setting(q)' = Setting(q) /\ Coming(q)' = Coming(q)
        /\ AtStep(q, "manage")' = AtStep(q, "manage")
  BY <1>2 DEF On, Op, Setting, AtStep, Step, Coming
<1>4. ~Setting(r) /\ ~Setting(r)'
  <2>1. Op(r) = "touch"
    BY <1>1, <1>2 DEF StepsInOrder
  <2>2. tpc'[r] = "none"
    BY <1>2
  <2> QED
    BY <2>1, <2>2 DEF Setting
<1>5. \A g \in FileSystems : ~Excused(g)' => ~Excused(g)
  BY <1>1, ExcusedStays
<1>6. CASE \E f \in FileSystems, c \in Configs, s \in Shares \cup {NoShare} :
             Adds(r, f, c, s) /\ row[f].state = "absent"
  <2>1. PICK f \in FileSystems, c \in Configs, s \in Shares \cup {NoShare} :
               Adds(r, f, c, s) /\ row[f].state = "absent"
    BY <1>6
  <2>2. /\ job'[r].op = "create" /\ job'[r].on = f /\ job'[r].want = c
        /\ row'[f].share = NoShare
        /\ \A g \in FileSystems \ {f} : row'[g] = row[g]
        /\ conf' = [conf EXCEPT ![f] = c]
    BY <1>1, <2>1, AddsOne
  <2>3. \A q \in Requests \ {r} : Begun(q) => On(q) # f
    BY <1>1, <2>1, AddsBeside
  <2>4. /\ \A g \in FileSystems \ {f} : conf'[g] = conf[g] /\ HasUuid(g)' = HasUuid(g)
        /\ ~HasUuid(f)' /\ conf'[f] = c
    BY <1>1, <2>2 DEF HasUuid
  <2>5. ModeAgrees'
    <3> SUFFICES ASSUME NEW g \in FileSystems, ~Excused(g)', HasUuid(g)',
                        \A q \in Requests : On(q)' = g => ~Setting(q)'
                 PROVE  conf'[g].compliance = share'[row'[g].share].compliance
      BY DEF ModeAgrees
    <3>1. g # f /\ ~Excused(g) /\ HasUuid(g)
      BY <1>5, <2>4
    <3>2. \A q \in Requests : On(q) = g => ~Setting(q)
      BY <1>3, <1>4
    <3>3. conf[g].compliance = share[row[g].share].compliance
      BY <1>1, <3>1, <3>2 DEF ModeAgrees
    <3> QED
      BY <1>2, <2>2, <2>4, <3>1, <3>3
  <2>6. ModeKnown(r)'
    <3>1. rpc'[r] = "dispatch" /\ Op(r)' = "create" /\ On(r)' = f /\ tpc'[r] = "none"
      BY <1>1, <1>2, <2>1, <2>2 DEF Adds, RequestGoes, Op, On
    <3> HIDE DEF Setting, Coming, AtStep
    <3> QED
      BY <1>4, <2>2, <2>4, <3>1 DEF ModeKnown
  <2>7. ASSUME NEW q \in Requests \ {r}
        PROVE  ModeKnown(q)'
    <3>1. CASE Begun(q)
      <4>1. PICK g \in FileSystems \ {f} : g = On(q)
        BY <1>1, <2>3, <3>1
      <4>2. /\ On(q)' = g /\ row'[g] = row[g] /\ conf'[g] = conf[g] /\ HasUuid(g)' = HasUuid(g)
            /\ ~Excused(g)' => ~Excused(g)
        BY <1>3, <1>5, <2>2, <2>4, <4>1
      <4>3. Excused(On(q))' = Excused(g)' /\ HasUuid(On(q))' = HasUuid(g)'
        BY <4>2 DEF Excused, FailedOn, HasUuid
      <4> HIDE DEF Setting, Coming, AtStep, Excused, HasUuid
      <4> QED
        BY <1>1, <1>2, <1>3, <4>1, <4>2, <4>3 DEF ModeKnown
    <3>2. CASE ~Begun(q)
      <4>1. Op(q)' = "touch" /\ rpc'[q] = "idle" /\ tpc'[q] = "none"
        BY <1>1, <1>2, <1>3, <3>2 DEF StepsInOrder, Begun, StageOK
      <4> QED
        BY <4>1 DEF ModeKnown, Setting, Coming
    <3> QED
      BY <3>1, <3>2
  <2> QED
    BY <2>5, <2>6, <2>7
<1>7. CASE \E j : Asks(r, j) /\ AskedFor(r, j)
  <2>1. PICK j : Asks(r, j) /\ AskedFor(r, j)
    BY <1>7
  <2>2. /\ job'[r] = j /\ Op(r)' = j.op /\ On(r)' = j.on
        /\ rpc'[r] = "read" /\ tpc'[r] = "none" /\ remote'[r] = "none"
    BY <1>1, <2>1, AsksBeside
  <2>3. row' = row /\ conf' = conf /\ \A g \in FileSystems : HasUuid(g)' = HasUuid(g)
    BY <2>1 DEF Asks, HasUuid
  <2>4. ModeAgrees'
    <3> SUFFICES ASSUME NEW g \in FileSystems, ~Excused(g)', HasUuid(g)',
                        \A q \in Requests : On(q)' = g => ~Setting(q)'
                 PROVE  conf'[g].compliance = share'[row'[g].share].compliance
      BY DEF ModeAgrees
    <3>1. ~Excused(g) /\ HasUuid(g) /\ \A q \in Requests : On(q) = g => ~Setting(q)
      BY <1>3, <1>4, <1>5, <2>3
    <3> QED
      BY <1>1, <1>2, <2>3, <3>1 DEF ModeAgrees
  <2>5. ModeKnown(r)'
    <3>1. j.op # "create" /\ (j.op # "compliance" => j.want.compliance = conf[j.on].compliance)
      BY <2>1 DEF AskedFor
    <3>2. Op(r)' = "compliance" => AtStep(r, "manage")'
      BY <2>1, <2>2 DEF AskedFor, AtStep, Step
    <3>3. ~Coming(r)'
      BY <2>2, <3>1 DEF Coming
    <3> HIDE DEF Setting, Coming, AtStep
    <3> QED
      BY <1>4, <2>2, <2>3, <3>1, <3>2, <3>3 DEF ModeKnown
  <2>6. ASSUME NEW q \in Requests \ {r}
        PROVE  ModeKnown(q)'
    <3>1. PICK g \in FileSystems : g = On(q)
      BY <1>1
    <3>2. On(q)' = g /\ (~Excused(g)' => ~Excused(g))
      BY <1>3, <1>5, <3>1
    <3>3. Excused(On(q))' = Excused(g)' /\ HasUuid(On(q))' = HasUuid(g)'
      BY <3>2 DEF Excused, FailedOn, HasUuid
    <3> HIDE DEF Setting, Coming, AtStep, Excused, HasUuid
    <3> QED
      BY <1>1, <1>2, <1>3, <2>3, <3>1, <3>2, <3>3 DEF ModeKnown
  <2> QED
    BY <2>4, <2>5, <2>6
<1> QED
  BY <1>1, <1>6, <1>7, ClientAsks

LEMMA InitCInv == Init => CInv
<1> SUFFICES ASSUME Init PROVE CInv
  OBVIOUS
<1>1. BInv
  BY InitBInv
<1>2. \A r \in Requests : ~Setting(r) /\ ~Coming(r) /\ tpc[r] = "none" /\ rpc[r] = "idle"
  BY DEF Init, Setting, Coming
<1>3. ModeAgrees
  <2> SUFFICES ASSUME NEW f \in FileSystems, HasUuid(f)
               PROVE  conf[f].compliance = share[row[f].share].compliance
    BY DEF ModeAgrees
  <2>1. f \in Existing /\ row[f].share = Share[f]
    BY DEF Init, HasUuid
  <2>2. Share[f] \in Shares
    BY <2>1, ConstantsAssumption
  <2>3. share[Share[f]] = NewShare("live", FirstConfig(CHOOSE g \in Existing : Share[g] = Share[f]))
    BY <2>1, <2>2 DEF Init
  <2>4. \A c : NewShare("live", c).compliance = c.compliance
    BY DEF NewShare
  <2>5. \A g : FirstConfig(g).compliance = FALSE
    BY DEF FirstConfig
  <2>6. conf[f] = FirstConfig(f)
    BY DEF Init
  <2> QED
    BY <2>1, <2>3, <2>4, <2>5, <2>6
<1>4. \A r \in Requests : ModeKnown(r)
  BY <1>2 DEF ModeKnown
<1> QED
  BY <1>1, <1>3, <1>4 DEF CInv

LEMMA CInvStep == {"mount", "compliance"} \subseteq Alone => (CInv /\ [Next]_vars => CInv')
<1> SUFFICES ASSUME {"mount", "compliance"} \subseteq Alone, CInv, [Next]_vars
             PROVE  CInv'
  OBVIOUS
<1>1. BInv' /\ "mount" \in Alone
  BY BInvStep DEF CInv
<1>2. CASE UNCHANGED vars
  <2>1. ModeAgrees'
    BY <1>2 DEF CInv, vars, ModeAgrees, Excused, FailedOn, Setting, AtStep, Step, HasUuid, On, Op
  <2>2. \A q \in Requests : ModeKnown(q)'
    BY <1>2 DEF CInv, vars, ModeKnown, Excused, FailedOn, Setting, AtStep, Step, HasUuid, Coming, On, Op
  <2> QED
    BY <1>1, <2>1, <2>2 DEF CInv
<1>3. CASE Next
  <2>1. PICK r \in Requests : Client(r) \/ Goes(r)
    BY <1>3 DEF Next, Goes
  <2>2. CASE Client(r)
    BY <1>1, <2>2, ClientMode DEF CInv
  <2>3. CASE Goes(r)
    BY <1>1, <2>3, ModeAgreesStays, OthersModeKnown, ItsModeKnown DEF CInv
  <2> QED
    BY <2>1, <2>2, <2>3
<1> QED
  BY <1>2, <1>3

\* When nothing goes on about a file system, its configuration tells the
\* compliance mode of its share, though a task sets the one in a step and writes
\* the other in the next: if a mount target and the compliance have their file
\* system for themselves. Requests of every other kind may run beside each other,
\* and every call may fail.
THEOREM ComplianceKept ==
  {"mount", "compliance"} \subseteq Alone => (Spec => []ComplianceAgrees)
<1> SUFFICES ASSUME {"mount", "compliance"} \subseteq Alone
             PROVE  Spec => []ComplianceAgrees
  OBVIOUS
<1>1. Init => CInv
  BY InitCInv
<1>2. CInv /\ [Next]_vars => CInv'
  BY CInvStep
<1>3. CInv => ComplianceAgrees
  <2> SUFFICES ASSUME CInv, NEW f \in FileSystems, Quiet(f), Known(f),
                      ~FailedOn(f, {"compliance"}),
                      \A r \in Requests : On(r) = f => Op(r) # "mount"
               PROVE  conf[f].compliance = share[row[f].share].compliance
    BY DEF ComplianceAgrees
  <2>1. \A r \in Requests : On(r) = f => ~Setting(r)
    BY SettingBusy DEF Quiet
  <2>2. ~Excused(f) /\ HasUuid(f)
    BY DEF Excused, Known
  <2> QED
    BY <2>1, <2>2 DEF CInv, ModeAgrees
<1> QED
  BY <1>1, <1>2, <1>3, PTL DEF Spec

----------------------------------------------------------------------------
(* The size. A resize is told which way to go by the size in the              *)
(* configuration: that it is the size of the share lasts from the moment the  *)
(* request reads it to the moment the resource service changes the share.     *)

\* f is of version 1.0, or a resize of it failed, or it was made a replica.
Misjudged(f) == f \in Old \/ FailedOn(f, {"resize"}) \/ MadeReplica(f)

\* Request r resizes, and is not done with it.
Resizing(r) == Op(r) = "resize" /\ Busy(r)

SizesKept ==
  \A f \in FileSystems :
    /\ ~Misjudged(f) /\ Known(f)
    /\ \A r \in Requests : On(r) = f => ~Resizing(r)
    => conf[f].size = share[row[f].share].size

\* How far a resize has come: the direction is right until the share is changed,
\* the new size is written and set, whichever comes first.
SizeFits(r) ==
  /\ rpc[r] \in {"read", "dispatch"} => conf[On(r)].size = share[row[On(r)].share].size
  /\ \/ rpc[r] \in {"read", "dispatch"}
     \/ tpc[r] \in {"step", "ask"}
     \/ tpc[r] = "wait" /\ remote[r] = "running"
     => (job[r].extend <=> job[r].want.size > share[row[On(r)].share].size)
  /\ rpc[r] \notin {"read", "dispatch"} => job[r].has
  /\ rpc[r] = "done" => conf[On(r)].size = job[r].want.size
  /\ \/ tpc[r] = "wait" /\ remote[r] = "success"
     \/ tpc[r] \in {"write", "close", "ended"}
     => share[row[On(r)].share].size = job[r].want.size

\* What a request has read of the size is still so.
SizeKnown(r) ==
  /\ Resizing(r) /\ ~Misjudged(On(r)) /\ (Known(On(r)) \/ tpc[r] = "wait") => SizeFits(r)
  /\ Op(r) = "resize" /\ tpc[r] = "wait" => HasUuid(On(r)) /\ row[On(r)].share = job[r].share
  /\ Op(r) # "resize" /\ tpc[r] \in {"ask", "wait", "write"}
       => job[r].conf.size = conf[On(r)].size
  /\ Op(r) = "mount" /\ StillToAsk(r) => job[r].want.size = conf[On(r)].size
  /\ Op(r) = "mount" /\ rpc[r] = "read" => job[r].conf.size = conf[On(r)].size
  /\ Coming(r) => job[r].want.size = conf[On(r)].size
  /\ rpc[r] = "config" => Op(r) = "resize"
  /\ rpc[r] \in {"config", "done"} => tpc[r] # "none"

DInv == BInv /\ SizesKept /\ \A r \in Requests : SizeKnown(r)

\* A file system that is misjudged stays so.
LEMMA MisjudgedStays ==
  ASSUME TInv, OneShareComes, StepsInOrder, NEW r \in Requests, Client(r) \/ Goes(r),
         NEW f \in FileSystems, Misjudged(f)
  PROVE  Misjudged(f)'
<1>1. \A q \in Requests : Op(q) = "create" => Begun(q)
  BY DEF StepsInOrder
<1>2. CASE FailedOn(f, {"resize"})
  BY <1>2, FailedStays DEF Misjudged
<1>3. CASE MadeReplica(f)
  <2>1. PICK q \in Requests : On(q) = f /\ Op(q) = "create" /\ job[q].want.replica
    BY <1>3 DEF MadeReplica
  <2>2. Op(q)' = Op(q) /\ On(q)' = On(q) /\ job'[q].want = job[q].want
    BY <1>1, <2>1, FailedStays
  <2>3. MadeReplica(f)'
    BY <2>1, <2>2 DEF MadeReplica
  <2> QED
    BY <2>3 DEF Misjudged
<1>4. CASE f \in Old
  BY <1>4 DEF Misjudged
<1> QED
  BY <1>2, <1>3, <1>4 DEF Misjudged

\* What r does to the others.
LEMMA OthersSized ==
  ASSUME TInv, NEW r \in Requests, Goes(r), NEW q \in Requests \ {r}
  PROVE  /\ On(q)' = On(q) /\ Op(q)' = Op(q) /\ job'[q] = job[q]
         /\ rpc'[q] = rpc[q] /\ tpc'[q] = tpc[q] /\ remote'[q] = remote[q]
         /\ Busy(q)' = Busy(q) /\ Resizing(q)' = Resizing(q) /\ Coming(q)' = Coming(q)
         /\ StillToAsk(q)' = StillToAsk(q)
<1>1. rpc'[q] = rpc[q] /\ tpc'[q] = tpc[q] /\ remote'[q] = remote[q] /\ job'[q] = job[q]
  BY OthersWait
<1> QED
  BY <1>1 DEF On, Op, Resizing, Busy, Coming, StillToAsk

\* The size of the share of f stays, but for a resize of it that goes on, and so
\* does the share, unless it is made.
LEMMA SizeStays ==
  ASSUME DInv, NEW r \in Requests, Goes(r), NEW f \in FileSystems, ~Misjudged(f)',
         HasUuid(f), row'[f].share = row[f].share
  PROVE  \/ share'[row[f].share].size = share[row[f].share].size
         \/ RemoteServes(r) /\ f = On(r) /\ Op(r) = "resize" /\ tpc[r] = "wait"
<1>1. /\ TInv /\ OneShareComes /\ StepsInOrder /\ OwnShare /\ ~Misjudged(f)
      /\ row \in [FileSystems -> RowRec] /\ row[f].share \in Shares \cup {NoShare}
      /\ row[f].share # NoShare /\ Begun(r)
      /\ Op(r)' = Op(r) /\ On(r)' = On(r)
  BY PartsTyped, MisjudgedStays, GoesBegun, JobStays DEF DInv, BInv, PInv, HasUuid, RowRec
<1> DEFINE s == row[f].share
<1>2. s \in Shares /\ share[s].state # "free"
  BY <1>1 DEF OwnShare
<1>3. ~(AskShare(r) /\ s = FreeShare)
  BY <1>1, <1>2, WhoMakes
<1>4. CASE RemoteServes(r) /\ s = job[r].share /\ Op(r) = "resize"
  <2>1. f = On(r)
    BY <1>1, <1>4 DEF OwnShare
  <2>2. tpc[r] \in {"wait", "failing", "failed"}
    BY <1>1, <1>4 DEF StepsInOrder, RemoteServes
  <2>3. tpc[r] \notin {"failing", "failed"}
    BY <1>1, <1>4, <2>1 DEF Misjudged, FailedOn
  <2> QED
    BY <1>4, <2>1, <2>2, <2>3
<1> HIDE DEF s
<1>5. \/ share'[s].size = share[s].size
      \/ RemoteServes(r) /\ s = job[r].share /\ Op(r) = "resize"
  BY <1>1, <1>2, <1>3, ShareKeeps
<1> QED
  BY <1>4, <1>5 DEF s

\* The size in a configuration stays, but for the last write of a resize.
LEMMA SizeWritten ==
  ASSUME DInv, NEW r \in Requests, Goes(r), NEW f \in FileSystems,
         conf'[f].size # conf[f].size
  PROVE  f = On(r) /\ WriteSize(r) /\ conf'[f] = job[r].want /\ Resizing(r)
<1>1. /\ TInv /\ StepsInOrder /\ SizeKnown(r) /\ StageOK(r) /\ OneShareComes
  BY PartsTyped DEF DInv, BInv, PInv
<1>2. /\ f = On(r)
      /\ \/ BeginAction(r) /\ Op(r) = "mount" /\ conf'[f] = job[r].conf
         \/ WriteSize(r) /\ conf'[f] = job[r].want
         \/ StepWrites(r) /\ conf'[f] = Configured(r)
  BY <1>1, ConfChanges
<1>3. Busy(r)
  BY <1>1, <1>2, WritersBusy
<1>4. ~(BeginAction(r) /\ Op(r) = "mount" /\ conf'[f] = job[r].conf)
  BY <1>1, <1>2 DEF SizeKnown, BeginAction
<1>5. ASSUME StepWrites(r), conf'[f] = Configured(r)
      PROVE  FALSE
  <2>1. tpc[r] = "write" /\ job[r].steps # <<>> /\ Begun(r)
    BY <1>1, <1>5, GoesBegun DEF StepWrites, StageOK
  <2>2. Op(r) \in Operations /\ job[r].steps \in StepsLeft(Op(r))
    BY <1>1, <2>1 DEF StepsInOrder
  <2>3. Op(r) # "resize"
    <3> SUFFICES ASSUME Op(r) = "resize" PROVE FALSE
      OBVIOUS
    <3>1. Step(r) = "update"
      BY <2>1, <2>2, StepBelongs DEF Step
    <3>2. conf' = conf
      BY <1>5, <3>1 DEF StepWrites, Configures
    <3> QED
      BY <3>2
  <2>4. job[r].conf.size = conf[f].size
    BY <1>1, <1>2, <2>1, <2>3 DEF SizeKnown
  <2> QED
    BY <1>1, <1>5, <2>4, ConfiguredParts
<1>6. WriteSize(r) /\ conf'[f] = job[r].want
  BY <1>2, <1>4, <1>5
<1>7. Op(r) = "resize"
  BY <1>1, <1>6 DEF SizeKnown, WriteSize
<1> QED
  BY <1>2, <1>3, <1>6, <1>7 DEF Resizing

\* A file system that gets a share gets one of the size that is configured.
LEMMA SizeMade ==
  ASSUME DInv, NEW r \in Requests, Goes(r), AskShare(r), ~Misjudged(On(r)), NEW f \in FileSystems, f = On(r)
  PROVE  conf'[f].size = share'[row'[f].share].size
<1>1. /\ TInv /\ OneShareComes /\ SizeKnown(r)
  BY DEF DInv, BInv, PInv
<1>2. /\ FreeShare \in Shares /\ row'[f].share = FreeShare /\ conf' = conf
      /\ share' = [share EXCEPT ![FreeShare] = NewShare("building", Made(r))]
      /\ \/ Op(r) = "create" /\ Step(r) = "create" /\ Coming(r)
         \/ Op(r) = "mount" /\ Step(r) = "mount"
  BY <1>1, WhoMakes DEF AskShare
<1>3. share'[FreeShare].size = Made(r).size
  <2>1. share'[FreeShare] = NewShare("building", Made(r))
    BY <1>1, <1>2, PartsTyped
  <2> QED
    BY <2>1 DEF NewShare
<1>4. job[r].want.size = conf[f].size
  BY <1>1, <1>2 DEF SizeKnown, StillToAsk, AskShare
<1>5. Step(r) = "mount" \/ ~job[r].want.replica
  BY <1>2 DEF Misjudged, MadeReplica
<1> QED
  BY <1>1, <1>2, <1>3, <1>4, <1>5, MadeParts

\* A share that is known was, and is the same, unless it is made.
LEMMA SameKnown ==
  ASSUME DInv, NEW r \in Requests, Goes(r), NEW f \in FileSystems, Known(f)'
  PROVE  \/ AskShare(r) /\ f = On(r)
         \/ Known(f) /\ HasUuid(f) /\ row'[f].share = row[f].share
<1>1. TInv /\ OneShareComes /\ OwnShare
  BY DEF DInv, BInv, PInv
<1> SUFFICES ASSUME ~(AskShare(r) /\ f = On(r))
             PROVE  Known(f) /\ HasUuid(f) /\ row'[f].share = row[f].share
  OBVIOUS
<1>2. Known(f) /\ HasUuid(f)
  BY <1>1, KnownStays DEF Known
<1>3. row'[f].share # NoShare
  BY DEF Known, HasUuid
<1> QED
  BY <1>1, <1>2, <1>3, RowsStay

\* A resize that was going on still fits, and when it is over it has written and
\* set the same.
LEMMA ItsSizeFits ==
  ASSUME {"mount", "resize"} \subseteq Alone, "check" \notin Faults, DInv,
         NEW r \in Requests, Goes(r), Resizing(r),
         NEW f \in FileSystems, f = On(r), ~Misjudged(f)', Known(f)' \/ tpc'[r] = "wait"
  PROVE  /\ Known(f) \/ tpc[r] = "wait"
         /\ SizeFits(r)'
<1>1. /\ TInv /\ OneShareComes /\ StepsInOrder /\ OwnShare /\ SizeKnown(r) /\ StageOK(r) /\ Begun(r)
      /\ Op(r) = "resize" /\ ~Misjudged(f)
      /\ On(r)' = f /\ Op(r)' = "resize" /\ job'[r].want = job[r].want /\ job'[r].extend = job[r].extend
      /\ rpc \in [Requests -> RequestStages] /\ tpc \in [Requests -> TaskStages]
      /\ remote \in [Requests -> RemoteStages] /\ job \in [Requests -> Jobs]
      /\ conf \in [FileSystems -> Configs] /\ row \in [FileSystems -> RowRec]
  BY PartsTyped, GoesBegun, JobStays, JobRestStays, MisjudgedStays DEF DInv, BInv, PInv, Resizing
<1>2. ~AskShare(r)
  BY <1>1, WhoMakes
<1>3. /\ rpc[r] # "failed" /\ tpc[r] \notin {"failing", "failed"}
      /\ rpc'[r] # "failed" /\ tpc'[r] \notin {"failing", "failed"}
  BY <1>1 DEF Misjudged, FailedOn
<1>4. job[r].steps # <<>> => Step(r) = "update" /\ Len(job[r].steps) = 1
  BY <1>1, StepBelongs DEF StepsInOrder, Step
<1>5. tpc[r] \in {"step", "ask", "wait", "write", "close"} => Step(r) = "update"
  BY <1>1, <1>4 DEF StageOK
<1>6. /\ Known(f) \/ tpc[r] = "wait"
      /\ row'[f].share = row[f].share /\ HasUuid(f)
  <2>1. CASE Known(f)'
    BY <1>2, <2>1, SameKnown
  <2>2. CASE tpc'[r] = "wait"
    <3>1. AskChange(r) \/ (tpc[r] = "wait" /\ row' = row)
      BY <1>1, <1>2, <2>2, TaskBefore
    <3>2. CASE AskChange(r)
      <4>1. Known(f) /\ row' = row
        BY <1>1, <1>5, <3>2 DEF AskChange, CanAsk
      <4> QED
        BY <4>1 DEF Known
    <3>3. CASE tpc[r] = "wait" /\ row' = row
      BY <1>1, <3>3 DEF SizeKnown
    <3> QED
      BY <3>1, <3>2, <3>3
  <2> QED
    BY <2>1, <2>2
<1>7. SizeFits(r)
  BY <1>1, <1>6 DEF SizeKnown
<1> DEFINE s == row[f].share
<1>8. row'[f].share = s /\ s \in Shares
  BY <1>1, <1>6 DEF HasUuid, RowRec
<1> DEFINE now == share[s].size
<1> DEFINE new == share'[s].size
<1>9. new = now \/ (RemoteServes(r) /\ tpc[r] = "wait")
  BY <1>6, SizeStays
<1>10. conf'[f].size = conf[f].size \/ (WriteSize(r) /\ conf'[f] = job[r].want)
  BY SizeWritten
<1> HIDE DEF s, now, new
<1> DEFINE Fits(rp, tp, rem, has, cs, ss) ==
             /\ rp \in {"read", "dispatch"} => cs = ss
             /\ \/ rp \in {"read", "dispatch"}
                \/ tp \in {"step", "ask"}
                \/ tp = "wait" /\ rem = "running"
                => (job[r].extend <=> job[r].want.size > ss)
             /\ rp \notin {"read", "dispatch"} => has
             /\ rp = "done" => cs = job[r].want.size
             /\ \/ tp = "wait" /\ rem = "success"
                \/ tp \in {"write", "close", "ended"}
                => ss = job[r].want.size
<1>11. Fits(rpc[r], tpc[r], remote[r], job[r].has, conf[f].size, now)
  BY <1>7 DEF SizeFits, now, s
<1>12. Fits(rpc'[r], tpc'[r], remote'[r], job'[r].has, conf'[f].size, new) => SizeFits(r)'
  <2>1. SizeFits(r)' =
          (/\ rpc'[r] \in {"read", "dispatch"} => conf'[On(r)'].size = share'[row'[On(r)'].share].size
           /\ \/ rpc'[r] \in {"read", "dispatch"}
              \/ tpc'[r] \in {"step", "ask"}
              \/ tpc'[r] = "wait" /\ remote'[r] = "running"
              => (job'[r].extend <=> job'[r].want.size > share'[row'[On(r)'].share].size)
           /\ rpc'[r] \notin {"read", "dispatch"} => job'[r].has
           /\ rpc'[r] = "done" => conf'[On(r)'].size = job'[r].want.size
           /\ \/ tpc'[r] = "wait" /\ remote'[r] = "success"
              \/ tpc'[r] \in {"write", "close", "ended"}
              => share'[row'[On(r)'].share].size = job'[r].want.size)
    BY DEF SizeFits
  <2> QED
    BY <1>1, <1>8, <2>1 DEF new
<1> HIDE DEF Fits
<1>13. Fits(rpc'[r], tpc'[r], remote'[r], job'[r].has, conf'[f].size, new)
  <2>1. CASE BeginUpdate(r)
    <3>1. conf' = conf /\ tpc' = tpc /\ remote' = remote /\ job' = job /\ rpc[r] = "read" /\ rpc'[r] = "dispatch"
      BY <1>1, <2>1 DEF BeginUpdate, RequestGoes
    <3>2. new = now
      BY <1>1, <1>9, <3>1 DEF StageOK
    <3> QED
      BY <1>11, <3>1, <3>2 DEF Fits
  <2>2. CASE Dispatch(r)
    <3>1. /\ conf' = conf /\ remote' = remote /\ rpc[r] = "dispatch" /\ rpc'[r] = "config"
          /\ tpc[r] = "none" /\ tpc'[r] = "step"
      BY <1>1, <2>2 DEF Dispatch, RequestGoes, TaskGoes, StageOK
    <3>2. new = now
      BY <1>9, <3>1
    <3>3. Known(f)
      BY <1>6, <3>1
    <3>4. PICK found \in Found(f) : Holds(r, [job[r] EXCEPT !.has =
                   IF Op(r) \in {"resize", "touch", "delete"} THEN found ELSE @])
      BY <2>2 DEF Dispatch
    <3>5. found = TRUE
      BY <3>3, <3>4 DEF Found, May
    <3>6. job'[r].has = TRUE
      BY <1>1, <3>4, <3>5 DEF Holds, Jobs
    <3> QED
      BY <1>11, <3>1, <3>2, <3>6 DEF Fits
  <2>3. CASE WriteSize(r)
    <3>1. /\ tpc' = tpc /\ remote' = remote /\ job' = job /\ rpc[r] = "config" /\ rpc'[r] = "done"
          /\ conf'[f] = job[r].want
      BY <1>1, <2>3 DEF WriteSize, RequestGoes, WithConfig
    <3>2. new = now
      BY <2>3 DEF WriteSize, new, now
    <3> QED
      BY <1>11, <3>1, <3>2 DEF Fits
  <2>4. CASE StepBegins(r)
    <3>1. tpc[r] = "step" /\ rpc[r] \notin {"read", "dispatch"} /\ rpc' = rpc
      BY <1>1, <2>4 DEF StepBegins, StageOK
    <3>2. job[r].has
      BY <1>11, <3>1 DEF Fits
    <3>3. AsksService(r)
      BY <1>5, <3>1, <3>2 DEF AsksService
    <3>4. tpc'[r] = "ask" /\ conf' = conf /\ remote' = remote
      BY <1>1, <1>3, <2>4, <3>3 DEF StepBegins, TaskGoes
    <3>5. job'[r].has = job[r].has /\ new = now
      BY <1>1, <1>9, <2>4, <3>1, JobRestStays DEF StepBegins, Dispatch
    <3> QED
      BY <1>11, <3>1, <3>4, <3>5 DEF Fits
  <2>5. CASE AskChange(r)
    <3>1. /\ tpc[r] = "ask" /\ tpc'[r] = "wait" /\ remote'[r] = "running" /\ conf' = conf /\ rpc' = rpc
      BY <1>1, <2>5 DEF AskChange, TaskGoes, RemoteGoes
    <3>2. job'[r].has = job[r].has /\ new = now
      BY <1>1, <1>9, <2>5, <3>1, JobRestStays DEF AskChange, Dispatch, StageOK
    <3> QED
      BY <1>11, <3>1, <3>2 DEF Fits
  <2>6. CASE RemoteAnswers(r)
    <3>1. /\ tpc[r] = "wait" /\ remote[r] = "success" /\ tpc'[r] = "write" /\ conf' = conf /\ rpc' = rpc
          /\ job' = job
      BY <1>1, <2>6 DEF RemoteAnswers, TaskGoes
    <3>2. new = now
      BY <1>9, <2>6, <3>1 DEF RemoteServes
    <3> QED
      BY <1>11, <3>1, <3>2 DEF Fits
  <2>7. CASE StepWrites(r)
    <3>1. /\ tpc[r] = "write" /\ tpc'[r] = "close" /\ rpc' = rpc /\ job' = job
      BY <1>1, <2>7 DEF StepWrites, TaskGoes
    <3>2. conf' = conf
      BY <1>5, <2>7, <3>1 DEF StepWrites, Configures
    <3>3. new = now
      BY <1>9, <3>1
    <3> QED
      BY <1>11, <3>1, <3>2, <3>3 DEF Fits
  <2>8. CASE StepEnds(r)
    <3>1. tpc[r] = "close" /\ conf' = conf /\ rpc' = rpc
      BY <2>8 DEF StepEnds
    <3>2. job[r].steps # <<>>
      BY <1>1, <3>1 DEF StageOK
    <3>3. tpc'[r] = "ended"
      BY <1>1, <1>4, <2>8, <3>2 DEF StepEnds, TaskGoes
    <3>4. job'[r].has = job[r].has
      BY <1>1, <2>8, <3>1, JobRestStays DEF Dispatch, StageOK
    <3>5. new = now
      BY <1>9, <3>1
    <3> QED
      BY <1>11, <3>1, <3>3, <3>4, <3>5 DEF Fits
  <2>9. CASE RemoteServes(r)
    <3>1. /\ remote[r] = "running" /\ remote'[r] = "success"
          /\ conf' = conf /\ rpc' = rpc /\ tpc' = tpc /\ job' = job
      BY <1>1, <2>9 DEF RemoteServes, RemoteGoes
    <3>2. tpc[r] = "wait"
      BY <1>1, <1>3, <3>1 DEF StepsInOrder
    <3>3. s = job[r].share
      BY <1>1, <3>2 DEF SizeKnown, s
    <3>4. new = job[r].want.size
      BY <1>1, <1>8, <2>9, <3>2, <3>3, ServedSets DEF new
    <3>5. rpc[r] \notin {"read", "dispatch"}
      BY <1>1, <3>2 DEF StageOK
    <3> QED
      BY <1>11, <3>1, <3>2, <3>4, <3>5 DEF Fits
  <2>10. CASE RemoteFails(r)
    <3>1. /\ remote'[r] = "failure" /\ remote[r] = "running"
          /\ conf' = conf /\ rpc' = rpc /\ tpc' = tpc /\ job' = job
      BY <1>1, <2>10 DEF RemoteFails, RemoteGoes
    <3>2. new = now
      <4>1. tpc[r] = "wait"
        BY <1>1, <1>3, <3>1 DEF StepsInOrder
      <4>2. ~Makes(r)
        BY <1>5, <4>1 DEF Makes
      <4> QED
        BY <2>10, <4>2 DEF RemoteFails, new, now
    <3>3. tpc[r] = "wait"
      BY <1>1, <1>3, <3>1 DEF StepsInOrder
    <3>4. rpc[r] \notin {"read", "dispatch"}
      BY <1>1, <3>3 DEF StageOK
    <3> QED
      BY <1>11, <3>1, <3>2, <3>3, <3>4 DEF Fits
  <2>11. ~(BeginAction(r) \/ DispatchFails(r) \/ AskFails(r) \/ WaitFails(r) \/ TaskFails(r))
    BY <1>1, <1>3 DEF BeginAction, DispatchFails, AskFails, WaitFails, TaskFails, RequestGoes, TaskGoes
  <2> HIDE DEF Fits
  <2> QED
    BY <1>2, <2>1, <2>2, <2>3, <2>4, <2>5, <2>6, <2>7, <2>8, <2>9, <2>10, <2>11
       DEF Goes, Serving, Working, Remote
<1> QED
  BY <1>6, <1>12, <1>13

\* Share and configuration agree after a step of r.
LEMMA SizesStayKept ==
  ASSUME {"mount", "resize"} \subseteq Alone, "check" \notin Faults, DInv,
         NEW r \in Requests, Goes(r)
  PROVE  SizesKept'
<1>1. /\ TInv /\ OneShareComes /\ StepsInOrder /\ OwnShare /\ SizesKept /\ SizeKnown(r) /\ Begun(r)
      /\ Op(r)' = Op(r) /\ On(r)' = On(r) /\ job'[r].want = job[r].want
      /\ rpc \in [Requests -> RequestStages] /\ tpc \in [Requests -> TaskStages]
  BY PartsTyped, GoesBegun, JobStays DEF DInv, BInv, PInv
<1> SUFFICES ASSUME NEW f \in FileSystems, ~Misjudged(f)', Known(f)',
                    \A q \in Requests : On(q)' = f => ~Resizing(q)'
             PROVE  conf'[f].size = share'[row'[f].share].size
  BY DEF SizesKept
<1>2. ~Misjudged(f)
  BY <1>1, MisjudgedStays
<1>3. CASE AskShare(r) /\ f = On(r)
  BY <1>2, <1>3, SizeMade
<1>4. CASE /\ ~(AskShare(r) /\ f = On(r))
           /\ Known(f) /\ HasUuid(f) /\ row'[f].share = row[f].share
  <2>1. CASE Resizing(r) /\ f = On(r)
    <3>1. SizeFits(r)'
      BY <2>1, ItsSizeFits
    <3>2. ~Resizing(r)' /\ Op(r) = "resize"
      BY <1>1, <2>1 DEF Resizing
    <3>3. ~Busy(r)'
      BY <1>1, <3>2 DEF Resizing
    <3>4. TInv' /\ SizeKnown(r) /\ Begun(r)'
      BY <1>1, TInvStep, GoesBegun DEF Next, Goes
    <3>5. /\ rpc'[r] \in {"idle", "done", "failed"} /\ tpc'[r] \in {"none", "ended", "failed"}
          /\ rpc'[r] # "idle" /\ rpc'[r] # "failed" /\ tpc'[r] # "failed"
      BY <1>1, <2>1, <3>2, <3>3, <3>4 DEF Busy, Begun, Misjudged, FailedOn
    <3>6. tpc'[r] # "none"
      <4>1. tpc[r] = "none" => rpc[r] \in {"read", "dispatch"}
        BY <1>1, <2>1 DEF SizeKnown, Resizing, Busy, RequestStages
      <4>2. CASE rpc[r] = "read"
        BY <1>1, <3>2, <3>5, <4>2 DEF Goes, Serving, Working, Remote, BeginUpdate, BeginAction, Dispatch,
           DispatchFails, WriteSize, StepBegins, AskShare, AskChange, AskFails, RemoteAnswers, WaitFails,
           StepWrites, StepEnds, TaskFails, RemoteServes, RemoteFails, RequestGoes
      <4>3. CASE rpc[r] = "dispatch"
        BY <1>1, <3>2, <3>5, <4>3 DEF Goes, Serving, Working, Remote, BeginUpdate, BeginAction, Dispatch,
           DispatchFails, WriteSize, StepBegins, AskShare, AskChange, AskFails, RemoteAnswers, WaitFails,
           StepWrites, StepEnds, TaskFails, RemoteServes, RemoteFails, RequestGoes
      <4>4. CASE tpc[r] # "none"
        BY <1>1, <4>4 DEF Goes, Serving, Working, Remote, BeginUpdate, BeginAction, Dispatch,
           DispatchFails, WriteSize, StepBegins, AskShare, AskChange, AskFails, RemoteAnswers, WaitFails,
           StepWrites, StepEnds, TaskFails, RemoteServes, RemoteFails, TaskGoes
      <4> QED
        BY <4>1, <4>2, <4>3, <4>4
    <3>7. rpc'[r] = "done" /\ tpc'[r] = "ended"
      BY <3>5, <3>6
    <3> QED
      BY <1>1, <2>1, <3>1, <3>7 DEF SizeFits
  <2>2. CASE ~(Resizing(r) /\ f = On(r))
    <3>1. \A q \in Requests : On(q) = f => ~Resizing(q)
      BY <1>1, <2>2, OthersSized
    <3>2. conf[f].size = share[row[f].share].size
      BY <1>1, <1>2, <1>4, <3>1 DEF SizesKept
    <3>3. conf'[f].size = conf[f].size
      BY <2>2, SizeWritten
    <3>4. ~(RemoteServes(r) /\ f = On(r) /\ Op(r) = "resize" /\ tpc[r] = "wait")
      BY <2>2 DEF Resizing, Busy
    <3> QED
      BY <1>4, <3>2, <3>3, <3>4, SizeStays
  <2> QED
    BY <2>1, <2>2
<1> QED
  BY <1>3, <1>4, SameKnown

\* What the others know of the size.
LEMMA OthersSizeKnown ==
  ASSUME {"mount", "resize"} \subseteq Alone, DInv, NEW r \in Requests, Goes(r),
         NEW q \in Requests \ {r}
  PROVE  SizeKnown(q)'
<1>1. /\ TInv /\ OneShareComes /\ StepsInOrder /\ OneAtATime /\ SizeKnown(q)
      /\ Begun(r) /\ On(q) \in FileSystems
  BY PartsTyped, GoesBegun DEF DInv, BInv, PInv
<1>2. PICK f \in FileSystems : f = On(q)
  BY <1>1
<1>3. /\ On(q)' = f /\ Op(q)' = Op(q) /\ job'[q] = job[q]
      /\ rpc'[q] = rpc[q] /\ tpc'[q] = tpc[q] /\ remote'[q] = remote[q]
      /\ Resizing(q)' = Resizing(q) /\ Coming(q)' = Coming(q) /\ StillToAsk(q)' = StillToAsk(q)
  BY <1>1, <1>2, OthersSized
<1>4. Resizing(q) => ~(Busy(r) /\ f = On(r))
  BY <1>1, <1>2 DEF OneAtATime, Resizing
<1>5. Busy(q) => conf'[f].size = conf[f].size
  <2> SUFFICES ASSUME Busy(q), conf'[f].size # conf[f].size
               PROVE  FALSE
    OBVIOUS
  <2>1. f = On(r) /\ Busy(r) /\ Op(r) = "resize"
    BY SizeWritten DEF Resizing
  <2> QED
    BY <1>1, <1>2, <2>1 DEF OneAtATime
<1>6. Resizing(q) => row'[f].share = row[f].share
  BY <1>1, <1>4, RowsKept, WritersBusy
<1>7. tpc[q] = "wait" => Busy(q)
  BY SettingBusy
<1>8. Op(q) = "resize" /\ tpc[q] = "wait" => Resizing(q)
  BY <1>7 DEF Resizing
<1>9. ASSUME Resizing(q), ~Misjudged(f)', Known(f)' \/ tpc[q] = "wait"
      PROVE  /\ SizeFits(q) /\ conf'[f].size = conf[f].size
             /\ share'[row'[f].share].size = share[row[f].share].size
  <2>1. ~Misjudged(f) /\ Busy(q) /\ row'[f].share = row[f].share
    BY <1>1, <1>6, <1>9, MisjudgedStays DEF Resizing
  <2>2. ~(AskShare(r) /\ f = On(r)) /\ ~(f = On(r) /\ tpc[r] = "wait")
    <3>1. (AskShare(r) => Busy(r)) /\ (tpc[r] = "wait" => Busy(r))
      BY <1>1, WritersBusy, SettingBusy
    <3> QED
      BY <1>4, <1>9, <3>1
  <2>3. (Known(f) \/ tpc[q] = "wait") /\ HasUuid(f)
    <3>1. CASE Known(f)'
      BY <2>2, <3>1, SameKnown
    <3>2. CASE tpc[q] = "wait"
      BY <1>1, <1>2, <1>9, <3>2 DEF SizeKnown, Resizing
    <3> QED
      BY <1>9, <3>1, <3>2
  <2>4. SizeFits(q)
    BY <1>1, <1>2, <1>9, <2>1, <2>3 DEF SizeKnown
  <2>5. share'[row[f].share].size = share[row[f].share].size
    BY <1>9, <2>1, <2>2, <2>3, SizeStays
  <2> QED
    BY <1>5, <2>1, <2>4, <2>5
<1>10. /\ Misjudged(On(q))' = Misjudged(f)' /\ Known(On(q))' = Known(f)'
       /\ HasUuid(On(q))' = HasUuid(f)'
  <2>1. On(q)' = f
    BY <1>3
  <2> QED
    BY <2>1 DEF Misjudged, FailedOn, MadeReplica, Known, HasUuid
<1>11. Resizing(q)' /\ ~Misjudged(On(q))' /\ (Known(On(q))' \/ tpc'[q] = "wait") => SizeFits(q)'
  <2> SUFFICES ASSUME Resizing(q), ~Misjudged(f)', Known(f)' \/ tpc[q] = "wait"
               PROVE  SizeFits(q)'
    BY <1>3, <1>10
  <2> HIDE DEF Resizing, Misjudged, Known
  <2>1. /\ SizeFits(q) /\ conf'[f].size = conf[f].size
        /\ share'[row'[f].share].size = share[row[f].share].size
    BY <1>9
  <2> QED
    BY <1>2, <1>3, <2>1 DEF SizeFits
<1>12. Op(q) = "resize" /\ tpc[q] = "wait" => HasUuid(f)' /\ row'[f].share = job[q].share
  BY <1>1, <1>2, <1>6, <1>8 DEF SizeKnown, HasUuid
<1>13. /\ Coming(q) => Busy(q)
       /\ StillToAsk(q) => Busy(q)
       /\ tpc[q] \in {"ask", "wait", "write"} => Busy(q)
       /\ rpc[q] = "read" => Busy(q)
  BY <1>1, BusyBegun DEF StillToAsk, Busy
<1> HIDE DEF Resizing, Coming, StillToAsk, Misjudged, Known, SizeFits
<1> QED
  BY <1>1, <1>2, <1>3, <1>5, <1>10, <1>11, <1>12, <1>13 DEF SizeKnown

\* What r knows of the size.
LEMMA ItsSizeKnown ==
  ASSUME {"mount", "resize"} \subseteq Alone, "check" \notin Faults, DInv,
         NEW r \in Requests, Goes(r)
  PROVE  SizeKnown(r)'
<1>1. /\ TInv /\ OneShareComes /\ StepsInOrder /\ OneAtATime /\ SizeKnown(r)
      /\ Begun(r) /\ On(r) \in FileSystems /\ StageOK(r)
      /\ rpc \in [Requests -> RequestStages] /\ tpc \in [Requests -> TaskStages]
      /\ row \in [FileSystems -> RowRec]
  BY PartsTyped, GoesBegun DEF DInv, BInv, PInv
<1>2. PICK f \in FileSystems : f = On(r)
  BY <1>1
<1>3. /\ On(r)' = f /\ Op(r)' = Op(r) /\ job'[r].want = job[r].want
      /\ Busy(r)' => Busy(r)
  BY <1>1, <1>2, JobStays, StagesAfter
<1>4. AskShare(r) => Op(r) \in {"create", "mount"}
  BY <1>1, WhoMakes
<1>5. Op(r) # "resize" => conf'[f].size = conf[f].size
  BY SizeWritten DEF Resizing
<1>6. ASSUME Op(r) = "resize", tpc'[r] = "wait"
      PROVE  HasUuid(f)' /\ row'[f].share = job'[r].share
  <2>1. AskChange(r) \/ (tpc[r] = "wait" /\ job' = job /\ row' = row)
    BY <1>1, <1>4, <1>6, TaskBefore
  <2>2. CASE AskChange(r)
    <3>1. tpc[r] = "ask" /\ job[r].steps # <<>> /\ row' = row /\ CanAsk(r)
      BY <1>1, <2>2 DEF AskChange, StageOK
    <3>2. Step(r) = "update"
      BY <1>1, <1>6, <3>1, StepBelongs DEF StepsInOrder, Step
    <3>3. HasUuid(f)
      BY <1>2, <3>1, <3>2 DEF CanAsk, Known
    <3> QED
      BY <1>1, <1>2, <2>2, <3>1, <3>3, JobRestStays DEF HasUuid
  <2> QED
    BY <1>1, <1>2, <1>6, <2>1, <2>2 DEF SizeKnown, HasUuid
<1>7. ASSUME Op(r) # "resize", tpc'[r] \in {"ask", "wait", "write"}
      PROVE  job'[r].conf.size = conf'[f].size
  <2>1. CASE StepBegins(r)
    <3>1. conf' = conf /\ job' = [job EXCEPT ![r] = [job[r] EXCEPT !.conf = conf[f]]]
      BY <1>1, <1>2, <1>7, <2>1 DEF StepBegins, TaskGoes, Holds
    <3>2. job'[r].conf = conf[f]
      BY <1>1, <3>1, PartsTyped DEF Jobs
    <3> QED
      BY <3>1, <3>2
  <2>2. CASE ~StepBegins(r)
    <3>1. job'[r].conf = job[r].conf
      BY <1>1, <2>2, JobRestStays
    <3>2. tpc[r] \in {"ask", "wait", "write"}
      BY <1>1, <1>7, <2>2 DEF Goes, Serving, Working, Remote, BeginUpdate, BeginAction, Dispatch,
            DispatchFails, WriteSize, AskShare, AskChange, AskFails, RemoteAnswers, WaitFails, StepWrites,
            StepEnds, TaskFails, RemoteServes, RemoteFails, TaskGoes, StageOK
    <3> QED
      BY <1>1, <1>2, <1>5, <1>7, <3>1, <3>2 DEF SizeKnown
  <2> QED
    BY <2>1, <2>2
<1>8. ASSUME Op(r) = "mount", StillToAsk(r)'
      PROVE  job[r].want.size = conf'[f].size
  <2>1. StillToAsk(r)
    <3>1. CASE rpc'[r] \in {"read", "dispatch"}
      BY <1>1, <3>1, StagesAfter DEF StillToAsk
    <3>2. CASE tpc'[r] \in {"step", "ask"} /\ ~StepEnds(r)
      BY <1>1, <3>2, StagesAfter DEF StillToAsk
    <3>3. CASE StepEnds(r)
      <4>1. job[r].steps # <<>> /\ job[r].steps \in StepsLeft("mount")
        BY <1>1, <1>8, <3>3 DEF StepsInOrder, StepEnds, StageOK
      <4>2. Len(job[r].steps) = 1
        BY <4>1, StepBelongs DEF Operations
      <4>3. tpc'[r] = "ended" /\ rpc' = rpc /\ tpc[r] = "close"
        BY <1>1, <3>3, <4>2 DEF StepEnds, TaskGoes
      <4>4. rpc[r] \notin {"read", "dispatch"}
        BY <1>1, <4>3 DEF StageOK
      <4> QED
        BY <1>8, <4>3, <4>4 DEF StillToAsk
    <3> QED
      BY <1>8, <3>1, <3>2, <3>3 DEF StillToAsk
  <2> QED
    BY <1>1, <1>2, <1>5, <1>8, <2>1 DEF SizeKnown
<1>9. ASSUME Op(r) = "mount", rpc'[r] = "read"
      PROVE  job'[r].conf.size = conf'[f].size
  <2>1. rpc[r] = "read"
    BY <1>1, <1>9, StagesAfter
  <2>2. ~StepBegins(r)
    BY <1>1, <2>1 DEF StepBegins, StageOK
  <2>3. job'[r].conf = job[r].conf
    BY <1>1, <2>2, JobRestStays
  <2> QED
    BY <1>1, <1>2, <1>5, <1>9, <2>1, <2>3 DEF SizeKnown
<1>10. ASSUME Coming(r)'
       PROVE  job[r].want.size = conf'[f].size
  <2>1. Coming(r) /\ Op(r) = "create"
    BY <1>1, <1>10, ComingStays
  <2> QED
    BY <1>1, <1>2, <1>5, <2>1 DEF SizeKnown
<1>11. /\ rpc'[r] = "config" => Op(r) = "resize"
       /\ rpc'[r] \in {"config", "done"} => tpc'[r] # "none"
  <2>1. CASE Serving(r)
    BY <1>1, <2>1 DEF Serving, BeginUpdate, BeginAction, Dispatch, DispatchFails, WriteSize, RequestGoes,
                      TaskGoes, SizeKnown
  <2>2. CASE Working(r)
    <3>1. rpc' = rpc /\ tpc'[r] # "none"
      BY <1>1, <2>2 DEF Working, StepBegins, AskShare, AskChange, AskFails, RemoteAnswers,
                  WaitFails, StepWrites, StepEnds, TaskFails, TaskGoes
    <3> QED
      BY <1>1, <3>1 DEF SizeKnown
  <2>3. CASE Remote(r)
    BY <1>1, <2>3 DEF Remote, RemoteServes, RemoteFails, SizeKnown
  <2> QED
    BY <2>1, <2>2, <2>3 DEF Goes
<1>12. ASSUME Resizing(r)', ~Misjudged(f)', Known(f)' \/ tpc'[r] = "wait"
       PROVE  SizeFits(r)'
  <2>1. Resizing(r)
    BY <1>1, <1>3, <1>12 DEF Resizing
  <2> QED
    BY <1>2, <1>12, <2>1, ItsSizeFits
<1>13. /\ Misjudged(On(r))' = Misjudged(f)' /\ Known(On(r))' = Known(f)'
       /\ HasUuid(On(r))' = HasUuid(f)'
  <2>1. On(r)' = f
    BY <1>3
  <2> QED
    BY <2>1 DEF Misjudged, FailedOn, MadeReplica, Known, HasUuid
<1> HIDE DEF Resizing, Coming, StillToAsk, Misjudged, Known, SizeFits
<1> QED
  BY <1>3, <1>6, <1>7, <1>8, <1>9, <1>10, <1>11, <1>12, <1>13 DEF SizeKnown

\* A client's request beside the two sizes.
LEMMA ClientSize ==
  ASSUME {"mount", "resize"} \subseteq Alone, DInv, NEW r \in Requests, Client(r)
  PROVE  SizesKept' /\ \A q \in Requests : SizeKnown(q)'
<1>1. /\ TInv /\ OneShareComes /\ StepsInOrder /\ OneAtATime /\ OwnShare /\ SizesKept
      /\ {"mount", "resize"} \subseteq Alone
      /\ \A q \in Requests : On(q) \in FileSystems /\ StageOK(q) /\ SizeKnown(q)
      /\ row \in [FileSystems -> RowRec] /\ conf \in [FileSystems -> Configs]
      /\ job \in [Requests -> Jobs] /\ rpc \in [Requests -> RequestStages]
  BY PartsTyped DEF DInv, BInv, PInv
<1>2. /\ \A q \in Requests \ {r} : rpc'[q] = rpc[q] /\ job'[q] = job[q]
      /\ rpc'[r] \in {"read", "dispatch"}
      /\ tpc' = tpc /\ remote' = remote /\ tpc[r] = "none" /\ share' = share /\ ~Begun(r)
  BY <1>1, ClientKeeps
<1>3. \A q \in Requests \ {r} :
        /\ On(q)' = On(q) /\ Op(q)' = Op(q) /\ Resizing(q)' = Resizing(q) /\ Coming(q)' = Coming(q)
        /\ StillToAsk(q)' = StillToAsk(q)
  BY <1>2 DEF On, Op, Resizing, Busy, StillToAsk, Coming
<1>4. ~Resizing(r)
  BY <1>1, <1>2 DEF StepsInOrder, Resizing
<1>5. \A g \in FileSystems : ~Misjudged(g)' => ~Misjudged(g)
  BY <1>1, MisjudgedStays
<1>6. CASE \E f \in FileSystems, c \in Configs, s \in Shares \cup {NoShare} :
             Adds(r, f, c, s) /\ row[f].state = "absent"
  <2>1. PICK f \in FileSystems, c \in Configs, s \in Shares \cup {NoShare} :
               Adds(r, f, c, s) /\ row[f].state = "absent"
    BY <1>6
  <2>2. /\ job'[r].op = "create" /\ job'[r].on = f /\ job'[r].want = c
        /\ row'[f].share = NoShare
        /\ \A g \in FileSystems \ {f} : row'[g] = row[g]
        /\ conf' = [conf EXCEPT ![f] = c]
    BY <1>1, <2>1, AddsOne
  <2>3. \A q \in Requests \ {r} : Begun(q) => On(q) # f
    BY <1>1, <2>1, AddsBeside
  <2>4. /\ \A g \in FileSystems \ {f} :
             conf'[g] = conf[g] /\ HasUuid(g)' = HasUuid(g) /\ Known(g)' = Known(g)
        /\ ~HasUuid(f)' /\ ~Known(f)' /\ conf'[f] = c
    BY <1>1, <1>2, <2>2 DEF HasUuid, Known
  <2>5. SizesKept'
    <3> SUFFICES ASSUME NEW g \in FileSystems, ~Misjudged(g)', Known(g)',
                        \A q \in Requests : On(q)' = g => ~Resizing(q)'
                 PROVE  conf'[g].size = share'[row'[g].share].size
      BY DEF SizesKept
    <3>1. g # f /\ ~Misjudged(g) /\ Known(g)
      BY <1>5, <2>4
    <3>2. \A q \in Requests : On(q) = g => ~Resizing(q)
      BY <1>3, <1>4
    <3>3. conf[g].size = share[row[g].share].size
      BY <1>1, <3>1, <3>2 DEF SizesKept
    <3> QED
      BY <1>2, <2>2, <2>4, <3>1, <3>3
  <2>6. SizeKnown(r)'
    <3>1. rpc'[r] = "dispatch" /\ Op(r)' = "create" /\ On(r)' = f /\ tpc'[r] = "none"
      BY <1>1, <1>2, <2>1, <2>2 DEF Adds, RequestGoes, Op, On
    <3>2. ~Resizing(r)'
      BY <3>1 DEF Resizing
    <3> HIDE DEF Resizing, Coming, StillToAsk, SizeFits
    <3> QED
      BY <2>2, <2>4, <3>1, <3>2 DEF SizeKnown
  <2>7. ASSUME NEW q \in Requests \ {r}
        PROVE  SizeKnown(q)'
    <3>1. CASE Begun(q)
      <4>1. PICK g \in FileSystems \ {f} : g = On(q)
        BY <1>1, <2>3, <3>1
      <4>2. /\ On(q)' = g /\ row'[g] = row[g] /\ conf'[g] = conf[g] /\ HasUuid(g)' = HasUuid(g)
            /\ Known(g)' = Known(g) /\ (~Misjudged(g)' => ~Misjudged(g))
        BY <1>3, <1>5, <2>2, <2>4, <4>1
      <4>3. /\ Misjudged(On(q))' = Misjudged(g)' /\ HasUuid(On(q))' = HasUuid(g)'
            /\ Known(On(q))' = Known(g)'
        BY <4>2 DEF Misjudged, FailedOn, MadeReplica, HasUuid, Known
      <4>4. SizeFits(q)' = SizeFits(q)
        BY <1>2, <4>1, <4>2 DEF SizeFits
      <4> HIDE DEF Resizing, Coming, StillToAsk, Misjudged, HasUuid, Known, SizeFits
      <4> QED
        BY <1>1, <1>2, <1>3, <4>1, <4>2, <4>3, <4>4 DEF SizeKnown
    <3>2. CASE ~Begun(q)
      <4>1. Op(q)' = "touch" /\ rpc'[q] = "idle" /\ tpc'[q] = "none"
        BY <1>1, <1>2, <1>3, <3>2 DEF StepsInOrder, Begun, StageOK
      <4> QED
        BY <4>1 DEF SizeKnown, Resizing, Coming, StillToAsk
    <3> QED
      BY <3>1, <3>2
  <2> QED
    BY <2>5, <2>6, <2>7
<1>7. CASE \E j : Asks(r, j) /\ AskedFor(r, j)
  <2>1. PICK j : Asks(r, j) /\ AskedFor(r, j)
    BY <1>7
  <2>2. /\ job'[r] = j /\ Op(r)' = j.op /\ On(r)' = j.on
        /\ rpc'[r] = "read" /\ tpc'[r] = "none" /\ remote'[r] = "none"
        /\ j.op \in Alone => \A q \in Requests : Busy(q) => On(q) # j.on
    BY <1>1, <2>1, AsksBeside
  <2>3. /\ row' = row /\ conf' = conf /\ \A g \in FileSystems : HasUuid(g)' = HasUuid(g)
        /\ \A g \in FileSystems : Known(g)' = Known(g)
    BY <1>2, <2>1 DEF Asks, HasUuid, Known
  <2>4. SizesKept'
    <3> SUFFICES ASSUME NEW g \in FileSystems, ~Misjudged(g)', Known(g)',
                        \A q \in Requests : On(q)' = g => ~Resizing(q)'
                 PROVE  conf'[g].size = share'[row'[g].share].size
      BY DEF SizesKept
    <3>1. ~Misjudged(g) /\ Known(g) /\ \A q \in Requests : On(q) = g => ~Resizing(q)
      BY <1>3, <1>4, <1>5, <2>3
    <3> QED
      BY <1>1, <1>2, <2>3, <3>1 DEF SizesKept
  <2>5. SizeKnown(r)'
    <3>1. PICK g \in FileSystems : g = j.on
      BY <2>1 DEF AskedFor
    <3>2. /\ On(r)' = g /\ j.op # "create"
          /\ j.conf = conf[g] /\ (j.op # "resize" => j.want.size = conf[g].size)
          /\ j.op = "resize" => (j.extend <=> j.want.size > conf[g].size)
      BY <2>1, <2>2, <3>1 DEF AskedFor
    <3>3. ~Coming(r)'
      BY <2>2, <3>2 DEF Coming
    <3>4. /\ Misjudged(On(r))' = Misjudged(g)' /\ Known(On(r))' = Known(g)'
      BY <3>2 DEF Misjudged, FailedOn, MadeReplica, HasUuid, Known
    <3>5. ASSUME Resizing(r)', ~Misjudged(g)', Known(g)'
          PROVE  SizeFits(r)'
      <4>1. j.op = "resize" /\ ~Misjudged(g) /\ Known(g)
        BY <1>5, <2>2, <2>3, <3>5 DEF Resizing
      <4>2. \A q \in Requests : On(q) = g => ~Resizing(q)
        BY <1>1, <2>2, <3>1, <4>1 DEF Resizing
      <4>3. conf[g].size = share[row[g].share].size
        BY <1>1, <4>1, <4>2 DEF SizesKept
      <4>4. j.extend <=> j.want.size > share[row[g].share].size
        BY <3>2, <4>1, <4>3
      <4> HIDE DEF Resizing, Misjudged, Known
      <4> QED
        BY <1>2, <2>2, <2>3, <3>2, <4>3, <4>4 DEF SizeFits
    <3> HIDE DEF Resizing, Coming, Misjudged, Known, SizeFits, HasUuid
    <3> QED
      BY <2>2, <2>3, <3>2, <3>3, <3>4, <3>5 DEF SizeKnown
  <2>6. ASSUME NEW q \in Requests \ {r}
        PROVE  SizeKnown(q)'
    <3>1. PICK g \in FileSystems : g = On(q)
      BY <1>1
    <3>2. On(q)' = g /\ (~Misjudged(g)' => ~Misjudged(g))
      BY <1>3, <1>5, <3>1
    <3>3. Misjudged(On(q))' = Misjudged(g)' /\ HasUuid(On(q))' = HasUuid(g)' /\ Known(On(q))' = Known(g)'
      BY <3>2 DEF Misjudged, FailedOn, MadeReplica, HasUuid, Known
    <3>4. SizeFits(q)' = SizeFits(q)
      BY <1>2, <2>3, <3>1, <3>2 DEF SizeFits
    <3> HIDE DEF Resizing, Coming, StillToAsk, Misjudged, HasUuid, Known, SizeFits
    <3> QED
      BY <1>1, <1>2, <1>3, <2>3, <3>1, <3>2, <3>3, <3>4 DEF SizeKnown
  <2> QED
    BY <2>4, <2>5, <2>6
<1> QED
  BY <1>1, <1>6, <1>7, ClientAsks

LEMMA InitDInv == Init => DInv
<1> SUFFICES ASSUME Init PROVE DInv
  OBVIOUS
<1>1. BInv
  BY InitBInv
<1>2. \A r \in Requests : ~Resizing(r) /\ ~Coming(r) /\ ~StillToAsk(r) /\ tpc[r] = "none" /\ rpc[r] = "idle"
  BY DEF Init, Resizing, Busy, Coming, StillToAsk
<1>3. SizesKept
  <2> SUFFICES ASSUME NEW f \in FileSystems, HasUuid(f)
               PROVE  conf[f].size = share[row[f].share].size
    BY DEF SizesKept, Known
  <2>1. f \in Existing /\ row[f].share = Share[f]
    BY DEF Init, HasUuid
  <2>2. Share[f] \in Shares
    BY <2>1, ConstantsAssumption
  <2>3. share[Share[f]] = NewShare("live", FirstConfig(CHOOSE g \in Existing : Share[g] = Share[f]))
    BY <2>1, <2>2 DEF Init
  <2>4. \A c : NewShare("live", c).size = c.size
    BY DEF NewShare
  <2>5. \A g : FirstConfig(g).size = CHOOSE n \in Sizes : TRUE
    BY DEF FirstConfig
  <2>6. conf[f] = FirstConfig(f)
    BY DEF Init
  <2> QED
    BY <2>1, <2>3, <2>4, <2>5, <2>6
<1>4. \A r \in Requests : SizeKnown(r)
  BY <1>2 DEF SizeKnown
<1> QED
  BY <1>1, <1>3, <1>4 DEF DInv

LEMMA DInvStep ==
  {"mount", "resize"} \subseteq Alone /\ "check" \notin Faults => (DInv /\ [Next]_vars => DInv')
<1> SUFFICES ASSUME {"mount", "resize"} \subseteq Alone, "check" \notin Faults, DInv, [Next]_vars
             PROVE  DInv'
  OBVIOUS
<1>1. BInv' /\ "mount" \in Alone
  BY BInvStep DEF DInv
<1>2. CASE UNCHANGED vars
  <2>1. SizesKept'
    BY <1>2 DEF DInv, vars, SizesKept, Misjudged, FailedOn, MadeReplica, Known, HasUuid, Resizing, Busy, On, Op
  <2>2. ASSUME NEW q \in Requests
        PROVE  SizeKnown(q)'
    <3>1. /\ Resizing(q)' = Resizing(q) /\ Misjudged(On(q))' = Misjudged(On(q))
          /\ Known(On(q))' = Known(On(q)) /\ HasUuid(On(q))' = HasUuid(On(q))
          /\ SizeFits(q)' = SizeFits(q) /\ StillToAsk(q)' = StillToAsk(q) /\ Coming(q)' = Coming(q)
          /\ Op(q)' = Op(q) /\ On(q)' = On(q)
      BY <1>2 DEF vars, Misjudged, FailedOn, MadeReplica, Known, HasUuid, Resizing, Busy, On, Op, SizeFits,
                  StillToAsk, Coming
    <3>2. SizeKnown(q) /\ UNCHANGED vars
      BY <1>2 DEF DInv
    <3> HIDE DEF Resizing, Coming, StillToAsk, Misjudged, HasUuid, Known, SizeFits
    <3> QED
      BY <3>1, <3>2 DEF SizeKnown, vars
  <2> QED
    BY <1>1, <2>1, <2>2 DEF DInv
<1>3. CASE Next
  <2>1. PICK r \in Requests : Client(r) \/ Goes(r)
    BY <1>3 DEF Next, Goes
  <2>2. CASE Client(r)
    BY <1>1, <2>2, ClientSize DEF DInv
  <2>3. CASE Goes(r)
    BY <1>1, <2>3, SizesStayKept, OthersSizeKnown, ItsSizeKnown DEF DInv
  <2> QED
    BY <2>1, <2>2, <2>3
<1> QED
  BY <1>2, <1>3

\* The resource service is told to extend a share that is to grow and to shrink
\* one that is not, by a request that knows the size in the configuration only:
\* if a mount target and a resize have their file system for themselves, and the
\* resource service answers when it is asked whether a share is there. The other
\* calls may fail, and any number of requests may follow each other.
THEOREM ResizesFit ==
  {"mount", "resize"} \subseteq Alone /\ "check" \notin Faults => (Spec => []DirectionFits)
<1> SUFFICES ASSUME {"mount", "resize"} \subseteq Alone, "check" \notin Faults
             PROVE  Spec => []DirectionFits
  OBVIOUS
<1>1. Init => DInv
  BY InitDInv
<1>2. DInv /\ [Next]_vars => DInv'
  BY DInvStep
<1>3. DInv => DirectionFits
  <2> SUFFICES ASSUME DInv, NEW r \in Requests, remote[r] = "running", Op(r) = "resize", On(r) \notin Old,
                      ~FailedOn(On(r), {"resize"}), ~MadeReplica(On(r))
               PROVE  job[r].extend <=> job[r].want.size > share[job[r].share].size
    BY DEF DirectionFits
  <2>1. TInv /\ StepsInOrder /\ SizeKnown(r)
    BY DEF DInv, BInv, PInv
  <2>2. tpc[r] = "wait" /\ ~Misjudged(On(r))
    BY <2>1 DEF StepsInOrder, FailedOn, Misjudged
  <2>3. Resizing(r)
    BY <2>2 DEF Resizing, Busy
  <2>4. SizeFits(r) /\ row[On(r)].share = job[r].share
    BY <2>1, <2>2, <2>3 DEF SizeKnown
  <2> QED
    BY <2>2, <2>4 DEF SizeFits
<1> QED
  BY <1>1, <1>2, <1>3, PTL DEF Spec

\* What the comment of the last write of resize_filesystem says of the sizes is
\* right, under the same conditions, until a resize fails or a file system is made
\* as a replica: nothing else makes configuration and share disagree.
THEOREM SizesAgreeOtherwise ==
  {"mount", "resize"} \subseteq Alone /\ "check" \notin Faults
    => (Spec => []((\A f \in FileSystems : ~Misjudged(f)) => SizeAgrees))
<1> SUFFICES ASSUME {"mount", "resize"} \subseteq Alone, "check" \notin Faults
             PROVE  Spec => []((\A f \in FileSystems : ~Misjudged(f)) => SizeAgrees)
  OBVIOUS
<1>1. Init => DInv
  BY InitDInv
<1>2. DInv /\ [Next]_vars => DInv'
  BY DInvStep
<1>3. DInv => ((\A f \in FileSystems : ~Misjudged(f)) => SizeAgrees)
  BY DEF DInv, SizesKept, SizeAgrees, Quiet, Resizing
<1> QED
  BY <1>1, <1>2, <1>3, PTL DEF Spec
============================================================================
