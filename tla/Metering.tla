----------------------------- MODULE Metering -----------------------------
(* Metrics and consumes: the survey task that reads the metrics of every     *)
(* container and stores them, the clients that add metrics, and the daily    *)
(* job that turns a day of metrics into consumes.                            *)
(*                                                                           *)
(* A metric is stored under a metric type, looked up by its name and added   *)
(* when the name is new. Rows of table service_metric are the sequence       *)
(* stored: their order is that of their ids. The procedures are those of     *)
(* db_script/procedure/db_service_procedure.sql.                             *)
EXTENDS FiniteSets, Integers, Sequences

CONSTANTS
  Containers,   \* container services of the accounts
  Accounts,
  Opened,       \* Opened[a]: the hour when account a is made, or one before the clock
  Expires,      \* Expires[a]: the hour when it expires, or one after the clock
  Owner,        \* Owner[c]: the account of container c
  Report,       \* Report[c]: names of the metrics that container c has
  Names,        \* names of metrics
  FirstTypes,   \* names that have a metric type from the start
  Values,       \* values of metrics
  Surveys,      \* tasks that acquire metrics
  Clients,      \* requests that add a metric
  Dailies,      \* daily jobs
  Casts,        \* which of them take part in a behaviour: a bound
  Hours,        \* hours of a day
  Days,         \* days until the clock stops
  Alone,        \* no daily job starts while another one runs
  Faults        \* what may fail

FaultKinds == {"accounts", "container", "save", "finalize", "crash"}

Unbound == "unbound"       \* a Python variable without a value

ASSUME ConstantsAssumption ==
  /\ Opened \in [Accounts -> Int] /\ Expires \in [Accounts -> Int]
  /\ Owner \in [Containers -> Accounts]
  /\ Report \in [Containers -> Seq(Names)]
  /\ FirstTypes \subseteq Names
  /\ Unbound \notin Names
  /\ Values \subseteq Nat
  /\ Surveys \cap Clients = {}
  /\ Casts \subseteq SUBSET (Surveys \cup Clients \cup Dailies)
  /\ Hours \in Nat \ {0}
  /\ Days \in Nat
  /\ Alone \in BOOLEAN
  /\ Faults \subseteq FaultKinds

VARIABLES
  now,         \* the hour
  types,       \* names that have a metric type
  stored,      \* rows of service_metric, by id
  consumes,    \* rows of aggregate_cost
  exposed,     \* rows of mv_aggregate_consumes, with the job that wrote them
  spc, survey, \* where a survey is, and what it holds
  told,        \* told[s]: the status of its service_job
  cpc, asked,  \* where a client's request is, and the metric that it adds
  dpc, daily   \* where a daily job is, and what it holds

surveying == <<spc, survey, told>>
asking == <<cpc, asked>>
billing == <<consumes, exposed, dpc, daily>>
vars == <<now, types, stored, consumes, exposed, spc, survey, told, cpc, asked, dpc, daily>>

Day(t) == t \div Hours
LastHour == Days * Hours
May(fault) == fault \in Faults

Metric(c, n, type, v, t, by) ==
  [of |-> c, name |-> n, type |-> type, value |-> v, at |-> t, by |-> by]
Readings == [of : Containers, name : Names, type : Names]
Metrics == [of : Containers, name : Names, type : Names, value : Values,
            at : 0 .. LastHour, by : Surveys \cup Clients]

NoSurvey == [start |-> {}, known |-> [n \in Names |-> Unbound], todo |-> {},
             account |-> Unbound, containers |-> {}, container |-> Unbound,
             left |-> <<>>, last |-> Unbound, got |-> <<>>, at |-> 0]
NoMetric == [name |-> Unbound, at |-> 0]
NoJob == [period |-> 0, from |-> 0, after |-> {}, todo |-> {}, account |-> Unbound]

Init ==
  /\ now = 0
  /\ types = FirstTypes
  /\ stored = <<>>
  /\ consumes = {} /\ exposed = {}
  /\ \E cast \in Casts :
       LET At(x) == IF x \in cast THEN "idle" ELSE "absent"
       IN  /\ spc = [s \in Surveys |-> At(s)]
           /\ cpc = [r \in Clients |-> At(r)]
           /\ dpc = [d \in Dailies |-> At(d)]
  /\ survey = [s \in Surveys |-> NoSurvey]
  /\ told = [s \in Surveys |-> "none"]
  /\ asked = [r \in Clients |-> NoMetric]
  /\ daily = [d \in Dailies |-> NoJob]

Tick ==
  /\ now < LastHour
  /\ now' = now + 1
  /\ UNCHANGED <<types, stored, surveying, asking, billing>>

----------------------------------------------------------------------------
(* acquire_metric_task.                                                    *)

SurveyGoes(s, stage) == spc' = [spc EXCEPT ![s] = stage]
Holds(s, j) == survey' = [survey EXCEPT ![s] = j]
Forgets(s) == Holds(s, [NoSurvey EXCEPT !.start = survey[s].start])
Tells(s, status) == told' = [told EXCEPT ![s] = status]

\* The accounts there are, expired or not; the dictionary of types by name is
\* read once; then the job is added.
SurveyStarts(s) ==
  /\ spc[s] = "idle"
  /\ Holds(s, [NoSurvey EXCEPT !.start = types,
                   !.todo = {a \in Accounts : Opened[a] <= now},
                   !.known = [n \in Names |-> IF n \in types THEN n ELSE Unbound]])
  /\ Tells(s, "RUNNING")
  /\ SurveyGoes(s, "accounts")
  /\ UNCHANGED <<now, types, stored, asking, billing>>

\* acquire_metrics_by_account: its variables start without a value.
NextAccount(s) ==
  /\ spc[s] = "accounts"
  /\ \E a \in survey[s].todo :
       Holds(s, [survey[s] EXCEPT !.todo = @ \ {a}, !.account = a,
                   !.containers = {c \in Containers : Owner[c] = a},
                   !.last = Unbound, !.got = <<>>])
  /\ SurveyGoes(s, "containers")
  /\ UNCHANGED <<now, types, stored, told, asking, billing>>

\* The query of the containers fails: the exception is logged, and "return res"
\* raises another one, for res has no value.
AccountFails(s) ==
  /\ May("accounts")
  /\ spc[s] = "accounts"
  /\ survey[s].todo # {}
  /\ SurveyGoes(s, "failing")
  /\ UNCHANGED <<now, types, stored, survey, told, asking, billing>>

\* A container that does not answer is left out.
NextContainer(s) ==
  /\ spc[s] = "containers"
  /\ \E c \in survey[s].containers :
       \/ /\ Holds(s, [survey[s] EXCEPT !.containers = @ \ {c}, !.container = c,
                                         !.left = Report[c]])
          /\ SurveyGoes(s, "metrics")
       \/ /\ May("container")
          /\ Holds(s, [survey[s] EXCEPT !.containers = @ \ {c}])
          /\ UNCHANGED spc
  /\ UNCHANGED <<now, types, stored, told, asking, billing>>

Read(s, n, type) ==
  [survey[s] EXCEPT !.left = Tail(@), !.last = type,
                    !.got = Append(@, [of |-> survey[s].container, name |-> n, type |-> type])]

\* Bug: the type of the metric before.
BugTakeKnown(s) ==
  /\ spc[s] = "metrics"
  /\ survey[s].left # <<>>
  /\ LET n == Head(survey[s].left) IN
     /\ survey[s].known[n] # Unbound
     /\ Holds(s, Read(s, n, IF survey[s].last = Unbound THEN survey[s].known[n]
                                                        ELSE survey[s].last))
  /\ UNCHANGED <<now, types, stored, spc, told, asking, billing>>

TakeKnown(s) ==
  /\ spc[s] = "metrics"
  /\ survey[s].left # <<>>
  /\ LET n == Head(survey[s].left) IN
     /\ survey[s].known[n] # Unbound
     /\ Holds(s, Read(s, n, survey[s].known[n]))
  /\ UNCHANGED <<now, types, stored, spc, told, asking, billing>>

\* Bug: the name is not looked up before its metric is kept.
BugTakeNew(s) ==
  /\ spc[s] = "metrics"
  /\ survey[s].left # <<>>
  /\ LET n == Head(survey[s].left) IN
     /\ survey[s].known[n] = Unbound
     /\ Holds(s, Read(s, n, Unbound))
  /\ UNCHANGED <<now, types, stored, spc, told, asking, billing>>

\* compute_metric_type_id gives the new name its own type, but what it writes
\* into the dictionary is the type of the metric before. At the first metric of
\* an account there is none: the rest of the container is lost.
TakeNew(s) ==
  /\ spc[s] = "metrics"
  /\ survey[s].left # <<>>
  /\ LET n == Head(survey[s].left) IN
     /\ survey[s].known[n] = Unbound
     /\ types' = types \cup {n}
     /\ \/ /\ survey[s].last # Unbound
           /\ Holds(s, [Read(s, n, n) EXCEPT !.known = [@ EXCEPT ![n] = survey[s].last]])
           /\ UNCHANGED spc
        \/ /\ survey[s].last = Unbound
           /\ SurveyGoes(s, "containers")
           /\ UNCHANGED survey
  /\ UNCHANGED <<now, stored, told, asking, billing>>

ContainerEnds(s) ==
  /\ spc[s] = "metrics"
  /\ survey[s].left = <<>>
  /\ SurveyGoes(s, "containers")
  /\ UNCHANGED <<now, types, stored, survey, told, asking, billing>>

\* The rows of an account are made, and a row has its date from then on.
DateMetrics(s) ==
  /\ spc[s] = "containers"
  /\ survey[s].containers = {}
  /\ Holds(s, [survey[s] EXCEPT !.container = Unbound, !.left = <<>>, !.last = Unbound,
                                !.at = now])
  /\ SurveyGoes(s, "save")
  /\ UNCHANGED <<now, types, stored, told, asking, billing>>

\* They are inserted together; a failure is logged.
SaveMetrics(s) ==
  /\ spc[s] = "save"
  /\ \/ \E v \in [DOMAIN survey[s].got -> Values] :
          stored' = stored \o [k \in DOMAIN survey[s].got |->
            LET m == survey[s].got[k] IN Metric(m.of, m.name, m.type, v[k], survey[s].at, s)]
     \/ May("save") /\ UNCHANGED stored
  /\ Holds(s, [survey[s] EXCEPT !.account = Unbound, !.got = <<>>, !.at = 0])
  /\ SurveyGoes(s, "accounts")
  /\ UNCHANGED <<now, types, told, asking, billing>>

\* finalize_metrics_acquisition_step, and then on_success.
Finalize(s) ==
  /\ spc[s] = "accounts"
  /\ survey[s].todo = {}
  /\ \/ /\ Tells(s, "SUCCESS")
        /\ SurveyGoes(s, "ended")
     \/ /\ May("finalize")
        /\ SurveyGoes(s, "failing")
        /\ UNCHANGED told
  /\ Forgets(s)
  /\ UNCHANGED <<now, types, stored, asking, billing>>

\* Bug: the job is not told.
BugSurveyFails(s) ==
  /\ spc[s] = "failing"
  /\ SurveyGoes(s, "ended")
  /\ Forgets(s)
  /\ UNCHANGED <<now, types, stored, told, asking, billing>>

\* on_failure.
SurveyFails(s) ==
  /\ spc[s] = "failing"
  /\ Tells(s, "FAILURE")
  /\ SurveyGoes(s, "ended")
  /\ Forgets(s)
  /\ UNCHANGED <<now, types, stored, asking, billing>>

----------------------------------------------------------------------------
(* add_service_metrics.                                                    *)

\* normalize first gives the metric its date: now, or one that the client names.
ClientAsks(r) ==
  /\ cpc[r] = "idle"
  /\ \E n \in Names, t \in 0 .. LastHour : asked' = [asked EXCEPT ![r] = [name |-> n, at |-> t]]
  /\ cpc' = [cpc EXCEPT ![r] = "dated"]
  /\ UNCHANGED <<now, types, stored, surveying, billing>>

\* newmetric: the type is looked for again under the lock of its table.
ClientTypes(r) ==
  /\ cpc[r] = "dated"
  /\ types' = types \cup {asked[r].name}
  /\ cpc' = [cpc EXCEPT ![r] = "typed"]
  /\ UNCHANGED <<now, stored, asked, surveying, billing>>

\* The service is looked up, and dbmetric inserts.
ClientAdds(r) ==
  /\ cpc[r] = "typed"
  /\ \E c \in Containers, v \in Values :
       /\ Opened[Owner[c]] <= now
       /\ stored' = Append(stored, Metric(c, asked[r].name, asked[r].name, v, asked[r].at, r))
  /\ cpc' = [cpc EXCEPT ![r] = "done"]
  /\ asked' = [asked EXCEPT ![r] = NoMetric]
  /\ UNCHANGED <<now, types, surveying, billing>>

----------------------------------------------------------------------------
(* What a day of metrics comes to: dailyconsumes_by_account_new.           *)

\* Rows of service_metric of one service and type, by id, that count for a
\* period: the last one before it, as of its first hour, and those of the day.
Before(c, type, p) ==
  {k \in DOMAIN stored : stored[k].of = c /\ stored[k].type = type /\ stored[k].at < p * Hours}
Within(c, type, p) ==
  {k \in DOMAIN stored : stored[k].of = c /\ stored[k].type = type /\ Day(stored[k].at) = p}
Latest(K) == {k \in K : \A j \in K : j <= k}
Counted(c, type, p) == Latest(Before(c, type, p)) \cup Within(c, type, p)
Epoch(k, p) == IF stored[k].at < p * Hours THEN p * Hours ELSE stored[k].at

\* Bug: LAG in the order of the ids, so that a row lasts from the one before.
BugLasts(k, K, p) ==
  LET prev == {j \in K : j < k}
  IN  IF prev # {} THEN Epoch(CHOOSE j \in Latest(prev) : TRUE, p) - Epoch(k, p)
      ELSE (p + 1) * Hours - Epoch(k, p)

\* A row lasts until the next one, the last one until the end of the day: but
\* not at all when it is the one from before the day.
Lasts(k, K, p) ==
  LET next == {j \in K : j > k}
  IN  IF next # {} THEN Epoch(CHOOSE j \in next : \A l \in next : j <= l, p) - Epoch(k, p)
      ELSE IF stored[k].at < p * Hours THEN 0 ELSE (p + 1) * Hours - Epoch(k, p)

\* Sum of f over the rows K, a function so that proofs may reach this module.
SumOver(K, f) ==
  LET sum[n \in 0 .. Len(stored)] ==
        IF n = 0 THEN 0 ELSE sum[n - 1] + (IF n \in K THEN f[n] ELSE 0)
  IN  sum[Len(stored)]

\* The average of the values by how long they lasted, kept as a fraction. A
\* service without a metric on the day has no row.
Consume(c, type, p) ==
  LET K == Counted(c, type, p)
      lasts == [k \in K |-> Lasts(k, K, p)]
  IN  [of |-> c, type |-> type, period |-> p, hours |-> SumOver(K, lasts),
       total |-> SumOver(K, [k \in K |-> stored[k].value * lasts[k]])]

ConsumesOf(a, p) ==
  LET keys == {x \in Containers \X Names : Owner[x[1]] = a /\ Within(x[1], x[2], p) # {}}
  IN  {Consume(x[1], x[2], p) : x \in keys}

RowsOf(a, p) == {g \in consumes : Owner[g.of] = a /\ g.period = p}

----------------------------------------------------------------------------
(* generate_daily_consumes_task: procedures dailycosts, dailyconsumes and    *)
(* expose_consumes. Nothing tells its job when it ends.                      *)

DailyGoes(d, stage) == dpc' = [dpc EXCEPT ![d] = stage]
Running(d) == dpc[d] \in {"accounts", "delete", "insert", "expose"}

Started(d) == dpc[d] \notin {"absent", "idle"}

\* The cursor of dailyconsumes: an account made on the day is not in it.
Billed(p) == {a \in Accounts : Opened[a] < p * Hours /\ p * Hours < Expires[a]}

\* The period is a day the client names, or yesterday. For the properties, a job
\* holds the rows stored and the jobs started before it.
DailyStarts(d) ==
  /\ dpc[d] = "idle"
  /\ Alone => \A e \in Dailies : ~Running(e)
  /\ \E p \in 0 .. Day(now) :
       daily' = [daily EXCEPT ![d] = [period |-> p, from |-> Len(stored),
                                      after |-> {e \in Dailies : Started(e)},
                                      todo |-> Billed(p), account |-> Unbound]]
  /\ DailyGoes(d, "accounts")
  /\ UNCHANGED <<now, types, stored, consumes, exposed, surveying, asking>>

\* Bug: as db_script/procedure/dailyconsumes_by_account_new.sql counts, which
\* goes on when the day has no metric.
BugCountRows(d) ==
  /\ dpc[d] = "accounts"
  /\ \E a \in daily[d].todo :
       /\ daily' = [daily EXCEPT ![d].todo = @ \ {a}, ![d].account = a]
       /\ DailyGoes(d, IF ConsumesOf(a, daily[d].period) = {} THEN "delete" ELSE "accounts")
  /\ UNCHANGED <<now, types, stored, consumes, exposed, surveying, asking>>

\* An account that has consumes for the period is not done again.
CountRows(d) ==
  /\ dpc[d] = "accounts"
  /\ \E a \in daily[d].todo :
       /\ daily' = [daily EXCEPT ![d].todo = @ \ {a}, ![d].account = a]
       /\ DailyGoes(d, IF RowsOf(a, daily[d].period) = {} THEN "delete" ELSE "accounts")
  /\ UNCHANGED <<now, types, stored, consumes, exposed, surveying, asking>>

DeleteRows(d) ==
  /\ dpc[d] = "delete"
  /\ consumes' = consumes \ RowsOf(daily[d].account, daily[d].period)
  /\ DailyGoes(d, "insert")
  /\ UNCHANGED <<now, types, stored, exposed, daily, surveying, asking>>

\* Another job may have inserted meanwhile: the unique index refuses.
InsertRows(d) ==
  /\ dpc[d] = "insert"
  /\ LET new == ConsumesOf(daily[d].account, daily[d].period)
         refused == \E g \in new, h \in RowsOf(daily[d].account, daily[d].period) :
                      g.of = h.of /\ g.type = h.type
     IN  IF refused THEN DailyGoes(d, "failed") /\ UNCHANGED consumes
         ELSE consumes' = consumes \cup new /\ DailyGoes(d, "accounts")
  /\ UNCHANGED <<now, types, stored, exposed, daily, surveying, asking>>

\* Bug: what was exposed before stays.
BugUnexpose(d) ==
  /\ dpc[d] = "accounts"
  /\ daily[d].todo = {}
  /\ DailyGoes(d, "expose")
  /\ UNCHANGED <<now, types, stored, consumes, exposed, daily, surveying, asking>>

\* expose_consumes: delete, commit, insert.
Unexpose(d) ==
  /\ dpc[d] = "accounts"
  /\ daily[d].todo = {}
  /\ exposed' = {x \in exposed : x[2].period # daily[d].period}
  /\ DailyGoes(d, "expose")
  /\ UNCHANGED <<now, types, stored, consumes, daily, surveying, asking>>

Expose(d) ==
  /\ dpc[d] = "expose"
  /\ exposed' = exposed \cup ({d} \X {g \in consumes : g.period = daily[d].period})
  /\ DailyGoes(d, "ended")
  /\ UNCHANGED <<now, types, stored, consumes, daily, surveying, asking>>

----------------------------------------------------------------------------
\* A worker, or its session with the database, dies: its job stays as it was told.
Crash ==
  /\ May("crash")
  /\ \/ \E s \in Surveys :
          /\ spc[s] \in {"accounts", "containers", "metrics", "save", "failing"}
          /\ SurveyGoes(s, "crashed")
          /\ Forgets(s)
          /\ UNCHANGED <<dpc, daily>>
     \/ \E d \in Dailies :
          /\ Running(d)
          /\ DailyGoes(d, "crashed")
          /\ daily' = [daily EXCEPT ![d].todo = {}, ![d].account = Unbound]
          /\ UNCHANGED <<spc, survey>>
  /\ UNCHANGED <<now, types, stored, consumes, exposed, told, asking>>

Surveying(s) ==
  \/ SurveyStarts(s) \/ NextAccount(s) \/ AccountFails(s) \/ NextContainer(s)
  \/ TakeKnown(s) \/ TakeNew(s) \/ ContainerEnds(s) \/ DateMetrics(s)
  \/ SaveMetrics(s) \/ Finalize(s) \/ SurveyFails(s)

Billing(d) ==
  \/ DailyStarts(d) \/ CountRows(d) \/ DeleteRows(d) \/ InsertRows(d)
  \/ Unexpose(d) \/ Expose(d)

Next ==
  \/ Tick
  \/ \E s \in Surveys : Surveying(s)
  \/ \E r \in Clients : ClientAsks(r) \/ ClientTypes(r) \/ ClientAdds(r)
  \/ \E d \in Dailies : Billing(d)
  \/ Crash

Spec == Init /\ [][Next]_vars

\* A worker that has taken a task goes on with it.
FairSpec == Spec /\ \A s \in Surveys : WF_vars(spc[s] # "idle" /\ Surveying(s))

----------------------------------------------------------------------------
(* Properties.                                                             *)

SurveyStages == {"absent", "idle", "accounts", "containers", "metrics", "save", "failing",
                 "ended", "crashed"}
DailyStages == {"absent", "idle", "accounts", "delete", "insert", "expose", "ended", "failed", "crashed"}

ConsumeRows == [of : Containers, type : Names, period : 0 .. Days, hours : Int, total : Int]
SurveyStates ==
  [start : SUBSET Names, known : [Names -> Names \cup {Unbound}], todo : SUBSET Accounts,
   account : Accounts \cup {Unbound}, containers : SUBSET Containers,
   container : Containers \cup {Unbound}, left : Seq(Names),
   last : Names \cup {Unbound}, got : Seq(Readings), at : 0 .. LastHour]
DailyStates == [period : 0 .. Days, from : Nat, after : SUBSET Dailies,
                todo : SUBSET Accounts, account : Accounts \cup {Unbound}]

MeterTypes ==
  /\ now \in 0 .. LastHour
  /\ types \subseteq Names
  /\ stored \in Seq(Metrics)
  /\ spc \in [Surveys -> SurveyStages]
  /\ survey \in [Surveys -> SurveyStates]
  /\ told \in [Surveys -> {"none", "RUNNING", "SUCCESS", "FAILURE"}]
  /\ cpc \in [Clients -> {"absent", "idle", "dated", "typed", "done"}]
  /\ asked \in [Clients -> [name : Names \cup {Unbound}, at : 0 .. LastHour]]
  /\ \A r \in Clients : cpc[r] \in {"dated", "typed"} => asked[r].name # Unbound

BillTypes ==
  /\ consumes \subseteq ConsumeRows
  /\ exposed \subseteq Dailies \X ConsumeRows
  /\ dpc \in [Dailies -> DailyStages]
  /\ daily \in [Dailies -> DailyStates]

\* Types of the variables.
TypeOK == MeterTypes /\ BillTypes

\* Every metric is stored under the type of its name. It is not: a name that is
\* new to a survey goes under the type of the metric before it.
MetricTyped == \A k \in DOMAIN stored : stored[k].type = stored[k].name

\* A metric whose name had a type when its survey started, and one that a client
\* adds, is stored under that type, whatever new names come up meanwhile.
KnownTyped ==
  \A k \in DOMAIN stored :
    stored[k].by \in Clients \/ stored[k].name \in survey[stored[k].by].start
      => stored[k].type = stored[k].name

JobsOf(p) == {e \in Dailies : Started(e) /\ daily[e].period = p}

\* A row that counts for the period is stored when a job of it has started already:
\* the job is early, or the row late.
StoredLate(a, p) ==
  \E e \in JobsOf(p), k \in DOMAIN stored :
    k > daily[e].from /\ Owner[stored[k].of] = a /\ Day(stored[k].at) <= p

\* A daily job that has ended, though others crashed before it and were done
\* again, leaves every account that is billed the consumes of its whole day, and
\* the others none, unless a row that counts was stored after a job had started.
DayIsComplete ==
  \A d \in Dailies : dpc[d] = "ended" =>
    \A a \in Accounts :
      LET p == daily[d].period
      IN  ~StoredLate(a, p) => RowsOf(a, p) = IF a \in Billed(p) THEN ConsumesOf(a, p) ELSE {}

InDateOrder(K) == \A j, k \in K : j < k => stored[j].at <= stored[k].at

\* What is charged is an average of the values that were read, over the part of
\* the day since the service had a first metric, unless the rows that count were
\* not stored in the order of their dates.
FairCharge ==
  \A g \in consumes :
    LET K == Counted(g.of, g.type, g.period)
        seen == {stored[k].value : k \in K}
    IN  InDateOrder(K) =>
          /\ g.hours \in 1 .. Hours
          /\ Before(g.of, g.type, g.period) # {} => g.hours = Hours
          /\ \E v, w \in seen : v * g.hours <= g.total /\ g.total <= w * g.hours

\* When the last job of a period to start has ended, whatever crashed before it
\* and wherever, the consumes of the period are exposed, each of them once.
ExposedOnce ==
  \A d \in Dailies :
    /\ dpc[d] = "ended"
    /\ \A e \in JobsOf(daily[d].period) : d \notin daily[e].after
    => \A g \in consumes : g.period = daily[d].period =>
         Cardinality({x \in exposed : x[2] = g}) = 1

\* A survey that was started says how it ended, unless its worker dies.
SurveyIsTold ==
  \A s \in Surveys :
    (told[s] = "RUNNING") ~> (told[s] \in {"SUCCESS", "FAILURE"} \/ spc[s] = "crashed")
============================================================================
