-------------------------- MODULE Metering_proofs --------------------------
(* Theorems about Metering for every set of containers, names, surveys,      *)
(* clients and daily jobs, and for days of any length.                       *)
EXTENDS Metering, FiniteSetTheorems, SequenceTheorems, WellFoundedInduction, TLAPS

USE DEF asking

----------------------------------------------------------------------------
(* Type correctness of what surveys and clients write.                     *)

LEMMA ClockStarts == 0 \in 0 .. LastHour
<1>1. Days * Hours \in Nat
  BY ConstantsAssumption
<1> QED
  BY <1>1 DEF LastHour

\* The parts of what a survey holds.
LEMMA SurveyParts ==
  ASSUME MeterTypes, NEW s \in Surveys
  PROVE  /\ survey[s] \in SurveyStates
         /\ survey[s].start \in SUBSET Names
         /\ survey[s].known \in [Names -> Names \cup {Unbound}]
         /\ survey[s].todo \in SUBSET Accounts
         /\ survey[s].account \in Accounts \cup {Unbound}
         /\ survey[s].containers \in SUBSET Containers
         /\ survey[s].container \in Containers \cup {Unbound}
         /\ survey[s].left \in Seq(Names)
         /\ survey[s].last \in Names \cup {Unbound}
         /\ survey[s].got \in Seq(Readings)
         /\ survey[s].at \in 0 .. LastHour
<1>1. survey[s] \in SurveyStates
  BY DEF MeterTypes
<1> QED
  BY <1>1 DEF SurveyStates

\* A step that is not of a client leaves the requests as they are.
LEMMA RequestsStay ==
  ASSUME MeterTypes, UNCHANGED <<cpc, asked>>
  PROVE  /\ cpc' \in [Clients -> {"absent", "idle", "dated", "typed", "done"}]
         /\ asked' \in [Clients -> [name : Names \cup {Unbound}, at : 0 .. LastHour]]
         /\ \A r \in Clients : cpc'[r] \in {"dated", "typed"} => asked'[r].name # Unbound
BY DEF MeterTypes

\* A survey that forgets is left with a well-formed record.
LEMMA ForgetsType ==
  ASSUME MeterTypes, NEW s \in Surveys, Forgets(s)
  PROVE  /\ survey' \in [Surveys -> SurveyStates]
         /\ survey' = [survey EXCEPT ![s] = [NoSurvey EXCEPT !.start = survey[s].start]]
         /\ survey'[s].start = survey[s].start
         /\ survey'[s].got = <<>>
         /\ \A q \in Surveys \ {s} : survey'[q] = survey[q]
<1>1. survey[s].start \in SUBSET Names /\ survey \in [Surveys -> SurveyStates]
  BY SurveyParts DEF MeterTypes
<1>2. [NoSurvey EXCEPT !.start = survey[s].start] \in SurveyStates
  BY <1>1, EmptySeq, ClockStarts DEF NoSurvey, SurveyStates
<1> QED
  BY <1>1, <1>2 DEF Forgets, Holds, NoSurvey

\* One more reading.
LEMMA ReadType ==
  ASSUME MeterTypes, NEW s \in Surveys, NEW n \in Names, NEW type \in Names,
         survey[s].left # <<>>, survey[s].container \in Containers
  PROVE  /\ Read(s, n, type) \in SurveyStates
         /\ Read(s, n, type).start = survey[s].start
         /\ Read(s, n, type).known = survey[s].known
         /\ Read(s, n, type).got =
              Append(survey[s].got, [of |-> survey[s].container, name |-> n, type |-> type])
<1> DEFINE m == [of |-> survey[s].container, name |-> n, type |-> type]
<1>1. m \in Readings
  BY DEF Readings
<1>2. Append(survey[s].got, m) \in Seq(Readings) /\ Tail(survey[s].left) \in Seq(Names)
  BY <1>1, SurveyParts, AppendProperties, HeadTailProperties
<1>3. Read(s, n, type) = [survey[s] EXCEPT !.left = Tail(survey[s].left), !.last = type,
                                           !.got = Append(survey[s].got, m)]
  BY SurveyParts DEF Read, SurveyStates
<1> QED
  BY <1>2, <1>3, SurveyParts DEF SurveyStates
----------------------------------------------------------------------------
(* The inductive invariant. The dictionary of a survey is right about the    *)
(* names that had a type when it started, for only an unknown name is ever   *)
(* written to it; readings and stored metrics follow the dictionary; and the *)
(* start of a survey that has stored a metric does not change any more.      *)

AtContainer == \A s \in Surveys : spc[s] = "metrics" => survey[s].container \in Containers

SureDict ==
  \A s \in Surveys : spc[s] \in {"accounts", "containers", "metrics", "save"} =>
    \A n \in survey[s].start : survey[s].known[n] = n

SureReadings ==
  \A s \in Surveys : \A k \in DOMAIN survey[s].got :
    survey[s].got[k].name \in survey[s].start => survey[s].got[k].type = survey[s].got[k].name

StoredByStarted ==
  \A k \in DOMAIN stored : stored[k].by \in Surveys => spc[stored[k].by] \notin {"absent", "idle"}

IInv == MeterTypes /\ AtContainer /\ SureDict /\ SureReadings /\ StoredByStarted /\ KnownTyped

LEMMA InitHolds == Init => IInv
<1> SUFFICES ASSUME Init PROVE IInv
  OBVIOUS
<1>1. NoSurvey \in SurveyStates
  BY EmptySeq, ClockStarts DEF NoSurvey, SurveyStates
<1>2. MeterTypes
  <2>1. stored \in Seq(Metrics)
    BY EmptySeq DEF Init
  <2>2. now \in 0 .. LastHour
    BY ClockStarts DEF Init
  <2>3. /\ asked \in [Clients -> [name : Names \cup {Unbound}, at : 0 .. LastHour]]
        /\ \A r \in Clients : cpc[r] \notin {"dated", "typed"}
    BY ClockStarts DEF Init, NoMetric
  <2> QED
    BY <1>1, <2>1, <2>2, <2>3, ConstantsAssumption DEF Init, MeterTypes, SurveyStages
<1>3. AtContainer /\ SureDict
  BY DEF Init, AtContainer, SureDict
<1>4. SureReadings
  BY DEF Init, SureReadings, NoSurvey
<1>5. StoredByStarted /\ KnownTyped
  BY DEF Init, StoredByStarted, KnownTyped
<1> QED
  BY <1>2, <1>3, <1>4, <1>5 DEF IInv

\* A step that stores nothing and starts no survey keeps what is said of rows.
LEMMA RowsKept ==
  ASSUME IInv, UNCHANGED stored,
         \A s \in Surveys : spc[s] \notin {"absent", "idle"} =>
           survey'[s].start = survey[s].start /\ spc'[s] \notin {"absent", "idle"}
  PROVE  StoredByStarted' /\ KnownTyped'
<1>1. \A k \in DOMAIN stored : stored[k].by \in Surveys \cup Clients
  <2>1. \A k \in DOMAIN stored : stored[k] \in Metrics
    BY ElementOfSeq DEF IInv, MeterTypes
  <2> QED
    BY <2>1 DEF Metrics
<1>2. StoredByStarted'
  BY DEF IInv, StoredByStarted
<1>3. KnownTyped'
  <2> SUFFICES ASSUME NEW k \in DOMAIN stored,
                      stored[k].by \in Clients \/ stored[k].name \in survey'[stored[k].by].start
               PROVE  stored[k].type = stored[k].name
    BY DEF KnownTyped
  <2>1. CASE stored[k].by \in Clients
    BY <2>1 DEF IInv, KnownTyped
  <2>2. CASE stored[k].by \in Surveys
    BY <2>2 DEF IInv, KnownTyped, StoredByStarted
  <2> QED
    BY <1>1, <2>1, <2>2
<1> QED
  BY <1>2, <1>3

\* A step of one survey that keeps its start, and whose dictionary and readings
\* stay right, keeps what is said of surveys.
LEMMA SurveysKept ==
  ASSUME IInv, NEW s \in Surveys,
         survey' \in [Surveys -> SurveyStates], spc' \in [Surveys -> SurveyStages],
         \A q \in Surveys \ {s} : survey'[q] = survey[q] /\ spc'[q] = spc[q],
         spc'[s] = "metrics" => survey'[s].container \in Containers,
         spc'[s] \in {"accounts", "containers", "metrics", "save"} =>
           \A n \in survey'[s].start : survey'[s].known[n] = n,
         \A k \in DOMAIN survey'[s].got :
           survey'[s].got[k].name \in survey'[s].start =>
             survey'[s].got[k].type = survey'[s].got[k].name
  PROVE  AtContainer' /\ SureDict' /\ SureReadings'
BY DEF IInv, AtContainer, SureDict, SureReadings

----------------------------------------------------------------------------
(* Each action keeps it.                                                   *)

LEMMA StartsStep ==
  ASSUME IInv, NEW s \in Surveys, SurveyStarts(s)
  PROVE  IInv'
<1> DEFINE dict == [n \in Names |-> IF n \in types THEN n ELSE Unbound]
<1> DEFINE j == [NoSurvey EXCEPT !.start = types, !.todo = {a \in Accounts : Opened[a] <= now},
                                 !.known = dict]
<1>t. MeterTypes /\ types \subseteq Names
  BY DEF IInv, MeterTypes
<1>1. /\ j \in SurveyStates /\ j.start = types /\ j.got = <<>>
      /\ \A n \in types : j.known[n] = n
  BY <1>t, EmptySeq, ClockStarts DEF NoSurvey, SurveyStates
<1> HIDE DEF j
<1>2. survey' = [survey EXCEPT ![s] = j] /\ spc[s] = "idle" /\ spc' = [spc EXCEPT ![s] = "accounts"]
  BY DEF SurveyStarts, SurveyGoes, Holds, j
<1>3. MeterTypes'
  BY <1>t, <1>1, <1>2 DEF SurveyStarts, MeterTypes, Tells, SurveyStages
<1>4. survey'[s] = j /\ spc'[s] = "accounts" /\ \A q \in Surveys \ {s} : survey'[q] = survey[q] /\ spc'[q] = spc[q]
  BY <1>t, <1>2 DEF MeterTypes
<1>5. AtContainer' /\ SureDict' /\ SureReadings'
  BY <1>1, <1>3, <1>4, SurveysKept DEF MeterTypes
<1>6. StoredByStarted' /\ KnownTyped'
  BY <1>2, <1>4, RowsKept DEF SurveyStarts
<1> QED
  BY <1>3, <1>5, <1>6 DEF IInv

LEMMA NextAccountStep ==
  ASSUME IInv, NEW s \in Surveys, NextAccount(s)
  PROVE  IInv'
<1>t. MeterTypes /\ survey[s] \in SurveyStates
  BY SurveyParts DEF IInv
<1>1. PICK a \in survey[s].todo :
        survey' = [survey EXCEPT ![s] =
          [survey[s] EXCEPT !.todo = @ \ {a}, !.account = a,
                            !.containers = {c \in Containers : Owner[c] = a},
                            !.last = Unbound, !.got = <<>>]]
  BY DEF NextAccount, Holds
<1> DEFINE j == [survey[s] EXCEPT !.todo = @ \ {a}, !.account = a,
                            !.containers = {c \in Containers : Owner[c] = a},
                            !.last = Unbound, !.got = <<>>]
<1>2. /\ j \in SurveyStates /\ j.start = survey[s].start /\ j.got = <<>>
      /\ j.known = survey[s].known
  BY <1>t, <1>1, EmptySeq DEF SurveyStates
<1>3. survey' = [survey EXCEPT ![s] = j]
  BY <1>1
<1> HIDE DEF j
<1>4. spc[s] = "accounts" /\ spc' = [spc EXCEPT ![s] = "containers"]
  BY DEF NextAccount, SurveyGoes
<1>5. MeterTypes'
  BY <1>t, <1>2, <1>3, <1>4 DEF NextAccount, MeterTypes, SurveyStages
<1>6. survey'[s] = j /\ spc'[s] = "containers" /\ \A q \in Surveys \ {s} : survey'[q] = survey[q] /\ spc'[q] = spc[q]
  BY <1>t, <1>3, <1>4 DEF MeterTypes
<1>7. \A n \in j.start : j.known[n] = n
  BY <1>2, <1>4 DEF IInv, SureDict
<1>8. AtContainer' /\ SureDict' /\ SureReadings'
  <2>1. survey' \in [Surveys -> SurveyStates] /\ spc' \in [Surveys -> SurveyStages]
    BY <1>5 DEF MeterTypes
  <2> QED
    BY <1>2, <1>6, <1>7, <2>1, SurveysKept
<1>9. StoredByStarted' /\ KnownTyped'
  BY <1>2, <1>4, <1>6, RowsKept DEF NextAccount
<1> QED
  BY <1>5, <1>8, <1>9 DEF IInv

LEMMA NextContainerStep ==
  ASSUME IInv, NEW s \in Surveys, NextContainer(s)
  PROVE  IInv'
<1>t. MeterTypes /\ survey[s] \in SurveyStates /\ spc[s] = "containers"
  BY SurveyParts DEF IInv, NextContainer
<1>1. PICK j \in SurveyStates :
        /\ survey' = [survey EXCEPT ![s] = j]
        /\ j.start = survey[s].start /\ j.known = survey[s].known /\ j.got = survey[s].got
        /\ \/ spc' = [spc EXCEPT ![s] = "metrics"] /\ j.container \in Containers
           \/ spc' = spc
  <2>1. PICK c \in survey[s].containers :
          \/ /\ Holds(s, [survey[s] EXCEPT !.containers = @ \ {c}, !.container = c,
                                           !.left = Report[c]])
             /\ SurveyGoes(s, "metrics")
          \/ Holds(s, [survey[s] EXCEPT !.containers = @ \ {c}]) /\ UNCHANGED spc
    BY DEF NextContainer
  <2>2. c \in Containers /\ Report[c] \in Seq(Names)
    BY <1>t, <2>1, SurveyParts, ConstantsAssumption
  <2> DEFINE j1 == [survey[s] EXCEPT !.containers = @ \ {c}, !.container = c, !.left = Report[c]]
  <2> DEFINE j2 == [survey[s] EXCEPT !.containers = @ \ {c}]
  <2>3. /\ j1 \in SurveyStates /\ j1.start = survey[s].start /\ j1.known = survey[s].known
        /\ j1.got = survey[s].got /\ j1.container = c
    BY <1>t, <2>2 DEF SurveyStates
  <2>4. /\ j2 \in SurveyStates /\ j2.start = survey[s].start /\ j2.known = survey[s].known
        /\ j2.got = survey[s].got
    BY <1>t, <2>2 DEF SurveyStates
  <2>5. \/ survey' = [survey EXCEPT ![s] = j1] /\ spc' = [spc EXCEPT ![s] = "metrics"]
        \/ survey' = [survey EXCEPT ![s] = j2] /\ spc' = spc
    BY <2>1 DEF Holds, SurveyGoes
  <2> HIDE DEF j1, j2
  <2> QED
    BY <2>2, <2>3, <2>4, <2>5
<1>2. MeterTypes'
  BY <1>t, <1>1 DEF NextContainer, MeterTypes, SurveyStages
<1>3. /\ survey'[s] = j /\ \A q \in Surveys \ {s} : survey'[q] = survey[q] /\ spc'[q] = spc[q]
      /\ spc'[s] \in {"containers", "metrics"} /\ (spc'[s] = "metrics" => j.container \in Containers)
  BY <1>t, <1>1 DEF MeterTypes
<1>4. \A n \in j.start : j.known[n] = n
  BY <1>t, <1>1 DEF IInv, SureDict
<1>5. AtContainer' /\ SureDict' /\ SureReadings'
  <2>1. survey' \in [Surveys -> SurveyStates] /\ spc' \in [Surveys -> SurveyStages]
    BY <1>2 DEF MeterTypes
  <2>2. \A k \in DOMAIN j.got : j.got[k].name \in j.start => j.got[k].type = j.got[k].name
    BY <1>1 DEF IInv, SureReadings
  <2> QED
    BY <1>3, <1>4, <2>1, <2>2, SurveysKept
<1>6. StoredByStarted' /\ KnownTyped'
  BY <1>t, <1>1, <1>3, RowsKept DEF NextContainer
<1> QED
  BY <1>2, <1>5, <1>6 DEF IInv

\* A survey reads one more metric: its type is the name's own, or the one the
\* dictionary has for a name that was not there at the start.
LEMMA ReadStep ==
  ASSUME IInv, NEW s \in Surveys, spc[s] = "metrics", UNCHANGED <<spc, stored>>,
         NEW n \in Names, NEW type \in Names, survey[s].left # <<>>,
         n \in survey[s].start => type = n,
         NEW dict \in [Names -> Names \cup {Unbound}],
         \A o \in survey[s].start : dict[o] = o,
         survey' = [survey EXCEPT ![s] = [Read(s, n, type) EXCEPT !.known = dict]]
  PROVE  /\ survey' \in [Surveys -> SurveyStates]
         /\ AtContainer' /\ SureDict' /\ SureReadings' /\ StoredByStarted' /\ KnownTyped'
<1> DEFINE m == [of |-> survey[s].container, name |-> n, type |-> type]
<1> DEFINE j == [Read(s, n, type) EXCEPT !.known = dict]
<1>t. MeterTypes /\ survey[s].container \in Containers /\ survey[s].got \in Seq(Readings)
  BY SurveyParts DEF IInv, AtContainer
<1>0. Read(s, n, type) \in SurveyStates /\ Read(s, n, type).start = survey[s].start
        /\ Read(s, n, type).got = Append(survey[s].got, m)
        /\ Read(s, n, type).container = survey[s].container
  <2>1. Read(s, n, type).container = survey[s].container
    BY <1>t, SurveyParts DEF Read, SurveyStates
  <2> QED
    BY <1>t, <2>1, ReadType
<1>1. /\ j \in SurveyStates /\ j.start = survey[s].start /\ j.known = dict
      /\ j.got = Append(survey[s].got, m) /\ j.container = survey[s].container
  BY <1>0 DEF SurveyStates
<1>2. survey' = [survey EXCEPT ![s] = j]
  OBVIOUS
<1> HIDE DEF j
<1>3. survey'[s] = j /\ \A q \in Surveys \ {s} : survey'[q] = survey[q]
  BY <1>t, <1>2 DEF MeterTypes
<1>4. survey' \in [Surveys -> SurveyStates]
  BY <1>t, <1>1, <1>2 DEF MeterTypes
<1>5. ASSUME NEW k \in DOMAIN j.got, j.got[k].name \in j.start
      PROVE  j.got[k].type = j.got[k].name
  <2>1. m \in Readings
    BY <1>t DEF Readings
  <2>2. CASE k \in 1 .. Len(survey[s].got)
    <3>1. j.got[k] = survey[s].got[k] /\ k \in DOMAIN survey[s].got
      BY <1>t, <1>1, <2>1, <2>2, AppendProperties, LenProperties
    <3> QED
      BY <1>1, <1>5, <3>1 DEF IInv, SureReadings
  <2>3. CASE k = Len(survey[s].got) + 1
    <3>1. j.got[k] = m
      BY <1>t, <1>1, <2>1, <2>3, AppendProperties
    <3> QED
      BY <1>1, <1>5, <3>1
  <2>4. k \in 1 .. Len(survey[s].got) \/ k = Len(survey[s].got) + 1
    <3>1. Append(survey[s].got, m) \in Seq(Readings)
          /\ Len(Append(survey[s].got, m)) = Len(survey[s].got) + 1
      BY <1>t, <2>1, AppendProperties
    <3>2. k \in 1 .. Len(survey[s].got) + 1 /\ Len(survey[s].got) \in Nat
      BY <1>t, <1>1, <3>1, LenProperties
    <3> QED
      BY <3>2
  <2> QED
    BY <2>2, <2>3, <2>4
<1>6. AtContainer' /\ SureDict' /\ SureReadings'
  <2>1. /\ spc' \in [Surveys -> SurveyStages]
        /\ \A q \in Surveys \ {s} : survey'[q] = survey[q] /\ spc'[q] = spc[q]
    BY <1>t, <1>3 DEF MeterTypes
  <2>2. /\ survey'[s].container \in Containers
        /\ \A o \in survey'[s].start : survey'[s].known[o] = o
        /\ \A k \in DOMAIN survey'[s].got :
             survey'[s].got[k].name \in survey'[s].start =>
               survey'[s].got[k].type = survey'[s].got[k].name
    <3> HIDE DEF m
    <3> QED
      BY <1>t, <1>1, <1>3, <1>5
  <2> QED
    BY <1>4, <2>1, <2>2, SurveysKept
<1>7. StoredByStarted' /\ KnownTyped'
  BY <1>1, <1>3, RowsKept
<1> QED
  BY <1>4, <1>6, <1>7

LEMMA TakeKnownStep ==
  ASSUME IInv, NEW s \in Surveys, TakeKnown(s)
  PROVE  IInv'
<1> DEFINE n == Head(survey[s].left)
<1> DEFINE type == survey[s].known[n]
<1>t. MeterTypes /\ survey[s] \in SurveyStates /\ spc[s] = "metrics" /\ survey[s].left # <<>>
      /\ survey[s].known \in [Names -> Names \cup {Unbound}] /\ survey[s].container \in Containers
  BY SurveyParts DEF IInv, TakeKnown, AtContainer
<1>1. n \in Names
  BY <1>t, SurveyParts, HeadTailProperties
<1>2. type \in Names /\ type # Unbound
  BY <1>t, <1>1 DEF TakeKnown
<1>3. \A o \in survey[s].start : survey[s].known[o] = o
  BY <1>t DEF IInv, SureDict
<1>4. survey' = [survey EXCEPT ![s] = [Read(s, n, type) EXCEPT !.known = survey[s].known]]
  <2> DEFINE j == Read(s, n, type)
  <2>0. j \in SurveyStates /\ j.known = survey[s].known
    BY <1>t, <1>1, <1>2, ReadType
  <2> HIDE DEF j
  <2>1. j = [j EXCEPT !.known = survey[s].known]
    BY <2>0 DEF SurveyStates
  <2> QED
    BY <2>1 DEF TakeKnown, Holds, j
<1> HIDE DEF n, type
<1>5. n \in survey[s].start => type = n
  BY <1>3 DEF type
<1>6. /\ survey' \in [Surveys -> SurveyStates]
      /\ AtContainer' /\ SureDict' /\ SureReadings' /\ StoredByStarted' /\ KnownTyped'
  <2>1. UNCHANGED <<spc, stored>>
    BY DEF TakeKnown
  <2> QED
    BY <1>t, <1>1, <1>2, <1>3, <1>4, <1>5, <2>1, ReadStep
<1>7. MeterTypes'
  BY <1>t, <1>6 DEF TakeKnown, MeterTypes
<1> QED
  BY <1>6, <1>7 DEF IInv

LEMMA TakeNewStep ==
  ASSUME IInv, NEW s \in Surveys, TakeNew(s)
  PROVE  IInv'
<1> DEFINE n == Head(survey[s].left)
<1> DEFINE dict == [survey[s].known EXCEPT ![n] = survey[s].last]
<1>t. MeterTypes /\ survey[s] \in SurveyStates /\ spc[s] = "metrics" /\ survey[s].left # <<>>
      /\ survey[s].known \in [Names -> Names \cup {Unbound}]
      /\ survey[s].last \in Names \cup {Unbound}
  BY SurveyParts DEF IInv, TakeNew
<1>1. n \in Names /\ survey[s].known[n] = Unbound
  BY <1>t, SurveyParts, HeadTailProperties DEF TakeNew
<1>2. types' \subseteq Names
  BY <1>t, <1>1 DEF TakeNew, MeterTypes
<1>3. \A o \in survey[s].start : survey[s].known[o] = o
  BY <1>t DEF IInv, SureDict
<1>4. CASE survey[s].last # Unbound
  <2>1. survey' = [survey EXCEPT ![s] = [Read(s, n, n) EXCEPT !.known = dict]]
        /\ UNCHANGED <<spc, stored>>
    <3>1. Holds(s, [Read(s, n, n) EXCEPT !.known = [@ EXCEPT ![n] = survey[s].last]])
          /\ UNCHANGED <<spc, stored>>
      BY <1>4 DEF TakeNew
    <3> DEFINE j == Read(s, n, n)
    <3>2. j \in SurveyStates /\ j.known = survey[s].known
      BY <1>t, <1>1, ReadType DEF IInv, AtContainer
    <3>3. survey' = [survey EXCEPT ![s] = [j EXCEPT !.known = [@ EXCEPT ![n] = survey[s].last]]]
      BY <3>1 DEF Holds
    <3> HIDE DEF j
    <3>4. [j EXCEPT !.known = [@ EXCEPT ![n] = survey[s].last]] = [j EXCEPT !.known = dict]
      BY <3>2 DEF SurveyStates
    <3> QED
      BY <3>1, <3>3, <3>4 DEF j
  <2>2. dict \in [Names -> Names \cup {Unbound}]
    BY <1>t, <1>1
  <2>3. n \notin survey[s].start
    BY <1>1, <1>3, ConstantsAssumption
  <2>4. \A o \in survey[s].start : dict[o] = o
    BY <1>3, <1>t, <2>3, SurveyParts
  <2> HIDE DEF n, dict
  <2>5. /\ survey' \in [Surveys -> SurveyStates]
        /\ AtContainer' /\ SureDict' /\ SureReadings' /\ StoredByStarted' /\ KnownTyped'
    BY <1>t, <1>1, <2>1, <2>2, <2>4, ReadStep
  <2>6. MeterTypes'
    BY <1>t, <1>2, <2>1, <2>5 DEF TakeNew, MeterTypes
  <2> QED
    BY <2>5, <2>6 DEF IInv
<1>5. CASE survey[s].last = Unbound
  <2>1. UNCHANGED <<survey, stored>> /\ spc' = [spc EXCEPT ![s] = "containers"]
    BY <1>5 DEF TakeNew, SurveyGoes
  <2>2. MeterTypes'
    BY <1>t, <1>2, <2>1 DEF TakeNew, MeterTypes, SurveyStages
  <2>3. AtContainer' /\ SureDict' /\ SureReadings'
    BY <1>t, <2>1 DEF MeterTypes, IInv, AtContainer, SureDict, SureReadings
  <2>4. StoredByStarted' /\ KnownTyped'
    BY <1>t, <2>1, RowsKept DEF MeterTypes
  <2> QED
    BY <2>2, <2>3, <2>4 DEF IInv
<1> QED
  BY <1>4, <1>5

LEMMA DateStep ==
  ASSUME IInv, NEW s \in Surveys, DateMetrics(s)
  PROVE  IInv'
<1> DEFINE j == [survey[s] EXCEPT !.container = Unbound, !.left = <<>>, !.last = Unbound, !.at = now]
<1>t. MeterTypes /\ survey[s] \in SurveyStates /\ spc[s] = "containers" /\ now \in 0 .. LastHour
  BY SurveyParts DEF IInv, DateMetrics, MeterTypes
<1>1. /\ j \in SurveyStates /\ j.start = survey[s].start /\ j.known = survey[s].known
      /\ j.got = survey[s].got
  BY <1>t, EmptySeq DEF SurveyStates
<1>2. survey' = [survey EXCEPT ![s] = j] /\ spc' = [spc EXCEPT ![s] = "save"]
  BY DEF DateMetrics, Holds, SurveyGoes
<1> HIDE DEF j
<1>3. /\ survey'[s] = j /\ spc'[s] = "save"
      /\ \A q \in Surveys \ {s} : survey'[q] = survey[q] /\ spc'[q] = spc[q]
      /\ survey' \in [Surveys -> SurveyStates] /\ spc' \in [Surveys -> SurveyStages]
  BY <1>t, <1>1, <1>2 DEF MeterTypes, SurveyStages
<1>4. AtContainer' /\ SureDict' /\ SureReadings'
  <2>1. \A n \in j.start : j.known[n] = n
    BY <1>t, <1>1 DEF IInv, SureDict
  <2> QED
    BY <1>1, <1>3, <2>1, SurveysKept DEF IInv, SureReadings
<1>5. StoredByStarted' /\ KnownTyped'
  BY <1>t, <1>1, <1>3, RowsKept DEF DateMetrics
<1>6. MeterTypes'
  BY <1>t, <1>3 DEF DateMetrics, MeterTypes
<1> QED
  BY <1>4, <1>5, <1>6 DEF IInv

LEMMA SaveStep ==
  ASSUME IInv, NEW s \in Surveys, SaveMetrics(s)
  PROVE  IInv'
<1> DEFINE got == survey[s].got
<1> DEFINE j == [survey[s] EXCEPT !.account = Unbound, !.got = <<>>, !.at = 0]
<1>t. MeterTypes /\ survey[s] \in SurveyStates /\ spc[s] = "save" /\ got \in Seq(Readings)
      /\ survey[s].at \in 0 .. LastHour
  BY SurveyParts DEF IInv, SaveMetrics
<1>1. j \in SurveyStates /\ j.start = survey[s].start /\ j.known = survey[s].known /\ j.got = <<>>
  BY <1>t, EmptySeq, ClockStarts DEF SurveyStates
<1>2. survey' = [survey EXCEPT ![s] = j] /\ spc' = [spc EXCEPT ![s] = "accounts"]
  BY DEF SaveMetrics, Holds, SurveyGoes
<1> HIDE DEF j
<1>3. /\ survey'[s] = j /\ spc'[s] = "accounts"
      /\ \A q \in Surveys \ {s} : survey'[q] = survey[q] /\ spc'[q] = spc[q]
      /\ survey' \in [Surveys -> SurveyStates] /\ spc' \in [Surveys -> SurveyStages]
  BY <1>t, <1>1, <1>2 DEF MeterTypes, SurveyStages
<1>4. AtContainer' /\ SureDict' /\ SureReadings'
  <2>1. \A n \in j.start : j.known[n] = n
    BY <1>t, <1>1 DEF IInv, SureDict
  <2> QED
    BY <1>1, <1>3, <2>1, SurveysKept
<1>5. CASE UNCHANGED stored
  <2>1. StoredByStarted' /\ KnownTyped'
    BY <1>1, <1>3, <1>5, RowsKept
  <2>2. MeterTypes'
    BY <1>t, <1>3, <1>5 DEF SaveMetrics, MeterTypes
  <2> QED
    BY <1>4, <2>1, <2>2 DEF IInv
<1>6. ASSUME NEW v \in [DOMAIN got -> Values],
             stored' = stored \o [k \in DOMAIN got |->
               LET m == got[k] IN Metric(m.of, m.name, m.type, v[k], survey[s].at, s)]
      PROVE  IInv'
  <2> DEFINE new == [k \in DOMAIN got |->
                       LET m == got[k] IN Metric(m.of, m.name, m.type, v[k], survey[s].at, s)]
  <2>1. DOMAIN got = 1 .. Len(got) /\ Len(got) \in Nat
    BY <1>t, LenProperties
  <2>2. \A k \in DOMAIN got : got[k] \in Readings /\ v[k] \in Values
    BY <1>t, ElementOfSeq, <2>1
  <2>3. \A k \in DOMAIN got : /\ new[k] \in Metrics /\ new[k].by = s
                              /\ new[k].name = got[k].name /\ new[k].type = got[k].type
    <3> SUFFICES ASSUME NEW k \in DOMAIN got
                 PROVE  /\ new[k] \in Metrics /\ new[k].by = s
                        /\ new[k].name = got[k].name /\ new[k].type = got[k].type
      OBVIOUS
    <3>1. new[k] = [of |-> got[k].of, name |-> got[k].name, type |-> got[k].type,
                    value |-> v[k], at |-> survey[s].at, by |-> s]
      BY DEF Metric
    <3>2. got[k].of \in Containers /\ got[k].name \in Names /\ got[k].type \in Names
      BY <2>2 DEF Readings
    <3>3. survey[s].at \in 0 .. LastHour
      BY <1>t
    <3> HIDE DEF new
    <3> QED
      BY <2>2, <3>1, <3>2, <3>3 DEF Metrics
  <2>4. new \in Seq(Metrics) /\ Len(new) = Len(got) /\ DOMAIN new = DOMAIN got
    <3>1. new \in [1 .. Len(got) -> Metrics]
      BY <2>1, <2>3
    <3> HIDE DEF new
    <3> QED
      BY <2>1, <3>1
  <2> HIDE DEF new
  <2>5. /\ stored' \in Seq(Metrics)
        /\ \A k \in DOMAIN stored' :
             \/ k \in DOMAIN stored /\ stored'[k] = stored[k]
             \/ \E l \in DOMAIN got : stored'[k] = new[l]
    <3>1. stored' = stored \o new /\ stored \in Seq(Metrics)
      BY <1>t, <1>6 DEF new, MeterTypes
    <3>2. /\ stored \o new \in Seq(Metrics) /\ Len(stored \o new) = Len(stored) + Len(new)
          /\ \A k \in 1 .. Len(stored) + Len(new) :
               (stored \o new)[k] = IF k <= Len(stored) THEN stored[k] ELSE new[k - Len(stored)]
      BY <2>4, <3>1, ConcatProperties
    <3>3. Len(stored) \in Nat /\ DOMAIN stored = 1 .. Len(stored)
          /\ DOMAIN stored' = 1 .. Len(stored) + Len(new)
      BY <2>4, <3>1, <3>2, LenProperties
    <3> SUFFICES ASSUME NEW k \in DOMAIN stored'
                 PROVE  \/ k \in DOMAIN stored /\ stored'[k] = stored[k]
                        \/ \E l \in DOMAIN got : stored'[k] = new[l]
      BY <3>1, <3>2
    <3>4. CASE k <= Len(stored)
      BY <3>1, <3>2, <3>3, <3>4
    <3>5. CASE ~(k <= Len(stored))
      <4>1. k - Len(stored) \in DOMAIN got
        BY <2>1, <2>4, <3>3, <3>5
      <4>2. stored'[k] = new[k - Len(stored)]
        BY <2>1, <2>4, <3>1, <3>2, <3>3, <3>5
      <4> QED
        BY <4>1, <4>2
    <3> QED
      BY <3>4, <3>5
  <2>6. MeterTypes'
    BY <1>t, <1>3, <2>5 DEF SaveMetrics, MeterTypes
  <2>7. \A k \in DOMAIN stored : stored[k].by \in Surveys \cup Clients
    <3>1. \A k \in DOMAIN stored : stored[k] \in Metrics
      BY <1>t, ElementOfSeq DEF MeterTypes
    <3> QED
      BY <3>1 DEF Metrics
  <2>8. StoredByStarted'
    BY <1>3, <2>3, <2>5 DEF IInv, StoredByStarted
  <2>9. KnownTyped'
    <3> SUFFICES ASSUME NEW k \in DOMAIN stored',
                        \/ stored'[k].by \in Clients
                        \/ stored'[k].name \in survey'[stored'[k].by].start
                 PROVE  stored'[k].type = stored'[k].name
      BY DEF KnownTyped
    <3>1. CASE k \in DOMAIN stored /\ stored'[k] = stored[k]
      <4>1. stored[k].by \in Surveys => survey'[stored[k].by].start = survey[stored[k].by].start
        BY <1>1, <1>3
      <4> QED
        BY <2>7, <3>1, <4>1 DEF IInv, KnownTyped
    <3>2. CASE \E l \in DOMAIN got : stored'[k] = new[l]
      <4>1. PICK l \in DOMAIN got : stored'[k] = new[l]
        BY <3>2
      <4>2. got[l].name \in survey[s].start
        BY <1>1, <1>3, <2>3, <4>1, ConstantsAssumption
      <4> QED
        BY <2>3, <4>1, <4>2 DEF IInv, SureReadings
    <3> QED
      BY <2>5, <3>1, <3>2
  <2> QED
    BY <1>4, <2>6, <2>8, <2>9 DEF IInv
<1> QED
  BY <1>5, <1>6 DEF SaveMetrics

LEMMA EndsStep ==
  ASSUME IInv, NEW s \in Surveys, NEW stage \in {"failing", "ended", "crashed"},
         Forgets(s), SurveyGoes(s, stage), spc[s] \notin {"absent", "idle"},
         UNCHANGED <<now, types, stored, asking>>,
         \/ UNCHANGED told
         \/ \E status \in {"SUCCESS", "FAILURE"} : Tells(s, status)
  PROVE  IInv'
<1>t. MeterTypes
  BY DEF IInv
<1>1. /\ survey' \in [Surveys -> SurveyStates] /\ survey'[s].start = survey[s].start
      /\ survey'[s].got = <<>> /\ \A q \in Surveys \ {s} : survey'[q] = survey[q]
  BY <1>t, ForgetsType
<1>2. /\ spc'[s] = stage /\ \A q \in Surveys \ {s} : spc'[q] = spc[q]
      /\ spc' \in [Surveys -> SurveyStages]
  BY <1>t DEF SurveyGoes, MeterTypes, SurveyStages
<1>3. MeterTypes'
  <2>1. told' \in [Surveys -> {"none", "RUNNING", "SUCCESS", "FAILURE"}]
    BY <1>t DEF Tells, MeterTypes
  <2>2. UNCHANGED <<now, types, stored, cpc, asked>>
    OBVIOUS
  <2> QED
    BY <1>t, <1>1, <1>2, <2>1, <2>2, RequestsStay DEF MeterTypes
<1>4. AtContainer' /\ SureDict' /\ SureReadings'
  BY <1>1, <1>2, SurveysKept
<1>5. StoredByStarted' /\ KnownTyped'
  BY <1>1, <1>2, RowsKept
<1> QED
  BY <1>3, <1>4, <1>5 DEF IInv

\* Steps that change none of what IInv is about but the stage of a survey.
LEMMA StageStep ==
  ASSUME IInv, NEW s \in Surveys, UNCHANGED <<now, types, stored, survey, told, asking>>,
         \/ spc' = spc
         \/ spc[s] \in {"accounts", "metrics"} /\ SurveyGoes(s, "failing")
         \/ spc[s] = "metrics" /\ SurveyGoes(s, "containers")
  PROVE  IInv'
<1>t. MeterTypes
  BY DEF IInv
<1>1. MeterTypes'
  <2>1. spc' \in [Surveys -> SurveyStages]
    BY <1>t DEF SurveyGoes, MeterTypes, SurveyStages
  <2>2. UNCHANGED <<now, types, stored, survey, told, cpc, asked>>
    OBVIOUS
  <2> QED
    BY <1>t, <2>1, <2>2, RequestsStay DEF MeterTypes
<1>2. AtContainer' /\ SureDict' /\ SureReadings'
  BY <1>t DEF SurveyGoes, MeterTypes, IInv, AtContainer, SureDict, SureReadings
<1>3. StoredByStarted' /\ KnownTyped'
  BY <1>t, RowsKept DEF SurveyGoes, MeterTypes
<1> QED
  BY <1>1, <1>2, <1>3 DEF IInv

\* A client's metric, once it has its type, is a row under its own name.
LEMMA ClientMetric ==
  ASSUME MeterTypes, NEW r \in Clients, ClientAdds(r)
  PROVE  \E m \in Metrics : /\ stored' = Append(stored, m)
                            /\ m.by = r /\ m.type = m.name
<1>1. PICK c \in Containers, v \in Values :
        stored' = Append(stored, Metric(c, asked[r].name, asked[r].name, v, asked[r].at, r))
  BY DEF ClientAdds
<1> DEFINE m == Metric(c, asked[r].name, asked[r].name, v, asked[r].at, r)
<1>2. asked[r].at \in 0 .. LastHour /\ asked[r].name \in Names
  BY DEF MeterTypes, ClientAdds
<1>3. m \in Metrics /\ m.by = r /\ m.type = m.name
  BY <1>2 DEF Metric, Metrics
<1> QED
  BY <1>1, <1>3

LEMMA ClientAddsStep ==
  ASSUME IInv, NEW r \in Clients, ClientAdds(r)
  PROVE  IInv'
<1>t. MeterTypes
  BY DEF IInv
<1>1. PICK m \in Metrics : stored' = Append(stored, m) /\ m.by = r /\ m.type = m.name
  BY <1>t, ClientMetric
<1>4. /\ stored' \in Seq(Metrics)
      /\ \A k \in DOMAIN stored' :
           (k \in DOMAIN stored /\ stored'[k] = stored[k]) \/ stored'[k] = m
  <2>1. stored \in Seq(Metrics)
    BY <1>t DEF MeterTypes
  <2>2. /\ stored' \in Seq(Metrics) /\ Len(stored') = Len(stored) + 1
        /\ \A k \in 1 .. Len(stored) : stored'[k] = stored[k]
        /\ stored'[Len(stored) + 1] = m
    BY <1>1, <2>1, AppendProperties
  <2>3. Len(stored) \in Nat /\ DOMAIN stored = 1 .. Len(stored)
        /\ DOMAIN stored' = 1 .. Len(stored) + 1
    BY <2>1, <2>2, LenProperties
  <2> QED
    BY <2>2, <2>3
<1>5. MeterTypes'
  <2>1. /\ cpc' \in [Clients -> {"absent", "idle", "dated", "typed", "done"}]
        /\ asked' \in [Clients -> [name : Names \cup {Unbound}, at : 0 .. LastHour]]
    BY <1>t, ClockStarts DEF ClientAdds, MeterTypes, NoMetric
  <2>2. \A q \in Clients : cpc'[q] \in {"dated", "typed"} => asked'[q].name # Unbound
    BY <1>t DEF ClientAdds, MeterTypes
  <2> QED
    BY <1>t, <1>4, <2>1, <2>2 DEF ClientAdds, MeterTypes, surveying
<1>6. UNCHANGED <<spc, survey>>
  BY DEF ClientAdds, surveying
<1>7. AtContainer' /\ SureDict' /\ SureReadings'
  BY <1>6 DEF IInv, AtContainer, SureDict, SureReadings
<1>8. StoredByStarted' /\ KnownTyped'
  BY <1>1, <1>4, <1>6, ConstantsAssumption DEF IInv, StoredByStarted, KnownTyped
<1> QED
  BY <1>5, <1>7, <1>8 DEF IInv

LEMMA ClientTypesStep ==
  ASSUME IInv, NEW r \in Clients, ClientAsks(r) \/ ClientTypes(r)
  PROVE  IInv'
<1>t. MeterTypes
  BY DEF IInv
<1>1. UNCHANGED <<now, stored, spc, survey, told>>
  BY DEF ClientAsks, ClientTypes, surveying
<1>2. ASSUME ClientAsks(r)
      PROVE  MeterTypes'
  <2>1. PICK n \in Names, t \in 0 .. LastHour :
          asked' = [asked EXCEPT ![r] = [name |-> n, at |-> t]]
    BY <1>2 DEF ClientAsks
  <2> DEFINE m == [name |-> n, at |-> t]
  <2>2. m \in [name : Names \cup {Unbound}, at : 0 .. LastHour] /\ m.name # Unbound
    BY ConstantsAssumption
  <2>3. asked' = [asked EXCEPT ![r] = m] /\ cpc' = [cpc EXCEPT ![r] = "dated"] /\ UNCHANGED types
    BY <1>2, <2>1 DEF ClientAsks
  <2> HIDE DEF m
  <2> QED
    BY <1>t, <1>1, <2>2, <2>3 DEF MeterTypes
<1>3. ASSUME ClientTypes(r)
      PROVE  MeterTypes'
  <2>1. asked[r].name \in Names
    BY <1>t, <1>3 DEF ClientTypes, MeterTypes
  <2> QED
    BY <1>t, <1>1, <1>3, <2>1 DEF ClientTypes, MeterTypes
<1>4. AtContainer' /\ SureDict' /\ SureReadings' /\ StoredByStarted' /\ KnownTyped'
  BY <1>1 DEF IInv, AtContainer, SureDict, SureReadings, StoredByStarted, KnownTyped
<1> QED
  BY <1>2, <1>3, <1>4 DEF IInv

\* The clock, the daily jobs, and steps that change nothing.
LEMMA OtherStep ==
  ASSUME IInv, UNCHANGED <<types, stored, surveying, asking>>, now' \in 0 .. LastHour
  PROVE  IInv'
<1>1. MeterTypes'
  <2>1. MeterTypes /\ UNCHANGED <<types, stored, spc, survey, told, cpc, asked>>
    BY DEF IInv, surveying
  <2> QED
    BY <2>1, RequestsStay DEF MeterTypes
<1>2. AtContainer' /\ SureDict' /\ SureReadings' /\ StoredByStarted' /\ KnownTyped'
  BY DEF IInv, AtContainer, SureDict, SureReadings, StoredByStarted, KnownTyped, surveying
<1> QED
  BY <1>1, <1>2 DEF IInv

LEMMA NextKeeps == IInv /\ [Next]_vars => IInv'
<1> SUFFICES ASSUME IInv, [Next]_vars PROVE IInv'
  OBVIOUS
<1>t. MeterTypes /\ now \in 0 .. LastHour
  BY DEF IInv, MeterTypes
<1>1. CASE Tick
  <2>1. now' \in 0 .. LastHour
    BY <1>t, <1>1, ConstantsAssumption DEF Tick, LastHour
  <2> QED
    BY <1>1, <2>1, OtherStep DEF Tick
<1>2. ASSUME NEW s \in Surveys, Surveying(s) PROVE IInv'
  <2>1. CASE SurveyStarts(s)
    BY <2>1, StartsStep
  <2>2. CASE NextAccount(s)
    BY <2>2, NextAccountStep
  <2>3. CASE AccountFails(s)
    BY <2>3, StageStep DEF AccountFails
  <2>4. CASE NextContainer(s)
    BY <2>4, NextContainerStep
  <2>5. CASE TakeKnown(s)
    BY <2>5, TakeKnownStep
  <2>6. CASE TakeNew(s)
    BY <2>6, TakeNewStep
  <2>7. CASE ContainerEnds(s)
    BY <2>7, StageStep DEF ContainerEnds
  <2>8. CASE SaveMetrics(s)
    BY <2>8, SaveStep
  <2>11. CASE DateMetrics(s)
    BY <2>11, DateStep
  <2>9. CASE Finalize(s)
    BY <2>9, EndsStep DEF Finalize
  <2>10. CASE SurveyFails(s)
    BY <2>10, EndsStep DEF SurveyFails
  <2> QED
    BY <1>2, <2>1, <2>2, <2>3, <2>4, <2>5, <2>6, <2>7, <2>8, <2>9, <2>10, <2>11 DEF Surveying
<1>3. ASSUME NEW r \in Clients, ClientAsks(r) \/ ClientTypes(r) \/ ClientAdds(r) PROVE IInv'
  BY <1>3, ClientTypesStep, ClientAddsStep
<1>4. ASSUME NEW d \in Dailies, Billing(d) PROVE IInv'
  <2>1. UNCHANGED <<now, types, stored, surveying, asking>>
    BY <1>4 DEF Billing, DailyStarts, CountRows, DeleteRows, InsertRows, Unexpose, Expose
  <2> QED
    BY <1>t, <2>1, OtherStep
<1>5. CASE Crash
  <2>1. CASE \E s \in Surveys :
               /\ spc[s] \in {"accounts", "containers", "metrics", "save", "failing"}
               /\ SurveyGoes(s, "crashed") /\ Forgets(s)
    BY <1>5, <2>1, EndsStep DEF Crash
  <2>2. CASE UNCHANGED <<spc, survey>>
    BY <1>t, <1>5, <2>2, OtherStep DEF Crash, surveying
  <2> QED
    BY <1>5, <2>1, <2>2 DEF Crash
<1>6. CASE UNCHANGED vars
  BY <1>t, <1>6, OtherStep DEF vars, surveying
<1> QED
  BY <1>1, <1>2, <1>3, <1>4, <1>5, <1>6 DEF Next

----------------------------------------------------------------------------
(* The theorems.                                                           *)

\* What surveys and clients write has its type, whatever daily jobs do.
THEOREM MeteringTyped == Spec => []MeterTypes
<1>1. IInv => MeterTypes
  BY DEF IInv
<1> QED
  BY <1>1, InitHolds, NextKeeps, PTL DEF Spec

\* For every report of every container, with surveys that overlap, fail and
\* crash while clients add types: a metric whose name had a type when its survey
\* started is stored under that type.
THEOREM KnownNamesTyped == Spec => []KnownTyped
<1>1. IInv => KnownTyped
  BY DEF IInv
<1> QED
  BY <1>1, InitHolds, NextKeeps, PTL DEF Spec

----------------------------------------------------------------------------
(* Sums over the rows.                                                     *)

\* A set of natural numbers that is not empty has a least element.
LEMMA LeastElement ==
  ASSUME NEW S, S \subseteq Nat, S # {}
  PROVE  \E n \in S : \A m \in S : n <= m
<1> DEFINE R == OpToRel(<, Nat)
<1>1. IsWellFoundedOn(R, Nat)
  BY NatLessThanWellFounded
<1>2. \A x, y \in Nat : y < x => <<y, x>> \in R
  BY DEF OpToRel
<1> HIDE DEF R
<1>3. PICK x \in S : \A y \in S : ~(<<y, x>> \in R)
  BY <1>1, WFMin
<1>4. x \in Nat /\ \A y \in S : y \in Nat /\ ~(y < x)
  BY <1>2, <1>3
<1>5. \A y \in S : x <= y
  BY <1>4
<1> QED
  BY <1>3, <1>5

\* Induction on the natural numbers, for a set of them.
LEMMA NaturalInduction ==
  ASSUME NEW S, 0 \in S, \A n \in Nat : n \in S => n + 1 \in S
  PROVE  \A n \in Nat : n \in S
<1> SUFFICES ASSUME Nat \ S # {} PROVE FALSE
  OBVIOUS
<1>1. PICK n \in Nat \ S : \A m \in Nat \ S : n <= m
  BY LeastElement
<1>2. n - 1 \in Nat /\ n - 1 \in S /\ n = (n - 1) + 1
  BY <1>1
<1> QED
  BY <1>1, <1>2

\* What SumOver computes, for any number of rows.
Sums(s, N, K, f) ==
  s = [n \in 0 .. N |-> IF n = 0 THEN 0 ELSE s[n - 1] + (IF n \in K THEN f[n] ELSE 0)]
Sum(N, K, f) == (CHOOSE s : Sums(s, N, K, f))[N]

\* There is such a function, so that the recursion has a value.
LEMMA SumsExist ==
  ASSUME NEW N \in Nat, NEW K, NEW f
  PROVE  \E s : Sums(s, N, K, f)
<1> DEFINE G == {n \in Nat : \E s : Sums(s, n, K, f)}
<1>1. 0 \in G
  <2> DEFINE s == [n \in 0 .. 0 |-> 0]
  <2>1. Sums(s, 0, K, f)
    BY DEF Sums
  <2> QED  BY <2>1
<1>2. ASSUME NEW m \in Nat, m \in G
      PROVE  m + 1 \in G
  <2>1. PICK s : Sums(s, m, K, f)
    BY <1>2
  <2> DEFINE add == IF m + 1 \in K THEN f[m + 1] ELSE 0
             t == [n \in 0 .. m + 1 |-> IF n = m + 1 THEN s[m] + add ELSE s[n]]
  <2>2. \A n \in 0 .. m + 1 :
          t[n] = IF n = 0 THEN 0 ELSE t[n - 1] + (IF n \in K THEN f[n] ELSE 0)
    <3> TAKE n \in 0 .. m + 1
    <3>1. CASE n = m + 1
      <4>1. n - 1 \in 0 .. m + 1 /\ n - 1 = m /\ n # 0 /\ m # m + 1
        BY <3>1
      <4>2. t[n] = s[m] + add /\ t[n - 1] = s[m]
        BY <3>1, <4>1
      <4> QED  BY <3>1, <4>1, <4>2
    <3>2. CASE n # m + 1
      <4>1. n \in 0 .. m /\ (n # 0 => n - 1 \in 0 .. m)
        BY <3>2
      <4>2. s[n] = IF n = 0 THEN 0 ELSE s[n - 1] + (IF n \in K THEN f[n] ELSE 0)
        BY <2>1, <4>1 DEF Sums
      <4>3. t[n] = s[n] /\ (n # 0 => t[n - 1] = s[n - 1])
        BY <3>2, <4>1
      <4> QED  BY <4>2, <4>3
    <3> QED  BY <3>1, <3>2
  <2>3. t = [n \in 0 .. m + 1 |-> t[n]]
    OBVIOUS
  <2> HIDE DEF t
  <2>4. Sums(t, m + 1, K, f)
    BY <2>2, <2>3 DEF Sums
  <2>5. \E s1 : Sums(s1, m + 1, K, f)
    BY <2>4
  <2> QED  BY <2>5
<1> HIDE DEF G
<1>3. N \in G
  BY <1>1, <1>2, NaturalInduction
<1> QED
  BY <1>3 DEF G

\* The sums of the first rows, one row at a time.
SumsBy(s, N, K, f) ==
  /\ \A n \in 0 .. N : s[n] \in Int
  /\ s[0] = 0
  /\ \A n \in 0 .. N - 1 : s[n + 1] = s[n] + (IF n + 1 \in K THEN f[n + 1] ELSE 0)

LEMMA SumSteps ==
  ASSUME NEW N \in Nat, NEW K, NEW f, \A k \in K : f[k] \in Int
  PROVE  \E s : SumsBy(s, N, K, f) /\ Sum(N, K, f) = s[N]
<1> DEFINE s == CHOOSE s : Sums(s, N, K, f)
<1>1. Sums(s, N, K, f)
  BY SumsExist
<1>2. Sum(N, K, f) = s[N]
  BY DEF Sum
<1> HIDE DEF s
<1>3. \A n \in 0 .. N : s[n] = IF n = 0 THEN 0 ELSE s[n - 1] + (IF n \in K THEN f[n] ELSE 0)
  BY <1>1 DEF Sums
<1>4. s[0] = 0
  <2>1. 0 \in 0 .. N
    OBVIOUS
  <2> QED  BY <1>3, <2>1
<1>5. \A n \in 0 .. N - 1 : s[n + 1] = s[n] + (IF n + 1 \in K THEN f[n + 1] ELSE 0)
  <2> TAKE n \in 0 .. N - 1
  <2>1. n + 1 \in 0 .. N /\ n + 1 # 0 /\ (n + 1) - 1 = n
    OBVIOUS
  <2> QED  BY <1>3, <2>1
<1> DEFINE G == {n \in Nat : n <= N => s[n] \in Int}
<1>6. 0 \in G
  BY <1>4
<1>7. \A n \in Nat : n \in G => n + 1 \in G
  <2> SUFFICES ASSUME NEW n \in Nat, n \in G, n + 1 <= N PROVE s[n + 1] \in Int
    OBVIOUS
  <2>1. n \in 0 .. N - 1 /\ s[n] \in Int
    OBVIOUS
  <2>2. s[n + 1] = s[n] + (IF n + 1 \in K THEN f[n + 1] ELSE 0)
    BY <1>5, <2>1
  <2> QED  BY <2>1, <2>2
<1> HIDE DEF G
<1>8. \A n \in Nat : n \in G
  BY <1>6, <1>7, NaturalInduction
<1>9. \A n \in 0 .. N : s[n] \in Int
  BY <1>8 DEF G
<1> QED
  BY <1>2, <1>4, <1>5, <1>9 DEF SumsBy

\* Rows that come after those of a sum do not change it.
LEMMA SumStays ==
  ASSUME NEW N \in Nat, NEW M \in Nat, N <= M, NEW K, NEW f,
         K \subseteq 1 .. N, \A k \in K : f[k] \in Int
  PROVE  Sum(M, K, f) = Sum(N, K, f)
<1>1. PICK s : SumsBy(s, N, K, f) /\ Sum(N, K, f) = s[N]
  BY SumSteps
<1>2. PICK t : SumsBy(t, M, K, f) /\ Sum(M, K, f) = t[M]
  BY SumSteps
<1> DEFINE Low == {n \in Nat : n <= N => t[n] = s[n]}
           High == {n \in Nat : N <= n /\ n <= M => t[n] = s[N]}
<1>3. N \in Low
  <2>1. 0 \in Low
    BY <1>1, <1>2 DEF SumsBy
  <2>2. \A n \in Nat : n \in Low => n + 1 \in Low
    <3> SUFFICES ASSUME NEW n \in Nat, n \in Low, n + 1 <= N PROVE t[n + 1] = s[n + 1]
      OBVIOUS
    <3>1. n \in 0 .. N - 1 /\ n \in 0 .. M - 1 /\ t[n] = s[n]
      OBVIOUS
    <3> QED  BY <1>1, <1>2, <3>1 DEF SumsBy
  <2> HIDE DEF Low
  <2> QED  BY <2>1, <2>2, NaturalInduction
<1>4. M \in High
  <2>1. 0 \in High
    <3> SUFFICES ASSUME N <= 0 PROVE t[0] = s[N]
      OBVIOUS
    <3>1. N = 0
      OBVIOUS
    <3> QED  BY <1>1, <1>2, <3>1 DEF SumsBy
  <2>2. \A n \in Nat : n \in High => n + 1 \in High
    <3> SUFFICES ASSUME NEW n \in Nat, n \in High, N <= n + 1, n + 1 <= M PROVE t[n + 1] = s[N]
      OBVIOUS
    <3>1. CASE N = n + 1
      BY <1>3, <3>1
    <3>2. CASE N # n + 1
      <4>1. n \in 0 .. M - 1 /\ N <= n /\ n <= M
        BY <3>2
      <4>2. t[n] = s[N] /\ n + 1 \notin K /\ t[n] \in Int
        BY <1>2, <4>1 DEF SumsBy
      <4> QED  BY <1>2, <4>1, <4>2 DEF SumsBy
    <3> QED  BY <3>1, <3>2
  <2> HIDE DEF High
  <2> QED  BY <2>1, <2>2, NaturalInduction
<1> QED
  BY <1>1, <1>2, <1>4

----------------------------------------------------------------------------
(* Type correctness of what daily jobs write.                              *)

\* The rows of service_metric.
LEMMA RowParts ==
  ASSUME MeterTypes
  PROVE  /\ Len(stored) \in Nat /\ DOMAIN stored = 1 .. Len(stored)
         /\ \A k \in DOMAIN stored :
              /\ k \in Nat /\ stored[k].at \in Nat /\ stored[k].value \in Nat
         /\ Hours \in Nat \ {0} /\ Days \in Nat /\ LastHour \in Nat /\ now \in Nat
<1>1. stored \in Seq(Metrics) /\ now \in 0 .. LastHour
  BY DEF MeterTypes
<1>2. Hours \in Nat \ {0} /\ Days \in Nat /\ LastHour \in Nat /\ Values \subseteq Nat
  BY ConstantsAssumption DEF LastHour
<1>3. Len(stored) \in Nat /\ DOMAIN stored = 1 .. Len(stored)
  BY <1>1, LenProperties
<1>4. \A k \in DOMAIN stored : stored[k] \in Metrics
  BY <1>1, ElementOfSeq
<1>5. \A k \in DOMAIN stored : stored[k].at \in 0 .. LastHour /\ stored[k].value \in Values
  BY <1>4 DEF Metrics
<1>6. \A k \in DOMAIN stored : k \in Nat /\ stored[k].at \in Nat /\ stored[k].value \in Nat
  <2> TAKE k \in DOMAIN stored
  <2>1. k \in 1 .. Len(stored)
    BY <1>3
  <2>2. \A t \in 0 .. LastHour : t \in Nat
    BY <1>2
  <2>3. k \in Nat
    BY <1>3, <2>1
  <2>4. stored[k].at \in Nat
    BY <1>5, <2>2
  <2>5. stored[k].value \in Nat
    BY <1>2, <1>5
  <2> QED  BY <2>3, <2>4, <2>5
<1> QED
  BY <1>1, <1>2, <1>3, <1>6

LEMMA RowDates == MeterTypes => \A i \in DOMAIN stored : stored[i].at \in Nat
BY RowParts

\* Days and hours.
LEMMA HoursPositive == Hours \in Nat \ {0}
BY ConstantsAssumption

LEMMA DayBounds ==
  ASSUME NEW t \in Nat
  PROVE  /\ Day(t) \in Nat /\ Day(t) * Hours \in Nat
         /\ Day(t) * Hours <= t /\ t < Day(t) * Hours + Hours
BY HoursPositive DEF Day

LEMMA PeriodHours ==
  ASSUME NEW p \in Nat
  PROVE  p * Hours \in Nat /\ (p + 1) * Hours = p * Hours + Hours
BY HoursPositive

LEMMA ProductOrder ==
  ASSUME NEW a \in Int, NEW b \in Int, NEW c \in Int, a <= b, 0 <= c
  PROVE  a * c <= b * c
OBVIOUS

LEMMA DayOrder ==
  ASSUME NEW t \in Nat, NEW p \in Nat
  PROVE  /\ t < p * Hours <=> Day(t) < p
         /\ t >= p * Hours + Hours <=> Day(t) > p
<1> DEFINE q == Day(t)
           H == Hours
           P == p * Hours
           Q == q * Hours
<1>1. q \in Nat /\ H \in Nat \ {0} /\ P \in Nat /\ Q \in Nat /\ Q <= t /\ t < Q + H
  BY DayBounds, PeriodHours, HoursPositive
<1> HIDE DEF q
<1>2. \A a, b \in Nat : a <= b => a * Hours <= b * Hours
  BY HoursPositive, ProductOrder
<1>3. q < p => Q + H <= P
  <2>1. q < p => (q + 1) * Hours <= p * Hours
    BY <1>1, <1>2
  <2> QED  BY <1>1, <2>1, PeriodHours
<1>4. p < q => P + H <= Q
  <2>1. p < q => (p + 1) * Hours <= q * Hours
    BY <1>1, <1>2
  <2> QED  BY <1>1, <2>1, PeriodHours
<1>5. (p <= q => P <= Q) /\ (q <= p => Q <= P)
  BY <1>1, <1>2
<1> HIDE DEF P, Q, H
<1>6. (t < P <=> q < p) /\ (t >= P + H <=> q > p)
  BY <1>1, <1>3, <1>4, <1>5
<1> QED
  BY <1>6 DEF P, H, q

LEMMA DayMonotone ==
  ASSUME NEW t \in Nat, NEW u \in Nat, t <= u
  PROVE  Day(t) <= Day(u)
<1>1. Day(t) \in Nat /\ Day(u) \in Nat /\ Day(t) * Hours \in Nat /\ Day(t) * Hours <= t
  BY DayBounds
<1>2. u < Day(t) * Hours <=> Day(u) < Day(t)
  BY <1>1, DayOrder
<1> QED
  BY <1>1, <1>2

LEMMA LastDay ==
  ASSUME MeterTypes
  PROVE  Day(now) \in 0 .. Days
<1>1. now \in Nat /\ now <= Days * Hours /\ Days \in Nat /\ Hours \in Nat \ {0}
  BY RowParts DEF MeterTypes, LastHour
<1>2. Day(now) \in Nat /\ (now >= Days * Hours + Hours <=> Day(now) > Days) /\ Days * Hours \in Nat
  BY <1>1, DayBounds, DayOrder, PeriodHours
<1> QED
  BY <1>1, <1>2

\* The rows that count are rows, and how long one lasts is a difference of hours.
LEMMA CountedParts ==
  ASSUME MeterTypes, NEW c, NEW type, NEW p \in Nat
  PROVE  /\ Counted(c, type, p) \subseteq DOMAIN stored
         /\ Before(c, type, p) \subseteq DOMAIN stored
         /\ Within(c, type, p) \subseteq DOMAIN stored
         /\ \A k \in DOMAIN stored : Epoch(k, p) \in Nat
BY RowParts, PeriodHours DEF Counted, Before, Within, Latest, Epoch

LEMMA LastsParts ==
  ASSUME MeterTypes, NEW K, K \subseteq DOMAIN stored, NEW k \in K, NEW p \in Nat
  PROVE  /\ Lasts(k, K, p) \in Int
         /\ \A l \in K : k < l /\ (\A j \in K : k < j => l <= j)
              => Lasts(k, K, p) = Epoch(l, p) - Epoch(k, p)
         /\ (\A j \in K : j <= k) /\ stored[k].at >= p * Hours
              => Lasts(k, K, p) = (p + 1) * Hours - Epoch(k, p)
<1> DEFINE next == {j \in K : j > k}
<1>0. K \subseteq Nat /\ \A j \in K : Epoch(j, p) \in Nat
  BY RowParts, CountedParts
<1>a. p * Hours \in Nat /\ (p + 1) * Hours \in Nat /\ stored[k].at \in Nat
  <2>1. p + 1 \in Nat
    OBVIOUS
  <2> QED  BY <2>1, RowParts, PeriodHours
<1>1. CASE next # {}
  <2>1. \E l \in next : \A j \in next : l <= j
    BY <1>0, <1>1, LeastElement
  <2> DEFINE l == CHOOSE j \in next : \A i \in next : j <= i
  <2>2. l \in next /\ \A i \in next : l <= i
    BY <2>1
  <2>3. Lasts(k, K, p) = Epoch(l, p) - Epoch(k, p)
    BY <1>1 DEF Lasts
  <2> HIDE DEF l
  <2>4. \A m \in K : k < m /\ (\A j \in K : k < j => m <= j) => m = l
    BY <1>0, <2>2
  <2>5. ~(\A j \in K : j <= k)
    BY <1>0, <1>1
  <2> QED
    BY <1>0, <2>2, <2>3, <2>4, <2>5
<1>2. CASE next = {}
  <2>1. Lasts(k, K, p) = IF stored[k].at < p * Hours THEN 0 ELSE (p + 1) * Hours - Epoch(k, p)
    BY <1>2 DEF Lasts
  <2>2. \A l \in K : ~(k < l)
    BY <1>0, <1>2
  <2> QED
    BY <1>0, <1>a, <2>1, <2>2
<1> QED
  BY <1>1, <1>2

\* The sums of a consume.
LEMMA ConsumeSums ==
  ASSUME MeterTypes, NEW c, NEW type, NEW p \in Nat
  PROVE  LET K == Counted(c, type, p)
             lasts == [k \in K |-> Lasts(k, K, p)]
             worth == [k \in K |-> stored[k].value * lasts[k]]
         IN  /\ \A k \in K : lasts[k] \in Int /\ worth[k] \in Int
             /\ Consume(c, type, p) = [of |-> c, type |-> type, period |-> p,
                                       hours |-> Sum(Len(stored), K, lasts),
                                       total |-> Sum(Len(stored), K, worth)]
             /\ Sum(Len(stored), K, lasts) \in Int
             /\ Sum(Len(stored), K, worth) \in Int
<1> DEFINE K == Counted(c, type, p)
           lasts == [k \in K |-> Lasts(k, K, p)]
           worth == [k \in K |-> stored[k].value * lasts[k]]
<1>1. K \subseteq DOMAIN stored
  BY CountedParts
<1>2. \A k \in K : lasts[k] \in Int
  BY <1>1, LastsParts
<1>3. \A k \in K : worth[k] \in Int
  <2> TAKE k \in K
  <2>1. stored[k].value \in Nat /\ lasts[k] \in Int
    BY <1>1, <1>2, RowParts
  <2>2. worth[k] = stored[k].value * lasts[k]
    OBVIOUS
  <2> QED  BY <2>1, <2>2
<1>4. Consume(c, type, p) = [of |-> c, type |-> type, period |-> p,
                             hours |-> SumOver(K, lasts), total |-> SumOver(K, worth)]
  BY DEF Consume
<1> HIDE DEF K, lasts, worth
<1>5. \A f : SumOver(K, f) = Sum(Len(stored), K, f)
  BY DEF SumOver, Sum, Sums
<1>6. \A f : (\A k \in K : f[k] \in Int) => Sum(Len(stored), K, f) \in Int
  <2> TAKE f
  <2> HAVE \A k \in K : f[k] \in Int
  <2>1. Len(stored) \in Nat
    BY RowParts
  <2>2. PICK s : SumsBy(s, Len(stored), K, f) /\ Sum(Len(stored), K, f) = s[Len(stored)]
    BY <2>1, SumSteps
  <2>3. Len(stored) \in 0 .. Len(stored)
    BY <2>1
  <2> QED  BY <2>2, <2>3 DEF SumsBy
<1> QED
  BY <1>2, <1>3, <1>4, <1>5, <1>6 DEF K, lasts, worth

LEMMA ConsumeType ==
  ASSUME MeterTypes, NEW c \in Containers, NEW type \in Names, NEW p \in 0 .. Days
  PROVE  /\ Consume(c, type, p) \in ConsumeRows
         /\ Consume(c, type, p).of = c /\ Consume(c, type, p).type = type
         /\ Consume(c, type, p).period = p
<1> DEFINE K == Counted(c, type, p)
           lasts == [k \in K |-> Lasts(k, K, p)]
           worth == [k \in K |-> stored[k].value * lasts[k]]
           hours == Sum(Len(stored), K, lasts)
           total == Sum(Len(stored), K, worth)
<1>1. p \in Nat
  OBVIOUS
<1>2. /\ Consume(c, type, p) = [of |-> c, type |-> type, period |-> p,
                                hours |-> hours, total |-> total]
      /\ hours \in Int /\ total \in Int
  BY <1>1, ConsumeSums
<1> HIDE DEF hours, total
<1> QED
  BY <1>2 DEF ConsumeRows

\* The consumes of an account, as its rows.
LEMMA ConsumesType ==
  ASSUME MeterTypes, NEW a, NEW p \in 0 .. Days
  PROVE  /\ ConsumesOf(a, p) \subseteq ConsumeRows
         /\ \A g \in ConsumesOf(a, p) :
              /\ Owner[g.of] = a /\ g.period = p
              /\ g = Consume(g.of, g.type, p) /\ Within(g.of, g.type, p) # {}
BY ConsumeType DEF ConsumesOf

LEMMA BillInit == Init => BillTypes
<1> SUFFICES ASSUME Init PROVE BillTypes
  OBVIOUS
<1>1. 0 \in 0 .. Days
  BY ConstantsAssumption
<1>2. NoJob \in DailyStates
  BY <1>1 DEF NoJob, DailyStates
<1> QED
  BY <1>2 DEF Init, BillTypes, DailyStages

\* What a job holds.
LEMMA DailyParts ==
  ASSUME BillTypes, NEW d \in Dailies
  PROVE  /\ daily[d] \in DailyStates /\ daily[d].period \in 0 .. Days
         /\ daily[d].from \in Nat /\ daily[d].after \subseteq Dailies
         /\ daily[d].todo \subseteq Accounts
         /\ dpc[d] \in DailyStages
BY DEF BillTypes, DailyStates

LEMMA BillStep ==
  ASSUME MeterTypes, BillTypes, NEW d \in Dailies, Billing(d)
  PROVE  BillTypes'
<1>0. daily[d] \in DailyStates /\ daily[d].period \in 0 .. Days
  BY DailyParts
<1>1. CASE DailyStarts(d)
  <2>1. PICK p \in 0 .. Day(now) :
          daily' = [daily EXCEPT ![d] = [period |-> p, from |-> Len(stored),
                                         after |-> {e \in Dailies : Started(e)},
                                         todo |-> Billed(p), account |-> Unbound]]
    BY <1>1 DEF DailyStarts
  <2>2. p \in 0 .. Days
    <3>1. Day(now) \in 0 .. Days
      BY LastDay
    <3>2. Days \in Nat
      BY ConstantsAssumption
    <3> DEFINE q == Day(now)
    <3> HIDE DEF q
    <3>3. p \in 0 .. q /\ q \in 0 .. Days
      BY <2>1, <3>1 DEF q
    <3> QED  BY <3>2, <3>3
  <2> DEFINE j == [period |-> p, from |-> Len(stored), after |-> {e \in Dailies : Started(e)},
                   todo |-> Billed(p), account |-> Unbound]
  <2>3. j \in DailyStates
    BY <2>2, RowParts DEF DailyStates, Billed
  <2>4. daily' = [daily EXCEPT ![d] = j]
    BY <2>1
  <2> HIDE DEF j
  <2> QED
    BY <1>1, <2>3, <2>4 DEF DailyStarts, DailyGoes, BillTypes, DailyStages
<1>2. CASE CountRows(d)
  <2>1. PICK a \in daily[d].todo :
          daily' = [daily EXCEPT ![d].todo = @ \ {a}, ![d].account = a]
    BY <1>2 DEF CountRows
  <2> DEFINE j == [daily[d] EXCEPT !.todo = @ \ {a}, !.account = a]
  <2>2. daily' = [daily EXCEPT ![d] = j]
    BY <2>1 DEF BillTypes
  <2>3. a \in Accounts
    BY <2>1, DailyParts
  <2>4. j \in DailyStates
    BY <1>0, <2>1, <2>3 DEF DailyStates
  <2> HIDE DEF j
  <2> QED
    BY <1>2, <2>2, <2>4 DEF CountRows, DailyGoes, BillTypes, DailyStages
<1>3. CASE DeleteRows(d)
  BY <1>3 DEF DeleteRows, DailyGoes, BillTypes, DailyStages
<1>4. CASE InsertRows(d)
  <2>1. ConsumesOf(daily[d].account, daily[d].period) \subseteq ConsumeRows
    BY <1>0, ConsumesType
  <2> QED
    BY <1>4, <2>1 DEF InsertRows, DailyGoes, BillTypes, DailyStages
<1>5. CASE Unexpose(d)
  BY <1>5 DEF Unexpose, DailyGoes, BillTypes, DailyStages
<1>6. CASE Expose(d)
  <2>1. exposed' \subseteq Dailies \X ConsumeRows
    BY <1>6 DEF Expose, BillTypes
  <2> QED
    BY <1>6, <2>1 DEF Expose, DailyGoes, BillTypes, DailyStages
<1> QED
  BY <1>1, <1>2, <1>3, <1>4, <1>5, <1>6 DEF Billing

LEMMA CrashBill ==
  ASSUME BillTypes, Crash
  PROVE  BillTypes'
<1>1. CASE UNCHANGED <<dpc, daily>>
  BY <1>1 DEF Crash, BillTypes
<1>2. ASSUME NEW d \in Dailies, DailyGoes(d, "crashed"),
             daily' = [daily EXCEPT ![d].todo = {}, ![d].account = Unbound]
      PROVE  BillTypes'
  <2> DEFINE j == [daily[d] EXCEPT !.todo = {}, !.account = Unbound]
  <2>1. j \in DailyStates
    BY DailyParts DEF DailyStates
  <2>2. daily' = [daily EXCEPT ![d] = j]
    BY <1>2 DEF BillTypes
  <2> HIDE DEF j
  <2> QED
    BY <1>2, <2>1, <2>2 DEF Crash, DailyGoes, BillTypes, DailyStages
<1> QED
  BY <1>1, <1>2 DEF Crash

TInv == IInv /\ BillTypes

LEMMA TypesKept == TInv /\ [Next]_vars => TInv'
<1> SUFFICES ASSUME TInv, [Next]_vars PROVE BillTypes'
  BY NextKeeps DEF TInv
<1>t. MeterTypes /\ BillTypes
  BY DEF TInv, IInv
<1>1. CASE UNCHANGED billing
  BY <1>t, <1>1 DEF billing, BillTypes
<1>2. CASE \E d \in Dailies : Billing(d)
  BY <1>t, <1>2, BillStep
<1>3. CASE Crash
  BY <1>t, <1>3, CrashBill
<1>4. [Next]_vars => UNCHANGED billing \/ (\E d \in Dailies : Billing(d)) \/ Crash
  BY DEF Next, vars, billing, Tick, Surveying, SurveyStarts, NextAccount, AccountFails, NextContainer,
         TakeKnown, TakeNew, ContainerEnds, DateMetrics, SaveMetrics, Finalize, SurveyFails,
         ClientAsks, ClientTypes, ClientAdds
<1> QED
  BY <1>1, <1>2, <1>3, <1>4

THEOREM TypeCorrect == Spec => []TypeOK
<1>1. Init => TInv
  BY InitHolds, BillInit DEF TInv
<1>2. TInv => TypeOK
  BY DEF TInv, IInv, TypeOK
<1> QED
  BY <1>1, <1>2, TypesKept, PTL DEF Spec

----------------------------------------------------------------------------
(* What is charged.                                                        *)

\* The hours of the rows that count add up to what is left of the day at the
\* first of them: each lasts until the next one, and the last one is of the day.
LEMMA HoursAddUp ==
  ASSUME MeterTypes, NEW c, NEW type, NEW p \in Nat, Within(c, type, p) # {},
         InDateOrder(Counted(c, type, p))
  PROVE  LET K == Counted(c, type, p)
             lasts == [k \in K |-> Lasts(k, K, p)]
         IN  /\ \A k \in K : lasts[k] >= 0
             /\ \A k \in K : p * Hours <= Epoch(k, p) /\ Epoch(k, p) < p * Hours + Hours
             /\ \E first \in K :
                  /\ \A j \in K : first <= j
                  /\ Sum(Len(stored), K, lasts) = (p * Hours + Hours) - Epoch(first, p)
<1> DEFINE K == Counted(c, type, p)
           lasts == [k \in K |-> Lasts(k, K, p)]
           N == Len(stored)
           H == Hours
           P == p * Hours
<1>1. /\ K \subseteq DOMAIN stored /\ DOMAIN stored = 1 .. N /\ N \in Nat
      /\ H \in Nat \ {0} /\ P \in Nat /\ (p + 1) * Hours = P + H
      /\ \A i \in DOMAIN stored : stored[i].at \in Nat
      /\ \A k \in DOMAIN stored : Epoch(k, p) \in Nat
      /\ \A k \in K : Lasts(k, K, p) \in Int
  BY RowParts, CountedParts, PeriodHours, LastsParts
<1>2. \A k \in Within(c, type, p) : k \in DOMAIN stored /\ P <= stored[k].at /\ stored[k].at < P + H
  <2> TAKE k \in Within(c, type, p)
  <2>1. k \in DOMAIN stored /\ stored[k].at \in Nat /\ Day(stored[k].at) = p
    BY <1>1 DEF Within
  <2> QED  BY <1>1, <2>1, DayOrder
<1>3. \A k \in K : k \in Within(c, type, p) \/ stored[k].at < P
  BY DEF Counted, Latest, Before
<1>4. \A k \in K : Epoch(k, p) = IF stored[k].at < P THEN P ELSE stored[k].at
  BY DEF Epoch
<1>5. \A j, k \in K : j < k => stored[j].at <= stored[k].at
  BY DEF InDateOrder
<1>6. \A k \in K : P <= Epoch(k, p) /\ Epoch(k, p) < P + H
  <2> HIDE DEF K, P, H, N
  <2> TAKE k \in K
  <2>1. stored[k].at \in Nat
    BY <1>1
  <2> QED  BY <1>1, <1>2, <1>3, <1>4, <2>1
<1>7. \A j, k \in K : j <= k => Epoch(j, p) <= Epoch(k, p)
  <2> HIDE DEF K, P, H, N
  <2> SUFFICES ASSUME NEW j \in K, NEW k \in K, j <= k PROVE Epoch(j, p) <= Epoch(k, p)
    OBVIOUS
  <2>1. stored[j].at \in Nat /\ stored[k].at \in Nat /\ j \in Nat /\ k \in Nat
    BY <1>1
  <2>2. stored[j].at <= stored[k].at
    BY <1>5, <2>1
  <2> QED  BY <1>1, <1>4, <2>1, <2>2
<1>8. \A k \in K : (\A j \in K : j <= k) => ~(stored[k].at < P)
  <2> SUFFICES ASSUME NEW k \in K, \A j \in K : j <= k PROVE ~(stored[k].at < P)
    OBVIOUS
  <2>1. PICK w \in Within(c, type, p) : TRUE
    OBVIOUS
  <2>2. w \in K /\ w <= k /\ P <= stored[w].at /\ w \in Nat /\ k \in Nat
    BY <1>1, <1>2 DEF Counted
  <2>3. stored[w].at <= stored[k].at
    BY <1>1, <1>5, <2>2
  <2> HIDE DEF K, P, H, N
  <2> QED  BY <1>1, <2>2, <2>3
<1> DEFINE Rest(n) == {j \in K : j > n}
           Least(S) == CHOOSE j \in S : \A l \in S : j <= l
           From(S) == IF S # {} THEN Epoch(Least(S), p) ELSE P + H
           Start(n) == From(Rest(n))
<1> HIDE DEF K, P, H, N
<1>9. \A n \in Nat : Rest(n) # {} => Least(Rest(n)) \in Rest(n) /\ \A l \in Rest(n) : Least(Rest(n)) <= l
  <2> SUFFICES ASSUME NEW n \in Nat, Rest(n) # {}
               PROVE  \E j \in Rest(n) : \A l \in Rest(n) : j <= l
    OBVIOUS
  <2>1. Rest(n) \subseteq Nat
    BY <1>1
  <2> HIDE DEF Rest
  <2> QED  BY <2>1, LeastElement
<1>10. \A n \in Nat : Start(n) \in Nat
  <2> TAKE n \in Nat
  <2>1. Rest(n) # {} => Least(Rest(n)) \in K
    <3>1. Rest(n) \subseteq K
      OBVIOUS
    <3> HIDE DEF Least, Rest
    <3> QED  BY <1>9, <3>1
  <2> HIDE DEF Least, Rest
  <2> QED  BY <1>1, <2>1
<1>11. \A k \in K : lasts[k] = Start(k) - Epoch(k, p)
  <2> TAKE k \in K
  <2>1. Lasts(k, K, p) = IF Rest(k) # {} THEN Epoch(Least(Rest(k)), p) - Epoch(k, p)
                         ELSE IF stored[k].at < p * Hours THEN 0 ELSE (p + 1) * Hours - Epoch(k, p)
    BY DEF Lasts
  <2>2. CASE Rest(k) # {}
    BY <2>1, <2>2
  <2>3. CASE Rest(k) = {}
    <3>1. \A j \in K : j <= k
      BY <1>1, <2>3
    <3>2. ~(stored[k].at < p * Hours)
      BY <1>8, <3>1 DEF P
    <3> QED  BY <1>1, <2>1, <2>3, <3>2
  <2> QED  BY <2>2, <2>3
<1>12. \A n \in Nat : n + 1 \notin K => Start(n + 1) = Start(n)
  <2> SUFFICES ASSUME NEW n \in Nat, n + 1 \notin K PROVE Start(n + 1) = Start(n)
    OBVIOUS
  <2>1. \A j \in K : j > n + 1 <=> j > n
    BY <1>1
  <2>2. Rest(n + 1) = Rest(n)
    BY <2>1
  <2> HIDE DEF From, Rest
  <2> QED  BY <2>2
<1>13. \A n \in Nat : n + 1 \in K => Start(n) = Epoch(n + 1, p)
  <2> SUFFICES ASSUME NEW n \in Nat, n + 1 \in K PROVE Start(n) = Epoch(n + 1, p)
    OBVIOUS
  <2>1. n + 1 \in Rest(n) /\ \A j \in Rest(n) : j \in Nat /\ n + 1 <= j
    BY <1>1
  <2>2. Least(Rest(n)) = n + 1
    <3>1. Least(Rest(n)) \in Rest(n) /\ Least(Rest(n)) <= n + 1
      BY <1>9, <2>1
    <3> HIDE DEF Least, Rest
    <3> QED  BY <2>1, <3>1
  <2> QED  BY <2>1, <2>2
<1>14. \A k \in K : Start(k) >= Epoch(k, p)
  <2> TAKE k \in K
  <2>1. k \in Nat /\ Epoch(k, p) \in Nat
    BY <1>1
  <2>2. CASE Rest(k) # {}
    <3>1. Least(Rest(k)) \in Rest(k)
      <4> HIDE DEF Rest, Least
      <4> QED  BY <1>9, <2>1, <2>2
    <3>m. Least(Rest(k)) \in K /\ k <= Least(Rest(k))
      <4>1. \A j \in Rest(k) : j \in K /\ k <= j
        BY <1>1
      <4> HIDE DEF Rest, Least
      <4> QED  BY <3>1, <4>1
    <3>2. Epoch(k, p) <= Epoch(Least(Rest(k)), p) /\ Epoch(Least(Rest(k)), p) \in Nat
      BY <1>1, <1>7, <3>m
    <3> QED  BY <2>1, <2>2, <3>2
  <2>3. CASE Rest(k) = {}
    BY <1>1, <1>6, <2>1, <2>3
  <2> QED  BY <2>2, <2>3
<1> HIDE DEF Start
<1>15. \A k \in K : lasts[k] >= 0 /\ lasts[k] \in Int
  <2> TAKE k \in K
  <2>1. k \in Nat /\ Start(k) \in Nat /\ Epoch(k, p) \in Nat
    BY <1>1, <1>10
  <2> HIDE DEF lasts
  <2> QED  BY <1>11, <1>14, <2>1
<1> HIDE DEF lasts
<1>16. PICK s : SumsBy(s, N, K, lasts) /\ Sum(N, K, lasts) = s[N]
  BY <1>1, <1>15, SumSteps
<1> DEFINE G == {n \in Nat : n <= N => s[n] = Start(n) - Start(0)}
<1>17. 0 \in G
  <2>1. s[0] = 0 /\ Start(0) \in Nat
    BY <1>10, <1>16 DEF SumsBy
  <2> QED  BY <2>1
<1>18. \A n \in Nat : n \in G => n + 1 \in G
  <2> SUFFICES ASSUME NEW n \in Nat, n \in G, n + 1 <= N PROVE s[n + 1] = Start(n + 1) - Start(0)
    OBVIOUS
  <2>1. n \in 0 .. N - 1 /\ s[n] = Start(n) - Start(0)
    BY <1>1
  <2>2. s[n + 1] = s[n] + (IF n + 1 \in K THEN lasts[n + 1] ELSE 0)
    BY <1>16, <2>1 DEF SumsBy
  <2>3. Start(n) \in Nat /\ Start(n + 1) \in Nat /\ Start(0) \in Nat
    BY <1>10
  <2>4. CASE n + 1 \in K
    <3>1. lasts[n + 1] = Start(n + 1) - Start(n)
      BY <1>11, <1>13, <2>4
    <3> QED  BY <2>1, <2>2, <2>3, <2>4, <3>1
  <2>5. CASE n + 1 \notin K
    <3>1. Start(n + 1) = Start(n)
      BY <1>12, <2>5
    <3> QED  BY <2>1, <2>2, <2>3, <2>5, <3>1
  <2> QED  BY <2>4, <2>5
<1>19. s[N] = Start(N) - Start(0)
  <2> HIDE DEF G
  <2>1. N \in G
    BY <1>1, <1>17, <1>18, NaturalInduction
  <2> QED  BY <1>1, <2>1 DEF G
<1>20. Start(N) = P + H
  <2>1. Rest(N) = {}
    BY <1>1
  <2> QED  BY <2>1 DEF Start
<1>21. Least(Rest(0)) \in K /\ (\A j \in K : Least(Rest(0)) <= j) /\ Start(0) = Epoch(Least(Rest(0)), p)
  <2>1. Rest(0) = K
    BY <1>1
  <2>2. K # {}
    BY DEF K, Counted
  <2> HIDE DEF Rest, Least
  <2> QED  BY <1>9, <2>1, <2>2 DEF Start
<1> HIDE DEF Least, Rest
<1>22. \E first \in K : (\A j \in K : first <= j) /\ Sum(N, K, lasts) = (P + H) - Epoch(first, p)
  <2> DEFINE first == Least(Rest(0))
  <2>1. first \in K /\ (\A j \in K : first <= j) /\ Start(0) = Epoch(first, p)
    BY <1>21
  <2> HIDE DEF first
  <2>2. Sum(N, K, lasts) = (P + H) - Epoch(first, p)
    BY <1>16, <1>19, <1>20, <2>1
  <2> QED  BY <2>1, <2>2
<1> QED
  BY <1>6, <1>15, <1>22 DEF K, lasts, N, P, H

\* A sum of products lies between the least and the greatest factor.
LEMMA Weighted ==
  ASSUME NEW N \in Nat, NEW K, NEW f, NEW g, NEW val, NEW v \in Int, NEW w \in Int,
         \A k \in K : /\ f[k] \in Int /\ f[k] >= 0 /\ val[k] \in Int /\ g[k] = val[k] * f[k]
                      /\ v <= val[k] /\ val[k] <= w
  PROVE  v * Sum(N, K, f) <= Sum(N, K, g) /\ Sum(N, K, g) <= w * Sum(N, K, f)
<1>1. \A k \in K : /\ g[k] \in Int /\ v * f[k] \in Int /\ w * f[k] \in Int
                   /\ v * f[k] <= g[k] /\ g[k] <= w * f[k]
  <2> TAKE k \in K
  <2>1. f[k] \in Int /\ 0 <= f[k] /\ val[k] \in Int /\ g[k] = val[k] * f[k]
        /\ v <= val[k] /\ val[k] <= w
    OBVIOUS
  <2>2. v * f[k] <= val[k] * f[k] /\ val[k] * f[k] <= w * f[k]
    BY <2>1, ProductOrder
  <2> QED  BY <2>1, <2>2
<1>2. PICK s : SumsBy(s, N, K, f) /\ Sum(N, K, f) = s[N]
  BY SumSteps
<1>3. PICK t : SumsBy(t, N, K, g) /\ Sum(N, K, g) = t[N]
  BY <1>1, SumSteps
<1> DEFINE G == {n \in Nat : n <= N => v * s[n] <= t[n] /\ t[n] <= w * s[n]}
<1>4. 0 \in G
  <2>1. s[0] = 0 /\ t[0] = 0
    BY <1>2, <1>3 DEF SumsBy
  <2> QED  BY <2>1
<1>5. \A n \in Nat : n \in G => n + 1 \in G
  <2> SUFFICES ASSUME NEW n \in Nat, n \in G, n + 1 <= N
               PROVE  v * s[n + 1] <= t[n + 1] /\ t[n + 1] <= w * s[n + 1]
    OBVIOUS
  <2>1. n \in 0 .. N - 1 /\ n \in 0 .. N /\ v * s[n] <= t[n] /\ t[n] <= w * s[n]
    OBVIOUS
  <2>2. /\ s[n] \in Int /\ t[n] \in Int
        /\ s[n + 1] = s[n] + (IF n + 1 \in K THEN f[n + 1] ELSE 0)
        /\ t[n + 1] = t[n] + (IF n + 1 \in K THEN g[n + 1] ELSE 0)
    BY <1>2, <1>3, <2>1 DEF SumsBy
  <2>3. CASE n + 1 \notin K
    BY <2>1, <2>2, <2>3
  <2>4. CASE n + 1 \in K
    <3> DEFINE a == s[n]
               b == f[n + 1]
               c == g[n + 1]
               d == t[n]
    <3>1. a \in Int /\ b \in Int /\ c \in Int /\ d \in Int /\ s[n + 1] = a + b /\ t[n + 1] = d + c
      BY <1>1, <2>2, <2>4
    <3>2. v * a <= d /\ d <= w * a /\ v * b <= c /\ c <= w * b
      BY <1>1, <2>1, <2>4
    <3> HIDE DEF a, b, c, d
    <3>3. v * (a + b) = v * a + v * b /\ w * (a + b) = w * a + w * b
      BY <3>1
    <3>4. v * a \in Int /\ v * b \in Int /\ w * a \in Int /\ w * b \in Int
      BY <3>1
    <3>5. v * (a + b) <= d + c /\ d + c <= w * (a + b)
      BY <3>1, <3>2, <3>3, <3>4
    <3> QED  BY <3>1, <3>5
  <2> QED  BY <2>3, <2>4
<1> HIDE DEF G
<1>6. N \in G
  BY <1>4, <1>5, NaturalInduction
<1> QED
  BY <1>2, <1>3, <1>6 DEF G

\* Of the values of some of the first rows one is the greatest.
LEMMA GreatestValue ==
  ASSUME NEW N \in Nat, NEW K, K \subseteq 1 .. N, K # {}, NEW val, \A k \in K : val[k] \in Nat
  PROVE  \E m \in K : \A k \in K : val[k] <= val[m]
<1> DEFINE Low(n) == {k \in K : k <= n}
           Greatest(S) == \E m \in S : \A k \in S : val[k] <= val[m]
           G == {n \in Nat : Low(n) # {} => Greatest(Low(n))}
<1>0. \A k \in K : k \in Nat /\ k >= 1 /\ k <= N
  OBVIOUS
<1>1. 0 \in G
  <2>1. \A k \in K : ~(k <= 0)
    BY <1>0
  <2>2. Low(0) = {}
    BY <2>1
  <2> QED  BY <2>2
<1>2. \A n \in Nat : n \in G => n + 1 \in G
  <2> SUFFICES ASSUME NEW n \in Nat, n \in G, Low(n + 1) # {}
               PROVE  Greatest(Low(n + 1))
    <3> HIDE DEF Low, Greatest
    <3> QED  OBVIOUS
  <2>0. Low(n) # {} => Greatest(Low(n))
    OBVIOUS
  <2>1. CASE n + 1 \notin K
    <3>1. \A k \in K : k <= n + 1 <=> k <= n
      BY <1>0, <2>1
    <3>2. Low(n + 1) = Low(n)
      BY <3>1
    <3> HIDE DEF Low, Greatest
    <3> QED  BY <2>0, <3>2
  <2>2. CASE n + 1 \in K
    <3>0. \A k \in K : k <= n + 1 <=> (k <= n \/ k = n + 1)
      BY <1>0
    <3>1. Low(n + 1) = Low(n) \cup {n + 1}
      BY <2>2, <3>0
    <3>2. CASE Low(n) = {}
      BY <2>2, <3>1, <3>2
    <3>3. CASE Low(n) # {}
      <4>1. PICK m \in Low(n) : \A k \in Low(n) : val[k] <= val[m]
        BY <2>0, <3>3
      <4>2. m \in K /\ val[m] \in Nat /\ val[n + 1] \in Nat /\ \A k \in Low(n) : val[k] \in Nat
        BY <2>2, <4>1
      <4> HIDE DEF Low
      <4>3. CASE val[n + 1] <= val[m]
        BY <3>1, <4>1, <4>3
      <4>4. CASE val[m] <= val[n + 1]
        <5>1. \A k \in Low(n) \cup {n + 1} : val[k] <= val[n + 1]
          BY <4>1, <4>2, <4>4
        <5> QED  BY <3>1, <5>1
      <4> QED  BY <4>2, <4>3, <4>4
    <3> QED  BY <3>2, <3>3
  <2> QED  BY <2>1, <2>2
<1>3. Low(N) = K
  BY <1>0
<1> HIDE DEF G, Low
<1>4. N \in G
  BY <1>1, <1>2, NaturalInduction
<1> QED
  BY <1>3, <1>4 DEF G

\* The part of FairCharge about one row.
Fair(g) ==
  LET seen == {stored[k].value : k \in Counted(g.of, g.type, g.period)}
  IN  /\ g.hours \in 1 .. Hours
      /\ Before(g.of, g.type, g.period) # {} => g.hours = Hours
      /\ \E v, w \in seen : v * g.hours <= g.total /\ g.total <= w * g.hours

LEMMA LatestExists ==
  ASSUME NEW N \in Nat, NEW K, K \subseteq 1 .. N, K # {}
  PROVE  Latest(K) # {}
<1> DEFINE val == [k \in K |-> k]
<1>1. \A k \in K : val[k] \in Nat /\ val[k] = k
  OBVIOUS
<1> HIDE DEF val
<1>2. \E m \in K : \A k \in K : val[k] <= val[m]
  BY <1>1, GreatestValue
<1> QED
  BY <1>1, <1>2 DEF Latest

\* A consume as it is computed is fair, where its rows are in the order of their dates.
LEMMA ConsumeFair ==
  ASSUME MeterTypes, NEW c \in Containers, NEW type \in Names, NEW p \in 0 .. Days,
         Within(c, type, p) # {}, InDateOrder(Counted(c, type, p))
  PROVE  Fair(Consume(c, type, p))
<1> DEFINE K == Counted(c, type, p)
           lasts == [k \in K |-> Lasts(k, K, p)]
           val == [k \in K |-> stored[k].value]
           worth == [k \in K |-> stored[k].value * lasts[k]]
           N == Len(stored)
           hours == Sum(N, K, lasts)
           total == Sum(N, K, worth)
           g == Consume(c, type, p)
<1>0. p \in Nat /\ N \in Nat /\ p * Hours \in Nat /\ Hours \in Nat \ {0}
      /\ DOMAIN stored = 1 .. N
  BY RowParts, PeriodHours
<1>1. /\ \A k \in K : lasts[k] \in Int /\ worth[k] \in Int
      /\ g = [of |-> c, type |-> type, period |-> p, hours |-> hours, total |-> total]
      /\ hours \in Int /\ total \in Int
  BY <1>0, ConsumeSums
<1>2. /\ \A k \in K : lasts[k] >= 0
      /\ \A k \in K : p * Hours <= Epoch(k, p) /\ Epoch(k, p) < p * Hours + Hours
      /\ \E first \in K :
           /\ \A j \in K : first <= j
           /\ Sum(Len(stored), K, lasts) = (p * Hours + Hours) - Epoch(first, p)
  BY <1>0, HoursAddUp
<1>3. K \subseteq DOMAIN stored /\ K # {} /\ Before(c, type, p) \subseteq DOMAIN stored
      /\ \A k \in DOMAIN stored : Epoch(k, p) \in Nat /\ stored[k].at \in Nat
  BY <1>0, CountedParts, RowParts DEF Counted
<1>4. \A k \in K : val[k] \in Nat /\ val[k] = stored[k].value /\ worth[k] = val[k] * lasts[k]
  BY <1>3, RowParts
<1>5. g.of = c /\ g.type = type /\ g.period = p /\ g.hours = hours /\ g.total = total
  BY <1>1
<1>6. PICK first \in K : /\ \A j \in K : first <= j
                         /\ hours = (p * Hours + Hours) - Epoch(first, p)
  BY <1>2
<1> HIDE DEF g, total, worth, val, lasts, hours
<1>7. hours \in 1 .. Hours
  <2> DEFINE P == p * Hours
             e == Epoch(first, p)
  <2>1. P \in Nat /\ e \in Nat /\ P <= e /\ e < P + Hours /\ hours = (P + Hours) - e
    BY <1>0, <1>2, <1>3, <1>6
  <2> HIDE DEF P, e
  <2> QED  BY <1>0, <2>1
<1>8. Before(c, type, p) # {} => hours = Hours
  <2> SUFFICES ASSUME Before(c, type, p) # {} PROVE hours = Hours
    OBVIOUS
  <2>1. PICK b \in Latest(Before(c, type, p)) : TRUE
    BY <1>0, <1>3, LatestExists
  <2>2. b \in K /\ stored[b].at < p * Hours /\ b \in DOMAIN stored
    BY <1>3, <2>1 DEF Latest, Before, Counted
  <2>3. first \in DOMAIN stored /\ first <= b
    BY <1>3, <1>6, <2>2
  <2>4. first = b \/ first < b
    BY <1>0, <2>2, <2>3
  <2>5. stored[first].at <= stored[b].at
    BY <1>3, <1>6, <2>2, <2>3, <2>4 DEF InDateOrder
  <2>6. stored[first].at < p * Hours
    BY <1>0, <1>3, <2>2, <2>3, <2>5
  <2>7. Epoch(first, p) = p * Hours
    BY <2>6 DEF Epoch
  <2> DEFINE P == p * Hours
  <2>8. hours = (P + Hours) - P /\ P \in Nat
    BY <1>0, <1>6, <2>7
  <2> HIDE DEF P
  <2> QED  BY <1>0, <2>8
<1> DEFINE seen == {stored[k].value : k \in K}
<1>9. PICK v \in seen : \A k \in K : v <= val[k]
  <2>1. seen \subseteq Nat /\ seen # {}
    BY <1>3, <1>4
  <2>2. PICK v \in seen : \A m \in seen : v <= m
    BY <2>1, LeastElement
  <2>3. \A k \in K : val[k] \in seen
    BY <1>4
  <2> HIDE DEF seen
  <2> QED  BY <2>2, <2>3
<1>10. PICK w \in seen : \A k \in K : val[k] <= w
  <2>1. PICK m \in K : \A k \in K : val[k] <= val[m]
    BY <1>0, <1>3, <1>4, GreatestValue
  <2> QED  BY <1>4, <2>1
<1>11. v \in Nat /\ w \in Nat
  BY <1>4
<1>12. v * hours <= total /\ total <= w * hours
  <2>1. \A k \in K : /\ lasts[k] \in Int /\ lasts[k] >= 0 /\ val[k] \in Int
                     /\ worth[k] = val[k] * lasts[k] /\ v <= val[k] /\ val[k] <= w
    BY <1>1, <1>2, <1>4, <1>9, <1>10
  <2>2. v \in Int /\ w \in Int
    BY <1>11
  <2> HIDE DEF K, seen
  <2> QED  BY <1>0, <2>1, <2>2, Weighted DEF hours, total
<1>13. \E x, y \in seen : x * g.hours <= g.total /\ g.total <= y * g.hours
  BY <1>5, <1>9, <1>10, <1>12
<1>14. seen = {stored[k].value : k \in Counted(g.of, g.type, g.period)}
       /\ Before(g.of, g.type, g.period) = Before(c, type, p)
  BY <1>5
<1> HIDE DEF seen
<1>15. Fair(g)
  BY <1>5, <1>7, <1>8, <1>13, <1>14 DEF Fair
<1> QED
  BY <1>15 DEF g

\* What a step does to the rows: some are added at the end.
Grows ==
  /\ Len(stored) \in Nat /\ Len(stored') \in Nat /\ Len(stored) <= Len(stored')
  /\ DOMAIN stored = 1 .. Len(stored) /\ DOMAIN stored' = 1 .. Len(stored')
  /\ \A k \in DOMAIN stored : stored'[k] = stored[k]

LEMMA SameRows ==
  ASSUME MeterTypes, UNCHANGED stored
  PROVE  Grows
BY RowParts DEF Grows

LEMMA NewRows ==
  ASSUME MeterTypes, NEW new \in Seq(Metrics), stored' = stored \o new
  PROVE  Grows
<1>1. /\ Len(stored) \in Nat /\ DOMAIN stored = 1 .. Len(stored)
      /\ stored \in Seq(Metrics)
  BY RowParts DEF MeterTypes
<1>2. /\ Len(new) \in Nat
      /\ stored' \in Seq(Metrics) /\ Len(stored') = Len(stored) + Len(new)
      /\ \A k \in 1 .. Len(stored) + Len(new) :
           stored'[k] = IF k <= Len(stored) THEN stored[k] ELSE new[k - Len(stored)]
  BY <1>1, ConcatProperties, LenProperties
<1>3. DOMAIN stored' = 1 .. Len(stored')
  BY <1>2, LenProperties
<1> QED
  BY <1>1, <1>2, <1>3 DEF Grows

LEMMA RowsGrow ==
  ASSUME MeterTypes, [Next]_vars
  PROVE  Grows
<1>1. ASSUME NEW s \in Surveys, SaveMetrics(s)
      PROVE  Grows
  <2> DEFINE got == survey[s].got
  <2>1. CASE UNCHANGED stored
    BY <2>1, SameRows
  <2>2. ASSUME NEW v \in [DOMAIN got -> Values],
               stored' = stored \o [k \in DOMAIN got |->
                 LET m == got[k] IN Metric(m.of, m.name, m.type, v[k], survey[s].at, s)]
        PROVE  Grows
    <3> DEFINE new == [k \in DOMAIN got |->
                         LET m == got[k] IN Metric(m.of, m.name, m.type, v[k], survey[s].at, s)]
    <3>1. got \in Seq(Readings) /\ DOMAIN got = 1 .. Len(got) /\ Len(got) \in Nat
      BY SurveyParts, LenProperties
    <3>2. \A k \in DOMAIN got : new[k] \in Metrics
      <4> TAKE k \in DOMAIN got
      <4>1. new[k] = [of |-> got[k].of, name |-> got[k].name, type |-> got[k].type,
                      value |-> v[k], at |-> survey[s].at, by |-> s]
        BY DEF Metric
      <4>2. got[k] \in Readings /\ v[k] \in Values
        BY <2>2, <3>1, ElementOfSeq
      <4>3. survey[s].at \in 0 .. LastHour
        BY SurveyParts
      <4> HIDE DEF new
      <4> QED  BY <4>1, <4>2, <4>3 DEF Metrics, Readings
    <3>3. new \in Seq(Metrics)
      <4>1. new \in [1 .. Len(got) -> Metrics]
        BY <3>1, <3>2
      <4> HIDE DEF new
      <4> QED  BY <3>1, <4>1
    <3>4. stored' = stored \o new
      BY <2>2
    <3> HIDE DEF new
    <3> QED  BY <3>3, <3>4, NewRows
  <2> QED  BY <1>1, <2>1, <2>2 DEF SaveMetrics
<1>2. ASSUME NEW r \in Clients, ClientAdds(r)
      PROVE  Grows
  <2>1. PICK m \in Metrics : stored' = Append(stored, m)
    BY <1>2, ClientMetric
  <2> DEFINE new == <<m>>
  <2>2. new \in Seq(Metrics)
    OBVIOUS
  <2>3. stored' = stored \o new
    BY <2>1, AppendIsConcat DEF MeterTypes
  <2> HIDE DEF new
  <2> QED  BY <2>2, <2>3, NewRows
<1>3. \/ UNCHANGED stored
      \/ \E s \in Surveys : SaveMetrics(s)
      \/ \E r \in Clients : ClientAdds(r)
  BY DEF Next, vars, Tick, Surveying, SurveyStarts, NextAccount, AccountFails, NextContainer,
         TakeKnown, TakeNew, ContainerEnds, DateMetrics, Finalize, SurveyFails, ClientAsks,
         ClientTypes, Billing, DailyStarts, CountRows, DeleteRows, InsertRows, Unexpose, Expose, Crash
<1> QED
  BY <1>1, <1>2, <1>3, SameRows

\* Where every new row of a service is dated after a day, the rows that count for
\* the day stay the same.
LEMMA DayStays ==
  ASSUME MeterTypes, MeterTypes', Grows, NEW c, NEW type, NEW p \in Nat,
         \A k \in DOMAIN stored' \ DOMAIN stored : stored'[k].of = c => Day(stored'[k].at) > p
  PROVE  /\ Before(c, type, p)' = Before(c, type, p)
         /\ Within(c, type, p)' = Within(c, type, p)
         /\ Counted(c, type, p)' = Counted(c, type, p)
<1>1. /\ DOMAIN stored \subseteq DOMAIN stored'
      /\ \A k \in DOMAIN stored : stored'[k] = stored[k]
      /\ \A k \in DOMAIN stored' : stored'[k].at \in Nat
  <2>1. (\A i \in DOMAIN stored : stored[i].at \in Nat)'
    BY RowDates, PTL
  <2> QED  BY <2>1 DEF Grows
<1>2. \A k \in DOMAIN stored' \ DOMAIN stored :
        stored'[k].of = c => ~(stored'[k].at < p * Hours) /\ Day(stored'[k].at) # p
  <2> SUFFICES ASSUME NEW k \in DOMAIN stored' \ DOMAIN stored, stored'[k].of = c
               PROVE  ~(stored'[k].at < p * Hours) /\ Day(stored'[k].at) # p
    OBVIOUS
  <2> DEFINE t == stored'[k].at
  <2>1. t \in Nat /\ Day(t) > p
    BY <1>1
  <2> HIDE DEF t
  <2>2. Day(t) \in Nat /\ (t < p * Hours <=> Day(t) < p)
    BY <2>1, DayBounds, DayOrder
  <2>3. ~(t < p * Hours) /\ Day(t) # p
    BY <2>1, <2>2
  <2> QED  BY <2>3 DEF t
<1>3. Before(c, type, p)' = Before(c, type, p)
  <2>1. ASSUME NEW k PROVE k \in Before(c, type, p)' <=> k \in Before(c, type, p)
    BY <1>1, <1>2 DEF Before
  <2> QED  BY <2>1 DEF Before
<1>4. Within(c, type, p)' = Within(c, type, p)
  <2>1. Within(c, type, p)' = {k \in DOMAIN stored' :
                                 stored'[k].of = c /\ stored'[k].type = type /\ Day(stored'[k].at) = p}
    BY DEF Within, Day
  <2> QED  BY <1>1, <1>2, <2>1 DEF Within
<1> QED
  BY <1>3, <1>4 DEF Counted, Latest

\* So do its consumes.
LEMMA ConsumeStays ==
  ASSUME MeterTypes, Grows, NEW c, NEW type, NEW p \in Nat,
         Counted(c, type, p)' = Counted(c, type, p)
  PROVE  Consume(c, type, p)' = Consume(c, type, p)
<1> DEFINE K == Counted(c, type, p)
           lasts == [k \in K |-> Lasts(k, K, p)]
           worth == [k \in K |-> stored[k].value * lasts[k]]
           N == Len(stored)
           M == Len(stored')
<1>1. p \in Nat /\ K' = K /\ K \subseteq DOMAIN stored /\ DOMAIN stored = 1 .. N
      /\ N \in Nat /\ M \in Nat /\ N <= M
      /\ \A k \in DOMAIN stored : stored'[k] = stored[k]
  BY CountedParts DEF Grows
<1>2. \A k \in K : lasts[k] \in Int /\ worth[k] \in Int
  BY ConsumeSums
<1>3. ASSUME NEW k \in K
      PROVE  Lasts(k, K, p)' = Lasts(k, K, p)
  <2> DEFINE next == {j \in K : j > k}
             l == CHOOSE j \in next : \A i \in next : j <= i
  <2>1. next' = next
    BY <1>1
  <2>2. l' = l
    BY <2>1
  <2>3. next # {} => l \in K
    <3>1. next \subseteq Nat /\ next \subseteq K
      BY <1>1
    <3> HIDE DEF next
    <3>2. next # {} => \E j \in next : \A i \in next : j <= i
      BY <3>1, LeastElement
    <3> QED  BY <3>1, <3>2
  <2>4. \A j \in K : Epoch(j, p)' = Epoch(j, p)
    BY <1>1 DEF Epoch
  <2>5. Lasts(k, K, p) = IF next # {} THEN Epoch(l, p) - Epoch(k, p)
                         ELSE IF stored[k].at < p * Hours THEN 0 ELSE (p + 1) * Hours - Epoch(k, p)
    BY DEF Lasts
  <2>6. Lasts(k, K, p)' = IF next' # {} THEN Epoch(l, p)' - Epoch(k, p)'
                          ELSE IF stored'[k].at < p * Hours THEN 0 ELSE (p + 1) * Hours - Epoch(k, p)'
    BY DEF Lasts
  <2>7. Epoch(l, p)' = IF stored'[l'].at < p * Hours THEN p * Hours ELSE stored'[l'].at
    BY DEF Epoch
  <2>8. next # {} => Epoch(l, p)' = Epoch(l, p)
    <3> HIDE DEF next, l, K
    <3> QED  BY <1>1, <2>2, <2>3, <2>7 DEF Epoch
  <2> HIDE DEF next, l
  <2> QED  BY <1>1, <2>1, <2>4, <2>5, <2>6, <2>8
<1>4. lasts' = lasts
  BY <1>1, <1>3
<1>5. worth' = worth
  <2>1. \A k \in K : stored'[k].value * lasts'[k] = stored[k].value * lasts[k]
    BY <1>1, <1>4
  <2>2. worth' = [k \in K' |-> stored'[k].value * lasts'[k]]
    OBVIOUS
  <2> HIDE DEF lasts, K
  <2> QED  BY <1>1, <2>1, <2>2
<1>6. Consume(c, type, p) = [of |-> c, type |-> type, period |-> p,
                             hours |-> Sum(N, K, lasts), total |-> Sum(N, K, worth)]
  BY ConsumeSums
<1>7. Consume(c, type, p)' = [of |-> c, type |-> type, period |-> p,
                              hours |-> SumOver(K, lasts)', total |-> SumOver(K, worth)']
  BY DEF Consume
<1>8. SumOver(K, lasts)' = Sum(M, K', lasts') /\ SumOver(K, worth)' = Sum(M, K', worth')
  <2> HIDE DEF K, lasts, worth
  <2> QED  BY DEF SumOver, Sum, Sums
<1>9. Sum(M, K, lasts) = Sum(N, K, lasts) /\ Sum(M, K, worth) = Sum(N, K, worth)
  <2> HIDE DEF K, lasts, worth, N, M
  <2>1. K \subseteq 1 .. N
    BY <1>1
  <2> QED  BY <1>1, <1>2, <2>1, SumStays
<1> HIDE DEF K, lasts, worth
<1> QED
  BY <1>1, <1>4, <1>5, <1>6, <1>7, <1>8, <1>9

LEMMA ConsumesStay ==
  ASSUME MeterTypes, MeterTypes', Grows, NEW a, NEW p \in Nat,
         \A k \in DOMAIN stored' \ DOMAIN stored :
           Owner[stored'[k].of] = a => Day(stored'[k].at) > p
  PROVE  ConsumesOf(a, p)' = ConsumesOf(a, p)
<1> DEFINE keys == {x \in Containers \X Names : Owner[x[1]] = a /\ Within(x[1], x[2], p) # {}}
<1>1. \A c, type : Owner[c] = a => Consume(c, type, p)' = Consume(c, type, p)
                                  /\ Within(c, type, p)' = Within(c, type, p)
  <2> SUFFICES ASSUME NEW c, NEW type, Owner[c] = a
               PROVE  Consume(c, type, p)' = Consume(c, type, p)
                      /\ Within(c, type, p)' = Within(c, type, p)
    OBVIOUS
  <2>1. \A k \in DOMAIN stored' \ DOMAIN stored : stored'[k].of = c => Day(stored'[k].at) > p
    OBVIOUS
  <2> QED  BY <2>1, DayStays, ConsumeStays
<1>2. keys' = keys
  BY <1>1
<1>3. ConsumesOf(a, p) = {Consume(x[1], x[2], p) : x \in keys}
      /\ ConsumesOf(a, p)' = {Consume(x[1], x[2], p)' : x \in keys'}
  BY DEF ConsumesOf
<1>4. \A x \in keys : Owner[x[1]] = a
  OBVIOUS
<1> HIDE DEF keys
<1> QED
  BY <1>1, <1>2, <1>3, <1>4

\* The part of Crash about a daily job.
JobCrash(d) ==
  /\ Running(d)
  /\ DailyGoes(d, "crashed")
  /\ daily' = [daily EXCEPT ![d].todo = {}, ![d].account = Unbound]
  /\ UNCHANGED <<now, stored, consumes, exposed>>
JobStep(d) == Billing(d) \/ JobCrash(d)

LEMMA StepCases ==
  ASSUME [Next]_vars
  PROVE  UNCHANGED billing \/ \E d \in Dailies : JobStep(d)
BY DEF Next, vars, billing, Tick, Surveying, SurveyStarts, NextAccount, AccountFails, NextContainer,
       TakeKnown, TakeNew, ContainerEnds, DateMetrics, SaveMetrics, Finalize, SurveyFails,
         ClientAsks, ClientTypes, ClientAdds,
       Crash, JobStep, JobCrash

\* What the step of a job does to the jobs and to the consumes.
LEMMA JobSteps ==
  ASSUME BillTypes, NEW d \in Dailies, JobStep(d)
  PROVE  /\ UNCHANGED <<stored, now>>
         /\ \A e \in Dailies \ {d} : dpc'[e] = dpc[e] /\ daily'[e] = daily[e]
         /\ dpc'[d] \notin {"absent", "idle"}
         /\ Started(d) => /\ Running(d)
                          /\ daily'[d].period = daily[d].period
                          /\ daily'[d].from = daily[d].from
                          /\ daily'[d].after = daily[d].after
                          /\ daily'[d].todo \subseteq daily[d].todo
         /\ ~Started(d) => /\ dpc'[d] = "accounts"
                           /\ daily'[d].todo = Billed(daily'[d].period)
                           /\ daily'[d].from = Len(stored)
                           /\ daily'[d].after = {e \in Dailies : Started(e)}
                           /\ Alone => \A e \in Dailies : ~Running(e)
                           /\ UNCHANGED <<consumes, exposed>>
         /\ consumes' \subseteq consumes \cup ConsumesOf(daily[d].account, daily[d].period)
         /\ consumes' = consumes \/ dpc[d] \in {"delete", "insert"}
<1>0. dpc \in [Dailies -> DailyStages] /\ daily \in [Dailies -> DailyStates] /\ daily[d] \in DailyStates
  BY DEF BillTypes
<1>1. CASE DailyStarts(d)
  <2>1. PICK p \in 0 .. Day(now) :
          daily' = [daily EXCEPT ![d] = [period |-> p, from |-> Len(stored),
                                         after |-> {e \in Dailies : Started(e)},
                                         todo |-> Billed(p), account |-> Unbound]]
    BY <1>1 DEF DailyStarts
  <2> DEFINE j == [period |-> p, from |-> Len(stored), after |-> {e \in Dailies : Started(e)},
                   todo |-> Billed(p), account |-> Unbound]
  <2>2. /\ daily'[d] = j /\ \A e \in Dailies \ {d} : daily'[e] = daily[e]
        /\ j.period = p /\ j.todo = Billed(p) /\ j.from = Len(stored)
        /\ j.after = {e \in Dailies : Started(e)}
    BY <1>0, <2>1
  <2> HIDE DEF j
  <2>3. /\ dpc[d] = "idle" /\ dpc'[d] = "accounts" /\ \A e \in Dailies \ {d} : dpc'[e] = dpc[e]
        /\ UNCHANGED <<stored, now, consumes, exposed>> /\ (Alone => \A e \in Dailies : ~Running(e))
    BY <1>0, <1>1 DEF DailyStarts, DailyGoes
  <2>4. daily'[d].todo = Billed(daily'[d].period)
    BY <2>2
  <2>5. ~Started(d)
    BY <2>3 DEF Started
  <2> QED
    BY <2>2, <2>3, <2>4, <2>5
<1>2. CASE CountRows(d)
  <2>1. PICK a \in daily[d].todo : daily' = [daily EXCEPT ![d].todo = @ \ {a}, ![d].account = a]
    BY <1>2 DEF CountRows
  <2> DEFINE j == [daily[d] EXCEPT !.todo = @ \ {a}, !.account = a]
  <2>2. daily' = [daily EXCEPT ![d] = j] /\ j.period = daily[d].period /\ j.from = daily[d].from
        /\ j.after = daily[d].after /\ j.todo \subseteq daily[d].todo
    BY <1>0, <2>1 DEF DailyStates
  <2> HIDE DEF j
  <2> QED
    BY <1>0, <1>2, <2>2 DEF CountRows, DailyGoes, Started, Running
<1>3. CASE JobCrash(d)
  <2> DEFINE j == [daily[d] EXCEPT !.todo = {}, !.account = Unbound]
  <2>2. daily' = [daily EXCEPT ![d] = j] /\ j.period = daily[d].period /\ j.from = daily[d].from
        /\ j.after = daily[d].after /\ j.todo = {}
    BY <1>0, <1>3 DEF DailyStates, JobCrash
  <2> HIDE DEF j
  <2> QED
    BY <1>0, <1>3, <2>2 DEF JobCrash, DailyGoes, Started, Running
<1>4. CASE DeleteRows(d) \/ InsertRows(d) \/ Unexpose(d) \/ Expose(d)
  BY <1>0, <1>4 DEF DeleteRows, InsertRows, Unexpose, Expose, DailyGoes, Started, Running
<1> QED
  BY <1>1, <1>2, <1>3, <1>4 DEF JobStep, Billing

\* A consume has rows of its day, and is fair where they are in order.
FairIfOrdered(g) ==
  /\ Within(g.of, g.type, g.period) # {}
  /\ InDateOrder(Counted(g.of, g.type, g.period)) => Fair(g)

\* It stays so: a new row from before the day comes after the rows of the day, so
\* that the rows are out of order; a new row of the day only adds a value.
LEMMA FairStays ==
  ASSUME MeterTypes, MeterTypes', Grows, NEW g, g.period \in Nat, FairIfOrdered(g)
  PROVE  FairIfOrdered(g)'
<1> DEFINE B == Before(g.of, g.type, g.period)
           W == Within(g.of, g.type, g.period)
           K == Counted(g.of, g.type, g.period)
           seen == {stored[k].value : k \in K}
           P == g.period * Hours
<1>1. /\ Len(stored) \in Nat /\ Len(stored') \in Nat /\ P \in Nat
      /\ DOMAIN stored = 1 .. Len(stored) /\ DOMAIN stored' = 1 .. Len(stored')
      /\ Len(stored) <= Len(stored') /\ \A k \in DOMAIN stored : stored'[k] = stored[k]
  BY PeriodHours DEF Grows
<1>2. /\ B = {k \in DOMAIN stored : stored[k].of = g.of /\ stored[k].type = g.type /\ stored[k].at < P}
      /\ B' = {k \in DOMAIN stored' : stored'[k].of = g.of /\ stored'[k].type = g.type /\ stored'[k].at < P}
  BY DEF Before
<1>3. W \subseteq W' /\ W \subseteq DOMAIN stored
  BY <1>1 DEF Within, Day
<1>4. PICK w \in W : TRUE
  BY DEF FairIfOrdered
<1>5. /\ w \in DOMAIN stored /\ w \in W'
      /\ stored[w].at \in Nat /\ ~(stored[w].at < P)
  <2>1. w \in DOMAIN stored /\ stored[w].at \in Nat /\ Day(stored[w].at) = g.period
    BY <1>3, <1>4, RowParts DEF Within
  <2> QED  BY <1>3, <1>4, <2>1, DayOrder
<1>6. K = Latest(B) \cup W /\ K' = Latest(B)' \cup W' /\ Latest(B)' = {k \in B' : \A j \in B' : j <= k}
  BY DEF Counted, Latest
<1>7. ASSUME InDateOrder(K)'
      PROVE  B' = B
  <2>1. B \subseteq B'
    BY <1>1, <1>2
  <2> SUFFICES ASSUME NEW k \in B', k \notin B PROVE FALSE
    BY <2>1
  <2>2. k \in Nat /\ w \in Nat /\ w < k
    BY <1>1, <1>2, <1>5
  <2>3. PICK m \in Latest(B)' : TRUE
    <3>1. B' \subseteq 1 .. Len(stored') /\ B' # {}
      BY <1>1, <1>2
    <3> DEFINE b == B'
    <3>2. b \subseteq 1 .. Len(stored') /\ b # {}
      BY <3>1
    <3> HIDE DEF b
    <3>3. Latest(b) # {}
      BY <1>1, <3>2, LatestExists
    <3>4. Latest(b) = {i \in b : \A j \in b : j <= i}
      BY DEF Latest
    <3> QED  BY <1>6, <3>3, <3>4 DEF b
  <2>4. m \in B' /\ k <= m /\ m \in Nat /\ m \in DOMAIN stored' /\ stored'[m].at < P
    BY <1>1, <1>2, <1>6, <2>3
  <2>5. w \in K' /\ m \in K' /\ w < m
    BY <1>5, <1>6, <2>2, <2>3, <2>4
  <2>6. stored'[w].at <= stored'[m].at
    BY <1>7, <2>5 DEF InDateOrder
  <2>7. (\A i \in DOMAIN stored : stored[i].at \in Nat)'
    BY RowDates, PTL
  <2>8. stored'[w].at = stored[w].at /\ stored'[m].at \in Nat
    BY <1>1, <1>5, <2>4, <2>7
  <2> QED  BY <1>1, <1>5, <2>4, <2>6, <2>8
<1>8. ASSUME InDateOrder(K)'
      PROVE  Fair(g)'
  <2>1. B' = B /\ K \subseteq K' /\ K \subseteq DOMAIN stored
    <3>1. B' = B
      BY <1>7, <1>8
    <3>2. Latest(B)' = Latest(B)
      BY <1>6, <3>1 DEF Latest
    <3> QED  BY <1>2, <1>3, <1>6, <3>1, <3>2 DEF Latest
  <2>2. InDateOrder(K)
    <3>1. \A j, k \in K' : j < k => stored'[j].at <= stored'[k].at
      BY <1>8 DEF InDateOrder
    <3> QED  BY <1>1, <2>1, <3>1 DEF InDateOrder
  <2>3. Fair(g)
    BY <2>2 DEF FairIfOrdered
  <2>4. seen \subseteq seen'
    BY <1>1, <2>1
  <2>5. seen' = {stored'[k].value : k \in Counted(g.of, g.type, g.period)'}
    OBVIOUS
  <2>6. /\ g.hours \in 1 .. Hours
        /\ Before(g.of, g.type, g.period)' # {} => g.hours = Hours
        /\ \E x, y \in seen' : x * g.hours <= g.total /\ g.total <= y * g.hours
    <3> HIDE DEF K
    <3>1. \E x, y \in seen : x * g.hours <= g.total /\ g.total <= y * g.hours
      BY <2>3 DEF Fair, K
    <3> QED  BY <2>1, <2>3, <2>4, <3>1 DEF Fair
  <2> HIDE DEF K, seen
  <2> QED  BY <2>5, <2>6 DEF Fair
<1>9. W' # {}
  BY <1>5
<1> QED
  BY <1>8, <1>9 DEF FairIfOrdered

\* The inductive invariant: what is charged is fair when it is computed, if its
\* rows are in order, and stays so as long as they are.
FairInv == TInv /\ \A g \in consumes : FairIfOrdered(g)

LEMMA FairKept ==
  ASSUME FairInv, [Next]_vars
  PROVE  FairInv'
<1>1. TInv /\ TInv' /\ MeterTypes /\ MeterTypes' /\ BillTypes
  BY TypesKept DEF FairInv, TInv, IInv
<1>2. Grows
  BY <1>1, RowsGrow
<1>3. \A g \in consumes : FairIfOrdered(g)'
  <2> TAKE g \in consumes
  <2>1. FairIfOrdered(g) /\ g.period \in Nat
    BY <1>1 DEF FairInv, BillTypes, ConsumeRows
  <2> QED  BY <1>1, <1>2, <2>1, FairStays
<1>4. \A g \in consumes' : FairIfOrdered(g)'
  <2>1. CASE UNCHANGED billing
    BY <1>3, <2>1 DEF billing
  <2>2. ASSUME NEW d \in Dailies, JobStep(d), NEW g \in consumes', g \notin consumes
        PROVE  FairIfOrdered(g)'
    <3>1. g \in ConsumesOf(daily[d].account, daily[d].period) /\ UNCHANGED stored
          /\ daily[d].period \in 0 .. Days
      BY <1>1, <2>2, JobSteps, DailyParts
    <3>2. PICK x \in Containers \X Names :
            g = Consume(x[1], x[2], daily[d].period) /\ Within(x[1], x[2], daily[d].period) # {}
      BY <3>1 DEF ConsumesOf
    <3>3. g.of = x[1] /\ g.type = x[2] /\ g.period = daily[d].period
      BY <1>1, <3>1, <3>2, ConsumeType
    <3>4. FairIfOrdered(g)
      BY <1>1, <3>1, <3>2, <3>3, ConsumeFair DEF FairIfOrdered
    <3> QED
      BY <3>1, <3>4 DEF FairIfOrdered, Fair, InDateOrder, Counted, Before, Within, Latest
  <2> QED  BY <1>3, <2>1, <2>2, StepCases
<1> QED
  BY <1>1, <1>4 DEF FairInv

\* Whatever dates clients give, however late rows are stored, whatever fails and
\* however jobs overlap: where the rows that count were stored in the order of
\* their dates, a consume is an average of their values, over the part of the day
\* since the first of them.
THEOREM ChargesAreFair == Spec => []FairCharge
<1>1. Init => FairInv
  BY InitHolds, BillInit DEF Init, FairInv, TInv
<1>2. FairInv /\ [Next]_vars => FairInv'
  BY FairKept
<1>3. FairInv => FairCharge
  BY DEF FairInv, FairCharge, FairIfOrdered, Fair
<1> QED
  BY <1>1, <1>2, <1>3, PTL DEF Spec

----------------------------------------------------------------------------
(* One daily job at a time.                                                *)

OneRuns == \A d, e \in Dailies : Running(d) /\ Running(e) => d = e

\* The job that takes a step is the only one that runs, before and after.
LEMMA RunsAlone ==
  ASSUME Alone, BillTypes, OneRuns, NEW d \in Dailies, JobStep(d)
  PROVE  \A e \in Dailies \ {d} : ~Running(e) /\ ~Running(e)'
<1>1. \A e \in Dailies \ {d} : dpc'[e] = dpc[e]
  BY JobSteps
<1>2. CASE Started(d)
  <2>1. Running(d)
    BY <1>2, JobSteps
  <2> QED  BY <1>1, <2>1 DEF OneRuns, Running
<1>3. CASE ~Started(d)
  <2>1. \A e \in Dailies : ~Running(e)
    BY <1>3, JobSteps
  <2> QED  BY <1>1, <2>1 DEF Running
<1> QED
  BY <1>2, <1>3

LEMMA OneRunsKept ==
  ASSUME Alone, BillTypes, OneRuns, [Next]_vars
  PROVE  OneRuns'
<1>1. CASE UNCHANGED billing
  BY <1>1 DEF billing, OneRuns, Running
<1>2. ASSUME NEW d \in Dailies, JobStep(d)
      PROVE  OneRuns'
  BY <1>2, RunsAlone DEF OneRuns
<1> QED
  BY <1>1, <1>2, StepCases

----------------------------------------------------------------------------
(* Days that are complete.                                                 *)

\* A started job holds only what was there when it started, and bills only accounts
\* that are billed.
JobsRight ==
  \A d \in Dailies : Started(d) =>
    daily[d].from <= Len(stored) /\ daily[d].todo \subseteq Billed(daily[d].period)

\* Consumes are of billed accounts, and of periods that a job has started.
ConsumesBilled ==
  \A g \in consumes : Owner[g.of] \in Billed(g.period) /\ JobsOf(g.period) # {}

\* What an account has of a day is all there is, unless a row was late.
RowsRight ==
  \A a \in Accounts, p \in 0 .. Days :
    StoredLate(a, p) \/ RowsOf(a, p) = {} \/ RowsOf(a, p) = ConsumesOf(a, p)

\* Where a job deletes and inserts, there is nothing to delete.
NoRowsYet ==
  \A d \in Dailies : dpc[d] \in {"delete", "insert"} =>
    /\ daily[d].account \in Billed(daily[d].period)
    /\ RowsOf(daily[d].account, daily[d].period) = {}

\* A job has done the accounts that it does not have to do any more, but for the
\* one it is at.
AccountsDone ==
  \A d \in Dailies :
    /\ dpc[d] \in {"expose", "ended"} => daily[d].todo = {}
    /\ dpc[d] \in {"accounts", "delete", "insert", "expose", "ended"} =>
         \A a \in Billed(daily[d].period) \ daily[d].todo :
           \/ dpc[d] \in {"delete", "insert"} /\ a = daily[d].account
           \/ StoredLate(a, daily[d].period)
           \/ RowsOf(a, daily[d].period) = ConsumesOf(a, daily[d].period)

DayInv == TInv /\ OneRuns /\ JobsRight /\ ConsumesBilled /\ RowsRight /\ NoRowsYet /\ AccountsDone

LEMMA DayInit == Init => DayInv
<1> SUFFICES ASSUME Init PROVE DayInv
  OBVIOUS
<1>1. TInv
  BY InitHolds, BillInit DEF TInv
<1>2. OneRuns /\ NoRowsYet /\ AccountsDone /\ JobsRight /\ ConsumesBilled
  BY DEF Init, OneRuns, Running, NoRowsYet, AccountsDone, JobsRight, Started, ConsumesBilled
<1>3. RowsRight
  BY DEF Init, RowsRight, RowsOf
<1> QED
  BY <1>1, <1>2, <1>3 DEF DayInv

\* What was late stays late.
LEMMA LateStays ==
  ASSUME MeterTypes, BillTypes, [Next]_vars, NEW a, NEW p, StoredLate(a, p)
  PROVE  StoredLate(a, p)'
<1>1. PICK e \in Dailies, k \in DOMAIN stored :
        /\ Started(e) /\ daily[e].period = p
        /\ k > daily[e].from /\ Owner[stored[k].of] = a /\ Day(stored[k].at) <= p
  BY DEF StoredLate, JobsOf
<1>2. Started(e)' /\ daily'[e].period = daily[e].period /\ daily'[e].from = daily[e].from
  <2>1. CASE UNCHANGED billing
    BY <1>1, <2>1 DEF billing, Started
  <2>2. ASSUME NEW d \in Dailies, JobStep(d)
        PROVE  Started(e)' /\ daily'[e].period = daily[e].period /\ daily'[e].from = daily[e].from
    BY <1>1, <2>2, JobSteps DEF Started
  <2> QED  BY <2>1, <2>2, StepCases
<1>3. k \in DOMAIN stored' /\ stored'[k] = stored[k]
  BY RowsGrow DEF Grows
<1>4. Day(stored'[k].at) = Day(stored[k].at)
  BY <1>3
<1>5. (Day(stored[k].at))' = Day(stored'[k].at)
  BY DEF Day
<1>6. e \in JobsOf(p)'
  BY <1>1, <1>2 DEF JobsOf
<1> QED
  BY <1>1, <1>2, <1>3, <1>4, <1>5, <1>6 DEF StoredLate

\* A period that a job has started has the same consumes after a step, unless a row
\* came late.
LEMMA LateOrSame ==
  ASSUME MeterTypes, MeterTypes', BillTypes, BillTypes', JobsRight, [Next]_vars,
         UNCHANGED billing, NEW a, NEW p \in 0 .. Days, JobsOf(p) # {}
  PROVE  StoredLate(a, p)' \/ ConsumesOf(a, p)' = ConsumesOf(a, p)
<1> SUFFICES ASSUME ~StoredLate(a, p)' PROVE ConsumesOf(a, p)' = ConsumesOf(a, p)
  OBVIOUS
<1>1. PICK e \in Dailies : Started(e) /\ daily[e].period = p
  BY DEF JobsOf
<1>2. Grows /\ daily[e].from <= Len(stored) /\ daily[e].from \in Nat /\ daily'[e] = daily[e]
  BY <1>1, RowsGrow, DailyParts DEF JobsRight, billing
<1>3. \A k \in DOMAIN stored' \ DOMAIN stored : k \in DOMAIN stored' /\ k > daily'[e].from
  BY <1>2 DEF Grows
<1>4. e \in JobsOf(p)'
  BY <1>1 DEF JobsOf, Started, billing
<1>5. \A k \in DOMAIN stored' \ DOMAIN stored :
        Owner[stored'[k].of] = a => ~(Day(stored'[k].at) <= p)
  BY <1>3, <1>4 DEF StoredLate, Day
<1>6. (\A i \in DOMAIN stored : stored[i].at \in Nat)'
  BY RowDates, PTL
<1>7. \A k \in DOMAIN stored' : Day(stored'[k].at) \in Nat
  BY <1>6, DayBounds
<1>8. \A k \in DOMAIN stored' \ DOMAIN stored :
        Owner[stored'[k].of] = a => Day(stored'[k].at) > p
  BY <1>5, <1>7
<1> QED
  BY <1>2, <1>8, ConsumesStay

\* Where no job takes a step.
LEMMA DayIdle ==
  ASSUME DayInv, MeterTypes, MeterTypes', BillTypes, BillTypes', [Next]_vars, UNCHANGED billing
  PROVE  JobsRight' /\ ConsumesBilled' /\ RowsRight' /\ NoRowsYet' /\ AccountsDone'
<1>1. /\ UNCHANGED <<consumes, dpc, daily>> /\ JobsRight /\ ConsumesBilled
      /\ Grows
  BY RowsGrow DEF billing, DayInv
<1>2. \A d \in Dailies : daily[d].from \in Nat /\ daily[d].period \in 0 .. Days
  BY DailyParts
<1>3. JobsRight'
  BY <1>1, <1>2 DEF JobsRight, Started, Billed, Grows
<1>4. ConsumesBilled'
  BY <1>1 DEF ConsumesBilled, Billed, JobsOf, Started
<1>5. \A a : \A p \in 0 .. Days :
        /\ RowsOf(a, p)' = RowsOf(a, p)
        /\ StoredLate(a, p) => StoredLate(a, p)'
        /\ JobsOf(p) # {} => StoredLate(a, p)' \/ ConsumesOf(a, p)' = ConsumesOf(a, p)
  BY <1>1, LateStays, LateOrSame DEF RowsOf
<1>6. RowsRight'
  <2> SUFFICES ASSUME NEW a \in Accounts, NEW p \in 0 .. Days, ~StoredLate(a, p)', RowsOf(a, p)' # {}
               PROVE  RowsOf(a, p)' = ConsumesOf(a, p)'
    BY DEF RowsRight
  <2>1. RowsOf(a, p) = ConsumesOf(a, p) /\ RowsOf(a, p) # {}
    BY <1>5 DEF DayInv, RowsRight
  <2>2. JobsOf(p) # {}
    BY <1>1, <2>1 DEF ConsumesBilled, RowsOf
  <2> QED  BY <1>5, <2>1, <2>2
<1>7. NoRowsYet'
  BY <1>1 DEF DayInv, NoRowsYet, RowsOf, Billed
<1>8. AccountsDone'
  <2>1. ASSUME NEW d \in Dailies, dpc[d] \in {"accounts", "delete", "insert", "expose", "ended"},
               NEW a \in Billed(daily[d].period) \ daily[d].todo,
               NEW p, p = daily[d].period, ~StoredLate(a, p)',
               ~(dpc[d] \in {"delete", "insert"} /\ a = daily[d].account)
        PROVE  RowsOf(a, p)' = ConsumesOf(a, p)'
    <3>1. p \in 0 .. Days /\ JobsOf(p) # {}
      BY <1>2, <2>1 DEF JobsOf, Started
    <3>2. RowsOf(a, p) = ConsumesOf(a, p)
      BY <1>5, <2>1, <3>1 DEF DayInv, AccountsDone
    <3> QED  BY <1>5, <2>1, <3>1, <3>2
  <2>2. \A d, p : p = daily'[d].period =>
          \A a : /\ RowsOf(a, daily[d].period)' = RowsOf(a, p)'
                 /\ ConsumesOf(a, daily[d].period)' = ConsumesOf(a, p)'
                 /\ StoredLate(a, daily[d].period)' <=> StoredLate(a, p)'
                 /\ a \in Billed(daily[d].period)' <=> a \in Billed(p)
    BY DEF RowsOf, ConsumesOf, StoredLate, Billed
  <2>3. \A d \in Dailies : dpc[d] \in {"expose", "ended"} => daily[d].todo = {}
    BY DEF DayInv, AccountsDone
  <2> QED  BY <1>1, <2>1, <2>2, <2>3 DEF AccountsDone
<1> QED
  BY <1>3, <1>4, <1>6, <1>7, <1>8

\* The rows that the step of a job changes: those of one account and day, where
\* there were none.
LEMMA RowsChange ==
  ASSUME BillTypes, MeterTypes, NoRowsYet, NEW d \in Dailies, JobStep(d), NEW a, NEW p
  PROVE  \/ RowsOf(a, p)' = RowsOf(a, p)
         \/ /\ Started(d) /\ a = daily[d].account /\ p = daily[d].period
            /\ RowsOf(a, p)' = ConsumesOf(a, p)
<1>0. RowsOf(a, p)' = {g \in consumes' : Owner[g.of] = a /\ g.period = p}
  BY DEF RowsOf
<1>1. CASE DeleteRows(d)
  <2>1. consumes' = consumes
    BY <1>1 DEF DeleteRows, NoRowsYet
  <2> QED  BY <1>0, <2>1 DEF RowsOf
<1>2. CASE InsertRows(d) /\ consumes' # consumes
  <2> DEFINE b == daily[d].account
             q == daily[d].period
             new == ConsumesOf(b, q)
  <2>1. consumes' = consumes \cup new /\ dpc[d] = "insert"
    BY <1>2 DEF InsertRows
  <2>2. RowsOf(b, q) = {} /\ Started(d)
    BY <2>1 DEF NoRowsYet, Started
  <2>3. \A g \in new : Owner[g.of] = b /\ g.period = q
    BY DailyParts, ConsumesType
  <2>4. CASE a = b /\ p = q
    <3>1. RowsOf(a, p)' = new
      <4> HIDE DEF b, q, new
      <4> QED  BY <1>0, <2>1, <2>2, <2>3, <2>4 DEF RowsOf
    <3> QED  BY <2>2, <2>4, <3>1
  <2>5. CASE ~(a = b /\ p = q)
    <3> HIDE DEF b, q, new
    <3> QED  BY <1>0, <2>1, <2>3, <2>5 DEF RowsOf
  <2> QED  BY <2>4, <2>5
<1>3. CASE consumes' = consumes
  BY <1>0, <1>3 DEF RowsOf
<1>4. DeleteRows(d) \/ InsertRows(d) \/ consumes' = consumes
  BY DEF JobStep, Billing, JobCrash, DailyStarts, CountRows, Unexpose, Expose
<1> QED
  BY <1>1, <1>2, <1>3, <1>4

LEMMA DayStep ==
  ASSUME Alone, DayInv, MeterTypes, BillTypes, [Next]_vars, NEW d \in Dailies, JobStep(d)
  PROVE  JobsRight' /\ ConsumesBilled' /\ RowsRight' /\ NoRowsYet' /\ AccountsDone'
<1>1. /\ UNCHANGED stored
      /\ \A e \in Dailies \ {d} : dpc'[e] = dpc[e] /\ daily'[e] = daily[e]
                                  /\ ~Running(e) /\ ~Running(e)'
      /\ dpc'[d] \notin {"absent", "idle"}
      /\ Started(d) => /\ daily'[d].period = daily[d].period /\ daily'[d].from = daily[d].from
                       /\ daily'[d].todo \subseteq daily[d].todo
      /\ ~Started(d) => /\ dpc'[d] = "accounts" /\ daily'[d].from = Len(stored)
                        /\ daily'[d].todo = Billed(daily'[d].period)
                        /\ UNCHANGED consumes
      /\ Len(stored) \in Nat
  BY JobSteps, RunsAlone, RowParts DEF DayInv
<1>2. \A a, p : ConsumesOf(a, p)' = ConsumesOf(a, p)
  BY <1>1 DEF ConsumesOf, Consume, Counted, Before, Within, Latest, Lasts, Epoch, SumOver
<1>3. \A a, p : StoredLate(a, p) => StoredLate(a, p)'
  BY LateStays
<1>4. \A a, p : \/ RowsOf(a, p)' = RowsOf(a, p)
                \/ /\ Started(d) /\ a = daily[d].account /\ p = daily[d].period
                   /\ RowsOf(a, p)' = ConsumesOf(a, p)
  BY RowsChange DEF DayInv
<1>5. RowsRight'
  <2> SUFFICES ASSUME NEW a \in Accounts, NEW p \in 0 .. Days, ~StoredLate(a, p)', RowsOf(a, p)' # {}
               PROVE  RowsOf(a, p)' = ConsumesOf(a, p)'
    BY DEF RowsRight
  <2>1. ~StoredLate(a, p)
    BY <1>3
  <2>2. CASE RowsOf(a, p)' = RowsOf(a, p)
    BY <1>2, <2>1, <2>2 DEF DayInv, RowsRight
  <2>3. CASE RowsOf(a, p)' = ConsumesOf(a, p)
    BY <1>2, <2>3
  <2> QED  BY <1>4, <2>2, <2>3
<1>10. JobsRight'
  <2> SUFFICES ASSUME NEW e \in Dailies, Started(e)'
               PROVE  daily'[e].from <= Len(stored') /\ daily'[e].todo \subseteq Billed(daily'[e].period)
    BY DEF JobsRight, Billed
  <2>1. Started(e) => daily[e].from <= Len(stored) /\ daily[e].todo \subseteq Billed(daily[e].period)
    BY DEF DayInv, JobsRight
  <2>2. CASE e # d
    BY <1>1, <2>1, <2>2 DEF Started
  <2>3. CASE e = d /\ Started(d)
    <3>1. Billed(daily'[d].period) = Billed(daily[d].period)
      BY <1>1, <2>3
    <3> QED  BY <1>1, <2>1, <2>3, <3>1
  <2>4. CASE e = d /\ ~Started(d)
    BY <1>1, <2>4
  <2> QED  BY <2>2, <2>3, <2>4
<1>11. ConsumesBilled'
  <2>1. \A p : JobsOf(p) # {} => JobsOf(p)' # {}
    <3> SUFFICES ASSUME NEW p, NEW e \in Dailies, Started(e), daily[e].period = p
                 PROVE  e \in JobsOf(p)'
      BY DEF JobsOf
    <3> QED  BY <1>1 DEF JobsOf, Started
  <2> SUFFICES ASSUME NEW g \in consumes'
               PROVE  Owner[g.of] \in Billed(g.period) /\ JobsOf(g.period)' # {}
    BY DEF ConsumesBilled, Billed
  <2>2. CASE g \in consumes
    BY <2>1, <2>2 DEF DayInv, ConsumesBilled
  <2>3. CASE g \notin consumes
    <3>1. g \in ConsumesOf(daily[d].account, daily[d].period) /\ dpc[d] \in {"delete", "insert"}
      BY <2>3, JobSteps
    <3>2. Owner[g.of] = daily[d].account /\ g.period = daily[d].period
      BY <3>1, DailyParts, ConsumesType
    <3>3. daily[d].account \in Billed(daily[d].period) /\ Started(d)
      BY <3>1 DEF DayInv, NoRowsYet, Started
    <3>4. d \in JobsOf(daily[d].period)
      BY <3>3 DEF JobsOf
    <3>5. JobsOf(daily[d].period) # {} /\ g.period = daily[d].period
      BY <3>2, <3>4
    <3>6. JobsOf(g.period) # {} /\ Owner[g.of] \in Billed(g.period)
      BY <3>2, <3>3, <3>5
    <3> QED  BY <2>1, <3>6
  <2> QED  BY <2>2, <2>3
<1>6. ASSUME NEW e \in Dailies, dpc'[e] \in {"delete", "insert"},
             NEW a, a = daily'[e].account, NEW p, p = daily'[e].period
      PROVE  a \in Billed(p) /\ RowsOf(a, p)' = {}
  <2>0. RowsOf(a, p)' = {g \in consumes' : Owner[g.of] = a /\ g.period = p}
    BY DEF RowsOf
  <2>1. e = d
    BY <1>1, <1>6 DEF Running
  <2>2. CASE CountRows(d)
    <3>1. PICK b \in daily[d].todo :
            /\ daily' = [daily EXCEPT ![d].todo = @ \ {b}, ![d].account = b]
            /\ DailyGoes(d, IF RowsOf(b, daily[d].period) = {} THEN "delete" ELSE "accounts")
            /\ UNCHANGED consumes
      BY <2>2 DEF CountRows
    <3>2. RowsOf(b, daily[d].period) = {}
      BY <1>6, <2>1, <3>1 DEF DailyGoes, BillTypes
    <3>3. daily'[d].account = b /\ daily'[d].period = daily[d].period
      BY <3>1, DailyParts DEF BillTypes, DailyStates
    <3>4. b \in Billed(daily[d].period)
      <4>1. dpc[d] = "accounts"
        BY <2>2 DEF CountRows
      <4> QED  BY <3>1, <4>1 DEF DayInv, JobsRight, Started
    <3> QED  BY <1>6, <2>0, <2>1, <3>1, <3>2, <3>3, <3>4 DEF RowsOf
  <2>3. CASE DeleteRows(d)
    <3>1. daily' = daily /\ consumes' = consumes \ RowsOf(daily[d].account, daily[d].period)
          /\ dpc[d] = "delete"
      BY <2>3 DEF DeleteRows
    <3>2. RowsOf(a, p) = {} /\ a \in Billed(p)
      BY <1>6, <2>1, <3>1 DEF DayInv, NoRowsYet
    <3> QED  BY <2>0, <3>1, <3>2 DEF RowsOf
  <2>4. CASE ~CountRows(d) /\ ~DeleteRows(d)
    BY <1>6, <2>1, <2>4 DEF JobStep, Billing, JobCrash, DailyStarts, InsertRows, Unexpose, Expose,
                            DailyGoes, BillTypes
  <2> QED  BY <2>2, <2>3, <2>4
<1>7. \A e \in Dailies : dpc'[e] \in {"expose", "ended"} => daily'[e].todo = {}
  <2> SUFFICES ASSUME dpc'[d] \in {"expose", "ended"} PROVE daily'[d].todo = {}
    BY <1>1 DEF DayInv, AccountsDone
  <2> QED
    BY DEF JobStep, Billing, JobCrash, DailyStarts, CountRows, DeleteRows, InsertRows, Unexpose, Expose,
           DailyGoes, BillTypes, DayInv, AccountsDone
<1>8. ASSUME NEW e \in Dailies, NEW p, p = daily'[e].period, NEW a \in Billed(p),
             a \notin daily'[e].todo, ~StoredLate(a, p)',
             dpc'[e] \in {"accounts", "delete", "insert", "expose", "ended"},
             ~(dpc'[e] \in {"delete", "insert"} /\ a = daily'[e].account)
      PROVE  RowsOf(a, p)' = ConsumesOf(a, p)'
  <2>1. ~StoredLate(a, p) /\ a \in Accounts
    BY <1>3, <1>8 DEF Billed
  <2>2. RowsOf(a, p) = ConsumesOf(a, p) => RowsOf(a, p)' = ConsumesOf(a, p)'
    BY <1>2, <1>4
  <2>3. CASE e # d
    <3>1. dpc[e] = "ended" /\ p = daily[e].period /\ a \notin daily[e].todo
      BY <1>1, <1>8, <2>3 DEF Running
    <3>2. RowsOf(a, p) = ConsumesOf(a, p)
      BY <2>1, <3>1 DEF DayInv, AccountsDone
    <3> QED  BY <2>2, <3>2
  <2>4. CASE e = d /\ DailyStarts(d)
    BY <1>8, <2>4, JobSteps DEF DailyStarts, Started
  <2>5. CASE e = d /\ CountRows(d)
    <3>1. PICK b \in daily[d].todo :
            /\ daily' = [daily EXCEPT ![d].todo = @ \ {b}, ![d].account = b]
            /\ DailyGoes(d, IF RowsOf(b, daily[d].period) = {} THEN "delete" ELSE "accounts")
            /\ dpc[d] = "accounts"
      BY <2>5 DEF CountRows
    <3>2. daily'[d].period = daily[d].period /\ daily'[d].todo = daily[d].todo \ {b}
          /\ daily'[d].account = b /\ daily[d].period \in 0 .. Days
      BY <3>1, DailyParts DEF BillTypes, DailyStates
    <3>3. CASE a = b
      <4>1. RowsOf(b, p) # {}
        BY <1>8, <2>5, <3>1, <3>2, <3>3 DEF DailyGoes, BillTypes
      <4>2. RowsOf(a, p) = ConsumesOf(a, p)
        BY <1>8, <2>1, <2>5, <3>2, <3>3, <4>1 DEF DayInv, RowsRight
      <4> QED  BY <2>2, <4>2
    <3>4. CASE a # b
      <4>1. a \notin daily[d].todo /\ p = daily[d].period
        BY <1>8, <2>5, <3>2, <3>4
      <4>2. RowsOf(a, p) = ConsumesOf(a, p)
        BY <2>1, <3>1, <4>1 DEF DayInv, AccountsDone
      <4> QED  BY <2>2, <4>2
    <3> QED  BY <3>3, <3>4
  <2>6. CASE e = d /\ (DeleteRows(d) \/ InsertRows(d) \/ Unexpose(d) \/ Expose(d))
    <3>1. /\ daily' = daily /\ dpc[d] \in {"accounts", "delete", "insert", "expose"}
          /\ dpc[d] = "delete" => dpc'[d] = "insert"
          /\ dpc[d] = "insert" => dpc'[d] \in {"failed", "accounts"}
      BY <2>6 DEF DeleteRows, InsertRows, Unexpose, Expose, DailyGoes, BillTypes
    <3>2. p = daily[d].period /\ a \notin daily[d].todo
      BY <1>8, <2>6, <3>1
    <3>3. CASE dpc[d] = "insert" /\ a = daily[d].account
      <4>1. InsertRows(d) /\ dpc'[d] = "accounts"
        BY <1>8, <2>6, <3>1, <3>3 DEF DeleteRows, Unexpose, Expose
      <4>2. consumes' = consumes \cup ConsumesOf(a, p)
        BY <3>2, <3>3, <4>1 DEF InsertRows, DailyGoes, BillTypes
      <4>3. RowsOf(a, p) = {}
        BY <3>2, <3>3 DEF DayInv, NoRowsYet
      <4>4. \A g \in ConsumesOf(a, p) : Owner[g.of] = a /\ g.period = p
        BY <3>2, DailyParts, ConsumesType
      <4>5. RowsOf(a, p)' = {g \in consumes' : Owner[g.of] = a /\ g.period = p}
        BY DEF RowsOf
      <4>6. RowsOf(a, p)' = ConsumesOf(a, p)
        BY <4>2, <4>3, <4>4, <4>5 DEF RowsOf
      <4> QED  BY <1>2, <4>6
    <3>4. CASE ~(dpc[d] = "insert" /\ a = daily[d].account)
      <4>1. ~(dpc[d] \in {"delete", "insert"} /\ a = daily[d].account)
        BY <1>8, <2>6, <3>1, <3>4
      <4>2. RowsOf(a, p) = ConsumesOf(a, p)
        BY <2>1, <3>1, <3>2, <4>1 DEF DayInv, AccountsDone
      <4> QED  BY <2>2, <4>2
    <3> QED  BY <3>3, <3>4
  <2>7. CASE e = d /\ JobCrash(d)
    BY <1>8, <2>7 DEF JobCrash, DailyGoes, BillTypes
  <2> QED
    BY <2>3, <2>4, <2>5, <2>6, <2>7 DEF JobStep, Billing
<1>9. NoRowsYet' /\ AccountsDone'
  <2>1. \A e, a, p : a = daily'[e].account /\ p = daily'[e].period =>
          /\ RowsOf(daily[e].account, daily[e].period)' = RowsOf(a, p)'
          /\ \A b : /\ RowsOf(b, daily[e].period)' = RowsOf(b, p)'
                    /\ ConsumesOf(b, daily[e].period)' = ConsumesOf(b, p)'
                    /\ b \in Billed(daily[e].period)' <=> b \in Billed(p)
                    /\ StoredLate(b, daily[e].period)' <=> StoredLate(b, p)'
    BY DEF RowsOf, ConsumesOf, StoredLate, Billed
  <2>2. NoRowsYet'
    BY <1>6, <2>1 DEF NoRowsYet
  <2>3. AccountsDone'
    BY <1>7, <1>8, <2>1 DEF AccountsDone
  <2> QED  BY <2>2, <2>3
<1> QED
  BY <1>5, <1>9, <1>10, <1>11

LEMMA DayKept ==
  ASSUME Alone, DayInv, [Next]_vars
  PROVE  DayInv'
<1>1. TInv /\ TInv' /\ MeterTypes /\ MeterTypes' /\ BillTypes /\ BillTypes'
  BY TypesKept DEF DayInv, TInv, IInv
<1>2. OneRuns'
  BY <1>1, OneRunsKept DEF DayInv
<1>3. JobsRight' /\ ConsumesBilled' /\ RowsRight' /\ NoRowsYet' /\ AccountsDone'
  BY <1>1, DayIdle, DayStep, StepCases
<1> QED
  BY <1>1, <1>2, <1>3 DEF DayInv

\* Where daily jobs do not overlap, whatever dates clients give and however late
\* rows are inserted: a job that ends leaves every account that is billed the
\* consumes of the whole day and the others none, whatever crashed and was done
\* again before, unless a row that counts for the account was stored after a job
\* of the period had started.
THEOREM DaysAreComplete == Alone => (Spec => []DayIsComplete)
<1> SUFFICES ASSUME Alone PROVE Spec => []DayIsComplete
  OBVIOUS
<1>1. DayInv /\ [Next]_vars => DayInv'
  BY DayKept
<1>2. DayInv => DayIsComplete
  <2> SUFFICES ASSUME DayInv, NEW d \in Dailies, dpc[d] = "ended", NEW a \in Accounts,
                      NEW p, p = daily[d].period, ~StoredLate(a, p)
               PROVE  RowsOf(a, p) = IF a \in Billed(p) THEN ConsumesOf(a, p) ELSE {}
    BY DEF DayIsComplete
  <2>1. CASE a \in Billed(p)
    BY <2>1 DEF DayInv, AccountsDone
  <2>2. CASE a \notin Billed(p)
    BY <2>2 DEF DayInv, ConsumesBilled, RowsOf
  <2> QED  BY <2>1, <2>2
<1> QED
  BY <1>1, <1>2, DayInit, PTL DEF Spec

----------------------------------------------------------------------------
(* What is exposed.                                                        *)

\* A job that runs started after every other one that has.
RunsLast ==
  \A d, e \in Dailies : Running(e) /\ Started(d) /\ d # e => d \in daily[e].after

\* Where a job is to expose its period, nothing of it is exposed.
Cleared ==
  \A d \in Dailies : dpc[d] = "expose" => \A x \in exposed : x[2].period # daily[d].period

\* The last job of its period to start is the one that exposes it.
Last(d) == \A e \in JobsOf(daily[d].period) : d \notin daily[e].after

\* What such a job has exposed stays until another one starts.
OnceExposed ==
  \A d \in Dailies : dpc[d] = "ended" /\ Last(d) =>
    \A g \in consumes : g.period = daily[d].period => {x \in exposed : x[2] = g} = {<<d, g>>}

ExposeInv == TInv /\ OneRuns /\ RunsLast /\ Cleared /\ OnceExposed

\* A job that was the last before a step, and has not been overtaken in it.
LEMMA LastBefore ==
  ASSUME Alone, RunsLast, OneRuns, BillTypes, NEW d \in Dailies, JobStep(d),
         NEW e \in Dailies \ {d}, Started(e), Last(e)'
  PROVE  Last(e) /\ daily'[d].period # daily[e].period
<1>1. /\ \A f \in Dailies \ {d} : dpc'[f] = dpc[f] /\ daily'[f] = daily[f]
      /\ dpc'[d] \notin {"absent", "idle"}
      /\ Started(d) => /\ Running(d) /\ daily'[d].period = daily[d].period
                       /\ daily'[d].after = daily[d].after
      /\ ~Started(d) => daily'[d].after = {f \in Dailies : Started(f)}
  BY JobSteps
<1>2. e \in daily'[d].after
  BY <1>1 DEF RunsLast
<1>3. \A f \in Dailies : Started(f)' /\ daily'[f].period = daily'[e].period => e \notin daily'[f].after
  BY DEF Last, JobsOf
<1>4. daily'[d].period # daily[e].period
  BY <1>1, <1>2, <1>3 DEF Started
<1>5. \A f \in JobsOf(daily[e].period) : f # d
  BY <1>1, <1>4 DEF JobsOf
<1>6. Last(e)
  BY <1>1, <1>3, <1>5 DEF Last, JobsOf, Started
<1> QED
  BY <1>4, <1>6

LEMMA ExposeStep ==
  ASSUME Alone, ExposeInv, MeterTypes, BillTypes, NEW d \in Dailies, JobStep(d)
  PROVE  RunsLast' /\ Cleared' /\ OnceExposed'
<1>1. /\ \A e \in Dailies \ {d} : dpc'[e] = dpc[e] /\ daily'[e] = daily[e]
                                  /\ ~Running(e) /\ ~Running(e)'
      /\ dpc'[d] \notin {"absent", "idle"}
      /\ Started(d) => /\ Running(d) /\ daily'[d].period = daily[d].period
                       /\ daily'[d].after = daily[d].after
      /\ ~Started(d) => /\ dpc'[d] = "accounts" /\ UNCHANGED <<consumes, exposed>>
                        /\ daily'[d].after = {f \in Dailies : Started(f)}
      /\ dpc[d] \in DailyStages
  BY JobSteps, RunsAlone, DailyParts DEF ExposeInv
<1>2. RunsLast'
  BY <1>1 DEF ExposeInv, RunsLast, Running, Started
<1>3. /\ \A x \in exposed \cup exposed' : x[2].period # daily'[d].period => (x \in exposed <=> x \in exposed')
      /\ \A g \in consumes' : g \in consumes \/ g.period = daily'[d].period
      /\ dpc'[d] = "expose" => \A x \in exposed' : x[2].period # daily'[d].period
  <2>1. CASE ~Started(d)
    BY <1>1, <2>1
  <2>2. CASE Started(d)
    <3>1. \A g \in ConsumesOf(daily[d].account, daily[d].period) : g.period = daily[d].period
      BY DailyParts, ConsumesType
    <3>2. \/ UNCHANGED exposed /\ dpc'[d] # "expose"
          \/ exposed' = {x \in exposed : x[2].period # daily[d].period}
          \/ /\ exposed' = exposed \cup ({d} \X {g \in consumes : g.period = daily[d].period})
             /\ dpc'[d] = "ended"
      BY <1>1, <2>2 DEF JobStep, Billing, JobCrash, DailyStarts, CountRows, DeleteRows, InsertRows,
                        Unexpose, Expose, DailyGoes, BillTypes, Started, Running
    <3> QED  BY <1>1, <2>2, <3>1, <3>2, JobSteps
  <2> QED  BY <2>1, <2>2
<1>4. Cleared'
  BY <1>1, <1>3 DEF Cleared, Running
<1>5. ASSUME NEW e \in Dailies, dpc'[e] = "ended", Last(e)',
             NEW g \in consumes', g.period = daily'[e].period
      PROVE  {x \in exposed' : x[2] = g} = {<<e, g>>}
  <2>1. CASE e # d
    <3>1. Started(e) /\ dpc[e] = "ended" /\ daily'[e] = daily[e]
      BY <1>1, <1>5, <2>1 DEF Started
    <3>2. Last(e) /\ daily'[d].period # daily[e].period
      BY <1>5, <2>1, <3>1, LastBefore DEF ExposeInv
    <3>3. g \in consumes /\ g.period = daily[e].period
      BY <1>3, <1>5, <3>1, <3>2
    <3>4. {x \in exposed : x[2] = g} = {<<e, g>>}
      BY <3>1, <3>2, <3>3 DEF ExposeInv, OnceExposed
    <3> QED  BY <1>3, <3>2, <3>3, <3>4
  <2>2. CASE e = d
    <3>1. Expose(d)
      BY <1>1, <1>5, <2>2 DEF JobStep, Billing, JobCrash, DailyStarts, CountRows, DeleteRows, InsertRows,
                              Unexpose, DailyGoes, BillTypes, Started, Running
    <3>2. /\ dpc[d] = "expose" /\ UNCHANGED <<consumes, daily>>
          /\ exposed' = exposed \cup ({d} \X {h \in consumes : h.period = daily[d].period})
      BY <3>1 DEF Expose
    <3>3. \A x \in exposed : x[2] # g
      BY <1>5, <2>2, <3>2 DEF ExposeInv, Cleared
    <3>4. <<d, g>> \in exposed' /\ \A x \in exposed' : x[2] = g => x = <<d, g>>
      BY <1>5, <2>2, <3>2, <3>3
    <3> QED  BY <2>2, <3>4
  <2> QED  BY <2>1, <2>2
<1>6. OnceExposed'
  BY <1>5 DEF OnceExposed
<1> QED
  BY <1>2, <1>4, <1>6

LEMMA ExposeKept ==
  ASSUME Alone, ExposeInv, [Next]_vars
  PROVE  ExposeInv'
<1>1. TInv /\ TInv' /\ MeterTypes /\ BillTypes
  BY TypesKept DEF ExposeInv, TInv, IInv
<1>2. OneRuns'
  BY <1>1, OneRunsKept DEF ExposeInv
<1>3. CASE UNCHANGED billing
  <2>1. RunsLast' /\ Cleared'
    BY <1>3 DEF billing, ExposeInv, RunsLast, Cleared, Running, Started
  <2>2. \A d \in Dailies : Last(d)' => Last(d)
    BY <1>3 DEF billing, Last, JobsOf, Started
  <2>3. OnceExposed'
    BY <1>3, <2>2 DEF billing, ExposeInv, OnceExposed
  <2> QED  BY <1>1, <1>2, <2>1, <2>3 DEF ExposeInv
<1>4. CASE \E d \in Dailies : JobStep(d)
  BY <1>1, <1>2, <1>4, ExposeStep DEF ExposeInv
<1> QED
  BY <1>3, <1>4, StepCases

\* Where daily jobs do not overlap: once the last job of a period to start has
\* ended, each consume of the period is exposed, and once only, though other jobs
\* exposed the period before, or died between the delete and the insert.
THEOREM ExposedExactlyOnce == Alone => (Spec => []ExposedOnce)
<1> SUFFICES ASSUME Alone PROVE Spec => []ExposedOnce
  OBVIOUS
<1>1. Init => ExposeInv
  <2>1. Init => OneRuns /\ RunsLast /\ Cleared /\ OnceExposed
    BY DEF Init, OneRuns, RunsLast, Running, Cleared, OnceExposed
  <2> QED  BY <2>1, InitHolds, BillInit DEF ExposeInv, TInv
<1>2. ExposeInv /\ [Next]_vars => ExposeInv'
  BY ExposeKept
<1>3. ExposeInv => ExposedOnce
  <2> SUFFICES ASSUME ExposeInv, NEW d \in Dailies, dpc[d] = "ended",
                      \A e \in JobsOf(daily[d].period) : d \notin daily[e].after,
                      NEW g \in consumes, g.period = daily[d].period
               PROVE  Cardinality({x \in exposed : x[2] = g}) = 1
    BY DEF ExposedOnce
  <2>1. {x \in exposed : x[2] = g} = {<<d, g>>}
    BY DEF ExposeInv, OnceExposed, Last
  <2> QED  BY <2>1, FS_Singleton
<1> QED
  BY <1>1, <1>2, <1>3, PTL DEF Spec
============================================================================
