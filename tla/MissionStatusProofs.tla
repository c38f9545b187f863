------------------------ MODULE MissionStatusProofs ------------------------
(***************************************************************************)
(* Theorems about the status mapping, for event bodies of any length with  *)
(* any task ids: the bounds of MCMissionStatus are parameters here.        *)
(***************************************************************************)
EXTENDS MCMissionStatus, TLAPS, WellFoundedInduction

-----------------------------------------------------------------------------
(* The operators of the mapping.                                           *)

\* A list of task summaries, of any length.
IsSummaryList(s) == \E n \in Nat : s \in [1..n -> Summary(TaskIds)]

\* _task_status either understands a summary or raises.
LEMMA TaskStatusType ==
    \A status, outcome : TaskStatusOf(status, outcome) \in IsarTaskStatus \union {TaskStatusError}
BY DEF TaskStatusOf, IsarTaskStatus, TaskStatusError

\* A nonempty set of positions of a list has a last one.
LEMMA LastPosition ==
    ASSUME NEW n \in Nat, NEW I \in SUBSET (1..n), I # {}
    PROVE  \E i \in I : \A j \in I : j <= i
<1> DEFINE T == {n - i : i \in I}
<1>1. T \subseteq Nat /\ T # {}
  <2>1. \A i \in I : n - i \in Nat
    <3>1. TAKE i \in I
    <3>2. i \in Int /\ i <= n
        OBVIOUS
    <3>3. QED
        BY <3>2
  <2>2. PICK i \in I : TRUE
      OBVIOUS
  <2>3. n - i \in T
      BY <2>2
  <2>4. QED
      BY <2>1, <2>3
<1>2. PICK x \in T : \A y \in T : ~(<<y, x>> \in OpToRel(<, Nat))
  <2> HIDE DEF T
  <2>1. QED
      BY <1>1, NatLessThanWellFounded, WFMin
<1>3. \A y \in T : ~(y < x)
    BY <1>1, <1>2 DEF OpToRel
<1>4. PICK i \in I : x = n - i
    BY <1>2
<1>5. \A j \in I : ~(n - j < n - i)
    BY <1>3, <1>4
<1>6. QED
    BY <1>5

\* The loop of get_task_status ends on a summary of the task, if there is one.
LEMMA LastMatchIsMatch ==
    ASSUME NEW s, IsSummaryList(s), NEW t, Matches(s, t) # {}
    PROVE  /\ LastMatch(s, t) \in Matches(s, t)
           /\ LastMatch(s, t) \in DOMAIN s /\ s[LastMatch(s, t)].task = t
<1>1. PICK n \in Nat : s \in [1..n -> Summary(TaskIds)]
    BY DEF IsSummaryList
<1>2. Matches(s, t) \in SUBSET (1..n)
    BY <1>1 DEF Matches
<1>3. \E i \in Matches(s, t) : \A j \in Matches(s, t) : j <= i
    BY <1>2, LastPosition
<1>4. LastMatch(s, t) \in Matches(s, t)
    BY <1>3 DEF LastMatch
<1>5. QED
    BY <1>4 DEF Matches

\* What get_task_status says of a task is what some summary of the mission says.
LEMMA TaskStatusIsListed ==
    ASSUME NEW s, IsSummaryList(s), NEW t, Matches(s, t) # {}
    PROVE  TaskStatusIn(s, t) \in TaskStatusesOf(s)
<1>1. CASE t # Undock /\ UndockFailed(s)
  <2>1. PICK i \in DOMAIN s : s[i].status = "TS_COMPLETED" /\ s[i].outcome = "OC_FAILURE"
      BY <1>1 DEF UndockFailed
  <2>2. TaskStatusOf("TS_COMPLETED", "OC_FAILURE") = "Failed"
      BY DEF TaskStatusOf, GoodOutcome
  <2>3. TaskStatusIn(s, t) = "Failed"
      BY <1>1 DEF TaskStatusIn
  <2>4. QED
      BY <2>1, <2>2, <2>3 DEF TaskStatusesOf
<1>2. CASE ~(t # Undock /\ UndockFailed(s))
  <2>1. LastMatch(s, t) \in DOMAIN s
      BY LastMatchIsMatch
  <2>2. TaskStatusIn(s, t) = TaskStatusOf(s[LastMatch(s, t)].status,
                                          s[LastMatch(s, t)].outcome)
      BY <1>2 DEF TaskStatusIn
  <2>3. QED
      BY <2>1, <2>2 DEF TaskStatusesOf
<1>3. QED
    BY <1>1, <1>2

\* The verdicts that name one outcome, and what they need.
LEMMA VerdictMeaning ==
    ASSUME NEW statuses
    PROVE  /\ Verdict(statuses) \in IsarMissionStatus \union {MissionStatusError}
           /\ Verdict(statuses) = "Successful" => statuses = {"Successful"}
           /\ Verdict(statuses) = "Failed" => statuses = {"Failed"}
           /\ Verdict(statuses) = "PartiallySuccessful" => "Failed" \in statuses
           /\ Verdict(statuses) \in Unfinished =>
                 statuses = {} \/ Unfinished \intersect statuses # {}
BY DEF Verdict, Unfinished, IsarMissionStatus, IsarTaskStatus, MissionStatusError

\* The branch for stored missions without summaries.
LEMMA StoredVerdictType ==
    \A status, outcome :
        StoredVerdict(status, outcome) \in {"Successful", "Failed", MissionStatusError}
BY DEF StoredVerdict

\* A mission status that names an outcome is the verdict on the summaries, unless
\* a stored mission has none; so is one that says a mission the robot does not
\* call running has not ended.
LEMMA MissionStatusMeaning ==
    ASSUME NEW status, NEW summaries, NEW outcome, NEW isStored
    PROVE  LET v == MissionStatusFrom(status, summaries, outcome, isStored)
           IN  /\ v \in IsarMissionStatus \union {MissionStatusError}
               /\ v \in {"Successful", "Failed", "PartiallySuccessful"}
                     => \/ isStored /\ summaries = <<>>
                        \/ v = Verdict(TaskStatusesOf(summaries))
               /\ status # "MS_RUNNING" /\ v \in Unfinished =>
                     /\ v = Verdict(TaskStatusesOf(summaries))
                     /\ ~(isStored /\ summaries = <<>>)
<1> DEFINE v == MissionStatusFrom(status, summaries, outcome, isStored)
<1>1. \/ v \in {"Paused", "InProgress", MissionStatusError}
      \/ isStored /\ summaries = <<>> /\ v = StoredVerdict(status, outcome)
      \/ v = Verdict(TaskStatusesOf(summaries))
    BY DEF MissionStatusFrom
<1>2. {"Paused", "InProgress", "Successful", "Failed"} \subseteq IsarMissionStatus
    BY DEF IsarMissionStatus, IsarTaskStatus
<1>3. {"Paused", "InProgress", MissionStatusError}
          \intersect {"Successful", "Failed", "PartiallySuccessful"} = {}
    BY DEF MissionStatusError
<1> HIDE DEF v
<1>4. v \in IsarMissionStatus \union {MissionStatusError}
    BY <1>1, <1>2, VerdictMeaning, StoredVerdictType
<1>5. status # "MS_RUNNING" /\ v \in Unfinished =>
          /\ v = Verdict(TaskStatusesOf(summaries))
          /\ ~(isStored /\ summaries = <<>>)
  <2>1. \/ v \in {"Paused", MissionStatusError} \/ status = "MS_RUNNING"
        \/ isStored /\ summaries = <<>> /\ v = StoredVerdict(status, outcome)
        \/ v = Verdict(TaskStatusesOf(summaries)) /\ ~(isStored /\ summaries = <<>>)
      BY DEF v, MissionStatusFrom
  <2>2. Unfinished \intersect {"Paused", MissionStatusError, "Successful", "Failed"} = {}
      BY DEF Unfinished, MissionStatusError
  <2>3. QED
      BY <2>1, <2>2, StoredVerdictType
<1>6. QED
    BY <1>1, <1>3, <1>4, <1>5 DEF v

-----------------------------------------------------------------------------
(* The states of MCMissionStatus are event bodies.                         *)

\* The body of an event, and whether its mission is a stored one.
BodyInv ==
    /\ event \in Bodies
    /\ stored \in BOOLEAN

\* Every state is the initial one.
LEMMA BodyInvariant == Spec => []BodyInv
<1>1. Init => BodyInv
    BY DEF Init, BodyInv
<1>2. BodyInv /\ [Next]_vars => BodyInv'
    BY DEF BodyInv, Next, vars
<1>3. QED
    BY <1>1, <1>2, PTL DEF Spec

\* The body carries a list of summaries.
LEMMA BodyHasSummaries == BodyInv => IsSummaryList(event.summaries)
<1> SUFFICES ASSUME BodyInv PROVE IsSummaryList(event.summaries)
    OBVIOUS
<1>1. event.summaries \in SummaryLists \/ event.summaries = <<>>
    BY DEF BodyInv, Bodies, NoSummary
<1>2. CASE event.summaries \in SummaryLists
  <2>1. PICK n \in 0..MaxSummaries :
            event.summaries
                \in [1..n -> {s \in Summary(TaskIds) : s.outcome \in OutcomesUsed}]
      BY <1>2 DEF SummaryLists
  <2>2. n \in Nat
      BY <2>1, MCAssumption
  <2>3. QED
      BY <2>1, <2>2 DEF IsSummaryList
<1>3. CASE event.summaries = <<>>
    BY <1>3 DEF IsSummaryList
<1>4. QED
    BY <1>1, <1>2, <1>3

\* What ISAR gets is the mapping of the body, or the exception that stands for a
\* missing mission summary.
LEMMA ReportedMeaning ==
    LET v == MissionStatusFrom(event.status, event.summaries, event.outcome, stored)
    IN  \/ Reported = MissionStatusError
        \/ event # NoSummary /\
           Reported = IF stored /\ v = "PartiallySuccessful" THEN "Failed" ELSE v
BY DEF Reported, MissionStatusReported, Guarded, StatusOfEvent, ReportedStatus

\* The same of a task.
LEMMA TaskReportedMeaning ==
    ASSUME NEW t
    PROVE  /\ TaskReported(t) \in {TaskStatusError, TaskStatusIn(event.summaries, t)}
           /\ event.summaries # <<>> => TaskReported(t) = TaskStatusIn(event.summaries, t)
<1>1. TaskStatusIn(event.summaries, t) # Unexpected
    BY DEF TaskStatusIn, TaskStatusOf, TaskStatusError, Unexpected
<1>2. QED
    BY <1>1 DEF TaskReported, TaskStatusReported, Guarded, NoSummary

\* The mapping is total: a status of ISAR, or one of the two exceptions the
\* monitoring survives, whatever the robot sends.
THEOREM MappingIsTotal == Spec => []TypeOK
<1>1. Reported \in IsarMissionStatus \union {MissionStatusError}
  <2> DEFINE v == MissionStatusFrom(event.status, event.summaries, event.outcome, stored)
  <2>1. v \in IsarMissionStatus \union {MissionStatusError}
      BY MissionStatusMeaning
  <2>2. "Failed" \in IsarMissionStatus
      BY DEF IsarMissionStatus, IsarTaskStatus
  <2>3. Reported \in {v, "Failed", MissionStatusError}
      BY ReportedMeaning
  <2>4. QED
      BY <2>1, <2>2, <2>3
<1>2. \A t \in TaskIds : TaskReported(t) \in IsarTaskStatus \union {TaskStatusError}
  <2>1. "Failed" \in IsarTaskStatus
      BY DEF IsarTaskStatus
  <2>2. QED
      BY <2>1, TaskStatusType, TaskReportedMeaning DEF TaskStatusIn
<1>3. TypeOK
    BY <1>1, <1>2 DEF TypeOK
<1>4. QED
    BY <1>3, PTL

\* The mission status and the task statuses ISAR polls never contradict each
\* other, for any number of tasks.
THEOREM ViewsAgree == Spec => []TaskAndMissionAgree
<1>1. BodyInv => TaskAndMissionAgree
  <2> SUFFICES ASSUME BodyInv PROVE TaskAndMissionAgree
      OBVIOUS
  <2> DEFINE list == event.summaries
             tasks == {list[i].task : i \in DOMAIN list}
             views == {TaskReported(t) : t \in tasks}
             statuses == TaskStatusesOf(list)
             v == MissionStatusFrom(event.status, list, event.outcome, stored)
  <2>1. stored \in BOOLEAN /\ IsSummaryList(list)
      BY BodyHasSummaries DEF BodyInv
  <2>2. views \subseteq statuses
    <3>1. ASSUME NEW t \in tasks PROVE TaskStatusIn(list, t) \in statuses
      <4>1. Matches(list, t) # {}
          BY <3>1 DEF Matches
      <4>2. QED
          BY <2>1, <4>1, TaskStatusIsListed
    <3>2. tasks # {} => list # <<>>
        OBVIOUS
    <3>3. \A t \in tasks : TaskReported(t) = TaskStatusIn(list, t)
        BY <3>2, TaskReportedMeaning
    <3>4. QED
        BY <3>1, <3>3
  <2>3. list = <<>> => tasks = {} /\ views = {}
      OBVIOUS
  <2>4. tasks # {} => views # {}
      OBVIOUS
  <2>5. v \in {"Successful", "Failed", "PartiallySuccessful"} =>
            (stored /\ list = <<>>) \/ v = Verdict(statuses)
      BY MissionStatusMeaning
  <2>5a. event.status # "MS_RUNNING" /\ v \in Unfinished =>
             v = Verdict(statuses) /\ ~(stored /\ list = <<>>)
      BY MissionStatusMeaning
  <2>6. \/ Reported = MissionStatusError
        \/ Reported = IF stored /\ v = "PartiallySuccessful" THEN "Failed" ELSE v
      BY ReportedMeaning
  <2>6a. tasks = {} <=> list = <<>>
    <3>1. PICK n \in Nat : list \in [1..n -> Summary(TaskIds)]
        BY <2>1 DEF IsSummaryList
    <3>2. CASE n = 0
        BY <3>1, <3>2
    <3>3. CASE n # 0
      <4>1. 1 \in DOMAIN list
          BY <3>1, <3>3
      <4>2. list # <<>>
          BY <4>1
      <4>3. QED
          BY <4>1, <4>2
    <3>4. QED
        BY <3>2, <3>3
  <2>6b. statuses = {} <=> list = <<>>
    <3>1. tasks = {} <=> statuses = {}
        BY DEF TaskStatusesOf
    <3>2. QED
        BY <2>6a, <3>1
  <2>6c. MissionStatusError \notin {"Successful", "Failed", "PartiallySuccessful"}
                                      \union Unfinished
      BY DEF MissionStatusError, Unfinished
  <2> HIDE DEF tasks, views, statuses, v, list
  <2>7. Reported = "Successful" => views \subseteq {"Successful"}
      BY <2>2, <2>3, <2>5, <2>6, <2>6c, VerdictMeaning
  <2>8. Reported = "Failed" /\ tasks # {} =>
            IF stored THEN "Failed" \in views \union statuses ELSE views = {"Failed"}
      BY <2>1, <2>2, <2>3, <2>4, <2>5, <2>6, <2>6c, VerdictMeaning
  <2>9. Reported = "PartiallySuccessful" => "Failed" \in views \union statuses
      BY <2>1, <2>5, <2>6, <2>6c, VerdictMeaning
  <2>10. event.status # "MS_RUNNING" /\ Reported \in Unfinished =>
             Unfinished \intersect statuses # {} \/ (tasks = {} /\ ~stored)
    <3>1. SUFFICES ASSUME event.status # "MS_RUNNING", Reported \in Unfinished,
                          Unfinished \intersect statuses = {}
                   PROVE  tasks = {} /\ ~stored
        OBVIOUS
    <3>2. Reported = v
        BY <2>6, <2>6c, <3>1 DEF Unfinished
    <3>3. v = Verdict(statuses) /\ ~(stored /\ list = <<>>)
        BY <2>5a, <3>1, <3>2
    <3>4. statuses = {}
        BY <3>1, <3>2, <3>3, VerdictMeaning
    <3>5. QED
        BY <2>1, <2>6a, <2>6b, <3>3, <3>4
  <2>11. QED
      BY <2>7, <2>8, <2>9, <2>10 DEF TaskAndMissionAgree, tasks, views, statuses, list
<1>2. QED
    BY BodyInvariant, <1>1, PTL

-----------------------------------------------------------------------------
(* The order of the summaries.                                             *)

\* A list and its reverse have the same summaries, position by position.
LEMMA ReversedList ==
    ASSUME NEW n \in Nat, NEW s \in [1..n -> Summary(TaskIds)]
    PROVE  /\ Reversed(s) \in [1..n -> Summary(TaskIds)]
           /\ \A i \in 1..n : n + 1 - i \in 1..n /\ Reversed(s)[i] = s[n + 1 - i]
           /\ \A i \in 1..n : Reversed(s)[n + 1 - i] = s[i]
           /\ Reversed(s) = <<>> <=> s = <<>>
<1>1. Len(s) = n /\ DOMAIN s = 1..n
    OBVIOUS
<1>2. \A i \in 1..n : n + 1 - i \in 1..n
    OBVIOUS
<1>3. Reversed(s) = [i \in 1..n |-> s[n + 1 - i]]
    BY <1>1 DEF Reversed
<1>4. Reversed(s) \in [1..n -> Summary(TaskIds)]
    BY <1>2, <1>3
<1>5. \A i \in 1..n : Reversed(s)[i] = s[n + 1 - i]
    BY <1>3
<1>6. \A i \in 1..n : Reversed(s)[n + 1 - i] = s[i]
  <2>1. \A i \in 1..n : n + 1 - (n + 1 - i) = i
      OBVIOUS
  <2>2. QED
      BY <1>2, <1>5, <2>1
<1>7. Reversed(s) = <<>> <=> s = <<>>
  <2>1. s = <<>> <=> n = 0
      BY <1>1
  <2>2. Reversed(s) = <<>> <=> n = 0
      BY <1>4
  <2>3. QED
      BY <2>1, <2>2
<1>8. QED
    BY <1>2, <1>4, <1>5, <1>6, <1>7

\* They have the same statuses, and the same failed undock.
LEMMA ReversedSame ==
    ASSUME NEW s, IsSummaryList(s)
    PROVE  /\ TaskStatusesOf(Reversed(s)) = TaskStatusesOf(s)
           /\ UndockFailed(Reversed(s)) <=> UndockFailed(s)
           /\ IsSummaryList(Reversed(s))
           /\ Reversed(s) = <<>> <=> s = <<>>
<1>1. PICK n \in Nat : s \in [1..n -> Summary(TaskIds)]
    BY DEF IsSummaryList
<1> DEFINE r == Reversed(s)
<1>2. /\ r \in [1..n -> Summary(TaskIds)]
      /\ \A i \in 1..n : n + 1 - i \in 1..n /\ r[i] = s[n + 1 - i]
      /\ \A i \in 1..n : r[n + 1 - i] = s[i]
      /\ r = <<>> <=> s = <<>>
    BY <1>1, ReversedList
<1>3. DOMAIN s = 1..n /\ DOMAIN r = 1..n
    BY <1>1, <1>2
<1> HIDE DEF r
<1>4. TaskStatusesOf(r) = TaskStatusesOf(s)
    BY <1>2, <1>3 DEF TaskStatusesOf
<1>5. UndockFailed(r) <=> UndockFailed(s)
    BY <1>2, <1>3 DEF UndockFailed
<1>6. QED
    BY <1>2, <1>4, <1>5 DEF r, IsSummaryList

\* When no task is listed twice, the summary the loop ends on is the task's only one.
LEMMA OnlyMatch ==
    ASSUME NEW s, IsSummaryList(s), NEW i \in DOMAIN s,
           \A j \in DOMAIN s : s[j].task = s[i].task => j = i
    PROVE  /\ Matches(s, s[i].task) # {}
           /\ LastMatch(s, s[i].task) = i
<1>1. i \in Matches(s, s[i].task)
    BY DEF Matches
<1>2. LastMatch(s, s[i].task) \in DOMAIN s /\ s[LastMatch(s, s[i].task)].task = s[i].task
    BY <1>1, LastMatchIsMatch
<1>3. QED
    BY <1>1, <1>2

\* The mission status never depends on the order in which the robot lists its
\* tasks; with one summary per task, no task status does.
THEOREM OrderDoesNotMatter == Spec => []OrderIrrelevant
<1>1. BodyInv => OrderIrrelevant
  <2> SUFFICES ASSUME BodyInv PROVE OrderIrrelevant
      OBVIOUS
  <2> DEFINE s == event.summaries
             back == [event EXCEPT !.summaries = Reversed(@)]
             r == Reversed(s)
             unique == \A i, j \in DOMAIN s : s[i].task = s[j].task => i = j
  <2>1. IsSummaryList(s)
      BY BodyHasSummaries
  <2>2. back.summaries = r /\ back.status = event.status /\ back.outcome = event.outcome
      BY DEF BodyInv, Bodies, NoSummary
  <2>3. /\ TaskStatusesOf(r) = TaskStatusesOf(s)
        /\ UndockFailed(r) <=> UndockFailed(s)
        /\ IsSummaryList(r) /\ (r = <<>> <=> s = <<>>)
      BY <2>1, ReversedSame
  <2>4. PICK n \in Nat : s \in [1..n -> Summary(TaskIds)]
      BY <2>1 DEF IsSummaryList
  <2>5. /\ r \in [1..n -> Summary(TaskIds)]
        /\ \A i \in 1..n : n + 1 - i \in 1..n /\ r[i] = s[n + 1 - i]
        /\ \A i \in 1..n : r[n + 1 - i] = s[i]
      BY <2>4, ReversedList
  <2>6. DOMAIN s = 1..n /\ DOMAIN r = 1..n
      BY <2>4, <2>5
  <2>6a. back = NoSummary <=> event = NoSummary
    <3>1. CASE event = NoSummary
        BY <2>2, <2>3, <3>1 DEF NoSummary
    <3>2. CASE event # NoSummary
      <4>1. event.status \in ANYmalMissionStatus
          BY <3>2 DEF BodyInv, Bodies
      <4>2. back.status # "none"
          BY <2>2, <4>1 DEF ANYmalMissionStatus
      <4>3. QED
          BY <3>2, <4>2 DEF NoSummary
    <3>3. QED
        BY <3>1, <3>2
  <2> HIDE DEF s, r, back
  <2>7. MissionStatusReported(back, stored) = Reported
    <3>1. MissionStatusFrom(back.status, back.summaries, back.outcome, stored)
              = MissionStatusFrom(event.status, s, event.outcome, stored)
        BY <2>2, <2>3 DEF MissionStatusFrom
    <3>2. QED
        BY <2>6a, <3>1 DEF Reported, MissionStatusReported, StatusOfEvent, s
  <2>8. ASSUME unique, NEW t \in TaskIds PROVE TaskStatusIn(r, t) = TaskStatusIn(s, t)
    <3>1. CASE \E i \in DOMAIN s : s[i].task = t
      <4>1. PICK i \in DOMAIN s : s[i].task = t
          BY <3>1
      <4>2. Matches(s, t) # {} /\ LastMatch(s, t) = i
          BY <2>1, <2>8, <4>1, OnlyMatch
      <4> DEFINE k == n + 1 - i
      <4>3. k \in DOMAIN r /\ r[k] = s[i]
          BY <2>5, <2>6, <4>1
      <4>4. ASSUME NEW j \in DOMAIN r, r[j].task = r[k].task PROVE j = k
        <5>1. n + 1 - j \in DOMAIN s /\ s[n + 1 - j].task = s[i].task
            BY <2>5, <2>6, <4>3, <4>4
        <5>2. n + 1 - j = i
            BY <2>8, <4>1, <5>1
        <5>3. QED
            BY <2>6, <4>1, <5>2
      <4> HIDE DEF k
      <4>5. Matches(r, t) # {} /\ LastMatch(r, t) = k
          BY <2>3, <4>1, <4>3, <4>4, OnlyMatch
      <4>6. QED
          BY <2>3, <4>2, <4>3, <4>5 DEF TaskStatusIn
    <3>2. CASE ~\E i \in DOMAIN s : s[i].task = t
      <4>1. Matches(s, t) = {}
          BY <3>2 DEF Matches
      <4>2. Matches(r, t) = {}
          BY <2>5, <2>6, <3>2 DEF Matches
      <4>3. QED
          BY <2>3, <4>1, <4>2 DEF TaskStatusIn
    <3>3. QED
        BY <3>1, <3>2
  <2>9. QED
      BY <2>2, <2>6a, <2>7, <2>8
         DEF OrderIrrelevant, TaskReported, TaskStatusReported, s, back
<1>2. QED
    BY BodyInvariant, <1>1, PTL
=============================================================================
