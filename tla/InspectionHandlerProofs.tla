---------------------- MODULE InspectionHandlerProofs ----------------------
(***************************************************************************)
(* ISAR gets every inspection with the mission whose run made it, however  *)
(* the two threads interleave, whatever the sizes of the queues and        *)
(* whatever else the robot runs.  What makes it inductive is that each     *)
(* place an event passes through holds only what belongs together: the     *)
(* stream only events about a task of their run's mission, the queue only  *)
(* runs with their own missions, and the listener's locals, from one stage *)
(* to the next, one event with its task and then its mission.              *)
(***************************************************************************)
EXTENDS InspectionHandler, TLAPS, WellFoundedInduction

\* An event is about a task of the mission its run is of.
GoodEvents ==
    {e \in [run : 1..Len(runs), asset_id : Tasks] : e.asset_id[1] = runs[e.run]}

\* An entry of missions_inspection_queue pairs an accepted run with its mission.
GoodEntries ==
    {e \in [run : accepted, mission : Missions] : e.mission = runs[e.run]}

\* So does a delivery, and its task is one of the mission.
GoodDeliveries ==
    {d \in [run : accepted, task : Tasks, mission : Missions] :
        d.mission = runs[d.run] /\ d.task[1] = d.mission}

Matched == {"listing", "raw_data", "callback", "remove"}

RunsInv ==
    /\ runs \in Seq(Missions) /\ (running => runs # <<>>)
    /\ accepted \subseteq 1..Len(runs)
    /\ caller \in [at : {"idle", "mission", "tasks"}, run : Nat, number : Nat]
    /\ caller.at # "idle" => caller.run \in accepted
ListenerInv ==
    /\ at \in {"down", "reading", "find_task", "find_mission"} \union Matched
    /\ at \notin {"down", "reading"} => event \in GoodEvents
    /\ at \in {"find_mission"} \union Matched => task = event.asset_id
    /\ at \in Matched => event.run \in accepted /\ mission = runs[event.run]
QueuesInv ==
    /\ missions_inspection_queue \in Seq(GoodEntries)
    /\ stream \in Seq(GoodEvents)
    /\ delivered \in Seq(GoodDeliveries)
HandlerInv == RunsInv /\ ListenerInv /\ QueuesInv

-----------------------------------------------------------------------------
\* A sequence over a set is one over any larger set.
LEMMA SeqOfMore ==
    ASSUME NEW S, NEW T, S \subseteq T, NEW s \in Seq(S)
    PROVE  s \in Seq(T)
OBVIOUS

\* A queue with a maximal length holds what was pushed, and nothing else.
LEMMA PushedIsSeq ==
    ASSUME NEW S, NEW s \in Seq(S), NEW x \in S, NEW max \in Nat \ {0}
    PROVE  Pushed(s, x, max) \in Seq(S)
BY DEF Pushed

\* The robot begins with no run, and nothing is on its way.
LEMMA HandlerInit == Init => HandlerInv
BY DEF Init, HandlerInv, RunsInv, ListenerInv, QueuesInv, Matched

\* A new run takes nothing from what is known of the earlier ones.
LEMMA NewRun ==
    ASSUME HandlerInv, NEW m \in Missions, Starts(m),
           accepted' \in {accepted, accepted \union {Len(runs')}},
           UNCHANGED <<missions_inspection_queue, stream, delivered, at, localVars>>
    PROVE  /\ runs' \in Seq(Missions) /\ Len(runs') \in 1..Len(runs')
           /\ accepted \subseteq accepted' /\ accepted' \subseteq 1..Len(runs')
           /\ runs' # <<>> /\ ListenerInv' /\ QueuesInv'
<1>1. /\ runs' \in Seq(Missions) /\ runs' # <<>> /\ Len(runs') = Len(runs) + 1 /\ Len(runs) \in Nat
      /\ \A r \in 1..Len(runs) : runs'[r] = runs[r]
    BY DEF HandlerInv, RunsInv, Starts
<1>2. accepted \subseteq accepted' /\ accepted' \subseteq 1..Len(runs')
    BY <1>1 DEF HandlerInv, RunsInv
<1>3. 1..Len(runs) \subseteq 1..Len(runs') /\ accepted \subseteq 1..Len(runs)
    BY <1>1 DEF HandlerInv, RunsInv
<1>4. GoodEvents \subseteq GoodEvents'
    BY <1>1, <1>3 DEF GoodEvents
<1>5. GoodEntries \subseteq GoodEntries'
    BY <1>1, <1>2, <1>3 DEF GoodEntries
<1>6. GoodDeliveries \subseteq GoodDeliveries'
    BY <1>1, <1>2, <1>3 DEF GoodDeliveries
<1>7. QueuesInv'
    BY <1>4, <1>5, <1>6, SeqOfMore DEF HandlerInv, QueuesInv
<1>8. ListenerInv'
    BY <1>1, <1>2, <1>3, <1>4 DEF HandlerInv, ListenerInv, localVars
<1>. QED
    BY <1>1, <1>2, <1>7, <1>8

\* What is good stays so while no run starts and none is accepted.
LEMMA SameRuns ==
    ASSUME UNCHANGED <<runs, accepted>>
    PROVE  /\ GoodEvents' = GoodEvents /\ GoodEntries' = GoodEntries
           /\ GoodDeliveries' = GoodDeliveries
BY DEF GoodEvents, GoodEntries, GoodDeliveries

\* What a step of the listener keeps, when it leaves the callback.
LEMMA CallbackEnds ==
    ASSUME HandlerInv, Returns \/ Raises,
           UNCHANGED <<World, missions_inspection_queue, delivered>>
    PROVE  HandlerInv'
<1>1. /\ at' \in {"down", "reading"}
      /\ stream' = stream \/ stream' = <<>>
    BY DEF Returns, Raises, streamVars
<1>2. UNCHANGED <<runs, running, accepted, caller>>
    BY DEF World, robotVars
<1>3. ListenerInv'
    BY <1>1 DEF ListenerInv, Matched
<1>4. stream' \in Seq(GoodEvents)
  <2>1. CASE stream' = stream
    BY <2>1 DEF HandlerInv, QueuesInv
  <2>2. CASE stream' = <<>>
    BY <2>2
  <2>. QED
    BY <1>1, <2>1, <2>2
<1>5. QueuesInv'
    BY <1>2, <1>4, SameRuns DEF HandlerInv, QueuesInv
<1>. QED
    BY <1>2, <1>3, <1>5 DEF HandlerInv, RunsInv

\* Every step of Next preserves the invariant.
LEMMA HandlerStep == HandlerInv /\ [Next]_vars => HandlerInv'
<1> SUFFICES ASSUME HandlerInv, [Next]_vars PROVE HandlerInv'
    OBVIOUS
<1> USE DEF HandlerInv
<1>1. CASE UNCHANGED vars
    BY <1>1, SameRuns DEF vars, robotVars, streamVars, queueVars, localVars, RunsInv, ListenerInv,
                QueuesInv
<1>2. ASSUME NEW m \in Missions, InitiateMission(m) PROVE HandlerInv'
  <2>1. /\ Starts(m) /\ accepted' = accepted \union {Len(runs')}
        /\ UNCHANGED <<missions_inspection_queue, stream, delivered, at, localVars>>
        /\ caller' = [at |-> "mission", run |-> Len(runs'), number |-> 1]
    BY <1>2 DEF InitiateMission, streamVars, queueVars
  <2>. QED
    BY <2>1, NewRun DEF RunsInv
<1>3. ASSUME NEW m \in Missions, UnknownRunStarts(m) PROVE HandlerInv'
  <2>1. /\ Starts(m) /\ accepted' = accepted /\ caller' = caller
        /\ UNCHANGED <<missions_inspection_queue, stream, delivered, at, localVars>>
    BY <1>3 DEF UnknownRunStarts, streamVars, queueVars
  <2>. QED
    BY <2>1, NewRun DEF RunsInv
<1>4. CASE AppendMission
  <2>1. /\ caller.run \in accepted /\ runs[caller.run] \in Missions
        /\ missions_inspection_queue' =
              Pushed(missions_inspection_queue,
                     [run |-> caller.run, mission |-> runs[caller.run]], MissionsMax)
        /\ caller' = [caller EXCEPT !.at = "tasks"]
        /\ UNCHANGED <<runs, running, accepted, stream, delivered, at, localVars>>
    BY <1>4 DEF AppendMission, RunsInv, robotVars, streamVars
  <2>2. [run |-> caller.run, mission |-> runs[caller.run]] \in GoodEntries
    BY <2>1 DEF GoodEntries
  <2>3. missions_inspection_queue' \in Seq(GoodEntries)
    BY <2>1, <2>2, PushedIsSeq, SizesAssumption DEF QueuesInv
  <2>. QED
    BY <2>1, <2>3, SameRuns DEF RunsInv, ListenerInv, QueuesInv, localVars
<1>5. CASE AppendTask
  <2>1. /\ caller.at = "tasks"
        /\ \/ caller' = [caller EXCEPT !.number = @ + 1]
           \/ caller' = [at |-> "idle", run |-> 0, number |-> 0]
        /\ UNCHANGED <<runs, running, accepted, missions_inspection_queue, stream, delivered,
                       at, localVars>>
    BY <1>5 DEF AppendTask, robotVars, streamVars
  <2>2. RunsInv'
    BY <2>1 DEF RunsInv
  <2>. QED
    BY <2>1, <2>2, SameRuns DEF ListenerInv, QueuesInv, localVars
<1>6. ASSUME NEW i \in Numbers, Inspects(i) PROVE HandlerInv'
  <2> DEFINE e == [run |-> Len(runs), asset_id |-> <<runs[Len(runs)], i>>]
  <2>1. /\ runs # <<>>
        /\ stream' = stream \/ stream' = Append(stream, e)
        /\ UNCHANGED <<runs, running, accepted, caller, missions_inspection_queue, delivered,
                       at, localVars>>
    BY <1>6 DEF Inspects, queueVars, RunsInv
  <2>2. CASE stream' = stream
    BY <2>1, <2>2, SameRuns DEF RunsInv, ListenerInv, QueuesInv, localVars
  <2>3. CASE stream' = Append(stream, e)
    <3>1. Len(runs) \in 1..Len(runs) /\ runs[Len(runs)] \in Missions
      BY <2>1 DEF RunsInv
    <3>2. e \in GoodEvents
      BY <3>1 DEF GoodEvents, Tasks
    <3>3. stream' \in Seq(GoodEvents)
      BY <2>3, <3>2 DEF QueuesInv
    <3>. QED
      BY <2>1, <3>3, SameRuns DEF RunsInv, ListenerInv, QueuesInv, localVars
  <2>. QED
    BY <2>1, <2>2, <2>3
<1>7. CASE RunEnds \/ StreamBreaks
  <2>1. /\ stream' = stream \/ stream' = <<>>
        /\ running' => running
        /\ UNCHANGED <<runs, accepted, caller, missions_inspection_queue, delivered,
                       at, localVars>>
    BY <1>7 DEF RunEnds, StreamBreaks, robotVars, streamVars, queueVars
  <2>2. stream' \in Seq(GoodEvents)
    <3>1. CASE stream' = stream
      BY <3>1 DEF QueuesInv
    <3>2. CASE stream' = <<>>
      BY <3>2
    <3>. QED
      BY <2>1, <3>1, <3>2
  <2>. QED
    BY <2>1, <2>2, SameRuns DEF RunsInv, ListenerInv, QueuesInv, localVars
<1>8. CASE Subscribe \/ StreamEnds
  <2>1. /\ at' \in {"down", "reading"} /\ stream' = <<>>
        /\ UNCHANGED <<runs, running, accepted, caller, missions_inspection_queue, delivered>>
    BY <1>8 DEF Subscribe, StreamEnds, Raises, World, robotVars, queueVars
  <2>. QED
    BY <2>1, SameRuns DEF RunsInv, ListenerInv, QueuesInv, Matched
<1>9. CASE ReadEvent
  <2>1. /\ stream # <<>> /\ stream' = Tail(stream)
        /\ UNCHANGED <<runs, running, accepted, caller, missions_inspection_queue, delivered>>
        /\ \/ at' = "find_task" /\ event' = Head(stream)
           \/ at = "reading" /\ UNCHANGED <<at, localVars>>
    BY <1>9 DEF ReadEvent, World, robotVars, queueVars
  <2>2. Head(stream) \in GoodEvents /\ Tail(stream) \in Seq(GoodEvents)
    BY <2>1 DEF QueuesInv
  <2>. QED
    BY <2>1, <2>2, SameRuns DEF RunsInv, ListenerInv, QueuesInv, Matched, localVars
<1>10. CASE FindTask
  <2>1. CASE Returns \/ Raises
    BY <1>10, <2>1, CallbackEnds DEF FindTask, queueVars
  <2>2. CASE ~(Returns \/ Raises)
    <3>1. /\ at = "find_task" /\ at' = "find_mission" /\ task' = event.asset_id
          /\ event' = event
          /\ UNCHANGED <<runs, running, accepted, caller, missions_inspection_queue, stream, delivered>>
      BY <1>10, <2>2 DEF FindTask, World, robotVars, queueVars, streamVars
    <3>. QED
      BY <3>1, SameRuns DEF RunsInv, ListenerInv, QueuesInv, Matched
  <2>. QED
    BY <2>1, <2>2
<1>11. CASE FindMission
  <2>1. CASE Returns \/ Raises
    BY <1>11, <2>1, CallbackEnds DEF FindMission, queueVars
  <2>2. CASE ~(Returns \/ Raises)
    <3>1. /\ at = "find_mission" /\ at' = "listing"
          /\ \E k \in 1..Len(missions_inspection_queue) :
                /\ missions_inspection_queue[k].run = event.run
                /\ mission' = missions_inspection_queue[k].mission
          /\ UNCHANGED <<event, task, runs, running, accepted, caller, missions_inspection_queue,
                         stream, delivered>>
      BY <1>11, <2>2 DEF FindMission, World, robotVars, queueVars, streamVars
    <3>2. event.run \in accepted /\ mission' = runs[event.run]
      <4>1. \A k \in 1..Len(missions_inspection_queue) :
                missions_inspection_queue[k] \in GoodEntries
        BY DEF QueuesInv
      <4>. QED
        BY <3>1, <4>1 DEF GoodEntries
    <3>. QED
      BY <3>1, <3>2, SameRuns DEF RunsInv, ListenerInv, QueuesInv, Matched
  <2>. QED
    BY <2>1, <2>2
<1>12. CASE Retrieved
  <2>1. /\ at \in Matched /\ at' \in Matched
        /\ UNCHANGED <<event, task, mission, runs, running, accepted, caller,
                       missions_inspection_queue, stream, delivered>>
    BY <1>12 DEF Retrieved, World, robotVars, queueVars, streamVars, Matched
  <2>. QED
    BY <2>1, SameRuns DEF RunsInv, ListenerInv, QueuesInv, Matched
<1>13. CASE RetrievalFails
  <2>1. CASE Returns
    BY <1>13, <2>1, CallbackEnds DEF RetrievalFails, queueVars
  <2>2. CASE UNCHANGED <<at, event, view, task, mission, streamVars>>
    BY <1>13, <2>2, SameRuns DEF RetrievalFails, World, robotVars, queueVars, streamVars, RunsInv,
                       ListenerInv, QueuesInv
  <2>. QED
    BY <1>13, <2>1, <2>2 DEF RetrievalFails
<1>14. CASE DataUnusable \/ ProcessingRaises
    BY <1>14, CallbackEnds DEF DataUnusable, ProcessingRaises, queueVars
<1>15. CASE Deliver
  <2> DEFINE d == [run |-> event.run, task |-> task, mission |-> mission]
  <2>1. /\ at = "callback" /\ at' = "remove" /\ delivered' = Append(delivered, d)
        /\ UNCHANGED <<event, task, mission, runs, running, accepted, caller,
                       missions_inspection_queue, stream>>
    BY <1>15 DEF Deliver, World, robotVars, queueVars, streamVars
  <2>2. d \in GoodDeliveries
    BY <2>1, SameRuns DEF RunsInv, ListenerInv, GoodEvents, GoodDeliveries, Matched
  <2>3. delivered' \in Seq(GoodDeliveries)
    BY <2>1, <2>2 DEF QueuesInv
  <2>. QED
    BY <2>1, <2>3, SameRuns DEF RunsInv, ListenerInv, QueuesInv, Matched
<1>16. CASE RemoveTask
    BY <1>16, CallbackEnds DEF RemoveTask
<1>. QED
    BY <1>1, <1>2, <1>3, <1>4, <1>5, <1>6, <1>7, <1>8, <1>9, <1>10, <1>11, <1>12,
       <1>13, <1>14, <1>15, <1>16
    DEF Next, Caller, Listener

\* ISAR gets an inspection with the mission whose run made it, and the task is
\* one of that mission, for any number of missions, tasks and runs.
THEOREM DeliveriesMatch == Spec => []DeliveredToItsMission
<1>1. HandlerInv => DeliveredToItsMission
  <2> SUFFICES ASSUME HandlerInv, NEW k \in 1..Len(delivered)
               PROVE  /\ delivered[k].run \in accepted
                      /\ delivered[k].mission = runs[delivered[k].run]
                      /\ delivered[k].task[1] = delivered[k].mission
    BY DEF DeliveredToItsMission
  <2>1. delivered[k] \in GoodDeliveries
    BY DEF HandlerInv, QueuesInv
  <2>. QED
    BY <2>1 DEF GoodDeliveries
<1>. QED
    BY <1>1, HandlerInit, HandlerStep, PTL DEF Spec

-----------------------------------------------------------------------------
(* Types.                                                                  *)

RunLimits ==
    /\ Len(runs) <= MaxRuns
    /\ running \in BOOLEAN
    /\ emitted \in [1..MaxRuns -> [Numbers -> 0..MaxEvents]]
    /\ caller.number \in 0..TasksPerMission
    /\ caller.at # "idle" => caller.number # 0
    /\ caller.at = "idle" => caller.run = 0
QueueLimits ==
    /\ inspections_queue \in Seq(Tasks) /\ Len(inspections_queue) <= InspectionsMax
    /\ Len(missions_inspection_queue) <= MissionsMax
LocalLimits ==
    /\ connected \in BOOLEAN
    /\ event \in Events \union {None}
    /\ task \in Tasks \union {None} /\ mission \in Missions \union {None}
    /\ attempt \in 0..(MaxAttempts - 1)
LimitsInv == RunLimits /\ QueueLimits /\ LocalLimits

\* A deque never grows beyond its maximal length.
LEMMA PushedFits ==
    ASSUME NEW S, NEW s \in Seq(S), NEW x \in S, NEW max \in Nat \ {0}, Len(s) <= max
    PROVE  Len(Pushed(s, x, max)) <= max
BY DEF Pushed

\* A set of numbers that is not empty has a least element, which Min chooses.
LEMMA MinIsLeast ==
    ASSUME NEW I \in SUBSET Nat, I # {}
    PROVE  Min(I) \in I /\ \A j \in I : Min(I) <= j
<1>1. PICK x \in I : \A y \in I : ~(<<y, x>> \in OpToRel(<, Nat))
    BY NatLessThanWellFounded, WFMin
<1>2. \A y \in I : ~(y < x)
    BY <1>1 DEF OpToRel
<1>3. \A y \in I : x <= y
    BY <1>2
<1>. QED
    BY <1>3 DEF Min

\* deque.remove takes one entry out, the first of those that are equal, and the
\* others keep their order.
LEMMA RemoveFirstTakesOne ==
    ASSUME NEW S, NEW s \in Seq(S), NEW e, \E i \in 1..Len(s) : s[i] = e
    PROVE  \E p \in 1..Len(s) :
              /\ s[p] = e
              /\ RemoveFirst(s, e) \in Seq(S)
              /\ Len(RemoveFirst(s, e)) = Len(s) - 1
              /\ \A j \in 1..(Len(s) - 1) :
                    RemoveFirst(s, e)[j] = IF j < p THEN s[j] ELSE s[j + 1]
<1> DEFINE I == {i \in 1..Len(s) : s[i] = e}
           p == Min(I)
<1>1. p \in 1..Len(s) /\ s[p] = e
  <2>1. I # {} /\ I \in SUBSET Nat
    OBVIOUS
  <2> HIDE DEF I
  <2>2. p \in I
    BY <2>1, MinIsLeast
  <2>. QED
    BY <2>2 DEF I
<1>2. RemoveFirst(s, e) = SubSeq(s, 1, p - 1) \o SubSeq(s, p + 1, Len(s))
    BY DEF RemoveFirst, RemoveAt, SelectInSeq
<1> HIDE DEF p
<1> DEFINE before == SubSeq(s, 1, p - 1)
           after == SubSeq(s, p + 1, Len(s))
<1>3. /\ before \in Seq(S) /\ Len(before) = p - 1
      /\ \A j \in 1..(p - 1) : before[j] = s[j]
    BY <1>1
<1>4. /\ after \in Seq(S) /\ Len(after) = Len(s) - p
      /\ \A j \in 1..(Len(s) - p) : after[j] = s[p + j]
    BY <1>1
<1> HIDE DEF before, after
<1>5. /\ before \o after \in Seq(S) /\ Len(before \o after) = Len(s) - 1
      /\ \A j \in 1..(Len(s) - 1) :
            (before \o after)[j] = IF j < p THEN before[j] ELSE after[j - (p - 1)]
    BY <1>1, <1>3, <1>4
<1>6. \A j \in 1..(Len(s) - 1) :
          (before \o after)[j] = IF j < p THEN s[j] ELSE s[j + 1]
  <2> SUFFICES ASSUME NEW j \in 1..(Len(s) - 1)
               PROVE  (before \o after)[j] = IF j < p THEN s[j] ELSE s[j + 1]
      OBVIOUS
  <2>1. CASE j < p
      BY <1>1, <1>3, <1>5, <2>1
  <2>2. CASE ~(j < p)
    <3>1. j - (p - 1) \in 1..(Len(s) - p) /\ p + (j - (p - 1)) = j + 1
        BY <1>1, <2>2
    <3>. QED
        BY <1>4, <1>5, <2>2, <3>1
  <2>. QED
      BY <2>1, <2>2
<1>. QED
    BY <1>1, <1>2, <1>5, <1>6 DEF before, after

\* A tuple that is no longer in the deque is a ValueError, and the deque stays.
LEMMA RemoveFirstOfNone ==
    ASSUME NEW s, NEW e, ~ \E i \in 1..Len(s) : s[i] = e
    PROVE  RemoveFirst(s, e) = s
BY DEF RemoveFirst

\* The types hold initially.
LEMMA LimitsInit == Init => LimitsInv
<1> SUFFICES ASSUME Init PROVE LimitsInv
    OBVIOUS
<1>1. running \in BOOLEAN /\ connected \in BOOLEAN
    BY Zenon DEF Init
<1>2. Len(runs) = 0 /\ Len(inspections_queue) = 0 /\ Len(missions_inspection_queue) = 0
    BY DEF Init
<1>3. emitted \in [1..MaxRuns -> [Numbers -> 0..MaxEvents]]
    BY SizesAssumption DEF Init
<1>4. inspections_queue \in Seq(Tasks)
    BY DEF Init
<1>5. caller = [at |-> "idle", run |-> 0, number |-> 0]
    BY DEF Init
<1>. QED
    BY <1>1, <1>2, <1>3, <1>4, <1>5, SizesAssumption DEF Init, LimitsInv, RunLimits, QueueLimits, LocalLimits

\* A step of the listener leaves the robot and initiate_mission alone,
LEMMA ListenerKeepsWorld == Listener => UNCHANGED World
BY DEF Listener, Subscribe, StreamEnds, ReadEvent, FindTask, FindMission, Retrieved,
       RetrievalFails, DataUnusable, ProcessingRaises, Deliver, RemoveTask

\* and the deques too, except that it removes a task whose event it has dealt with.
LEMMA ListenerKeepsQueues ==
    Listener =>
        /\ UNCHANGED missions_inspection_queue
        /\ \/ UNCHANGED inspections_queue
           \/ at = "remove" /\ inspections_queue' = RemoveFirst(inspections_queue, task)
BY DEF Listener, Subscribe, StreamEnds, ReadEvent, FindTask, FindMission, Retrieved,
       RetrievalFails, DataUnusable, ProcessingRaises, Deliver, RemoveTask, queueVars

\* The robot and initiate_mission leave the listener alone, but for the stream.
LEMMA OthersKeepLocals ==
    [Next]_vars /\ ~Listener => UNCHANGED <<at, localVars, delivered>>
BY DEF Next, vars, Caller, InitiateMission, AppendMission, AppendTask, UnknownRunStarts,
       Inspects, RunEnds, StreamBreaks

\* What the listener knows of an event has the right type throughout.
LEMMA LocalStep ==
    ASSUME HandlerInv, HandlerInv', LimitsInv, [Next]_vars
    PROVE  LocalLimits'
<1>1. CASE ~Listener
  <2>1. UNCHANGED <<event, task, mission, attempt>>
    BY <1>1, OthersKeepLocals DEF localVars
  <2>2. connected' = connected \/ connected' = FALSE
    BY <1>1 DEF Next, vars, streamVars, Caller, InitiateMission, AppendMission, AppendTask,
       UnknownRunStarts, Inspects, RunEnds, StreamBreaks
  <2>3. connected' \in BOOLEAN
    BY <2>2, Zenon DEF LimitsInv, LocalLimits
  <2>. QED
    BY <2>1, <2>3 DEF LimitsInv, LocalLimits
<1>2. CASE Listener
  <2>1. connected' = connected \/ connected' = FALSE \/ connected' = TRUE
    BY <1>2 DEF Listener, Subscribe, StreamEnds, ReadEvent, FindTask, FindMission, Retrieved,
       RetrievalFails, DataUnusable, ProcessingRaises, Deliver, RemoveTask, Returns, Raises,
       streamVars
  <2>2. connected' \in BOOLEAN
    BY <2>1, Zenon DEF LimitsInv, LocalLimits
  <2>3. \/ NoEvent
        \/ /\ event' = event \/ at' = "find_task"
           /\ task' = task \/ at' = "find_mission"
           /\ mission' = mission \/ at' = "listing"
           /\ \/ attempt' = attempt \/ attempt' = 0
              \/ attempt + 1 < MaxAttempts /\ attempt' = attempt + 1
    BY <1>2 DEF Listener, Subscribe, StreamEnds, ReadEvent, FindTask, FindMission, Retrieved,
       RetrievalFails, DataUnusable, ProcessingRaises, Deliver, RemoveTask, Returns, Raises,
       localVars
  <2>4. GoodEvents' \subseteq Events
    <3>1. UNCHANGED runs
      BY <1>2, ListenerKeepsWorld DEF World, robotVars
    <3>2. Len(runs) \in Nat /\ Len(runs) <= MaxRuns /\ MaxRuns \in Nat
      BY SizesAssumption DEF HandlerInv, RunsInv, LimitsInv, RunLimits
    <3>. QED
      BY <3>1, <3>2 DEF GoodEvents, Events
  <2>5. at' = "find_task" => event' \in Events
    BY <2>4 DEF HandlerInv, ListenerInv
  <2>6. at' = "find_mission" => task' \in Tasks
    <3>1. at' = "find_mission" => event' \in GoodEvents' /\ task' = event'.asset_id
      BY DEF HandlerInv, ListenerInv
    <3>. QED
      BY <3>1 DEF GoodEvents
  <2>7. at' = "listing" => mission' \in Missions
    <3>1. at' = "listing" => event'.run \in 1..Len(runs') /\ mission' = runs'[event'.run]
      BY DEF HandlerInv, ListenerInv, Matched, RunsInv
    <3>. QED
      BY <3>1 DEF HandlerInv, RunsInv
  <2>8. CASE NoEvent
    BY <2>2, <2>8, SizesAssumption DEF NoEvent, LocalLimits
  <2>9. CASE ~NoEvent
    <3>1. attempt' \in 0..(MaxAttempts - 1)
      BY <2>3, <2>9, SizesAssumption DEF LimitsInv, LocalLimits
    <3>. QED
      BY <2>2, <2>3, <2>5, <2>6, <2>7, <2>9, <3>1 DEF LimitsInv, LocalLimits
  <2>. QED
    BY <2>8, <2>9
<1>. QED
    BY <1>1, <1>2

\* The runs of the robot and the progress of initiate_mission stay within bounds.
LEMMA RunLimitsStep ==
    ASSUME HandlerInv, LimitsInv, [Next]_vars
    PROVE  RunLimits'
<1> USE DEF LimitsInv, HandlerInv
<1>1. ASSUME NEW m \in Missions, Starts(m),
             \/ UNCHANGED caller
             \/ caller' = [at |-> "mission", run |-> Len(runs'), number |-> 1]
      PROVE  RunLimits'
  <2>1. Len(runs') = Len(runs) + 1 /\ Len(runs) \in Nat /\ Len(runs) < MaxRuns
    BY <1>1 DEF Starts, RunsInv
  <2>2. Len(runs') <= MaxRuns
    BY <2>1, SizesAssumption
  <2>3. running' \in BOOLEAN
    BY <1>1, Zenon DEF Starts
  <2>. QED
    BY <1>1, <2>2, <2>3, SizesAssumption DEF Starts, RunLimits
<1>2. CASE AppendMission
    BY <1>2 DEF AppendMission, robotVars, RunLimits, RunsInv
<1>3. CASE AppendTask
  <2>1. /\ UNCHANGED <<runs, running, emitted>>
        /\ caller.at = "tasks"
        /\ caller' = IF caller.number < TasksPerMission
                     THEN [caller EXCEPT !.number = caller.number + 1]
                     ELSE [at |-> "idle", run |-> 0, number |-> 0]
    BY <1>3 DEF AppendTask, robotVars
  <2>2. caller \in [at : {"idle", "mission", "tasks"}, run : Nat, number : Nat]
    BY DEF RunsInv
  <2>. QED
    BY <2>1, <2>2, SizesAssumption DEF RunLimits
<1>4. ASSUME NEW i \in Numbers, Inspects(i)
      PROVE  RunLimits'
  <2> DEFINE r == Len(runs)
  <2>1. r \in 1..MaxRuns
    BY <1>4, SizesAssumption DEF Inspects, RunsInv, RunLimits
  <2>2. emitted[r][i] \in 0..MaxEvents /\ emitted[r][i] < MaxEvents
    BY <1>4, <2>1 DEF Inspects, RunLimits
  <2>3. /\ emitted' = [emitted EXCEPT ![r][i] = emitted[r][i] + 1]
        /\ UNCHANGED <<runs, running, caller>>
    BY <1>4 DEF Inspects
  <2>4. emitted' \in [1..MaxRuns -> [Numbers -> 0..MaxEvents]]
    <3>1. [emitted[r] EXCEPT ![i] = emitted[r][i] + 1] \in [Numbers -> 0..MaxEvents]
      BY <2>1, <2>2, SizesAssumption DEF RunLimits
    <3> HIDE DEF r
    <3>. QED
      BY <2>1, <2>3, <3>1 DEF RunLimits
  <2>. QED
    BY <2>3, <2>4 DEF RunLimits
<1>5. CASE RunEnds
  <2>1. running' \in BOOLEAN /\ UNCHANGED <<runs, emitted, caller>>
    BY <1>5, Zenon DEF RunEnds
  <2>. QED
    BY <2>1 DEF RunLimits
<1>6. CASE StreamBreaks \/ Listener \/ UNCHANGED vars
  <2>1. UNCHANGED <<runs, running, emitted, caller>>
    BY <1>6, ListenerKeepsWorld DEF StreamBreaks, World, robotVars, vars
  <2>. QED
    BY <2>1 DEF RunLimits
<1>. QED
    BY <1>1, <1>2, <1>3, <1>4, <1>5, <1>6 DEF Next, Caller, InitiateMission, UnknownRunStarts

\* The deques hold their maximal length at most.
LEMMA QueueLimitsStep ==
    ASSUME HandlerInv, LimitsInv, [Next]_vars
    PROVE  QueueLimits'
<1> USE DEF LimitsInv, HandlerInv
<1>1. CASE AppendMission
  <2>1. [run |-> caller.run, mission |-> runs[caller.run]] \in GoodEntries
    BY <1>1 DEF AppendMission, RunsInv, GoodEntries
  <2>2. Len(missions_inspection_queue') <= MissionsMax
    BY <1>1, <2>1, PushedFits, SizesAssumption DEF AppendMission, QueuesInv, QueueLimits
  <2>. QED
    BY <1>1, <2>2 DEF AppendMission, QueueLimits
<1>2. CASE AppendTask
  <2>1. <<runs[caller.run], caller.number>> \in Tasks
    BY <1>2 DEF AppendTask, RunsInv, RunLimits, Tasks, Numbers
  <2>2. /\ inspections_queue' \in Seq(Tasks)
        /\ Len(inspections_queue') <= InspectionsMax
    BY <1>2, <2>1, PushedIsSeq, PushedFits, SizesAssumption DEF AppendTask, QueueLimits
  <2>. QED
    BY <1>2, <2>2 DEF AppendTask, QueueLimits
<1>3. CASE inspections_queue' = RemoveFirst(inspections_queue, task)
           /\ UNCHANGED missions_inspection_queue
  <2>1. CASE \E i \in 1..Len(inspections_queue) : inspections_queue[i] = task
    <3>1. /\ inspections_queue' \in Seq(Tasks)
          /\ Len(inspections_queue') = Len(inspections_queue) - 1
      BY <1>3, <2>1, RemoveFirstTakesOne DEF QueueLimits
    <3>. QED
      BY <1>3, <3>1, SizesAssumption DEF QueueLimits
  <2>2. CASE ~ \E i \in 1..Len(inspections_queue) : inspections_queue[i] = task
    BY <1>3, <2>2, RemoveFirstOfNone DEF QueueLimits
  <2>. QED
    BY <2>1, <2>2
<1>4. CASE UNCHANGED queueVars
    BY <1>4 DEF queueVars, QueueLimits
<1>. QED
    BY <1>1, <1>2, <1>3, <1>4, ListenerKeepsQueues
    DEF Next, vars, queueVars, Caller, InitiateMission, UnknownRunStarts, Inspects, RunEnds,
        StreamBreaks

\* Every step keeps to the types.
LEMMA LimitsStep == HandlerInv /\ LimitsInv /\ [Next]_vars => LimitsInv'
BY HandlerStep, LocalStep, RunLimitsStep, QueueLimitsStep DEF LimitsInv

\* Every variable has its type: the deques stay within their maximal lengths, and
\* an event is never given up before its last attempt nor tried after it.
THEOREM InspectionTypeCorrect == Spec => []TypeOK
<1>1. HandlerInv /\ LimitsInv => TypeOK
  <2> SUFFICES ASSUME HandlerInv, LimitsInv PROVE TypeOK
    OBVIOUS
  <2>1. /\ runs \in Seq(Missions) /\ Len(runs) \in Nat /\ Len(runs) <= MaxRuns
        /\ 1..Len(runs) \subseteq 1..MaxRuns /\ accepted \subseteq 1..MaxRuns
    BY SizesAssumption DEF HandlerInv, RunsInv, LimitsInv, RunLimits
  <2>2. GoodEvents \subseteq Events
    BY <2>1 DEF GoodEvents, Events
  <2>3. GoodEntries \subseteq [run : 1..MaxRuns, mission : Missions]
    BY <2>1 DEF GoodEntries
  <2>4. GoodDeliveries \subseteq [run : 1..MaxRuns, task : Tasks, mission : Missions]
    BY <2>1 DEF GoodDeliveries
  <2>5. /\ stream \in Seq(Events)
        /\ missions_inspection_queue \in Seq([run : 1..MaxRuns, mission : Missions])
        /\ delivered \in Seq([run : 1..MaxRuns, task : Tasks, mission : Missions])
    BY <2>2, <2>3, <2>4, SeqOfMore DEF HandlerInv, QueuesInv
  <2>6. caller \in [at : {"idle", "mission", "tasks"}, run : 0..MaxRuns,
                    number : 0..TasksPerMission]
    <3>1. caller \in [at : {"idle", "mission", "tasks"}, run : Nat, number : Nat]
      BY DEF HandlerInv, RunsInv
    <3>2. caller.run \in 0..MaxRuns
      BY <2>1, SizesAssumption DEF HandlerInv, RunsInv, LimitsInv, RunLimits
    <3>3. caller.number \in 0..TasksPerMission
      BY DEF LimitsInv, RunLimits
    <3>. QED
      BY <3>1, <3>2, <3>3
  <2>. QED
    BY <2>1, <2>5, <2>6
    DEF TypeOK, HandlerInv, ListenerInv, Matched, LimitsInv, RunLimits, QueueLimits, LocalLimits
<1>. QED
    BY <1>1, HandlerInit, HandlerStep, LimitsInit, LimitsStep, PTL DEF Spec

-----------------------------------------------------------------------------
(* Tasks remain pending.                                                   *)

\* The run initiate_mission has queued last, or is queueing, and the number of
\* the task of it that comes next.
Latest(r) == r \in accepted /\ \A s \in accepted : s <= r
NextNumber == IF caller.at = "idle" THEN TasksPerMission + 1 ELSE caller.number

\* The inspection of a task has been handed to ISAR.
Done(t) == \E k \in 1..Len(delivered) : delivered[k].task = t

\* Each mission is accepted once, and the run being queued is the latest.
AcceptedInv ==
    /\ accepted # {} => \E r \in accepted : Latest(r)
    /\ caller.at # "idle" => Latest(caller.run)
    /\ caller.at = "mission" => caller.number = 1
    /\ \A r, s \in accepted : runs[r] = runs[s] => r = s

\* What counts is how far the tasks of the latest mission are from the end of the
\* deque: behind the one with number i there are at most as many entries as tasks
\* were queued after it, so that they all fit and the oldest entry of a full
\* deque is of an earlier mission.
PendingInv ==
    /\ \A a \in 1..Len(inspections_queue) :
          \E r \in accepted : runs[r] = inspections_queue[a][1]
    /\ \A r \in accepted : Latest(r) =>
          /\ \A a \in 1..Len(inspections_queue) :
                inspections_queue[a][1] = runs[r] =>
                    Len(inspections_queue) - a + inspections_queue[a][2] < NextNumber
          /\ \A i \in Numbers : i < NextNumber =>
                \/ \E a \in 1..Len(inspections_queue) : inspections_queue[a] = <<runs[r], i>>
                \/ Done(<<runs[r], i>>)
    /\ at = "remove" => Done(task)
TaskInv == AcceptedInv /\ PendingInv

\* Nothing is pending before the first mission.
LEMMA TaskInit == Init => TaskInv
BY DEF Init, TaskInv, AcceptedInv, PendingInv, Latest

\* What was handed to ISAR stays handed over.
LEMMA DoneForever ==
    ASSUME HandlerInv, [Next]_vars, NEW t, Done(t)
    PROVE  Done(t)'
<1>1. CASE UNCHANGED delivered
    BY <1>1 DEF Done
<1>2. CASE Deliver
  <2>1. PICK k \in 1..Len(delivered) : delivered[k].task = t
    BY DEF Done
  <2>2. delivered' = Append(delivered, [run |-> event.run, task |-> task, mission |-> mission])
    BY <1>2 DEF Deliver
  <2>3. k \in 1..Len(delivered') /\ delivered'[k] = delivered[k]
    BY <2>2 DEF HandlerInv, QueuesInv
  <2>. QED
    BY <2>1, <2>3 DEF Done
<1>. QED
    BY <1>1, <1>2, OthersKeepLocals
    DEF Listener, Subscribe, StreamEnds, ReadEvent, FindTask, FindMission, Retrieved,
        RetrievalFails, DataUnusable, ProcessingRaises, RemoveTask

\* The listener gets to the removal of a task only over its delivery.
LEMMA RemovesWhatIsDone ==
    ASSUME HandlerInv, PendingInv, [Next]_vars, at' = "remove"
    PROVE  Done(task)'
<1>1. CASE Deliver
  <2> DEFINE d == [run |-> event.run, task |-> task, mission |-> mission]
  <2>1. delivered' = Append(delivered, d) /\ task' = task
    BY <1>1 DEF Deliver
  <2>2. Len(delivered') \in 1..Len(delivered') /\ delivered'[Len(delivered')] = d
    BY <2>1 DEF HandlerInv, QueuesInv
  <2>. QED
    BY <2>1, <2>2 DEF Done
<1>2. CASE ~Deliver
  <2>1. at = "remove" /\ UNCHANGED task
    BY <1>2, OthersKeepLocals
    DEF Listener, Subscribe, StreamEnds, ReadEvent, FindTask, FindMission, Retrieved,
        RetrievalFails, DataUnusable, ProcessingRaises, RemoveTask, Returns, Raises, localVars
  <2>2. Done(task)
    BY <2>1 DEF PendingInv
  <2>3. Done(task)'
    <3> DEFINE t == task
    <3>1. Done(t) /\ t = task'
      BY <2>1, <2>2
    <3> HIDE DEF t
    <3>2. PICK k \in 1..Len(delivered') : delivered'[k].task = t
      BY <3>1, DoneForever DEF Done
    <3>. QED
      BY <3>1, <3>2 DEF Done
  <2>. QED
    BY <2>3
<1>. QED
    BY <1>1, <1>2

\* A run that ISAR does not learn of changes nothing for those it knows.
LEMMA KnownRuns ==
    ASSUME HandlerInv, UNCHANGED accepted,
           UNCHANGED runs \/ \E m \in Missions : Starts(m)
    PROVE  \A r \in accepted : runs'[r] = runs[r]
BY DEF HandlerInv, RunsInv, Starts

\* Which runs are accepted, and which is the latest.
LEMMA AcceptedStep ==
    ASSUME HandlerInv, TaskInv, [Next]_vars
    PROVE  AcceptedInv'
<1> USE DEF TaskInv
<1>1. ASSUME NEW m \in Missions, InitiateMission(m)
      PROVE  AcceptedInv'
  <2> DEFINE new == Len(runs')
  <2>1. /\ runs' = Append(runs, m) /\ new = Len(runs) + 1 /\ Len(runs) \in Nat
        /\ \A r \in 1..Len(runs) : runs'[r] = runs[r]
        /\ runs'[new] = m
    BY <1>1 DEF InitiateMission, Starts, HandlerInv, RunsInv
  <2>2. /\ accepted' = accepted \union {new} /\ accepted \subseteq 1..Len(runs)
        /\ caller' = [at |-> "mission", run |-> new, number |-> 1]
        /\ \A r \in accepted : runs[r] # m
    BY <1>1 DEF InitiateMission, HandlerInv, RunsInv
  <2> HIDE DEF new
  <2>3. new \in accepted' /\ \A s \in accepted' : s <= new
    BY <2>1, <2>2
  <2>4. \A r, s \in accepted' : runs'[r] = runs'[s] => r = s
    BY <2>1, <2>2 DEF AcceptedInv
  <2>. QED
    BY <2>2, <2>3, <2>4 DEF AcceptedInv, Latest
<1>2. CASE ~ \E m \in Missions : InitiateMission(m)
  <2>1. /\ UNCHANGED accepted
        /\ \/ UNCHANGED caller
           \/ caller.at # "idle" /\ caller' = [caller EXCEPT !.at = "tasks"]
           \/ /\ caller.at = "tasks"
              /\ caller' = [caller EXCEPT !.number = caller.number + 1]
           \/ caller' = [at |-> "idle", run |-> 0, number |-> 0]
        /\ UNCHANGED runs \/ \E m \in Missions : Starts(m)
    BY <1>2, ListenerKeepsWorld
    DEF Next, vars, robotVars, World, Caller, AppendMission, AppendTask, UnknownRunStarts,
        Inspects, RunEnds, StreamBreaks
  <2>2. caller \in [at : {"idle", "mission", "tasks"}, run : Nat, number : Nat]
    BY DEF HandlerInv, RunsInv
  <2>3. /\ caller'.at # "idle" => caller.at # "idle" /\ caller'.run = caller.run
        /\ caller'.at = "mission" => caller.at = "mission" /\ caller'.number = caller.number
    BY <2>1, <2>2
  <2>4. \A r : Latest(r)' <=> Latest(r)
    BY <2>1 DEF Latest
  <2>5. \A r, s \in accepted' : runs'[r] = runs'[s] => r = s
    BY <2>1, KnownRuns DEF AcceptedInv
  <2>. QED
    BY <2>1, <2>3, <2>4, <2>5 DEF AcceptedInv, Latest
<1>. QED
    BY <1>1, <1>2

\* A new mission: none of its tasks is in the deque yet, and none is due.
LEMMA PendingInitiate ==
    ASSUME HandlerInv, LimitsInv, TaskInv, NEW m \in Missions, InitiateMission(m)
    PROVE  PendingInv'
<1> DEFINE new == Len(runs')
           queue == inspections_queue
<1>1. /\ new = Len(runs) + 1 /\ Len(runs) \in Nat
      /\ \A r \in 1..Len(runs) : runs'[r] = runs[r]
      /\ runs'[new] = m
    BY DEF InitiateMission, Starts, HandlerInv, RunsInv
<1>2. /\ accepted' = accepted \union {new} /\ accepted \subseteq 1..Len(runs)
      /\ caller' = [at |-> "mission", run |-> new, number |-> 1]
      /\ \A r \in accepted : runs[r] # m
      /\ UNCHANGED <<inspections_queue, at, task, delivered>>
    BY DEF InitiateMission, HandlerInv, RunsInv, queueVars, localVars
<1> HIDE DEF new
<1>3. NextNumber' = 1
    BY <1>2 DEF NextNumber
<1>4. \A r \in accepted' : Latest(r)' => r = new
    BY <1>1, <1>2 DEF Latest
<1>5. \A a \in 1..Len(queue) : \E r \in accepted : runs[r] = queue[a][1]
    BY DEF TaskInv, PendingInv
<1>6. \A a \in 1..Len(queue) : \E r \in accepted : runs'[r] = queue[a][1] /\ runs[r] # m
    BY <1>1, <1>2, <1>5
<1>7. at = "remove" => Done(task)
    BY DEF TaskInv, PendingInv
<1>8. at' = "remove" => Done(task)'
    BY <1>2, <1>7 DEF Done
<1>9. \A a \in 1..Len(queue) : queue[a][1] # runs'[new]
  <2> SUFFICES ASSUME NEW a \in 1..Len(queue) PROVE queue[a][1] # m
      BY <1>1
  <2>. QED
      BY <1>2, <1>5
<1>10. \A i \in Numbers : ~(i < 1)
    BY DEF Numbers
<1>. QED
    BY <1>2, <1>3, <1>4, <1>6, <1>8, <1>9, <1>10 DEF PendingInv

\* A task is queued: the oldest entry that makes room for it is not of its mission.
LEMMA PendingAppend ==
    ASSUME HandlerInv, LimitsInv, TaskInv, AppendTask
    PROVE  PendingInv'
<1> DEFINE queue == inspections_queue
           now == caller.run
           number == caller.number
           t == <<runs[now], number>>
           shift == IF Len(queue) = InspectionsMax THEN 1 ELSE 0
<1>1. /\ Latest(now) /\ now \in accepted /\ NextNumber = number
      /\ number \in 1..TasksPerMission /\ TasksPerMission \in Nat
    BY SizesAssumption
    DEF AppendTask, TaskInv, AcceptedInv, Latest, NextNumber, LimitsInv, RunLimits
<1>2. queue \in Seq(Tasks) /\ Len(queue) \in Nat /\ Len(queue) <= InspectionsMax
    BY DEF LimitsInv, QueueLimits
<1>3. t \in Tasks
    BY <1>1 DEF HandlerInv, RunsInv, Tasks, Numbers
<1>4. /\ inspections_queue' = Append(IF Len(queue) = InspectionsMax THEN Tail(queue) ELSE queue, t)
      /\ UNCHANGED <<runs, accepted, at, task, delivered>>
    BY DEF AppendTask, Pushed, robotVars, localVars
<1>5. NextNumber' = number + 1
  <2>1. CASE number < TasksPerMission
    BY <2>1 DEF AppendTask, NextNumber, HandlerInv, RunsInv
  <2>2. CASE ~(number < TasksPerMission)
    BY <1>1, <2>2 DEF AppendTask, NextNumber
  <2>. QED
    BY <2>1, <2>2
<1> HIDE DEF t, queue, number
<1>6. /\ Len(inspections_queue') = Len(queue) - shift + 1
      /\ shift \in {0, 1} /\ shift <= Len(queue)
      /\ inspections_queue'[Len(inspections_queue')] = t
      /\ \A a \in 1..(Len(queue) - shift) : inspections_queue'[a] = queue[a + shift]
  <2>1. CASE Len(queue) = InspectionsMax
    <3>1. queue # <<>> /\ shift = 1
      BY <2>1, <1>2, SizesAssumption
    <3>2. /\ Tail(queue) \in Seq(Tasks) /\ Len(Tail(queue)) = Len(queue) - 1
          /\ \A a \in 1..(Len(queue) - 1) : Tail(queue)[a] = queue[a + 1]
      BY <1>2, <3>1
    <3>3. Len(queue) \in Nat /\ Len(queue) >= 1
      BY <1>2, <3>1
    <3>. QED
      BY <2>1, <1>3, <1>4, <3>1, <3>2, <3>3
  <2>2. CASE Len(queue) # InspectionsMax
    BY <2>2, <1>2, <1>3, <1>4
  <2>. QED
    BY <2>1, <2>2
<1>7. \A a \in 1..Len(queue) : queue[a] \in Tasks /\ queue[a][2] \in Numbers
    BY <1>2 DEF Tasks
<1>8. \A a \in 1..Len(queue) : queue[a][1] = runs[now] => Len(queue) - a + queue[a][2] < number
    BY <1>1 DEF TaskInv, PendingInv, queue
<1>9. \A r \in accepted : Latest(r) => r = now
    BY <1>1 DEF Latest, HandlerInv, RunsInv
<1>10. shift = 1 => queue[1][1] # runs[now]
  <2> SUFFICES ASSUME shift = 1, queue[1][1] = runs[now] PROVE FALSE
      OBVIOUS
  <2>1. Len(queue) = InspectionsMax /\ 1 \in 1..Len(queue)
      BY <1>2, SizesAssumption
  <2>2. queue[1][2] \in Nat /\ queue[1][2] >= 1
      BY <1>7, <2>1, SizesAssumption DEF Numbers
  <2>3. Len(queue) - 1 + queue[1][2] < number
      BY <1>8, <2>1
  <2>. QED
      BY <1>1, <1>2, <2>1, <2>2, <2>3, SizesAssumption
<1> HIDE DEF shift
<1>11. ASSUME NEW b \in 1..Len(inspections_queue')
       PROVE  /\ \E r \in accepted : runs[r] = inspections_queue'[b][1]
              /\ inspections_queue'[b][1] = runs[now] =>
                    Len(inspections_queue') - b + inspections_queue'[b][2] < number + 1
  <2>1. CASE b = Len(inspections_queue')
    <3>1. inspections_queue'[b] = t /\ t[1] = runs[now] /\ t[2] = number
      BY <1>6, <2>1 DEF t, number
    <3>. QED
      BY <1>1, <1>2, <1>6, <2>1, <3>1
  <2>2. CASE b # Len(inspections_queue')
    <3>1. /\ b \in 1..(Len(queue) - shift) /\ b + shift \in 1..Len(queue)
          /\ inspections_queue'[b] = queue[b + shift]
      BY <1>2, <1>6, <2>2
    <3>2. \E r \in accepted : runs[r] = queue[b + shift][1]
      BY <3>1 DEF TaskInv, PendingInv, queue
    <3>3. queue[b + shift][1] = runs[now] =>
              Len(queue) - (b + shift) + queue[b + shift][2] < number
      BY <1>8, <3>1
    <3>4. queue[b + shift][2] \in Nat
      BY <1>7, <3>1 DEF Numbers
    <3>5. /\ Len(inspections_queue') = Len(queue) - shift + 1
          /\ shift \in 0..1 /\ b \in Nat /\ Len(queue) \in Nat /\ number \in Nat
      BY <1>1, <1>2, <1>6, <3>1
    <3>6. Len(inspections_queue') - b + inspections_queue'[b][2]
             = Len(queue) - (b + shift) + queue[b + shift][2] + 1
      BY <3>1, <3>4, <3>5
    <3>7. inspections_queue'[b][1] = runs[now] =>
              Len(inspections_queue') - b + inspections_queue'[b][2] < number + 1
      BY <3>1, <3>3, <3>4, <3>5, <3>6
    <3>. QED
      BY <3>1, <3>2, <3>7
  <2>. QED
    BY <2>1, <2>2
<1>12. ASSUME NEW i \in Numbers, i < number + 1
       PROVE  \/ \E b \in 1..Len(inspections_queue') : inspections_queue'[b] = <<runs[now], i>>
              \/ Done(<<runs[now], i>>)
  <2>1. CASE i = number
    <3>1. /\ Len(inspections_queue') \in 1..Len(inspections_queue')
          /\ inspections_queue'[Len(inspections_queue')] = <<runs[now], i>>
      BY <1>2, <1>6, <2>1 DEF t, number
    <3>. QED
      BY <3>1
  <2>2. CASE i # number
    <3>1. i < number
      BY <1>1, <1>12, <2>2 DEF Numbers
    <3>2. \/ \E a \in 1..Len(queue) : queue[a] = <<runs[now], i>>
          \/ Done(<<runs[now], i>>)
      BY <1>1, <3>1 DEF TaskInv, PendingInv, queue
    <3>3. ASSUME NEW a \in 1..Len(queue), queue[a] = <<runs[now], i>>
          PROVE  \E b \in 1..Len(inspections_queue') : inspections_queue'[b] = <<runs[now], i>>
      <4>1. a - shift \in 1..(Len(queue) - shift)
        <5>1. CASE shift = 0
          BY <5>1
        <5>2. CASE shift = 1
          BY <1>2, <1>10, <3>3, <5>2
        <5>. QED
          BY <1>6, <5>1, <5>2
      <4>2. (a - shift) + shift = a /\ a - shift \in 1..Len(inspections_queue')
        BY <1>2, <1>6, <4>1
      <4>3. inspections_queue'[a - shift] = queue[a]
        BY <1>6, <4>1, <4>2
      <4>. QED
        BY <3>3, <4>2, <4>3
    <3>. QED
      BY <3>2, <3>3
  <2>. QED
    BY <2>1, <2>2
<1>13. at' = "remove" => Done(task)'
    BY <1>4 DEF TaskInv, PendingInv, Done
<1>14. \A x : Done(x)' <=> Done(x)
    BY <1>4 DEF Done
<1>15. \A r : Latest(r)' <=> Latest(r)
    BY <1>4 DEF Latest
<1>. QED
    BY <1>4, <1>5, <1>9, <1>11, <1>12, <1>13, <1>14, <1>15 DEF PendingInv

\* An entry is taken out of the deque: the task is done, and the others only move
\* closer to the end.
LEMMA PendingRemove ==
    ASSUME HandlerInv, LimitsInv, TaskInv, RemoveTask
    PROVE  PendingInv'
<1> DEFINE queue == inspections_queue
           t == task
<1>1. /\ UNCHANGED <<runs, accepted, caller, delivered>> /\ at' # "remove"
      /\ inspections_queue' = queue \/ inspections_queue' = RemoveFirst(queue, t)
    BY DEF RemoveTask, Returns, Raises, World, robotVars
<1>2. queue \in Seq(Tasks) /\ Len(queue) \in Nat
    BY DEF LimitsInv, QueueLimits
<1>3. Done(t)
    BY DEF RemoveTask, TaskInv, PendingInv
<1>4. /\ NextNumber' = NextNumber
      /\ \A r : Latest(r)' <=> Latest(r)
      /\ \A x : Done(x)' <=> Done(x)
    BY <1>1 DEF NextNumber, Latest, Done
<1> HIDE DEF t
<1>5. CASE inspections_queue' = queue
    BY <1>1, <1>4, <1>5 DEF TaskInv, PendingInv
<1>6. CASE inspections_queue' = RemoveFirst(queue, t) /\ inspections_queue' # queue
  <2>1. PICK p \in 1..Len(queue) :
            /\ queue[p] = t
            /\ Len(inspections_queue') = Len(queue) - 1
            /\ \A j \in 1..(Len(queue) - 1) :
                  inspections_queue'[j] = IF j < p THEN queue[j] ELSE queue[j + 1]
    <3>1. \E i \in 1..Len(queue) : queue[i] = t
      BY <1>6, RemoveFirstOfNone
    <3> HIDE DEF queue
    <3>2. \E p \in 1..Len(queue) :
              /\ queue[p] = t
              /\ Len(RemoveFirst(queue, t)) = Len(queue) - 1
              /\ \A j \in 1..(Len(queue) - 1) :
                    RemoveFirst(queue, t)[j] = IF j < p THEN queue[j] ELSE queue[j + 1]
      BY <1>2, <3>1, RemoveFirstTakesOne
    <3>. QED
      BY <1>6, <3>2
  <2> DEFINE from(j) == IF j < p THEN j ELSE j + 1
  <2>2. \A j \in 1..Len(inspections_queue') :
            /\ from(j) \in 1..Len(queue) /\ inspections_queue'[j] = queue[from(j)]
            /\ Len(inspections_queue') - j <= Len(queue) - from(j)
    BY <1>2, <2>1
  <2>3. \A a \in 1..Len(queue) : a # p =>
            \E j \in 1..Len(inspections_queue') : inspections_queue'[j] = queue[a]
    <3> SUFFICES ASSUME NEW a \in 1..Len(queue), a # p
                 PROVE  \E j \in 1..Len(inspections_queue') : inspections_queue'[j] = queue[a]
        OBVIOUS
    <3> DEFINE j == IF a < p THEN a ELSE a - 1
    <3>1. j \in 1..Len(inspections_queue') /\ from(j) = a
        BY <1>2, <2>1
    <3> HIDE DEF j, from
    <3>. QED
        BY <2>2, <3>1
  <2> HIDE DEF from
  <2>4. ASSUME NEW j \in 1..Len(inspections_queue')
        PROVE  \E r \in accepted : runs[r] = inspections_queue'[j][1]
    BY <2>2 DEF TaskInv, PendingInv
  <2>5. ASSUME NEW r \in accepted, Latest(r), NEW j \in 1..Len(inspections_queue'),
               inspections_queue'[j][1] = runs[r]
        PROVE  Len(inspections_queue') - j + inspections_queue'[j][2] < NextNumber
    <3>1. Len(queue) - from(j) + queue[from(j)][2] < NextNumber
      BY <2>2, <2>5 DEF TaskInv, PendingInv
    <3>2. queue[from(j)] \in Tasks
      BY <1>2, <2>2
    <3>3. queue[from(j)][2] \in Int
      BY <3>2, SizesAssumption DEF Tasks, Numbers
    <3>4. NextNumber \in Int
      BY SizesAssumption DEF NextNumber, HandlerInv, RunsInv
    <3>5. Len(inspections_queue') \in Int
      BY <1>2, <2>1
    <3>6. from(j) \in Int
      BY <2>2
    <3>. QED
      BY <1>2, <2>2, <3>1, <3>3, <3>4, <3>5, <3>6
  <2>6. ASSUME NEW r \in accepted, Latest(r), NEW i \in Numbers, i < NextNumber
        PROVE  \/ \E j \in 1..Len(inspections_queue') : inspections_queue'[j] = <<runs[r], i>>
               \/ Done(<<runs[r], i>>)
    <3>1. \/ \E a \in 1..Len(queue) : queue[a] = <<runs[r], i>>
          \/ Done(<<runs[r], i>>)
      BY <2>6 DEF TaskInv, PendingInv
    <3>2. ASSUME NEW a \in 1..Len(queue), queue[a] = <<runs[r], i>>
          PROVE  \/ \E j \in 1..Len(inspections_queue') : inspections_queue'[j] = <<runs[r], i>>
                 \/ Done(<<runs[r], i>>)
      <4>1. CASE a = p
        BY <1>3, <2>1, <3>2, <4>1
      <4>2. CASE a # p
        BY <2>3, <3>2, <4>2
      <4>. QED
        BY <4>1, <4>2
    <3>. QED
      BY <3>1, <3>2
  <2>. QED
    BY <1>1, <1>4, <2>4, <2>5, <2>6 DEF PendingInv
<1>. QED
    BY <1>1, <1>5, <1>6

\* Every other step leaves the deque and the latest mission as they are.
LEMMA PendingOther ==
    ASSUME HandlerInv, LimitsInv, TaskInv, [Next]_vars,
           ~AppendTask, ~RemoveTask, ~ \E m \in Missions : InitiateMission(m)
    PROVE  PendingInv'
<1>1. /\ UNCHANGED <<inspections_queue, accepted>>
      /\ \/ UNCHANGED caller
         \/ caller.at = "mission" /\ caller' = [caller EXCEPT !.at = "tasks"]
      /\ UNCHANGED runs \/ \E m \in Missions : Starts(m)
  <2>1. CASE Listener
    <3>1. UNCHANGED inspections_queue
      BY <2>1
      DEF Listener, Subscribe, StreamEnds, ReadEvent, FindTask, FindMission, Retrieved,
          RetrievalFails, DataUnusable, ProcessingRaises, Deliver, queueVars
    <3>. QED
      BY <2>1, <3>1, ListenerKeepsWorld DEF World, robotVars
  <2>2. CASE ~Listener
    BY <2>2
    DEF Next, vars, robotVars, queueVars, Caller, AppendMission, UnknownRunStarts, Inspects,
        RunEnds, StreamBreaks
  <2>. QED
    BY <2>1, <2>2
<1>2. \A r \in accepted : runs'[r] = runs[r]
    BY <1>1, KnownRuns
<1>3. NextNumber' = NextNumber
    BY <1>1 DEF NextNumber, HandlerInv, RunsInv
<1>4. \A r : Latest(r)' <=> Latest(r)
    BY <1>1 DEF Latest
<1>5. at' = "remove" => Done(task)'
    BY RemovesWhatIsDone DEF TaskInv
<1> DEFINE D(x) == \E k \in 1..Len(delivered') : delivered'[k].task = x
<1>6. \A x : Done(x) => D(x)
    BY DoneForever DEF Done
<1>7. PendingInv
    BY DEF TaskInv
<1>8. \A x : Done(x)' <=> D(x)
    BY DEF Done
<1> HIDE DEF D
<1>9. ASSUME NEW r \in accepted', Latest(r)'
      PROVE  /\ \A a \in 1..Len(inspections_queue) :
                    inspections_queue[a][1] = runs'[r] =>
                        Len(inspections_queue) - a + inspections_queue[a][2] < NextNumber
             /\ \A i \in Numbers : i < NextNumber =>
                    \/ \E a \in 1..Len(inspections_queue) :
                           inspections_queue[a] = <<runs'[r], i>>
                    \/ D(<<runs'[r], i>>)
    BY <1>1, <1>2, <1>4, <1>6, <1>7, <1>9 DEF PendingInv
<1>. QED
    BY <1>1, <1>2, <1>3, <1>5, <1>7, <1>8, <1>9 DEF PendingInv

\* Every step keeps the tasks of the latest mission pending.
LEMMA TaskStep == HandlerInv /\ LimitsInv /\ TaskInv /\ [Next]_vars => TaskInv'
BY AcceptedStep, PendingInitiate, PendingAppend, PendingRemove, PendingOther DEF TaskInv

\* Every task of the mission that was queued last can be matched with an event
\* until its inspection is delivered: whatever the listener, the robot and the
\* earlier missions do, the deques lose none of them.
THEOREM TasksStayPending == Spec => []TasksRemainPending
<1>1. HandlerInv /\ TaskInv => TasksRemainPending
  <2> SUFFICES ASSUME HandlerInv, TaskInv, caller.at = "idle", accepted # {}, NEW i \in Numbers
               PROVE  LET run == CHOOSE r \in accepted : \A s \in accepted : s <= r
                      IN  \/ <<runs[run], i>> \in ToSet(inspections_queue)
                          \/ \E k \in 1..Len(delivered) : delivered[k].task = <<runs[run], i>>
    BY DEF TasksRemainPending
  <2> DEFINE run == CHOOSE r \in accepted : \A s \in accepted : s <= r
  <2>1. run \in accepted /\ Latest(run)
    BY DEF TaskInv, AcceptedInv, Latest
  <2>2. i < NextNumber
    BY SizesAssumption DEF NextNumber, Numbers
  <2> HIDE DEF run
  <2>3. \/ \E a \in 1..Len(inspections_queue) : inspections_queue[a] = <<runs[run], i>>
        \/ Done(<<runs[run], i>>)
    BY <2>1, <2>2 DEF TaskInv, PendingInv
  <2>4. ASSUME NEW a \in 1..Len(inspections_queue)
        PROVE  inspections_queue[a] \in ToSet(inspections_queue)
    BY DEF ToSet
  <2>. QED
    BY <2>3, <2>4 DEF Done, run
<1>. QED
    BY <1>1, HandlerInit, HandlerStep, LimitsInit, LimitsStep, TaskInit, TaskStep, PTL DEF Spec

=============================================================================
