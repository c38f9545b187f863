------------------------- MODULE InspectionHandler -------------------------
(***************************************************************************)
(* How the result of an inspection gets from the robot to ISAR.  ISAR's    *)
(* thread starts a run (Robot.initiate_mission) and then, the run already  *)
(* under way, queues what the run's events will be matched with.  The      *)
(* listener thread of SSEHandler reads the events and passes each one to   *)
(* _process_inspection_event, which looks up the task and the mission,     *)
(* fetches the file, hands the inspection to ISAR and removes the task.    *)
(* The two threads share the deques without a lock.                        *)
(*                                                                         *)
(* The iterator of a deque, and deque.remove, fail when the deque has      *)
(* changed since they began; view is the deque as it was then.  Between    *)
(* beginning and failing the interpreter can switch threads: comparing two *)
(* tasks runs Python code.  An event is the run and the task it is about:  *)
(* asset_id names the task, the same in every run of the mission's plan,   *)
(* and mission_run_id the run.  Delays, media types, poses and the file's  *)
(* contents are left out.                                                  *)
(***************************************************************************)
EXTENDS Naturals, Sequences, SequencesExt

CONSTANTS
    Missions,          \* ISAR missions with inspection tasks
    TasksPerMission,
    None,
    InspectionsMax,    \* maxlen of inspections_queue
    MissionsMax,       \* maxlen of missions_inspection_queue
    MaxAttempts,       \* INSPECTION_RETRIEVAL_MAX_ATTEMPTS
    MaxRuns,           \* bound on the runs of the robot
    MaxEvents          \* bound on the events a run emits about one task

ASSUME SizesAssumption ==
    /\ {TasksPerMission, InspectionsMax, MissionsMax, MaxAttempts} \subseteq Nat \ {0}
    /\ TasksPerMission <= InspectionsMax
    /\ MaxRuns \in Nat /\ MaxEvents \in Nat
ASSUME NoneAssumption == None \notin Missions

VARIABLES
    runs,        \* the mission of every run of the robot, in order
    running,     \* the last run is under way
    emitted,     \* per run and task number, the events emitted
    stream,      \* what the server has sent and the listener has not read
    connected,   \* the server side of the stream
    caller,      \* where initiate_mission is, and for which run
    inspections_queue, missions_inspection_queue,
    at, event, view, task, mission, attempt,    \* the listener's locals
    accepted,    \* history: the runs initiate_mission has queued, done or not
    delivered    \* history: what final_callback was called with

robotVars == <<runs, running, emitted>>
streamVars == <<stream, connected>>
queueVars == <<inspections_queue, missions_inspection_queue>>
localVars == <<event, view, task, mission, attempt>>
vars == <<robotVars, streamVars, caller, queueVars, at, localVars, accepted, delivered>>

Numbers == 1..TasksPerMission
Tasks == Missions \X Numbers
Events == [run : 1..MaxRuns, asset_id : Tasks]

\* Mutant: the limit of the deque is checked one entry too late.
Pushed_OneTooMany(queue, x, max) ==
    Append(IF Len(queue) > max THEN Tail(queue) ELSE queue, x)

\* deque(maxlen = max).append(x): a full deque loses its oldest element.
Pushed(queue, x, max) ==
    Append(IF Len(queue) = max THEN Tail(queue) ELSE queue, x)

Init ==
    /\ runs = <<>> /\ running = FALSE
    /\ emitted = [r \in 1..MaxRuns |-> [i \in Numbers |-> 0]]
    /\ stream = <<>> /\ connected = FALSE
    /\ caller = [at |-> "idle", run |-> 0, number |-> 0]
    /\ inspections_queue = <<>> /\ missions_inspection_queue = <<>>
    /\ at = "down"
    /\ event = None /\ view = <<>> /\ task = None /\ mission = None /\ attempt = 0
    /\ accepted = {} /\ delivered = <<>>

-----------------------------------------------------------------------------
(* The robot, as far as the handler sees it.                               *)

Starts(m) ==
    /\ ~running /\ Len(runs) < MaxRuns
    /\ runs' = Append(runs, m) /\ running' = TRUE
    /\ UNCHANGED emitted

\* A run that initiate_mission does not learn of: the answer to its start was
\* lost, or an operator has started the plan from the robot's own interface.
UnknownRunStarts(m) ==
    /\ Starts(m)
    /\ UNCHANGED <<streamVars, caller, queueVars, at, localVars, accepted, delivered>>

\* The run inspects a task; the event is lost on a stream that is down.
Inspects(i) ==
    LET run == Len(runs)
    IN  /\ running /\ emitted[run][i] < MaxEvents
        /\ emitted' = [emitted EXCEPT ![run][i] = @ + 1]
        /\ stream' = IF connected
                     THEN Append(stream, [run |-> run, asset_id |-> <<runs[run], i>>])
                     ELSE stream
        /\ UNCHANGED <<runs, running, connected, caller, queueVars, at, localVars,
                       accepted, delivered>>

RunEnds ==
    /\ running /\ running' = FALSE
    /\ UNCHANGED <<runs, emitted, streamVars, caller, queueVars, at, localVars,
                   accepted, delivered>>

\* The connection breaks, with or without what was still on its way.
StreamBreaks ==
    /\ connected /\ connected' = FALSE
    /\ stream' \in {stream, <<>>}
    /\ UNCHANGED <<robotVars, caller, queueVars, at, localVars, accepted, delivered>>

-----------------------------------------------------------------------------
(* initiate_mission, from the start of the run to the end of the queueing. *)

InitiateMission(m) ==
    /\ caller.at = "idle" /\ \A r \in accepted : runs[r] # m
    /\ Starts(m)
    /\ caller' = [at |-> "mission", run |-> Len(runs'), number |-> 1]
    /\ accepted' = accepted \union {Len(runs')}
    /\ UNCHANGED <<streamVars, queueVars, at, localVars, delivered>>

AppendMission ==
    /\ caller.at = "mission"
    /\ missions_inspection_queue' =
           Pushed(missions_inspection_queue,
                  [run |-> caller.run, mission |-> runs[caller.run]], MissionsMax)
    /\ caller' = [caller EXCEPT !.at = "tasks"]
    /\ UNCHANGED <<robotVars, streamVars, inspections_queue, at, localVars,
                   accepted, delivered>>

\* The tasks of a mission have ids of their own, so that each has exactly one
\* point of interest in the plan and the code's way round the append, for any
\* other number, is not taken.
AppendTask ==
    /\ caller.at = "tasks"
    /\ inspections_queue' =
           Pushed(inspections_queue, <<runs[caller.run], caller.number>>, InspectionsMax)
    /\ caller' = IF caller.number < TasksPerMission
                 THEN [caller EXCEPT !.number = @ + 1]
                 ELSE [at |-> "idle", run |-> 0, number |-> 0]
    /\ UNCHANGED <<robotVars, streamVars, missions_inspection_queue, at, localVars,
                   accepted, delivered>>

-----------------------------------------------------------------------------
(* The listener: subscribe_to_sse and the event it is processing.          *)

World == <<robotVars, caller, accepted>>     \* what no listener step changes
NoEvent == event' = None /\ view' = <<>> /\ task' = None /\ mission' = None /\ attempt' = 0

\* The event has been dealt with, delivered or not, and the next one is read.
Returns == at' = "reading" /\ NoEvent /\ UNCHANGED streamVars

\* Mutant: an exception that nobody foresaw ends the thread.
Raises_EndsThread == at' = "ended" /\ NoEvent /\ connected' = FALSE /\ stream' = <<>>

\* An exception leaves the callback: the response is closed, and what it still
\* held is gone.
Raises == at' = "down" /\ NoEvent /\ connected' = FALSE /\ stream' = <<>>

Subscribe ==
    /\ at = "down" /\ at' = "reading"
    /\ connected' = TRUE /\ stream' = <<>>
    /\ UNCHANGED <<World, queueVars, localVars, delivered>>

StreamEnds ==
    /\ at = "reading" /\ stream = <<>> /\ ~connected
    /\ Raises
    /\ UNCHANGED <<World, queueVars, delivered>>

\* A line that is no event, an ambient gas sample and an event without a pose
\* are skipped; for any other event the search for its task begins.
ReadEvent ==
    /\ at = "reading" /\ stream # <<>>
    /\ stream' = Tail(stream)
    /\ \/ /\ at' = "find_task" /\ event' = Head(stream) /\ view' = inspections_queue
          /\ UNCHANGED <<task, mission, attempt>>
       \/ UNCHANGED <<at, localVars>>
    /\ UNCHANGED <<World, connected, queueVars, delivered>>

FindTask ==
    /\ at = "find_task"
    /\ \/ view # inspections_queue /\ Raises
       \/ view = inspections_queue /\ event.asset_id \notin ToSet(view) /\ Returns
       \/ /\ view = inspections_queue /\ event.asset_id \in ToSet(view)
          /\ task' = event.asset_id
          /\ at' = "find_mission" /\ view' = missions_inspection_queue
          /\ UNCHANGED <<event, mission, attempt, streamVars>>
    /\ UNCHANGED <<World, queueVars, delivered>>

\* Mutant: the mission is the one that was started last.
FindMission_Latest ==
    /\ at = "find_mission"
    /\ \/ view # missions_inspection_queue /\ Raises
       \/ view = missions_inspection_queue /\ view = <<>> /\ Returns
       \/ /\ view = missions_inspection_queue /\ view # <<>>
          /\ mission' = view[Len(view)].mission
          /\ at' = "listing" /\ view' = <<>>
          /\ UNCHANGED <<event, task, attempt, streamVars>>
    /\ UNCHANGED <<World, queueVars, delivered>>

\* The whole deque is searched, and its last entry for the run counts.
FindMission ==
    LET Entries == {k \in 1..Len(view) : view[k].run = event.run}
    IN  /\ at = "find_mission"
        /\ \/ view # missions_inspection_queue /\ Raises
           \/ view = missions_inspection_queue /\ Entries = {} /\ Returns
           \/ /\ view = missions_inspection_queue
              /\ \E k \in Entries : (\A j \in Entries : j <= k) /\ mission' = view[k].mission
              /\ at' = "listing" /\ view' = <<>>
              /\ UNCHANGED <<event, task, attempt, streamVars>>
        /\ UNCHANGED <<World, queueVars, delivered>>

\* data-navigator answers with the file's name, or with the file; a value
\* inspection needs neither.
Retrieved ==
    /\ \/ at = "listing" /\ at' \in {"raw_data", "callback"}
       \/ at = "raw_data" /\ at' = "callback"
    /\ attempt' = 0
    /\ UNCHANGED <<World, event, view, task, mission, streamVars, queueVars, delivered>>

\* It does not answer, or has not indexed the result: after the last attempt
\* the task remains pending.
RetrievalFails ==
    /\ at \in {"listing", "raw_data"}
    /\ \/ /\ attempt + 1 < MaxAttempts /\ attempt' = attempt + 1
          /\ UNCHANGED <<at, event, view, task, mission, streamVars>>
       \/ attempt + 1 = MaxAttempts /\ Returns
    /\ UNCHANGED <<World, queueVars, delivered>>

\* RobotRetrieveInspectionException for data that cannot be used, at once.
DataUnusable ==
    /\ at = "listing" /\ Returns
    /\ UNCHANGED <<World, queueVars, delivered>>

\* Any other exception: acoustic data that does not validate, an answer without
\* a content type, a callback that fails.
ProcessingRaises ==
    /\ at \in {"listing", "raw_data", "callback"} /\ Raises
    /\ UNCHANGED <<World, queueVars, delivered>>

Deliver ==
    /\ at = "callback"
    /\ delivered' = Append(delivered, [run |-> event.run, task |-> task, mission |-> mission])
    /\ at' = "remove" /\ view' = inspections_queue
    /\ UNCHANGED <<World, event, task, mission, attempt, streamVars, queueVars>>

\* Mutant: events are taken to come in the order in which tasks were queued.
RemoveTask_Oldest ==
    /\ at = "remove"
    /\ inspections_queue' = IF inspections_queue = <<>> THEN <<>> ELSE Tail(inspections_queue)
    /\ Returns
    /\ UNCHANGED <<World, missions_inspection_queue, delivered>>

\* inspections_queue.remove(inspection_tuple).  A tuple evicted in the meantime
\* is a ValueError, which is caught; a deque that changes under the comparison
\* of another tuple is an IndexError, which is not.
RemoveTask ==
    /\ at = "remove"
    /\ \/ inspections_queue' = RemoveFirst(inspections_queue, task) /\ Returns
       \/ /\ view # inspections_queue /\ view # <<>> /\ Head(view) # task
          /\ Raises /\ UNCHANGED inspections_queue
    /\ UNCHANGED <<World, missions_inspection_queue, delivered>>

-----------------------------------------------------------------------------
Caller == (\E m \in Missions : InitiateMission(m)) \/ AppendMission \/ AppendTask
Listener ==
    \/ Subscribe \/ StreamEnds \/ ReadEvent \/ FindTask \/ FindMission
    \/ Retrieved \/ RetrievalFails \/ DataUnusable \/ ProcessingRaises
    \/ Deliver \/ RemoveTask
Next ==
    \/ Caller \/ Listener
    \/ \E m \in Missions : UnknownRunStarts(m)
    \/ \E i \in Numbers : Inspects(i)
    \/ RunEnds \/ StreamBreaks

Spec == Init /\ [][Next]_vars

\* The listener thread is scheduled, its waits are bounded (a read times out
\* after 30 s, a retry after 10 s) and the server is reached in the end.
FairSpec == Spec /\ WF_vars(Listener)

-----------------------------------------------------------------------------
(* Properties.                                                             *)

\* Every variable has its type: the queues hold at most maxlen entries.
TypeOK ==
    /\ runs \in Seq(Missions) /\ Len(runs) <= MaxRuns
    /\ running \in BOOLEAN /\ connected \in BOOLEAN
    /\ emitted \in [1..MaxRuns -> [Numbers -> 0..MaxEvents]]
    /\ stream \in Seq(Events)
    /\ caller \in [at : {"idle", "mission", "tasks"}, run : 0..MaxRuns,
                   number : 0..TasksPerMission]
    /\ inspections_queue \in Seq(Tasks) /\ Len(inspections_queue) <= InspectionsMax
    /\ missions_inspection_queue \in Seq([run : 1..MaxRuns, mission : Missions])
    /\ Len(missions_inspection_queue) <= MissionsMax
    /\ at \in {"down", "reading", "find_task", "find_mission", "listing",
               "raw_data", "callback", "remove"}
    /\ event \in Events \union {None}
    /\ task \in Tasks \union {None} /\ mission \in Missions \union {None}
    /\ attempt \in 0..(MaxAttempts - 1)
    /\ accepted \subseteq 1..MaxRuns
    /\ delivered \in Seq([run : 1..MaxRuns, task : Tasks, mission : Missions])

\* ISAR gets an inspection with the mission whose run made it, and the task is
\* one of that mission: not the task of an earlier or a later mission, and not
\* the result of a run that ISAR knows nothing of.
DeliveredToItsMission ==
    \A k \in 1..Len(delivered) :
        LET d == delivered[k]
        IN  /\ d.run \in accepted
            /\ d.mission = runs[d.run] /\ d.task[1] = d.mission

\* Once initiate_mission has returned, every task of its mission can be matched
\* with an event until its inspection is delivered: failed retrievals, a broken
\* stream, what earlier missions left behind and the limit of the queue do not
\* take it away.
TasksRemainPending ==
    caller.at = "idle" /\ accepted # {} =>
        LET run == CHOOSE r \in accepted : \A s \in accepted : s <= r
        IN  \A i \in Numbers :
                \/ <<runs[run], i>> \in ToSet(inspections_queue)
                \/ \E k \in 1..Len(delivered) : delivered[k].task = <<runs[run], i>>

\* Nothing an event causes ends the listener: it always gets back to reading.
ListenerReturns == []<>(at = "reading")

\* test_inspection_handler.py:211: an inspection that "stays pending then
\* delivers once".  The second report of a delivered inspection is ignored.
DeliveredOnce ==
    \A j, k \in 1..Len(delivered) : delivered[j].task = delivered[k].task => j = k

=============================================================================
