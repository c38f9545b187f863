---------------------------- MODULE MissionPlan ----------------------------
(***************************************************************************)
(* How an ISAR mission becomes something the robot can run.  For every     *)
(* mission ANYmalApi.prepare_mission_plan reads the environment file from  *)
(* the robot, replaces what earlier missions added to it, writes it back   *)
(* in two steps (a file of another name, which deletes the old one, then   *)
(* the new one, which deletes the other) and writes a mission file: an     *)
(* undock and one state per task, linked by the outcomes of each.          *)
(*                                                                         *)
(* Each transfer goes through the ads-api service and can fail before or   *)
(* after it took effect, and the ISAR process can end between any two.     *)
(* Files are replaced as a whole, before the prune deletes any other, and  *)
(* the robot reloads them within ENVIRONMENT_FILE_SYNC_DELAY, so that a    *)
(* start sees what was last put.                                           *)
(* Poses, sizes and the other settings of an object are left out, and so   *)
(* are the waypoints a pose is moved to.                                   *)
(***************************************************************************)
EXTENDS Naturals, Sequences, FiniteSets

CONSTANTS
    Missions,
    TasksOf,          \* the types of a mission's tasks, in order
    PlantObjects,     \* what the environment holds apart from ad hoc objects
    PlantRelations,   \* pairs of a parent and a child
    None,
    NumRetries,       \* FILE_RETRIEVAL_NUM_RETRIES
    MaxMissions       \* bound on the missions ISAR initiates

TaskTypes == {"thermal", "visual", "video", "thermal_video", "co2", "acoustic"}

ASSUME MissionsAssumption ==
    /\ TasksOf \in [Missions -> Seq(TaskTypes \union {"unsupported"})]
    /\ None \notin Missions
ASSUME BoundsAssumption == NumRetries \in Nat \ {0} /\ MaxMissions \in Nat

VARIABLES
    \* on the robot
    environments,   \* the directory environments/, by name
    mission_files,  \* the directory missions/, by name
    run,            \* the run of a plan: [plan, at, visited]
    \* in ISAR
    pc, mission, attempts, environment_cleaned, initiated

robotVars == <<environments, mission_files, run>>
vars == <<robotVars, pc, mission, attempts, environment_cleaned, initiated>>

-----------------------------------------------------------------------------
(* Environments: objects with a name and a kind, and relations of names.   *)

AdHocNames == {"AdHoc"} \X Missions \X Nat \X {"goal", "zone", "item"}
Plant == [objects |-> PlantObjects, relations |-> PlantRelations]

ASSUME PlantAssumption ==
    /\ \A o \in PlantObjects : o.name \notin AdHocNames
    /\ \A r \in PlantRelations : r.parent \notin AdHocNames

Goal(m, i) == <<"AdHoc", m, i, "goal">>
Zone(m, i) == <<"AdHoc", m, i, "zone">>
\* The gas inspection is of the place the robot stands at: its item has the
\* name of the navigation goal.
Item(m, i) == <<"AdHoc", m, i, IF TasksOf[m][i] = "co2" THEN "goal" ELSE "item">>
\* and its object is made from the template of a visual inspection.
ItemKind(type) == IF type = "co2" THEN "visual" ELSE type

\* Mutant: the objects of earlier missions stay, only their relations go.
CleanupEnvironment_KeepsObjects(env) ==
    [objects |-> env.objects,
     relations |-> {r \in env.relations : r.parent \notin AdHocNames}]

CleanupEnvironment(env) ==
    [objects |-> {o \in env.objects : o.name \notin AdHocNames},
     relations |-> {r \in env.relations : r.parent \notin AdHocNames}]

\* The objects of a mission: for each task a goal in a zone, the zone of an item.
AddNewPoi(m, env) ==
    LET Tasks == DOMAIN TasksOf[m]
    IN  [objects |-> env.objects \union UNION
            {{[name |-> Goal(m, i), kind |-> "navigation_goal"],
              [name |-> Zone(m, i), kind |-> "navigation_zone"],
              [name |-> Item(m, i), kind |-> ItemKind(TasksOf[m][i])]} : i \in Tasks},
         relations |-> env.relations \union UNION
            {{[parent |-> Zone(m, i), child |-> Goal(m, i)],
              [parent |-> Item(m, i), child |-> Zone(m, i)]} : i \in Tasks}]

-----------------------------------------------------------------------------
(* Plans: states with a target for every outcome.  State 1 is the undock.  *)

Ends(outcome) == <<"outcome", outcome>>
State(k) == <<"state", k>>
NextTask == <<"[next_task_name]">>

\* The transitions of the task templates, before the tasks are linked.
Template(type) ==
    [outcome \in
        CASE type = "undock" -> {"failure", "preemption", "success"}
          [] type \in {"thermal", "acoustic", "co2"} ->
                {"anomaly", "failure", "normal", "preemption"}
          [] OTHER -> {"failure", "preemption", "success"}
     |-> IF outcome = "preemption" THEN Ends("preemption")
         ELSE IF type = "undock" /\ outcome = "failure" THEN Ends("failure")
         ELSE NextTask]

CreateTaskEntry(type, item) == [item |-> item, transitions |-> Template(type)]

\* Mutant: only a task that went well is followed by another.
SetNextTaskName_OnSuccess(entry, k) ==
    [entry EXCEPT !.transitions =
        [outcome \in DOMAIN @ |-> IF @[outcome] # NextTask THEN @[outcome]
                                  ELSE IF outcome \in {"success", "normal"} THEN State(k)
                                  ELSE Ends("failure")]]

SetNextTaskName(entry, k) ==
    [entry EXCEPT !.transitions =
        [outcome \in DOMAIN @ |-> IF @[outcome] = NextTask THEN State(k) ELSE @[outcome]]]

SetLastTaskTransitions(entry) ==
    [entry EXCEPT !.transitions =
        [outcome \in DOMAIN @ |->
            IF @[outcome] # NextTask THEN @[outcome]
            ELSE IF outcome \in {"success", "normal"} THEN Ends("success")
            ELSE Ends("failure")]]

\* create_adhoc_mission on the task list of add_new_poi, behind an undock.
CreateAdhocMission(m) ==
    LET last == Len(TasksOf[m]) + 1
        Entry(k) == IF k = 1 THEN CreateTaskEntry("undock", None)
                    ELSE CreateTaskEntry(TasksOf[m][k - 1], Item(m, k - 1))
    IN  [mission |-> m,
         states |-> [k \in 1..last |-> IF k < last THEN SetNextTaskName(Entry(k), k + 1)
                                       ELSE SetLastTaskTransitions(Entry(k))]]

-----------------------------------------------------------------------------
Init ==
    /\ environments = [name \in {"environment.yaml"} |-> Plant]
    /\ mission_files = [name \in {"Dock"} |-> None]
    /\ run = [plan |-> None, at |-> Ends("none"), visited |-> <<>>]
    /\ pc = "idle" /\ mission = None /\ attempts = 0
    /\ environment_cleaned = [objects |-> {}, relations |-> {}]
    /\ initiated = 0

\* ISAR hands over a mission.  A task that cannot be converted stops it at once.
InitiateMission(m) ==
    /\ pc = "idle" /\ initiated < MaxMissions
    /\ initiated' = initiated + 1
    /\ IF \A i \in DOMAIN TasksOf[m] : TasksOf[m][i] \in TaskTypes
       THEN pc' = "get_environment" /\ mission' = m /\ attempts' = 0
       ELSE UNCHANGED <<pc, mission, attempts>>
    /\ UNCHANGED <<robotVars, environment_cleaned>>

\* An exception leaves prepare_mission_plan or start_mission; so does the end
\* of the process.
Aborts ==
    /\ pc' = "idle" /\ mission' = None /\ attempts' = 0

ProcessEnds ==
    /\ pc # "idle" /\ Aborts
    /\ environment_cleaned' = [objects |-> {}, relations |-> {}]
    /\ UNCHANGED <<robotVars, initiated>>

\* Mutant: the attempts are counted one too few.
GetFile_OneMore(from, to) ==
    /\ pc = from
    /\ \/ pc' = to /\ attempts' = 0 /\ UNCHANGED mission
       \/ /\ attempts < NumRetries /\ attempts' = attempts + 1
          /\ UNCHANGED <<pc, mission>>
       \/ attempts = NumRetries /\ Aborts
    /\ UNCHANGED <<robotVars, initiated>>

\* A file is asked for until it is there, NumRetries times.
GetFile(from, to) ==
    /\ pc = from
    /\ \/ pc' = to /\ attempts' = 0 /\ UNCHANGED mission
       \/ /\ attempts + 1 < NumRetries /\ attempts' = attempts + 1
          /\ UNCHANGED <<pc, mission>>
       \/ attempts + 1 = NumRetries /\ Aborts
    /\ UNCHANGED <<robotVars, initiated>>

\* get_environment_file_with_retry and cleanup_environment.
GetEnvironment ==
    /\ GetFile("get_environment", "get_waypoints")
    /\ IF pc' = "get_waypoints"
       THEN /\ "environment.yaml" \in DOMAIN environments
            /\ environment_cleaned' = CleanupEnvironment(environments["environment.yaml"])
       ELSE UNCHANGED environment_cleaned

\* get_waypoint_file_with_retry; add_new_poi fails on a waypoint that is missing.
GetWaypoints ==
    /\ \/ GetFile("get_waypoints", "put_backup")
       \/ pc = "get_waypoints" /\ Aborts /\ UNCHANGED <<robotVars, initiated>>
    /\ UNCHANGED environment_cleaned

\* The answer to a transfer: the next step, or an exception.
Answered(next) ==
    /\ \/ pc' = next /\ UNCHANGED <<mission, attempts>>
       \/ Aborts
    /\ UNCHANGED <<environment_cleaned, run, initiated>>

\* A transfer that had no effect is an exception.
PutFails ==
    /\ pc \in {"put_backup", "put_environment", "put_mission"} /\ Aborts
    /\ UNCHANGED <<robotVars, environment_cleaned, initiated>>

\* Put and prune: no other file is left beside the one that was sent.  A prune
\* that is cut off leaves some, and is an exception.
Put(name, env, next) ==
    \E kept \in SUBSET (DOMAIN environments \ {name}) :
        /\ environments' = [file \in kept \union {name} |->
                                IF file = name THEN env ELSE environments[file]]
        /\ UNCHANGED mission_files
        /\ Answered(next)
        /\ kept # {} => pc' = "idle"

PutBackup ==
    /\ pc = "put_backup"
    /\ Put("environment.yaml.bck", environment_cleaned, "put_environment")

PutEnvironment ==
    /\ pc = "put_environment"
    /\ Put("environment.yaml", AddNewPoi(mission, environment_cleaned), "put_mission")

\* Mutant: the mission file is put like the environment, with prune.
PutMission_Prunes ==
    /\ pc = "put_mission"
    /\ mission_files' = [name \in {"AdHocMission"} |-> CreateAdhocMission(mission)]
    /\ UNCHANGED environments
    /\ Answered("start")

\* The mission file is put without prune: the dock mission stays.
PutMission ==
    /\ pc = "put_mission"
    /\ mission_files' = [name \in DOMAIN mission_files \union {"AdHocMission"} |->
                            IF name = "AdHocMission" THEN CreateAdhocMission(mission)
                            ELSE mission_files[name]]
    /\ UNCHANGED environments
    /\ Answered("start")

\* start_mission by name: the robot runs the file it has under that name,
\* unless it is running already or the start fails.
StartMission ==
    /\ pc = "start" /\ Aborts
    /\ \/ /\ run.at[1] = "outcome"
          /\ run' = [plan |-> mission_files["AdHocMission"], at |-> State(1), visited |-> <<>>]
       \/ UNCHANGED run
    /\ UNCHANGED <<environments, mission_files, environment_cleaned, initiated>>

\* The robot performs the state it is in and takes the transition of its outcome.
RobotSteps ==
    /\ run.at[1] = "state"
    /\ LET k == run.at[2]
           transitions == run.plan.states[k].transitions
       IN  \E outcome \in DOMAIN transitions :
              run' = [run EXCEPT !.at = transitions[outcome],
                                 !.visited = Append(@, [state |-> k, outcome |-> outcome])]
    /\ UNCHANGED <<environments, mission_files, pc, mission, attempts,
                   environment_cleaned, initiated>>

Next ==
    \/ \E m \in Missions : InitiateMission(m)
    \/ ProcessEnds \/ GetEnvironment \/ GetWaypoints
    \/ PutBackup \/ PutEnvironment \/ PutMission \/ PutFails
    \/ StartMission \/ RobotSteps

Spec == Init /\ [][Next]_vars

-----------------------------------------------------------------------------
(* Properties.                                                             *)

\* Names and environments, for the type of the variables.
Names ==
    UNION {UNION {{Goal(m, i), Zone(m, i), Item(m, i)} : i \in DOMAIN TasksOf[m]} :
              m \in Missions}
Environments ==
    [objects : SUBSET (PlantObjects \union
                       [name : Names, kind : {"navigation_goal", "navigation_zone"}
                                                 \union TaskTypes]),
     relations : SUBSET (PlantRelations \union [parent : Names, child : Names])]

\* Every variable has its type; a file the robot does not have is None.
TypeOK ==
    /\ DOMAIN environments \subseteq {"environment.yaml", "environment.yaml.bck"}
    /\ DOMAIN environments # {}
    /\ \A name \in DOMAIN environments : environments[name] \in Environments
    /\ environment_cleaned \in Environments
    /\ DOMAIN mission_files \subseteq {"Dock", "AdHocMission"}
    /\ pc \in {"idle", "get_environment", "get_waypoints", "put_backup",
               "put_environment", "put_mission", "start"}
    /\ mission \in Missions \union {None} /\ (mission = None <=> pc = "idle")
    /\ attempts \in 0..(NumRetries - 1)
    /\ run.at[1] \in {"outcome", "state"}
    /\ initiated \in 0..MaxMissions

HoldsPlant(env) ==
    /\ {o \in env.objects : o.name \notin AdHocNames} = PlantObjects
    /\ {r \in env.relations : r.parent \notin AdHocNames} = PlantRelations

\* What is on the robot and not ISAR's own survives every failure: the file of
\* the environment, or the one that is to replace it, holds all of it, and the
\* dock mission is there.
PlantKept ==
    /\ \E name \in DOMAIN environments : HoldsPlant(environments[name])
    /\ "Dock" \in DOMAIN mission_files

\* An item can be reached: it has a zone, and the zone a goal.
Reachable(item, env) ==
    \E zone, goal \in {o.name : o \in env.objects} :
        /\ [parent |-> item, child |-> zone] \in env.relations
        /\ [parent |-> zone, child |-> goal] \in env.relations
        /\ [name |-> zone, kind |-> "navigation_zone"] \in env.objects
        /\ [name |-> goal, kind |-> "navigation_goal"] \in env.objects

\* A plan is started only when the robot has what it needs: the mission file is
\* the one made for this mission, each of its items is in the environment and
\* can be reached, and nothing of another mission is left in it.
StartedPlanIsReady ==
    pc = "start" =>
        /\ "environment.yaml" \in DOMAIN environments
        /\ "AdHocMission" \in DOMAIN mission_files
        /\ LET plan == mission_files["AdHocMission"]
               environment == environments["environment.yaml"]
           IN  /\ plan.mission = mission
               /\ Len(plan.states) = Len(TasksOf[mission]) + 1
               /\ \A k \in 2..Len(plan.states) :
                     /\ plan.states[k].item \in {o.name : o \in environment.objects}
                     /\ Reachable(plan.states[k].item, environment)
               /\ \A o \in environment.objects :
                     o.name \in AdHocNames => o.name[2] = mission

\* A run goes through the states in order and tries every task, whatever the
\* earlier ones came to, unless it is preempted or cannot undock; it succeeds
\* if its last state does.
EveryTaskIsTried ==
    run.plan # None =>
        LET visited == run.visited
            last == Len(run.plan.states)
        IN  /\ \A k \in 1..Len(visited) : visited[k].state = k
            /\ \/ run.at = State(Len(visited) + 1) /\ Len(visited) < last
               \/ /\ run.at = Ends("preemption")
                  /\ visited[Len(visited)].outcome = "preemption"
               \/ /\ run.at = Ends("failure")
                  /\ \/ visited[1].outcome = "failure"
                     \/ Len(visited) = last /\ visited[last].outcome \in {"failure", "anomaly"}
               \/ /\ run.at = Ends("success")
                  /\ Len(visited) = last /\ visited[last].outcome \in {"success", "normal"}

=============================================================================
