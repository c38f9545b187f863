------------------------- MODULE MissionPlanProofs -------------------------
(***************************************************************************)
(* The preparation of a mission keeps what is on the robot and leaves it   *)
(* ready for the start, for every plant, every set of missions and every   *)
(* bound.                                                                  *)
(***************************************************************************)
EXTENDS MissionPlan, TLAPS

Prepared == {"put_backup", "put_environment"}

-----------------------------------------------------------------------------
(* The inductive invariant.                                                *)

\* ISAR prepares one mission at a time.
Preparing ==
    /\ pc \in {"idle", "get_environment", "get_waypoints", "put_mission", "start"}
                  \union Prepared
    /\ pc # "idle" => mission \in Missions

\* Every environment on the robot, under whichever name, holds the plant, and
\* ISAR's copy is the plant and nothing else.
PlantInv ==
    /\ \E name \in DOMAIN environments : TRUE
    /\ \A name \in DOMAIN environments : HoldsPlant(environments[name])
    /\ pc \in {"get_waypoints"} \union Prepared => environment_cleaned = Plant
    /\ "Dock" \in DOMAIN mission_files

\* After the second transfer the robot has the environment of this mission, and
\* after the third its plan.
ReadyInv ==
    /\ pc \in {"put_mission", "start"} =>
           environments = [name \in {"environment.yaml"} |-> AddNewPoi(mission, Plant)]
    /\ pc = "start" =>
           /\ "AdHocMission" \in DOMAIN mission_files
           /\ mission_files["AdHocMission"] = CreateAdhocMission(mission)

PlanInv == Preparing /\ PlantInv /\ ReadyInv

-----------------------------------------------------------------------------
(* What the functions of the file handler preserve.                        *)

\* The positions of a mission's tasks are numbers, and every name made from one
\* is a name of ISAR's own.
LEMMA NamesAreAdHoc ==
    ASSUME NEW m \in Missions, NEW i \in DOMAIN TasksOf[m]
    PROVE  /\ i \in Nat
           /\ Goal(m, i) \in AdHocNames /\ Zone(m, i) \in AdHocNames
           /\ Item(m, i) \in AdHocNames
<1>1. TasksOf[m] \in Seq(TaskTypes \union {"unsupported"})
    BY MissionsAssumption
<1>2. i \in Nat
    BY <1>1
<1>3. QED
    BY <1>2 DEF Goal, Zone, Item, AdHocNames

\* The plant holds the plant.
LEMMA PlantHoldsPlant == HoldsPlant(Plant)
BY PlantAssumption DEF HoldsPlant, Plant

\* Cleaning up takes every object and relation of earlier missions out and
\* leaves the plant as it was.
LEMMA CleanupLeavesPlant ==
    ASSUME NEW env, HoldsPlant(env)
    PROVE  CleanupEnvironment(env) = Plant
BY DEF HoldsPlant, CleanupEnvironment, Plant

\* Adding the objects of a mission does not touch the plant.
LEMMA AddingKeepsPlant ==
    ASSUME NEW m \in Missions
    PROVE  HoldsPlant(AddNewPoi(m, Plant))
<1> DEFINE Tasks == DOMAIN TasksOf[m]
           objects == UNION
               {{[name |-> Goal(m, i), kind |-> "navigation_goal"],
                 [name |-> Zone(m, i), kind |-> "navigation_zone"],
                 [name |-> Item(m, i), kind |-> ItemKind(TasksOf[m][i])]} : i \in Tasks}
           relations == UNION
               {{[parent |-> Zone(m, i), child |-> Goal(m, i)],
                 [parent |-> Item(m, i), child |-> Zone(m, i)]} : i \in Tasks}
<1>1. AddNewPoi(m, Plant) = [objects |-> PlantObjects \union objects,
                            relations |-> PlantRelations \union relations]
    BY DEF AddNewPoi, Plant
<1>2. \A o \in objects : o.name \in AdHocNames
    BY NamesAreAdHoc
<1>3. \A r \in relations : r.parent \in AdHocNames
    BY NamesAreAdHoc
<1> HIDE DEF objects, relations
<1>4. QED
    BY <1>1, <1>2, <1>3, PlantAssumption DEF HoldsPlant

\* An object that is there is there by its name.
LEMMA FoundByName ==
    ASSUME NEW objects, NEW name, NEW kind, [name |-> name, kind |-> kind] \in objects
    PROVE  name \in {o.name : o \in objects}
<1> DEFINE object == [name |-> name, kind |-> kind]
<1>1. object.name = name /\ object \in objects
    OBVIOUS
<1> HIDE DEF object
<1>2. QED
    BY <1>1

\* The environment and the plan of a mission fit: each item of the plan is in
\* the environment and can be reached in it.
LEMMA PlanFitsEnvironment ==
    ASSUME NEW m \in Missions
    PROVE  LET plan == CreateAdhocMission(m)
               environment == AddNewPoi(m, Plant)
           IN  /\ plan.mission = m
               /\ Len(plan.states) = Len(TasksOf[m]) + 1
               /\ \A k \in 2..Len(plan.states) :
                     /\ plan.states[k].item \in {o.name : o \in environment.objects}
                     /\ Reachable(plan.states[k].item, environment)
               /\ \A o \in environment.objects : o.name \in AdHocNames => o.name[2] = m
<1> DEFINE plan == CreateAdhocMission(m)
           environment == AddNewPoi(m, Plant)
           last == Len(TasksOf[m]) + 1
<1>1. TasksOf[m] \in Seq(TaskTypes \union {"unsupported"}) /\ last \in Nat
    BY MissionsAssumption
<1>2. plan.mission = m /\ DOMAIN plan.states = 1..last /\ Len(plan.states) = last
    BY <1>1 DEF CreateAdhocMission
<1>3. ASSUME NEW k \in 2..last
      PROVE  /\ k - 1 \in DOMAIN TasksOf[m]
             /\ plan.states[k].item = Item(m, k - 1)
  <2>1. k - 1 \in DOMAIN TasksOf[m] /\ k \in 1..last /\ k # 1
    BY <1>1
  <2> DEFINE entry == CreateTaskEntry(TasksOf[m][k - 1], Item(m, k - 1))
  <2>2. plan.states[k] = IF k < last THEN SetNextTaskName(entry, k + 1)
                         ELSE SetLastTaskTransitions(entry)
    BY <2>1 DEF CreateAdhocMission
  <2>3. entry.item = Item(m, k - 1)
    BY DEF CreateTaskEntry
  <2>4. /\ SetNextTaskName(entry, k + 1).item = entry.item
        /\ SetLastTaskTransitions(entry).item = entry.item
    BY DEF CreateTaskEntry, SetNextTaskName, SetLastTaskTransitions
  <2> HIDE DEF entry, plan
  <2>5. QED
    BY <2>1, <2>2, <2>3, <2>4
<1>4. ASSUME NEW i \in DOMAIN TasksOf[m]
      PROVE  /\ [name |-> Goal(m, i), kind |-> "navigation_goal"] \in environment.objects
             /\ [name |-> Zone(m, i), kind |-> "navigation_zone"] \in environment.objects
             /\ [name |-> Item(m, i), kind |-> ItemKind(TasksOf[m][i])] \in environment.objects
             /\ [parent |-> Zone(m, i), child |-> Goal(m, i)] \in environment.relations
             /\ [parent |-> Item(m, i), child |-> Zone(m, i)] \in environment.relations
    BY DEF AddNewPoi
<1>5. ASSUME NEW o \in environment.objects, o.name \in AdHocNames
      PROVE  o.name[2] = m
  <2>1. PICK i \in DOMAIN TasksOf[m] : o.name \in {Goal(m, i), Zone(m, i), Item(m, i)}
    BY <1>5, PlantAssumption DEF AddNewPoi, Plant
  <2>2. QED
    BY <2>1 DEF Goal, Zone, Item
<1> HIDE DEF environment
<1>6. ASSUME NEW i \in DOMAIN TasksOf[m]
      PROVE  /\ Item(m, i) \in {o.name : o \in environment.objects}
             /\ Reachable(Item(m, i), environment)
  <2>1. /\ Goal(m, i) \in {o.name : o \in environment.objects}
        /\ Zone(m, i) \in {o.name : o \in environment.objects}
        /\ Item(m, i) \in {o.name : o \in environment.objects}
    BY <1>4, FoundByName
  <2>2. QED
    BY <1>4, <2>1 DEF Reachable
<1> HIDE DEF plan
<1>7. QED
    BY <1>2, <1>3, <1>5, <1>6 DEF plan, environment

-----------------------------------------------------------------------------
(* The invariant holds initially, and every step preserves it.             *)

\* The robot starts with the plant alone.
LEMMA PlanInit == Init => PlanInv
<1> SUFFICES ASSUME Init PROVE PlanInv
    OBVIOUS
<1>1. \A name \in DOMAIN environments : HoldsPlant(environments[name])
    BY PlantHoldsPlant DEF Init
<1>2. QED
    BY <1>1 DEF Init, PlanInv, Preparing, PlantInv, ReadyInv, Prepared

\* A preparation that ends, for whatever reason, leaves the files alone.
LEMMA AbortKeeps ==
    ASSUME PlanInv, Aborts, UNCHANGED <<environments, mission_files>>
    PROVE  PlanInv'
BY DEF PlanInv, Preparing, PlantInv, ReadyInv, Prepared, Aborts, HoldsPlant

\* After a transfer with prune the file is there; every other that is left is as
\* it was, and when the preparation goes on none is.
LEMMA PutEffect ==
    ASSUME NEW name, NEW env, NEW next, Put(name, env, next)
    PROVE  /\ name \in DOMAIN environments' /\ environments'[name] = env
           /\ DOMAIN environments' \subseteq DOMAIN environments \union {name}
           /\ \A file \in DOMAIN environments' :
                 file # name => environments'[file] = environments[file]
           /\ mission_files' = mission_files /\ Answered(next)
           /\ pc' # "idle" => environments' = [file \in {name} |-> env]
<1>1. PICK kept \in SUBSET (DOMAIN environments \ {name}) :
          /\ environments' = [file \in kept \union {name} |->
                                  IF file = name THEN env ELSE environments[file]]
          /\ mission_files' = mission_files /\ Answered(next)
          /\ kept # {} => pc' = "idle"
    BY DEF Put
<1>2. kept = {} => environments' = [file \in {name} |-> env]
    BY <1>1
<1>3. QED
    BY <1>1, <1>2

\* When every file holds the plant, so does every one that is left then.
LEMMA PutKeepsPlant ==
    ASSUME PlantInv, NEW name, NEW env, HoldsPlant(env), NEW next, Put(name, env, next)
    PROVE  /\ \E file \in DOMAIN environments' : TRUE
           /\ \A file \in DOMAIN environments' : HoldsPlant(environments'[file])
BY PutEffect DEF PlantInv

\* Whatever ISAR, its process, the transfers or the robot do.
LEMMA PlanStep == PlanInv /\ [Next]_vars => PlanInv'
<1> SUFFICES ASSUME PlanInv, [Next]_vars PROVE PlanInv'
    OBVIOUS
<1> USE DEF PlanInv
<1>1. ASSUME NEW m \in Missions, InitiateMission(m)
      PROVE  PlanInv'
    BY <1>1 DEF InitiateMission, robotVars, Preparing, PlantInv, ReadyInv, Prepared, HoldsPlant
<1>2. CASE ProcessEnds
    BY <1>2, AbortKeeps DEF ProcessEnds, robotVars
<1>3. CASE GetEnvironment
  <2>1. CASE Aborts
    BY <1>3, <2>1, AbortKeeps DEF GetEnvironment, GetFile, robotVars
  <2>2. CASE pc' = "get_waypoints" /\ UNCHANGED mission
    <3>1. /\ environments' = environments /\ mission_files' = mission_files
          /\ environment_cleaned' = CleanupEnvironment(environments["environment.yaml"])
          /\ "environment.yaml" \in DOMAIN environments
          /\ pc = "get_environment"
        BY <1>3, <2>2 DEF GetEnvironment, GetFile, robotVars
    <3>2. environment_cleaned' = Plant
        BY <3>1, CleanupLeavesPlant DEF PlantInv
    <3>3. QED
        BY <2>2, <3>1, <3>2 DEF Preparing, PlantInv, ReadyInv, Prepared, HoldsPlant
  <2>3. CASE pc' = "get_environment" /\ UNCHANGED mission
    BY <1>3, <2>3
    DEF GetEnvironment, GetFile, robotVars, Preparing, PlantInv, ReadyInv, Prepared, HoldsPlant
  <2>4. QED
    BY <1>3, <2>1, <2>2, <2>3 DEF GetEnvironment, GetFile
<1>4. CASE GetWaypoints
  <2>1. CASE Aborts
    BY <1>4, <2>1, AbortKeeps DEF GetWaypoints, GetFile, robotVars
  <2>2. CASE pc' \in {"get_waypoints", "put_backup"} /\ UNCHANGED mission
    BY <1>4, <2>2
    DEF GetWaypoints, GetFile, robotVars, Preparing, PlantInv, ReadyInv, Prepared, HoldsPlant
  <2>3. QED
    BY <1>4, <2>1, <2>2 DEF GetWaypoints, GetFile
<1>5. CASE PutBackup
  <2>1. /\ environment_cleaned = Plant /\ environment_cleaned' = Plant
        /\ mission_files' = mission_files
        /\ pc' \in {"put_environment", "idle"} /\ (pc' # "idle" => UNCHANGED mission)
        /\ pc = "put_backup"
    BY <1>5, PutEffect DEF PutBackup, Answered, Aborts, PlantInv, Prepared
  <2>2. /\ \E name \in DOMAIN environments' : TRUE
        /\ \A name \in DOMAIN environments' : HoldsPlant(environments'[name])
    BY <1>5, <2>1, PlantHoldsPlant, PutKeepsPlant DEF PutBackup
  <2>3. QED
    BY <2>1, <2>2 DEF Preparing, PlantInv, ReadyInv, Prepared, HoldsPlant
<1>6. CASE PutEnvironment
  <2>1. /\ mission \in Missions
        /\ Put("environment.yaml", AddNewPoi(mission, Plant), "put_mission")
    BY <1>6 DEF PutEnvironment, PlantInv, Prepared, Preparing
  <2>2. /\ mission_files' = mission_files
        /\ pc' \in {"put_mission", "idle"}
        /\ pc' # "idle" =>
              /\ UNCHANGED mission
              /\ environments' = [name \in {"environment.yaml"} |-> AddNewPoi(mission, Plant)]
    BY <2>1, PutEffect DEF Answered, Aborts
  <2>3. /\ \E name \in DOMAIN environments' : TRUE
        /\ \A name \in DOMAIN environments' : HoldsPlant(environments'[name])
    BY <2>1, AddingKeepsPlant, PutKeepsPlant
  <2>4. QED
    BY <2>1, <2>2, <2>3 DEF Preparing, PlantInv, ReadyInv, Prepared, HoldsPlant
<1>7. CASE PutMission
  <2>1. /\ mission \in Missions /\ pc = "put_mission"
        /\ environments' = environments
        /\ pc' \in {"start", "idle"} /\ (pc' # "idle" => UNCHANGED mission)
        /\ DOMAIN mission_files' = DOMAIN mission_files \union {"AdHocMission"}
        /\ mission_files'["AdHocMission"] = CreateAdhocMission(mission)
    BY <1>7 DEF PutMission, Answered, Aborts, Preparing
  <2>2. QED
    BY <2>1 DEF Preparing, PlantInv, ReadyInv, Prepared, HoldsPlant
<1>8. CASE PutFails
    BY <1>8, AbortKeeps DEF PutFails, robotVars
<1>9. CASE StartMission
    BY <1>9, AbortKeeps DEF StartMission
<1>10. CASE RobotSteps
    BY <1>10 DEF RobotSteps, Preparing, PlantInv, ReadyInv, Prepared, HoldsPlant
<1>11. CASE UNCHANGED vars
    BY <1>11 DEF vars, robotVars, Preparing, PlantInv, ReadyInv, Prepared, HoldsPlant
<1>12. QED
    BY <1>1, <1>2, <1>3, <1>4, <1>5, <1>6, <1>7, <1>8, <1>9, <1>10, <1>11 DEF Next

-----------------------------------------------------------------------------
(* Theorems.                                                               *)

\* Whatever fails, and whenever the process ends, an environment on the robot
\* holds all of the plant and the dock mission is there: the two steps in which
\* send_environment_file replaces the environment never lose it.
THEOREM PlantIsKept == Spec => []PlantKept
<1>1. PlanInv => PlantKept
    BY DEF PlanInv, PlantInv, PlantKept
<1>2. QED
    BY <1>1, PlanInit, PlanStep, PTL DEF Spec

\* When start_mission is reached, the robot has the plan made for this mission
\* and an environment in which each of its items is and can be reached.
THEOREM StartIsReady == Spec => []StartedPlanIsReady
<1>1. PlanInv => StartedPlanIsReady
  <2> SUFFICES ASSUME PlanInv, pc = "start" PROVE StartedPlanIsReady
    BY DEF StartedPlanIsReady
  <2>1. /\ mission \in Missions
        /\ DOMAIN environments = {"environment.yaml"}
        /\ environments["environment.yaml"] = AddNewPoi(mission, Plant)
        /\ "AdHocMission" \in DOMAIN mission_files
        /\ mission_files["AdHocMission"] = CreateAdhocMission(mission)
    BY DEF PlanInv, Preparing, ReadyInv
  <2>2. QED
    BY <2>1, PlanFitsEnvironment DEF StartedPlanIsReady
<1>2. QED
    BY <1>1, PlanInit, PlanStep, PTL DEF Spec

-----------------------------------------------------------------------------
(* The files on the robot and the run of a plan.                           *)

Outcomes == {"anomaly", "failure", "normal", "preemption", "success"}

\* The names the environment of the robot is put under.
FileNames == {"environment.yaml", "environment.yaml.bck"}

\* The values the plan's proof leaves open: a mission is being prepared only when
\* each of its tasks can be converted.
FilesInv ==
    /\ DOMAIN environments \subseteq FileNames /\ DOMAIN environments # {}
    /\ \A name \in DOMAIN environments : environments[name] \in Environments
    /\ environment_cleaned \in Environments
    /\ DOMAIN mission_files \subseteq {"Dock", "AdHocMission"}
    /\ mission \in Missions \union {None} /\ (mission = None <=> pc = "idle")
    /\ pc # "idle" => \A i \in DOMAIN TasksOf[mission] : TasksOf[mission][i] \in TaskTypes
    /\ attempts \in 0..(NumRetries - 1)
    /\ initiated \in 0..MaxMissions

\* Where a run is, told from the states it has been through.
Tried(visited, at, last) ==
    /\ \A k \in 1..Len(visited) : visited[k].state = k
    /\ \/ at = State(Len(visited) + 1) /\ Len(visited) < last
       \/ at = Ends("preemption") /\ visited[Len(visited)].outcome = "preemption"
       \/ /\ at = Ends("failure")
          /\ \/ visited[1].outcome = "failure"
             \/ Len(visited) = last /\ visited[last].outcome \in {"failure", "anomaly"}
       \/ /\ at = Ends("success")
          /\ Len(visited) = last /\ visited[last].outcome \in {"success", "normal"}

\* A run is of a plan ISAR made, and has followed it.
RunInv ==
    /\ run = [plan |-> run.plan, at |-> run.at, visited |-> run.visited]
    /\ run.visited \in Seq([state : Nat, outcome : Outcomes])
    /\ \/ run.plan = None /\ run.at = Ends("none")
       \/ \E m \in Missions : /\ run.plan = CreateAdhocMission(m)
                              /\ Tried(run.visited, run.at, Len(TasksOf[m]) + 1)

\* The environment of a mission whose tasks can be converted is one.
LEMMA AddNewPoiType ==
    ASSUME NEW m \in Missions, NEW env \in Environments,
           \A i \in DOMAIN TasksOf[m] : TasksOf[m][i] \in TaskTypes
    PROVE  AddNewPoi(m, env) \in Environments
<1> DEFINE Tasks == DOMAIN TasksOf[m]
           kinds == {"navigation_goal", "navigation_zone"} \union TaskTypes
           objects == UNION
               {{[name |-> Goal(m, i), kind |-> "navigation_goal"],
                 [name |-> Zone(m, i), kind |-> "navigation_zone"],
                 [name |-> Item(m, i), kind |-> ItemKind(TasksOf[m][i])]} : i \in Tasks}
           relations == UNION
               {{[parent |-> Zone(m, i), child |-> Goal(m, i)],
                 [parent |-> Item(m, i), child |-> Zone(m, i)]} : i \in Tasks}
<1>1. \A i \in Tasks : {Goal(m, i), Zone(m, i), Item(m, i)} \subseteq Names
  <2> SUFFICES ASSUME NEW i \in Tasks PROVE {Goal(m, i), Zone(m, i), Item(m, i)} \subseteq Names
      OBVIOUS
  <2> DEFINE mine == {{Goal(m, j), Zone(m, j), Item(m, j)} : j \in DOMAIN TasksOf[m]}
             all == {UNION {{Goal(n, j), Zone(n, j), Item(n, j)} : j \in DOMAIN TasksOf[n]} :
                        n \in Missions}
  <2>1. {Goal(m, i), Zone(m, i), Item(m, i)} \in mine
      OBVIOUS
  <2>2. UNION mine \in all
      OBVIOUS
  <2>3. Names = UNION all
      BY DEF Names
  <2> HIDE DEF mine, all
  <2>4. QED
      BY <2>1, <2>2, <2>3
<1>2. \A i \in Tasks : ItemKind(TasksOf[m][i]) \in kinds
    BY DEF ItemKind, TaskTypes
<1>3. objects \subseteq [name : Names, kind : kinds]
    BY <1>1, <1>2
<1>4. relations \subseteq [parent : Names, child : Names]
    BY <1>1
<1>5. AddNewPoi(m, env) = [objects |-> env.objects \union objects,
                          relations |-> env.relations \union relations]
    BY DEF AddNewPoi
<1> HIDE DEF objects, relations, kinds
<1>6. /\ env.objects \subseteq PlantObjects \union [name : Names, kind : kinds]
      /\ env.relations \subseteq PlantRelations \union [parent : Names, child : Names]
    BY DEF Environments, kinds
<1>7. QED
    BY <1>3, <1>4, <1>5, <1>6 DEF Environments, kinds

\* So is one that has been cleaned up,
LEMMA CleanupType ==
    ASSUME NEW env \in Environments
    PROVE  CleanupEnvironment(env) \in Environments
BY DEF CleanupEnvironment, Environments

\* the plant and the one of which nothing is known yet.
LEMMA PlantType ==
    Plant \in Environments /\ [objects |-> {}, relations |-> {}] \in Environments
BY DEF Plant, Environments

\* The transition a run takes from a state of a plan: preemption ends it, a
\* failure to undock ends it, and any other outcome leads on to the next state,
\* or decides how the run ends.
LEMMA Transition ==
    ASSUME NEW m \in Missions, NEW k \in 1..(Len(TasksOf[m]) + 1),
           NEW outcome \in DOMAIN CreateAdhocMission(m).states[k].transitions
    PROVE  /\ outcome \in Outcomes
           /\ CreateAdhocMission(m).states[k].transitions[outcome] =
                 IF outcome = "preemption" THEN Ends("preemption")
                 ELSE IF k = 1 /\ outcome = "failure" THEN Ends("failure")
                 ELSE IF k < Len(TasksOf[m]) + 1 THEN State(k + 1)
                 ELSE IF outcome \in {"success", "normal"} THEN Ends("success")
                 ELSE Ends("failure")
<1> DEFINE last == Len(TasksOf[m]) + 1
           type == IF k = 1 THEN "undock" ELSE TasksOf[m][k - 1]
           item == IF k = 1 THEN None ELSE Item(m, k - 1)
           entry == CreateTaskEntry(type, item)
           linked == IF k < last THEN SetNextTaskName(entry, k + 1)
                     ELSE SetLastTaskTransitions(entry)
<1>1. CreateAdhocMission(m).states[k] = linked
  <2>1. linked = IF k < last
                 THEN SetNextTaskName(IF k = 1 THEN CreateTaskEntry("undock", None)
                                      ELSE CreateTaskEntry(TasksOf[m][k - 1], Item(m, k - 1)),
                                      k + 1)
                 ELSE SetLastTaskTransitions(IF k = 1 THEN CreateTaskEntry("undock", None)
                                      ELSE CreateTaskEntry(TasksOf[m][k - 1], Item(m, k - 1)))
      OBVIOUS
  <2>2. QED
      BY <2>1 DEF CreateAdhocMission
<1>2. type = "undock" <=> k = 1
  <2>1. k # 1 => k - 1 \in DOMAIN TasksOf[m]
      BY MissionsAssumption
  <2>2. k # 1 => TasksOf[m][k - 1] \in TaskTypes \union {"unsupported"}
      BY <2>1, MissionsAssumption
  <2>3. QED
      BY <2>2 DEF TaskTypes
<1> HIDE DEF type, item
<1>3. /\ entry = [item |-> item, transitions |-> Template(type)]
      /\ entry.transitions = Template(type)
    BY DEF CreateTaskEntry
<1>4. /\ DOMAIN Template(type) \subseteq Outcomes
      /\ \A o \in DOMAIN Template(type) :
            Template(type)[o] = IF o = "preemption" THEN Ends("preemption")
                                ELSE IF type = "undock" /\ o = "failure" THEN Ends("failure")
                                ELSE NextTask
    BY DEF Template, Outcomes
<1>5. NextTask # Ends("preemption") /\ NextTask # Ends("failure")
    BY DEF NextTask, Ends
<1>6. CASE k < last
  <2>1. linked.transitions =
            [o \in DOMAIN Template(type) |->
                IF Template(type)[o] = NextTask THEN State(k + 1) ELSE Template(type)[o]]
      BY <1>3, <1>6 DEF SetNextTaskName
  <2> HIDE DEF linked
  <2>2. QED
      BY <1>1, <1>2, <1>4, <1>5, <1>6, <2>1
<1>7. CASE ~(k < last)
  <2>1. linked.transitions =
            [o \in DOMAIN Template(type) |->
                IF Template(type)[o] # NextTask THEN Template(type)[o]
                ELSE IF o \in {"success", "normal"} THEN Ends("success")
                ELSE Ends("failure")]
      BY <1>3, <1>7 DEF SetLastTaskTransitions
  <2> HIDE DEF linked
  <2>2. QED
      BY <1>1, <1>2, <1>4, <1>5, <1>7, <2>1
<1>8. QED
    BY <1>6, <1>7

\* The robot starts with the plant and no run.
LEMMA FilesInit == Init => FilesInv /\ RunInv
<1> SUFFICES ASSUME Init PROVE FilesInv /\ RunInv
    OBVIOUS
<1>1. FilesInv
  <2>1. DOMAIN environments \subseteq FileNames /\ DOMAIN environments # {}
    BY DEF Init, FileNames
  <2>2. \A name \in DOMAIN environments : environments[name] \in Environments
    BY PlantType DEF Init
  <2>3. QED
    BY <2>1, <2>2, PlantType, MissionsAssumption, BoundsAssumption DEF Init, FilesInv
<1>2. RunInv
    BY DEF Init, RunInv
<1>3. QED
    BY <1>1, <1>2

\* A step that prepares nothing new leaves the types as they are.
LEMMA FilesStep ==
    ASSUME PlanInv, FilesInv, [Next]_vars
    PROVE  FilesInv'
<1> USE DEF FilesInv
<1>1. ASSUME Aborts, UNCHANGED <<environments, mission_files, initiated>>,
             environment_cleaned' \in Environments
      PROVE  FilesInv'
    BY <1>1, MissionsAssumption, BoundsAssumption DEF Aborts
<1>2. ASSUME NEW m \in Missions, InitiateMission(m)
      PROVE  FilesInv'
  <2>1. initiated' \in 0..MaxMissions
    BY <1>2, BoundsAssumption DEF InitiateMission
  <2>2. CASE \A i \in DOMAIN TasksOf[m] : TasksOf[m][i] \in TaskTypes
    BY <1>2, <2>1, <2>2, MissionsAssumption, BoundsAssumption DEF InitiateMission, robotVars
  <2>3. CASE ~ \A i \in DOMAIN TasksOf[m] : TasksOf[m][i] \in TaskTypes
    <3>1. UNCHANGED <<environments, mission_files, pc, mission, attempts, environment_cleaned>>
      BY <1>2, <2>3 DEF InitiateMission, robotVars
    <3>2. QED
      BY <2>1, <3>1
  <2>4. QED
    BY <2>2, <2>3
<1>3. CASE ProcessEnds
    BY <1>1, <1>3, PlantType DEF ProcessEnds, robotVars
<1>4. ASSUME NEW from, NEW to, from # "idle", to # "idle", GetFile(from, to),
             environment_cleaned' \in Environments
      PROVE  FilesInv'
  <2>1. CASE Aborts
    BY <1>1, <1>4, <2>1 DEF GetFile, robotVars
  <2>2. CASE UNCHANGED mission /\ pc' # "idle" /\ attempts' \in 0..(NumRetries - 1)
    BY <1>4, <2>2 DEF GetFile, robotVars
  <2>3. QED
    BY <1>4, <2>1, <2>2, BoundsAssumption DEF GetFile
<1>5. CASE GetEnvironment
  <2>1. environment_cleaned' \in Environments
    BY <1>5, CleanupType DEF GetEnvironment
  <2>2. QED
    BY <1>4, <1>5, <2>1 DEF GetEnvironment
<1>6. CASE GetWaypoints
    BY <1>1, <1>4, <1>6 DEF GetWaypoints, robotVars
<1>7. ASSUME NEW next, next # "idle", pc # "idle", Answered(next),
             DOMAIN environments' \subseteq FileNames, DOMAIN environments' # {},
             \A name \in DOMAIN environments' : environments'[name] \in Environments,
             DOMAIN mission_files' \subseteq {"Dock", "AdHocMission"}
      PROVE  FilesInv'
  <2>1. environment_cleaned' = environment_cleaned /\ initiated' = initiated
    BY <1>7 DEF Answered
  <2>2. \/ pc' = next /\ UNCHANGED <<mission, attempts>>
        \/ pc' = "idle" /\ mission' = None /\ attempts' = 0
    BY <1>7 DEF Answered, Aborts
  <2>3. QED
    BY <1>7, <2>1, <2>2, MissionsAssumption, BoundsAssumption
<1>p. ASSUME NEW name \in FileNames,
             NEW env \in Environments, NEW next, next # "idle", pc # "idle",
             Put(name, env, next)
      PROVE  FilesInv'
  <2>1. /\ name \in DOMAIN environments' /\ environments'[name] = env
        /\ DOMAIN environments' \subseteq DOMAIN environments \union {name}
        /\ \A file \in DOMAIN environments' :
              file # name => environments'[file] = environments[file]
        /\ mission_files' = mission_files /\ Answered(next)
    BY <1>p, PutEffect
  <2>2. DOMAIN environments' \subseteq FileNames /\ DOMAIN environments' # {}
    BY <1>p, <2>1
  <2>3. ASSUME NEW file \in DOMAIN environments'
        PROVE  environments'[file] \in Environments
    <3>1. CASE file = name
      BY <1>p, <2>1, <3>1
    <3>2. CASE file # name
      BY <2>1, <3>2
    <3>3. QED
      BY <3>1, <3>2
  <2>4. QED
    BY <1>7, <1>p, <2>1, <2>2, <2>3
<1>8. CASE PutBackup
    BY <1>8, <1>p DEF PutBackup, FileNames
<1>9. CASE PutEnvironment
  <2>1. AddNewPoi(mission, environment_cleaned) \in Environments
    BY <1>9, AddNewPoiType DEF PutEnvironment
  <2>2. QED
    BY <1>9, <1>p, <2>1 DEF PutEnvironment, FileNames
<1>10. CASE PutMission
    BY <1>7, <1>10 DEF PutMission
<1>11. CASE PutFails
    BY <1>1, <1>11 DEF PutFails, robotVars
<1>12. CASE StartMission
    BY <1>1, <1>12 DEF StartMission
<1>13. CASE RobotSteps \/ UNCHANGED vars
  <2>1. UNCHANGED <<environments, mission_files, pc, mission, attempts, environment_cleaned,
                    initiated>>
    BY <1>13 DEF RobotSteps, vars, robotVars
  <2>2. QED
    BY <2>1
<1>14. QED
    BY <1>2, <1>3, <1>5, <1>6, <1>8, <1>9, <1>10, <1>11, <1>12, <1>13 DEF Next

\* A run starts at the first state of the plan that was made for its mission.
LEMMA RunStarts ==
    ASSUME PlanInv, RunInv, StartMission
    PROVE  RunInv'
<1>1. CASE UNCHANGED run
    BY <1>1 DEF RunInv
<1>2. CASE run' = [plan |-> mission_files["AdHocMission"], at |-> State(1), visited |-> <<>>]
  <2>1. mission \in Missions /\ mission_files["AdHocMission"] = CreateAdhocMission(mission)
    BY DEF StartMission, PlanInv, Preparing, ReadyInv
  <2>2. Tried(<<>>, State(1), Len(TasksOf[mission]) + 1)
    BY <2>1, MissionsAssumption DEF Tried
  <2> HIDE DEF Tried
  <2>3. /\ run'.plan = CreateAdhocMission(mission)
        /\ run'.at = State(1) /\ run'.visited = <<>>
    BY <1>2, <2>1
  <2>4. QED
    BY <1>2, <2>1, <2>2, <2>3 DEF RunInv
<1>3. QED
    BY <1>1, <1>2 DEF StartMission

\* A run goes on as its plan says.
LEMMA RunGoesOn ==
    ASSUME RunInv, RobotSteps
    PROVE  RunInv'
<1>1. run.at # Ends("none")
    BY DEF RobotSteps, Ends
<1>2. PICK m \in Missions : /\ run.plan = CreateAdhocMission(m)
                            /\ Tried(run.visited, run.at, Len(TasksOf[m]) + 1)
    BY <1>1 DEF RunInv
<1> DEFINE last == Len(TasksOf[m]) + 1
           k == Len(run.visited) + 1
<1>3. last \in Nat /\ Len(run.visited) \in Nat
    BY MissionsAssumption DEF RunInv
<1>4. run.at = State(k) /\ k \in 1..last
    BY <1>2, <1>3 DEF RobotSteps, Tried, Ends, State
<1>5. PICK outcome \in DOMAIN CreateAdhocMission(m).states[k].transitions :
          run' = [run EXCEPT !.at = CreateAdhocMission(m).states[k].transitions[outcome],
                             !.visited = Append(run.visited, [state |-> k, outcome |-> outcome])]
  <2>1. run.at[2] = k
    BY <1>4 DEF State
  <2>2. QED
    BY <1>2, <2>1 DEF RobotSteps
<1> DEFINE at == CreateAdhocMission(m).states[k].transitions[outcome]
           visited == Append(run.visited, [state |-> k, outcome |-> outcome])
<1>6. /\ outcome \in Outcomes
      /\ at = IF outcome = "preemption" THEN Ends("preemption")
              ELSE IF k = 1 /\ outcome = "failure" THEN Ends("failure")
              ELSE IF k < last THEN State(k + 1)
              ELSE IF outcome \in {"success", "normal"} THEN Ends("success")
              ELSE Ends("failure")
    BY <1>4, Transition
<1>7. run' = [plan |-> CreateAdhocMission(m), at |-> at, visited |-> visited]
    BY <1>2, <1>5 DEF RunInv
<1> HIDE DEF at
<1>8. /\ visited \in Seq([state : Nat, outcome : Outcomes])
      /\ Len(visited) = k /\ visited[k] = [state |-> k, outcome |-> outcome]
      /\ \A j \in 1..(k - 1) : visited[j] = run.visited[j]
  <2>1. [state |-> k, outcome |-> outcome] \in [state : Nat, outcome : Outcomes]
    BY <1>3, <1>6
  <2>2. run.visited \in Seq([state : Nat, outcome : Outcomes])
    BY DEF RunInv
  <2>3. QED
    BY <1>3, <2>1, <2>2
<1> HIDE DEF visited
<1>9. \A j \in 1..Len(visited) : visited[j].state = j
  <2>1. \A j \in 1..Len(run.visited) : run.visited[j].state = j
    BY <1>2 DEF Tried
  <2>2. k \in Nat /\ Len(run.visited) = k - 1
    BY <1>3
  <2> HIDE DEF k
  <2>3. ASSUME NEW j \in 1..Len(visited) PROVE visited[j].state = j
    <3>1. j \in Nat /\ 1 <= j /\ j <= k
      BY <1>8, <2>2, <2>3
    <3>2. CASE j = k
      BY <1>8, <3>2
    <3>3. CASE j # k
      <4>1. j \in 1..(k - 1) /\ j \in 1..Len(run.visited)
        BY <2>2, <3>1, <3>3
      <4>2. visited[j] = run.visited[j] /\ run.visited[j].state = j
        BY <1>8, <2>1, <4>1
      <4>3. QED
        BY <4>2
    <3>4. QED
      BY <3>2, <3>3
  <2>4. QED
    BY <2>3
<1>10. \/ at = State(Len(visited) + 1) /\ Len(visited) < last
       \/ at = Ends("preemption") /\ visited[Len(visited)].outcome = "preemption"
       \/ /\ at = Ends("failure")
          /\ \/ visited[1].outcome = "failure"
             \/ Len(visited) = last /\ visited[last].outcome \in {"failure", "anomaly"}
       \/ /\ at = Ends("success")
          /\ Len(visited) = last /\ visited[last].outcome \in {"success", "normal"}
  <2>1. visited[Len(visited)].outcome = outcome /\ Len(visited) = k
    BY <1>8
  <2>2. k < last \/ k = last
    BY <1>3, <1>4
  <2> HIDE DEF k, last
  <2>3. QED
    BY <1>6, <2>1, <2>2 DEF Outcomes
<1>11. Tried(visited, at, last)
    BY <1>9, <1>10 DEF Tried
<1>12. run'.plan = CreateAdhocMission(m) /\ run'.at = at /\ run'.visited = visited
    BY <1>7
<1> HIDE DEF last
<1>13. /\ run' = [plan |-> run'.plan, at |-> run'.at, visited |-> run'.visited]
       /\ run'.visited \in Seq([state : Nat, outcome : Outcomes])
       /\ Tried(run'.visited, run'.at, last)
    BY <1>7, <1>8, <1>11, <1>12
<1>14. QED
    BY <1>12, <1>13 DEF RunInv, last

\* Nothing else touches the run.
LEMMA RunStep ==
    ASSUME PlanInv, RunInv, [Next]_vars
    PROVE  RunInv'
<1>1. CASE UNCHANGED run
    BY <1>1 DEF RunInv
<1>2. QED
    BY <1>1, RunStarts, RunGoesOn
    DEF Next, vars, robotVars, InitiateMission, ProcessEnds, GetEnvironment, GetWaypoints,
        GetFile, PutBackup, PutEnvironment, Put, PutMission, PutFails, Answered

\* The three invariants together are inductive.
LEMMA PlanAlways == Spec => [](PlanInv /\ FilesInv /\ RunInv)
BY PlanInit, PlanStep, FilesInit, FilesStep, RunStep, PTL DEF Spec

\* Every variable has its type: on the robot there is never an environment with an
\* object that neither the plant nor a task of a mission accounts for.
THEOREM PlanTypeCorrect == Spec => []TypeOK
<1>1. PlanInv /\ FilesInv /\ RunInv => TypeOK
  <2> SUFFICES ASSUME PlanInv, FilesInv, RunInv PROVE TypeOK
    OBVIOUS
  <2>1. run.at[1] \in {"outcome", "state"}
    BY DEF RunInv, Tried, Ends, State
  <2>2. QED
    BY <2>1 DEF PlanInv, Preparing, FilesInv, FileNames, TypeOK, Prepared
<1>2. QED
    BY <1>1, PlanAlways, PTL

\* A run tries every task of its mission, in order and whatever the earlier ones
\* came to, for missions of any length: only preemption and a failure to undock
\* end it before its last state.
THEOREM RunsTryEveryTask == Spec => []EveryTaskIsTried
<1>1. RunInv => EveryTaskIsTried
  <2> SUFFICES ASSUME RunInv, run.plan # None PROVE EveryTaskIsTried
    BY DEF EveryTaskIsTried
  <2>1. PICK m \in Missions : /\ run.plan = CreateAdhocMission(m)
                              /\ Tried(run.visited, run.at, Len(TasksOf[m]) + 1)
    BY DEF RunInv
  <2>2. Len(run.plan.states) = Len(TasksOf[m]) + 1
    BY <2>1, PlanFitsEnvironment
  <2>3. Tried(run.visited, run.at, Len(run.plan.states))
    BY <2>1, <2>2
  <2>4. QED
    BY <2>3 DEF Tried, EveryTaskIsTried
<1>2. QED
    BY <1>1, PlanAlways, PTL

=============================================================================
