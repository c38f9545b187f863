--------------------------- MODULE MCMissionPlan ---------------------------
(***************************************************************************)
(* MissionPlan for TLC: a mission of two tasks, one of one task of another *)
(* type and one that cannot be converted, on a plant with an object of     *)
(* each sort.                                                              *)
(***************************************************************************)
EXTENDS MissionPlan

CONSTANTS m1, m2, m3

MCMissions == {m1, m2, m3}
MCTasksOf ==
    [m \in MCMissions |->
        CASE m = m1 -> <<"visual", "co2">>
          [] m = m2 -> <<"thermal">>
          [] OTHER  -> <<"visual", "unsupported">>]
MCPlantObjects ==
    {[name |-> <<"Plant", "dock">>, kind |-> "docking_station"],
     [name |-> <<"Plant", "zone">>, kind |-> "navigation_zone"],
     [name |-> <<"Plant", "goal">>, kind |-> "navigation_goal"]}
MCPlantRelations == {[parent |-> <<"Plant", "zone">>, child |-> <<"Plant", "goal">>]}

=============================================================================
