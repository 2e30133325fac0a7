---------------------------- MODULE MCVssMapping ----------------------------
(* The DBC files of MCDbcDatabase, with mappings that have an unmapped path *)
(* and two paths for one signal.                                            *)
EXTENDS VssMapping, MCDbcDatabase

MCYamls == {<<[key |-> "Vehicle", type |-> "branch"], [key |-> "Vehicle.Speed", type |-> "leaf"]>>}
Pair(vss, dbc) == [vss |-> vss, dbc |-> dbc]
MCMappers ==
  {<<Pair("Version", "1.0"), Pair("Speed", "a"), Pair("Angle", ""), Pair("Width", "b")>>,
   <<Pair("Speed", "a"), Pair("Average", "a"), Pair("Gear", "c"), Pair("Mode", "mux")>>}
=============================================================================
