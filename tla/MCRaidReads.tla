---------------------------- MODULE MCRaidReads -----------------------------
(***************************************************************************)
(* The queries over every table of up to three raids that reports stored   *)
(* in any order and deleted in any batch lead to: raids of two keys of the *)
(* manifest or of none, full clears or not, finished by some, by nobody,   *)
(* or with another character than the one that is stored, by players under *)
(* changing membership types, of every kind of tier, that ended in the     *)
(* window or not.                                                          *)
(***************************************************************************)
EXTENDS RaidTables

MCPeople == 1 .. 3
MCTypes == {0, 3}
MCRaidKeys == {"k", "l"}
MCInstances == 1 .. 3
MCCutoffs == {1, 4}

Run(who, type, done, kills, deaths, class) ==
    [who |-> who, type |-> type, done |-> done, kills |-> kills, deaths |-> deaths,
     assists |-> 1, class |-> class]

Report(key, ended, fresh, tier, entries) ==
    [key |-> key, period |-> 1, ended |-> ended, fresh |-> fresh, tier |-> tier, entries |-> entries]

MCReports ==
    {Report("k", 4, TRUE, 0, <<Run(1, 3, TRUE, 1, 0, "Titan"), Run(2, 3, TRUE, 3, 2, "Hunter")>>),
     Report("k", 5, TRUE, 1, <<Run(1, 3, TRUE, 0, 2, "Titan"), Run(2, 0, TRUE, 0, 0, "Warlock"),
                               Run(2, 0, FALSE, 1, 0, "Titan"), Run(3, 3, TRUE, 5, 1, "Unknown")>>),
     Report("l", 3, TRUE, -1, <<Run(1, 3, TRUE, 2, 1, "Hunter"), Run(3, 3, TRUE, 2, 0, "Titan")>>),
     Report("l", 5, FALSE, 0, <<Run(2, 3, TRUE, 1, 1, "Titan")>>),
     Report("l", 4, TRUE, 2, <<Run(3, 3, FALSE, 4, 3, "Hunter"), Run(3, 3, TRUE, 1, 0, "Titan")>>),
     Report("none", 5, TRUE, 0, <<Run(2, 3, TRUE, 2, 2, "Titan")>>),
     Report("k", 0, TRUE, 0, <<Run(1, 3, FALSE, 9, 1, "Titan")>>)}
=============================================================================
