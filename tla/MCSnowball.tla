----------------------------- MODULE MCSnowball -----------------------------
(***************************************************************************)
(* A seed whose raid leads to a wave of two players with two raids in      *)
(* common, one of them with a third player whose membership type is not    *)
(* valid.  One raid has no duration of its own, one a report that puts its *)
(* end in the future until the clock gets there, one may not be completed. *)
(***************************************************************************)
EXTENDS Snowball, TLC

CONSTANTS a, b, c, d, r1, r2, r3, w1, w2

MCPlayers == {a, b, c, d}
MCRaids == {r1, r2, r3}
MCInvalid == {d}
MCSeeds == {a}
MCWorkers == {w1, w2}

Played(done, span) ==
    [done |-> done, span |-> span, kills |-> 1, deaths |-> 1, assists |-> 0, class |-> "Titan"]

Saw(period, length, party) ==
    [key |-> "k", period |-> period, length |-> length, fresh |-> TRUE, tier |-> 0,
     entries |-> party]

MCReports ==
    (r1 :> {Saw(1, 0, a :> Played(TRUE, 1) @@ b :> Played(FALSE, 2) @@ c :> Played(TRUE, 0))}) @@
    (r2 :> {Saw(2, 3, b :> Played(TRUE, 1) @@ c :> Played(TRUE, 1))}) @@
    (r3 :> {Saw(1, 1, b :> Played(x, 1) @@ c :> Played(x, 1) @@ d :> Played(FALSE, 1)) : x \in BOOLEAN})

MCHistory == a :> <<{r1}>> @@ b :> <<{r1, r2}, {r3}>> @@ c :> <<{r1, r2, r3}>> @@ d :> <<>>
=============================================================================
