---------------------------- MODULE MCGosArchive ----------------------------
EXTENDS GosArchive

Entry(c, m, ws) == [char |-> c, member |-> m, completed |-> 1, duration |-> 5, weapons |-> ws]

\* The report of instance 1 comes in two versions, the later one with fewer
\* players; an entry without identity, a second entry of one character, and
\* entries that disagree on the duration are among them.
Report(i) ==
    [id |-> i, phase |-> IF i = 1 THEN 1 ELSE None, fromBeginning |-> FALSE,
     entries |-> <<Entry("a", "m", {7}), Entry("b", None, {7}),
                   [Entry("a", "n", {8}) EXCEPT !.duration = 6]>>]
Reissued == [id |-> 1, phase |-> 0, fromBeginning |-> None, entries |-> <<Entry("c", "n", {})>>]

MCReplies ==
    {[http |-> 200, code |-> 1, response |-> r] : r \in {Report(1), Report(3), Reissued, Garbage}}
    \cup {[http |-> 200, code |-> 5, response |-> None],
          [http |-> 404, code |-> None, response |-> None]}
MCLimits == {All, 1}
=============================================================================
