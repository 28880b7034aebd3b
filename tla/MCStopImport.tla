---------------------------- MODULE MCStopImport ----------------------------
(***************************************************************************)
(* Small national feeds: a metro trip and a bus trip of ours, a trip of    *)
(* another operator, three stops and a station id that no row lists.       *)
(***************************************************************************)
EXTENDS StopImport

CONSTANTS nothing, torn, none, unplaced

Ids4 == {"platform", "halt", "station", "unlisted"}

Stop(s, p, place) == [id |-> s, parent |-> p, place |-> place]

\* The first call at from, the last one at to; times in half hours.
Feed(stops, from, to, timed) ==
    [agencies    |-> {[id |-> "gvb", ours |-> TRUE], [id |-> "ns", ours |-> FALSE]},
     routes      |-> {[id |-> "m52", agency |-> "gvb", metro |-> TRUE],
                      [id |-> "b22", agency |-> "gvb", metro |-> FALSE],
                      [id |-> "ic", agency |-> "ns", metro |-> FALSE]},
     trips       |-> {[id |-> "t1", route |-> "m52", service |-> "wk", shape |-> "s1",
                       bikes |-> FALSE],
                      [id |-> "t2", route |-> "b22", service |-> "we", shape |-> "s2",
                       bikes |-> FALSE],
                      [id |-> "t3", route |-> "ic", service |-> "wk", shape |-> "s3",
                       bikes |-> TRUE]},
     calls       |-> {[trip |-> "t1", stop |-> "platform", times |-> from],
                      [trip |-> "t1", stop |-> "unlisted", times |-> to],
                      [trip |-> "t2", stop |-> "platform", times |-> timed],
                      [trip |-> "t3", stop |-> "halt", times |-> {20}]},
     stops       |-> stops,
     services    |-> {"wk", "old"},
     shapes      |-> {"s1", "s3"},
     transfers   |-> {<<"platform", "station">>, <<"halt", "platform">>},
     frequencies |-> {"t2", "t3"},
     members     |-> Names,
     damaged     |-> {}]

Times == {13, 14, 15, 18, 19, 32, 37, 38, 50}

\* Every way in which the three stops may name their parents, also twice over.
ParentFeeds ==
    {Feed(<<Stop("platform", p[1], 1), Stop("halt", p[2], 2), Stop("station", p[3], 3)>>
          \o more, {19}, {20}, {}) :
        p \in [1..3 -> Ids4 \cup {none}],
        more \in {<<>>, <<Stop("platform", "halt", 4)>>, <<Stop("station", none, unplaced)>>}}

\* Every run of the metro trip, at a stop that is listed twice; its first or its last
\* time may not parse.
TimeFeeds ==
    {Feed(<<Stop("platform", none, 4), Stop("station", none, 3), Stop("platform", "station", 1)>>,
          from, to, from) :
        from \in {{a, a + 1} : a \in Times} \cup {{}}, to \in {{b} : b \in Times} \cup {{}}}

MCFeeds == ParentFeeds \cup TimeFeeds

MCRushWindows == {<<14, 18>>, <<32, 37>>}
=============================================================================
