----------------------------- MODULE StopImport -----------------------------
(***************************************************************************)
(* app/db/import_stops.py: upsert the stops of a GTFS feed, the national   *)
(* one or what the filter has written, into the stops table.               *)
(***************************************************************************)
EXTENDS GtfsFilter

CONSTANTS
    NoPlace,       \* coordinates or a location type that do not parse
    MaxRows        \* how many rows the parameters of one statement make

ASSUME MaxRowsAssumption == MaxRows \in Nat

VARIABLE table     \* the rows of the table

vars == <<filter, table>>

Init == FilterInit /\ table = {}

\* _read_stops: where the rows are that can be placed.
Placeable(f) == {i \in DOMAIN f.stops : f.stops[i].place # NoPlace}

FirstRows(f) ==
    {f.stops[i] : i \in {j \in Placeable(f) :
        \A k \in Placeable(f) : f.stops[k].id = f.stops[j].id => k >= j}}

\* One row per stop: the last one of those that can be placed.
LastRows(f) ==
    {f.stops[i] : i \in {j \in Placeable(f) :
        \A k \in Placeable(f) : f.stops[k].id = f.stops[j].id => k <= j}}

\* ON CONFLICT (stop_id) DO UPDATE.
Upsert(rows) == rows \cup {old \in table : \A row \in rows : row.id # old.id}

\* One statement for all rows: too many, and the driver refuses it; none, and the
\* import ends before the database is asked, as it does when stops.txt is absent or
\* damaged.  A torn file is no zip.
Import(f) == /\ LastRows(f) # {}
             /\ Cardinality(LastRows(f)) <= MaxRows
             /\ table' = Upsert(LastRows(f))
             /\ UNCHANGED filter

Next == \/ FilterNext /\ UNCHANGED table
        \/ \E f \in Readable : Import(f)

Spec == Init /\ [][Next]_vars

\* A started script runs on; nobody has to start one, or to stop it.
FairSpec == Spec /\ WF_vars((Climb \/ Write \/ Raise) /\ UNCHANGED table)

-----------------------------------------------------------------------------

Ids(rows) == {row.id : row \in rows}

\* The table has one row for a stop, and none that an import did not put there.
\* An import brings in every stop our trips call at, with its station and as the
\* national feed describes it, through whichever file it came, and takes no stop
\* away: also when the statement fails, a stop is listed twice, a row is malformed or
\* the filter was stopped before it had written all members.
StopsArrive ==
    [][table' # table =>
          /\ Ids(table) \subseteq Ids(table')
          /\ Cardinality(Ids(table')) = Cardinality(table')
          /\ \A s \in Called(national) \cup AllParents(national, Called(national)) :
                Listed(national, s) /\ RowOf(national, s).place # NoPlace
                    => RowOf(national, s) \in table'
      ]_vars

\* What every step preserves: stop_id is the key of the table.
TableInv == /\ IsFiniteSet(table)
            /\ \A row, old \in table : row.id = old.id => row = old
=============================================================================
