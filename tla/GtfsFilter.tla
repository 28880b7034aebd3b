----------------------------- MODULE GtfsFilter -----------------------------
(***************************************************************************)
(* otp/scripts/filter_gtfs_gvb.py: cut the national GTFS feed down to one  *)
(* operator, repair the bike flag of its off-peak metro trips, and close   *)
(* the stops under their parent stations, one layer of parents at a time.  *)
(* It may be run again on what it has written, also when that run did not  *)
(* get to its end: a zip file that is closed early has the members that    *)
(* had been written, and the script reads it like any other.               *)
(***************************************************************************)
EXTENDS Integers, FiniteSets, Sequences, SequencesExt

CONSTANTS
    Feeds,         \* the national feeds there may be: records of
                   \*   agencies     [id, ours]
                   \*   routes       [id, agency, metro]
                   \*   trips        [id, route, service, shape, bikes]
                   \*   calls        [trip, stop, times], the times that parse
                   \*   stops        a sequence of [id, parent, place]
                   \*   services, shapes, frequencies (of trips), transfers
                   \*   members, damaged: of the zip file, see below
    RushWindows,   \* RUSH_WINDOWS: the pairs of start and end
    Day,           \* 24:00:00 in the unit of the times
    NoParent,      \* an empty parent_station
    Nothing,       \* no output has been written
    Torn           \* an output that was begun and not closed: no zip file

\* The members of a zip file in the order in which the script writes them (agency.txt
\* to frequencies.txt; calls is stop_times.txt, services are both calendars), and those
\* without which a run cannot go on.  An absent or damaged member has no rows here.
Order == <<"agencies", "routes", "calls", "trips", "stops", "services", "shapes",
           "transfers", "frequencies">>
Before(n) == {Order[i] : i \in 1..n}
Names == Before(Len(Order))
Required == {"routes", "calls", "trips", "stops"}

Legible(f) == f.members \ f.damaged

Known(f, trip) == UNION {c.times : c \in {d \in f.calls : d.trip = trip}}

\* The members are finite, stops.txt is read row by row, and the ids of its stops and of
\* the trips are the keys that GTFS requires.  No member of it is damaged, and a member
\* that it lacks is as one without rows.
ASSUME FeedsAssumption ==
    \A f \in Feeds :
        /\ f.members = Names /\ f.damaged = {}
        /\ Len(f.stops) \in Nat /\ DOMAIN f.stops = 1..Len(f.stops)
        /\ \A i \in DOMAIN f.stops : f.stops[i].id # NoParent
        /\ \A t \in f.trips :
              /\ t = [id |-> t.id, route |-> t.route, service |-> t.service,
                      shape |-> t.shape, bikes |-> t.bikes]
              /\ t.bikes \in BOOLEAN
              /\ \A u \in f.trips : u.id = t.id => u = t
        /\ IsFiniteSet(f.calls) /\ \A c \in f.calls : c.times \subseteq Nat

\* What the comment on RUSH_WINDOWS supposes: a late-night run has ended before the
\* first rush hour of the next day, and a window is longer than the unit of time.
ASSUME RushAssumption ==
    /\ Day \in Nat \ {0}
    /\ \A w \in RushWindows :
        /\ w \in Nat \X Nat
        /\ w[1] + 1 < w[2] /\ w[2] <= Day
        /\ \A f \in Feeds : \A t \in f.trips : \A s \in Known(f, t.id) : s <= Day + w[1]

VARIABLES
    national,      \* the national feed
    dst,           \* the output file
    phase,         \* what the script is doing
    input,         \* the feed it reads: the national one, or an earlier output
    keep,          \* the ids of the stops to be written
    frontier       \* those whose parents have not been looked up

filter == <<national, dst, phase, input, keep, frontier>>

-----------------------------------------------------------------------------

OurAgencies(f) == {a \in f.agencies : a.ours}

OurRoutes(f) == {r \in f.routes : \E a \in OurAgencies(f) : a.id = r.agency}

OurTrips(f) == {t \in f.trips : \E r \in OurRoutes(f) : r.id = t.route}

OurCalls(f) == {c \in f.calls : \E t \in OurTrips(f) : t.id = c.trip}

Called(f) == {c.stop : c \in OurCalls(f)}

\* bike_candidates: a trip of ours by metro that carries no bikes.
Candidate(f, t) == ~ t.bikes /\ \E r \in OurRoutes(f) : r.id = t.route /\ r.metro

EndsOffPeak(f, t) ==
    \A w \in RushWindows : \/ \A s \in Known(f, t.id) : s <= w[1]
                           \/ \E s \in Known(f, t.id) : s >= w[2]

\* The span of the known times overlaps no rush window.
OffPeak(f, t) ==
    /\ Known(f, t.id) # {}
    /\ \A w \in RushWindows : \/ \A s \in Known(f, t.id) : s <= w[1]
                              \/ \A s \in Known(f, t.id) : s >= w[2]

RepairedAfresh(f) ==
    {[t EXCEPT !.bikes = Candidate(f, t) /\ OffPeak(f, t)] : t \in OurTrips(f)}

Repaired(f) == {[t EXCEPT !.bikes = t.bikes \/ (Candidate(f, t) /\ OffPeak(f, t))] :
                    t \in OurTrips(f)}

Listed(f, s) == \E i \in DOMAIN f.stops : f.stops[i].id = s

\* all_stops: the last of the rows with one id counts.
RowOf(f, s) == LET i == CHOOSE i \in DOMAIN f.stops :
                            /\ f.stops[i].id = s
                            /\ \A j \in DOMAIN f.stops : f.stops[j].id = s => j <= i
               IN  f.stops[i]

RowsOf(f, ids) == {RowOf(f, s) : s \in {x \in ids : Listed(f, x)}}

AllParents(f, ids) == {row.parent : row \in RowsOf(f, ids)} \ {NoParent}

NoParents(f, ids) == {}

\* The stations above the frontier that are not kept yet.
NewParents(f, ids) == AllParents(f, ids) \ keep

\* The members of the output; that of the stops is in the order of a Python set.
Cut(f, ids) ==
    [agencies    |-> OurAgencies(f),
     routes      |-> OurRoutes(f),
     trips       |-> Repaired(f),
     calls       |-> OurCalls(f),
     stops       |-> SetToSeq(RowsOf(f, ids)),
     services    |-> {s \in f.services : \E t \in OurTrips(f) : t.service = s},
     shapes      |-> {s \in f.shapes : \E t \in OurTrips(f) : t.shape = s},
     transfers   |-> {x \in f.transfers : x[1] \in ids /\ x[2] \in ids},
     frequencies |-> {id \in f.frequencies : \E t \in OurTrips(f) : t.id = id},
     members     |-> f.members,
     damaged     |-> {}]

\* What is left of an output of which only these members were written, some of them
\* damaged.
Part(f, members, damaged) ==
    LET Of(member, rows, none) == IF member \in members \ damaged THEN rows ELSE none
    IN  [agencies    |-> Of("agencies", f.agencies, {}),
         routes      |-> Of("routes", f.routes, {}),
         trips       |-> Of("trips", f.trips, {}),
         calls       |-> Of("calls", f.calls, {}),
         stops       |-> Of("stops", f.stops, <<>>),
         services    |-> Of("services", f.services, {}),
         shapes      |-> Of("shapes", f.shapes, {}),
         transfers   |-> Of("transfers", f.transfers, {}),
         frequencies |-> Of("frequencies", f.frequencies, {}),
         members     |-> members,
         damaged     |-> damaged]

\* A member that is absent and required has no header to write, a damaged one raises
\* when it is read; any other that is absent is left out.
Fails(f, i) == Order[i] \in f.damaged \cup (Required \ f.members)

\* A run that reads f gets past its first n members.
Passes(f, n) == \A i \in 1..n : ~ Fails(f, i)

-----------------------------------------------------------------------------

FilterInit == /\ national \in Feeds
              /\ dst = Nothing
              /\ phase = "idle"
              /\ input = Nothing
              /\ keep = {}
              /\ frontier = {}

Readable == {national, dst} \ {Nothing, Torn}

\* Agencies to trips.  Without an agency that matches, or when one of these members is
\* damaged, the script ends before it has touched the output; otherwise the output is
\* opened and emptied.  (An earlier output is read from where it was moved to.)
Begin(f) == /\ phase = "idle"
            /\ {"agencies", "routes", "trips"} \cap f.damaged = {}
            /\ OurAgencies(f) # {}
            /\ phase' = "climbing"
            /\ input' = f
            /\ keep' = Called(f)
            /\ frontier' = Called(f)
            /\ dst' = Torn
            /\ UNCHANGED national

\* One turn of the closure loop.
Climb == /\ phase = "climbing"
         /\ frontier # {}
         /\ "stops" \notin input.damaged
         /\ keep' = keep \cup NewParents(input, frontier)
         /\ frontier' = NewParents(input, frontier)
         /\ UNCHANGED <<national, dst, phase, input>>

\* The run is over, and this is what it leaves.
End(output) == /\ phase' = "idle"
               /\ dst' = output
               /\ input' = Nothing
               /\ keep' = {}
               /\ frontier' = {}
               /\ UNCHANGED national

\* Closed after n members, of which the last one may be damaged: writestr enters a
\* member into the zip file also when it is stopped while it compresses the data.
Zipped(n, damaged) == Part(Cut(input, keep), Before(n) \cap input.members, damaged)

\* The remaining members; the zip file is closed.
Write == /\ phase = "climbing"
         /\ frontier = {}
         /\ Passes(input, Len(Order))
         /\ End(Cut(input, keep))

\* A member cannot be read: an exception closes the zip file where it is.
Raise == /\ phase = "climbing"
         /\ frontier = {} \/ "stops" \in input.damaged
         /\ \E n \in 0..Len(Order) - 1 :
               /\ Passes(input, n) /\ Fails(input, n + 1)
               /\ End(Zipped(n, {}))

\* Ctrl-C, or any other exception, closes the zip file as well.  The stops are written
\* after the closure.
Interrupt ==
    /\ phase = "climbing"
    /\ \E n \in 0..Len(Order) :
          /\ Passes(input, n)
          /\ frontier # {} => n < 5
          /\ \E damaged \in SUBSET ((Before(n) \ Before(n - 1)) \cap input.members) :
                 End(Zipped(n, damaged))

\* The script is killed, or the disk is full: nothing closes the file.
Kill == phase = "climbing" /\ End(Torn)

FilterNext == \/ Climb \/ Write \/ Raise \/ Interrupt \/ Kill
              \/ \E f \in Readable : Begin(f)

-----------------------------------------------------------------------------

Present == dst \notin {Nothing, Torn}

\* No member is missing.
Whole == Present /\ Legible(dst) = Names

StopIds(f) == {f.stops[i].id : i \in DOMAIN f.stops}

\* What is said of our trips and calls can be followed as far as in the national
\* feed, and all of it has come along.
TripsIntact ==
    /\ {t.id : t \in dst.trips} = {t.id : t \in OurTrips(national)}
    /\ dst.calls = OurCalls(national)
    /\ \A t \in dst.trips : /\ \E r \in dst.routes : r.id = t.route
                            /\ t.service \in national.services => t.service \in dst.services
                            /\ t.shape \in national.shapes => t.shape \in dst.shapes
                            /\ t.id \in national.frequencies => t.id \in dst.frequencies

\* So can the stops they call at, and the stations at any height above these; a stop
\* keeps its row and its transfers.
StopsIntact ==
    /\ \A s \in Called(dst) : Listed(national, s) => Listed(dst, s)
    /\ \A s \in StopIds(dst) :
          /\ RowOf(dst, s) = RowOf(national, s)
          /\ Listed(national, RowOf(dst, s).parent) => Listed(dst, RowOf(dst, s).parent)
    /\ \A x \in national.transfers : {x[1], x[2]} \subseteq StopIds(dst) => x \in dst.transfers

\* No stop is there without need: it lies in every set that holds the stops that
\* are called at and the parents of its members.
NoStopIdle == \A C \in SUBSET StopIds(dst) :
                  (Called(dst) \cup AllParents(dst, C)) \cap StopIds(dst) \subseteq C
                      => C = StopIds(dst)

\* An output that has its members is our part of the national feed, the whole of it and
\* no more, after any number of runs over each other's output.  (A run that is stopped
\* leaves an output without some of its members, which nothing tells from a whole one
\* but what is in it.)
OutputIntact == Whole => (TripsIntact /\ StopsIntact /\ NoStopIdle)

\* A trip that has been given its bikes is at no moment of its run, on whichever
\* day this moment falls, within a rush hour (the comment on RUSH_WINDOWS), also in
\* an output of which members are missing.
OffPeakOnly ==
    Present => \A t \in dst.trips, u \in national.trips :
        t.id = u.id /\ t.bikes /\ ~ u.bikes
            => \A a, b \in Known(dst, t.id) : \A s \in a..b :
                  \A w \in RushWindows : ~ (w[1] < s % Day /\ s % Day < w[2])

\* Filtering an output again changes nothing (the script's docstring): a run that gets
\* to its end leaves what it has read, whole or without its optional members.
Idempotent == [][Write /\ input # national => dst' = input]_filter

\* The closure ends, although stations may name each other as their parents.
ClosureEnds == phase = "climbing" ~> phase = "idle"

-----------------------------------------------------------------------------
(* Why all of this holds.                                                  *)

\* The stops called at, and what is named as a parent: all that can be kept.
Universe == Called(national) \cup {national.stops[i].parent : i \in DOMAIN national.stops}

\* Nothing is missing from these ids, and nothing can be taken from them.
Closed(f, ids) == Called(f) \cup AllParents(f, ids) \subseteq ids
Needed(f, ids) == \A C \in SUBSET Universe : Closed(f, C) => ids \subseteq C

Closure(f, ids) == ids \subseteq Universe /\ Closed(f, ids) /\ Needed(f, ids)

\* What a run may leave, however many have read each other's output.  With the trips in
\* it, it is a part of a cut of the national feed; with the stops, a part of the cut to
\* the closure.
Tables == {"agencies", "routes", "calls", "trips"}
CutOf(f, ids) == /\ "stops" \in Legible(f) => Closure(national, ids)
                 /\ f = Part(Cut(national, ids), f.members, f.damaged)

IsOutput(f) ==
    /\ f.damaged \subseteq f.members /\ f.members \subseteq Names
    /\ "stops" \in Legible(f) => "trips" \in Legible(f)
    /\ "stops" \notin Legible(f) => f.stops = <<>>
    /\ "trips" \notin Legible(f) => f.trips = {}
    /\ "trips" \in Legible(f) => /\ Tables \subseteq Legible(f)
                                 /\ \E ids \in SUBSET Universe : CutOf(f, ids)

\* The loop has kept nothing without need, and looked up the parents of what it kept
\* but for the frontier.
ClimbInv ==
    phase = "climbing" =>
        /\ input = national \/ IsOutput(input)
        /\ keep \subseteq Universe /\ frontier \subseteq keep
        /\ Called(input) \cup AllParents(input, keep \ frontier) \subseteq keep
        /\ Needed(input, keep)

FilterInv == /\ national \in Feeds
             /\ Present => IsOutput(dst)
             /\ ClimbInv
=============================================================================
