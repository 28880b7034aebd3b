--------------------------- MODULE StopImportProofs ---------------------------
(***************************************************************************)
(* Proofs about the feed: for any national feed, any number of runs of the *)
(* filter over each other's output and any interruption of them, an output *)
(* is a cut of the national feed or, when a run was stopped, a part of     *)
(* one, filtering it again changes nothing, and an import brings in every  *)
(* stop of our trips.                                                      *)
(***************************************************************************)
EXTENDS StopImport, FiniteSetTheorems, WellFoundedInduction, TLAPS

-----------------------------------------------------------------------------
(* Rows.                                                                   *)

\* A member of a feed that is read row by row.
InRows(f) == Len(f.stops) \in Nat /\ DOMAIN f.stops = 1..Len(f.stops)

\* Positions that are bounded have a last one.
LEMMA LastOf ==
    ASSUME NEW S \in SUBSET Nat, S # {}, NEW n \in Nat, \A x \in S : x <= n
    PROVE  \E x \in S : \A y \in S : y <= x
<1> DEFINE T == {n - x : x \in S}
<1>1. T \subseteq Nat /\ T # {}
  <2>1. \A x \in S : n - x \in Nat
    OBVIOUS
  <2>2. PICK x \in S : TRUE
    OBVIOUS
  <2>3. n - x \in T
    OBVIOUS
  <2> QED  BY <2>1, <2>3
<1>2. PICK d \in T : \A e \in T : ~ (<<e, d>> \in OpToRel(<, Nat))
  <2>1. IsWellFoundedOn(OpToRel(<, Nat), Nat)
    BY NatLessThanWellFounded
  <2> HIDE DEF T
  <2> QED  BY <1>1, <2>1, WFMin
<1>3. \A a \in Nat, b \in Nat : a < b => <<a, b>> \in OpToRel(<, Nat)
  BY DEF OpToRel
<1>4. \A e \in T : ~ (e < d)
  <2> HIDE DEF T
  <2> QED  BY <1>1, <1>2, <1>3, Zenon
<1>5. PICK x \in S : d = n - x
  OBVIOUS
<1>6. ASSUME NEW y \in S
      PROVE  y <= x
  <2>1. n - y \in T /\ ~ (n - y < n - x)
    BY <1>4, <1>5
  <2> QED  BY <2>1
<1> QED  BY <1>6

\* all_stops: the row of a stop is the last one with its id.
LEMMA RowOfIsLast ==
    ASSUME NEW f, InRows(f), NEW s, Listed(f, s)
    PROVE  \E i \in DOMAIN f.stops :
              /\ RowOf(f, s) = f.stops[i] /\ f.stops[i].id = s
              /\ \A j \in DOMAIN f.stops : f.stops[j].id = s => j <= i
<1> DEFINE S == {i \in DOMAIN f.stops : f.stops[i].id = s}
<1>1. S \in SUBSET Nat /\ S # {} /\ \A x \in S : x <= Len(f.stops)
  BY DEF InRows, Listed
<1>2. \E i \in S : \A j \in S : j <= i
  <2> HIDE DEF S
  <2> QED  BY <1>1, LastOf DEF InRows
<1>3. \E i \in DOMAIN f.stops :
         /\ f.stops[i].id = s
         /\ \A j \in DOMAIN f.stops : f.stops[j].id = s => j <= i
  BY <1>2
<1> QED  BY <1>3 DEF RowOf

\* The rows of a member are finitely many.
LEMMA RowsFinite ==
    ASSUME NEW f, InRows(f), NEW R, R \subseteq {f.stops[i] : i \in DOMAIN f.stops}
    PROVE  IsFiniteSet(R)
<1> DEFINE D == 1..Len(f.stops)
           T == {f.stops[i] : i \in D}
           g == [i \in D |-> f.stops[i]]
<1>1. g \in Surjection(D, T)
  BY DEF Surjection
<1>2. IsFiniteSet(D)
  BY FS_Interval DEF InRows
<1>3. IsFiniteSet(T)
  <2> HIDE DEF D, T, g
  <2> QED  BY <1>1, <1>2, FS_Surjection
<1>4. R \subseteq T
  BY DEF InRows
<1> HIDE DEF D, T
<1> QED  BY <1>3, <1>4, FS_Subset

\* The rows of some ids are rows of the member, each under its own id.
LEMMA RowsOfAre ==
    ASSUME NEW f, InRows(f), NEW ids
    PROVE  /\ IsFiniteSet(RowsOf(f, ids))
           /\ \A row : row \in RowsOf(f, ids) <=>
                  Listed(f, row.id) /\ row.id \in ids /\ row = RowOf(f, row.id)
           /\ \A s \in ids : Listed(f, s) => RowOf(f, s) \in RowsOf(f, ids)
<1>1. \A s : Listed(f, s) => /\ RowOf(f, s).id = s
                             /\ RowOf(f, s) \in {f.stops[i] : i \in DOMAIN f.stops}
  BY RowOfIsLast
<1>2. RowsOf(f, ids) \subseteq {f.stops[i] : i \in DOMAIN f.stops}
  BY <1>1 DEF RowsOf
<1>3. IsFiniteSet(RowsOf(f, ids))
  BY <1>2, RowsFinite
<1>4. \A row : row \in RowsOf(f, ids) <=>
                  Listed(f, row.id) /\ row.id \in ids /\ row = RowOf(f, row.id)
  BY <1>1 DEF RowsOf
<1> QED  BY <1>3, <1>4 DEF RowsOf

\* Writing a finite set row by row: the rows are those of the set.
LEMMA Listing ==
    ASSUME NEW S, IsFiniteSet(S)
    PROVE  /\ Len(SetToSeq(S)) \in Nat
           /\ DOMAIN SetToSeq(S) = 1..Len(SetToSeq(S))
           /\ \A x : x \in S <=> \E i \in DOMAIN SetToSeq(S) : SetToSeq(S)[i] = x
<1> DEFINE c == Cardinality(S)
           q == SetToSeq(S)
<1>1. c \in Nat /\ ExistsBijection(1..c, S)
  BY FS_CardinalityType
<1>2. \E g \in [1..c -> S] : IsInjective(g)
  BY <1>1 DEF ExistsBijection, Bijection, Injection
<1>3. q \in [1..c -> S] /\ IsInjective(q)
  BY <1>2 DEF SetToSeq
<1>4. DOMAIN q = 1..c /\ Len(q) = c
  BY <1>1, <1>3
<1>5. IsFiniteSet(1..c) /\ Cardinality(1..c) = c
  BY <1>1, FS_Interval
<1> HIDE DEF q
<1>6. q \in Injection(1..c, S)
  BY <1>3 DEF Injection
<1> HIDE DEF c
<1>7. q \in Surjection(1..c, S)
  BY <1>5, <1>6, FS_Injection DEF c
<1> QED  BY <1>1, <1>3, <1>4, <1>7 DEF Surjection, q

-----------------------------------------------------------------------------
(* Parents.                                                                *)

\* A station that is looked up for some of the ids is one of the parents of all.
LEMMA ParentsGrow ==
    ASSUME NEW f, NEW ids, NEW more, ids \subseteq more
    PROVE  AllParents(f, ids) \subseteq AllParents(f, more)
BY DEF AllParents, RowsOf

\* Ids can be looked up one part after the other.
LEMMA ParentsSplit ==
    ASSUME NEW f, NEW ids, NEW more
    PROVE  AllParents(f, ids \cup more) = AllParents(f, ids) \cup AllParents(f, more)
BY DEF AllParents, RowsOf

-----------------------------------------------------------------------------
(* A cut of a feed, and what another run of the filter makes of it.        *)

\* A trip keeps all its fields but the one the repair may set.
LEMMA RepairedTrip ==
    ASSUME NEW f \in Feeds, NEW u \in OurTrips(f), NEW b
    PROVE  /\ [u EXCEPT !.bikes = b] = [id |-> u.id, route |-> u.route, service |-> u.service,
                                        shape |-> u.shape, bikes |-> b]
           /\ u = [id |-> u.id, route |-> u.route, service |-> u.service,
                   shape |-> u.shape, bikes |-> u.bikes]
           /\ u.bikes \in BOOLEAN
<1>1. /\ u = [id |-> u.id, route |-> u.route, service |-> u.service,
              shape |-> u.shape, bikes |-> u.bikes]
      /\ u.bikes \in BOOLEAN
  BY FeedsAssumption DEF OurTrips
<1> DEFINE v == [id |-> u.id, route |-> u.route, service |-> u.service,
                 shape |-> u.shape, bikes |-> u.bikes]
<1>2. [v EXCEPT !.bikes = b] = [id |-> u.id, route |-> u.route, service |-> u.service,
                                shape |-> u.shape, bikes |-> b]
  OBVIOUS
<1> QED  BY <1>1, <1>2

\* What the repair writes: the trips of ours, each with the flag it had or is given.
LEMMA RepairedAre ==
    ASSUME NEW f \in Feeds
    PROVE  /\ \A t \in Repaired(f) : \E u \in OurTrips(f) :
                 /\ t.id = u.id /\ t.route = u.route /\ t.service = u.service
                 /\ t.shape = u.shape
                 /\ t = [id |-> t.id, route |-> t.route, service |-> t.service,
                         shape |-> t.shape, bikes |-> t.bikes]
                 /\ t.bikes = (u.bikes \/ (Candidate(f, u) /\ OffPeak(f, u)))
                 /\ t.bikes \in BOOLEAN /\ u.bikes \in BOOLEAN
           /\ \A u \in OurTrips(f) : \E t \in Repaired(f) :
                 /\ t.id = u.id /\ t.route = u.route /\ t.service = u.service
                 /\ t.shape = u.shape
<1> DEFINE bikes(u) == u.bikes \/ (Candidate(f, u) /\ OffPeak(f, u))
           fixed(u) == [u EXCEPT !.bikes = bikes(u)]
<1>1. Repaired(f) = {fixed(u) : u \in OurTrips(f)}
  BY DEF Repaired
<1>2. \A u \in OurTrips(f) : /\ u.bikes \in BOOLEAN
                             /\ fixed(u) = [id |-> u.id, route |-> u.route, service |-> u.service,
                                            shape |-> u.shape, bikes |-> bikes(u)]
  BY RepairedTrip
<1>3. \A u \in OurTrips(f) : bikes(u) \in BOOLEAN
  OBVIOUS
<1> HIDE DEF bikes, fixed
<1>4. ASSUME NEW t \in Repaired(f)
      PROVE  \E u \in OurTrips(f) :
                 /\ t.id = u.id /\ t.route = u.route /\ t.service = u.service
                 /\ t.shape = u.shape
                 /\ t = [id |-> t.id, route |-> t.route, service |-> t.service,
                         shape |-> t.shape, bikes |-> t.bikes]
                 /\ t.bikes = bikes(u)
                 /\ t.bikes \in BOOLEAN /\ u.bikes \in BOOLEAN
  <2>1. PICK u \in OurTrips(f) : t = fixed(u)
    BY <1>1
  <2> QED  BY <1>2, <1>3, <2>1
<1>5. ASSUME NEW u \in OurTrips(f)
      PROVE  \E t \in Repaired(f) :
                 /\ t.id = u.id /\ t.route = u.route /\ t.service = u.service
                 /\ t.shape = u.shape
  <2>1. fixed(u) \in Repaired(f)
    BY <1>1
  <2> QED  BY <1>2, <2>1
<1> QED  BY <1>4, <1>5 DEF bikes

\* The filter finds the same agencies, routes, trips and calls in a cut as in its feed.
LEMMA CutTables ==
    ASSUME NEW f \in Feeds, NEW ids
    PROVE  LET g == Cut(f, ids)
           IN  /\ OurAgencies(g) = OurAgencies(f) /\ g.agencies = OurAgencies(f)
               /\ OurRoutes(g) = OurRoutes(f) /\ g.routes = OurRoutes(f)
               /\ OurTrips(g) = Repaired(f) /\ g.trips = Repaired(f)
               /\ OurCalls(g) = OurCalls(f) /\ g.calls = OurCalls(f)
               /\ Called(g) = Called(f)
<1> DEFINE g == Cut(f, ids)
<1>1. /\ g.agencies = OurAgencies(f) /\ g.routes = OurRoutes(f)
      /\ g.trips = Repaired(f) /\ g.calls = OurCalls(f)
  BY DEF Cut
<1> HIDE DEF g
<1>2. OurAgencies(g) = OurAgencies(f)
  BY <1>1 DEF OurAgencies
<1>3. OurRoutes(g) = OurRoutes(f)
  BY <1>1, <1>2 DEF OurRoutes
<1>4. OurTrips(g) = Repaired(f)
  <2>1. \A t \in Repaired(f) : \E r \in OurRoutes(f) : r.id = t.route
    BY RepairedAre DEF OurTrips
  <2> QED  BY <1>1, <1>3, <2>1 DEF OurTrips
<1>5. OurCalls(g) = OurCalls(f)
  <2>1. \A c \in OurCalls(f) : \E t \in Repaired(f) : t.id = c.trip
    BY RepairedAre DEF OurCalls
  <2> QED  BY <1>1, <1>4, <2>1 DEF OurCalls
<1>6. Called(g) = Called(f)
  BY <1>5 DEF Called
<1> QED  BY <1>1, <1>2, <1>3, <1>4, <1>5, <1>6 DEF g

\* Its stops are those of the feed that are kept, each with the same row.
LEMMA CutStops ==
    ASSUME NEW f \in Feeds, NEW ids
    PROVE  LET g == Cut(f, ids)
           IN  /\ InRows(g)
               /\ \A s : Listed(g, s) <=> s \in ids /\ Listed(f, s)
               /\ \A s : Listed(g, s) => RowOf(g, s) = RowOf(f, s)
               /\ StopIds(g) = {s \in ids : Listed(f, s)}
               /\ \A C : RowsOf(g, C) = RowsOf(f, C \cap ids)
               /\ \A C : AllParents(g, C) = AllParents(f, C \cap ids)
<1> DEFINE g == Cut(f, ids)
           R == RowsOf(f, ids)
<1>1. InRows(f)
  BY FeedsAssumption DEF InRows
<1>2. g.stops = SetToSeq(R)
  BY DEF Cut
<1>3. /\ IsFiniteSet(R)
      /\ \A row : row \in R <=> Listed(f, row.id) /\ row.id \in ids /\ row = RowOf(f, row.id)
      /\ \A s \in ids : Listed(f, s) => RowOf(f, s) \in R
  BY <1>1, RowsOfAre
<1>4. \A s : Listed(f, s) => RowOf(f, s).id = s
  BY <1>1, RowOfIsLast
<1> HIDE DEF g, R
<1>5. /\ InRows(g)
      /\ \A row : row \in R <=> \E i \in DOMAIN g.stops : g.stops[i] = row
  BY <1>2, <1>3, Listing DEF InRows
<1>6. \A s : Listed(g, s) <=> s \in ids /\ Listed(f, s)
  BY <1>3, <1>4, <1>5 DEF Listed
<1>7. ASSUME NEW s, Listed(g, s)
      PROVE  RowOf(g, s) = RowOf(f, s)
  <2>1. RowOf(g, s) \in R /\ RowOf(g, s).id = s
    BY <1>5, <1>7, RowOfIsLast
  <2> QED  BY <1>3, <2>1
<1>8. StopIds(g) = {s \in ids : Listed(f, s)}
  BY <1>3, <1>4, <1>5 DEF StopIds
<1>9. ASSUME NEW C
      PROVE  RowsOf(g, C) = RowsOf(f, C \cap ids)
  BY <1>6, <1>7 DEF RowsOf
<1>10. \A C : AllParents(g, C) = AllParents(f, C \cap ids)
  BY <1>9 DEF AllParents
<1> QED  BY <1>5, <1>6, <1>7, <1>8, <1>9, <1>10 DEF g

\* The times of a trip of ours are the same ones in the cut.
LEMMA CutKnown ==
    ASSUME NEW f \in Feeds, NEW ids, NEW u \in OurTrips(f)
    PROVE  Known(Cut(f, ids), u.id) = Known(f, u.id)
<1>1. Cut(f, ids).calls = OurCalls(f)
  BY CutTables
<1>2. {d \in OurCalls(f) : d.trip = u.id} = {d \in f.calls : d.trip = u.id}
  BY DEF OurCalls
<1> QED  BY <1>1, <1>2 DEF Known

\* What has been repaired stays as it is: a trip that was given no bikes is given none.
LEMMA CutRepaired ==
    ASSUME NEW f \in Feeds, NEW ids
    PROVE  Repaired(Cut(f, ids)) = Repaired(f)
<1> DEFINE g == Cut(f, ids)
           bikes(t) == t.bikes \/ (Candidate(g, t) /\ OffPeak(g, t))
<1>1. OurTrips(g) = Repaired(f) /\ OurRoutes(g) = OurRoutes(f)
  BY CutTables
<1>2. \A u \in OurTrips(f) : Known(g, u.id) = Known(f, u.id)
  BY CutKnown
<1>3. Repaired(g) = {[t EXCEPT !.bikes = bikes(t)] : t \in Repaired(f)}
  BY <1>1 DEF Repaired
<1> HIDE DEF g
<1>4. ASSUME NEW t \in Repaired(f)
      PROVE  bikes(t) = t.bikes /\ [t EXCEPT !.bikes = bikes(t)] = t
  <2>1. PICK u \in OurTrips(f) :
           /\ t.id = u.id /\ t.route = u.route
           /\ t = [id |-> t.id, route |-> t.route, service |-> t.service,
                   shape |-> t.shape, bikes |-> t.bikes]
           /\ t.bikes = (u.bikes \/ (Candidate(f, u) /\ OffPeak(f, u)))
           /\ t.bikes \in BOOLEAN /\ u.bikes \in BOOLEAN
    BY RepairedAre
  <2>2. Candidate(g, t) => t.bikes \/ Candidate(f, u)
    BY <1>1, <2>1 DEF Candidate
  <2>3. OffPeak(g, t) => OffPeak(f, u)
    BY <1>2, <2>1 DEF OffPeak
  <2>4. bikes(t) = t.bikes
    BY <2>1, <2>2, <2>3
  <2> DEFINE v == [id |-> t.id, route |-> t.route, service |-> t.service,
                   shape |-> t.shape, bikes |-> t.bikes]
  <2>5. [v EXCEPT !.bikes = t.bikes] = v
    OBVIOUS
  <2>6. [t EXCEPT !.bikes = t.bikes] = t
    BY <2>1, <2>5
  <2> QED  BY <2>4, <2>6
<1> HIDE DEF bikes
<1>5. Repaired(g) = Repaired(f)
  BY <1>3, <1>4
<1> QED  BY <1>5 DEF g

\* The other members of a cut, and those that a cut of it has.
LEMMA CutRest ==
    ASSUME NEW f \in Feeds, NEW ids
    PROVE  LET g == Cut(f, ids)
           IN  /\ \A t \in OurTrips(f) :
                     /\ t.service \in f.services => t.service \in g.services
                     /\ t.shape \in f.shapes => t.shape \in g.shapes
                     /\ t.id \in f.frequencies => t.id \in g.frequencies
               /\ {s \in g.services : \E t \in OurTrips(g) : t.service = s} = g.services
               /\ {s \in g.shapes : \E t \in OurTrips(g) : t.shape = s} = g.shapes
               /\ {s \in g.frequencies : \E t \in OurTrips(g) : t.id = s} = g.frequencies
               /\ g.transfers = {x \in f.transfers : x[1] \in ids /\ x[2] \in ids}
               /\ g.stops = SetToSeq(RowsOf(f, ids))
<1> DEFINE g == Cut(f, ids)
<1>1. /\ g.services = {s \in f.services : \E t \in OurTrips(f) : t.service = s}
      /\ g.shapes = {s \in f.shapes : \E t \in OurTrips(f) : t.shape = s}
      /\ g.frequencies = {s \in f.frequencies : \E t \in OurTrips(f) : t.id = s}
      /\ g.transfers = {x \in f.transfers : x[1] \in ids /\ x[2] \in ids}
      /\ g.stops = SetToSeq(RowsOf(f, ids))
  BY DEF Cut
<1>2. OurTrips(g) = Repaired(f)
  BY CutTables
<1> HIDE DEF g
<1>3. \A u \in OurTrips(f) : \E t \in OurTrips(g) :
          t.id = u.id /\ t.service = u.service /\ t.shape = u.shape
  BY <1>2, RepairedAre
<1>4. {s \in g.services : \E t \in OurTrips(g) : t.service = s} = g.services
  BY <1>1, <1>3
<1>5. {s \in g.shapes : \E t \in OurTrips(g) : t.shape = s} = g.shapes
  BY <1>1, <1>3
<1>6. {s \in g.frequencies : \E t \in OurTrips(g) : t.id = s} = g.frequencies
  BY <1>1, <1>3
<1> QED  BY <1>1, <1>4, <1>5, <1>6 DEF g

\* Cutting a cut down to the same ids changes nothing.
LEMMA CutTwice ==
    ASSUME NEW f \in Feeds, NEW ids
    PROVE  Cut(Cut(f, ids), ids) = Cut(f, ids)
<1> DEFINE g == Cut(f, ids)
<1>1. /\ OurAgencies(g) = g.agencies /\ OurRoutes(g) = g.routes
      /\ OurCalls(g) = g.calls /\ g.trips = Repaired(f)
  BY CutTables
<1>2. Repaired(g) = g.trips
  BY <1>1, CutRepaired
<1>3. RowsOf(g, ids) = RowsOf(f, ids)
  <2>1. RowsOf(g, ids) = RowsOf(f, ids \cap ids)
    BY CutStops
  <2> QED  BY <2>1
<1>4. /\ {s \in g.services : \E t \in OurTrips(g) : t.service = s} = g.services
      /\ {s \in g.shapes : \E t \in OurTrips(g) : t.shape = s} = g.shapes
      /\ {s \in g.frequencies : \E t \in OurTrips(g) : t.id = s} = g.frequencies
      /\ g.transfers = {x \in f.transfers : x[1] \in ids /\ x[2] \in ids}
      /\ g.stops = SetToSeq(RowsOf(f, ids))
  BY CutRest
<1>5. {x \in g.transfers : x[1] \in ids /\ x[2] \in ids} = g.transfers
  BY <1>4
<1>6. g = [agencies |-> g.agencies, routes |-> g.routes, trips |-> g.trips,
           calls |-> g.calls, stops |-> g.stops, services |-> g.services,
           shapes |-> g.shapes, transfers |-> g.transfers, frequencies |-> g.frequencies,
           members |-> g.members, damaged |-> {}]
  BY DEF Cut
<1> HIDE DEF g
<1>7. Cut(g, ids) = g
  BY <1>1, <1>2, <1>3, <1>4, <1>5, <1>6 DEF Cut
<1> QED  BY <1>7 DEF g

-----------------------------------------------------------------------------
(* Parts of an output.                                                     *)

\* Two feeds have the same rows in these members.
Agree(f, g, S) ==
    /\ "agencies" \in S => f.agencies = g.agencies
    /\ "routes" \in S => f.routes = g.routes
    /\ "trips" \in S => f.trips = g.trips
    /\ "calls" \in S => f.calls = g.calls
    /\ "stops" \in S => f.stops = g.stops
    /\ "services" \in S => f.services = g.services
    /\ "shapes" \in S => f.shapes = g.shapes
    /\ "transfers" \in S => f.transfers = g.transfers
    /\ "frequencies" \in S => f.frequencies = g.frequencies

\* They then have the same rows in fewer of them.
LEMMA AgreeLess ==
    ASSUME NEW f, NEW g, NEW S, NEW T, T \subseteq S, Agree(f, g, S)
    PROVE  Agree(f, g, T)
BY DEF Agree

\* A part has the rows of what it is a part of, as far as its members can be read.
LEMMA PartAgrees ==
    ASSUME NEW f, NEW M, NEW D
    PROVE  /\ Agree(Part(f, M, D), f, M \ D)
           /\ Part(f, M, D).members = M /\ Part(f, M, D).damaged = D
           /\ "stops" \notin M \ D => Part(f, M, D).stops = <<>>
           /\ "trips" \notin M \ D => Part(f, M, D).trips = {}
BY DEF Part, Agree

\* Feeds that have the same rows have the same parts.
LEMMA AgreeParts ==
    ASSUME NEW f, NEW g, NEW M, NEW D, Agree(f, g, M \ D)
    PROVE  Part(f, M, D) = Part(g, M, D)
BY DEF Part, Agree

\* What the filter makes of the calls of our trips depends on four members only.
LEMMA AgreeTables ==
    ASSUME NEW f, NEW g, NEW S, Agree(f, g, S), Tables \subseteq S
    PROVE  /\ OurAgencies(f) = OurAgencies(g) /\ OurRoutes(f) = OurRoutes(g)
           /\ OurTrips(f) = OurTrips(g) /\ OurCalls(f) = OurCalls(g)
           /\ Called(f) = Called(g) /\ Repaired(f) = Repaired(g)
<1>1. /\ f.agencies = g.agencies /\ f.routes = g.routes
      /\ f.trips = g.trips /\ f.calls = g.calls
  BY DEF Agree, Tables
<1>2. OurAgencies(f) = OurAgencies(g)
  BY <1>1 DEF OurAgencies
<1>3. OurRoutes(f) = OurRoutes(g)
  BY <1>1, <1>2 DEF OurRoutes
<1>4. OurTrips(f) = OurTrips(g)
  BY <1>1, <1>3 DEF OurTrips
<1>5. OurCalls(f) = OurCalls(g)
  BY <1>1, <1>4 DEF OurCalls
<1>6. Called(f) = Called(g)
  BY <1>5 DEF Called
<1>7. \A t : Candidate(f, t) <=> Candidate(g, t)
  BY <1>3 DEF Candidate
<1>8. \A t : OffPeak(f, t) <=> OffPeak(g, t)
  BY <1>1 DEF OffPeak, Known
<1>9. Repaired(f) = Repaired(g)
  BY <1>4, <1>7, <1>8 DEF Repaired
<1> QED  BY <1>2, <1>3, <1>4, <1>5, <1>6, <1>9

\* The stops depend on one member only.
LEMMA AgreeStops ==
    ASSUME NEW f, NEW g, f.stops = g.stops
    PROVE  /\ \A s : Listed(f, s) <=> Listed(g, s)
           /\ \A s : RowOf(f, s) = RowOf(g, s)
           /\ \A ids : RowsOf(f, ids) = RowsOf(g, ids)
           /\ \A ids : AllParents(f, ids) = AllParents(g, ids)
<1>1. /\ \A s : Listed(f, s) <=> Listed(g, s)
      /\ \A s : RowOf(f, s) = RowOf(g, s)
  BY DEF Listed, RowOf
<1>2. \A ids : RowsOf(f, ids) = RowsOf(g, ids)
  BY <1>1 DEF RowsOf
<1> QED  BY <1>1, <1>2 DEF AllParents

\* Each member of a cut comes from that member of the feed, given our trips and calls.
LEMMA AgreeCuts ==
    ASSUME NEW f, NEW g, NEW S, NEW ids, Agree(f, g, S), Tables \subseteq S
    PROVE  Agree(Cut(f, ids), Cut(g, ids), S)
<1>1. /\ OurAgencies(f) = OurAgencies(g) /\ OurRoutes(f) = OurRoutes(g)
      /\ OurTrips(f) = OurTrips(g) /\ OurCalls(f) = OurCalls(g)
      /\ Repaired(f) = Repaired(g)
  BY AgreeTables
<1>2. "stops" \in S => RowsOf(f, ids) = RowsOf(g, ids)
  BY AgreeStops DEF Agree
<1> QED  BY <1>1, <1>2 DEF Agree, Cut

\* A cut with all its members is no smaller part of itself.
LEMMA WholePart ==
    ASSUME NEW f, NEW ids, NEW M,
           "services" \notin M => Cut(f, ids).services = {},
           "shapes" \notin M => Cut(f, ids).shapes = {},
           "transfers" \notin M => Cut(f, ids).transfers = {},
           "frequencies" \notin M => Cut(f, ids).frequencies = {},
           f.members = M,
           {"agencies", "routes", "trips", "calls", "stops"} \subseteq M
    PROVE  Part(Cut(f, ids), M, {}) = Cut(f, ids)
BY DEF Cut, Part

-----------------------------------------------------------------------------
(* The order of the members.                                               *)

\* Which members lie before the closure.
LEMMA OrderOf ==
    /\ Len(Order) = 9
    /\ Names = Tables \cup {"stops", "services", "shapes", "transfers", "frequencies"}
    /\ Before(9) = Names
    /\ \A n \in 0..9 : /\ Before(n) \subseteq Names
                       /\ n < 4 => "trips" \notin Before(n)
                       /\ n >= 4 => Tables \subseteq Before(n)
                       /\ n >= 5 => "stops" \in Before(n)
                       /\ n <= 4 => Before(n) \subseteq Tables
                       /\ n = 4 => Before(n) \ Before(n - 1) = {"trips"}
                       /\ n >= 5 => Tables \cap (Before(n) \ Before(n - 1)) = {}
<1>1. /\ Len(Order) = 9
      /\ Order[1] = "agencies" /\ Order[2] = "routes" /\ Order[3] = "calls"
      /\ Order[4] = "trips" /\ Order[5] = "stops" /\ Order[6] = "services"
      /\ Order[7] = "shapes" /\ Order[8] = "transfers" /\ Order[9] = "frequencies"
  BY DEF Order
<1>2. \A i \in 1..9 : i = 1 \/ i = 2 \/ i = 3 \/ i = 4 \/ i = 5 \/ i = 6 \/ i = 7 \/ i = 8
                      \/ i = 9
  OBVIOUS
<1>3. Before(9) = Tables \cup {"stops", "services", "shapes", "transfers", "frequencies"}
  BY <1>1, <1>2 DEF Before, Tables
<1>4. Names = Before(9)
  BY <1>1 DEF Names
<1>5. ASSUME NEW n \in 0..9
      PROVE  /\ Before(n) \subseteq Before(9)
             /\ n < 4 => "trips" \notin Before(n)
             /\ n >= 4 => Tables \subseteq Before(n)
             /\ n >= 5 => "stops" \in Before(n)
             /\ n <= 4 => Before(n) \subseteq Tables
  BY <1>1, <1>2 DEF Before, Tables
<1>6. ASSUME NEW n \in 0..9, n >= 5
      PROVE  Tables \cap (Before(n) \ Before(n - 1)) = {}
  <2>1. n - 1 \in 0..9 /\ n - 1 >= 4
    BY <1>6
  <2>2. Tables \subseteq Before(n - 1)
    BY <2>1, <1>5
  <2> QED  BY <2>2
<1>7. Before(4) \ Before(3) = {"trips"}
  BY <1>1, <1>2 DEF Before
<1>8. \A n \in 0..9 : n = 4 => Before(n) \ Before(n - 1) = {"trips"}
  <2>1. 4 - 1 = 3
    OBVIOUS
  <2> QED  BY <1>7, <2>1
<1> QED  BY <1>1, <1>3, <1>4, <1>5, <1>6, <1>8

\* A run gets past members that can be read, or that it does not need.
LEMMA PassedMembers ==
    ASSUME NEW f, NEW n, Passes(f, n)
    PROVE  /\ Before(n) \cap f.damaged = {}
           /\ Before(n) \cap Required \subseteq f.members
BY DEF Passes, Fails, Before

-----------------------------------------------------------------------------
(* The closure under parent stations.                                      *)

\* An output with the trips has the rows of a cut, one with the stops those of the cut
\* to the closure.
LEMMA OutputAgrees ==
    ASSUME NEW f, IsOutput(f), "trips" \in Legible(f)
    PROVE  \E K \in SUBSET Universe :
              /\ "stops" \in Legible(f) => Closure(national, K)
              /\ f = Part(Cut(national, K), f.members, f.damaged)
              /\ Agree(f, Cut(national, K), Legible(f))
<1>1. PICK K \in SUBSET Universe : CutOf(f, K)
  BY DEF IsOutput
<1>2. Agree(f, Cut(national, K), Legible(f))
  BY <1>1, PartAgrees DEF CutOf, Legible
<1> QED  BY <1>1, <1>2 DEF CutOf

\* A feed that can be read calls at no stops but those of the national one, and names no
\* parents but those it names.
LEMMA ReadableFeed ==
    ASSUME national \in Feeds, NEW f, f = national \/ IsOutput(f)
    PROVE  /\ InRows(f)
           /\ Called(f) \subseteq Called(national)
           /\ "trips" \in Legible(f) => Called(f) = Called(national)
           /\ \A ids : AllParents(f, ids) \subseteq Universe
<1>1. ASSUME NEW ids
      PROVE  AllParents(national, ids) \subseteq Universe
  <2>1. InRows(national)
    BY FeedsAssumption DEF InRows
  <2>2. \A s : Listed(national, s) =>
            \E i \in DOMAIN national.stops : RowOf(national, s) = national.stops[i]
    BY <2>1, RowOfIsLast
  <2> QED  BY <2>2 DEF AllParents, RowsOf, Universe
<1>2. CASE f = national
  BY <1>1, <1>2, FeedsAssumption DEF InRows
<1>3. CASE IsOutput(f) /\ "trips" \notin Legible(f)
  <2>1. f.trips = {} /\ f.stops = <<>>
    BY <1>3 DEF IsOutput
  <2>2. Called(f) = {}
    BY <2>1 DEF Called, OurCalls, OurTrips
  <2>3. InRows(f) /\ \A s : ~ Listed(f, s)
    BY <2>1 DEF InRows, Listed
  <2>4. \A ids : AllParents(f, ids) = {}
    BY <2>3 DEF AllParents, RowsOf
  <2> QED  BY <1>3, <2>2, <2>3, <2>4
<1>4. CASE IsOutput(f) /\ "trips" \in Legible(f)
  <2>1. PICK K \in SUBSET Universe : Agree(f, Cut(national, K), Legible(f))
    BY <1>4, OutputAgrees
  <2>2. Tables \subseteq Legible(f)
    BY <1>4 DEF IsOutput
  <2>3. Called(f) = Called(Cut(national, K))
    BY <2>1, <2>2, AgreeTables
  <2>4. Called(f) = Called(national)
    BY <2>3, CutTables
  <2>5. CASE "stops" \in Legible(f)
    <3>1. f.stops = Cut(national, K).stops
      BY <2>1, <2>5 DEF Agree
    <3>2. \A ids : AllParents(f, ids) = AllParents(national, ids \cap K)
      BY <3>1, AgreeStops, CutStops
    <3>3. InRows(f)
      BY <3>1, CutStops DEF InRows
    <3> QED  BY <1>1, <2>4, <3>2, <3>3
  <2>6. CASE "stops" \notin Legible(f)
    <3>1. f.stops = <<>>
      BY <1>4, <2>6 DEF IsOutput
    <3>2. InRows(f) /\ \A s : ~ Listed(f, s)
      BY <3>1 DEF InRows, Listed
    <3>3. \A ids : AllParents(f, ids) = {}
      BY <3>2 DEF AllParents, RowsOf
    <3> QED  BY <2>4, <3>2, <3>3
  <2> QED  BY <2>5, <2>6
<1> QED  BY <1>2, <1>3, <1>4

\* The closure in a feed with the stops of a cut is all that the cut was made to.
LEMMA ClosureAgain ==
    ASSUME national \in Feeds, NEW f, NEW K \in SUBSET Universe, Closure(national, K),
           Agree(f, Cut(national, K), Legible(f)),
           Tables \subseteq Legible(f), "stops" \in Legible(f),
           NEW ids, Closure(f, ids)
    PROVE  ids = K
<1>1. f.stops = Cut(national, K).stops
  BY DEF Agree
<1>2. Called(f) = Called(national)
  <2>1. Called(f) = Called(Cut(national, K))
    BY AgreeTables
  <2> QED  BY <2>1, CutTables
<1>3. \A C : AllParents(f, C) = AllParents(national, C \cap K)
  BY <1>1, AgreeStops, CutStops
<1>4. ids \in SUBSET Universe /\ Closed(f, ids) /\ Needed(f, ids)
  BY DEF Closure
<1>5. Closed(national, K) /\ Needed(national, K)
  BY DEF Closure
<1>6. ids \subseteq K
  <2>1. AllParents(f, K) = AllParents(national, K)
    <3>1. K \cap K = K
      OBVIOUS
    <3> QED  BY <1>3, <3>1
  <2>2. Closed(f, K)
    BY <1>2, <1>5, <2>1 DEF Closed
  <2> QED  BY <1>4, <2>2 DEF Needed
<1>7. K \subseteq ids
  <2>1. AllParents(f, ids) = AllParents(national, ids)
    <3>1. ids \cap K = ids
      BY <1>6
    <3> QED  BY <1>3, <3>1
  <2>2. Closed(national, ids)
    BY <1>2, <1>4, <2>1 DEF Closed
  <2> QED  BY <1>4, <1>5, <2>2 DEF Needed
<1> QED  BY <1>6, <1>7

\* The members before the closure do not depend on it.
LEMMA TablesFixed ==
    ASSUME national \in Feeds, NEW K, NEW ids
    PROVE  /\ Agree(Cut(national, ids), Cut(national, K), Tables)
           /\ Agree(Cut(Cut(national, K), ids), Cut(national, K), Tables)
<1>1. Agree(Cut(national, ids), Cut(national, K), Tables)
  BY DEF Agree, Tables, Cut
<1> DEFINE g == Cut(national, K)
           h == Cut(g, ids)
<1>2. /\ OurAgencies(g) = g.agencies /\ OurRoutes(g) = g.routes
      /\ OurCalls(g) = g.calls /\ g.trips = Repaired(national)
  BY CutTables
<1>3. Repaired(g) = g.trips
  BY <1>2, CutRepaired
<1>4. /\ h.agencies = OurAgencies(g) /\ h.routes = OurRoutes(g)
      /\ h.trips = Repaired(g) /\ h.calls = OurCalls(g)
  BY DEF Cut
<1> HIDE DEF g, h
<1>5. Agree(h, g, Tables)
  BY <1>2, <1>3, <1>4 DEF Agree, Tables
<1> QED  BY <1>1, <1>5 DEF g, h

\* What a run over f has made of the members it got past: rows of a cut, after the
\* closure those of the cut to it.
LEMMA RunAgrees ==
    ASSUME national \in Feeds, NEW f, f = national \/ IsOutput(f),
           NEW n \in 4..9, Passes(f, n),
           NEW ids, n >= 5 => Closure(f, ids)
    PROVE  /\ Tables \subseteq Legible(f)
           /\ n >= 5 => "stops" \in Legible(f)
           /\ \E K \in SUBSET Universe :
                 /\ n >= 5 => Closure(national, K)
                 /\ Agree(Cut(f, ids), Cut(national, K), Before(n) \cap f.members)
<1>1. /\ Tables \subseteq Before(n)
      /\ n = 4 => Before(n) \subseteq Tables
      /\ n >= 5 => "stops" \in Before(n)
      /\ Names = Tables \cup {"stops", "services", "shapes", "transfers", "frequencies"}
  BY OrderOf
<1>2. Before(n) \cap f.damaged = {} /\ Before(n) \cap Required \subseteq f.members
  BY PassedMembers
<1>3. "trips" \in Legible(f) /\ (n >= 5 => "stops" \in Legible(f))
  <2>1. \A x \in Required : x \in Before(n) => x \in Legible(f)
    BY <1>2 DEF Legible
  <2>2. "trips" \in Before(n) /\ "trips" \in Required /\ "stops" \in Required
    BY <1>1 DEF Tables, Required
  <2> QED  BY <1>1, <2>1, <2>2
<1>4. Tables \subseteq Legible(f)
  <2>1. CASE f = national
    BY <1>1, <2>1, FeedsAssumption DEF Legible
  <2>2. CASE IsOutput(f)
    BY <1>3, <2>2 DEF IsOutput
  <2> QED  BY <2>1, <2>2
<1>5. n = 4 \/ n >= 5
  OBVIOUS
<1> DEFINE S == Before(n) \cap f.members
<1>6. S \subseteq Legible(f)
  BY <1>2 DEF Legible
<1>7. n = 4 => S \subseteq Tables
  BY <1>1
<1> HIDE DEF S
<1>8. ASSUME f = national
      PROVE  \E K \in SUBSET Universe : /\ n >= 5 => Closure(national, K)
                                        /\ Agree(Cut(f, ids), Cut(national, K), S)
  <2>1. CASE n = 4
    <3>1. Agree(Cut(national, ids), Cut(national, {}), Tables)
      BY TablesFixed
    <3>2. Agree(Cut(national, ids), Cut(national, {}), S)
      BY <1>7, <2>1, <3>1, AgreeLess
    <3> QED  BY <1>8, <2>1, <3>2
  <2>2. CASE n >= 5
    <3>1. ids \in SUBSET Universe
      BY <2>2 DEF Closure
    <3>2. Agree(Cut(f, ids), Cut(national, ids), S)
      BY <1>8 DEF Agree
    <3> QED  BY <1>8, <2>2, <3>1, <3>2
  <2> QED  BY <1>5, <2>1, <2>2
<1>9. ASSUME IsOutput(f)
      PROVE  \E K \in SUBSET Universe : /\ n >= 5 => Closure(national, K)
                                        /\ Agree(Cut(f, ids), Cut(national, K), S)
  <2>1. PICK K \in SUBSET Universe :
           /\ "stops" \in Legible(f) => Closure(national, K)
           /\ Agree(f, Cut(national, K), Legible(f))
    BY <1>3, <1>9, OutputAgrees
  <2>2. Agree(Cut(f, ids), Cut(Cut(national, K), ids), Legible(f))
    BY <1>4, <2>1, AgreeCuts
  <2>3. CASE n = 4
    <3>1. Agree(Cut(Cut(national, K), ids), Cut(national, K), Tables)
      BY TablesFixed
    <3>2. Agree(Cut(f, ids), Cut(Cut(national, K), ids), S)
      BY <1>6, <2>2, AgreeLess
    <3>3. Agree(Cut(Cut(national, K), ids), Cut(national, K), S)
      BY <1>7, <2>3, <3>1, AgreeLess
    <3>4. Agree(Cut(f, ids), Cut(national, K), S)
      BY <3>2, <3>3 DEF Agree
    <3> QED  BY <2>3, <3>4
  <2>4. CASE n >= 5
    <3>1. Closure(national, K) /\ ids = K
      BY <1>3, <1>4, <2>1, <2>4, ClosureAgain
    <3>2. Cut(Cut(national, K), ids) = Cut(national, K)
      BY <3>1, CutTwice
    <3>3. Agree(Cut(f, ids), Cut(national, K), S)
      BY <1>6, <2>2, <3>2, AgreeLess
    <3> QED  BY <3>1, <3>3
  <2> QED  BY <1>5, <2>3, <2>4
<1> QED  BY <1>3, <1>4, <1>8, <1>9 DEF S

\* Wherever a run over a feed that can be read is stopped, it leaves an output.
LEMMA StoppedRun ==
    ASSUME national \in Feeds, NEW f, f = national \/ IsOutput(f),
           NEW n \in 0..9, Passes(f, n),
           NEW ids, n >= 5 => Closure(f, ids),
           NEW D \in SUBSET ((Before(n) \ Before(n - 1)) \cap f.members)
    PROVE  IsOutput(Part(Cut(f, ids), Before(n) \cap f.members, D))
<1> DEFINE S == Before(n) \cap f.members
           h == Part(Cut(f, ids), S, D)
<1>1. /\ h.members = S /\ h.damaged = D
      /\ "stops" \notin S \ D => h.stops = <<>>
      /\ "trips" \notin S \ D => h.trips = {}
  BY DEF Part
<1>2. /\ Before(n) \subseteq Names
      /\ n < 4 => "trips" \notin Before(n)
      /\ n >= 4 => Tables \subseteq Before(n)
      /\ n >= 5 => "stops" \in Before(n)
      /\ n <= 4 => Before(n) \subseteq Tables
      /\ n = 4 => Before(n) \ Before(n - 1) = {"trips"}
      /\ n >= 5 => Tables \cap (Before(n) \ Before(n - 1)) = {}
  BY OrderOf
<1>3. D \subseteq S /\ S \subseteq Names
  BY <1>2
<1>4. ASSUME n < 4
      PROVE  "trips" \notin S /\ "stops" \notin S
  BY <1>2, <1>4 DEF Tables
<1>5. ASSUME n >= 4
      PROVE  /\ "stops" \in S \ D => n >= 5 /\ "trips" \in S \ D
             /\ "trips" \in S \ D => /\ Tables \subseteq S \ D
                                     /\ \E K \in SUBSET Universe :
                                           /\ "stops" \in S \ D => Closure(national, K)
                                           /\ h = Part(Cut(national, K), S, D)
  <2>1. n \in 4..9
    BY <1>5
  <2>2. /\ Tables \subseteq Legible(f)
        /\ \E K \in SUBSET Universe :
              /\ n >= 5 => Closure(national, K)
              /\ Agree(Cut(f, ids), Cut(national, K), Before(n) \cap f.members)
    BY <2>1, RunAgrees
  <2>3. PICK K \in SUBSET Universe :
           /\ n >= 5 => Closure(national, K)
           /\ Agree(Cut(f, ids), Cut(national, K), S)
    BY <2>2
  <2>4. Tables \subseteq S
    BY <1>2, <1>5, <2>2 DEF Legible
  <2>5. "stops" \in S => n >= 5
    BY <1>2, <1>5, <2>1 DEF Tables
  <2>6. n >= 5 => Tables \subseteq S \ D
    BY <1>2, <2>4
  <2>7. "trips" \in S \ D => Tables \subseteq S \ D
    <3>1. CASE n >= 5
      BY <2>6, <3>1
    <3>2. CASE n = 4
      BY <1>2, <2>4, <3>2
    <3> QED  BY <2>1, <3>1, <3>2
  <2>8. h = Part(Cut(national, K), S, D)
    <3>1. Agree(Cut(f, ids), Cut(national, K), S \ D)
      BY <2>3 DEF Agree
    <3> QED  BY <3>1, AgreeParts
  <2>9. "trips" \in Tables
    BY DEF Tables
  <2> QED  BY <2>3, <2>5, <2>6, <2>7, <2>8, <2>9
<1>6. n < 4 \/ n >= 4
  OBVIOUS
<1> HIDE DEF h, S
<1>7. Legible(h) = S \ D
  BY <1>1 DEF Legible
<1>8. IsOutput(h)
  <2>1. CASE n < 4
    BY <1>1, <1>3, <1>4, <1>7, <2>1 DEF IsOutput
  <2>2. CASE n >= 4
    BY <1>1, <1>3, <1>5, <1>7, <2>2 DEF IsOutput, CutOf
  <2> QED  BY <1>6, <2>1, <2>2
<1> QED  BY <1>8 DEF h, S

\* A run over an earlier output that gets to its end leaves what it has read.
LEMMA SecondRun ==
    ASSUME national \in Feeds, NEW f, IsOutput(f), Passes(f, 9), NEW ids, Closure(f, ids)
    PROVE  Cut(f, ids) = f
<1>1. /\ Before(9) = Names
      /\ Names = Tables \cup {"stops", "services", "shapes", "transfers", "frequencies"}
  BY OrderOf
<1>2. /\ f.damaged = {} /\ f.members \subseteq Names
      /\ "trips" \in Legible(f) /\ "stops" \in Legible(f) /\ Tables \subseteq Legible(f)
  <2>1. Before(9) \cap f.damaged = {} /\ Before(9) \cap Required \subseteq f.members
    BY PassedMembers
  <2>2. f.damaged = {} /\ f.members \subseteq Names
    BY <1>1, <2>1 DEF IsOutput
  <2>3. "trips" \in Legible(f) /\ "stops" \in Legible(f)
    BY <1>1, <2>1, <2>2 DEF Required, Legible, Tables
  <2> QED  BY <2>2, <2>3 DEF IsOutput
<1>3. Legible(f) = f.members
  BY <1>2 DEF Legible
<1>4. PICK K \in SUBSET Universe :
         /\ Closure(national, K)
         /\ f = Part(Cut(national, K), f.members, {})
         /\ Agree(f, Cut(national, K), f.members)
  BY <1>2, <1>3, OutputAgrees
<1>5. ids = K
  BY <1>2, <1>3, <1>4, ClosureAgain
<1>6. Agree(Cut(f, ids), Cut(national, K), f.members)
  <2>1. Agree(Cut(f, ids), Cut(Cut(national, K), ids), f.members)
    BY <1>2, <1>3, <1>4, AgreeCuts
  <2> QED  BY <1>5, <2>1, CutTwice
<1>7. Part(Cut(f, ids), f.members, {}) = f
  <2>1. Agree(Cut(f, ids), Cut(national, K), f.members \ {})
    BY <1>6
  <2> QED  BY <1>4, <2>1, AgreeParts
<1>8. Part(Cut(f, ids), f.members, {}) = Cut(f, ids)
  <2>1. LET g == Part(Cut(national, K), f.members, {})
        IN  /\ "services" \notin f.members => g.services = {}
            /\ "shapes" \notin f.members => g.shapes = {}
            /\ "transfers" \notin f.members => g.transfers = {}
            /\ "frequencies" \notin f.members => g.frequencies = {}
    BY DEF Part
  <2>2. /\ "services" \notin f.members => Cut(f, ids).services = {}
        /\ "shapes" \notin f.members => Cut(f, ids).shapes = {}
        /\ "transfers" \notin f.members => Cut(f, ids).transfers = {}
        /\ "frequencies" \notin f.members => Cut(f, ids).frequencies = {}
    BY <1>4, <2>1 DEF Cut
  <2>3. {"agencies", "routes", "trips", "calls", "stops"} \subseteq f.members
    BY <1>2, <1>3 DEF Tables
  <2> QED  BY <2>2, <2>3, WholePart
<1> QED  BY <1>7, <1>8

\* The invariant holds at the start.
LEMMA FilterInitially == Init => FilterInv
BY DEF Init, FilterInit, FilterInv, ClimbInv, Present

\* Reading starts with the stops called at, none of whose parents is looked up.
LEMMA BeginStep ==
    ASSUME FilterInv, NEW f \in Readable, Begin(f)
    PROVE  FilterInv'
<1>1. f = national \/ IsOutput(f)
  BY DEF Readable, FilterInv, Present
<1>2. national' = national /\ national \in Feeds /\ Universe' = Universe
  BY DEF Begin, FilterInv, Universe
<1>3. AllParents(f, keep' \ frontier') = {}
  BY DEF Begin, AllParents, RowsOf
<1>4. Called(f) \subseteq Universe
  BY <1>1, <1>2, ReadableFeed DEF Universe
<1>5. \A C : Closed(f, C) => Called(f) \subseteq C
  BY DEF Closed
<1>6. Needed(f, keep)'
  BY <1>5 DEF Begin, Needed
<1>7. (input = national \/ IsOutput(input))'
  BY <1>1, <1>2 DEF Begin, IsOutput, CutOf, Closure, Needed
<1>8. ClimbInv'
  BY <1>2, <1>3, <1>4, <1>6, <1>7 DEF Begin, ClimbInv
<1>9. ~ Present'
  BY DEF Begin, Present
<1> QED  BY <1>2, <1>8, <1>9 DEF FilterInv

\* One turn of the loop adds what the closure needs, and looks up the frontier.
LEMMA ClimbStep ==
    ASSUME FilterInv, Climb
    PROVE  FilterInv'
<1> DEFINE up == AllParents(input, frontier)
<1>1. /\ national' = national /\ dst' = dst /\ input' = input
      /\ national \in Feeds /\ Universe' = Universe
  BY DEF Climb, FilterInv, Universe
<1>2. /\ phase = "climbing" /\ keep' = keep \cup up /\ frontier' = up \ keep
  BY DEF Climb, NewParents
<1>3. /\ input = national \/ IsOutput(input)
      /\ keep \subseteq Universe /\ frontier \subseteq keep
      /\ Called(input) \cup AllParents(input, keep \ frontier) \subseteq keep
      /\ Needed(input, keep)
  BY <1>2 DEF FilterInv, ClimbInv
<1>4. up \subseteq Universe
  BY <1>1, <1>3, ReadableFeed
<1>5. Called(input) \cup AllParents(input, keep' \ frontier') \subseteq keep'
  <2>1. keep' \ frontier' = (keep \ frontier) \cup frontier
    BY <1>2, <1>3
  <2>2. AllParents(input, keep' \ frontier') = AllParents(input, keep \ frontier) \cup up
    BY <2>1, ParentsSplit
  <2> QED  BY <1>2, <1>3, <2>2
<1>6. \A C \in SUBSET Universe : Closed(input, C) => keep \cup up \subseteq C
  <2> SUFFICES ASSUME NEW C \in SUBSET Universe, Closed(input, C)
               PROVE  keep \cup up \subseteq C
    OBVIOUS
  <2>1. keep \subseteq C
    BY <1>3 DEF Needed
  <2>2. up \subseteq AllParents(input, C)
    BY <1>3, <2>1, ParentsGrow
  <2> QED  BY <2>1, <2>2 DEF Closed
<1> HIDE DEF up
<1>7. Needed(input, keep)'
  BY <1>1, <1>2, <1>6 DEF Needed
<1>8. (input = national \/ IsOutput(input))'
  BY <1>1, <1>3 DEF IsOutput, CutOf, Closure, Needed
<1>9. (Called(input) \cup AllParents(input, keep \ frontier) \subseteq keep)'
  BY <1>1, <1>5
<1>10. ClimbInv'
  BY <1>1, <1>2, <1>3, <1>4, <1>7, <1>8, <1>9 DEF ClimbInv
<1>11. (Present => IsOutput(dst))'
  BY <1>1 DEF FilterInv, Present, IsOutput, CutOf, Closure, Needed
<1> QED  BY <1>1, <1>10, <1>11 DEF FilterInv

\* With an empty frontier, what the loop has kept is the closure.
LEMMA LoopDone ==
    ASSUME FilterInv, phase = "climbing", frontier = {}
    PROVE  Closure(input, keep)
<1>1. /\ keep \subseteq Universe /\ Needed(input, keep)
      /\ Called(input) \cup AllParents(input, keep \ frontier) \subseteq keep
  BY DEF FilterInv, ClimbInv
<1>2. keep \ frontier = keep
  OBVIOUS
<1> QED  BY <1>1, <1>2 DEF Closure, Closed

\* A run may end in any output, or without one.
LEMMA EndStep ==
    ASSUME FilterInv, NEW output, output = Torn \/ IsOutput(output), End(output)
    PROVE  FilterInv'
<1>1. national' = national /\ national \in Feeds /\ Universe' = Universe
  BY DEF End, FilterInv, Universe
<1>2. dst' = output /\ phase' = "idle"
  BY DEF End
<1>3. (Present => IsOutput(dst))'
  BY <1>1, <1>2 DEF Present, IsOutput, CutOf, Closure, Needed
<1>4. ClimbInv'
  BY <1>2 DEF ClimbInv
<1> QED  BY <1>1, <1>3, <1>4 DEF FilterInv

\* A run that gets to its end leaves an output, over an earlier one the same again.
LEMMA WriteStep ==
    ASSUME FilterInv, Write
    PROVE  /\ FilterInv'
           /\ input # national => dst' = input
<1>1. /\ national \in Feeds
      /\ input = national \/ IsOutput(input)
      /\ Closure(input, keep) /\ Passes(input, 9)
  <2>1. phase = "climbing" /\ frontier = {} /\ Passes(input, 9)
    BY OrderOf DEF Write
  <2> QED  BY <2>1, LoopDone DEF FilterInv, ClimbInv
<1>2. dst' = Cut(input, keep) /\ End(Cut(input, keep))
  BY DEF Write, End
<1>3. ASSUME input # national
      PROVE  IsOutput(input) /\ Cut(input, keep) = input
  BY <1>1, <1>3, SecondRun
<1>4. ASSUME input = national
      PROVE  IsOutput(Cut(input, keep))
  <2>1. /\ Before(9) = Names /\ national.members = Names
        /\ Names = Tables \cup {"stops", "services", "shapes", "transfers", "frequencies"}
    BY <1>1, OrderOf, FeedsAssumption
  <2>2. Part(Cut(national, keep), Names, {}) = Cut(national, keep)
    BY <2>1, WholePart DEF Tables
  <2>3. 9 \in 0..9 /\ {} \in SUBSET ((Before(9) \ Before(9 - 1)) \cap national.members)
        /\ Before(9) \cap national.members = Names
    BY <2>1
  <2>4. IsOutput(Part(Cut(national, keep), Before(9) \cap national.members, {}))
    BY <1>1, <1>4, <2>3, StoppedRun
  <2> QED  BY <1>4, <2>2, <2>3, <2>4
<1> QED  BY <1>2, <1>3, <1>4, EndStep

\* A run that is stopped leaves an output, too, or none.
LEMMA StopStep ==
    ASSUME FilterInv, Raise \/ Interrupt \/ Kill
    PROVE  FilterInv'
<1>1. /\ phase = "climbing" /\ national \in Feeds
      /\ input = national \/ IsOutput(input)
  BY DEF Raise, Interrupt, Kill, FilterInv, ClimbInv
<1>2. Len(Order) = 9
  BY OrderOf
<1>3. ASSUME NEW n \in 0..9, Passes(input, n), frontier # {} => n < 5,
             NEW D \in SUBSET ((Before(n) \ Before(n - 1)) \cap input.members),
             End(Zipped(n, D))
      PROVE  FilterInv'
  <2>1. n >= 5 => Closure(input, keep)
    BY <1>1, <1>3, LoopDone
  <2>2. IsOutput(Zipped(n, D))
    BY <1>1, <1>3, <2>1, StoppedRun DEF Zipped
  <2> QED  BY <1>3, <2>2, EndStep
<1>4. CASE Interrupt
  BY <1>2, <1>3, <1>4 DEF Interrupt
<1>5. CASE Raise
  <2>1. PICK n \in 0..8 : Passes(input, n) /\ End(Zipped(n, {}))
    BY <1>2, <1>5 DEF Raise
  <2>2. frontier # {} => n < 5
    <3>1. ASSUME frontier # {}, n >= 5
          PROVE  FALSE
      <4>1. "stops" \in Before(n) \cap input.damaged
        BY <1>5, <3>1, OrderOf DEF Raise
      <4> QED  BY <2>1, <4>1, PassedMembers
    <3> QED  BY <3>1
  <2>3. n \in 0..9 /\ {} \in SUBSET ((Before(n) \ Before(n - 1)) \cap input.members)
    OBVIOUS
  <2> QED  BY <1>3, <2>1, <2>2, <2>3
<1>6. CASE Kill
  BY <1>6, EndStep DEF Kill
<1> QED  BY <1>4, <1>5, <1>6

\* Every other step leaves the filter alone.
LEMMA QuietStep ==
    ASSUME FilterInv, UNCHANGED filter
    PROVE  FilterInv'
<1>1. national' = national /\ dst' = dst /\ national \in Feeds /\ Universe' = Universe
  BY DEF filter, FilterInv, Universe
<1>2. (Present => IsOutput(dst))'
  BY <1>1 DEF FilterInv, Present, IsOutput, CutOf, Closure, Needed
<1>3. ClimbInv'
  BY <1>1 DEF filter, FilterInv, ClimbInv, IsOutput, CutOf, Closure, Needed
<1> QED  BY <1>1, <1>2, <1>3 DEF FilterInv

\* Every step of the filter or of an import preserves the invariant.
LEMMA FilterSteps ==
    ASSUME FilterInv, [Next]_vars
    PROVE  FilterInv'
<1>1. CASE UNCHANGED vars
  BY <1>1, QuietStep DEF vars
<1>2. ASSUME NEW f \in Readable, Import(f)
      PROVE  FilterInv'
  BY <1>2, QuietStep DEF Import
<1>3. CASE FilterNext
  BY <1>3, BeginStep, ClimbStep, WriteStep, StopStep DEF FilterNext
<1> QED  BY <1>1, <1>2, <1>3 DEF Next

\* Whatever runs over each other's output leave, whether they get to their end, fail at
\* a member or are stopped between or within two, is a part of a cut of the national
\* feed, and if the stops are in it, of the cut to the closure of the stops called at
\* (main).
THEOREM FilterInvariant == Spec => []FilterInv
<1>1. Init => FilterInv
  BY FilterInitially
<1>2. FilterInv /\ [Next]_vars => FilterInv'
  BY FilterSteps
<1> QED  BY <1>1, <1>2, PTL DEF Spec

\* Filtering an output again changes nothing (the docstring of the script), also an
\* output without its optional members.
THEOREM FilterIdempotent == Spec => Idempotent
<1>1. FilterInv /\ [Next]_vars => [Write /\ input # national => dst' = input]_filter
  BY WriteStep
<1> QED  BY <1>1, FilterInvariant, PTL DEF Spec, Idempotent

\* The ids that can be kept are finitely many.
LEMMA UniverseFinite ==
    ASSUME national \in Feeds
    PROVE  IsFiniteSet(Universe)
<1> DEFINE calls == OurCalls(national)
           D == DOMAIN national.stops
           g == [c \in calls |-> c.stop]
           h == [i \in D |-> national.stops[i].parent]
           P == {national.stops[i].parent : i \in D}
<1>1. IsFiniteSet(calls)
  <2>1. IsFiniteSet(national.calls) /\ calls \in SUBSET national.calls
    BY FeedsAssumption DEF OurCalls
  <2> HIDE DEF calls
  <2> QED  BY <2>1, FS_Subset
<1>2. IsFiniteSet(Called(national))
  <2>1. g \in Surjection(calls, Called(national))
    BY DEF Surjection, Called
  <2> HIDE DEF calls, g
  <2> QED  BY <1>1, <2>1, FS_Surjection
<1>3. IsFiniteSet(P)
  <2>1. Len(national.stops) \in Nat /\ D = 1..Len(national.stops)
    BY FeedsAssumption
  <2>2. IsFiniteSet(D)
    <3> HIDE DEF D
    <3> QED  BY <2>1, FS_Interval
  <2>3. h \in Surjection(D, P)
    BY DEF Surjection
  <2> HIDE DEF D, P, h
  <2> QED  BY <2>2, <2>3, FS_Surjection
<1>4. Universe = Called(national) \cup P
  BY DEF Universe
<1> HIDE DEF P
<1> QED  BY <1>2, <1>3, <1>4, FS_Union

\* The closure loop makes progress: a turn ends it or leaves fewer ids that it could
\* still keep, though stations name each other as their parents (main).
THEOREM ClosureAdvances ==
    Spec => [][Climb => \/ frontier' = {}
                        \/ Cardinality(Universe \ keep') < Cardinality(Universe \ keep)
              ]_vars
<1>1. ASSUME FilterInv, Climb, frontier' # {}
      PROVE  Cardinality(Universe \ keep') < Cardinality(Universe \ keep)
  <2> DEFINE before == Universe \ keep
             after == Universe \ keep'
  <2>1. IsFiniteSet(Universe)
    BY <1>1, UniverseFinite DEF FilterInv
  <2>2. frontier' \subseteq Universe
    <3>1. input = national \/ IsOutput(input)
      BY <1>1 DEF FilterInv, ClimbInv, Climb
    <3> QED  BY <1>1, <3>1, ReadableFeed DEF FilterInv, Climb, NewParents
  <2>3. frontier' \cap keep = {} /\ keep' = keep \cup frontier'
    BY <1>1 DEF Climb, NewParents
  <2>4. after \in SUBSET before /\ after # before
    BY <1>1, <2>2, <2>3
  <2>5. IsFiniteSet(before) /\ IsFiniteSet(after)
    <3>1. before \in SUBSET Universe /\ after \in SUBSET Universe
      OBVIOUS
    <3> HIDE DEF before, after
    <3> QED  BY <2>1, <3>1, FS_Subset
  <2> HIDE DEF before, after
  <2>6. Cardinality(after) <= Cardinality(before) /\ Cardinality(after) # Cardinality(before)
    BY <2>4, <2>5, FS_Subset
  <2>7. Cardinality(before) \in Nat /\ Cardinality(after) \in Nat
    BY <2>5, FS_CardinalityType
  <2>8. Cardinality(after) < Cardinality(before)
    BY <2>6, <2>7
  <2> QED  BY <2>8 DEF before, after
<1>2. FilterInv /\ [Next]_vars
        => [Climb => \/ frontier' = {}
                     \/ Cardinality(Universe \ keep') < Cardinality(Universe \ keep)]_vars
  BY <1>1
<1> QED  BY <1>2, FilterInvariant, PTL DEF Spec

-----------------------------------------------------------------------------
(* The whole output.                                                       *)

\* A cut to the closure of the stops called at.
WholeCut(K) == /\ national \in Feeds
               /\ K \in SUBSET Universe /\ Closure(national, K)
               /\ dst = Cut(national, K)

\* All of what is said of our trips is in a cut.
LEMMA CutTripsIntact ==
    ASSUME NEW K, WholeCut(K)
    PROVE  TripsIntact
<1>1. /\ dst.trips = Repaired(national) /\ dst.routes = OurRoutes(national)
      /\ dst.calls = OurCalls(national)
  BY CutTables DEF WholeCut
<1>2. /\ \A t \in dst.trips : \E u \in OurTrips(national) :
            t.id = u.id /\ t.route = u.route /\ t.service = u.service /\ t.shape = u.shape
      /\ \A u \in OurTrips(national) : \E t \in dst.trips : t.id = u.id
  BY <1>1, RepairedAre DEF WholeCut
<1>3. \A u \in OurTrips(national) :
         /\ \E r \in OurRoutes(national) : r.id = u.route
         /\ u.service \in national.services => u.service \in dst.services
         /\ u.shape \in national.shapes => u.shape \in dst.shapes
         /\ u.id \in national.frequencies => u.id \in dst.frequencies
  BY CutRest DEF WholeCut, OurTrips
<1>4. {t.id : t \in dst.trips} = {t.id : t \in OurTrips(national)}
  BY <1>2
<1>5. \A t \in dst.trips :
         /\ \E r \in dst.routes : r.id = t.route
         /\ t.service \in national.services => t.service \in dst.services
         /\ t.shape \in national.shapes => t.shape \in dst.shapes
         /\ t.id \in national.frequencies => t.id \in dst.frequencies
  BY <1>1, <1>2, <1>3
<1> QED  BY <1>1, <1>4, <1>5 DEF TripsIntact

\* A cut has the stops called at and the stations above them.
LEMMA CutStopsIntact ==
    ASSUME NEW K, WholeCut(K)
    PROVE  StopsIntact
<1>1. /\ InRows(national)
      /\ \A i \in DOMAIN national.stops : national.stops[i].id # NoParent
  BY FeedsAssumption DEF WholeCut, InRows
<1>2. /\ \A s : Listed(dst, s) <=> s \in K /\ Listed(national, s)
      /\ \A s : Listed(dst, s) => RowOf(dst, s) = RowOf(national, s)
      /\ StopIds(dst) = {s \in K : Listed(national, s)}
      /\ Called(dst) = Called(national)
  BY CutStops, CutTables DEF WholeCut
<1>3. Called(national) \subseteq K /\ AllParents(national, K) \subseteq K
  BY DEF WholeCut, Closure, Closed
<1>4. ASSUME NEW s \in StopIds(dst), Listed(national, RowOf(dst, s).parent)
      PROVE  Listed(dst, RowOf(dst, s).parent)
  <2> DEFINE p == RowOf(dst, s).parent
  <2>1. p # NoParent
    BY <1>1, <1>4 DEF Listed
  <2>2. s \in K /\ RowOf(national, s).parent = p /\ RowOf(national, s) \in RowsOf(national, K)
    BY <1>2 DEF RowsOf
  <2>3. p \in AllParents(national, K)
    BY <2>1, <2>2 DEF AllParents
  <2> QED  BY <1>2, <1>3, <1>4, <2>3
<1>5. \A s \in StopIds(dst) : RowOf(dst, s) = RowOf(national, s)
  BY <1>2
<1>6. \A s \in Called(dst) : Listed(national, s) => Listed(dst, s)
  BY <1>2, <1>3
<1>7. dst.transfers = {x \in national.transfers : x[1] \in K /\ x[2] \in K}
  BY CutRest DEF WholeCut
<1>8. \A x \in national.transfers : {x[1], x[2]} \subseteq StopIds(dst) => x \in dst.transfers
  BY <1>2, <1>7
<1> QED  BY <1>4, <1>5, <1>6, <1>8 DEF StopsIntact

\* A cut has no other stops: those left out of a smaller set that is closed could be
\* left out of the closure, with the ids that no row lists.
LEMMA CutNoStopIdle ==
    ASSUME NEW K, WholeCut(K)
    PROVE  NoStopIdle
<1>1. /\ StopIds(dst) = {s \in K : Listed(national, s)}
      /\ \A C : AllParents(dst, C) = AllParents(national, C \cap K)
      /\ Called(dst) = Called(national)
  BY CutStops, CutTables DEF WholeCut
<1>2. /\ K \subseteq Universe /\ Needed(national, K)
      /\ Called(national) \subseteq K /\ AllParents(national, K) \subseteq K
  BY DEF WholeCut, Closure, Closed
<1>3. SUFFICES ASSUME NEW C \in SUBSET StopIds(dst),
                      (Called(dst) \cup AllParents(dst, C)) \cap StopIds(dst) \subseteq C
               PROVE  StopIds(dst) \subseteq C
  BY DEF NoStopIdle
<1> DEFINE D == C \cup {s \in K : ~ Listed(national, s)}
<1>4. AllParents(national, D) = AllParents(national, C)
  BY DEF AllParents, RowsOf
<1>5. C \cap K = C
  BY <1>1
<1>6. AllParents(dst, C) = AllParents(national, C)
  BY <1>1, <1>5
<1>7. AllParents(national, C) \subseteq K
  BY <1>2, <1>5, ParentsGrow
<1>8. Called(national) \cup AllParents(national, D) \subseteq D
  BY <1>1, <1>2, <1>3, <1>4, <1>6, <1>7
<1>9. D \in SUBSET Universe /\ Closed(national, D)
  BY <1>1, <1>2, <1>8 DEF Closed
<1>10. K \subseteq D
  BY <1>2, <1>9 DEF Needed
<1> QED  BY <1>1, <1>10

\* An output with all its members is a cut to the closure.
LEMMA WholeIsCut ==
    ASSUME FilterInv, Whole
    PROVE  \E K : WholeCut(K)
<1>1. IsOutput(dst) /\ Legible(dst) = Names /\ national \in Feeds
  BY DEF FilterInv, Whole
<1>2. Names = Tables \cup {"stops", "services", "shapes", "transfers", "frequencies"}
  BY OrderOf
<1>3. dst.members = Names /\ dst.damaged = {}
  BY <1>1 DEF IsOutput, Legible
<1>4. "trips" \in Legible(dst) /\ "stops" \in Legible(dst)
  BY <1>1, <1>2 DEF Tables
<1>5. PICK K \in SUBSET Universe :
         Closure(national, K) /\ dst = Part(Cut(national, K), Names, {})
  BY <1>1, <1>3, <1>4, OutputAgrees
<1>6. national.members = Names
  BY <1>1, FeedsAssumption
<1>7. Part(Cut(national, K), Names, {}) = Cut(national, K)
  BY <1>2, <1>6, WholePart DEF Tables
<1> QED  BY <1>1, <1>5, <1>7 DEF WholeCut

\* An output that has its members is our part of the national feed, the whole of it and
\* no more, after any number of runs over each other's output (main).
THEOREM WholeOutput == Spec => []OutputIntact
<1>1. FilterInv => OutputIntact
  <2> SUFFICES ASSUME FilterInv, Whole
               PROVE  TripsIntact /\ StopsIntact /\ NoStopIdle
    BY DEF OutputIntact
  <2>1. PICK K : WholeCut(K)
    BY WholeIsCut
  <2> QED  BY <2>1, CutTripsIntact, CutStopsIntact, CutNoStopIdle
<1> QED  BY <1>1, FilterInvariant, PTL

-----------------------------------------------------------------------------
(* Bikes and rush hours.                                                   *)

\* The time of day of a moment of the day itself, and of the night after it.
LEMMA TimeOfDay ==
    ASSUME NEW s \in Nat, NEW d \in Nat \ {0}
    PROVE  /\ s < d => s % d = s
           /\ d <= s /\ s < d + d => s % d = s - d
<1>1. ASSUME s < d
      PROVE  s % d = s
  BY <1>1, SMTT(30)
<1>2. ASSUME d <= s, s < d + d
      PROVE  s % d = s - d
  <2>1. s - d \in Nat /\ s - d < d /\ s = d * 1 + (s - d)
    BY <1>2
  <2> QED  BY <2>1, SMTT(30)
<1> QED  BY <1>1, <1>2

\* A trip whose known times lie on one side of a window is never within it.
LEMMA OffPeakMoment ==
    ASSUME NEW w \in RushWindows, NEW a \in Nat, NEW b \in Nat, NEW s \in a..b,
           b <= Day + w[1],
           \/ b <= w[1]
           \/ a >= w[2]
    PROVE  ~ (w[1] < s % Day /\ s % Day < w[2])
<1>1. Day \in Nat \ {0} /\ w[1] \in Nat /\ w[2] \in Nat /\ w[1] + 1 < w[2] /\ w[2] <= Day
  BY RushAssumption
<1>2. s \in Nat /\ a <= s /\ s <= b
  OBVIOUS
<1>3. CASE s < Day
  <2>1. s % Day = s
    BY <1>1, <1>2, <1>3, TimeOfDay
  <2> QED  BY <1>1, <1>2, <2>1
<1>4. CASE Day <= s
  <2>1. s < Day + Day
    BY <1>1, <1>2
  <2>2. s % Day = s - Day
    BY <1>1, <1>2, <1>4, <2>1, TimeOfDay
  <2> QED  BY <1>1, <1>2, <2>2
<1> QED  BY <1>1, <1>2, <1>3, <1>4

\* A trip that has been given its bikes runs at no moment of a rush hour, also in an
\* output of which members are missing (main, the comment on RUSH_WINDOWS).
THEOREM BikesOffPeak == Spec => []OffPeakOnly
<1>1. FilterInv => OffPeakOnly
  <2> SUFFICES ASSUME FilterInv, Present,
                      NEW t \in dst.trips, NEW u \in national.trips,
                      t.id = u.id, t.bikes, ~ u.bikes,
                      NEW a \in Known(dst, t.id), NEW b \in Known(dst, t.id), NEW s \in a..b,
                      NEW w \in RushWindows
               PROVE  ~ (w[1] < s % Day /\ s % Day < w[2])
    BY DEF OffPeakOnly
  <2>1. /\ national \in Feeds /\ IsOutput(dst)
        /\ "trips" \in Legible(dst) /\ Tables \subseteq Legible(dst)
    BY DEF FilterInv, IsOutput
  <2>2. PICK K : dst.trips = Repaired(national) /\ dst.calls = Cut(national, K).calls
    <3>1. PICK K : Agree(dst, Cut(national, K), Legible(dst))
      BY <2>1, OutputAgrees
    <3> QED  BY <2>1, <3>1, CutTables DEF Agree, Tables
  <2>3. PICK v \in OurTrips(national) :
           t.id = v.id /\ t.bikes = (v.bikes \/ (Candidate(national, v) /\ OffPeak(national, v)))
    BY <2>1, <2>2, RepairedAre
  <2>4. v = u
    BY <2>1, <2>3, FeedsAssumption DEF OurTrips
  <2>5. OffPeak(national, u)
    BY <2>3, <2>4
  <2>6. Known(dst, t.id) = Known(national, u.id)
    <3>1. Known(Cut(national, K), u.id) = Known(national, u.id)
      BY <2>1, <2>3, <2>4, CutKnown
    <3> QED  BY <2>2, <2>3, <2>4, <3>1 DEF Known
  <2>7. Known(national, u.id) \subseteq Nat
    BY <2>1, FeedsAssumption DEF Known
  <2>8. b <= Day + w[1]
    BY <2>1, <2>6, RushAssumption
  <2>9. b <= w[1] \/ a >= w[2]
    BY <2>5, <2>6 DEF OffPeak
  <2> QED  BY <2>6, <2>7, <2>8, <2>9, OffPeakMoment
<1> QED  BY <1>1, FilterInvariant, PTL

-----------------------------------------------------------------------------
(* The import.                                                             *)

\* The rows of an import are finitely many, one for each stop.
LEMMA ImportedRows ==
    ASSUME NEW f, InRows(f)
    PROVE  /\ IsFiniteSet(LastRows(f))
           /\ \A row, other \in LastRows(f) : row.id = other.id => row = other
<1>1. LastRows(f) \subseteq {f.stops[i] : i \in DOMAIN f.stops}
  BY DEF LastRows, Placeable
<1>2. IsFiniteSet(LastRows(f))
  BY <1>1, RowsFinite
<1>3. ASSUME NEW row \in LastRows(f), NEW other \in LastRows(f), row.id = other.id
      PROVE  row = other
  <2>1. PICK i \in Placeable(f) :
           /\ row = f.stops[i]
           /\ \A k \in Placeable(f) : f.stops[k].id = f.stops[i].id => k <= i
    BY DEF LastRows
  <2>2. PICK j \in Placeable(f) :
           /\ other = f.stops[j]
           /\ \A k \in Placeable(f) : f.stops[k].id = f.stops[j].id => k <= j
    BY DEF LastRows
  <2>3. i \in Nat /\ j \in Nat /\ i <= j /\ j <= i
    BY <1>3, <2>1, <2>2 DEF InRows, Placeable
  <2> QED  BY <2>1, <2>2, <2>3
<1> QED  BY <1>2, <1>3

\* A row that can be placed is imported if it is the one that all_stops has.
LEMMA PlacedRow ==
    ASSUME NEW f, InRows(f), NEW s, Listed(f, s), RowOf(f, s).place # NoPlace
    PROVE  RowOf(f, s) \in LastRows(f)
<1>1. PICK i \in DOMAIN f.stops :
         /\ RowOf(f, s) = f.stops[i] /\ f.stops[i].id = s
         /\ \A j \in DOMAIN f.stops : f.stops[j].id = s => j <= i
  BY RowOfIsLast
<1>2. i \in Placeable(f) /\ \A k \in Placeable(f) : f.stops[k].id = s => k <= i
  BY <1>1 DEF Placeable
<1> QED  BY <1>1, <1>2 DEF LastRows

\* The key of the table stays a key.
LEMMA ImportStep ==
    ASSUME FilterInv, TableInv, NEW f \in Readable, Import(f)
    PROVE  TableInv'
<1>1. InRows(f)
  BY ReadableFeed DEF FilterInv, Readable, Present
<1>2. /\ IsFiniteSet(LastRows(f))
      /\ \A row, other \in LastRows(f) : row.id = other.id => row = other
  BY <1>1, ImportedRows
<1> DEFINE R == LastRows(f)
           left == {old \in table : \A row \in R : row.id # old.id}
<1>3. table' = R \cup left
  BY DEF Import, Upsert
<1>4. IsFiniteSet(left)
  <2>1. left \in SUBSET table /\ IsFiniteSet(table)
    BY DEF TableInv
  <2> HIDE DEF left
  <2> QED  BY <2>1, FS_Subset
<1>5. IsFiniteSet(table')
  <2> HIDE DEF R, left
  <2>1. IsFiniteSet(R)
    BY <1>2 DEF R
  <2> QED  BY <1>3, <1>4, <2>1, FS_Union
<1>6. \A row, old \in table' : row.id = old.id => row = old
  BY <1>2, <1>3 DEF TableInv
<1> QED  BY <1>5, <1>6 DEF TableInv

\* The table has one row for a stop (the primary key of stops).
THEOREM OneRowPerStop == Spec => []TableInv
<1>1. Init => TableInv
  BY FS_EmptySet DEF Init, TableInv
<1>2. FilterInv /\ TableInv /\ [Next]_vars => TableInv'
  <2> SUFFICES ASSUME FilterInv, TableInv, [Next]_vars
               PROVE  TableInv'
    OBVIOUS
  <2>1. CASE UNCHANGED table
    BY <2>1 DEF TableInv
  <2>2. CASE \E f \in Readable : Import(f)
    BY <2>2, ImportStep
  <2> QED  BY <2>1, <2>2 DEF Next, vars
<1> QED  BY <1>1, <1>2, FilterInvariant, PTL DEF Spec

\* As many ids as rows.
LEMMA KeyCounts ==
    ASSUME NEW T, IsFiniteSet(T), \A row, old \in T : row.id = old.id => row = old
    PROVE  Cardinality(Ids(T)) = Cardinality(T)
<1> DEFINE g == [row \in T |-> row.id]
<1>1. g \in Bijection(T, Ids(T))
  BY DEF Bijection, Injection, Surjection, IsInjective, Ids
<1>2. ExistsBijection(T, Ids(T))
  <2> HIDE DEF g
  <2> QED  BY <1>1 DEF ExistsBijection
<1> QED  BY <1>2, FS_Bijection

\* An import that gets as far as the database has found stops.
LEMMA StopsFound ==
    ASSUME FilterInv, NEW f \in Readable, Import(f)
    PROVE  f = national \/ (IsOutput(f) /\ "stops" \in Legible(f))
<1>1. f = national \/ IsOutput(f)
  BY DEF FilterInv, Readable, Present
<1>2. f.stops # <<>>
  <2>1. LastRows(f) # {}
    BY DEF Import
  <2>2. f.stops = <<>> => LastRows(f) = {}
    BY DEF LastRows, Placeable
  <2> QED  BY <2>1, <2>2
<1> QED  BY <1>1, <1>2 DEF IsOutput

\* The row of a stop that our trips need is the same in every feed with stops.
LEMMA NeededRow ==
    ASSUME FilterInv, NEW f, f = national \/ (IsOutput(f) /\ "stops" \in Legible(f)),
           NEW s \in Called(national) \cup AllParents(national, Called(national)),
           Listed(national, s)
    PROVE  Listed(f, s) /\ RowOf(f, s) = RowOf(national, s)
<1>1. CASE f = national
  BY <1>1
<1>2. CASE IsOutput(f) /\ "stops" \in Legible(f)
  <2>1. PICK K : f.stops = Cut(national, K).stops /\ Closure(national, K)
    BY <1>2, OutputAgrees DEF IsOutput, Agree
  <2>2. Called(national) \subseteq K /\ AllParents(national, K) \subseteq K
    BY <2>1 DEF Closure, Closed
  <2>3. s \in K
    BY <2>2, ParentsGrow
  <2>4. Listed(Cut(national, K), s) /\ RowOf(Cut(national, K), s) = RowOf(national, s)
    BY <2>3, CutStops DEF FilterInv
  <2> QED  BY <2>1, <2>4, AgreeStops
<1> QED  BY <1>1, <1>2

\* An import brings in every stop that our trips call at, with its station and as the
\* national feed describes it, and takes no stop away (import_stops).
THEOREM ImportsArrive == Spec => StopsArrive
<1> DEFINE Arrive ==
        /\ Ids(table) \subseteq Ids(table')
        /\ Cardinality(Ids(table')) = Cardinality(table')
        /\ \A s \in Called(national) \cup AllParents(national, Called(national)) :
              Listed(national, s) /\ RowOf(national, s).place # NoPlace
                  => RowOf(national, s) \in table'
<1>1. FilterInv /\ TableInv /\ [Next]_vars => [table' # table => Arrive]_vars
  <2> SUFFICES ASSUME FilterInv, TableInv, [Next]_vars, table' # table
               PROVE  Arrive
    OBVIOUS
  <2>1. PICK f \in Readable : Import(f)
    BY DEF Next, vars
  <2>2. InRows(f)
    BY ReadableFeed DEF FilterInv, Readable, Present
  <2>3. table' = LastRows(f) \cup {old \in table : \A row \in LastRows(f) : row.id # old.id}
    BY <2>1 DEF Import, Upsert
  <2>4. Ids(table) \subseteq Ids(table')
    BY <2>3 DEF Ids
  <2>5. Cardinality(Ids(table')) = Cardinality(table')
    <3>1. TableInv'
      BY <2>1, ImportStep
    <3> QED  BY <3>1, KeyCounts DEF TableInv
  <2>6. ASSUME NEW s \in Called(national) \cup AllParents(national, Called(national)),
               Listed(national, s), RowOf(national, s).place # NoPlace
        PROVE  RowOf(national, s) \in table'
    <3>1. Listed(f, s) /\ RowOf(f, s) = RowOf(national, s)
      BY <2>1, <2>6, StopsFound, NeededRow
    <3>2. RowOf(f, s) \in LastRows(f)
      BY <2>2, <2>6, <3>1, PlacedRow
    <3> QED  BY <2>3, <3>1, <3>2
  <2> QED  BY <2>4, <2>5, <2>6
<1> QED  BY <1>1, FilterInvariant, OneRowPerStop, PTL DEF Spec, StopsArrive

=============================================================================
