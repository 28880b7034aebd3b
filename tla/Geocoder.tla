------------------------------ MODULE Geocoder ------------------------------
(***************************************************************************)
(* The in-process name cache of app/clients/geocoder.py and the lookups    *)
(* that share it.  A request resolves the two ends of its trip; a miss     *)
(* awaits Nominatim, and meanwhile others read and fill the cache.         *)
(***************************************************************************)
EXTENDS Integers, Sequences

CONSTANTS
    Callers,       \* the requests there may be at a time
    Values,        \* what a client may write for an end: a name or coordinates
    Coordinates,   \* those that parse as "lat,lon"
    Key(_),        \* the normalised query
    Known,         \* the keys for which Nominatim finds a place
    MaxEntries,    \* _CACHE_MAX_ENTRIES
    NoValue        \* nothing to resolve

ASSUME GeocoderAssumption == /\ Coordinates \subseteq Values
                             /\ MaxEntries \in Nat \ {0}
                             /\ NoValue \notin Values

VARIABLES
    cache,         \* the keys of the dict, in insertion order
    lookup         \* lookup[r][e]: how far r is with end e

geocoder == <<cache, lookup>>

Ends == {"origin", "destination"}

Lookups == [value : Values \cup {NoValue},
            status : {"none", "asked", "fetching", "resolved", "failed"}]

NoLookup == [value |-> NoValue, status |-> "none"]

Ask(v) == [value |-> v, status |-> "asked"]

In(c, k) == \E i \in DOMAIN c : c[i] = k

Cached(k) == In(cache, k)

\* _try_parse_latlon and the cache: both answer without an await.
Local(v) == v \in Coordinates \/ Cached(Key(v))

SetStatus(r, e, s) == lookup' = [lookup EXCEPT ![r][e].status = s]

RememberNewestDropped(k) ==
    LET filled == Append(cache, k)
    IN  cache' = IF Len(filled) > MaxEntries THEN SubSeq(filled, 1, MaxEntries) ELSE filled

\* Assigning a key that another miss has filled in keeps its place in the dict;
\* a new key goes to the end, and the first one goes if there are too many.
Remember(k) ==
    IF Cached(k) THEN UNCHANGED cache
    ELSE LET filled == Append(cache, k)
         IN  cache' = IF Len(filled) > MaxEntries THEN Tail(filled) ELSE filled

\* geocode up to its await: a miss leaves for Nominatim, whoever else has.
Resolve(r, e) ==
    /\ lookup[r][e].status = "asked"
    /\ SetStatus(r, e, IF Local(lookup[r][e].value) THEN "resolved" ELSE "fetching")
    /\ UNCHANGED cache

\* Nominatim has answered with a place.
Found(r, e) ==
    /\ lookup[r][e].status = "fetching"
    /\ Key(lookup[r][e].value) \in Known
    /\ Remember(Key(lookup[r][e].value))
    /\ SetStatus(r, e, "resolved")

\* It knows no such place (400), or it failed or answered with garbage (502).
NotFound(r, e) ==
    /\ lookup[r][e].status = "fetching"
    /\ SetStatus(r, e, "failed")
    /\ UNCHANGED cache

LookupStep(r) == \E e \in Ends : Resolve(r, e) \/ Found(r, e) \/ NotFound(r, e)

Resolved(r, e) == lookup[r][e].status = "resolved"

Settled(r) == \A e \in Ends : lookup[r][e].status \in {"resolved", "failed"}

GeocoderInit == /\ cache = <<>>
                /\ lookup = [r \in Callers |-> [e \in Ends |-> NoLookup]]

-----------------------------------------------------------------------------

\* A step bounds the cache, keeps its names apart, drops none but the first one, and
\* that only when all places are taken, and has in it what it has just looked up.
CacheMoves ==
    /\ Len(cache') <= MaxEntries
    /\ \A i, j \in DOMAIN cache' : cache'[i] = cache'[j] => i = j
    /\ \A i \in DOMAIN cache : (i = 1 /\ Len(cache) = MaxEntries) \/ In(cache', cache[i])
    /\ \A r \in Callers, e \in Ends :
          lookup[r][e].status = "fetching" /\ lookup'[r][e].status = "resolved"
              => In(cache', Key(lookup[r][e].value))

\* The cache of a process never holds more than it may, nor a name twice, although
\* any number of lookups of one name may have missed together; it only makes room
\* when a new name does not fit, by dropping the one that came first, so that a
\* name that was just looked up is there for the next request (geocode).
CacheMovesOn == [][cache' # <<>> => CacheMoves]_geocoder
=============================================================================
