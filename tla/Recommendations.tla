-------------------------- MODULE Recommendations --------------------------
(***************************************************************************)
(* The recommendation map: a file that a training script writes, and the   *)
(* server's copy of it, which it keeps for five minutes and drops when a   *)
(* training it started has ended.                                          *)
(*                                                                         *)
(* A map is known by the training that wrote it.  While the script writes, *)
(* the file cannot be parsed.                                              *)
(***************************************************************************)
EXTENDS Integers

CONSTANTS Visits,        \* requests under way at a time
          TTL,           \* RECOMMENDATION_CACHE_TTL_MS, in ticks of the clock
          MaxClock,      \* bound on the clock
          MaxTrainings   \* bound on trainings

ASSUME RecommendationAssumption == TTL \in Nat \ {0} /\ MaxClock \in Nat /\ MaxTrainings \in Nat

VARIABLES
    file,      \* what the file holds: a training's number, or Torn
    cache,     \* recommendationCache and recommendationCacheLoadedAt
    clock,
    visits,    \* visit -> the request it serves
    trained,   \* trainings begun so far
    held,      \* history: training -> when the file last held its map
    answer,    \* history: the last answer: the age of its map, if cached,
               \* and whether a training that has ended replaced it
    raced      \* history: a read was under way when a training ended, or one failed
recVars == <<file, cache, clock, visits, trained, held, answer, raced>>

Trainings == 0 .. MaxTrainings
Torn == -1      \* a file that is being written
Nothing == -1   \* no map in the cache
NoAnswer == [age |-> 0, old |-> FALSE]
NoCache == [map |-> Nothing, loadedAt |-> 0]

RecTypeOK ==
    /\ file \in Trainings \cup {Torn}
    /\ cache \in [map : Trainings \cup {Nothing}, loadedAt : 0 .. MaxClock]
    /\ clock \in 0 .. MaxClock /\ trained \in Trainings
    /\ visits \in [Visits -> [pc : {"none", "map", "reading", "read",
                                     "training", "writing", "trained"},
                              since : 0 .. MaxClock, map : Trainings]]
    /\ held \in [Trainings -> 0 .. MaxClock]

RecInit ==
    /\ file = 0 /\ cache = NoCache /\ clock = 0 /\ trained = 0
    /\ visits = [v \in Visits |-> [pc |-> "none", since |-> 0, map |-> 0]]
    /\ held = [t \in Trainings |-> 0]
    /\ answer = NoAnswer /\ raced = FALSE

SetVisit(v, visit) == visits' = [visits EXCEPT ![v] = visit]
NoVisit == [pc |-> "none", since |-> 0, map |-> 0]
In(v, pc) == visits[v].pc = pc

\* When the file last held a map: now, if it still does.
HeldAt(t) == IF file = t THEN clock ELSE held[t]

Training == \E v \in Visits : visits[v].pc \in {"training", "writing", "trained"}

\* A request is answered from a map.  Which products its rules lead to, by name
\* or by category, and the newest of the category if none, is data.
Serve(t, age) == answer' = [age |-> age, old |-> t # file /\ ~Training]

CacheValid == cache.map # Nothing /\ clock - cache.loadedAt < TTL

-----------------------------------------------------------------------------
(* getProductRecommendations: the product is read first; then the map is    *)
(* taken from the cache, or the file is read and takes its place.           *)

ProductRead(v) ==
    /\ In(v, "none")
    /\ SetVisit(v, [NoVisit EXCEPT !.pc = "map"])
    /\ UNCHANGED <<file, cache, clock, trained, held, answer, raced>>

CacheHit(v) ==
    /\ In(v, "map") /\ CacheValid
    /\ Serve(cache.map, clock - HeldAt(cache.map))
    /\ SetVisit(v, NoVisit)
    /\ UNCHANGED <<file, cache, clock, trained, held, raced>>

CacheMiss(v) ==
    /\ In(v, "map") /\ ~CacheValid
    /\ SetVisit(v, [NoVisit EXCEPT !.pc = "reading", !.since = clock])
    /\ UNCHANGED <<file, cache, clock, trained, held, answer, raced>>

LoadedNow(v) == clock

\* loadedAt is the time from before the read.
LoadedAt(v) == visits[v].since

\* A file that cannot be parsed leaves the cache as it was, and the request
\* falls back on the category.
FileBytes(v) ==
    /\ In(v, "reading")
    /\ SetVisit(v, IF file = Torn THEN NoVisit
                   ELSE [visits[v] EXCEPT !.pc = "read", !.map = file])
    /\ UNCHANGED <<file, cache, clock, trained, held, answer, raced>>

\* The handler goes on some time after the bytes were read.
FileArrives(v) ==
    /\ In(v, "read")
    /\ cache' = [map |-> visits[v].map, loadedAt |-> LoadedAt(v)]
    /\ Serve(visits[v].map, 0)
    /\ SetVisit(v, NoVisit)
    /\ UNCHANGED <<file, clock, trained, held, raced>>

-----------------------------------------------------------------------------
(* retrainProductRecommendations runs the script and then drops the cache.  *)

RetrainBegin(v) ==
    /\ In(v, "none") /\ trained < MaxTrainings
    /\ trained' = trained + 1
    /\ SetVisit(v, [NoVisit EXCEPT !.pc = "training", !.map = trained + 1])
    /\ UNCHANGED <<file, cache, clock, held, answer, raced>>

\* open(..., "w") empties the file; json.dump fills it.
ScriptOpens(v) ==
    /\ In(v, "training")
    /\ file' = Torn
    /\ held' = IF file = Torn THEN held ELSE [held EXCEPT ![file] = clock]
    /\ SetVisit(v, [visits[v] EXCEPT !.pc = "writing"])
    /\ UNCHANGED <<cache, clock, trained, answer, raced>>

ScriptWrites(v) ==
    /\ In(v, "writing")
    /\ file' = visits[v].map
    /\ held' = IF file = Torn THEN held ELSE [held EXCEPT ![file] = clock]
    /\ SetVisit(v, [visits[v] EXCEPT !.pc = "trained"])
    /\ UNCHANGED <<cache, clock, trained, answer, raced>>

RetrainDone(v) ==
    /\ In(v, "trained")
    /\ cache' = NoCache
    /\ raced' = (raced \/ \E w \in Visits : visits[w].pc \in {"reading", "read"})
    /\ SetVisit(v, NoVisit)
    /\ UNCHANGED <<file, clock, trained, held, answer>>

\* The script fails or is stopped: the file stays as it is, the cache too.
RetrainFails(v) ==
    /\ visits[v].pc \in {"training", "writing", "trained"}
    /\ raced' = TRUE
    /\ SetVisit(v, NoVisit)
    /\ UNCHANGED <<file, cache, clock, trained, held, answer>>

ClockTicks == /\ clock < MaxClock
              /\ clock' = clock + 1
              /\ answer' = NoAnswer
              /\ UNCHANGED <<file, cache, visits, trained, held, raced>>

RecNext ==
    \/ \E v \in Visits :
         \/ ProductRead(v) \/ CacheHit(v) \/ CacheMiss(v)
         \/ FileBytes(v) \/ FileArrives(v)
         \/ RetrainBegin(v) \/ ScriptOpens(v) \/ ScriptWrites(v)
         \/ RetrainDone(v) \/ RetrainFails(v)
    \/ ClockTicks

RecSpec == RecInit /\ [][RecNext]_recVars
-----------------------------------------------------------------------------
\* The cache serves a map for less than its lifetime after the file last held
\* it, however long the read that filled it took.  And once no training runs,
\* the map of an earlier one is served only if a training failed, or ended while
\* a request was between its read of the file and its write of the cache.
CacheFresh == answer.age < TTL /\ (answer.old => raced)
=============================================================================
