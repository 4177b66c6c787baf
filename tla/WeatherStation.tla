-------------------------- MODULE WeatherStation ---------------------------
(***************************************************************************)
(* design_pattern/observer/observer.cpp: the observers of a weather        *)
(* station, kept in the order they were added, as often as they were.      *)
(***************************************************************************)
EXTENDS Integers, SequencesExt, Programs

CONSTANTS
    Observer,   \* the displays
    Weather,    \* pairs of a temperature and a humidity
    MaxEntries  \* bound: the length of the vector

ASSUME StationBound == MaxEntries \in Nat

VARIABLES
    observers,  \* the vector
    weather,    \* the temperature and humidity the station has
    display     \* display[o]: what o was last told

stationVars == <<observers, weather, display>>

Unknown == "unknown"

StationTypeOK ==
    /\ observers \in Seq(Observer) /\ Len(observers) <= MaxEntries
    /\ weather \in Weather \cup {Unknown}
    /\ display \in [Observer -> Weather \cup {Unknown}]

StationInit == /\ observers = <<>>
               /\ weather = Unknown
               /\ display = [o \in Observer |-> Unknown]

AddObserver(o) == /\ Len(observers) < MaxEntries
                  /\ observers' = Append(observers, o)
                  /\ UNCHANGED <<weather, display>>

\* Mutant of Erased: the loop ends when it has erased one.
ErasedFirst(s, o) == {n \in DOMAIN s : s[n] = o /\ \A k \in 1..n - 1 : s[k] # o}

\* The places that removeObserver erases: after erase() the loop goes on one place
\* further, and passes over the entry that has moved up.
Erased(s, o) ==
    CHOOSE erased \in SUBSET DOMAIN s :
        \A n \in DOMAIN s : n \in erased <=> s[n] = o /\ n - 1 \notin erased

Increasing(f) == \A i, j \in DOMAIN f : i < j => f[i] < f[j]

Without(s, places) ==
    LET rest == DOMAIN s \ places
        kept == CHOOSE f \in [1..Cardinality(rest) -> rest] : Increasing(f)
    IN [n \in DOMAIN kept |-> s[kept[n]]]

RemoveObserver(o) == /\ observers' = Without(observers, Erased(observers, o))
                     /\ UNCHANGED <<weather, display>>

\* notifyObservers tells each entry before setWeatherData returns.
SetWeatherData(w) ==
    /\ weather' = w
    /\ display' = [o \in Observer |-> IF Contains(observers, o) THEN w ELSE display[o]]
    /\ UNCHANGED observers

StationNext == /\ program = "observer"
               /\ \/ \E o \in Observer : AddObserver(o) \/ RemoveObserver(o)
                  \/ \E w \in Weather : SetWeatherData(w)

\* The station alone, used by a program that goes on calling it.
StationSpec == /\ program = "observer" /\ StationInit
               /\ [][StationNext /\ UNCHANGED program]_<<program, stationVars>>
               /\ WF_<<program, stationVars>>(StationNext /\ UNCHANGED program)

----------------------------------------------------------------------------
\* The entries of the others are all there, in their order, and nothing is added.
OthersInOrder(o) ==
    \E from \in [DOMAIN observers' -> DOMAIN observers] :
        /\ Increasing(from)
        /\ \A n \in DOMAIN observers' : observers'[n] = observers[from[n]]
        /\ \A m \in DOMAIN observers : observers[m] # o => m \in Range(from)

\* Two entries of o are neighbours: o was added twice in a row, or all that was
\* added in between has been removed.
SideBySide(o) == \E n \in 2..Len(observers) : observers[n] = o /\ observers[n - 1] = o

\* removeObserver does not touch the entries of others, adds nothing, and leaves an
\* entry of its own observer exactly when two of them are neighbours.
RemovalComplete ==
    [][\A o \in Observer : RemoveObserver(o) =>
           OthersInOrder(o) /\ (Contains(observers', o) <=> SideBySide(o))]_stationVars

\* What observer.cpp:87 says of removeObserver: it deregisters an observer, who is told
\* nothing any more.  The loop passes over an entry, so it does not hold.
RemovedIsGone ==
    [][\A o \in Observer : RemoveObserver(o) => ~Contains(observers', o)]_stationVars
===========================================================================
