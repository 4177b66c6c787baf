--------------------------- MODULE SmartPointers ---------------------------
(***************************************************************************)
(* smart_ptr/shared_ptr.cpp and unique_ptr.cpp: the two class templates,   *)
(* in a program that calls their members in any order.  Each SharedPtr and *)
(* UniquePtr of the program is a name that is constructed and destroyed    *)
(* again; the RefCount that a first SharedPtr makes lives and dies with    *)
(* its object and is told apart by it.  The objects hold no pointers, as   *)
(* MyClass does not.  The program is only asked to hand a raw pointer over *)
(* once, and to no second owner.                                           *)
(***************************************************************************)
EXTENDS Naturals, FiniteSets, Programs

CONSTANTS
    Object,     \* bound: the objects that are ever allocated
    Pointer,    \* bound: the smart pointers that exist at a time
    Null        \* nullptr

Gone == "gone"

ASSUME PointerNames == /\ IsFiniteSet(Pointer)
                       /\ Null \notin Object /\ Gone \notin Object \cup {Null}

VARIABLES
    object,     \* object[o]: "none", "live", or how often it was deleted
    raw,        \* the objects that the program has a raw pointer to, and owns
    ref,        \* ref[s]: what pointer s refers to, or "gone" while it does not exist
    counter     \* counter[o]: count in the RefCount of o

pointerVars == <<object, raw, ref, counter>>

Shared == program = "shared_ptr"
Unique == program = "unique_ptr"

PointerTypeOK ==
    /\ object \in [Object -> {"none", "live", "deleted", "deleted twice"}]
    /\ raw \subseteq Object
    /\ ref \in [Pointer -> Object \cup {Null, Gone}]
    /\ counter \in [Object -> 0..Cardinality(Pointer)]

PointerInit ==
    /\ object = [o \in Object |-> "none"] /\ raw = {}
    /\ ref = [s \in Pointer |-> Gone]
    /\ counter = [o \in Object |-> 0]

Deleted(o) == IF object[o] = "live" THEN "deleted" ELSE "deleted twice"

\* The objects after `delete p', of which a null pointer deletes nothing.
AfterDelete(p) == IF p = Null THEN object ELSE [object EXCEPT ![p] = Deleted(p)]

Exists(s) == ref[s] # Gone

----------------------------------------------------------------------------
(* The program: new, and delete of what it owns *)

Allocate(o) == /\ object[o] = "none"
               /\ object' = [object EXCEPT ![o] = "live"]
               /\ raw' = raw \cup {o}
               /\ UNCHANGED <<ref, counter>>

DeleteRaw(o) == /\ o \in raw
                /\ object' = AfterDelete(o)
                /\ raw' = raw \ {o}
                /\ UNCHANGED <<ref, counter>>

\* Both classes have an explicit constructor from a pointer, null by default.
ConstructNull(s) == /\ ~Exists(s)
                    /\ ref' = [ref EXCEPT ![s] = Null]
                    /\ UNCHANGED <<object, raw, counter>>

----------------------------------------------------------------------------
(* SharedPtr *)

ConstructShared(s, o) ==
    /\ ~Exists(s) /\ o \in raw
    /\ ref' = [ref EXCEPT ![s] = o]
    /\ counter' = [counter EXCEPT ![o] = 1]
    /\ raw' = raw \ {o}
    /\ UNCHANGED object

\* counter and object when s lets go of what it refers to: decrement, and delete at 0
LetGo(s) == IF ref[s] = Null THEN counter ELSE [counter EXCEPT ![ref[s]] = @ - 1]
AfterLetGo(s) == IF ref[s] # Null /\ counter[ref[s]] = 1 THEN AfterDelete(ref[s]) ELSE object

CopyShared(s, t) ==
    /\ ~Exists(s) /\ Exists(t)
    /\ ref' = [ref EXCEPT ![s] = ref[t]]
    /\ counter' = IF ref[t] = Null THEN counter ELSE [counter EXCEPT ![ref[t]] = @ + 1]
    /\ UNCHANGED <<object, raw>>

\* Mutant of AssignShared: no test for assignment to itself.
AssignAnyway(s, t) ==
    /\ Exists(s) /\ Exists(t)
    /\ object' = AfterLetGo(s)
    /\ ref' = [ref EXCEPT ![s] = ref[t]]
    /\ counter' = IF ref[t] = Null THEN LetGo(s) ELSE [LetGo(s) EXCEPT ![ref[t]] = @ + 1]
    /\ UNCHANGED raw

AssignShared(s, t) ==
    /\ Exists(s) /\ Exists(t) /\ s # t
    /\ object' = AfterLetGo(s)
    /\ ref' = [ref EXCEPT ![s] = ref[t]]
    /\ counter' = IF ref[t] = Null THEN LetGo(s) ELSE [LetGo(s) EXCEPT ![ref[t]] = @ + 1]
    /\ UNCHANGED raw

DestroyShared(s) ==
    /\ Exists(s)
    /\ object' = AfterLetGo(s)
    /\ counter' = LetGo(s)
    /\ ref' = [ref EXCEPT ![s] = Gone]
    /\ UNCHANGED raw

SharedNext ==
    /\ Shared
    /\ \E s \in Pointer :
           \/ ConstructNull(s) \/ DestroyShared(s)
           \/ \E o \in Object : ConstructShared(s, o)
           \/ \E t \in Pointer : CopyShared(s, t) \/ AssignShared(s, t)

----------------------------------------------------------------------------
(* UniquePtr: copies are deleted functions *)

ConstructUnique(u, o) ==
    /\ ~Exists(u) /\ o \in raw
    /\ ref' = [ref EXCEPT ![u] = o]
    /\ raw' = raw \ {o}
    /\ UNCHANGED <<object, counter>>

MoveUnique(u, v) ==
    /\ ~Exists(u) /\ Exists(v)
    /\ ref' = [ref EXCEPT ![u] = ref[v], ![v] = Null]
    /\ UNCHANGED <<object, raw, counter>>

MoveAssign(u, v) ==
    /\ Exists(u) /\ Exists(v) /\ u # v
    /\ object' = AfterDelete(ref[u])
    /\ ref' = [ref EXCEPT ![u] = ref[v], ![v] = Null]
    /\ UNCHANGED <<raw, counter>>

\* release() gives the pointer back to the program.
ReleaseRaw(u) ==
    /\ Exists(u)
    /\ raw' = raw \cup ({ref[u]} \cap Object)
    /\ ref' = [ref EXCEPT ![u] = Null]
    /\ UNCHANGED <<object, counter>>

\* reset(p), with a pointer of the program's, null, or the one it has: nothing then.
Reset(u, p) ==
    /\ Exists(u) /\ p # ref[u]
    /\ object' = AfterDelete(ref[u])
    /\ ref' = [ref EXCEPT ![u] = p]
    /\ raw' = raw \ {p}
    /\ UNCHANGED counter

DestroyUnique(u) ==
    /\ Exists(u)
    /\ object' = AfterDelete(ref[u])
    /\ ref' = [ref EXCEPT ![u] = Gone]
    /\ UNCHANGED <<raw, counter>>

UniqueNext ==
    /\ Unique
    /\ \E u \in Pointer :
           \/ ConstructNull(u) \/ ReleaseRaw(u) \/ DestroyUnique(u)
           \/ \E o \in Object : ConstructUnique(u, o)
           \/ \E v \in Pointer : MoveUnique(u, v) \/ MoveAssign(u, v)
           \/ \E p \in raw \cup {Null} : Reset(u, p)

PointerNext == /\ Shared \/ Unique
               /\ \/ \E o \in Object : Allocate(o) \/ DeleteRaw(o)
                  \/ SharedNext \/ UniqueNext

----------------------------------------------------------------------------
\* An object lives exactly as long as somebody owns it: the program alone, one
\* UniquePtr alone, or the SharedPtrs that its count counts.  So nothing is leaked,
\* deleted twice, or referred to when it is gone.
OwnedOnce ==
    \A o \in Object :
        LET owners == {s \in Pointer : ref[s] = o} IN
        /\ object[o] = "live" <=> o \in raw \/ owners # {}
        /\ o \in raw => owners = {}
        /\ IF Shared THEN counter[o] = Cardinality(owners)
           ELSE Cardinality(owners) <= 1
===========================================================================
