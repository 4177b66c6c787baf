--------------------------- MODULE JoinedThreads ---------------------------
(***************************************************************************)
(* pthread/pthread_join.cpp, pthread_exit_retval.cpp, pthread_mutex.cpp:   *)
(* main creates threads, joins them one after the other and then uses what *)
(* they have left.  In the first each multiplies its slice of an array; in *)
(* the second each leaves a string on the heap and returns it, or hands it *)
(* to pthread_exit(); in the third each prints its lines under a mutex,    *)
(* which main destroys.  The first one's threads end without the return    *)
(* statement they should have, which the build turns into some value that  *)
(* nobody reads.                                                           *)
(***************************************************************************)
EXTENDS Integers, Programs

CONSTANTS
    Workers,    \* how many threads main creates (10, 2 and 2)
    Slice       \* its elements of the array (100), or its lines (10)

ASSUME ThreadCounts == Workers \in Nat \ {0} /\ Slice \in Nat \ {0}

VARIABLES
    main,       \* what main does next
    turn,       \* the loop counter of main
    created,    \* the threads that exist or have existed
    element,    \* element[t]: how many elements or lines t has done
    a,          \* a[t][e]: how often element e of slice t was multiplied
    result,     \* result[t]: what join has returned of t
    task_mutex, \* the thread that holds the mutex, as a set of at most one
    returned    \* the threads that have returned

threadVars == <<main, turn, created, element, a, result, task_mutex, returned>>

Joining == {"pthread_join", "pthread_exit_retval", "pthread_mutex"}
Worker == 1..Workers

ThreadTypeOK ==
    /\ main \in {"create", "join", "print", "crashed", "done"}
    /\ turn \in 1..Workers + 1
    /\ created \subseteq Worker /\ returned \subseteq created /\ task_mutex \subseteq created
    /\ element \in [Worker -> 0..Slice]
    /\ a \in [Worker -> [1..Slice -> 0..1]]
    /\ result \in [Worker -> {"unset", "string"}]

ThreadInit ==
    /\ main = "create" /\ turn = 1
    /\ created = {} /\ returned = {} /\ task_mutex = {}
    /\ element = [t \in Worker |-> 0]
    /\ a = [t \in Worker |-> [e \in 1..Slice |-> 0]]
    /\ result = [t \in Worker |-> "unset"]

\* Mutant of Turned: the loop ends before the last thread.
TurnedEarly(next) == IF turn < Workers - 1 THEN turn' = turn + 1 /\ UNCHANGED main
                     ELSE turn' = 1 /\ main' = next

Turned(next) == IF turn < Workers THEN turn' = turn + 1 /\ UNCHANGED main
                ELSE turn' = 1 /\ main' = next

\* pthread_create may fail: the error is printed, or not even looked at.
Create == /\ main = "create"
          /\ created' \in {created, created \cup {turn}}
          /\ IF turn < Workers THEN turn' = turn + 1 /\ UNCHANGED main
             ELSE turn' = 1 /\ main' = "join"
          /\ UNCHANGED <<element, a, result, task_mutex, returned>>

Multiply(t) ==
    /\ program = "pthread_join"
    /\ t \in created /\ element[t] < Slice
    /\ element' = [element EXCEPT ![t] = @ + 1]
    /\ a' = [a EXCEPT ![t][element'[t]] = @ + 1]
    /\ UNCHANGED <<main, turn, created, result, task_mutex, returned>>

LockMutex(t) ==
    /\ program = "pthread_mutex"
    /\ t \in created /\ element[t] = 0 /\ task_mutex = {}
    /\ task_mutex' = {t}
    /\ UNCHANGED <<main, turn, created, element, a, result, returned>>

PrintLine(t) ==
    /\ program = "pthread_mutex"
    /\ t \in task_mutex /\ element[t] < Slice
    /\ element' = [element EXCEPT ![t] = @ + 1]
    /\ UNCHANGED <<main, turn, created, a, result, task_mutex, returned>>

UnlockMutex(t) ==
    /\ t \in task_mutex /\ element[t] = Slice
    /\ task_mutex' = {}
    /\ UNCHANGED <<main, turn, created, element, a, result, returned>>

ThreadReturns(t) ==
    /\ t \in created \ returned
    /\ program # "pthread_exit_retval" => element[t] = Slice /\ t \notin task_mutex
    /\ returned' = returned \cup {t}
    /\ UNCHANGED <<main, turn, created, element, a, result, task_mutex>>

Join == /\ main = "join" /\ turn \in returned
        /\ result' = [result EXCEPT ![turn] =
               IF program = "pthread_exit_retval" THEN "string" ELSE @]
        /\ Turned("print")
        /\ UNCHANGED <<created, element, a, task_mutex, returned>>

\* tid[i] was never written: the join finds no such thread, or crashes.
JoinNobody == /\ main = "join" /\ turn \notin created
              /\ \/ Turned("print")
                 \/ main' = "crashed" /\ UNCHANGED turn
              /\ UNCHANGED <<created, element, a, result, task_mutex, returned>>

\* cout, or pthread_mutex_destroy; *str1 of a result that was never set is undefined
\* as well.
ShowResults ==
    /\ main = "print"
    /\ main' \in {"done"} \cup
           (IF program = "pthread_exit_retval" /\ created # Worker THEN {"crashed"} ELSE {})
    /\ UNCHANGED <<turn, created, element, a, result, task_mutex, returned>>

Task(t) == Multiply(t) \/ LockMutex(t) \/ PrintLine(t) \/ UnlockMutex(t) \/ ThreadReturns(t)

ThreadNext == /\ program \in Joining
              /\ \/ Create \/ Join \/ JoinNobody \/ ShowResults
                 \/ \E t \in Worker : main # "crashed" /\ Task(t)

----------------------------------------------------------------------------
\* When main prints, every thread it could create has done all of its work: each
\* element of its slice was multiplied once, and its string has arrived.  The lines
\* of two threads never mix, and nobody is left who would use the destroyed mutex.
PrintedWhenJoined ==
    /\ main = "print" =>
        /\ returned = created /\ task_mutex = {}
        /\ \A t \in created :
            /\ program = "pthread_join" => \A e \in 1..Slice : a[t][e] = 1
            /\ program = "pthread_exit_retval" => result[t] = "string"
    /\ \A t, u \in Worker :
        program = "pthread_mutex" /\ element[t] \in 1..Slice - 1 /\ element[u] \in 1..Slice - 1
            => t = u
===========================================================================
