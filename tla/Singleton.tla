----------------------------- MODULE Singleton -----------------------------
(***************************************************************************)
(* design_pattern/singleton/: ten threads ask for the one instance of a    *)
(* class.  hangurySingleton and singleton construct it before main;        *)
(* LazySingleton constructs it at the first get(), with a test before and  *)
(* a test under the mutex.                                                 *)
(*                                                                         *)
(* `instance' is read without the lock.  As the build produces it (x86),   *)
(* a store waits in the buffer of its thread, which alone sees it, until   *)
(* the buffer drains, at the unlock at the latest.                         *)
(***************************************************************************)
EXTENDS Naturals, Programs

CONSTANT Thread

VARIABLES
    instance,   \* the pointer in memory: 0, or which construction it points to
    stored,     \* stored[t]: a store of t that is still in its buffer, or 0
    holder,     \* the threads that hold mtx
    constructed,\* how many have been constructed
    getting,    \* getting[t]: the next access of t in get()
    got         \* got[t]: what get() has returned

singletonVars == <<instance, stored, holder, constructed, getting, got>>

Eager == {"hangurySingleton", "singleton"}

SingletonTypeOK ==
    /\ instance \in Nat /\ constructed \in Nat
    /\ stored \in [Thread -> Nat] /\ got \in [Thread -> Nat]
    /\ holder \subseteq Thread
    /\ getting \in [Thread -> {"test", "lock", "retest", "new", "unlock", "return", "done"}]

SingletonInit ==
    /\ constructed = IF program \in Eager THEN 1 ELSE 0
    /\ instance = constructed
    /\ stored = [t \in Thread |-> 0] /\ got = [t \in Thread |-> 0]
    /\ holder = {}
    /\ getting = [t \in Thread |-> IF program \in Eager THEN "return" ELSE "test"]

Seen(t) == IF stored[t] # 0 THEN stored[t] ELSE instance
Then(t, access) == getting' = [getting EXCEPT ![t] = access]

Test(t) == /\ getting[t] = "test"
           /\ Then(t, IF Seen(t) = 0 THEN "lock" ELSE "return")
           /\ UNCHANGED <<instance, stored, holder, constructed, got>>

LockGuard(t) == /\ getting[t] = "lock" /\ holder = {}
                /\ holder' = {t}
                /\ Then(t, "retest")
                /\ UNCHANGED <<instance, stored, constructed, got>>

\* Mutant of Retest: no second test.
NoRetest(t) == /\ getting[t] = "retest"
               /\ Then(t, "new")
               /\ UNCHANGED <<instance, stored, holder, constructed, got>>

Retest(t) == /\ getting[t] = "retest"
             /\ Then(t, IF Seen(t) = 0 THEN "new" ELSE "unlock")
             /\ UNCHANGED <<instance, stored, holder, constructed, got>>

New(t) == /\ getting[t] = "new"
          /\ constructed' = constructed + 1
          /\ stored' = [stored EXCEPT ![t] = constructed']
          /\ Then(t, "unlock")
          /\ UNCHANGED <<instance, holder, got>>

Drain(t) == /\ stored[t] # 0
            /\ instance' = stored[t]
            /\ stored' = [stored EXCEPT ![t] = 0]
            /\ UNCHANGED <<holder, constructed, getting, got>>

UnlockGuard(t) == /\ getting[t] = "unlock"
                  /\ instance' = Seen(t)
                  /\ stored' = [stored EXCEPT ![t] = 0]
                  /\ holder' = {}
                  /\ Then(t, "return")
                  /\ UNCHANGED <<constructed, got>>

\* The third read of instance, again without the lock
ReturnInstance(t) == /\ getting[t] = "return"
                     /\ got' = [got EXCEPT ![t] = Seen(t)]
                     /\ Then(t, "done")
                     /\ UNCHANGED <<instance, stored, holder, constructed>>

Get(t) == \/ Test(t) \/ LockGuard(t) \/ Retest(t) \/ New(t)
          \/ UnlockGuard(t) \/ ReturnInstance(t)

SingletonNext == /\ program \in Eager \cup {"LazySingleton"}
                 /\ \E t \in Thread : Get(t) \/ Drain(t)

----------------------------------------------------------------------------
\* However the threads race, one instance is constructed and each gets that one.
OneInstance ==
    /\ constructed <= 1
    /\ \A t \in Thread : getting[t] = "done" => got[t] = 1
===========================================================================
