------------------------------- MODULE Monitor -------------------------------
(***************************************************************************)
(* std::condition_variable as the C++ engine uses it.  A thread that       *)
(* waits holds the mutex while it tests its predicate; finding it false,   *)
(* it is "blocking" until it has released the mutex and sleeps.  notify_all*)
(* wakes the sleepers, and only them: whoever changes the predicate        *)
(* without the mutex may notify a thread that is still blocking, and the   *)
(* notification is lost.  A thread that has been woken tests again, so     *)
(* spurious wake-ups would only add a test.                                *)
(*                                                                         *)
(* A place in the code where a thread waits is known by its label.         *)
(***************************************************************************)
CONSTANTS
    Cv,        \* the condition variable of each waiting place
    Mutex      \* and its mutex

VARIABLES
    at,        \* where each thread is
    cond       \* whether it is awake, blocking or asleep there

Conditions == {"awake", "blocking", "asleep"}

Free(mutex) ==
    \A t \in DOMAIN at : cond[t] = "blocking" => Mutex[at[t]] # mutex

\* Thread t, at the waiting place, has taken the mutex.
Enters(t, place) == at[t] = place /\ cond[t] = "awake" /\ Free(Mutex[place])

Blocks(t, place) ==
    /\ Enters(t, place)
    /\ cond' = [cond EXCEPT ![t] = "blocking"]
    /\ UNCHANGED at

Sleeps(t) ==
    /\ cond[t] = "blocking"
    /\ cond' = [cond EXCEPT ![t] = "asleep"]
    /\ UNCHANGED at

In(t, condition, cvs) == cond[t] = condition /\ Cv[at[t]] \in cvs

\* notify_all on each of these.
NotifyAll(cvs) ==
    cond' = [t \in DOMAIN at |-> IF In(t, "asleep", cvs) THEN "awake" ELSE cond[t]]

\* The threads that do not hear it.
Deaf(cvs) == {t \in DOMAIN at : In(t, "blocking", cvs)}

Goto(t, place) == at' = [at EXCEPT ![t] = place]
=============================================================================
