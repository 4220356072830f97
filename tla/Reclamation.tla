----------------------------- MODULE Reclamation -----------------------------
(***************************************************************************)
(* What a safe memory reclamation scheme promises the reference-counting   *)
(* layer: a deferred function is executed at most once, and not before     *)
(* every thread that was inside a critical section when the function was   *)
(* deferred has left that critical section.                                *)
(***************************************************************************)
CONSTANTS Threads, Items

VARIABLES guarded,   \* threads inside a critical section
          deferred,  \* functions handed to the scheme so far
          wit,       \* wit[i]: threads that may still use what i reclaims
          done       \* functions executed so far

vars == <<guarded, deferred, wit, done>>

Init == /\ guarded = {} /\ deferred = {} /\ done = {}
        /\ wit = [i \in Items |-> {}]

Forget(t) == wit' = [i \in Items |-> wit[i] \ {t}]

Enter(t)   == guarded' = guarded \union {t} /\ UNCHANGED <<deferred, wit, done>>
Exit(t)    == guarded' = guarded \ {t} /\ Forget(t) /\ UNCHANGED <<deferred, done>>
Defer(i)   == /\ i \notin deferred /\ deferred' = deferred \union {i}
              /\ wit' = [wit EXCEPT ![i] = guarded]
              /\ UNCHANGED <<guarded, done>>
Execute(i) == /\ i \in deferred \ done /\ wit[i] = {}
              /\ done' = done \union {i}
              /\ UNCHANGED <<guarded, deferred, wit>>

Next == \/ \E t \in Threads : Enter(t) \/ Exit(t)
        \/ \E i \in Items : Defer(i) \/ Execute(i)

Spec == Init /\ [][Next]_vars
==============================================================================
