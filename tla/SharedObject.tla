---------------------------- MODULE SharedObject ----------------------------
(***************************************************************************)
(* What uvcc promises about the instance behind a handle, request, buffer  *)
(* or loop variable: an instance lives exactly as long as some reference   *)
(* to it exists.  refs[o] is the number of references that really exist    *)
(* (variables, adopted references, references held by a running libuv      *)
(* operation); the counter that implements it is in RefCount.              *)
(***************************************************************************)
EXTENDS Naturals

CONSTANT Objects

VARIABLES
    life,   \* life[o]: "none" before creation, "alive", "freed"
    refs    \* refs[o]: the number of references to o that exist

vars == <<life, refs>>

Init ==
    /\ life = [o \in Objects |-> "none"]
    /\ refs = [o \in Objects |-> 0]

\* A new instance starts with the reference of the variable that created it.
Create(o) ==
    /\ life[o] = "none"
    /\ life' = [life EXCEPT ![o] = "alive"]
    /\ refs' = [refs EXCEPT ![o] = 1]

\* A reference can only be made from one that exists.
Share(o) ==
    /\ life[o] = "alive"
    /\ refs[o] > 0
    /\ refs' = [refs EXCEPT ![o] = @ + 1]
    /\ UNCHANGED life

Release(o) ==
    /\ life[o] = "alive"
    /\ refs[o] > 0
    /\ refs' = [refs EXCEPT ![o] = @ - 1]
    /\ UNCHANGED life

\* The instance goes when, and only when, the last reference has gone.
Reclaim(o) ==
    /\ life[o] = "alive"
    /\ refs[o] = 0
    /\ life' = [life EXCEPT ![o] = "freed"]
    /\ UNCHANGED refs

Next == \E o \in Objects : Create(o) \/ Share(o) \/ Release(o) \/ Reclaim(o)

Spec == Init /\ [][Next]_vars

=============================================================================
