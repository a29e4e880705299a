------------------------------ MODULE RefCount ------------------------------
(***************************************************************************)
(* Reference counting of instances: uv::ref_count (utility.hpp), the       *)
(* instance ref()/unref() functions and the copy, move, assignment and     *)
(* destruction of handle variables (handle-base.hpp).                      *)
(*                                                                         *)
(* A slot is a handle variable (or any other place that owns a reference). *)
(* Slots are operated on by different threads, so every atomic access of   *)
(* the counter is an action of its own.  Two operations on one variable    *)
(* never overlap, and no operation changes a variable that another one is  *)
(* copying from: both would be data races of the caller.                   *)
(*                                                                         *)
(* A variable is also made from a bare uv_handle_t*, as loop::walk and the *)
(* libuv callbacks do, with no variable that keeps the instance alive      *)
(* meanwhile.                                                              *)
(***************************************************************************)
EXTENDS Naturals, FiniteSets

CONSTANTS
    Slots,        \* handle variables
    Objects,      \* instances
    NoObject,     \* nullptr in a handle variable
    NoSlot        \* no variable is being copied from

ASSUME RefCountAssumption ==
    /\ IsFiniteSet(Slots)
    /\ NoObject \notin Objects
    /\ NoSlot \notin Slots

VARIABLES
    count,  \* count[o]: the atomic counter of instance o
    life,   \* life[o]: "none" before new, "alive", "freed" after delete
    ptr,    \* ptr[s]: the instance the variable s refers to
    pc,     \* pc[s]: where the operation on s is
    arg,    \* arg[s]: the instance this operation counts
    src,    \* src[s]: the variable this operation copies from
    seen    \* seen[s]: the local c of ref_count::inc()

vars == <<count, life, ptr, pc, arg, src, seen>>

TypeOK ==
    /\ count \in [Objects -> Nat]
    /\ life \in [Objects -> {"none", "alive", "freed"}]
    /\ ptr \in [Slots -> Objects \union {NoObject}]
    /\ pc \in [Slots -> {"idle", "inc", "swap", "dec", "destroy", "undefined"}]
    /\ arg \in [Slots -> Objects \union {NoObject}]
    /\ src \in [Slots -> Slots \union {NoSlot}]
    /\ seen \in [Slots -> Nat]

Init ==
    /\ count = [o \in Objects |-> 0]
    /\ life = [o \in Objects |-> "none"]
    /\ ptr = [s \in Slots |-> NoObject]
    /\ pc = [s \in Slots |-> "idle"]
    /\ arg = [s \in Slots |-> NoObject]
    /\ src = [s \in Slots |-> NoSlot]
    /\ seen = [s \in Slots |-> 0]

-----------------------------------------------------------------------------
\* Variables whose operation still reads the variable s.
Readers(s) == {r \in Slots : pc[r] \in {"inc", "swap"} /\ src[r] = s}

\* An operation may begin to change s.
Writable(s) == pc[s] = "idle" /\ Readers(s) = {}

\* instance::create() and the constructor that stores the result in s.
Create(s, o) ==
    /\ Writable(s)
    /\ ptr[s] = NoObject
    /\ life[o] = "none"
    /\ life' = [life EXCEPT ![o] = "alive"]
    /\ count' = [count EXCEPT ![o] = 1]
    /\ ptr' = [ptr EXCEPT ![s] = o]
    /\ UNCHANGED <<pc, arg, src, seen>>

\* Copy construction of s (ptr[s] is null) or copy assignment to s, up to
\* the load in inc(); a null source has nothing to count.
CopyFrom(s, t) ==
    /\ s # t
    /\ Writable(s)
    /\ pc[t] = "idle"
    /\ arg' = [arg EXCEPT ![s] = ptr[t]]
    /\ src' = [src EXCEPT ![s] = t]
    /\ IF ptr[t] = NoObject
       THEN /\ pc' = [pc EXCEPT ![s] = "swap"]
            /\ UNCHANGED seen
       ELSE /\ pc' = [pc EXCEPT ![s] = "inc"]
            /\ seen' = [seen EXCEPT ![s] = count[ptr[t]]]
    /\ UNCHANGED <<count, life, ptr>>

\* handle(uv_t*): the same from a bare pointer to an instance not yet freed.
CopyFromRaw(s, o) ==
    /\ Writable(s)
    /\ ptr[s] = NoObject
    /\ life[o] = "alive"
    /\ arg' = [arg EXCEPT ![s] = o]
    /\ src' = [src EXCEPT ![s] = NoSlot]
    /\ pc' = [pc EXCEPT ![s] = "inc"]
    /\ seen' = [seen EXCEPT ![s] = count[o]]
    /\ UNCHANGED <<count, life, ptr>>

\* inc(): a counter of zero is a dangling reference; the exception leaves
\* the variable as it was.
IncThrow(s) ==
    /\ pc[s] = "inc"
    /\ seen[s] = 0
    /\ pc' = [pc EXCEPT ![s] = "idle"]
    /\ arg' = [arg EXCEPT ![s] = NoObject]
    /\ src' = [src EXCEPT ![s] = NoSlot]
    /\ UNCHANGED <<count, life, ptr, seen>>

\* Mutant: the counter is not tested for zero.
IncExchange_Unchecked(s) ==
    /\ pc[s] = "inc"
    /\ life[arg[s]] = "alive"
    /\ count[arg[s]] = seen[s]
    /\ count' = [count EXCEPT ![arg[s]] = seen[s] + 1]
    /\ pc' = [pc EXCEPT ![s] = "swap"]
    /\ seen' = [seen EXCEPT ![s] = 0]
    /\ UNCHANGED <<life, ptr, arg, src>>

\* inc(): the exchange succeeds.
IncExchange(s) ==
    /\ pc[s] = "inc"
    /\ seen[s] # 0
    /\ life[arg[s]] = "alive"
    /\ count[arg[s]] = seen[s]
    /\ count' = [count EXCEPT ![arg[s]] = seen[s] + 1]
    /\ pc' = [pc EXCEPT ![s] = "swap"]
    /\ seen' = [seen EXCEPT ![s] = 0]
    /\ UNCHANGED <<life, ptr, arg, src>>

\* inc(): the weak exchange fails, by a changed counter or spuriously, and
\* reloads c.
IncRetry(s) ==
    /\ pc[s] = "inc"
    /\ seen[s] # 0
    /\ life[arg[s]] = "alive"
    /\ seen' = [seen EXCEPT ![s] = count[arg[s]]]
    /\ UNCHANGED <<count, life, ptr, pc, arg, src>>

\* inc() on memory already given back: anything may follow.
IncFreed(s) ==
    /\ pc[s] = "inc"
    /\ seen[s] # 0
    /\ life[arg[s]] = "freed"
    /\ pc' = [pc EXCEPT ![s] = "undefined"]
    /\ UNCHANGED <<count, life, ptr, arg, src, seen>>

\* Mutant: the assignment forgets the old pointer.
StorePointer_Leaks(s) ==
    /\ pc[s] = "swap"
    /\ ptr' = [ptr EXCEPT ![s] = arg[s]]
    /\ arg' = [arg EXCEPT ![s] = NoObject]
    /\ pc' = [pc EXCEPT ![s] = "idle"]
    /\ src' = [src EXCEPT ![s] = NoSlot]
    /\ UNCHANGED <<count, life, seen>>

\* The pointer is stored; the old one, if any, still has to be released.
StorePointer(s) ==
    /\ pc[s] = "swap"
    /\ ptr' = [ptr EXCEPT ![s] = arg[s]]
    /\ arg' = [arg EXCEPT ![s] = ptr[s]]
    /\ pc' = [pc EXCEPT ![s] = IF ptr[s] = NoObject THEN "idle" ELSE "dec"]
    /\ src' = [src EXCEPT ![s] = NoSlot]
    /\ UNCHANGED <<count, life, seen>>

\* Mutant: the source of a move keeps its pointer.
MoveFrom_KeepsSource(s, t) ==
    /\ s # t
    /\ Writable(s)
    /\ Writable(t)
    /\ ptr' = [ptr EXCEPT ![s] = ptr[t]]
    /\ arg' = [arg EXCEPT ![s] = ptr[s]]
    /\ pc' = [pc EXCEPT ![s] = IF ptr[s] = NoObject THEN "idle" ELSE "dec"]
    /\ UNCHANGED <<count, life, src, seen>>

\* Move construction of s or move assignment to s.
MoveFrom(s, t) ==
    /\ s # t
    /\ Writable(s)
    /\ Writable(t)
    /\ ptr' = [ptr EXCEPT ![s] = ptr[t], ![t] = NoObject]
    /\ arg' = [arg EXCEPT ![s] = ptr[s]]
    /\ pc' = [pc EXCEPT ![s] = IF ptr[s] = NoObject THEN "idle" ELSE "dec"]
    /\ UNCHANGED <<count, life, src, seen>>

\* handle::swap().
Exchange(s, t) ==
    /\ s # t
    /\ Writable(s)
    /\ Writable(t)
    /\ ptr' = [ptr EXCEPT ![s] = ptr[t], ![t] = ptr[s]]
    /\ UNCHANGED <<count, life, pc, arg, src, seen>>

\* ~handle(): the variable is gone, its reference still has to be released.
Drop(s) ==
    /\ Writable(s)
    /\ ptr[s] # NoObject
    /\ arg' = [arg EXCEPT ![s] = ptr[s]]
    /\ ptr' = [ptr EXCEPT ![s] = NoObject]
    /\ pc' = [pc EXCEPT ![s] = "dec"]
    /\ UNCHANGED <<count, life, src, seen>>

\* Mutants: the test is for a last reference still there, or for what the
\* counter was before.
Dec_TestsOne(s) ==
    /\ pc[s] = "dec"
    /\ count' = [count EXCEPT ![arg[s]] = @ - 1]
    /\ IF count'[arg[s]] <= 1
       THEN /\ pc' = [pc EXCEPT ![s] = "destroy"]
            /\ UNCHANGED arg
       ELSE /\ pc' = [pc EXCEPT ![s] = "idle"]
            /\ arg' = [arg EXCEPT ![s] = NoObject]
    /\ UNCHANGED <<life, ptr, src, seen>>

Dec_TestsOld(s) ==
    /\ pc[s] = "dec"
    /\ count' = [count EXCEPT ![arg[s]] = @ - 1]
    /\ IF count[arg[s]] = 0
       THEN /\ pc' = [pc EXCEPT ![s] = "destroy"]
            /\ UNCHANGED arg
       ELSE /\ pc' = [pc EXCEPT ![s] = "idle"]
            /\ arg' = [arg EXCEPT ![s] = NoObject]
    /\ UNCHANGED <<life, ptr, src, seen>>

\* instance::unref(): dec() and the test of what it returns.
Dec(s) ==
    /\ pc[s] = "dec"
    /\ count' = [count EXCEPT ![arg[s]] = @ - 1]
    /\ IF count'[arg[s]] = 0
       THEN /\ pc' = [pc EXCEPT ![s] = "destroy"]
            /\ UNCHANGED arg
       ELSE /\ pc' = [pc EXCEPT ![s] = "idle"]
            /\ arg' = [arg EXCEPT ![s] = NoObject]
    /\ UNCHANGED <<life, ptr, src, seen>>

\* uv_interface::close() with its close callback, or destroy(): delete.
Destroy(s) ==
    /\ pc[s] = "destroy"
    /\ life' = [life EXCEPT ![arg[s]] = "freed"]
    /\ pc' = [pc EXCEPT ![s] = "idle"]
    /\ arg' = [arg EXCEPT ![s] = NoObject]
    /\ UNCHANGED <<count, ptr, src, seen>>

Next ==
    \E s \in Slots :
        \/ \E o \in Objects : Create(s, o) \/ CopyFromRaw(s, o)
        \/ \E t \in Slots : CopyFrom(s, t) \/ MoveFrom(s, t) \/ Exchange(s, t)
        \/ IncThrow(s) \/ IncExchange(s) \/ IncRetry(s) \/ IncFreed(s)
        \/ StorePointer(s)
        \/ Drop(s) \/ Dec(s) \/ Destroy(s)

Spec == Init /\ [][Next]_vars

\* A thread that is inside unref() goes on with it.
FairSpec == Spec /\ \A s \in Slots : WF_vars(Dec(s)) /\ WF_vars(Destroy(s))

-----------------------------------------------------------------------------
\* The references to o that exist: the variables that refer to it, and the
\* operations that have counted it but not stored it, or have unstored it
\* but not yet discounted it.
Held(o) == {s \in Slots : ptr[s] = o}
InTransit(o) == {s \in Slots : pc[s] \in {"swap", "dec"} /\ arg[s] = o}
NRefs(o) == Cardinality(Held(o)) + Cardinality(InTransit(o))

\* ref_count: the counter of an instance is the number of references to it
\* that exist, whatever the order in which threads copy, move, assign and
\* drop their variables.
CountMatchesReferences == \A o \in Objects : count[o] = NRefs(o)

\* handle variables: no variable, and no operation that owns a reference,
\* refers to an instance that has been deleted.
NoDanglingReference ==
    \A s \in Slots :
        /\ ptr[s] # NoObject => life[ptr[s]] = "alive"
        /\ pc[s] \in {"swap", "dec"} /\ arg[s] # NoObject
             => life[arg[s]] = "alive"

\* unref(): one thread at most is about to destroy an instance, and it has
\* not been destroyed before.
DestroyedOnce ==
    \A s \in Slots :
        pc[s] = "destroy" =>
            /\ life[arg[s]] = "alive"
            /\ \A t \in Slots :
                  pc[t] = "destroy" /\ arg[t] = arg[s] => t = s

\* inc(): a copy made from a variable never runs it on a deleted instance,
\* never meets a counter of zero, and so never throws, even while bare
\* pointers to the same instance are turned into variables.
NoUseAfterFree ==
    \A s \in Slots :
        src[s] # NoSlot =>
            /\ pc[s] # "undefined"
            /\ pc[s] = "inc" => life[arg[s]] = "alive" /\ seen[s] > 0

\* inc(): a counter that has reached zero stays there, even when bare
\* pointers are turned into variables concurrently with the last unref().
NoResurrection ==
    [][\A o \in Objects :
          life[o] # "none" /\ count[o] = 0 => count'[o] = 0]_vars

\* unref(): an instance whose last reference has gone is deleted.
EventuallyDestroyed ==
    \A o \in Objects :
        life[o] = "alive" /\ count[o] = 0 ~> life[o] = "freed"

\* The counter implements shared ownership: an instance lives exactly as
\* long as some reference to it exists.
Abstract == INSTANCE SharedObject
                WITH refs <- [o \in Objects |-> NRefs(o)]

AbstractSpec == Abstract!Spec
=============================================================================
