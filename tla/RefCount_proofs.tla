--------------------------- MODULE RefCount_proofs ---------------------------
(***************************************************************************)
(* Proofs about RefCount, for any finite set of variables and any set of   *)
(* instances: the counter is right, no reference dangles, an instance is   *)
(* destroyed once, one without references has a destroyer, and the counter *)
(* implements SharedObject.                                                *)
(***************************************************************************)
EXTENDS RefCount, FiniteSetTheorems, TLAPS

-----------------------------------------------------------------------------
(* The inductive invariant.                                                *)

\* Only instances that are alive have a counter other than zero.
CountOnlyAlive == \A o \in Objects : life[o] # "alive" => count[o] = 0

\* What the operations in progress know about the instance they count.
OperationInv ==
    \A s \in Slots :
        /\ pc[s] \in {"inc", "dec", "destroy"} => arg[s] \in Objects
        /\ pc[s] = "destroy" => life[arg[s]] = "alive" /\ count[arg[s]] = 0
        /\ pc[s] = "idle" => src[s] = NoSlot
        /\ pc[s] \in {"dec", "destroy", "undefined"} => src[s] = NoSlot

\* A variable that is being copied from keeps the instance until the copy
\* has counted it.
SourceInv ==
    \A s \in Slots :
        src[s] # NoSlot =>
            /\ pc[src[s]] = "idle"
            /\ pc[s] = "inc" => ptr[src[s]] = arg[s] /\ seen[s] > 0

\* Two operations never destroy the same instance.
DestroyerUnique ==
    \A s, t \in Slots :
        pc[s] = "destroy" /\ pc[t] = "destroy" /\ arg[s] = arg[t] => s = t

Inv ==
    /\ TypeOK
    /\ CountMatchesReferences
    /\ CountOnlyAlive
    /\ OperationInv
    /\ SourceInv
    /\ DestroyerUnique

-----------------------------------------------------------------------------
(* Cardinalities.                                                          *)

\* Variables are finitely many, so the references to an instance are.
LEMMA RefsFinite ==
    ASSUME NEW S \in SUBSET Slots
    PROVE  IsFiniteSet(S) /\ Cardinality(S) \in Nat
BY RefCountAssumption, FS_Subset, FS_CardinalityType

\* An element more.
LEMMA CardAdd ==
    ASSUME NEW S \in SUBSET Slots, NEW x, x \notin S
    PROVE  Cardinality(S \union {x}) = Cardinality(S) + 1
BY RefsFinite, FS_AddElement

\* An element less.
LEMMA CardRemove ==
    ASSUME NEW S \in SUBSET Slots, NEW x, x \in S
    PROVE  Cardinality(S \ {x}) = Cardinality(S) - 1 /\ Cardinality(S) > 0
<1>1. Cardinality(S \ {x}) = Cardinality(S) - 1
  BY RefsFinite, FS_RemoveElement
<1>2. S \ {x} \in SUBSET Slots
  OBVIOUS
<1>3. Cardinality(S) \in Nat /\ Cardinality(S \ {x}) \in Nat
  BY <1>2, RefsFinite
<1> QED
  BY <1>1, <1>3

\* An element replaced by another.
LEMMA CardReplace ==
    ASSUME NEW S \in SUBSET Slots, NEW x \in Slots, NEW y \in Slots, x \in S, y \notin S
    PROVE  Cardinality((S \ {x}) \union {y}) = Cardinality(S)
<1>1. S \ {x} \in SUBSET Slots /\ y \notin S \ {x}
  OBVIOUS
<1>2. Cardinality((S \ {x}) \union {y}) = Cardinality(S \ {x}) + 1
  BY <1>1, CardAdd
<1>3. Cardinality(S \ {x}) = Cardinality(S) - 1 /\ Cardinality(S) \in Nat
  BY CardRemove, RefsFinite
<1> QED
  BY <1>2, <1>3

\* The numbers of held and in-transit references are numbers.
LEMMA RefsType ==
    \A o \in Objects :
        /\ Held(o) \in SUBSET Slots /\ InTransit(o) \in SUBSET Slots
        /\ Cardinality(Held(o)) \in Nat /\ Cardinality(InTransit(o)) \in Nat
<1>1. \A o \in Objects : Held(o) \in SUBSET Slots /\ InTransit(o) \in SUBSET Slots
  BY DEF Held, InTransit
<1> QED
  BY <1>1, RefsFinite

\* A reference that exists has been counted, so its instance is alive.
LEMMA ReferencedAlive ==
    ASSUME TypeOK, CountMatchesReferences, CountOnlyAlive,
           NEW o \in Objects, NEW s \in Held(o) \union InTransit(o)
    PROVE  count[o] > 0 /\ life[o] = "alive"
<1>1. Cardinality(Held(o)) \in Nat /\ Cardinality(InTransit(o)) \in Nat
  BY RefsType
<1>2. Cardinality(Held(o)) > 0 \/ Cardinality(InTransit(o)) > 0
  BY RefsType, CardRemove
<1>3. count[o] = Cardinality(Held(o)) + Cardinality(InTransit(o))
  BY DEF CountMatchesReferences, NRefs
<1>4. count[o] > 0
  BY <1>1, <1>2, <1>3
<1> QED
  BY <1>4 DEF CountOnlyAlive

-----------------------------------------------------------------------------
(* Every step preserves the invariant: the types, the counters, the rest.  *)

\* Every step of the handle operations keeps the types; dec() finds a counter
\* that is not zero.
LEMMA TypePreserved ==
    ASSUME Inv, [Next]_vars
    PROVE  TypeOK'
<1> USE RefCountAssumption DEF Inv, TypeOK, OperationInv
<1>1. ASSUME NEW s \in Slots, NEW o \in Objects, Create(s, o) \/ CopyFromRaw(s, o)
      PROVE  TypeOK'
  BY <1>1 DEF Create, CopyFromRaw
<1>2. ASSUME NEW s \in Slots, NEW t \in Slots, CopyFrom(s, t)
      PROVE  TypeOK'
  BY <1>2 DEF CopyFrom
<1>3. ASSUME NEW s \in Slots, NEW t \in Slots, MoveFrom(s, t) \/ Exchange(s, t)
      PROVE  TypeOK'
  BY <1>3 DEF MoveFrom, Exchange
<1>4. ASSUME NEW s \in Slots, IncThrow(s) \/ IncExchange(s) \/ IncRetry(s) \/ IncFreed(s)
      PROVE  TypeOK'
  BY <1>4 DEF IncThrow, IncExchange, IncRetry, IncFreed
<1>5. ASSUME NEW s \in Slots, StorePointer(s) \/ Drop(s) \/ Destroy(s)
      PROVE  TypeOK'
  BY <1>5 DEF StorePointer, Drop, Destroy
<1>6. ASSUME NEW s \in Slots, Dec(s)
      PROVE  TypeOK'
  <2>1. arg[s] \in Objects /\ s \in InTransit(arg[s])
    BY <1>6 DEF Dec, InTransit
  <2>2. count[arg[s]] > 0
    BY <2>1, ReferencedAlive
  <2>3. count[arg[s]] - 1 \in Nat
    BY <2>1, <2>2
  <2> QED
    BY <1>6, <2>1, <2>3 DEF Dec
<1>7. CASE UNCHANGED vars
  BY <1>7 DEF vars
<1> QED
  BY <1>1, <1>2, <1>3, <1>4, <1>5, <1>6, <1>7 DEF Next

\* Steps that neither store nor count anything.
LEMMA CountUntouched ==
    ASSUME Inv, UNCHANGED <<count, ptr>>,
           \A s \in Slots : \A o \in Objects :
               (pc[s] \in {"swap", "dec"} /\ arg[s] = o)
                   <=> (pc'[s] \in {"swap", "dec"} /\ arg'[s] = o)
    PROVE  CountMatchesReferences'
<1>1. \A o \in Objects : Held(o)' = Held(o) /\ InTransit(o)' = InTransit(o)
  BY DEF Held, InTransit
<1> QED
  BY <1>1 DEF Inv, CountMatchesReferences, NRefs

\* instance::create() starts the counter at the one reference there is.
LEMMA CreateCounts ==
    ASSUME Inv, NEW s \in Slots, NEW o \in Objects, Create(s, o)
    PROVE  CountMatchesReferences'
<1> SUFFICES ASSUME NEW p \in Objects
             PROVE  count'[p] = NRefs(p)'
  BY DEF CountMatchesReferences
<1>1. InTransit(p)' = InTransit(p)
  BY DEF Create, InTransit
<1>2. count[p] = Cardinality(Held(p)) + Cardinality(InTransit(p))
  BY DEF Inv, CountMatchesReferences, NRefs
<1>3. CASE p = o
  <2>1. Held(p)' = Held(p) \union {s} /\ s \notin Held(p)
    BY <1>3, RefCountAssumption DEF Inv, TypeOK, Create, Held
  <2>2. Cardinality(Held(p)') = Cardinality(Held(p)) + 1
    BY <2>1, RefsType, CardAdd
  <2>3. count[p] = 0 /\ count'[p] = 1
    BY <1>3 DEF Inv, TypeOK, CountOnlyAlive, Create
  <2> QED
    BY <1>1, <1>2, <2>2, <2>3, RefsType DEF NRefs
<1>4. CASE p # o
  <2>1. Held(p)' = Held(p) /\ count'[p] = count[p]
    BY <1>4, RefCountAssumption DEF Inv, TypeOK, Create, Held
  <2> QED
    BY <1>1, <1>2, <2>1 DEF NRefs
<1> QED
  BY <1>3, <1>4

\* A successful exchange in inc() counts the reference of the operation.
LEMMA IncExchangeCounts ==
    ASSUME Inv, NEW s \in Slots, IncExchange(s)
    PROVE  CountMatchesReferences'
<1> SUFFICES ASSUME NEW p \in Objects
             PROVE  count'[p] = NRefs(p)'
  BY DEF CountMatchesReferences
<1>1. Held(p)' = Held(p)
  BY DEF IncExchange, Held
<1>2. count[p] = Cardinality(Held(p)) + Cardinality(InTransit(p))
  BY DEF Inv, CountMatchesReferences, NRefs
<1>3. CASE p = arg[s]
  <2>1. InTransit(p)' = InTransit(p) \union {s} /\ s \notin InTransit(p)
    BY <1>3 DEF Inv, TypeOK, IncExchange, InTransit
  <2>2. Cardinality(InTransit(p)') = Cardinality(InTransit(p)) + 1
    BY <2>1, RefsType, CardAdd
  <2>3. count'[p] = count[p] + 1
    BY <1>3 DEF Inv, TypeOK, IncExchange
  <2> QED
    BY <1>1, <1>2, <2>2, <2>3, RefsType DEF NRefs
<1>4. CASE p # arg[s]
  <2>1. InTransit(p)' = InTransit(p) /\ count'[p] = count[p]
    BY <1>4 DEF Inv, TypeOK, IncExchange, InTransit
  <2> QED
    BY <1>1, <1>2, <2>1 DEF NRefs
<1> QED
  BY <1>3, <1>4

\* dec() discounts the reference that the operation owned.
LEMMA DecCounts ==
    ASSUME Inv, NEW s \in Slots, Dec(s)
    PROVE  CountMatchesReferences'
<1> SUFFICES ASSUME NEW p \in Objects
             PROVE  count'[p] = NRefs(p)'
  BY DEF CountMatchesReferences
<1>1. Held(p)' = Held(p)
  BY DEF Dec, Held
<1>2. count[p] = Cardinality(Held(p)) + Cardinality(InTransit(p))
  BY DEF Inv, CountMatchesReferences, NRefs
<1>3. CASE p = arg[s]
  <2>1. InTransit(p)' = InTransit(p) \ {s} /\ s \in InTransit(p)
    BY <1>3 DEF Inv, TypeOK, Dec, InTransit
  <2>2. Cardinality(InTransit(p)') = Cardinality(InTransit(p)) - 1
    BY <2>1, RefsType, CardRemove
  <2>3. count'[p] = count[p] - 1
    BY <1>3 DEF Inv, TypeOK, Dec
  <2> QED
    BY <1>1, <1>2, <2>2, <2>3, RefsType DEF NRefs
<1>4. CASE p # arg[s]
  <2>1. InTransit(p)' = InTransit(p) /\ count'[p] = count[p]
    BY <1>4 DEF Inv, TypeOK, Dec, InTransit
  <2> QED
    BY <1>1, <1>2, <2>1 DEF NRefs
<1> QED
  BY <1>3, <1>4

\* A held reference that becomes one in transit, and the other way round,
\* is still counted.
LEMMA HeldToTransit ==
    ASSUME NEW H \in SUBSET Slots, NEW T \in SUBSET Slots, NEW x, NEW y, x \in H, y \notin T
    PROVE  Cardinality(H \ {x}) + Cardinality(T \union {y}) = Cardinality(H) + Cardinality(T)
<1>1. Cardinality(H) \in Nat /\ Cardinality(T) \in Nat
  BY RefsFinite
<1>2. Cardinality(H \ {x}) = Cardinality(H) - 1
  BY CardRemove
<1>3. Cardinality(T \union {y}) = Cardinality(T) + 1
  BY CardAdd
<1> QED
  BY <1>1, <1>2, <1>3

\* ... of a reference in transit that a variable takes over.
LEMMA TransitToHeld ==
    ASSUME NEW H \in SUBSET Slots, NEW T \in SUBSET Slots, NEW x, NEW y, x \notin H, y \in T
    PROVE  Cardinality(H \union {x}) + Cardinality(T \ {y}) = Cardinality(H) + Cardinality(T)
<1>1. Cardinality(H) \in Nat /\ Cardinality(T) \in Nat
  BY RefsFinite
<1>2. Cardinality(T \ {y}) = Cardinality(T) - 1
  BY CardRemove
<1>3. Cardinality(H \union {x}) = Cardinality(H) + 1
  BY CardAdd
<1> QED
  BY <1>1, <1>2, <1>3

\* So a step that only moves references about keeps the counters right.
LEMMA CountByMoves ==
    ASSUME Inv, UNCHANGED count,
           \A p \in Objects :
               Cardinality(Held(p)') + Cardinality(InTransit(p)')
                   = Cardinality(Held(p)) + Cardinality(InTransit(p))
    PROVE  CountMatchesReferences'
BY DEF Inv, CountMatchesReferences, NRefs

\* The store of an assignment swaps a reference in transit and a held one.
LEMMA StorePointerCounts ==
    ASSUME Inv, NEW s \in Slots, StorePointer(s)
    PROVE  CountMatchesReferences'
<1> SUFFICES ASSUME NEW p \in Objects
             PROVE  Cardinality(Held(p)') + Cardinality(InTransit(p)')
                      = Cardinality(Held(p)) + Cardinality(InTransit(p))
  BY CountByMoves DEF StorePointer
<1>1. CASE p = arg[s] /\ p # ptr[s]
  <2>1. Held(p)' = Held(p) \union {s} /\ s \notin Held(p)
    BY <1>1, RefCountAssumption
      DEF Inv, TypeOK, StorePointer, Held, InTransit
  <2>2. InTransit(p)' = InTransit(p) \ {s} /\ s \in InTransit(p)
    BY <1>1, RefCountAssumption
      DEF Inv, TypeOK, StorePointer, Held, InTransit
  <2> QED
    BY <2>1, <2>2, RefsType, TransitToHeld
<1>2. CASE p = ptr[s] /\ p # arg[s]
  <2>1. Held(p)' = Held(p) \ {s} /\ s \in Held(p)
    BY <1>2, RefCountAssumption
      DEF Inv, TypeOK, StorePointer, Held, InTransit
  <2>2. InTransit(p)' = InTransit(p) \union {s} /\ s \notin InTransit(p)
    BY <1>2, RefCountAssumption
      DEF Inv, TypeOK, StorePointer, Held, InTransit
  <2> QED
    BY <2>1, <2>2, RefsType, HeldToTransit
<1>3. CASE p = ptr[s] <=> p = arg[s]
  <2>1. Held(p)' = Held(p) /\ InTransit(p)' = InTransit(p)
    BY <1>3, RefCountAssumption
      DEF Inv, TypeOK, StorePointer, Held, InTransit
  <2> QED
    BY <2>1
<1> QED
  BY <1>1, <1>2, <1>3

\* ~handle() turns a held reference into one in transit.
LEMMA DropCounts ==
    ASSUME Inv, NEW s \in Slots, Drop(s)
    PROVE  CountMatchesReferences'
<1> SUFFICES ASSUME NEW p \in Objects
             PROVE  Cardinality(Held(p)') + Cardinality(InTransit(p)')
                      = Cardinality(Held(p)) + Cardinality(InTransit(p))
  BY CountByMoves DEF Drop
<1>1. CASE p = ptr[s]
  <2>1. Held(p)' = Held(p) \ {s} /\ s \in Held(p)
    BY <1>1, RefCountAssumption
      DEF Inv, TypeOK, Drop, Writable, Held, InTransit
  <2>2. InTransit(p)' = InTransit(p) \union {s} /\ s \notin InTransit(p)
    BY <1>1, RefCountAssumption
      DEF Inv, TypeOK, Drop, Writable, Held, InTransit
  <2> QED
    BY <2>1, <2>2, RefsType, HeldToTransit
<1>2. CASE p # ptr[s]
  <2>1. Held(p)' = Held(p) /\ InTransit(p)' = InTransit(p)
    BY <1>2, RefCountAssumption
      DEF Inv, TypeOK, Drop, Writable, Held, InTransit
  <2> QED
    BY <2>1
<1> QED
  BY <1>1, <1>2

\* swap() changes neither number.
LEMMA ExchangeCounts ==
    ASSUME Inv, NEW s \in Slots, NEW t \in Slots, Exchange(s, t)
    PROVE  CountMatchesReferences'
<1> SUFFICES ASSUME NEW p \in Objects
             PROVE  Cardinality(Held(p)') + Cardinality(InTransit(p)')
                      = Cardinality(Held(p)) + Cardinality(InTransit(p))
  BY CountByMoves DEF Exchange
<1>1. InTransit(p)' = InTransit(p)
  BY DEF Inv, TypeOK, Exchange, Held, InTransit
<1>2. CASE p = ptr[s] /\ p # ptr[t]
  <2>1. Held(p)' = (Held(p) \ {s}) \union {t} /\ s \in Held(p) /\ t \notin Held(p)
    BY <1>2
      DEF Inv, TypeOK, Exchange, Held, InTransit
  <2> QED
    BY <1>1, <2>1, RefsType, CardReplace
<1>3. CASE p = ptr[t] /\ p # ptr[s]
  <2>1. Held(p)' = (Held(p) \ {t}) \union {s} /\ t \in Held(p) /\ s \notin Held(p)
    BY <1>3
      DEF Inv, TypeOK, Exchange, Held, InTransit
  <2> QED
    BY <1>1, <2>1, RefsType, CardReplace
<1>4. CASE p = ptr[s] <=> p = ptr[t]
  <2>1. Held(p)' = Held(p)
    BY <1>4
      DEF Inv, TypeOK, Exchange, Held, InTransit
  <2> QED
    BY <1>1, <2>1
<1> QED
  BY <1>2, <1>3, <1>4

\* A move hands a held reference over, and the old one is in transit.
LEMMA MoveFromCounts ==
    ASSUME Inv, NEW s \in Slots, NEW t \in Slots, MoveFrom(s, t)
    PROVE  CountMatchesReferences'
<1> SUFFICES ASSUME NEW p \in Objects
             PROVE  Cardinality(Held(p)') + Cardinality(InTransit(p)')
                      = Cardinality(Held(p)) + Cardinality(InTransit(p))
  BY CountByMoves DEF MoveFrom
<1>1. CASE p = ptr[s] /\ p = ptr[t]
  <2>1. Held(p)' = Held(p) \ {t} /\ t \in Held(p)
    BY <1>1, RefCountAssumption
      DEF Inv, TypeOK, MoveFrom, Writable, Held, InTransit
  <2>2. InTransit(p)' = InTransit(p) \union {s} /\ s \notin InTransit(p)
    BY <1>1, RefCountAssumption
      DEF Inv, TypeOK, MoveFrom, Writable, Held, InTransit
  <2> QED
    BY <2>1, <2>2, RefsType, HeldToTransit
<1>2. CASE p = ptr[s] /\ p # ptr[t]
  <2>1. Held(p)' = Held(p) \ {s} /\ s \in Held(p)
    BY <1>2, RefCountAssumption
      DEF Inv, TypeOK, MoveFrom, Writable, Held, InTransit
  <2>2. InTransit(p)' = InTransit(p) \union {s} /\ s \notin InTransit(p)
    BY <1>2, RefCountAssumption
      DEF Inv, TypeOK, MoveFrom, Writable, Held, InTransit
  <2> QED
    BY <2>1, <2>2, RefsType, HeldToTransit
<1>3. CASE p # ptr[s] /\ p = ptr[t]
  <2>1. Held(p)' = (Held(p) \ {t}) \union {s} /\ t \in Held(p) /\ s \notin Held(p)
    BY <1>3, RefCountAssumption
      DEF Inv, TypeOK, MoveFrom, Writable, Held, InTransit
  <2>2. InTransit(p)' = InTransit(p)
    BY <1>3, RefCountAssumption
      DEF Inv, TypeOK, MoveFrom, Writable, Held, InTransit
  <2> QED
    BY <2>1, <2>2, RefsType, CardReplace
<1>4. CASE p # ptr[s] /\ p # ptr[t]
  <2>1. Held(p)' = Held(p) /\ InTransit(p)' = InTransit(p)
    BY <1>4, RefCountAssumption
      DEF Inv, TypeOK, MoveFrom, Writable, Held, InTransit
  <2> QED
    BY <2>1
<1> QED
  BY <1>1, <1>2, <1>3, <1>4

\* Every step keeps the counters right.
LEMMA CountPreserved ==
    ASSUME Inv, [Next]_vars
    PROVE  CountMatchesReferences'
<1>1. ASSUME NEW s \in Slots, NEW o \in Objects, Create(s, o)
      PROVE  CountMatchesReferences'
  BY <1>1, CreateCounts
<1>2. ASSUME NEW s \in Slots, NEW o \in Objects, CopyFromRaw(s, o)
      PROVE  CountMatchesReferences'
  <2>1. UNCHANGED <<count, ptr>>
    BY <1>2 DEF CopyFromRaw
  <2> QED
    BY <1>2, <2>1, CountUntouched, RefCountAssumption DEF CopyFromRaw, Writable, Inv, TypeOK
<1>3. ASSUME NEW s \in Slots, NEW t \in Slots, CopyFrom(s, t)
      PROVE  CountMatchesReferences'
  <2>1. UNCHANGED <<count, ptr>>
    BY <1>3 DEF CopyFrom
  <2> QED
    BY <1>3, <2>1, CountUntouched, RefCountAssumption DEF CopyFrom, Writable, Inv, TypeOK
<1>4. ASSUME NEW s \in Slots, NEW t \in Slots, MoveFrom(s, t)
      PROVE  CountMatchesReferences'
  BY <1>4, MoveFromCounts
<1>5. ASSUME NEW s \in Slots, NEW t \in Slots, Exchange(s, t)
      PROVE  CountMatchesReferences'
  BY <1>5, ExchangeCounts
<1>6. ASSUME NEW s \in Slots, IncThrow(s)
      PROVE  CountMatchesReferences'
  <2>1. UNCHANGED <<count, ptr>>
    BY <1>6 DEF IncThrow
  <2> QED
    BY <1>6, <2>1, CountUntouched, RefCountAssumption DEF IncThrow, Inv, TypeOK
<1>7. ASSUME NEW s \in Slots, IncExchange(s)
      PROVE  CountMatchesReferences'
  BY <1>7, IncExchangeCounts
<1>8. ASSUME NEW s \in Slots, IncRetry(s)
      PROVE  CountMatchesReferences'
  <2>1. UNCHANGED <<count, ptr>>
    BY <1>8 DEF IncRetry
  <2> QED
    BY <1>8, <2>1, CountUntouched, RefCountAssumption DEF IncRetry, Inv, TypeOK
<1>9. ASSUME NEW s \in Slots, IncFreed(s)
      PROVE  CountMatchesReferences'
  <2>1. UNCHANGED <<count, ptr>>
    BY <1>9 DEF IncFreed
  <2> QED
    BY <1>9, <2>1, CountUntouched, RefCountAssumption DEF IncFreed, Inv, TypeOK
<1>10. ASSUME NEW s \in Slots, StorePointer(s)
       PROVE  CountMatchesReferences'
  BY <1>10, StorePointerCounts
<1>11. ASSUME NEW s \in Slots, Drop(s)
       PROVE  CountMatchesReferences'
  BY <1>11, DropCounts
<1>12. ASSUME NEW s \in Slots, Dec(s)
       PROVE  CountMatchesReferences'
  BY <1>12, DecCounts
<1>13. ASSUME NEW s \in Slots, Destroy(s)
       PROVE  CountMatchesReferences'
  <2>1. UNCHANGED <<count, ptr>>
    BY <1>13 DEF Destroy
  <2> QED
    BY <1>13, <2>1, CountUntouched, RefCountAssumption DEF Destroy, Inv, TypeOK
<1>14. CASE UNCHANGED vars
  BY <1>14, CountUntouched DEF vars
<1> QED
  BY <1>1, <1>2, <1>3, <1>4, <1>5, <1>6, <1>7,
     <1>8, <1>9, <1>10, <1>11, <1>12, <1>13, <1>14 DEF Next

\* What the sources and the transit of references imply.
LEMMA SourceAlive ==
    ASSUME Inv, NEW s \in Slots, src[s] # NoSlot, pc[s] = "inc"
    PROVE  count[arg[s]] > 0 /\ life[arg[s]] = "alive"
<1>1. src[s] \in Slots /\ arg[s] \in Objects /\ ptr[src[s]] = arg[s]
  BY DEF Inv, TypeOK, OperationInv, SourceInv
<1>2. src[s] \in Held(arg[s])
  BY <1>1 DEF Held
<1> QED
  BY <1>1, <1>2, ReferencedAlive DEF Inv

\* What unref() is about to discount is alive and counted.
LEMMA DecAlive ==
    ASSUME Inv, NEW s \in Slots, pc[s] = "dec"
    PROVE  arg[s] \in Objects /\ count[arg[s]] > 0 /\ life[arg[s]] = "alive"
<1>1. arg[s] \in Objects /\ s \in InTransit(arg[s])
  BY DEF Inv, OperationInv, InTransit
<1> QED
  BY <1>1, ReferencedAlive DEF Inv

\* Only instances that are alive are counted.
LEMMA OnlyAlivePreserved ==
    ASSUME Inv, [Next]_vars
    PROVE  CountOnlyAlive'
<1>1. ASSUME NEW s \in Slots, NEW o \in Objects, Create(s, o)
      PROVE  CountOnlyAlive'
  BY <1>1 DEF Create, Inv, TypeOK, CountOnlyAlive
<1>2. ASSUME NEW s \in Slots, NEW o \in Objects, CopyFromRaw(s, o)
      PROVE  CountOnlyAlive'
  BY <1>2 DEF CopyFromRaw, Inv, TypeOK, CountOnlyAlive
<1>3. ASSUME NEW s \in Slots, NEW t \in Slots, CopyFrom(s, t)
      PROVE  CountOnlyAlive'
  BY <1>3 DEF CopyFrom, Inv, TypeOK, CountOnlyAlive
<1>4. ASSUME NEW s \in Slots, NEW t \in Slots, MoveFrom(s, t)
      PROVE  CountOnlyAlive'
  BY <1>4 DEF MoveFrom, Inv, TypeOK, CountOnlyAlive
<1>5. ASSUME NEW s \in Slots, NEW t \in Slots, Exchange(s, t)
      PROVE  CountOnlyAlive'
  BY <1>5 DEF Exchange, Inv, TypeOK, CountOnlyAlive
<1>6. ASSUME NEW s \in Slots, IncThrow(s)
      PROVE  CountOnlyAlive'
  BY <1>6 DEF IncThrow, Inv, TypeOK, CountOnlyAlive
<1>7. ASSUME NEW s \in Slots, IncExchange(s)
      PROVE  CountOnlyAlive'
  BY <1>7 DEF IncExchange, Inv, TypeOK, CountOnlyAlive, OperationInv
<1>8. ASSUME NEW s \in Slots, IncRetry(s)
      PROVE  CountOnlyAlive'
  BY <1>8 DEF IncRetry, Inv, TypeOK, CountOnlyAlive
<1>9. ASSUME NEW s \in Slots, IncFreed(s)
      PROVE  CountOnlyAlive'
  BY <1>9 DEF IncFreed, Inv, TypeOK, CountOnlyAlive
<1>10. ASSUME NEW s \in Slots, StorePointer(s)
       PROVE  CountOnlyAlive'
  BY <1>10 DEF StorePointer, Inv, TypeOK, CountOnlyAlive
<1>11. ASSUME NEW s \in Slots, Drop(s)
       PROVE  CountOnlyAlive'
  BY <1>11 DEF Drop, Inv, TypeOK, CountOnlyAlive
<1>12. ASSUME NEW s \in Slots, Dec(s)
       PROVE  CountOnlyAlive'
  BY <1>12, DecAlive DEF Dec, Inv, TypeOK, CountOnlyAlive
<1>13. ASSUME NEW s \in Slots, Destroy(s)
       PROVE  CountOnlyAlive'
  BY <1>13 DEF Destroy, Inv, TypeOK, CountOnlyAlive, OperationInv
<1>14. CASE UNCHANGED vars
  BY <1>14 DEF vars, Inv, CountOnlyAlive
<1> QED
  BY <1>1, <1>2, <1>3, <1>4, <1>5, <1>6, <1>7,
     <1>8, <1>9, <1>10, <1>11, <1>12, <1>13, <1>14 DEF Next

\* The operations in progress keep what they know.
LEMMA OperationPreserved ==
    ASSUME Inv, [Next]_vars
    PROVE  OperationInv'
<1>1. ASSUME NEW s \in Slots, NEW o \in Objects, Create(s, o)
      PROVE  OperationInv'
  BY <1>1, RefCountAssumption
    DEF Create, Writable, Inv, TypeOK, OperationInv
<1>2. ASSUME NEW s \in Slots, NEW o \in Objects, CopyFromRaw(s, o)
      PROVE  OperationInv'
  BY <1>2, RefCountAssumption
    DEF CopyFromRaw, Writable, Inv, TypeOK, OperationInv
<1>3. ASSUME NEW s \in Slots, NEW t \in Slots, CopyFrom(s, t)
      PROVE  OperationInv'
  BY <1>3, RefCountAssumption
    DEF CopyFrom, Writable, Inv, TypeOK, OperationInv
<1>4. ASSUME NEW s \in Slots, NEW t \in Slots, MoveFrom(s, t)
      PROVE  OperationInv'
  BY <1>4, RefCountAssumption
    DEF MoveFrom, Writable, Inv, TypeOK, OperationInv
<1>5. ASSUME NEW s \in Slots, NEW t \in Slots, Exchange(s, t)
      PROVE  OperationInv'
  BY <1>5, RefCountAssumption
    DEF Exchange, Writable, Inv, TypeOK, OperationInv
<1>6. ASSUME NEW s \in Slots, IncThrow(s)
      PROVE  OperationInv'
  BY <1>6, RefCountAssumption
    DEF IncThrow, Inv, TypeOK, OperationInv
<1>7. ASSUME NEW s \in Slots, IncExchange(s)
      PROVE  OperationInv'
  BY <1>7, RefCountAssumption
    DEF IncExchange, Inv, TypeOK, OperationInv
<1>8. ASSUME NEW s \in Slots, IncRetry(s)
      PROVE  OperationInv'
  BY <1>8, RefCountAssumption
    DEF IncRetry, Inv, TypeOK, OperationInv
<1>9. ASSUME NEW s \in Slots, IncFreed(s)
      PROVE  OperationInv'
  BY <1>9, SourceAlive, RefCountAssumption
    DEF IncFreed, Inv, TypeOK, OperationInv
<1>10. ASSUME NEW s \in Slots, StorePointer(s)
       PROVE  OperationInv'
  BY <1>10, RefCountAssumption
    DEF StorePointer, Inv, TypeOK, OperationInv
<1>11. ASSUME NEW s \in Slots, Drop(s)
       PROVE  OperationInv'
  BY <1>11, RefCountAssumption
    DEF Drop, Writable, Inv, TypeOK, OperationInv
<1>12. ASSUME NEW s \in Slots, Dec(s)
       PROVE  OperationInv'
  BY <1>12, DecAlive, RefCountAssumption
    DEF Dec, Inv, TypeOK, OperationInv
<1>13. ASSUME NEW s \in Slots, Destroy(s)
       PROVE  OperationInv'
  BY <1>13, RefCountAssumption
    DEF Destroy, Inv, TypeOK, OperationInv, DestroyerUnique
<1>14. CASE UNCHANGED vars
  BY <1>14 DEF vars, Inv, OperationInv
<1> QED
  BY <1>1, <1>2, <1>3, <1>4, <1>5, <1>6, <1>7,
     <1>8, <1>9, <1>10, <1>11, <1>12, <1>13, <1>14 DEF Next

\* A variable that is being copied from is left alone.
LEMMA SourcePreserved ==
    ASSUME Inv, [Next]_vars
    PROVE  SourceInv'
<1>1. ASSUME NEW s \in Slots, NEW o \in Objects, Create(s, o)
      PROVE  SourceInv'
  BY <1>1, RefCountAssumption
    DEF Create, Writable, Readers, Inv, TypeOK, OperationInv, SourceInv
<1>2. ASSUME NEW s \in Slots, NEW o \in Objects, CopyFromRaw(s, o)
      PROVE  SourceInv'
  BY <1>2, RefCountAssumption
    DEF CopyFromRaw, Writable, Readers, Inv, TypeOK, OperationInv, SourceInv
<1>3. ASSUME NEW s \in Slots, NEW t \in Slots, CopyFrom(s, t)
      PROVE  SourceInv'
  <2>1. ptr[t] # NoObject => ptr[t] \in Objects /\ count[ptr[t]] > 0
    <3>1. ptr[t] # NoObject => ptr[t] \in Objects /\ t \in Held(ptr[t])
      BY DEF Inv, TypeOK, Held
    <3> QED
      BY <3>1, ReferencedAlive DEF Inv
  <2> QED
    BY <1>3, <2>1, RefCountAssumption
      DEF CopyFrom, Writable, Readers, Inv, TypeOK, OperationInv, SourceInv
<1>4. ASSUME NEW s \in Slots, NEW t \in Slots, MoveFrom(s, t)
      PROVE  SourceInv'
  BY <1>4, RefCountAssumption
    DEF MoveFrom, Writable, Readers, Inv, TypeOK, OperationInv, SourceInv
<1>5. ASSUME NEW s \in Slots, NEW t \in Slots, Exchange(s, t)
      PROVE  SourceInv'
  BY <1>5, RefCountAssumption
    DEF Exchange, Writable, Readers, Inv, TypeOK, OperationInv, SourceInv
<1>6. ASSUME NEW s \in Slots, IncThrow(s)
      PROVE  SourceInv'
  BY <1>6, RefCountAssumption
    DEF IncThrow, Inv, TypeOK, OperationInv, SourceInv
<1>7. ASSUME NEW s \in Slots, IncExchange(s)
      PROVE  SourceInv'
  BY <1>7, RefCountAssumption
    DEF IncExchange, Inv, TypeOK, OperationInv, SourceInv
<1>8. ASSUME NEW s \in Slots, IncRetry(s)
      PROVE  SourceInv'
  BY <1>8, SourceAlive, RefCountAssumption
    DEF IncRetry, Inv, TypeOK, OperationInv, SourceInv
<1>9. ASSUME NEW s \in Slots, IncFreed(s)
      PROVE  SourceInv'
  BY <1>9, RefCountAssumption
    DEF IncFreed, Inv, TypeOK, OperationInv, SourceInv
<1>10. ASSUME NEW s \in Slots, StorePointer(s)
       PROVE  SourceInv'
  BY <1>10, RefCountAssumption
    DEF StorePointer, Inv, TypeOK, OperationInv, SourceInv
<1>11. ASSUME NEW s \in Slots, Drop(s)
       PROVE  SourceInv'
  BY <1>11, RefCountAssumption
    DEF Drop, Writable, Readers, Inv, TypeOK, OperationInv, SourceInv
<1>12. ASSUME NEW s \in Slots, Dec(s)
       PROVE  SourceInv'
  BY <1>12, RefCountAssumption
    DEF Dec, Inv, TypeOK, OperationInv, SourceInv
<1>13. ASSUME NEW s \in Slots, Destroy(s)
       PROVE  SourceInv'
  BY <1>13, RefCountAssumption
    DEF Destroy, Inv, TypeOK, OperationInv, SourceInv
<1>14. CASE UNCHANGED vars
  BY <1>14 DEF vars, Inv, SourceInv
<1> QED
  BY <1>1, <1>2, <1>3, <1>4, <1>5, <1>6, <1>7,
     <1>8, <1>9, <1>10, <1>11, <1>12, <1>13, <1>14 DEF Next

\* The last reference is released by one operation.
LEMMA UniquePreserved ==
    ASSUME Inv, [Next]_vars
    PROVE  DestroyerUnique'
<1>1. ASSUME NEW s \in Slots, NEW o \in Objects, Create(s, o)
      PROVE  DestroyerUnique'
  BY <1>1 DEF Create, Inv, TypeOK, DestroyerUnique, Writable
<1>2. ASSUME NEW s \in Slots, NEW o \in Objects, CopyFromRaw(s, o)
      PROVE  DestroyerUnique'
  BY <1>2 DEF CopyFromRaw, Inv, TypeOK, DestroyerUnique, Writable
<1>3. ASSUME NEW s \in Slots, NEW t \in Slots, CopyFrom(s, t)
      PROVE  DestroyerUnique'
  BY <1>3 DEF CopyFrom, Inv, TypeOK, DestroyerUnique, Writable
<1>4. ASSUME NEW s \in Slots, NEW t \in Slots, MoveFrom(s, t)
      PROVE  DestroyerUnique'
  BY <1>4 DEF MoveFrom, Inv, TypeOK, DestroyerUnique, Writable
<1>5. ASSUME NEW s \in Slots, NEW t \in Slots, Exchange(s, t)
      PROVE  DestroyerUnique'
  BY <1>5 DEF Exchange, Inv, TypeOK, DestroyerUnique, Writable
<1>6. ASSUME NEW s \in Slots, IncThrow(s)
      PROVE  DestroyerUnique'
  BY <1>6 DEF IncThrow, Inv, TypeOK, DestroyerUnique
<1>7. ASSUME NEW s \in Slots, IncExchange(s)
      PROVE  DestroyerUnique'
  BY <1>7 DEF IncExchange, Inv, TypeOK, DestroyerUnique
<1>8. ASSUME NEW s \in Slots, IncRetry(s)
      PROVE  DestroyerUnique'
  BY <1>8 DEF IncRetry, Inv, TypeOK, DestroyerUnique
<1>9. ASSUME NEW s \in Slots, IncFreed(s)
      PROVE  DestroyerUnique'
  BY <1>9 DEF IncFreed, Inv, TypeOK, DestroyerUnique
<1>10. ASSUME NEW s \in Slots, StorePointer(s)
       PROVE  DestroyerUnique'
  BY <1>10 DEF StorePointer, Inv, TypeOK, DestroyerUnique
<1>11. ASSUME NEW s \in Slots, Drop(s)
       PROVE  DestroyerUnique'
  BY <1>11 DEF Drop, Inv, TypeOK, DestroyerUnique, Writable
<1>12. ASSUME NEW s \in Slots, Dec(s)
       PROVE  DestroyerUnique'
  BY <1>12, DecAlive DEF Dec, Inv, TypeOK, DestroyerUnique, OperationInv
<1>13. ASSUME NEW s \in Slots, Destroy(s)
       PROVE  DestroyerUnique'
  BY <1>13 DEF Destroy, Inv, TypeOK, DestroyerUnique
<1>14. CASE UNCHANGED vars
  BY <1>14 DEF vars, Inv, DestroyerUnique
<1> QED
  BY <1>1, <1>2, <1>3, <1>4, <1>5, <1>6, <1>7,
     <1>8, <1>9, <1>10, <1>11, <1>12, <1>13, <1>14 DEF Next

-----------------------------------------------------------------------------
(* The theorems.                                                           *)

\* Before any instance has been created the invariant holds.
LEMMA InitInv == Init => Inv
<1> SUFFICES ASSUME Init PROVE Inv
  OBVIOUS
<1>1. TypeOK /\ CountOnlyAlive /\ OperationInv /\ SourceInv /\ DestroyerUnique
  BY RefCountAssumption
     DEF Init, TypeOK, CountOnlyAlive, OperationInv, SourceInv, DestroyerUnique
<1>2. CountMatchesReferences
  <2> SUFFICES ASSUME NEW o \in Objects PROVE count[o] = NRefs(o)
    BY DEF CountMatchesReferences
  <2>1. Held(o) = {} /\ InTransit(o) = {}
    BY RefCountAssumption DEF Init, Held, InTransit
  <2> QED
    BY <2>1, FS_EmptySet DEF Init, NRefs
<1> QED
  BY <1>1, <1>2 DEF Inv

\* Every step of ref_count and the handle operations preserves it.
LEMMA NextInv == Inv /\ [Next]_vars => Inv'
<1> SUFFICES ASSUME Inv, [Next]_vars PROVE Inv'
  OBVIOUS
<1> QED
  BY TypePreserved, CountPreserved, OnlyAlivePreserved, OperationPreserved,
     SourcePreserved, UniquePreserved DEF Inv

\* ref_count and the handle operations: the inductive invariant holds in
\* every reachable state.
THEOREM Invariance == Spec => []Inv
BY InitInv, NextInv, PTL DEF Spec

\* The operations on handle variables keep the types of the state; above
\* all, a counter never goes below zero.
THEOREM TypeCorrect == Spec => []TypeOK
<1>1. Inv => TypeOK
  BY DEF Inv
<1> QED
  BY <1>1, Invariance, PTL

\* ref_count: at any moment the counter of an instance is the number of
\* references to it that exist.
THEOREM CountCorrect == Spec => []CountMatchesReferences
<1>1. Inv => CountMatchesReferences
  BY DEF Inv
<1> QED
  BY <1>1, Invariance, PTL

\* handle variables: no variable and no operation that owns a reference
\* refers to a deleted instance.
THEOREM NoneDangles == Spec => []NoDanglingReference
<1>1. Inv => NoDanglingReference
  <2> SUFFICES ASSUME Inv, NEW s \in Slots
               PROVE  /\ ptr[s] # NoObject => life[ptr[s]] = "alive"
                      /\ pc[s] \in {"swap", "dec"} /\ arg[s] # NoObject
                           => life[arg[s]] = "alive"
    BY DEF NoDanglingReference
  <2>1. ptr[s] # NoObject => ptr[s] \in Objects /\ s \in Held(ptr[s])
    BY DEF Inv, TypeOK, Held
  <2>2. pc[s] \in {"swap", "dec"} /\ arg[s] # NoObject
          => arg[s] \in Objects /\ s \in InTransit(arg[s])
    BY DEF Inv, TypeOK, InTransit
  <2> QED
    BY <2>1, <2>2, ReferencedAlive DEF Inv
<1> QED
  BY <1>1, Invariance, PTL

\* unref(): one operation at most destroys an instance, and only a live one.
THEOREM OneDestroyer == Spec => []DestroyedOnce
<1>1. Inv => DestroyedOnce
  BY DEF Inv, OperationInv, DestroyerUnique, DestroyedOnce
<1> QED
  BY <1>1, Invariance, PTL

\* inc(): a copy from a variable never meets a deleted instance or a counter
\* of zero, so it never throws.
THEOREM CopyIsSafe == Spec => []NoUseAfterFree
<1>1. Inv => NoUseAfterFree
  <2> SUFFICES ASSUME Inv, NEW s \in Slots, src[s] # NoSlot
               PROVE  /\ pc[s] # "undefined"
                      /\ pc[s] = "inc" => life[arg[s]] = "alive" /\ seen[s] > 0
    BY DEF NoUseAfterFree
  <2> QED
    BY SourceAlive DEF Inv, OperationInv, SourceInv
<1> QED
  BY <1>1, Invariance, PTL

\* What a step does to the abstract state, the existing references: it is
\* one of the abstract steps, or changes neither life nor counters.
LEMMA StepsOfCounter ==
    ASSUME Inv, [Next]_vars
    PROVE  \/ UNCHANGED <<count, life>>
           \/ \E o \in Objects :
                 \/ /\ life[o] = "none"
                    /\ life' = [life EXCEPT ![o] = "alive"]
                    /\ count' = [count EXCEPT ![o] = 1]
                 \/ /\ life[o] = "alive" /\ count[o] > 0
                    /\ count' = [count EXCEPT ![o] = @ + 1]
                    /\ UNCHANGED life
                 \/ /\ life[o] = "alive" /\ count[o] > 0
                    /\ count' = [count EXCEPT ![o] = @ - 1]
                    /\ UNCHANGED life
                 \/ /\ life[o] = "alive" /\ count[o] = 0
                    /\ life' = [life EXCEPT ![o] = "freed"]
                    /\ UNCHANGED count
<1>1. ASSUME NEW s \in Slots, NEW o \in Objects, Create(s, o)
      PROVE  /\ life[o] = "none"
             /\ life' = [life EXCEPT ![o] = "alive"]
             /\ count' = [count EXCEPT ![o] = 1]
  BY <1>1 DEF Create
<1>2. ASSUME NEW s \in Slots, IncExchange(s)
      PROVE  /\ arg[s] \in Objects /\ life[arg[s]] = "alive" /\ count[arg[s]] > 0
             /\ count' = [count EXCEPT ![arg[s]] = @ + 1]
             /\ UNCHANGED life
  BY <1>2 DEF IncExchange, Inv, TypeOK, OperationInv
<1>3. ASSUME NEW s \in Slots, Dec(s)
      PROVE  /\ arg[s] \in Objects /\ life[arg[s]] = "alive" /\ count[arg[s]] > 0
             /\ count' = [count EXCEPT ![arg[s]] = @ - 1]
             /\ UNCHANGED life
  BY <1>3, DecAlive DEF Dec
<1>4. ASSUME NEW s \in Slots, Destroy(s)
      PROVE  /\ arg[s] \in Objects /\ life[arg[s]] = "alive" /\ count[arg[s]] = 0
             /\ life' = [life EXCEPT ![arg[s]] = "freed"]
             /\ UNCHANGED count
  BY <1>4 DEF Destroy, Inv, OperationInv
<1>5. ASSUME NEW s \in Slots,
             \/ \E o \in Objects : CopyFromRaw(s, o)
             \/ \E t \in Slots : CopyFrom(s, t) \/ MoveFrom(s, t) \/ Exchange(s, t)
             \/ IncThrow(s) \/ IncRetry(s) \/ IncFreed(s) \/ StorePointer(s) \/ Drop(s)
      PROVE  UNCHANGED <<count, life>>
  BY <1>5 DEF CopyFromRaw, CopyFrom, MoveFrom, Exchange, IncThrow, IncRetry, IncFreed,
              StorePointer, Drop
<1>6. CASE UNCHANGED vars
  BY <1>6 DEF vars
<1> QED
  BY <1>1, <1>2, <1>3, <1>4, <1>5, <1>6 DEF Next

\* inc(): a counter that has reached zero stays there.
THEOREM ZeroIsFinal == Spec => NoResurrection
<1>1. Inv /\ [Next]_vars
        => [\A o \in Objects : life[o] # "none" /\ count[o] = 0 => count'[o] = 0]_vars
  <2> SUFFICES ASSUME Inv, [Next]_vars, NEW o \in Objects, life[o] # "none", count[o] = 0
               PROVE  count'[o] = 0
    OBVIOUS
  <2> QED
    BY StepsOfCounter DEF Inv, TypeOK
<1> QED
  BY <1>1, Invariance, PTL DEF Spec, NoResurrection

\* The counter implements shared ownership (SharedObject): an instance lives
\* exactly as long as some reference to it exists.
THEOREM Implements == Spec => AbstractSpec
<1> DEFINE refs == [o \in Objects |-> NRefs(o)]
<1>1. Inv => refs = count
  BY DEF Inv, TypeOK, CountMatchesReferences
<1>2. Init => Abstract!Init
  BY InitInv, <1>1 DEF Init, Abstract!Init
<1>3. Inv /\ Inv' /\ [Next]_vars => [Abstract!Next]_(Abstract!vars)
  <2> SUFFICES ASSUME Inv, Inv', [Next]_vars
               PROVE  Abstract!Next \/ UNCHANGED Abstract!vars
    OBVIOUS
  <2>1. refs = count /\ refs' = count'
    BY DEF Inv, TypeOK, CountMatchesReferences
  <2>2. CASE UNCHANGED <<count, life>>
    BY <2>1, <2>2 DEF Abstract!vars
  <2>3. ASSUME NEW o \in Objects,
               \/ /\ life[o] = "none"
                  /\ life' = [life EXCEPT ![o] = "alive"]
                  /\ count' = [count EXCEPT ![o] = 1]
               \/ /\ life[o] = "alive" /\ count[o] > 0
                  /\ count' = [count EXCEPT ![o] = @ + 1]
                  /\ UNCHANGED life
               \/ /\ life[o] = "alive" /\ count[o] > 0
                  /\ count' = [count EXCEPT ![o] = @ - 1]
                  /\ UNCHANGED life
               \/ /\ life[o] = "alive" /\ count[o] = 0
                  /\ life' = [life EXCEPT ![o] = "freed"]
                  /\ UNCHANGED count
        PROVE  Abstract!Next
    <3>1. Abstract!Create(o) \/ Abstract!Share(o) \/ Abstract!Release(o) \/ Abstract!Reclaim(o)
      BY <2>1, <2>3
         DEF Abstract!Create, Abstract!Share, Abstract!Release, Abstract!Reclaim
    <3> QED
      BY <3>1 DEF Abstract!Next
  <2> QED
    BY <2>2, <2>3, StepsOfCounter
<1> QED
  BY <1>2, <1>3, Invariance, PTL DEF Spec, AbstractSpec, Abstract!Spec


-----------------------------------------------------------------------------
(* Nothing is left behind.                                                 *)

\* An instance without a reference is being destroyed by some operation.
NothingAbandoned ==
    \A o \in Objects :
        life[o] = "alive" /\ count[o] = 0 =>
            \E s \in Slots : pc[s] = "destroy" /\ arg[s] = o

\* An operation that is destroying an instance goes on until it has done so.
LEMMA DestroyerStays ==
    ASSUME Inv, [Next]_vars, NEW s \in Slots, pc[s] = "destroy", ~Destroy(s)
    PROVE  pc'[s] = "destroy" /\ arg'[s] = arg[s]
<1>1. CASE UNCHANGED vars
  BY <1>1 DEF vars
<1>2. ASSUME NEW r \in Slots, r # s,
             \/ \E o \in Objects : Create(r, o) \/ CopyFromRaw(r, o)
             \/ \E t \in Slots : CopyFrom(r, t) \/ MoveFrom(r, t) \/ Exchange(r, t)
             \/ IncThrow(r) \/ IncExchange(r) \/ IncRetry(r) \/ IncFreed(r)
             \/ StorePointer(r)
             \/ Drop(r) \/ Dec(r) \/ Destroy(r)
      PROVE  pc'[s] = pc[s] /\ arg'[s] = arg[s]
  BY <1>2 DEF Create, CopyFromRaw, CopyFrom, MoveFrom, Exchange, IncThrow, IncExchange,
     IncRetry, IncFreed, StorePointer, Drop, Dec, Destroy, Inv, TypeOK
<1>3. ~(\/ \E o \in Objects : Create(s, o) \/ CopyFromRaw(s, o)
        \/ \E t \in Slots : CopyFrom(s, t) \/ MoveFrom(s, t) \/ Exchange(s, t)
        \/ IncThrow(s) \/ IncExchange(s) \/ IncRetry(s) \/ IncFreed(s)
        \/ StorePointer(s)
        \/ Drop(s) \/ Dec(s))
  BY DEF Create, CopyFromRaw, CopyFrom, MoveFrom, Exchange, IncThrow, IncExchange,
     IncRetry, IncFreed, StorePointer, Drop, Dec, Writable
<1> QED
  BY <1>1, <1>2, <1>3 DEF Next

\* The last reference leaves its instance to the operation that released it.
LEMMA AbandonedStep == Inv /\ NothingAbandoned /\ [Next]_vars => NothingAbandoned'
<1> SUFFICES ASSUME Inv, NothingAbandoned, [Next]_vars, NEW o \in Objects,
                    life'[o] = "alive", count'[o] = 0
             PROVE  \E s \in Slots : pc'[s] = "destroy" /\ arg'[s] = o
  BY DEF NothingAbandoned
<1>1. CASE life[o] = "alive" /\ count[o] = 0
  <2>1. PICK s \in Slots : pc[s] = "destroy" /\ arg[s] = o
    BY <1>1 DEF NothingAbandoned
  <2>2. ~Destroy(s)
    BY <2>1 DEF Destroy, Inv, TypeOK
  <2> QED
    BY <2>1, <2>2, DestroyerStays
<1>2. CASE ~(life[o] = "alive" /\ count[o] = 0)
  <2>1. PICK s \in Slots : Dec(s) /\ arg[s] = o
    <3>1. ASSUME NEW s \in Slots, NEW p \in Objects, Create(s, p) PROVE FALSE
      BY <1>2, <3>1 DEF Create, Inv, TypeOK
    <3>2. ASSUME NEW s \in Slots, IncExchange(s) PROVE FALSE
      BY <1>2, <3>2 DEF IncExchange, Inv, TypeOK, OperationInv
    <3>3. ASSUME NEW s \in Slots, Destroy(s) PROVE FALSE
      BY <1>2, <3>3 DEF Destroy, Inv, TypeOK
    <3>4. ASSUME NEW s \in Slots, Dec(s) PROVE arg[s] = o
      BY <1>2, <3>4 DEF Dec, Inv, TypeOK
    <3>5. ASSUME UNCHANGED <<count, life>> PROVE FALSE
      BY <1>2, <3>5
    <3>6. ASSUME NEW s \in Slots,
                 \/ \E p \in Objects : CopyFromRaw(s, p)
                 \/ \E t \in Slots : CopyFrom(s, t) \/ MoveFrom(s, t) \/ Exchange(s, t)
                 \/ IncThrow(s) \/ IncRetry(s) \/ IncFreed(s) \/ StorePointer(s) \/ Drop(s)
          PROVE  FALSE
      BY <3>5, <3>6 DEF CopyFromRaw, CopyFrom, MoveFrom, Exchange, IncThrow, IncRetry, IncFreed,
         StorePointer, Drop
    <3>7. CASE UNCHANGED vars
      BY <3>5, <3>7 DEF vars
    <3> QED
      BY <3>1, <3>2, <3>3, <3>4, <3>6, <3>7 DEF Next
  <2>2. count'[arg[s]] = 0
    BY <2>1
  <2> QED
    BY <2>1, <2>2 DEF Dec, Inv, TypeOK
<1> QED
  BY <1>1, <1>2

\* unref(): whatever the threads do with their variables and with bare
\* pointers, an instance whose counter has reached zero is in the hands of
\* an operation that deletes it: the safety half of EventuallyDestroyed.
THEOREM NoneAbandoned == Spec => []NothingAbandoned
<1>1. Init => NothingAbandoned
  BY DEF Init, NothingAbandoned
<1> QED
  BY <1>1, AbandonedStep, Invariance, PTL DEF Spec
=============================================================================
