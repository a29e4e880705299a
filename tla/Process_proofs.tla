--------------------------- MODULE Process_proofs ---------------------------
(***************************************************************************)
(* Proofs about Process and Streams, for any number of handles, variables  *)
(* and descriptors of the child: servers, clients and the endpoints of a   *)
(* child are counted exactly, spawn() never shows libuv a stream that is   *)
(* gone, and nothing gets at a handle that has been deleted.               *)
(***************************************************************************)
EXTENDS Process, FiniteSetTheorems, SequenceTheorems, TLAPS

-----------------------------------------------------------------------------
(* The inductive invariant.                                                *)

Slot == Handles \union {NoHandle}

Instance ==
    [life : {"none", "alive", "freed"}, kind : Kinds, refs : Nat, failed : BOOLEAN,
     booked : BOOLEAN, listening : BOOLEAN, waiting : BOOLEAN,
     passed : {"none", "tcp", "pipe"}]

TypeOK ==
    /\ inst \in [Handles -> Instance]
    /\ var \in [Vars -> Slot]
    /\ server \in Slot
    /\ plife \in {"none", "alive", "freed"}
    /\ prefs \in Nat
    /\ pheld \in BOOLEAN
    /\ running \in BOOLEAN
    /\ exiting \in BOOLEAN
    /\ containers \in Seq(Slot)
    /\ endpoints \in Seq(Slot)

\* What an instance has to be by itself: only one that exists books the loop,
\* only one that does so listens, and one that does not reports an error.
Consistent(i) ==
    /\ i.listening => i.booked
    /\ i.booked => i.life = "alive"
    /\ i.life = "alive" => i.booked \/ i.failed

\* An instance exists as long as it is referred to.
Counted(h) ==
    /\ inst[h].refs = UserRefs(h) + EndpointRefs(h)
    /\ inst[h].life = "alive" <=> inst[h].refs > 0

\* The two vectors and the options go together; a container that has a
\* stream has the one that its endpoint keeps.
StdioInv ==
    /\ Len(containers) = Len(endpoints)
    /\ options.count = Len(containers)
    /\ options.current
    /\ \A i \in 1 .. Len(containers) : containers[i] \in {NoHandle, endpoints[i]}

ProcessCounted ==
    /\ prefs = One(pheld) + One(exiting)
    /\ plife = "alive" <=> prefs > 0

Inv ==
    /\ TypeOK
    /\ \A h \in Handles : Consistent(inst[h]) /\ Counted(h)
    /\ StdioInv
    /\ ProcessCounted

-----------------------------------------------------------------------------
(* References.                                                             *)

\* An instance that does not exist.
LEMMA UnbornType ==
    /\ Unborn \in Instance
    /\ Unborn.refs = 0 /\ Unborn.booked = FALSE /\ Unborn.listening = FALSE
<1>1. "tcp" \in Kinds
  BY DEF Kinds, Streaming
<1> QED
  BY <1>1 DEF Unborn, Instance

\* ref() and unref() of any handles keep instances as they have to be, if
\* none is released more often than it is referenced.
LEMMA RecountSound ==
    ASSUME NEW is \in [Handles -> Instance],
           NEW gain \in [Handles -> Nat], NEW lost \in [Handles -> Nat],
           \A h \in Handles :
               /\ Consistent(is[h])
               /\ is[h].life = "alive" <=> is[h].refs + gain[h] > 0
               /\ lost[h] <= is[h].refs + gain[h],
           inst' = Recount(is, gain, lost)
    PROVE  /\ inst' \in [Handles -> Instance]
           /\ \A h \in Handles :
                 /\ Consistent(inst'[h])
                 /\ inst'[h].refs = is[h].refs + gain[h] - lost[h]
                 /\ inst'[h].life = "alive" <=> inst'[h].refs > 0
<1>1. \A h \in Handles :
         LET total == is[h].refs + gain[h] - lost[h]
         IN  inst'[h] = IF lost[h] > 0 /\ total = 0
                        THEN [Unborn EXCEPT !.life = "freed"]
                        ELSE [is[h] EXCEPT !.refs = total]
  BY DEF Recount
<1>2. ASSUME NEW h \in Handles
      PROVE  /\ inst'[h] \in Instance
             /\ Consistent(inst'[h])
             /\ inst'[h].refs = is[h].refs + gain[h] - lost[h]
             /\ inst'[h].life = "alive" <=> inst'[h].refs > 0
  <2> DEFINE total == is[h].refs + gain[h] - lost[h]
  <2>1. /\ is[h] \in Instance /\ gain[h] \in Nat /\ lost[h] \in Nat /\ is[h].refs \in Nat
        /\ lost[h] <= is[h].refs + gain[h]
    BY DEF Instance
  <2>2. total \in Nat
    BY <2>1
  <2>3. CASE lost[h] > 0 /\ total = 0
    <3>1. inst'[h] = [Unborn EXCEPT !.life = "freed"]
      BY <1>1, <2>3
    <3>2. /\ inst'[h] \in Instance
          /\ inst'[h].refs = 0 /\ inst'[h].life = "freed" /\ inst'[h].booked = FALSE
          /\ inst'[h].listening = FALSE
      BY <3>1, UnbornType DEF Instance
    <3> QED
      BY <2>3, <3>2 DEF Consistent
  <2>4. CASE ~(lost[h] > 0 /\ total = 0)
    <3>1. inst'[h] = [is[h] EXCEPT !.refs = total]
      BY <1>1, <2>4
    <3>2. total > 0 <=> is[h].refs + gain[h] > 0
      BY <2>1, <2>4
    <3> HIDE DEF total
    <3>3. /\ inst'[h] \in Instance
          /\ inst'[h].refs = total /\ inst'[h].life = is[h].life
          /\ inst'[h].booked = is[h].booked /\ inst'[h].listening = is[h].listening
          /\ inst'[h].failed = is[h].failed
      BY <2>1, <2>2, <3>1 DEF Instance
    <3>4. Consistent(inst'[h])
      BY <3>3 DEF Consistent
    <3> QED
      BY <3>2, <3>3, <3>4 DEF total
  <2> QED
    BY <2>3, <2>4
<1>3. inst' = [h \in Handles |-> inst'[h]]
  BY DEF Recount
<1> QED
  BY <1>2, <1>3

\* One reference, or none, to one handle or to none.
LEMMA OnlyType ==
    /\ Nothing \in [Handles -> Nat] /\ \A g \in Handles : Nothing[g] = 0
    /\ \A h : Only(h) \in [Handles -> Nat]
    /\ \A h : \A g \in Handles : Only(h)[g] = IF g = h THEN 1 ELSE 0
BY DEF Only, Nothing

-----------------------------------------------------------------------------
(* Counting.                                                               *)

Naming(h) == {v \in Vars : var[v] = h}
Keeping(h) == {i \in DOMAIN endpoints : endpoints[i] = h}

\* Two sets that differ in one element at most differ by one at most.
LEMMA DifferInOne ==
    ASSUME NEW S, IsFiniteSet(S), NEW T, NEW x, T \ {x} = S \ {x}
    PROVE  /\ Cardinality(S) \in Nat
           /\ Cardinality(T) = Cardinality(S) + (IF x \in T THEN 1 ELSE 0)
                                              - (IF x \in S THEN 1 ELSE 0)
<1> DEFINE R == S \ {x}
<1>1. IsFiniteSet(R)
  BY FS_Subset, R \in SUBSET S
<1>2. Cardinality(R) \in Nat /\ Cardinality(R \union {x}) = Cardinality(R) + 1
  BY <1>1, FS_CardinalityType, FS_AddElement
<1>3. S = (IF x \in S THEN R \union {x} ELSE R)
  OBVIOUS
<1>4. T = (IF x \in T THEN R \union {x} ELSE R)
  OBVIOUS
<1> HIDE DEF R
<1>5. Cardinality(S) = Cardinality(R) + (IF x \in S THEN 1 ELSE 0)
  BY <1>2, <1>3
<1>6. Cardinality(T) = Cardinality(R) + (IF x \in T THEN 1 ELSE 0)
  <2>1. CASE x \in T
    <3>1. T = R \union {x}
      BY <1>4, <2>1
    <3> QED
      BY <1>2, <2>1, <3>1
  <2>2. CASE x \notin T
    <3>1. T = R
      BY <1>4, <2>2
    <3> QED
      BY <1>2, <2>2, <3>1
  <2> QED
    BY <2>1, <2>2
<1> DEFINE n == Cardinality(R)
           inT == IF x \in T THEN 1 ELSE 0
           inS == IF x \in S THEN 1 ELSE 0
<1>7. n \in Nat /\ inT \in {0, 1} /\ inS \in {0, 1}
  BY <1>2
<1>8. Cardinality(S) = n + inS /\ Cardinality(T) = n + inT
  BY <1>5, <1>6
<1> HIDE DEF n, inT, inS
<1>9. Cardinality(S) \in Nat /\ Cardinality(T) = Cardinality(S) + inT - inS
  BY <1>7, <1>8
<1> QED
  BY <1>9 DEF inT, inS

\* Variables and endpoints are finitely many.
LEMMA CountTypes ==
    ASSUME TypeOK, NEW h
    PROVE  /\ IsFiniteSet(Naming(h)) /\ IsFiniteSet(Keeping(h))
           /\ Cardinality(Naming(h)) \in Nat /\ EndpointRefs(h) \in Nat
           /\ EndpointRefs(h) = Cardinality(Keeping(h))
           /\ UserRefs(h) = Cardinality(Naming(h)) + (IF server = h THEN 1 ELSE 0)
           /\ UserRefs(h) \in Nat
<1>1. Naming(h) \in SUBSET Vars
  BY DEF Naming
<1>2. IsFiniteSet(Naming(h)) /\ Cardinality(Naming(h)) \in Nat
  BY <1>1, StreamsAssumption, FS_Subset, FS_CardinalityType
<1>3. Len(endpoints) \in Nat /\ DOMAIN endpoints = 1 .. Len(endpoints)
  BY LenProperties DEF TypeOK
<1>4. Keeping(h) \in SUBSET (1 .. Len(endpoints))
  BY <1>3 DEF Keeping
<1>5. IsFiniteSet(1 .. Len(endpoints))
  BY <1>3, FS_Interval
<1>6. IsFiniteSet(Keeping(h)) /\ Cardinality(Keeping(h)) \in Nat
  BY <1>4, <1>5, FS_Subset, FS_CardinalityType
<1>7. EndpointRefs(h) = Cardinality(Keeping(h))
  BY DEF EndpointRefs, Keeping
<1>8. UserRefs(h) = Cardinality(Naming(h)) + (IF server = h THEN 1 ELSE 0)
  BY DEF UserRefs, Naming, One
<1> QED
  BY <1>2, <1>6, <1>7, <1>8

\* What a variable, a callback or an endpoint names is referred to.
LEMMA ReferredTo ==
    ASSUME Inv, NEW h \in Handles
    PROVE  /\ (h = server \/ \E v \in Vars : var[v] = h) => UserRefs(h) > 0
           /\ (\E i \in 1 .. Len(endpoints) : endpoints[i] = h) => EndpointRefs(h) > 0
           /\ UserRefs(h) > 0 \/ EndpointRefs(h) > 0 => inst[h].life = "alive"
           /\ inst[h].refs = UserRefs(h) + EndpointRefs(h)
<1>1. TypeOK
  BY DEF Inv
<1>2. DOMAIN endpoints = 1 .. Len(endpoints)
  BY <1>1, LenProperties DEF TypeOK
<1>3. (\E v \in Vars : var[v] = h) => Cardinality(Naming(h)) # 0
  BY <1>1, CountTypes, FS_EmptySet DEF Naming
<1>4. (\E i \in 1 .. Len(endpoints) : endpoints[i] = h) => Cardinality(Keeping(h)) # 0
  BY <1>1, <1>2, CountTypes, FS_EmptySet DEF Keeping
<1> QED
  BY <1>1, <1>3, <1>4, CountTypes DEF Inv, Counted

\* One variable changes.
LEMMA VarsUpdate ==
    ASSUME TypeOK, NEW v \in Vars, NEW h, server' = server,
           \A w \in Vars \ {v} : var'[w] = var[w]
    PROVE  UserRefs(h)' = UserRefs(h) + (IF var'[v] = h THEN 1 ELSE 0)
                                      - (IF var[v] = h THEN 1 ELSE 0)
<1>1. /\ Naming(h)' \ {v} = Naming(h) \ {v}
      /\ v \in Naming(h) <=> var[v] = h
      /\ v \in Naming(h)' <=> var'[v] = h
  BY DEF Naming
<1>2. Cardinality(Naming(h)') = Cardinality(Naming(h)) + (IF v \in Naming(h)' THEN 1 ELSE 0)
                                                       - (IF v \in Naming(h) THEN 1 ELSE 0)
  BY <1>1, CountTypes, DifferInOne
<1>3. UserRefs(h)' = Cardinality(Naming(h)') + (IF server' = h THEN 1 ELSE 0)
  BY DEF UserRefs, Naming, One
<1> QED
  BY <1>1, <1>2, <1>3, CountTypes

\* A connection callback begins or ends.
LEMMA ServerUpdate ==
    ASSUME TypeOK, NEW h, var' = var
    PROVE  UserRefs(h)' = UserRefs(h) + (IF server' = h THEN 1 ELSE 0)
                                      - (IF server = h THEN 1 ELSE 0)
<1>1. UserRefs(h)' = Cardinality(Naming(h)) + (IF server' = h THEN 1 ELSE 0)
  BY DEF UserRefs, Naming, One
<1> QED
  BY <1>1, CountTypes

\* Operations that count the references they make and give up keep every
\* instance counted.
LEMMA StepSound ==
    ASSUME Inv, NEW is \in [Handles -> Instance],
           NEW gain \in [Handles -> Nat], NEW lost \in [Handles -> Nat],
           \A h \in Handles :
               /\ Consistent(is[h])
               /\ is[h].refs = inst[h].refs
               /\ is[h].life = "alive" <=> is[h].refs + gain[h] > 0
               /\ lost[h] <= is[h].refs + gain[h]
               /\ UserRefs(h)' + EndpointRefs(h)' = inst[h].refs + gain[h] - lost[h],
           inst' = Recount(is, gain, lost)
    PROVE  inst' \in [Handles -> Instance] /\ \A h \in Handles : Consistent(inst'[h]) /\ Counted(h)'
<1>1. /\ inst' \in [Handles -> Instance]
      /\ \A h \in Handles :
            /\ Consistent(inst'[h])
            /\ inst'[h].refs = is[h].refs + gain[h] - lost[h]
            /\ inst'[h].life = "alive" <=> inst'[h].refs > 0
  BY RecountSound
<1> QED
  BY <1>1 DEF Counted

\* The part of the state that belongs to the process alone.
LEMMA FrameProcess ==
    ASSUME Inv, UNCHANGED processVars
    PROVE  /\ StdioInv' /\ ProcessCounted'
           /\ plife' \in {"none", "alive", "freed"} /\ prefs' \in Nat
           /\ pheld' \in BOOLEAN /\ running' \in BOOLEAN /\ exiting' \in BOOLEAN
           /\ containers' \in Seq(Slot) /\ endpoints' \in Seq(Slot)
           /\ \A h : EndpointRefs(h)' = EndpointRefs(h)
BY DEF Inv, TypeOK, StdioInv, ProcessCounted, processVars, EndpointRefs, One

-----------------------------------------------------------------------------
(* The endpoints of the child.                                             *)

\* A vector that has grown.
LEMMA GrownFacts ==
    ASSUME NEW seq \in Seq(Slot), NEW n \in Nat, n >= Len(seq)
    PROVE  /\ Grown(seq, n) \in Seq(Slot) /\ Len(Grown(seq, n)) = n
           /\ DOMAIN Grown(seq, n) = 1 .. n
           /\ \A i \in 1 .. n : Grown(seq, n)[i] = IF i <= Len(seq) THEN seq[i] ELSE NoHandle
<1>1. Len(seq) \in Nat /\ \A i \in 1 .. Len(seq) : seq[i] \in Slot
  BY LenProperties, ElementOfSeq
<1>2. \A i \in 1 .. n : (IF i <= Len(seq) THEN seq[i] ELSE NoHandle) \in Slot
  BY <1>1 DEF Slot
<1>3. Grown(seq, n) \in [1 .. n -> Slot]
  BY <1>2 DEF Grown
<1>4. Grown(seq, n) \in Seq(Slot)
  BY <1>3, SeqDef
<1>5. DOMAIN Grown(seq, n) = 1 .. n
  BY DEF Grown
<1>6. Len(Grown(seq, n)) = n
  BY <1>4, <1>5, LenProperties
<1> QED
  BY <1>4, <1>5, <1>6 DEF Grown

\* The number of descriptors after ensure_stdio_number().
LEMMA EnsuredFacts ==
    ASSUME Inv, NEW fd \in 1 .. MaxFd
    PROVE  /\ Ensured(fd).size \in Nat
           /\ Ensured(fd).size >= Len(endpoints) /\ Ensured(fd).size >= Len(containers)
           /\ fd \in 1 .. Ensured(fd).size
           /\ Ensured(fd).options.count = Ensured(fd).size
           /\ Ensured(fd).options.current
<1>1. /\ Len(containers) \in Nat /\ Len(endpoints) = Len(containers)
      /\ options.count = Len(containers) /\ options.current /\ fd \in Nat
  BY LenProperties, ProcessAssumption DEF Inv, TypeOK, StdioInv
<1>2. CASE fd > Len(containers)
  BY <1>1, <1>2 DEF Ensured
<1>3. CASE ~(fd > Len(containers))
  BY <1>1, <1>3 DEF Ensured
<1> QED
  BY <1>2, <1>3

\* inherit_stdio() and create_stdio_pipe() replace one endpoint.
LEMMA StoreFacts ==
    ASSUME Inv, NEW fd \in 1 .. MaxFd, NEW h \in Slot, NEW stream \in {NoHandle, h},
           Store(fd, stream, h)
    PROVE  /\ containers' \in Seq(Slot) /\ endpoints' \in Seq(Slot)
           /\ StdioInv'
           /\ Former(fd) \in Slot
           /\ Former(fd) \in Handles => EndpointRefs(Former(fd)) > 0
           /\ \A g \in Handles :
                 EndpointRefs(g)' = EndpointRefs(g) + (IF h = g THEN 1 ELSE 0)
                                                    - (IF Former(fd) = g THEN 1 ELSE 0)
<1> DEFINE n == Ensured(fd).size
           C == Grown(containers, n)
           E == Grown(endpoints, n)
<1>1. /\ TypeOK /\ StdioInv
      /\ containers \in Seq(Slot) /\ endpoints \in Seq(Slot)
      /\ Len(containers) \in Nat /\ Len(endpoints) = Len(containers)
      /\ DOMAIN endpoints = 1 .. Len(endpoints)
  BY LenProperties DEF Inv, TypeOK, StdioInv
<1>2. n \in Nat /\ n >= Len(endpoints) /\ n >= Len(containers) /\ fd \in 1 .. n
  BY EnsuredFacts
<1>3. containers' = [C EXCEPT ![fd] = stream] /\ endpoints' = [E EXCEPT ![fd] = h]
         /\ options' = Ensured(fd).options
  BY DEF Store
<1> HIDE DEF n
<1>4. /\ C \in Seq(Slot) /\ Len(C) = n /\ DOMAIN C = 1 .. n
      /\ \A i \in 1 .. n : C[i] = IF i <= Len(containers) THEN containers[i] ELSE NoHandle
  BY <1>1, <1>2, GrownFacts
<1>5. /\ E \in Seq(Slot) /\ Len(E) = n /\ DOMAIN E = 1 .. n
      /\ \A i \in 1 .. n : E[i] = IF i <= Len(endpoints) THEN endpoints[i] ELSE NoHandle
  BY <1>1, <1>2, GrownFacts
<1> HIDE DEF C, E
<1>6. stream \in Slot
  BY DEF Slot
<1>7. /\ containers' \in Seq(Slot) /\ Len(containers') = n
      /\ \A i \in 1 .. n : containers'[i] = IF i = fd THEN stream ELSE C[i]
  BY <1>2, <1>3, <1>4, <1>6, ExceptSeq
<1>8. /\ endpoints' \in Seq(Slot) /\ Len(endpoints') = n
      /\ \A i \in 1 .. n : endpoints'[i] = IF i = fd THEN h ELSE E[i]
  BY <1>2, <1>3, <1>5, ExceptSeq
<1>9. \A i \in 1 .. n : containers'[i] \in {NoHandle, endpoints'[i]}
  <2> TAKE i \in 1 .. n
  <2>1. CASE i = fd
    BY <1>7, <1>8, <2>1
  <2>2. CASE i # fd /\ i <= Len(containers)
    BY <1>1, <1>4, <1>5, <1>7, <1>8, <2>2 DEF StdioInv
  <2>3. CASE i # fd /\ ~(i <= Len(containers))
    BY <1>4, <1>7, <2>3
  <2> QED
    BY <2>1, <2>2, <2>3
<1>10. StdioInv'
  <2>1. options'.count = n /\ options'.current
    BY <1>3, EnsuredFacts DEF n
  <2> QED
    BY <1>7, <1>8, <1>9, <2>1 DEF StdioInv
<1>11. Former(fd) \in Slot /\ (Former(fd) \in Handles => fd \in 1 .. Len(endpoints) /\ Former(fd) = endpoints[fd])
  BY <1>1, <1>2, ElementOfSeq, StreamsAssumption DEF Former, Slot
<1>12. Former(fd) \in Handles => EndpointRefs(Former(fd)) > 0
  BY <1>11, ReferredTo
<1>13. ASSUME NEW g \in Handles
       PROVE  EndpointRefs(g)' = EndpointRefs(g) + (IF h = g THEN 1 ELSE 0)
                                                 - (IF Former(fd) = g THEN 1 ELSE 0)
  <2>1. DOMAIN endpoints' = 1 .. n
    BY <1>8, LenProperties
  <2>2. g # NoHandle
    BY StreamsAssumption
  <2>3. Keeping(g)' \ {fd} = Keeping(g) \ {fd}
    BY <1>1, <1>2, <1>5, <1>8, <2>1, <2>2 DEF Keeping
  <2>4. fd \in Keeping(g)' <=> h = g
    BY <1>2, <1>8, <2>1 DEF Keeping
  <2>5. fd \in Keeping(g) <=> Former(fd) = g
    BY <1>1, <1>2, <2>2 DEF Keeping, Former
  <2>6. Cardinality(Keeping(g)') = Cardinality(Keeping(g))
            + (IF fd \in Keeping(g)' THEN 1 ELSE 0) - (IF fd \in Keeping(g) THEN 1 ELSE 0)
    BY <1>1, <2>3, CountTypes, DifferInOne
  <2>7. EndpointRefs(g)' = Cardinality(Keeping(g)') /\ EndpointRefs(g) = Cardinality(Keeping(g))
    BY DEF EndpointRefs, Keeping
  <2> QED
    BY <2>4, <2>5, <2>6, <2>7
<1> QED
  BY <1>7, <1>8, <1>10, <1>11, <1>12, <1>13

-----------------------------------------------------------------------------
(* Streams.                                                                *)

\* What is known of every instance before a step.
LEMMA Known ==
    ASSUME Inv, NEW h \in Handles
    PROVE  /\ inst[h] \in Instance /\ inst[h].refs \in Nat
           /\ Consistent(inst[h])
           /\ inst[h].life = "alive" <=> inst[h].refs > 0
           /\ inst[h].refs = UserRefs(h) + EndpointRefs(h)
           /\ UserRefs(h) \in Nat /\ EndpointRefs(h) \in Nat
           /\ h # NoHandle
<1>1. inst[h] \in Instance /\ Consistent(inst[h]) /\ Counted(h)
  BY DEF Inv, TypeOK
<1>2. UserRefs(h) \in Nat /\ EndpointRefs(h) \in Nat
  BY CountTypes DEF Inv
<1>3. inst[h].refs \in Nat
  BY <1>1 DEF Instance
<1> QED
  BY <1>1, <1>2, <1>3, StreamsAssumption DEF Counted

\* A new instance.
LEMMA BornType ==
    ASSUME NEW k \in Kinds, NEW ok \in BOOLEAN
    PROVE  /\ Born(k, ok) \in Instance
           /\ Born(k, ok).life = "alive" /\ Born(k, ok).refs = 0
           /\ Born(k, ok).booked = ok /\ Born(k, ok).failed = ~ok
           /\ Born(k, ok).listening = FALSE
BY UnbornType DEF Born, Instance

\* Only the status of an instance changes.
LEMMA FailedType ==
    ASSUME NEW i \in Instance, NEW b \in BOOLEAN
    PROVE  /\ [i EXCEPT !.failed = b] \in Instance
           /\ [i EXCEPT !.failed = b].life = i.life /\ [i EXCEPT !.failed = b].refs = i.refs
           /\ [i EXCEPT !.failed = b].booked = i.booked
           /\ [i EXCEPT !.failed = b].listening = i.listening
           /\ [i EXCEPT !.failed = b].failed = b
BY DEF Instance

\* The invariant after a step of the streams alone.
LEMMA StreamInv ==
    ASSUME Inv, UNCHANGED processVars,
           inst' \in [Handles -> Instance],
           \A h \in Handles : Consistent(inst'[h]) /\ Counted(h)',
           var' \in [Vars -> Slot], server' \in Slot
    PROVE  Inv'
BY FrameProcess DEF Inv, TypeOK

\* The constructors.
LEMMA OpenInv ==
    ASSUME Inv, UNCHANGED processVars, NEW v \in Vars, NEW h \in Handles, NEW k \in Opened,
           NEW ok \in BOOLEAN, NEW rest \in BOOLEAN, Open(v, h, k, ok, rest)
    PROVE  Inv'
<1> DEFINE B == [Born(k, ok) EXCEPT !.failed = ~(ok /\ rest)]
           is == [inst EXCEPT ![h] = B]
<1>1. /\ var[v] = NoHandle /\ inst[h].life = "none" /\ server' = server
      /\ inst' = Recount(is, Only(h), Nothing) /\ var' = [var EXCEPT ![v] = h]
  BY DEF Open
<1>2. /\ B \in Instance /\ B.life = "alive" /\ B.refs = 0 /\ Consistent(B)
  <2>1. k \in Kinds
    BY StreamsAssumption
  <2>2. (~(ok /\ rest)) \in BOOLEAN
    OBVIOUS
  <2>3. B \in Instance /\ B.life = "alive" /\ B.refs = 0 /\ B.booked = ok
           /\ B.listening = FALSE /\ (ok \/ B.failed)
    <3> DEFINE N == Born(k, ok)
               b == ~(ok /\ rest)
    <3>1. /\ N \in Instance /\ N.life = "alive" /\ N.refs = 0 /\ N.booked = ok
          /\ N.listening = FALSE
      BY <2>1, BornType
    <3>2. B = [N EXCEPT !.failed = b] /\ b \in BOOLEAN /\ (ok \/ b)
      BY <2>2
    <3> HIDE DEF N, b, B
    <3> QED
      BY <3>1, <3>2, FailedType
  <2> HIDE DEF B
  <2> QED
    BY <2>3 DEF Consistent
<1> HIDE DEF B
<1>3. is \in [Handles -> Instance] /\ \A g \in Handles : is[g] = IF g = h THEN B ELSE inst[g]
  BY <1>2 DEF Inv, TypeOK
<1> HIDE DEF is
<1>4. var' \in [Vars -> Slot] /\ server' \in Slot
  BY <1>1 DEF Inv, TypeOK, Slot
<1>5. \A g \in Handles :
         UserRefs(g)' = UserRefs(g) + (IF h = g THEN 1 ELSE 0) /\ EndpointRefs(g)' = EndpointRefs(g)
  <2> TAKE g \in Handles
  <2>1. UserRefs(g)' = UserRefs(g) + (IF var'[v] = g THEN 1 ELSE 0) - (IF var[v] = g THEN 1 ELSE 0)
    <3>1. \A w \in Vars \ {v} : var'[w] = var[w]
      BY <1>1 DEF Inv, TypeOK
    <3> QED
      BY <1>1, <3>1, VarsUpdate DEF Inv
  <2>2. var'[v] = h /\ var[v] # g
    BY <1>1, StreamsAssumption DEF Inv, TypeOK
  <2> QED
    BY <2>1, <2>2, Known, FrameProcess
<1>6. \A g \in Handles :
         /\ Consistent(is[g])
         /\ is[g].refs = inst[g].refs
         /\ is[g].life = "alive" <=> is[g].refs + Only(h)[g] > 0
         /\ Nothing[g] <= is[g].refs + Only(h)[g]
         /\ UserRefs(g)' + EndpointRefs(g)' = inst[g].refs + Only(h)[g] - Nothing[g]
  <2> TAKE g \in Handles
  <2>1. Nothing[g] = 0 /\ Only(h)[g] = IF g = h THEN 1 ELSE 0
    BY OnlyType
  <2>2. g = h => inst[g].refs = 0
    BY <1>1, Known
  <2>3. CASE g = h
    BY <1>2, <1>3, <1>5, <2>1, <2>2, <2>3, Known
  <2>4. CASE g # h
    BY <1>3, <1>5, <2>1, <2>4, Known
  <2> QED
    BY <2>3, <2>4
<1>7. inst' \in [Handles -> Instance] /\ \A g \in Handles : Consistent(inst'[g]) /\ Counted(g)'
  BY <1>1, <1>3, <1>6, OnlyType, StepSound
<1> QED
  BY <1>4, <1>7, StreamInv

\* Copies of variables.
LEMMA CopyInv ==
    ASSUME Inv, UNCHANGED processVars, NEW v \in Vars, NEW u \in Vars, Copy(v, u)
    PROVE  Inv'
<1> DEFINE h == var[u]
<1>1. /\ var[v] = NoHandle /\ h \in Handles /\ server' = server
      /\ inst' = Recount(inst, Only(h), Nothing) /\ var' = [var EXCEPT ![v] = h]
  BY DEF Copy, Inv, TypeOK, Slot
<1>2. inst[h].life = "alive"
  BY <1>1, ReferredTo
<1> HIDE DEF h
<1>3. var' \in [Vars -> Slot] /\ server' \in Slot
  BY <1>1 DEF Inv, TypeOK, Slot
<1>4. \A g \in Handles :
         UserRefs(g)' = UserRefs(g) + (IF h = g THEN 1 ELSE 0) /\ EndpointRefs(g)' = EndpointRefs(g)
  <2> TAKE g \in Handles
  <2>1. UserRefs(g)' = UserRefs(g) + (IF var'[v] = g THEN 1 ELSE 0) - (IF var[v] = g THEN 1 ELSE 0)
    <3>1. \A w \in Vars \ {v} : var'[w] = var[w]
      BY <1>1 DEF Inv, TypeOK
    <3> QED
      BY <1>1, <3>1, VarsUpdate DEF Inv
  <2>2. var'[v] = h /\ var[v] # g
    BY <1>1, StreamsAssumption DEF Inv, TypeOK
  <2> QED
    BY <2>1, <2>2, Known, FrameProcess
<1>5. \A g \in Handles :
         /\ Consistent(inst[g])
         /\ inst[g].refs = inst[g].refs
         /\ inst[g].life = "alive" <=> inst[g].refs + Only(h)[g] > 0
         /\ Nothing[g] <= inst[g].refs + Only(h)[g]
         /\ UserRefs(g)' + EndpointRefs(g)' = inst[g].refs + Only(h)[g] - Nothing[g]
  BY <1>2, <1>4, OnlyType, Known
<1>6. inst' \in [Handles -> Instance] /\ \A g \in Handles : Consistent(inst'[g]) /\ Counted(g)'
  <2>1. inst \in [Handles -> Instance]
    BY DEF Inv, TypeOK
  <2> QED
    BY <1>1, <1>5, <2>1, OnlyType, StepSound
<1> QED
  BY <1>3, <1>6, StreamInv

\* Drops of variables.
LEMMA DropInv ==
    ASSUME Inv, UNCHANGED processVars, NEW v \in Vars, Drop(v)
    PROVE  Inv'
<1> DEFINE h == var[v]
<1>1. /\ h \in Handles /\ server' = server
      /\ inst' = Recount(inst, Nothing, Only(h)) /\ var' = [var EXCEPT ![v] = NoHandle]
  BY DEF Drop, Inv, TypeOK, Slot
<1>2. UserRefs(h) > 0
  BY <1>1, ReferredTo
<1>3. var' \in [Vars -> Slot] /\ server' \in Slot
  BY <1>1 DEF Inv, TypeOK, Slot
<1>4. \A g \in Handles :
         UserRefs(g)' = UserRefs(g) - (IF h = g THEN 1 ELSE 0) /\ EndpointRefs(g)' = EndpointRefs(g)
  <2> TAKE g \in Handles
  <2>1. UserRefs(g)' = UserRefs(g) + (IF var'[v] = g THEN 1 ELSE 0) - (IF var[v] = g THEN 1 ELSE 0)
    <3>1. \A w \in Vars \ {v} : var'[w] = var[w]
      BY <1>1 DEF Inv, TypeOK
    <3> QED
      BY <1>1, <3>1, VarsUpdate DEF Inv
  <2>2. var'[v] # g
    BY <1>1, StreamsAssumption DEF Inv, TypeOK
  <2> QED
    BY <2>1, <2>2, Known, FrameProcess
<1> HIDE DEF h
<1>5. \A g \in Handles :
         /\ Consistent(inst[g])
         /\ inst[g].refs = inst[g].refs
         /\ inst[g].life = "alive" <=> inst[g].refs + Nothing[g] > 0
         /\ Only(h)[g] <= inst[g].refs + Nothing[g]
         /\ UserRefs(g)' + EndpointRefs(g)' = inst[g].refs + Nothing[g] - Only(h)[g]
  BY <1>2, <1>4, OnlyType, Known
<1>6. inst' \in [Handles -> Instance] /\ \A g \in Handles : Consistent(inst'[g]) /\ Counted(g)'
  <2>1. inst \in [Handles -> Instance]
    BY DEF Inv, TypeOK
  <2> QED
    BY <1>1, <1>5, <2>1, OnlyType, StepSound
<1> QED
  BY <1>3, <1>6, StreamInv

\* One instance changes, but not its references.
LEMMA UpdateInv ==
    ASSUME Inv, UNCHANGED processVars, UNCHANGED <<var, server>>, NEW h \in Handles,
           NEW i \in Instance, inst' = [inst EXCEPT ![h] = i],
           i.refs = inst[h].refs, i.life = inst[h].life, Consistent(i)
    PROVE  Inv'
<1>1. \A g \in Handles : inst'[g] = IF g = h THEN i ELSE inst[g]
  BY DEF Inv, TypeOK
<1>2. inst' \in [Handles -> Instance]
  BY DEF Inv, TypeOK
<1>3. \A g \in Handles : UserRefs(g)' = UserRefs(g) /\ EndpointRefs(g)' = EndpointRefs(g)
  BY FrameProcess DEF UserRefs
<1>4. \A g \in Handles : Consistent(inst'[g]) /\ Counted(g)'
  <2> TAKE g \in Handles
  <2>1. CASE g = h
    BY <1>1, <1>3, <2>1, Known DEF Counted
  <2>2. CASE g # h
    BY <1>1, <1>3, <2>2, Known DEF Counted
  <2> QED
    BY <2>1, <2>2
<1> QED
  BY <1>2, <1>4, StreamInv DEF Inv, TypeOK

\* Options, listen() and handles that come over a pipe.
LEMMA OptionInv ==
    ASSUME Inv, UNCHANGED processVars, NEW h \in Handles, NEW ok \in BOOLEAN, Records(h, ok)
    PROVE  Inv'
<1> DEFINE i == [inst[h] EXCEPT !.failed = ~ok]
<1>1. inst' = [inst EXCEPT ![h] = i] /\ UNCHANGED <<var, server>> /\ inst[h].booked
  BY Known DEF Records, Usable, Inv, TypeOK, Instance
<1>2. /\ i \in Instance /\ i.refs = inst[h].refs /\ i.life = inst[h].life
      /\ i.booked = inst[h].booked /\ i.listening = inst[h].listening
  BY Known DEF Instance
<1>3. Consistent(i)
  BY <1>1, <1>2, Known DEF Consistent
<1> HIDE DEF i
<1> QED
  BY <1>1, <1>2, <1>3, UpdateInv

\* A handle that listens exists.
LEMMA ListenInv ==
    ASSUME Inv, UNCHANGED processVars, NEW h \in Handles, NEW ok \in BOOLEAN, Listen(h, ok)
    PROVE  Inv'
<1> DEFINE l == inst[h].listening \/ ok
           i == [inst[h] EXCEPT !.failed = ~ok, !.listening = l]
<1>1. inst' = [inst EXCEPT ![h] = i] /\ UNCHANGED <<var, server>> /\ inst[h].booked
  BY Known DEF Listen, Usable, Inv, TypeOK, Instance
<1>0. l \in BOOLEAN
  OBVIOUS
<1> HIDE DEF l
<1>2. /\ i \in Instance /\ i.refs = inst[h].refs /\ i.life = inst[h].life
      /\ i.booked = inst[h].booked
  BY <1>0, Known DEF Instance
<1>3. inst[h].life = "alive"
  BY <1>1, Known DEF Consistent
<1>4. Consistent(i)
  BY <1>1, <1>2, <1>3 DEF Consistent
<1> HIDE DEF i
<1> QED
  BY <1>1, <1>2, <1>4, UpdateInv

\* A handle arrives over a pipe.
LEMMA HandlePassedInv ==
    ASSUME Inv, UNCHANGED processVars, NEW h \in Handles, NEW k \in Passed, HandlePassed(h, k)
    PROVE  Inv'
<1> DEFINE i == [inst[h] EXCEPT !.passed = k]
<1>1. inst' = [inst EXCEPT ![h] = i] /\ UNCHANGED <<var, server>>
  BY Known DEF HandlePassed, Inv, TypeOK, Instance
<1>2. k \in {"none", "tcp", "pipe"}
  BY StreamsAssumption
<1>3. /\ i \in Instance /\ i.refs = inst[h].refs /\ i.life = inst[h].life
      /\ i.booked = inst[h].booked /\ i.listening = inst[h].listening
      /\ i.failed = inst[h].failed
  BY <1>2, Known DEF Instance
<1> HIDE DEF i
<1>4. Consistent(i)
  BY <1>3, Known DEF Consistent
<1> QED
  BY <1>1, <1>3, <1>4, UpdateInv

\* The parameter of the connection callback is a reference to the server.
LEMMA ConnectionCbInv ==
    ASSUME Inv, UNCHANGED processVars, NEW h \in Handles, NEW ok \in BOOLEAN, ConnectionCb(h, ok)
    PROVE  Inv'
<1> DEFINE i == [inst[h] EXCEPT !.failed = ~ok, !.waiting = ok]
           is == [inst EXCEPT ![h] = i]
<1>1. /\ server = NoHandle /\ inst[h].listening /\ server' = h /\ var' = var
      /\ inst' = Recount(is, Only(h), Nothing)
  <2>1. is = [inst EXCEPT ![h].failed = ~ok, ![h].waiting = ok]
    BY Known DEF Inv, TypeOK, Instance
  <2> QED
    BY <2>1 DEF ConnectionCb
<1>2. /\ i \in Instance /\ i.refs = inst[h].refs /\ i.life = inst[h].life
      /\ i.booked = inst[h].booked /\ i.listening = inst[h].listening
  BY Known DEF Instance
<1> HIDE DEF i
<1>3. Consistent(i) /\ inst[h].life = "alive"
  BY <1>1, <1>2, Known DEF Consistent
<1>4. is \in [Handles -> Instance] /\ \A g \in Handles : is[g] = IF g = h THEN i ELSE inst[g]
  BY <1>2 DEF Inv, TypeOK
<1> HIDE DEF is
<1>5. var' \in [Vars -> Slot] /\ server' \in Slot
  BY <1>1 DEF Inv, TypeOK, Slot
<1>6. \A g \in Handles :
         UserRefs(g)' = UserRefs(g) + (IF h = g THEN 1 ELSE 0) /\ EndpointRefs(g)' = EndpointRefs(g)
  <2> TAKE g \in Handles
  <2>1. UserRefs(g)' = UserRefs(g) + (IF server' = g THEN 1 ELSE 0) - (IF server = g THEN 1 ELSE 0)
    BY <1>1, ServerUpdate DEF Inv
  <2> QED
    BY <1>1, <2>1, Known, FrameProcess
<1>7. \A g \in Handles :
         /\ Consistent(is[g])
         /\ is[g].refs = inst[g].refs
         /\ is[g].life = "alive" <=> is[g].refs + Only(h)[g] > 0
         /\ Nothing[g] <= is[g].refs + Only(h)[g]
         /\ UserRefs(g)' + EndpointRefs(g)' = inst[g].refs + Only(h)[g] - Nothing[g]
  <2> TAKE g \in Handles
  <2>1. Nothing[g] = 0 /\ Only(h)[g] = IF g = h THEN 1 ELSE 0
    BY OnlyType
  <2>2. CASE g = h
    BY <1>2, <1>3, <1>4, <1>6, <2>1, <2>2, Known
  <2>3. CASE g # h
    BY <1>4, <1>6, <2>1, <2>3, Known
  <2> QED
    BY <2>2, <2>3
<1>8. inst' \in [Handles -> Instance] /\ \A g \in Handles : Consistent(inst'[g]) /\ Counted(g)'
  BY <1>1, <1>4, <1>7, OnlyType, StepSound
<1> QED
  BY <1>5, <1>8, StreamInv

\* It goes when the callback returns, and may have been the last one.
LEMMA ConnectionReturnsInv ==
    ASSUME Inv, UNCHANGED processVars, ConnectionReturns
    PROVE  Inv'
<1> DEFINE h == server
<1>1. /\ h \in Handles /\ server' = NoHandle /\ var' = var
      /\ inst' = Recount(inst, Nothing, Only(h))
  BY DEF ConnectionReturns, Inv, TypeOK, Slot
<1>2. UserRefs(h) > 0
  BY <1>1, ReferredTo
<1>3. var' \in [Vars -> Slot] /\ server' \in Slot
  BY <1>1 DEF Inv, TypeOK, Slot
<1>4. \A g \in Handles :
         UserRefs(g)' = UserRefs(g) - (IF h = g THEN 1 ELSE 0) /\ EndpointRefs(g)' = EndpointRefs(g)
  <2> TAKE g \in Handles
  <2>1. UserRefs(g)' = UserRefs(g) + (IF server' = g THEN 1 ELSE 0) - (IF server = g THEN 1 ELSE 0)
    BY <1>1, ServerUpdate DEF Inv
  <2> QED
    BY <1>1, <2>1, Known, FrameProcess
<1> HIDE DEF h
<1>5. \A g \in Handles :
         /\ Consistent(inst[g])
         /\ inst[g].refs = inst[g].refs
         /\ inst[g].life = "alive" <=> inst[g].refs + Nothing[g] > 0
         /\ Only(h)[g] <= inst[g].refs + Nothing[g]
         /\ UserRefs(g)' + EndpointRefs(g)' = inst[g].refs + Nothing[g] - Only(h)[g]
  BY <1>2, <1>4, OnlyType, Known
<1>6. inst' \in [Handles -> Instance] /\ \A g \in Handles : Consistent(inst'[g]) /\ Counted(g)'
  <2>1. inst \in [Handles -> Instance]
    BY DEF Inv, TypeOK
  <2> QED
    BY <1>1, <1>5, <2>1, OnlyType, StepSound
<1> QED
  BY <1>3, <1>6, StreamInv

\* accept() and accept_pending_handle(): client and server get the status.
LEMMA AcceptsInv ==
    ASSUME Inv, UNCHANGED processVars, NEW v \in Vars, NEW h \in Handles, NEW c \in Handles,
           NEW k \in Kinds, NEW ok \in BOOLEAN, NEW given \in BOOLEAN,
           Accepts(v, h, c, k, ok, given)
    PROVE  Inv'
<1> DEFINE N == Born(k, ok)
           bad == ~(ok /\ given)
           C == [N EXCEPT !.failed = bad]
           waits == inst[h].waiting /\ ~ok
           pass == IF ok THEN "none" ELSE inst[h].passed
           S == [inst[h] EXCEPT !.failed = bad, !.waiting = waits, !.passed = pass]
           is == [inst EXCEPT ![c] = C, ![h] = S]
<1>1. /\ inst[h].booked /\ var[v] = NoHandle /\ inst[c].life = "none"
      /\ var' = [var EXCEPT ![v] = c] /\ server' = server
  BY DEF Accepts, Usable
<1>2. inst[h].life = "alive" /\ c # h
  BY <1>1, Known DEF Consistent
<1>3. inst' = Recount(is, Only(c), Nothing)
  <2>1. is = [inst EXCEPT ![c] = C, ![h].failed = bad,
                          ![h].waiting = @ /\ ~ok, ![h].passed = IF ok THEN "none" ELSE @]
    BY <1>2, Known DEF Inv, TypeOK, Instance
  <2> QED
    BY <2>1 DEF Accepts
<1>4. /\ bad \in BOOLEAN /\ (ok \/ bad) /\ waits \in BOOLEAN
      /\ pass \in {"none", "tcp", "pipe"}
  BY Known DEF Instance
<1>5. N \in Instance /\ N.life = "alive" /\ N.refs = 0 /\ N.listening = FALSE
      /\ N.booked = ok
  BY BornType
<1> HIDE DEF N, bad, waits, pass
<1>6. /\ C \in Instance /\ C.life = "alive" /\ C.refs = 0 /\ C.listening = FALSE
      /\ C.booked = ok /\ C.failed = bad
  BY <1>4, <1>5 DEF Instance
<1>7. /\ S \in Instance /\ S.life = inst[h].life /\ S.refs = inst[h].refs
      /\ S.booked = inst[h].booked
  BY <1>4, Known, ZenonT(30) DEF Instance
<1> HIDE DEF C, S
<1>8. Consistent(C) /\ Consistent(S)
  BY <1>1, <1>2, <1>4, <1>6, <1>7 DEF Consistent
<1>9. /\ is \in [Handles -> Instance]
      /\ \A g \in Handles : is[g] = IF g = h THEN S ELSE IF g = c THEN C ELSE inst[g]
  BY <1>2, <1>6, <1>7 DEF Inv, TypeOK
<1> HIDE DEF is
<1>10. var' \in [Vars -> Slot] /\ server' \in Slot
  BY <1>1 DEF Inv, TypeOK, Slot
<1>11. \A g \in Handles :
         UserRefs(g)' = UserRefs(g) + (IF c = g THEN 1 ELSE 0) /\ EndpointRefs(g)' = EndpointRefs(g)
  <2> TAKE g \in Handles
  <2>1. UserRefs(g)' = UserRefs(g) + (IF var'[v] = g THEN 1 ELSE 0) - (IF var[v] = g THEN 1 ELSE 0)
    <3>1. \A w \in Vars \ {v} : var'[w] = var[w]
      BY <1>1 DEF Inv, TypeOK
    <3> QED
      BY <1>1, <3>1, VarsUpdate DEF Inv
  <2>2. var'[v] = c /\ var[v] # g
    BY <1>1, StreamsAssumption DEF Inv, TypeOK
  <2> QED
    BY <2>1, <2>2, Known, FrameProcess
<1>12. \A g \in Handles :
         /\ Consistent(is[g])
         /\ is[g].refs = inst[g].refs
         /\ is[g].life = "alive" <=> is[g].refs + Only(c)[g] > 0
         /\ Nothing[g] <= is[g].refs + Only(c)[g]
         /\ UserRefs(g)' + EndpointRefs(g)' = inst[g].refs + Only(c)[g] - Nothing[g]
  <2> TAKE g \in Handles
  <2>1. Nothing[g] = 0 /\ Only(c)[g] = IF g = c THEN 1 ELSE 0
    BY OnlyType
  <2>2. g = c => inst[g].refs = 0
    BY <1>1, Known
  <2>3. CASE g = c
    BY <1>2, <1>6, <1>8, <1>9, <1>11, <2>1, <2>2, <2>3, Known
  <2>4. CASE g = h
    <3>1. is[g] = S /\ g # c /\ Only(c)[g] = 0
      BY <1>2, <1>9, <2>1, <2>4
    <3>2. UserRefs(g)' + EndpointRefs(g)' = inst[g].refs
      BY <1>11, <3>1, Known
    <3> QED
      BY <1>7, <1>8, <2>1, <2>4, <3>1, <3>2, Known
  <2>5. CASE g # c /\ g # h
    BY <1>9, <1>11, <2>1, <2>5, Known
  <2> QED
    BY <2>3, <2>4, <2>5
<1>13. inst' \in [Handles -> Instance] /\ \A g \in Handles : Consistent(inst'[g]) /\ Counted(g)'
  BY <1>3, <1>9, <1>12, OnlyType, StepSound, SMTT(30)
<1> QED
  BY <1>10, <1>13, StreamInv

\* Every operation on streams.
LEMMA StreamNextInv ==
    ASSUME Inv, StreamNext, UNCHANGED processVars
    PROVE  Inv'
<1>1. CASE \E v \in Vars, h \in Handles, k \in Opened, ok, rest \in BOOLEAN : Open(v, h, k, ok, rest)
  BY <1>1, OpenInv
<1>2. CASE \E v \in Vars : Drop(v) \/ \E w \in Vars : Copy(v, w)
  BY <1>2, DropInv, CopyInv
<1>3. CASE \E v \in Vars : \E h, c \in Handles, ok, given \in BOOLEAN :
              Accept(v, h, c, ok, given) \/ AcceptPendingHandle(v, h, c, ok, given)
  <2>1. PICK v \in Vars, h \in Handles, c \in Handles, ok \in BOOLEAN, given \in BOOLEAN :
              Accept(v, h, c, ok, given) \/ AcceptPendingHandle(v, h, c, ok, given)
    BY <1>3
  <2>2. /\ inst[h].kind \in Kinds
        /\ inst[h].passed # "none" => inst[h].passed \in Kinds
    BY Known DEF Instance, Kinds, Streaming
  <2>3. CASE Accept(v, h, c, ok, given)
    BY <2>2, <2>3, AcceptsInv DEF Accept
  <2>4. CASE AcceptPendingHandle(v, h, c, ok, given)
    BY <2>2, <2>4, AcceptsInv DEF AcceptPendingHandle
  <2> QED
    BY <2>1, <2>3, <2>4
<1>4. CASE \E h \in Handles, ok \in BOOLEAN :
              \/ StreamOption(h, ok) \/ TcpOption(h, ok) \/ PipeOption(h, ok)
              \/ TtyOption(h, ok) \/ UdpOption(h, ok)
  BY <1>4, OptionInv DEF StreamOption, TcpOption, PipeOption, TtyOption, UdpOption
<1>5. CASE \E h \in Handles, ok \in BOOLEAN : Listen(h, ok) \/ ConnectionCb(h, ok)
  BY <1>5, ListenInv, ConnectionCbInv
<1>6. CASE ConnectionReturns \/ \E h \in Handles, k \in Passed : HandlePassed(h, k)
  BY <1>6, ConnectionReturnsInv, HandlePassedInv
<1> QED
  BY <1>1, <1>2, <1>3, <1>4, <1>5, <1>6 DEF StreamNext

-----------------------------------------------------------------------------
(* The process.                                                            *)

\* The process handle is created, spawned and called back.
LEMMA LifeInv ==
    ASSUME Inv, CreateProcess \/ Spawn \/ \E called \in BOOLEAN : ExitCb(called)
    PROVE  Inv'
<1>1. UNCHANGED <<inst, var, server, containers, endpoints, options>>
  BY DEF CreateProcess, Spawn, ExitCb, streamVars
<1>2. \A h \in Handles : Consistent(inst'[h]) /\ Counted(h)'
  BY <1>1 DEF Inv, Counted, UserRefs, EndpointRefs
<1>3. StdioInv'
  BY <1>1 DEF Inv, StdioInv
<1>4. /\ ProcessCounted'
      /\ plife' \in {"none", "alive", "freed"} /\ prefs' \in Nat
      /\ pheld' \in BOOLEAN /\ running' \in BOOLEAN /\ exiting' \in BOOLEAN
  <2> USE DEF Inv, TypeOK, ProcessCounted, One
  <2>1. CASE CreateProcess
    BY <2>1 DEF CreateProcess
  <2>2. CASE Spawn
    BY <2>2 DEF Spawn
  <2>3. CASE \E called \in BOOLEAN : ExitCb(called)
    <3>1. PICK called \in BOOLEAN : ExitCb(called)
      BY <2>3
    <3>2. /\ plife = "alive" /\ plife' = plife /\ pheld' = pheld /\ running' = FALSE
          /\ exiting = FALSE /\ exiting' = called /\ prefs' = prefs + One(called)
      BY <3>1 DEF ExitCb
    <3>3. One(exiting) = 0 /\ One(exiting') = One(called) /\ One(called) \in Nat
             /\ One(pheld') = One(pheld) /\ One(pheld) \in Nat
      BY <3>2
    <3>4. prefs' = One(pheld') + One(exiting') /\ prefs \in Nat /\ prefs > 0 /\ prefs' > 0
      BY <3>2, <3>3
    <3>5. ProcessCounted'
      <4>1. plife' = "alive"
        BY <3>2
      <4> HIDE DEF One
      <4> QED
        BY <3>4, <4>1
    <3>6. prefs' \in Nat
      BY <3>2, <3>3, <3>4
    <3>7. plife' \in {"none", "alive", "freed"} /\ pheld' \in BOOLEAN /\ running' \in BOOLEAN
      BY <3>2
    <3>8. exiting' \in BOOLEAN
      BY <3>2, Zenon
    <3> QED
      BY <3>5, <3>6, <3>7, <3>8
  <2> QED
    BY <2>1, <2>2, <2>3
<1> QED
  BY <1>1, <1>2, <1>3, <1>4 DEF Inv, TypeOK

\* The invariant after a step that leaves the process handle as it is.
LEMMA EndpointsInv ==
    ASSUME Inv, UNCHANGED <<server, plife, prefs, pheld, running, exiting>>,
           inst' \in [Handles -> Instance],
           \A h \in Handles : Consistent(inst'[h]) /\ Counted(h)',
           var' \in [Vars -> Slot],
           containers' \in Seq(Slot), endpoints' \in Seq(Slot), StdioInv'
    PROVE  Inv'
BY DEF Inv, TypeOK, ProcessCounted

\* inherit_stdio(fd, io): the copy of the variable is moved into the
\* endpoints.
LEMMA InheritStdioInv ==
    ASSUME Inv, NEW fd \in 1 .. MaxFd, NEW v \in Vars, InheritStdio(fd, v)
    PROVE  Inv'
<1> DEFINE h == var[v]
           stream == IF inst[h].kind \in Streaming THEN h ELSE NoHandle
           f == Former(fd)
<1>1. /\ h \in Handles /\ Store(fd, stream, h)
      /\ inst' = Recount(inst, Only(h), Only(f))
      /\ UNCHANGED <<var, server, plife, prefs, pheld, running, exiting>>
  BY DEF InheritStdio, Inv, TypeOK, Slot
<1>2. inst[h].life = "alive"
  BY <1>1, ReferredTo
<1>3. stream \in {NoHandle, h} /\ h \in Slot
  BY <1>1 DEF Slot
<1> HIDE DEF h, stream
<1>4. /\ containers' \in Seq(Slot) /\ endpoints' \in Seq(Slot) /\ StdioInv'
      /\ f \in Slot /\ (f \in Handles => EndpointRefs(f) > 0)
      /\ \A g \in Handles :
            EndpointRefs(g)' = EndpointRefs(g) + (IF h = g THEN 1 ELSE 0) - (IF f = g THEN 1 ELSE 0)
  BY <1>1, <1>3, StoreFacts
<1> HIDE DEF f
<1>5. \A g \in Handles : UserRefs(g)' = UserRefs(g)
  BY <1>1 DEF UserRefs
<1>6. \A g \in Handles :
         /\ Consistent(inst[g])
         /\ inst[g].refs = inst[g].refs
         /\ inst[g].life = "alive" <=> inst[g].refs + Only(h)[g] > 0
         /\ Only(f)[g] <= inst[g].refs + Only(h)[g]
         /\ UserRefs(g)' + EndpointRefs(g)' = inst[g].refs + Only(h)[g] - Only(f)[g]
  <2> TAKE g \in Handles
  <2>1. Only(h)[g] = (IF g = h THEN 1 ELSE 0) /\ Only(f)[g] = (IF g = f THEN 1 ELSE 0)
    BY OnlyType
  <2>2. /\ Consistent(inst[g]) /\ inst[g].refs = UserRefs(g) + EndpointRefs(g)
        /\ inst[g].life = "alive" <=> inst[g].refs > 0
        /\ UserRefs(g) \in Nat /\ EndpointRefs(g) \in Nat
    BY Known
  <2>3. /\ EndpointRefs(g)' = EndpointRefs(g) + (IF h = g THEN 1 ELSE 0) - (IF f = g THEN 1 ELSE 0)
        /\ UserRefs(g)' = UserRefs(g)
    BY <1>4, <1>5
  <2>4. (f = g => EndpointRefs(g) > 0) /\ (h = g => inst[g].life = "alive")
    BY <1>2, <1>4
  <2> QED
    BY <2>1, <2>2, <2>3, <2>4
<1>7. inst' \in [Handles -> Instance] /\ \A g \in Handles : Consistent(inst'[g]) /\ Counted(g)'
  <2>1. inst \in [Handles -> Instance]
    BY DEF Inv, TypeOK
  <2>2. Only(h) \in [Handles -> Nat] /\ Only(f) \in [Handles -> Nat]
    BY OnlyType
  <2> QED
    BY <1>1, <1>6, <2>1, <2>2, StepSound
<1> QED
  BY <1>1, <1>4, <1>7, EndpointsInv DEF Inv, TypeOK

\* create_stdio_pipe(): the new pipe takes the place of the old endpoint.
LEMMA CreateStdioPipeInv ==
    ASSUME Inv, NEW fd \in 1 .. MaxFd, NEW h \in Handles, CreateStdioPipe(fd, h)
    PROVE  Inv'
<1> DEFINE f == Former(fd)
           B == Born("pipe", TRUE)
           is == [inst EXCEPT ![h] = B]
<1>1. /\ inst[h].life = "none" /\ Store(fd, h, h)
      /\ inst' = Recount(is, Only(h), Only(f))
      /\ UNCHANGED <<var, server, plife, prefs, pheld, running, exiting>>
  BY DEF CreateStdioPipe
<1>2. B \in Instance /\ B.life = "alive" /\ B.refs = 0 /\ Consistent(B)
  <2>1. "pipe" \in Kinds /\ TRUE \in BOOLEAN
    BY DEF Kinds, Streaming
  <2>2. /\ B \in Instance /\ B.life = "alive" /\ B.refs = 0 /\ B.booked = TRUE
    BY <2>1, BornType
  <2> HIDE DEF B
  <2> QED
    BY <2>2 DEF Consistent
<1> HIDE DEF B
<1>3. is \in [Handles -> Instance] /\ \A g \in Handles : is[g] = IF g = h THEN B ELSE inst[g]
  BY <1>2 DEF Inv, TypeOK
<1> HIDE DEF is
<1>4. /\ containers' \in Seq(Slot) /\ endpoints' \in Seq(Slot) /\ StdioInv'
      /\ f \in Slot /\ (f \in Handles => EndpointRefs(f) > 0)
      /\ \A g \in Handles :
            EndpointRefs(g)' = EndpointRefs(g) + (IF h = g THEN 1 ELSE 0) - (IF f = g THEN 1 ELSE 0)
  <2>1. h \in Slot /\ h \in {NoHandle, h}
    BY DEF Slot
  <2> QED
    BY <1>1, <2>1, StoreFacts
<1> HIDE DEF f
<1>5. \A g \in Handles : UserRefs(g)' = UserRefs(g)
  BY <1>1 DEF UserRefs
<1>6. \A g \in Handles :
         /\ Consistent(is[g])
         /\ is[g].refs = inst[g].refs
         /\ is[g].life = "alive" <=> is[g].refs + Only(h)[g] > 0
         /\ Only(f)[g] <= is[g].refs + Only(h)[g]
         /\ UserRefs(g)' + EndpointRefs(g)' = inst[g].refs + Only(h)[g] - Only(f)[g]
  <2> TAKE g \in Handles
  <2>1. Only(h)[g] = (IF g = h THEN 1 ELSE 0) /\ Only(f)[g] = (IF g = f THEN 1 ELSE 0)
    BY OnlyType
  <2>2. CASE g = h
    <3>1. inst[g].refs = 0 /\ f # g
      BY <1>1, <1>4, <2>2, Known
    <3> QED
      BY <1>2, <1>3, <1>4, <1>5, <2>1, <2>2, <3>1, Known
  <2>3. CASE g # h
    <3>1. /\ Consistent(inst[g]) /\ inst[g].refs = UserRefs(g) + EndpointRefs(g)
          /\ inst[g].life = "alive" <=> inst[g].refs > 0
          /\ UserRefs(g) \in Nat /\ EndpointRefs(g) \in Nat
      BY Known
    <3>2. /\ EndpointRefs(g)' = EndpointRefs(g) - (IF f = g THEN 1 ELSE 0)
          /\ UserRefs(g)' = UserRefs(g) /\ is[g] = inst[g]
      BY <1>3, <1>4, <1>5, <2>3, <3>1
    <3>3. f = g => EndpointRefs(g) > 0
      BY <1>4
    <3> QED
      BY <2>1, <2>3, <3>1, <3>2, <3>3
  <2> QED
    BY <2>2, <2>3
<1>7. inst' \in [Handles -> Instance] /\ \A g \in Handles : Consistent(inst'[g]) /\ Counted(g)'
  <2>1. Only(h) \in [Handles -> Nat] /\ Only(f) \in [Handles -> Nat]
    BY OnlyType
  <2> QED
    BY <1>1, <1>3, <1>6, <2>1, StepSound
<1> QED
  BY <1>1, <1>4, <1>7, EndpointsInv DEF Inv, TypeOK

\* inherit_stdio(fd, file descriptor): the endpoint stays.
LEMMA InheritDescriptorInv ==
    ASSUME Inv, NEW fd \in 1 .. MaxFd, InheritDescriptor(fd)
    PROVE  Inv'
<1> DEFINE f == Former(fd)
<1>1. /\ Store(fd, NoHandle, f)
      /\ UNCHANGED <<inst, var, server, plife, prefs, pheld, running, exiting>>
  BY DEF InheritDescriptor, streamVars
<1>2. f \in Slot /\ NoHandle \in {NoHandle, f}
  BY ElementOfSeq, LenProperties, ProcessAssumption DEF Former, Slot, Inv, TypeOK
<1>3. /\ containers' \in Seq(Slot) /\ endpoints' \in Seq(Slot) /\ StdioInv'
      /\ \A g \in Handles :
            EndpointRefs(g)' = EndpointRefs(g) + (IF f = g THEN 1 ELSE 0) - (IF f = g THEN 1 ELSE 0)
  BY <1>1, <1>2, StoreFacts
<1> HIDE DEF f
<1>4. \A g \in Handles : UserRefs(g)' = UserRefs(g) /\ EndpointRefs(g)' = EndpointRefs(g)
  <2> TAKE g \in Handles
  <2>1. UserRefs(g)' = UserRefs(g)
    BY <1>1 DEF UserRefs
  <2>2. EndpointRefs(g) \in Nat
    BY Known
  <2>3. EndpointRefs(g)' = EndpointRefs(g) + (IF f = g THEN 1 ELSE 0) - (IF f = g THEN 1 ELSE 0)
    BY <1>3
  <2> QED
    BY <2>1, <2>2, <2>3
<1>5. \A g \in Handles : Consistent(inst'[g]) /\ Counted(g)'
  BY <1>1, <1>4, Known DEF Counted
<1> QED
  BY <1>1, <1>3, <1>5, EndpointsInv DEF Inv, TypeOK

\* create_stdio_pipe() fails: the vectors have grown.
LEMMA CreateStdioPipeFailsInv ==
    ASSUME Inv, NEW fd \in 1 .. MaxFd, CreateStdioPipeFails(fd)
    PROVE  Inv'
<1> DEFINE n == Ensured(fd).size
<1>1. /\ containers' = Grown(containers, n) /\ endpoints' = Grown(endpoints, n)
      /\ options' = Ensured(fd).options
      /\ UNCHANGED <<inst, var, server, plife, prefs, pheld, running, exiting>>
  BY DEF CreateStdioPipeFails, streamVars
<1>2. /\ n \in Nat /\ n >= Len(endpoints) /\ n >= Len(containers)
      /\ Ensured(fd).options.count = n /\ Ensured(fd).options.current
  BY EnsuredFacts
<1> HIDE DEF n
<1>3. /\ containers \in Seq(Slot) /\ endpoints \in Seq(Slot)
      /\ Len(containers) \in Nat /\ Len(endpoints) = Len(containers)
      /\ DOMAIN endpoints = 1 .. Len(endpoints)
      /\ \A i \in 1 .. Len(containers) : containers[i] \in {NoHandle, endpoints[i]}
  BY LenProperties DEF Inv, TypeOK, StdioInv
<1>4. /\ containers' \in Seq(Slot) /\ Len(containers') = n
      /\ \A i \in 1 .. n : containers'[i] = IF i <= Len(containers) THEN containers[i] ELSE NoHandle
  BY <1>1, <1>2, <1>3, GrownFacts
<1>5. /\ endpoints' \in Seq(Slot) /\ Len(endpoints') = n /\ DOMAIN endpoints' = 1 .. n
      /\ \A i \in 1 .. n : endpoints'[i] = IF i <= Len(endpoints) THEN endpoints[i] ELSE NoHandle
  BY <1>1, <1>2, <1>3, GrownFacts
<1>6. StdioInv'
  <2>1. \A i \in 1 .. n : containers'[i] \in {NoHandle, endpoints'[i]}
    BY <1>3, <1>4, <1>5
  <2> QED
    BY <1>1, <1>2, <1>4, <1>5, <2>1 DEF StdioInv
<1>7. \A g \in Handles : UserRefs(g)' = UserRefs(g) /\ EndpointRefs(g)' = EndpointRefs(g)
  <2> TAKE g \in Handles
  <2>1. {i \in DOMAIN endpoints' : endpoints'[i] = g} = {i \in DOMAIN endpoints : endpoints[i] = g}
    BY <1>2, <1>3, <1>5, StreamsAssumption
  <2> QED
    BY <1>1, <2>1 DEF UserRefs, EndpointRefs
<1>8. \A g \in Handles : Consistent(inst'[g]) /\ Counted(g)'
  BY <1>1, <1>7, Known DEF Counted
<1> QED
  BY <1>1, <1>4, <1>5, <1>6, <1>8, EndpointsInv DEF Inv, TypeOK

\* The user copies an element of stdio().
LEMMA TakeEndpointInv ==
    ASSUME Inv, NEW v \in Vars, NEW fd \in 1 .. MaxFd, TakeEndpoint(v, fd)
    PROVE  Inv'
<1> DEFINE f == Former(fd)
<1>1. /\ var[v] = NoHandle /\ f # NoHandle /\ var' = [var EXCEPT ![v] = f]
      /\ inst' = Recount(inst, Only(f), Nothing)
      /\ server' = server /\ UNCHANGED processVars
  BY DEF TakeEndpoint
<1>2. f \in Handles /\ EndpointRefs(f) > 0
  <2>1. fd \in 1 .. Len(endpoints) /\ f = endpoints[fd]
    BY <1>1, LenProperties, ProcessAssumption DEF Former, Inv, TypeOK
  <2>2. f \in Handles
    BY <1>1, <2>1, ElementOfSeq DEF Slot, Inv, TypeOK
  <2> QED
    BY <2>1, <2>2, ReferredTo
<1> HIDE DEF f
<1>3. inst[f].life = "alive"
  BY <1>2, ReferredTo
<1>4. var' \in [Vars -> Slot] /\ server' \in Slot
  BY <1>1, <1>2 DEF Inv, TypeOK, Slot
<1>5. \A g \in Handles :
         UserRefs(g)' = UserRefs(g) + (IF f = g THEN 1 ELSE 0) /\ EndpointRefs(g)' = EndpointRefs(g)
  <2> TAKE g \in Handles
  <2>1. UserRefs(g)' = UserRefs(g) + (IF var'[v] = g THEN 1 ELSE 0) - (IF var[v] = g THEN 1 ELSE 0)
    <3>1. \A w \in Vars \ {v} : var'[w] = var[w]
      BY <1>1 DEF Inv, TypeOK
    <3> QED
      BY <1>1, <3>1, VarsUpdate DEF Inv
  <2>2. var'[v] = f /\ var[v] # g
    BY <1>1, StreamsAssumption DEF Inv, TypeOK
  <2> QED
    BY <1>1, <2>1, <2>2, Known, FrameProcess
<1>6. \A g \in Handles :
         /\ Consistent(inst[g])
         /\ inst[g].refs = inst[g].refs
         /\ inst[g].life = "alive" <=> inst[g].refs + Only(f)[g] > 0
         /\ Nothing[g] <= inst[g].refs + Only(f)[g]
         /\ UserRefs(g)' + EndpointRefs(g)' = inst[g].refs + Only(f)[g] - Nothing[g]
  <2> TAKE g \in Handles
  <2>1. Nothing[g] = 0 /\ Only(f)[g] = IF g = f THEN 1 ELSE 0
    BY OnlyType
  <2>2. /\ Consistent(inst[g]) /\ inst[g].refs = UserRefs(g) + EndpointRefs(g)
        /\ inst[g].life = "alive" <=> inst[g].refs > 0
        /\ UserRefs(g) \in Nat /\ EndpointRefs(g) \in Nat
    BY Known
  <2>3. /\ UserRefs(g)' = UserRefs(g) + (IF f = g THEN 1 ELSE 0)
        /\ EndpointRefs(g)' = EndpointRefs(g)
    BY <1>5
  <2> QED
    BY <1>3, <2>1, <2>2, <2>3
<1>7. inst' \in [Handles -> Instance] /\ \A g \in Handles : Consistent(inst'[g]) /\ Counted(g)'
  <2>1. inst \in [Handles -> Instance]
    BY DEF Inv, TypeOK
  <2>2. Only(f) \in [Handles -> Nat] /\ Nothing \in [Handles -> Nat]
    BY OnlyType
  <2> QED
    BY <1>1, <1>6, <2>1, <2>2, StepSound
<1> QED
  BY <1>1, <1>4, <1>7, StreamInv

\* One of the two references to the process handle goes.
LEMMA ProcessReleased ==
    ASSUME Inv, DropProcess \/ ExitReturns
    PROVE  /\ UnrefProcess
           /\ prefs \in Nat /\ prefs > 0 /\ plife = "alive"
           /\ pheld' \in BOOLEAN /\ exiting' \in BOOLEAN
           /\ prefs' = One(pheld') + One(exiting')
<1>1. prefs = One(pheld) + One(exiting) /\ prefs \in Nat
  BY DEF Inv, TypeOK, ProcessCounted
<1>2. plife = "alive" <=> prefs > 0
  BY DEF Inv, ProcessCounted
<1>3. pheld \in BOOLEAN /\ exiting \in BOOLEAN
  BY DEF Inv, TypeOK
<1>4. CASE DropProcess
  <2>1. /\ pheld /\ pheld' = FALSE /\ exiting' = exiting /\ UnrefProcess
    BY <1>4 DEF DropProcess, UnrefProcess
  <2>2. One(pheld) = 1 /\ One(pheld') = 0 /\ One(exiting') = One(exiting) /\ One(exiting) \in Nat
    BY <1>3, <2>1 DEF One
  <2>3. prefs > 0 /\ prefs' = One(pheld') + One(exiting')
    <3>1. prefs' = prefs - 1
      BY <2>1 DEF UnrefProcess
    <3> QED
      BY <1>1, <2>2, <3>1
  <2>4. pheld' \in BOOLEAN /\ exiting' \in BOOLEAN
    BY <1>3, <2>1, Zenon
  <2> QED
    BY <1>1, <1>2, <2>1, <2>3, <2>4
<1>5. CASE ExitReturns
  <2>1. /\ exiting /\ exiting' = FALSE /\ pheld' = pheld /\ UnrefProcess
    BY <1>5 DEF ExitReturns, UnrefProcess
  <2>2. One(exiting) = 1 /\ One(exiting') = 0 /\ One(pheld') = One(pheld) /\ One(pheld) \in Nat
    BY <1>3, <2>1 DEF One
  <2>3. prefs > 0 /\ prefs' = One(pheld') + One(exiting')
    <3>1. prefs' = prefs - 1
      BY <2>1 DEF UnrefProcess
    <3> QED
      BY <1>1, <2>2, <3>1
  <2>4. pheld' \in BOOLEAN /\ exiting' \in BOOLEAN
    BY <1>3, <2>1, Zenon
  <2> QED
    BY <1>1, <1>2, <2>1, <2>3, <2>4
<1> QED
  BY <1>4, <1>5

\* unref() of the process handle: its last reference releases every endpoint
\* as often as the vector names it.
LEMMA UnrefProcessInv ==
    ASSUME Inv, DropProcess \/ ExitReturns
    PROVE  Inv'
<1>1. /\ UnrefProcess
      /\ prefs \in Nat /\ prefs > 0 /\ plife = "alive"
      /\ pheld' \in BOOLEAN /\ exiting' \in BOOLEAN
      /\ prefs' = One(pheld') + One(exiting')
  BY ProcessReleased
<1>2. /\ prefs' = prefs - 1 /\ var' = var /\ server' = server /\ running' = running
  BY <1>1 DEF UnrefProcess
<1>3. \A g \in Handles : UserRefs(g)' = UserRefs(g)
  BY <1>2 DEF UserRefs
<1>4. prefs' \in Nat
  BY <1>1, <1>2
<1>5. CASE prefs = 1
  <2> DEFINE lost == [h \in Handles |-> EndpointRefs(h)]
  <2>1. /\ plife' = "freed" /\ inst' = Recount(inst, Nothing, lost)
        /\ containers' = <<>> /\ endpoints' = <<>>
        /\ options' = [count |-> 0, current |-> TRUE]
    BY <1>1, <1>5 DEF UnrefProcess
  <2>2. containers' \in Seq(Slot) /\ endpoints' \in Seq(Slot) /\ StdioInv'
    BY <2>1, EmptySeq DEF StdioInv
  <2>3. \A g \in Handles : EndpointRefs(g)' = 0
    <3> TAKE g \in Handles
    <3>1. Keeping(g)' = {}
      BY <2>1 DEF Keeping
    <3>2. EndpointRefs(g)' = Cardinality(Keeping(g)')
      BY DEF EndpointRefs, Keeping
    <3> QED
      BY <3>1, <3>2, FS_EmptySet
  <2>4. \A g \in Handles : lost[g] = EndpointRefs(g) /\ lost[g] \in Nat
    BY Known
  <2>5. lost \in [Handles -> Nat]
    BY <2>4
  <2> HIDE DEF lost
  <2>6. \A g \in Handles :
           /\ Consistent(inst[g])
           /\ inst[g].refs = inst[g].refs
           /\ inst[g].life = "alive" <=> inst[g].refs + Nothing[g] > 0
           /\ lost[g] <= inst[g].refs + Nothing[g]
           /\ UserRefs(g)' + EndpointRefs(g)' = inst[g].refs + Nothing[g] - lost[g]
    <3> TAKE g \in Handles
    <3>1. Nothing[g] = 0
      BY OnlyType
    <3>2. /\ Consistent(inst[g]) /\ inst[g].refs = UserRefs(g) + EndpointRefs(g)
          /\ inst[g].life = "alive" <=> inst[g].refs > 0
          /\ UserRefs(g) \in Nat /\ EndpointRefs(g) \in Nat
      BY Known
    <3>3. UserRefs(g)' = UserRefs(g) /\ EndpointRefs(g)' = 0 /\ lost[g] = EndpointRefs(g)
      BY <1>3, <2>3, <2>4
    <3> QED
      BY <3>1, <3>2, <3>3
  <2>7. inst' \in [Handles -> Instance] /\ \A g \in Handles : Consistent(inst'[g]) /\ Counted(g)'
    <3>1. inst \in [Handles -> Instance] /\ Nothing \in [Handles -> Nat]
      BY OnlyType DEF Inv, TypeOK
    <3> QED
      BY <2>1, <2>5, <2>6, <3>1, StepSound
  <2>8. ProcessCounted'
    BY <1>1, <1>2, <1>5, <2>1 DEF ProcessCounted
  <2> QED
    BY <1>1, <1>2, <1>4, <2>1, <2>2, <2>7, <2>8 DEF Inv, TypeOK
<1>6. CASE prefs # 1
  <2>1. UNCHANGED <<plife, inst, containers, endpoints, options>>
    BY <1>1, <1>6 DEF UnrefProcess
  <2>2. \A g \in Handles : Consistent(inst'[g]) /\ Counted(g)'
    <3>1. \A g \in Handles : EndpointRefs(g)' = EndpointRefs(g)
      BY <2>1 DEF EndpointRefs
    <3> QED
      BY <1>3, <2>1, <3>1, Known DEF Counted
  <2>3. StdioInv'
    BY <2>1 DEF Inv, StdioInv
  <2>4. ProcessCounted'
    BY <1>1, <1>2, <1>6, <2>1 DEF ProcessCounted
  <2> QED
    BY <1>1, <1>2, <1>4, <2>1, <2>2, <2>3, <2>4 DEF Inv, TypeOK
<1> QED
  BY <1>5, <1>6

-----------------------------------------------------------------------------
(* The theorems.                                                           *)

\* Nothing exists at the beginning.
LEMMA InitInv == Init => Inv
<1> SUFFICES ASSUME Init PROVE Inv
  OBVIOUS
<1>1. TypeOK
  <2>1. inst = [h \in Handles |-> Unborn] /\ var = [v \in Vars |-> NoHandle] /\ server = NoHandle
    BY DEF Init, StreamInit
  <2>2. containers \in Seq(Slot) /\ endpoints \in Seq(Slot)
    BY EmptySeq DEF Init
  <2> QED
    BY <2>1, <2>2, UnbornType DEF Init, TypeOK, Slot
<1>2. \A h \in Handles : Consistent(inst[h]) /\ Counted(h)
  <2> TAKE h \in Handles
  <2>1. inst[h] = Unborn /\ Unborn.life = "none"
    BY DEF Init, StreamInit, Unborn
  <2>2. Naming(h) = {} /\ Keeping(h) = {} /\ server # h
    BY StreamsAssumption DEF Init, StreamInit, Naming, Keeping
  <2>3. UserRefs(h) = 0 /\ EndpointRefs(h) = 0
    BY <1>1, <2>2, CountTypes, FS_EmptySet
  <2> QED
    BY <2>1, <2>3, UnbornType DEF Consistent, Counted
<1>3. StdioInv
  BY DEF Init, StdioInv
<1>4. ProcessCounted
  BY DEF Init, ProcessCounted, One
<1> QED
  BY <1>1, <1>2, <1>3, <1>4 DEF Inv

\* A step that changes nothing.
LEMMA StutterInv == Inv /\ UNCHANGED vars => Inv'
BY DEF Inv, TypeOK, Counted, UserRefs, EndpointRefs, StdioInv, ProcessCounted, vars,
       streamVars, processVars

\* Every step keeps the invariant.
LEMMA NextInv == Inv /\ [Next]_vars => Inv'
<1> SUFFICES ASSUME Inv, [Next]_vars PROVE Inv'
  OBVIOUS
<1>1. CASE StreamNext /\ UNCHANGED processVars /\ OneCallback
  BY <1>1, StreamNextInv
<1>2. CASE CreateProcess \/ Spawn \/ \E called \in BOOLEAN : ExitCb(called)
  BY <1>2, LifeInv
<1>3. CASE \E fd \in 1 .. MaxFd :
              \/ \E v \in Vars : InheritStdio(fd, v) \/ TakeEndpoint(v, fd)
              \/ \E h \in Handles : CreateStdioPipe(fd, h)
              \/ InheritDescriptor(fd)
              \/ CreateStdioPipeFails(fd)
  BY <1>3, InheritStdioInv, TakeEndpointInv, CreateStdioPipeInv, InheritDescriptorInv,
     CreateStdioPipeFailsInv
<1>4. CASE DropProcess \/ ExitReturns
  BY <1>4, UnrefProcessInv
<1>5. CASE UNCHANGED vars
  BY <1>5, StutterInv
<1> QED
  BY <1>1, <1>2, <1>3, <1>4, <1>5 DEF Next

\* The inductive invariant holds in every state: constructors, listen(),
\* accept(), inherit_stdio(), create_stdio_pipe(), the callbacks and the
\* destructors keep it.
THEOREM Invariance == Spec => []Inv
<1> QED
  BY InitInv, NextInv, PTL DEF Spec

\* Constructors, accept(), the endpoints of a child and ~properties(): every
\* handle is counted exactly and deleted when, and only when, nothing
\* refers to it, however many handles, variables and descriptors there are.
THEOREM ReferencesCorrect == Spec => []ReferencesAccounted
<1>1. Inv => ReferencesAccounted
  BY DEF Inv, Counted, Consistent, ProcessCounted, ReferencesAccounted
<1> QED
  BY <1>1, Invariance, PTL

\* inherit_stdio(), create_stdio_pipe(), ensure_stdio_number(), spawn():
\* libuv sees the current array in its right length, and no stream in it
\* has been deleted.
THEOREM StdioIsAlive == Spec => []StdioAlive
<1>1. Inv => StdioAlive
  <2> SUFFICES ASSUME Inv PROVE StdioAlive
    OBVIOUS
  <2>1. StdioInv /\ containers \in Seq(Slot) /\ endpoints \in Seq(Slot)
    BY DEF Inv, TypeOK
  <2>2. DOMAIN containers = 1 .. Len(containers)
    BY <2>1, LenProperties
  <2>3. \A i \in DOMAIN containers :
           containers[i] # NoHandle => inst[containers[i]].life = "alive"
    <3> SUFFICES ASSUME NEW i \in 1 .. Len(containers), containers[i] # NoHandle
                 PROVE  inst[containers[i]].life = "alive"
      BY <2>2
    <3>1. containers[i] = endpoints[i] /\ i \in 1 .. Len(endpoints)
      BY <2>1 DEF StdioInv
    <3>2. endpoints[i] \in Handles
      BY <2>1, <3>1, ElementOfSeq DEF Slot
    <3>3. EndpointRefs(endpoints[i]) > 0
      BY <3>1, <3>2, ReferredTo
    <3> QED
      BY <3>1, <3>2, <3>3, ReferredTo
  <2> QED
    BY <2>1, <2>3 DEF StdioAlive, StdioInv
<1> QED
  BY <1>1, Invariance, PTL

-----------------------------------------------------------------------------
(* Deletion is final.                                                      *)

\* What nothing refers to: no variable, no callback and no endpoint.
Forgotten(h) ==
    /\ inst[h].refs = 0 /\ ~inst[h].booked /\ ~inst[h].listening
    /\ server # h
    /\ \A v \in Vars : var[v] # h
    /\ \A i \in DOMAIN endpoints : endpoints[i] # h /\ containers[i] # h

\* A handle that has been deleted, as a variable or as an endpoint of a
\* process, is not made, accepted into, connected to or passed on again, nor
\* is a process handle that has been deleted.
DeletedIsFinal ==
    /\ \A h \in Handles :
          inst[h].life = "freed" => inst'[h].life = "freed" /\ Forgotten(h)'
    /\ plife = "freed" => plife' = "freed" /\ ~pheld' /\ ~exiting'

\* Nothing refers to a handle that has been deleted.
LEMMA DeletedIsForgotten ==
    Inv => \A h \in Handles : inst[h].life = "freed" => Forgotten(h)
<1> SUFFICES ASSUME Inv, NEW h \in Handles, inst[h].life = "freed" PROVE Forgotten(h)
  OBVIOUS
<1>1. /\ inst[h].refs = UserRefs(h) + EndpointRefs(h)
      /\ inst[h].life = "alive" <=> inst[h].refs > 0
      /\ inst[h].booked \/ inst[h].listening => inst[h].life = "alive"
      /\ inst[h].refs \in Nat
  BY DEF Inv, Counted, Consistent, TypeOK, Instance
<1>2. /\ server # h /\ \A v \in Vars : var[v] # h
      /\ \A i \in 1 .. Len(endpoints) : endpoints[i] # h
  BY ReferredTo
<1>3. h # NoHandle
  BY StreamsAssumption
<1>4. /\ DOMAIN endpoints = 1 .. Len(endpoints)
      /\ \A i \in 1 .. Len(endpoints) : containers[i] \in {NoHandle, endpoints[i]}
  <2>1. containers \in Seq(Slot) /\ endpoints \in Seq(Slot) /\ Len(containers) = Len(endpoints)
    BY DEF Inv, TypeOK, StdioInv
  <2> QED
    BY <2>1 DEF Inv, StdioInv
<1> QED
  BY <1>1, <1>2, <1>3, <1>4 DEF Forgotten

\* The same of the state after a step.
LEMMA DeletedAfter ==
    Inv' => (\A h \in Handles : inst[h].life = "freed" => Forgotten(h))'
  BY DeletedIsForgotten, PTL

\* Counting leaves a deleted instance deleted.
LEMMA RecountFreed ==
    ASSUME NEW is, NEW gain, NEW lost, NEW h \in Handles, is[h] = inst[h],
           inst[h] \in Instance, inst[h].life = "freed", inst' = Recount(is, gain, lost)
    PROVE  inst'[h].life = "freed"
<1>1. \/ inst'[h] = [Unborn EXCEPT !.life = "freed"]
      \/ \E n : inst'[h] = [inst[h] EXCEPT !.refs = n]
  BY DEF Recount
<1>2. CASE inst'[h] = [Unborn EXCEPT !.life = "freed"]
  BY <1>2, UnbornType DEF Instance
<1>3. ASSUME NEW n, inst'[h] = [inst[h] EXCEPT !.refs = n] PROVE inst'[h].life = "freed"
  BY <1>3 DEF Instance
<1> QED
  BY <1>1, <1>2, <1>3

\* No step of the streams touches a deleted handle.
LEMMA FreedInStreams ==
    ASSUME Inv, StreamNext, NEW h \in Handles, inst[h].life = "freed"
    PROVE  inst'[h].life = "freed"
<1>1. /\ inst \in [Handles -> Instance] /\ inst[h] \in Instance
      /\ inst[h].life # "none" /\ ~inst[h].booked /\ ~inst[h].listening
  BY DEF Inv, TypeOK, Consistent
<1>2. ASSUME NEW is, NEW gain, NEW lost, is[h] = inst[h], inst' = Recount(is, gain, lost)
      PROVE  inst'[h].life = "freed"
  BY <1>1, <1>2, RecountFreed
<1>3. ASSUME NEW v \in Vars, NEW g \in Handles, NEW k, NEW ok, NEW rest, Open(v, g, k, ok, rest)
      PROVE  inst'[h].life = "freed"
  BY <1>1, <1>2, <1>3 DEF Open
<1>4. ASSUME NEW v \in Vars, (\E w \in Vars : Copy(v, w)) \/ Drop(v)
      PROVE  inst'[h].life = "freed"
  BY <1>2, <1>4 DEF Copy, Drop
<1>5. ASSUME NEW v \in Vars, NEW g \in Handles, NEW c \in Handles, NEW k, NEW ok, NEW given,
             Accepts(v, g, c, k, ok, given)
      PROVE  inst'[h].life = "freed"
  <2>1. g # h /\ c # h
    BY <1>1, <1>5 DEF Accepts, Usable
  <2>2. \E is, gain, lost : is[h] = inst[h] /\ inst' = Recount(is, gain, lost)
    <3> DEFINE fresh == [Born(k, ok) EXCEPT !.failed = ~(ok /\ given)]
               is == [inst EXCEPT
                         ![c] = fresh, ![g].failed = ~(ok /\ given),
                         ![g].waiting = @ /\ ~ok, ![g].passed = IF ok THEN "none" ELSE @]
    <3>1. inst' = Recount(is, Only(c), Nothing)
      BY <1>5 DEF Accepts
    <3>2. is[h] = inst[h]
      <4> HIDE DEF fresh
      <4> QED
        BY <1>1, <2>1
    <3> HIDE DEF is
    <3> QED
      BY <3>1, <3>2
  <2> QED
    BY <1>2, <2>2
<1>6. ASSUME NEW g \in Handles, NEW ok \in BOOLEAN, Records(g, ok) \/ Listen(g, ok)
      PROVE  inst'[h].life = "freed"
  <2>1. g # h
    BY <1>1, <1>6 DEF Records, Listen, Usable
  <2> QED
    BY <1>1, <1>6, <2>1 DEF Records, Listen
<1>7. ASSUME NEW g \in Handles, NEW ok \in BOOLEAN, ConnectionCb(g, ok)
      PROVE  inst'[h].life = "freed"
  <2>1. g # h
    BY <1>1, <1>7 DEF ConnectionCb
  <2> QED
    BY <1>1, <1>2, <1>7, <2>1 DEF ConnectionCb
<1>8. ASSUME NEW g \in Handles, NEW k \in Passed, HandlePassed(g, k)
      PROVE  inst'[h].life = "freed"
  <2>1. g # h
    BY <1>1, <1>8 DEF HandlePassed
  <2> QED
    BY <1>1, <1>8, <2>1 DEF HandlePassed
<1>9. CASE ConnectionReturns
  BY <1>2, <1>9 DEF ConnectionReturns
<1>10. ASSUME NEW v \in Vars, NEW g \in Handles, NEW c \in Handles, NEW ok \in BOOLEAN,
              NEW given \in BOOLEAN,
              Accept(v, g, c, ok, given) \/ AcceptPendingHandle(v, g, c, ok, given)
       PROVE  inst'[h].life = "freed"
  <2>1. \E k : Accepts(v, g, c, k, ok, given)
    BY <1>10 DEF Accept, AcceptPendingHandle
  <2> QED
    BY <1>5, <2>1
<1> QED
  BY <1>3, <1>4, <1>6, <1>7, <1>8, <1>9, <1>10
  DEF StreamNext, StreamOption, TcpOption, PipeOption,
      TtyOption, UdpOption

\* No step makes a deleted handle anything else.
LEMMA FreedStep ==
    ASSUME Inv, [Next]_vars, NEW h \in Handles, inst[h].life = "freed"
    PROVE  inst'[h].life = "freed"
<1>1. /\ inst \in [Handles -> Instance] /\ inst[h] \in Instance
      /\ inst[h].life # "none"
  BY DEF Inv, TypeOK
<1>2. ASSUME NEW is, NEW gain, NEW lost, is[h] = inst[h], inst' = Recount(is, gain, lost)
      PROVE  inst'[h].life = "freed"
  BY <1>1, <1>2, RecountFreed
<1>3. ASSUME NEW fd \in 1 .. MaxFd, NEW g \in Handles, CreateStdioPipe(fd, g)
      PROVE  inst'[h].life = "freed"
  <2> DEFINE is == [inst EXCEPT ![g] = Born("pipe", TRUE)]
  <2>1. g # h /\ inst' = Recount(is, Only(g), Only(Former(fd)))
    BY <1>1, <1>3 DEF CreateStdioPipe
  <2>2. is[h] = inst[h]
    BY <1>1, <2>1
  <2> HIDE DEF is
  <2> QED
    BY <1>2, <2>1, <2>2
<1>4. ASSUME NEW fd \in 1 .. MaxFd, NEW v \in Vars, InheritStdio(fd, v) \/ TakeEndpoint(v, fd)
      PROVE  inst'[h].life = "freed"
  BY <1>2, <1>4 DEF InheritStdio, TakeEndpoint
<1>5. CASE DropProcess \/ ExitReturns
  BY <1>2, <1>5 DEF DropProcess, ExitReturns, UnrefProcess
<1>6. CASE StreamNext
  BY <1>6, FreedInStreams
<1>7. CASE UNCHANGED inst
  BY <1>7
<1> QED
  BY <1>3, <1>4, <1>5, <1>6, <1>7
  DEF Next, vars, streamVars, CreateProcess, InheritDescriptor, CreateStdioPipeFails, Spawn, ExitCb

\* unref(), ~properties(), exit_cb(): once a handle or a process has been
\* deleted no accept(), no stdio operation and no late callback gets at it.
THEOREM DeletionIsFinal == Spec => [][DeletedIsFinal]_vars
<1>1. Inv /\ Inv' /\ [Next]_vars => DeletedIsFinal
  <2> SUFFICES ASSUME Inv, Inv', [Next]_vars PROVE DeletedIsFinal
    OBVIOUS
  <2>1. ASSUME NEW h \in Handles, inst[h].life = "freed"
        PROVE  inst'[h].life = "freed" /\ Forgotten(h)'
    <3>1. inst'[h].life = "freed"
      BY <2>1, FreedStep
    <3> QED
      BY <3>1, DeletedAfter
  <2>2. plife = "freed" => plife' = "freed"
    <3>1. ASSUME plife = "freed" PROVE ~pheld /\ ~exiting
      BY <3>1 DEF Inv, ProcessCounted, TypeOK, One
    <3> QED
      BY <3>1 DEF Next, vars, processVars, CreateProcess, InheritStdio, TakeEndpoint,
         CreateStdioPipe, InheritDescriptor, CreateStdioPipeFails, Spawn, ExitCb,
         DropProcess, ExitReturns, UnrefProcess
  <2>3. plife' = "freed" => ~pheld' /\ ~exiting'
    BY DEF Inv, ProcessCounted, TypeOK, One
  <2> QED
    BY <2>1, <2>2, <2>3 DEF DeletedIsFinal
<1> QED
  BY <1>1, Invariance, NextInv, PTL DEF Spec
=============================================================================
