------------------------ MODULE LoopLifetime_proofs ------------------------
(***************************************************************************)
(* Proofs about LoopLifetime, for any number of handles, requests and loop *)
(* variables and any classes of requests: every counter is exact, so the   *)
(* loop outlives its open handles, the handles outlive their requests, and *)
(* the memory of the loop goes last.  What the destructor has still to do  *)
(* becomes less only.                                                      *)
(***************************************************************************)
EXTENDS LoopLifetime, FiniteSetTheorems, TLAPS

-----------------------------------------------------------------------------
(* The inductive invariant.                                                *)

Buffered == {r \in Pending : class[r] \in WithBuffer}
Targeting(h) == {r \in Requests : target[r] = h}
Sending(h) == {r \in Requests : sent[r] = h}

\* The counters, one by one.
LoopCount == loopRefs = loopVars + Cardinality(Booked)
HandleCount == \A h \in Handles : hRefs[h] = Bit(hVar[h]) + Uses(h) + Guarded(h)
RequestCount ==
    \A r \in Requests : rRefs[r] = Bit(rVar[r]) + Bit(pending[r]) + 2 * Bit(cb.req = r)
BufferCount ==
    bRefs = Bit(bVar) + Cardinality(Buffered)
              + Bit(InCallback /\ class[cb.req] \in WithBuffer)

\* h is in a request, or in the guards of a callback.
InUse(h) ==
    \/ \E r \in Requests : target[r] = h \/ sent[r] = h
    \/ cb.target = h \/ cb.sent = h

\* The instance of a handle exists while it is open or has failed to
\* initialize; what is in use is open.
HandleInv ==
    \A h \in Handles :
        /\ hRefs[h] > 0 <=> handle[h] \in {"open", "failed"}
        /\ InUse(h) => handle[h] = "open"

\* The loop is alive as long as it is referenced; run() needs a variable, so
\* that callbacks are called in it or in the premortal run; what is given
\* back has nothing unfinished.
LoopInv ==
    /\ loop = "alive" <=> loopRefs > 0
    /\ running => loopVars > 0
    /\ InCallback => running \/ loop = "dying"
    /\ loop = "freed" => ~Unfinished(handle)

\* Only a pending request has handles.
RequestInv ==
    /\ \A r \in Requests : ~pending[r] => target[r] = NoHandle /\ sent[r] = NoHandle
    /\ InCallback <=> cb.req # NoRequest

Counts == LoopCount /\ HandleCount /\ RequestCount /\ BufferCount

Inv == TypeOK /\ Counts /\ HandleInv /\ LoopInv /\ RequestInv

-----------------------------------------------------------------------------
(* Counting.                                                               *)

\* A flag counts for nothing or for one.
LEMMA BitType == \A b : Bit(b) \in {0, 1}
BY DEF Bit

\* Two sets that differ in one element at most differ by one at most.
LEMMA DifferInOne ==
    ASSUME NEW S, IsFiniteSet(S), NEW T, NEW x, T \ {x} = S \ {x}
    PROVE  /\ Cardinality(S) \in Nat
           /\ Cardinality(T) = Cardinality(S) + Bit(x \in T) - Bit(x \in S)
<1> DEFINE R == S \ {x}
<1>1. IsFiniteSet(R)
  BY FS_Subset, R \in SUBSET S
<1>2. Cardinality(R) \in Nat /\ Cardinality(R \union {x}) = Cardinality(R) + 1
  BY <1>1, FS_CardinalityType, FS_AddElement
<1>3. S = (IF x \in S THEN R \union {x} ELSE R)
  OBVIOUS
<1>4. T = (IF x \in T THEN R \union {x} ELSE R)
  OBVIOUS
<1> HIDE DEF R
<1>5. Cardinality(S) = Cardinality(R) + Bit(x \in S)
  BY <1>2, <1>3 DEF Bit
<1>6. Cardinality(T) = Cardinality(R) + Bit(x \in T)
  <2>1. CASE x \in T
    <3>1. T = R \union {x}
      BY <1>4, <2>1
    <3> QED
      BY <1>2, <2>1, <3>1 DEF Bit
  <2>2. CASE x \notin T
    <3>1. T = R
      BY <1>4, <2>2
    <3> QED
      BY <1>2, <2>2, <3>1 DEF Bit
  <2> QED
    BY <2>1, <2>2
<1> DEFINE n == Cardinality(R)
           inT == Bit(x \in T)
           inS == Bit(x \in S)
<1>7. n \in Nat /\ inT \in {0, 1} /\ inS \in {0, 1}
  BY <1>2, BitType
<1>8. Cardinality(S) = n + inS /\ Cardinality(T) = n + inT
  BY <1>5, <1>6
<1> HIDE DEF n, inT, inS
<1>9. Cardinality(S) \in Nat /\ Cardinality(T) = Cardinality(S) + inT - inS
  BY <1>7, <1>8
<1> QED
  BY <1>9 DEF inT, inS

\* The sets that are counted are finite.
LEMMA Finite ==
    /\ IsFiniteSet(Booked) /\ IsFiniteSet(Buffered)
    /\ \A h : IsFiniteSet(Targeting(h)) /\ IsFiniteSet(Sending(h))
<1>1. Booked \in SUBSET Handles /\ Buffered \in SUBSET Requests
  BY DEF Booked, Buffered, Pending
<1>2. \A h : Targeting(h) \in SUBSET Requests /\ Sending(h) \in SUBSET Requests
  BY DEF Targeting, Sending
<1> QED
  BY <1>1, <1>2, FS_Subset, LoopLifetimeAssumption

\* Their sizes are natural numbers.
LEMMA CountTypes ==
    /\ Cardinality(Booked) \in Nat /\ Cardinality(Buffered) \in Nat
    /\ \A h : /\ Uses(h) \in Nat
              /\ Guarded(h) \in Nat
              /\ Uses(h) = Cardinality(Targeting(h)) + Cardinality(Sending(h))
              /\ Cardinality(Targeting(h)) \in Nat
              /\ Cardinality(Sending(h)) \in Nat
<1>1. \A h : Cardinality(Targeting(h)) \in Nat /\ Cardinality(Sending(h)) \in Nat
  BY Finite, FS_CardinalityType
<1>2. \A h : Uses(h) = Cardinality(Targeting(h)) + Cardinality(Sending(h))
  BY DEF Uses, Targeting, Sending
<1>3. \A h : Guarded(h) \in Nat
  BY DEF Guarded
<1> QED
  BY <1>1, <1>2, <1>3, Finite, FS_CardinalityType

\* A handle is referenced by requests and guards exactly if it is in use.
LEMMA InUseCounts ==
    ASSUME NEW h
    PROVE  Uses(h) + Guarded(h) > 0 <=> InUse(h)
<1>1. Targeting(h) = {} <=> Cardinality(Targeting(h)) = 0
  BY Finite, FS_EmptySet
<1>2. Sending(h) = {} <=> Cardinality(Sending(h)) = 0
  BY Finite, FS_EmptySet
<1>3. Guarded(h) > 0 <=> (cb.target = h \/ cb.sent = h)
  BY DEF Guarded
<1>4. InUse(h) <=> (Targeting(h) # {} \/ Sending(h) # {} \/ cb.target = h \/ cb.sent = h)
  BY DEF InUse, Targeting, Sending
<1> QED
  BY <1>1, <1>2, <1>3, <1>4, CountTypes

-----------------------------------------------------------------------------
(* Release of handles.                                                     *)

\* instance::unref() of handles: those that lose their last reference are
\* closed and unbook the loop, which stays alive as long as it has another
\* reference, and never is given back at once.
LEMMA UnrefHandlesFacts ==
    ASSUME Inv, NEW released \in [Handles -> Nat],
           \A h \in Handles : released[h] <= hRefs[h],
           UnrefHandles(released), loopVars' = loopVars
    PROVE  /\ loopRefs' \in Nat
           /\ loop' \in {"alive", "dying", "freed"}
           /\ hRefs' \in [Handles -> Nat]
           /\ \A h \in Handles : hRefs'[h] = hRefs[h] - released[h]
           /\ handle' \in [Handles -> {"none", "failed", "open", "closing", "closed"}]
           /\ \A h \in Handles :
                 /\ hRefs'[h] > 0 <=> handle'[h] \in {"open", "failed"}
                 /\ handle[h] = "open" /\ hRefs'[h] > 0 => handle'[h] = "open"
                 /\ handle'[h] \in {"open", "closing"} => handle[h] \in {"open", "closing"}
           /\ LoopCount'
           /\ loop' = "alive" <=> loopRefs' > 0
           /\ loop' = "freed" => loop = "freed"
           /\ loop = "dying" => loop' = "dying"
<1> DEFINE gone == {h \in Handles : released[h] > 0 /\ hRefs[h] = released[h]}
           booked == {h \in gone : handle[h] = "open"}
           handles == [h \in Handles |-> IF h \in booked THEN "closing"
                                         ELSE IF h \in gone THEN "closed"
                                         ELSE handle[h]]
           n == Cardinality(booked)
<1>1. /\ hRefs' = [h \in Handles |-> hRefs[h] - released[h]]
      /\ handle' = handles
      /\ UnrefLoop(n, handles)
  BY DEF UnrefHandles
<1>2. /\ hRefs \in [Handles -> Nat] /\ loopRefs \in Nat /\ loopVars \in Nat
      /\ handle \in [Handles -> {"none", "failed", "open", "closing", "closed"}]
      /\ loop \in {"alive", "dying", "freed"}
      /\ loopRefs = loopVars + Cardinality(Booked)
      /\ loop = "alive" <=> loopRefs > 0
  BY DEF Inv, TypeOK, Counts, LoopCount, LoopInv
<1>3. hRefs' \in [Handles -> Nat] /\ \A h \in Handles : hRefs'[h] = hRefs[h] - released[h]
  BY <1>1, <1>2
<1>4. \A h \in Handles : hRefs[h] > 0 <=> handle[h] \in {"open", "failed"}
  BY DEF Inv, HandleInv
<1>5. \A h \in Handles : h \in gone <=> (hRefs[h] > 0 /\ hRefs'[h] = 0)
  <2> TAKE h \in Handles
  <2>1. hRefs[h] \in Nat /\ released[h] \in Nat /\ hRefs'[h] = hRefs[h] - released[h]
    BY <1>2, <1>3
  <2>2. h \in gone <=> (released[h] > 0 /\ hRefs[h] = released[h])
    OBVIOUS
  <2> HIDE DEF gone
  <2> QED
    BY <2>1, <2>2
<1>6. /\ handle' \in [Handles -> {"none", "failed", "open", "closing", "closed"}]
      /\ \A h \in Handles :
            handle'[h] = IF h \in booked THEN "closing"
                         ELSE IF h \in gone THEN "closed" ELSE handle[h]
  BY <1>1, <1>2
<1>7. \A h \in Handles :
            /\ hRefs'[h] > 0 <=> handle'[h] \in {"open", "failed"}
            /\ handle[h] = "open" /\ hRefs'[h] > 0 => handle'[h] = "open"
            /\ handle'[h] \in {"open", "closing"} => handle[h] \in {"open", "closing"}
  <2> TAKE h \in Handles
  <2>1. hRefs'[h] \in Nat /\ hRefs[h] \in Nat
    BY <1>2, <1>3
  <2>2. h \in booked <=> h \in gone /\ handle[h] = "open"
    OBVIOUS
  <2> HIDE DEF gone, booked, handles
  <2> QED
    BY <2>1, <2>2, <1>3, <1>4, <1>5, <1>6
<1>8. Booked' = Booked \ booked /\ booked \subseteq Booked
  <2>1. \A h \in Handles : handle'[h] = "open" <=> handle[h] = "open" /\ h \notin booked
    BY <1>6
  <2> QED
    BY <2>1 DEF Booked
<1>9. /\ n \in Nat /\ Cardinality(Booked) \in Nat /\ n <= Cardinality(Booked)
      /\ Cardinality(Booked') = Cardinality(Booked) - n
      /\ n = 0 <=> booked = {}
  <2>1. IsFiniteSet(booked) /\ n \in Nat /\ n <= Cardinality(Booked)
    BY <1>8, Finite, FS_Subset, FS_CardinalityType
  <2>2. Booked \intersect booked = booked
    BY <1>8
  <2>3. Cardinality(Booked \ booked) = Cardinality(Booked) - Cardinality(Booked \intersect booked)
    BY Finite, FS_Difference
  <2>4. n = 0 <=> booked = {}
    BY <2>1, FS_EmptySet
  <2> QED
    BY <1>8, <2>1, <2>2, <2>3, <2>4, CountTypes
<1>10. loopRefs' = loopRefs - n
  BY <1>1 DEF UnrefLoop
<1>11. LoopCount' /\ loopRefs' \in Nat
  BY <1>2, <1>9, <1>10 DEF LoopCount
<1>12. n # 0 => Unfinished(handles)
  <2> SUFFICES ASSUME n # 0 PROVE Unfinished(handles)
    OBVIOUS
  <2>1. PICK h \in booked : TRUE
    BY <1>9
  <2>2. h \in Handles /\ handles[h] = "closing"
    BY <2>1
  <2> QED
    BY <2>2 DEF Unfinished
<1>13. loop' = IF n = 0 \/ loopRefs > n THEN loop ELSE "dying"
  BY <1>1, <1>12 DEF UnrefLoop
<1> HIDE DEF n, handles, booked, gone
<1>14. loop' = "alive" <=> loopRefs' > 0
  BY <1>2, <1>9, <1>10, <1>11, <1>13
<1>15. loop' = "freed" => loop = "freed"
  BY <1>13
<1>16. loop = "dying" => loop' = "dying"
  BY <1>13
<1> QED
  BY <1>2, <1>3, <1>6, <1>7, <1>11, <1>13, <1>14, <1>15, <1>16

-----------------------------------------------------------------------------
(* What a step leaves alone.                                               *)

\* Counters and invariants of handles depend on handles and requests only.
LEMMA FrameHandles ==
    ASSUME Inv, UNCHANGED <<handleState, requestState, cb>>
    PROVE  HandleCount' /\ HandleInv'
BY DEF Inv, Counts, HandleCount, HandleInv, handleState, requestState, Uses, Guarded, InUse

\* The same for requests ...
LEMMA FrameRequests ==
    ASSUME Inv, UNCHANGED <<requestState, cb>>
    PROVE  RequestCount' /\ RequestInv'
BY DEF Inv, Counts, RequestCount, RequestInv, requestState, InCallback, NoCallback

\* ... and for the buffer.
LEMMA FrameBuffer ==
    ASSUME Inv, UNCHANGED <<requestState, bufferState, cb>>
    PROVE  BufferCount'
BY DEF Inv, Counts, BufferCount, Buffered, Pending, requestState, bufferState, InCallback,
   NoCallback

-----------------------------------------------------------------------------
(* The loop's own operations.                                              *)

\* The loop, its requests and the buffer as the user code has made them.
LEMMA InitInv == Init => Inv
<1> SUFFICES ASSUME Init PROVE Inv
  OBVIOUS
<1>1. cb = NoCallback /\ ~InCallback
  BY DEF Init, InCallback
<1>2. TypeOK
  <2>1. /\ handle \in [Handles -> {"none"}] /\ hRefs \in [Handles -> {0}]
        /\ hVar \in [Handles -> BOOLEAN] /\ pending \in [Requests -> BOOLEAN]
        /\ rRefs \in [Requests -> {1}] /\ rVar \in [Requests -> BOOLEAN]
        /\ target \in [Requests -> {NoHandle}] /\ sent \in [Requests -> {NoHandle}]
    BY DEF Init
  <2>2. loopVars \in 0 .. MaxLoopVars /\ loopRefs \in Nat /\ bRefs \in Nat
    BY LoopLifetimeAssumption DEF Init
  <2>3. cb \in [req : Requests \union {NoRequest}, target : Handles \union {NoHandle},
                sent : Handles \union {NoHandle}]
    BY <1>1 DEF NoCallback
  <2> QED
    BY <2>1, <2>2, <2>3 DEF Init, TypeOK
<1>3. LoopCount
  <2>1. Booked = {}
    BY DEF Init, Booked
  <2> QED
    BY <2>1, FS_EmptySet DEF Init, LoopCount
<1>4. \A h \in Handles : ~InUse(h)
  BY <1>1, LoopLifetimeAssumption DEF Init, InUse, NoCallback
<1>5. HandleCount
  <2> SUFFICES ASSUME NEW h \in Handles PROVE hRefs[h] = Bit(hVar[h]) + Uses(h) + Guarded(h)
    BY DEF HandleCount
  <2>1. Uses(h) = 0 /\ Guarded(h) = 0
    BY <1>4, InUseCounts, CountTypes
  <2>2. hRefs[h] = 0 /\ Bit(hVar[h]) = 0
    BY DEF Init, Bit
  <2> QED
    BY <2>1, <2>2
<1>6. RequestCount
  BY <1>1, LoopLifetimeAssumption DEF Init, RequestCount, Bit, NoCallback
<1>7. BufferCount
  <2>1. Buffered = {}
    BY DEF Init, Buffered, Pending
  <2>2. Cardinality(Buffered) = 0
    BY <2>1, FS_EmptySet
  <2> QED
    BY <1>1, <2>2 DEF Init, BufferCount, Bit
<1>8. HandleInv
  BY <1>4 DEF Init, HandleInv
<1>9. LoopInv
  BY <1>1 DEF Init, LoopInv
<1>10. RequestInv
  BY <1>1 DEF Init, RequestInv, NoCallback
<1> QED
  BY <1>2, <1>3, <1>5, <1>6, <1>7, <1>8, <1>9, <1>10 DEF Inv, Counts

\* loop variables, run() and the end of the premortal run.
LEMMA LoopActionInv == ASSUME Inv, LoopAction PROVE Inv'
<1>1. UNCHANGED <<handleState, requestState, bufferState, cb>>
  BY DEF LoopAction, CopyLoop, DropLoop, Run, RunReturns, FinishDestroy, loopState
<1>2. HandleCount' /\ HandleInv' /\ RequestCount' /\ RequestInv' /\ BufferCount'
  BY <1>1, FrameHandles, FrameRequests, FrameBuffer
<1>3. InCallback' = InCallback /\ Unfinished(handle)' = Unfinished(handle) /\ Booked' = Booked
  BY <1>1 DEF InCallback, NoCallback, Unfinished, handleState, requestState, Booked
<1>4. /\ loopVars \in 0 .. MaxLoopVars /\ loopRefs \in Nat /\ MaxLoopVars \in Nat
      /\ loop \in {"alive", "dying", "freed"} /\ running \in BOOLEAN
      /\ loopRefs = loopVars + Cardinality(Booked) /\ Cardinality(Booked) \in Nat
  BY CountTypes, LoopLifetimeAssumption DEF Inv, TypeOK, Counts, LoopCount
<1>5. /\ loopVars' \in 0 .. MaxLoopVars /\ loopRefs' \in Nat
      /\ loop' \in {"alive", "dying", "freed"} /\ running' \in BOOLEAN
      /\ LoopCount'
  <2>1. LoopCount' <=> loopRefs' = loopVars' + Cardinality(Booked)
    BY <1>3 DEF LoopCount
  <2>2. CASE CopyLoop
    BY <2>1, <2>2, <1>4 DEF CopyLoop
  <2>3. CASE DropLoop
    BY <2>1, <2>3, <1>4 DEF DropLoop, UnrefLoop
  <2>4. CASE Run \/ RunReturns \/ FinishDestroy
    BY <2>1, <2>4, <1>4 DEF Run, RunReturns, FinishDestroy, loopState
  <2> QED
    BY <2>2, <2>3, <2>4 DEF LoopAction
<1>6. TypeOK'
  BY <1>1, <1>5 DEF Inv, TypeOK, handleState, requestState, bufferState
<1>7. LoopInv'
  <2> USE <1>3, <1>4 DEF Inv, LoopInv
  <2>1. CASE CopyLoop
    BY <2>1 DEF CopyLoop
  <2>2. CASE DropLoop
    BY <2>2 DEF DropLoop, UnrefLoop, UserCode
  <2>3. CASE Run \/ RunReturns
    BY <2>3 DEF Run, RunReturns, loopState
  <2>4. CASE FinishDestroy
    BY <2>4 DEF FinishDestroy
  <2> QED
    BY <2>1, <2>2, <2>3, <2>4 DEF LoopAction
<1> QED
  BY <1>2, <1>5, <1>6, <1>7 DEF Inv, Counts

-----------------------------------------------------------------------------
(* Handles.                                                                *)

\* The constructor of a handle books the loop that the user code has.
LEMMA CreateHandleInv ==
    ASSUME Inv, NEW h \in Handles, CreateHandle(h)
    PROVE  Inv'
<1>1. UNCHANGED <<requestState, bufferState, cb, loop, loopVars, running>>
  BY DEF CreateHandle
<1>2. RequestCount' /\ RequestInv' /\ BufferCount'
  BY <1>1, FrameRequests, FrameBuffer
<1>3. /\ hRefs \in [Handles -> Nat] /\ hVar \in [Handles -> BOOLEAN] /\ loopRefs \in Nat
      /\ handle \in [Handles -> {"none", "failed", "open", "closing", "closed"}]
      /\ loopVars \in Nat /\ loopVars > 0 /\ handle[h] = "none"
      /\ hRefs' = [hRefs EXCEPT ![h] = 1] /\ hVar' = [hVar EXCEPT ![h] = TRUE]
  BY DEF Inv, TypeOK, CreateHandle
<1>4. \/ handle' = [handle EXCEPT ![h] = "open"] /\ loopRefs' = loopRefs + 1
      \/ handle' = [handle EXCEPT ![h] = "failed"] /\ loopRefs' = loopRefs
  BY DEF CreateHandle
<1>5. TypeOK'
  BY <1>1, <1>3, <1>4 DEF Inv, TypeOK, requestState, bufferState
<1>6. \A g \in Handles : /\ Uses(g)' = Uses(g) /\ Guarded(g)' = Guarded(g)
                         /\ InUse(g)' <=> InUse(g)
  BY <1>1 DEF Uses, Guarded, InUse, requestState
<1>7. Bit(hVar[h]) = 0 /\ Uses(h) = 0 /\ Guarded(h) = 0 /\ ~InUse(h)
  <2>1. hRefs[h] = 0
    BY <1>3 DEF Inv, HandleInv
  <2>2. Bit(hVar[h]) \in Nat /\ Uses(h) \in Nat /\ Guarded(h) \in Nat
    BY BitType, CountTypes
  <2>3. hRefs[h] = Bit(hVar[h]) + Uses(h) + Guarded(h)
    BY DEF Inv, Counts, HandleCount
  <2> QED
    BY <2>1, <2>2, <2>3, InUseCounts
<1>8. HandleCount'
  <2> SUFFICES ASSUME NEW g \in Handles
               PROVE  hRefs'[g] = Bit(hVar'[g]) + Uses(g) + Guarded(g)
    BY <1>6 DEF HandleCount
  <2>1. CASE g = h
    <3>1. hRefs'[g] = 1 /\ Bit(hVar'[g]) = 1
      BY <1>3, <2>1 DEF Bit
    <3> QED
      BY <3>1, <2>1, <1>7
  <2>2. CASE g # h
    <3>1. hRefs'[g] = hRefs[g] /\ hVar'[g] = hVar[g]
      BY <1>3, <2>2
    <3> QED
      BY <3>1 DEF Inv, Counts, HandleCount
  <2> QED
    BY <2>1, <2>2
<1>9. HandleInv'
  <2> SUFFICES ASSUME NEW g \in Handles
               PROVE  /\ hRefs'[g] > 0 <=> handle'[g] \in {"open", "failed"}
                      /\ InUse(g) => handle'[g] = "open"
    BY <1>6 DEF HandleInv
  <2> QED
    BY <1>3, <1>4, <1>7 DEF Inv, HandleInv
<1>10. LoopCount' /\ loopRefs' > 0
  <2>1. Booked' \ {h} = Booked \ {h} /\ h \notin Booked
    BY <1>3, <1>4 DEF Booked
  <2>2. Cardinality(Booked)' = Cardinality(Booked) + Bit(h \in Booked') /\ Cardinality(Booked) \in Nat
    BY <2>1, Finite, DifferInOne DEF Bit
  <2>3. Bit(h \in Booked') = loopRefs' - loopRefs
    BY <1>3, <1>4 DEF Booked, Bit
  <2> QED
    BY <1>1, <1>3, <1>4, <2>2, <2>3 DEF Inv, Counts, LoopCount
<1>11. LoopInv'
  <2>1. loop = "alive"
    BY <1>3, CountTypes DEF Inv, LoopInv, Counts, LoopCount
  <2>2. InCallback' = InCallback
    BY <1>1 DEF InCallback, NoCallback
  <2> QED
    BY <1>1, <1>3, <1>10, <2>1, <2>2 DEF Inv, LoopInv
<1> QED
  BY <1>2, <1>5, <1>8, <1>9, <1>10, <1>11 DEF Inv, Counts

\* walk() gives the user a variable of an open handle.
LEMMA WalkInv ==
    ASSUME Inv, NEW h \in Handles, Walk(h)
    PROVE  Inv'
<1>1. UNCHANGED <<loopState, running, handle, requestState, bufferState, cb>>
  BY DEF Walk
<1>2. RequestCount' /\ RequestInv' /\ BufferCount'
  BY <1>1, FrameRequests, FrameBuffer
<1>3. /\ hRefs \in [Handles -> Nat] /\ hVar \in [Handles -> BOOLEAN]
      /\ handle[h] = "open" /\ hVar[h] = FALSE
      /\ hRefs' = [hRefs EXCEPT ![h] = hRefs[h] + 1] /\ hVar' = [hVar EXCEPT ![h] = TRUE]
  BY DEF Inv, TypeOK, Walk
<1>4. TypeOK'
  BY <1>1, <1>3 DEF Inv, TypeOK, loopState, requestState, bufferState
<1>5. \A g \in Handles : /\ Uses(g)' = Uses(g) /\ Guarded(g)' = Guarded(g)
                         /\ InUse(g)' <=> InUse(g)
  BY <1>1 DEF Uses, Guarded, InUse, requestState
<1>6. HandleCount'
  <2> SUFFICES ASSUME NEW g \in Handles
               PROVE  hRefs'[g] = Bit(hVar'[g]) + Uses(g) + Guarded(g)
    BY <1>5 DEF HandleCount
  <2>1. hRefs[g] = Bit(hVar[g]) + Uses(g) + Guarded(g) /\ Uses(g) \in Nat /\ Guarded(g) \in Nat
    BY CountTypes DEF Inv, Counts, HandleCount
  <2>2. CASE g = h
    <3>1. Bit(hVar[h]) = 0 /\ Bit(hVar'[h]) = 1 /\ hRefs'[h] = hRefs[h] + 1
      BY <1>3 DEF Bit
    <3> QED
      BY <2>1, <2>2, <3>1
  <2>3. CASE g # h
    <3>1. hRefs'[g] = hRefs[g] /\ hVar'[g] = hVar[g]
      BY <1>3, <2>3
    <3> QED
      BY <2>1, <3>1
  <2> QED
    BY <2>2, <2>3
<1>7. HandleInv'
  <2> SUFFICES ASSUME NEW g \in Handles
               PROVE  /\ hRefs'[g] > 0 <=> handle[g] \in {"open", "failed"}
                      /\ InUse(g) => handle[g] = "open"
    BY <1>1, <1>5 DEF HandleInv
  <2> QED
    BY <1>3 DEF Inv, HandleInv
<1>8. LoopCount' /\ LoopInv'
  BY <1>1 DEF Inv, Counts, LoopCount, LoopInv, Booked, InCallback, NoCallback, Unfinished,
     loopState, requestState
<1> QED
  BY <1>2, <1>4, <1>6, <1>7, <1>8 DEF Inv, Counts

\* libuv finishes closing a handle whose instance has gone.
LEMMA FinishCloseInv ==
    ASSUME Inv, NEW h \in Handles, FinishClose(h)
    PROVE  Inv'
<1>1. UNCHANGED <<loopState, running, hRefs, hVar, requestState, bufferState, cb>>
  BY DEF FinishClose
<1>2. RequestCount' /\ RequestInv' /\ BufferCount'
  BY <1>1, FrameRequests, FrameBuffer
<1>3. /\ handle \in [Handles -> {"none", "failed", "open", "closing", "closed"}]
      /\ handle[h] = "closing" /\ handle' = [handle EXCEPT ![h] = "closed"]
      /\ hRefs \in [Handles -> Nat]
  BY DEF Inv, TypeOK, FinishClose
<1>4. TypeOK'
  BY <1>1, <1>3 DEF Inv, TypeOK, loopState, requestState, bufferState
<1>5. \A g \in Handles : /\ Uses(g)' = Uses(g) /\ Guarded(g)' = Guarded(g)
                         /\ InUse(g)' <=> InUse(g)
  BY <1>1 DEF Uses, Guarded, InUse, requestState
<1>6. HandleCount'
  BY <1>1, <1>5 DEF Inv, Counts, HandleCount
<1>7. HandleInv'
  <2> SUFFICES ASSUME NEW g \in Handles
               PROVE  /\ hRefs[g] > 0 <=> handle'[g] \in {"open", "failed"}
                      /\ InUse(g) => handle'[g] = "open"
    BY <1>1, <1>5 DEF HandleInv
  <2> QED
    BY <1>3 DEF Inv, HandleInv
<1>8. LoopCount'
  <2>1. Booked' = Booked
    BY <1>3 DEF Booked
  <2> QED
    BY <1>1, <2>1 DEF Inv, Counts, LoopCount, loopState
<1>9. LoopInv'
  <2>1. InCallback' = InCallback /\ (Unfinished(handle)' => Unfinished(handle))
    BY <1>1, <1>3 DEF InCallback, NoCallback, Unfinished, requestState
  <2> QED
    BY <1>1, <2>1 DEF Inv, LoopInv, loopState
<1> QED
  BY <1>2, <1>4, <1>6, <1>7, <1>8, <1>9 DEF Inv, Counts

\* A variable of a handle goes, and with the last reference the handle.
LEMMA DropHandleInv ==
    ASSUME Inv, NEW h \in Handles, DropHandle(h)
    PROVE  Inv'
<1> DEFINE released == [g \in Handles |-> IF g = h THEN 1 ELSE 0]
<1>1. UNCHANGED <<loopVars, running, requestState, bufferState, cb>>
  BY DEF DropHandle
<1>2. RequestCount' /\ RequestInv' /\ BufferCount'
  BY <1>1, FrameRequests, FrameBuffer
<1>3. /\ hRefs \in [Handles -> Nat] /\ hVar \in [Handles -> BOOLEAN]
      /\ hVar[h] = TRUE /\ hVar' = [hVar EXCEPT ![h] = FALSE]
      /\ UnrefHandles(released) /\ UserCode
  BY DEF Inv, TypeOK, DropHandle
<1>4. \A g \in Handles : /\ hRefs[g] = Bit(hVar[g]) + Uses(g) + Guarded(g)
                         /\ Uses(g) \in Nat /\ Guarded(g) \in Nat
  BY CountTypes DEF Inv, Counts, HandleCount
<1>5. released \in [Handles -> Nat] /\ \A g \in Handles : released[g] <= hRefs[g]
  <2>1. Bit(hVar[h]) = 1
    BY <1>3 DEF Bit
  <2>2. hRefs[h] >= 1
    BY <2>1, <1>4
  <2> QED
    BY <2>2, <1>3
<1>6. \A g \in Handles : released[g] = Bit(hVar[g]) - Bit(hVar'[g])
  BY <1>3 DEF Bit
<1> HIDE DEF released
<1>7. /\ loopRefs' \in Nat
      /\ loop' \in {"alive", "dying", "freed"}
      /\ hRefs' \in [Handles -> Nat]
      /\ \A g \in Handles : hRefs'[g] = hRefs[g] - released[g]
      /\ handle' \in [Handles -> {"none", "failed", "open", "closing", "closed"}]
      /\ \A g \in Handles :
            /\ hRefs'[g] > 0 <=> handle'[g] \in {"open", "failed"}
            /\ handle[g] = "open" /\ hRefs'[g] > 0 => handle'[g] = "open"
            /\ handle'[g] \in {"open", "closing"} => handle[g] \in {"open", "closing"}
      /\ LoopCount'
      /\ loop' = "alive" <=> loopRefs' > 0
      /\ loop' = "freed" => loop = "freed"
      /\ loop = "dying" => loop' = "dying"
  BY <1>1, <1>3, <1>5, UnrefHandlesFacts
<1>8. TypeOK'
  BY <1>1, <1>3, <1>7 DEF Inv, TypeOK, requestState, bufferState
<1>9. \A g \in Handles : /\ Uses(g)' = Uses(g) /\ Guarded(g)' = Guarded(g)
                         /\ InUse(g)' <=> InUse(g)
  BY <1>1 DEF Uses, Guarded, InUse, requestState
<1>10. \A g \in Handles : hRefs'[g] = Bit(hVar'[g]) + Uses(g) + Guarded(g)
  <2> TAKE g \in Handles
  <2>1. Bit(hVar[g]) \in Nat /\ Bit(hVar'[g]) \in Nat
    BY BitType
  <2> QED
    BY <1>4, <1>6, <1>7, <2>1
<1>11. HandleCount'
  BY <1>9, <1>10 DEF HandleCount
<1>12. HandleInv'
  <2> SUFFICES ASSUME NEW g \in Handles
               PROVE  InUse(g) => handle'[g] = "open"
    BY <1>7, <1>9 DEF HandleInv
  <2>1. Bit(hVar'[g]) \in Nat /\ (InUse(g) => Uses(g) + Guarded(g) > 0)
    BY BitType, InUseCounts
  <2>2. InUse(g) => hRefs'[g] > 0 /\ handle[g] = "open"
    BY <1>4, <1>10, <2>1 DEF Inv, HandleInv
  <2> QED
    BY <1>7, <2>2
<1>13. LoopInv'
  <2>1. InCallback' = InCallback /\ (Unfinished(handle)' => Unfinished(handle))
    BY <1>1, <1>7 DEF InCallback, NoCallback, Unfinished, requestState
  <2> QED
    BY <1>1, <1>7, <2>1 DEF Inv, LoopInv
<1> QED
  BY <1>2, <1>7, <1>8, <1>11, <1>12, <1>13 DEF Inv, Counts

-----------------------------------------------------------------------------
(* Requests and the buffer.                                                *)

\* A variable of a request goes.
LEMMA DropRequestInv ==
    ASSUME Inv, NEW r \in Requests, DropRequest(r)
    PROVE  Inv'
<1>1. UNCHANGED <<loopState, running, handleState, class, pending, target, sent,
                  bufferState, cb>>
  BY DEF DropRequest
<1>2. /\ rRefs \in [Requests -> Nat] /\ rVar \in [Requests -> BOOLEAN] /\ rVar[r] = TRUE
      /\ rRefs' = [rRefs EXCEPT ![r] = rRefs[r] - 1] /\ rVar' = [rVar EXCEPT ![r] = FALSE]
  BY DEF Inv, TypeOK, DropRequest
<1>3. \A q \in Requests : /\ Bit(rVar[q]) \in Nat /\ Bit(pending[q]) \in Nat
                          /\ Bit(cb.req = q) \in Nat /\ Bit(rVar'[q]) \in Nat
  BY BitType
<1>4. \A q \in Requests : rRefs[q] = Bit(rVar[q]) + Bit(pending[q]) + 2 * Bit(cb.req = q)
  BY DEF Inv, Counts, RequestCount
<1>5. \A q \in Requests : rRefs'[q] = rRefs[q] + Bit(rVar'[q]) - Bit(rVar[q])
  BY <1>2 DEF Bit
<1>6. \A q \in Requests : rRefs'[q] = Bit(rVar'[q]) + Bit(pending[q]) + 2 * Bit(cb.req = q)
  <2> TAKE q \in Requests
  <2>1. /\ rRefs[q] = Bit(rVar[q]) + Bit(pending[q]) + 2 * Bit(cb.req = q)
        /\ rRefs'[q] = rRefs[q] + Bit(rVar'[q]) - Bit(rVar[q])
    BY <1>4, <1>5
  <2>2. Bit(rVar[q]) \in Nat /\ Bit(pending[q]) \in Nat /\ Bit(cb.req = q) \in Nat
           /\ Bit(rVar'[q]) \in Nat
    BY <1>3
  <2> QED
    BY <2>1, <2>2
<1>7. RequestCount'
  BY <1>1, <1>6 DEF RequestCount
<1>8. TypeOK'
  <2>1. \A q \in Requests : rRefs'[q] \in Nat
    BY <1>3, <1>6
  <2> QED
    BY <1>1, <1>2, <2>1 DEF Inv, TypeOK, loopState, handleState, bufferState
<1>9. LoopCount' /\ HandleCount' /\ BufferCount' /\ HandleInv' /\ LoopInv' /\ RequestInv'
  BY <1>1 DEF Inv, Counts, LoopCount, HandleCount, BufferCount, HandleInv, LoopInv, RequestInv,
     Booked, Uses, Guarded, InUse, Buffered, Pending, InCallback, NoCallback, Unfinished,
     loopState, handleState, bufferState
<1> QED
  BY <1>7, <1>8, <1>9 DEF Inv, Counts

\* The variable of the buffer goes.
LEMMA DropBufferInv == ASSUME Inv, DropBuffer PROVE Inv'
<1>1. UNCHANGED <<loopState, running, handleState, requestState, cb>>
  BY DEF DropBuffer
<1>2. bRefs \in Nat /\ bVar = TRUE /\ bRefs' = bRefs - 1 /\ bVar' = FALSE
  BY DEF Inv, TypeOK, DropBuffer
<1>3. HandleCount' /\ HandleInv' /\ RequestCount' /\ RequestInv'
  BY <1>1, FrameHandles, FrameRequests
<1>4. LoopCount' /\ LoopInv'
  BY <1>1 DEF Inv, Counts, LoopCount, LoopInv, Booked, InCallback, NoCallback, Unfinished,
     loopState, handleState, requestState
<1>5. BufferCount' /\ bRefs' \in Nat
  <2> DEFINE called == Bit(InCallback /\ class[cb.req] \in WithBuffer)
  <2>1. Buffered' = Buffered /\ called' = called
    BY <1>1 DEF Buffered, Pending, InCallback, NoCallback, requestState
  <2>2. called \in Nat /\ Cardinality(Buffered) \in Nat /\ Bit(bVar) = 1 /\ Bit(bVar') = 0
    BY <1>2, BitType, CountTypes DEF Bit
  <2>3. bRefs = Bit(bVar) + Cardinality(Buffered) + called
    BY DEF Inv, Counts, BufferCount
  <2>4. BufferCount' <=> bRefs' = Bit(bVar') + Cardinality(Buffered') + called'
    BY DEF BufferCount
  <2> HIDE DEF called
  <2> QED
    BY <1>2, <2>1, <2>2, <2>3, <2>4
<1>6. TypeOK'
  BY <1>1, <1>2, <1>5 DEF Inv, TypeOK, loopState, handleState, requestState
<1> QED
  BY <1>3, <1>4, <1>5, <1>6 DEF Inv, Counts

\* A request that is not pending gets handles, or a pending one loses them.
LEMMA UsesUpdate ==
    ASSUME NEW r \in Requests, NEW h,
           \A q \in Requests \ {r} : target'[q] = target[q] /\ sent'[q] = sent[q]
    PROVE  Uses(h)' = Uses(h) + (IF target'[r] = h THEN 1 ELSE 0)
                              + (IF sent'[r] = h THEN 1 ELSE 0)
                              - (IF target[r] = h THEN 1 ELSE 0)
                              - (IF sent[r] = h THEN 1 ELSE 0)
<1>1. /\ Targeting(h)' \ {r} = Targeting(h) \ {r}
      /\ r \in Targeting(h) <=> target[r] = h
      /\ r \in Targeting(h)' <=> target'[r] = h
  BY DEF Targeting
<1>2. /\ Sending(h)' \ {r} = Sending(h) \ {r}
      /\ r \in Sending(h) <=> sent[r] = h
      /\ r \in Sending(h)' <=> sent'[r] = h
  BY DEF Sending
<1>3. Cardinality(Targeting(h)') = Cardinality(Targeting(h)) + Bit(r \in Targeting(h)')
                                     - Bit(r \in Targeting(h))
  BY <1>1, Finite, DifferInOne
<1>4. Cardinality(Sending(h)') = Cardinality(Sending(h)) + Bit(r \in Sending(h)')
                                   - Bit(r \in Sending(h))
  BY <1>2, Finite, DifferInOne
<1>5. /\ Bit(r \in Targeting(h)) = (IF target[r] = h THEN 1 ELSE 0)
      /\ Bit(r \in Targeting(h)') = (IF target'[r] = h THEN 1 ELSE 0)
      /\ Bit(r \in Sending(h)) = (IF sent[r] = h THEN 1 ELSE 0)
      /\ Bit(r \in Sending(h)') = (IF sent'[r] = h THEN 1 ELSE 0)
  BY <1>1, <1>2 DEF Bit
<1>6. Uses(h)' = Cardinality(Targeting(h)') + Cardinality(Sending(h)')
  BY DEF Uses, Targeting, Sending
<1> QED
  BY <1>3, <1>4, <1>5, <1>6, CountTypes

\* Requests with a buffer become pending, or stop being so, one at a time.
LEMMA BufferedUpdate ==
    ASSUME TypeOK, NEW r \in Requests, NEW b \in BOOLEAN, pending[r] = ~b,
           pending' = [pending EXCEPT ![r] = b], class' = class
    PROVE  Cardinality(Buffered)' = Cardinality(Buffered)
                + (IF class[r] \in WithBuffer THEN IF b THEN 1 ELSE -1 ELSE 0)
<1>1. /\ Buffered' \ {r} = Buffered \ {r}
      /\ r \in Buffered <=> (~b /\ class[r] \in WithBuffer)
      /\ r \in Buffered' <=> (b /\ class[r] \in WithBuffer)
  BY DEF Buffered, Pending, TypeOK
<1>2. Cardinality(Buffered') = Cardinality(Buffered) + Bit(r \in Buffered') - Bit(r \in Buffered)
  BY <1>1, Finite, DifferInOne
<1> QED
  BY <1>1, <1>2, CountTypes DEF Bit

\* The counter of a request follows its pending state.
LEMMA RequestUpdate ==
    ASSUME Inv, NEW r \in Requests, ~pending[r],
           rRefs' = [rRefs EXCEPT ![r] = @ + 1], pending' = [pending EXCEPT ![r] = TRUE],
           UNCHANGED <<rVar, cb>>
    PROVE  RequestCount' /\ rRefs' \in [Requests -> Nat]
<1>1. rRefs \in [Requests -> Nat] /\ pending \in [Requests -> BOOLEAN]
  BY DEF Inv, TypeOK
<1>2. \A q \in Requests : rRefs'[q] = rRefs[q] + Bit(pending'[q]) - Bit(pending[q])
  BY <1>1 DEF Bit
<1>3. \A q \in Requests : rRefs'[q] = Bit(rVar[q]) + Bit(pending'[q]) + 2 * Bit(cb.req = q)
  <2> TAKE q \in Requests
  <2>1. /\ rRefs[q] = Bit(rVar[q]) + Bit(pending[q]) + 2 * Bit(cb.req = q)
        /\ rRefs'[q] = rRefs[q] + Bit(pending'[q]) - Bit(pending[q])
    BY <1>2 DEF Inv, Counts, RequestCount
  <2> QED
    BY <2>1 DEF Bit
<1>4. RequestCount'
  BY <1>3 DEF RequestCount
<1> QED
  BY <1>1, <1>4

\* A request on a handle keeps its instance, its handles and its buffer.
LEMMA RunOnHandleInv ==
    ASSUME Inv, NEW c \in OnHandle, NEW r \in Requests, NEW h \in Handles,
           NEW s \in Handles \union {NoHandle}, RunOnHandle(c, r, h, s)
    PROVE  Inv'
<1>1. UNCHANGED <<loopState, running, handle, hVar, class, rVar, bVar, cb>>
  BY DEF RunOnHandle
<1>2. /\ ~pending[r] /\ class[r] = c /\ handle[h] = "open"
      /\ s # NoHandle => handle[s] = "open"
      /\ pending' = [pending EXCEPT ![r] = TRUE]
      /\ target' = [target EXCEPT ![r] = h] /\ sent' = [sent EXCEPT ![r] = s]
      /\ rRefs' = [rRefs EXCEPT ![r] = @ + 1]
      /\ target[r] = NoHandle /\ sent[r] = NoHandle
  BY DEF RunOnHandle, Runnable, Usable, Inv, RequestInv
<1>3. TypeOK
  BY DEF Inv
<1>4. RequestCount' /\ rRefs' \in [Requests -> Nat]
  BY <1>1, <1>2, RequestUpdate
<1>5. \A g \in Handles :
         /\ hRefs'[g] = hRefs[g] + (IF h = g THEN 1 ELSE 0) + (IF s = g THEN 1 ELSE 0)
         /\ Guarded(g)' = Guarded(g)
         /\ Uses(g)' = Uses(g) + (IF h = g THEN 1 ELSE 0) + (IF s = g THEN 1 ELSE 0)
  <2> TAKE g \in Handles
  <2>1. hRefs'[g] = hRefs[g] + (IF h = g THEN 1 ELSE 0) + (IF s = g THEN 1 ELSE 0)
    BY DEF RunOnHandle
  <2>2. Uses(g)' = Uses(g) + (IF target'[r] = g THEN 1 ELSE 0) + (IF sent'[r] = g THEN 1 ELSE 0)
                           - (IF target[r] = g THEN 1 ELSE 0) - (IF sent[r] = g THEN 1 ELSE 0)
    <3>1. \A q \in Requests \ {r} : target'[q] = target[q] /\ sent'[q] = sent[q]
      BY <1>2, <1>3 DEF TypeOK
    <3> QED
      BY <3>1, UsesUpdate
  <2>4. target'[r] = h /\ sent'[r] = s
    BY <1>2, <1>3 DEF TypeOK
  <2>3. target[r] # g /\ sent[r] # g
    BY <1>2, LoopLifetimeAssumption
  <2> QED
    BY <1>1, <2>1, <2>2, <2>3, <2>4, CountTypes DEF Guarded
<1>6. HandleCount' /\ hRefs' \in [Handles -> Nat]
  <2>1. \A g \in Handles : hRefs'[g] = Bit(hVar[g]) + Uses(g)' + Guarded(g)'
    <3> TAKE g \in Handles
    <3>1. Bit(hVar[g]) \in Nat /\ Uses(g) \in Nat /\ Guarded(g) \in Nat
      BY BitType, CountTypes
    <3>2. hRefs[g] = Bit(hVar[g]) + Uses(g) + Guarded(g)
      BY DEF Inv, Counts, HandleCount
    <3> QED
      BY <1>5, <3>1, <3>2
  <2>2. HandleCount'
    BY <1>1, <2>1 DEF HandleCount
  <2>3. hRefs' \in [Handles -> Nat]
    BY <1>3 DEF RunOnHandle, TypeOK
  <2> QED
    BY <2>2, <2>3
<1>7. HandleInv'
  <2> SUFFICES ASSUME NEW g \in Handles
               PROVE  /\ hRefs'[g] > 0 <=> handle[g] \in {"open", "failed"}
                      /\ InUse(g)' => handle[g] = "open"
    BY <1>1 DEF HandleInv
  <2>1. InUse(g)' => InUse(g) \/ g = h \/ g = s
    BY <1>1, <1>2, <1>3 DEF InUse, TypeOK
  <2>2. InUse(g)' => handle[g] = "open"
    BY <1>2, <2>1, LoopLifetimeAssumption DEF Inv, HandleInv
  <2>3. hRefs[g] > 0 <=> handle[g] \in {"open", "failed"}
    BY DEF Inv, HandleInv
  <2>4. hRefs[g] \in Nat /\ (g # h /\ g # s => hRefs'[g] = hRefs[g])
           /\ (g = h \/ g = s => hRefs'[g] > hRefs[g] /\ handle[g] = "open")
    <3>1. hRefs[g] \in Nat
      BY <1>3 DEF TypeOK
    <3>2. g = s => handle[g] = "open"
      BY <1>2, LoopLifetimeAssumption
    <3> QED
      BY <1>2, <1>5, <3>1, <3>2
  <2> QED
    BY <2>2, <2>3, <2>4, <1>6
<1>8. LoopCount'
  BY <1>1 DEF Inv, Counts, LoopCount, Booked, loopState
<1>9. LoopInv'
  <2>1. InCallback' = InCallback
    BY <1>1 DEF InCallback, NoCallback
  <2>2. loop # "freed"
    BY <1>2 DEF Inv, LoopInv, Unfinished
  <2> QED
    BY <1>1, <2>1, <2>2 DEF Inv, LoopInv, loopState
<1>10. RequestInv'
  BY <1>1, <1>2, <1>3 DEF Inv, RequestInv, TypeOK, InCallback, NoCallback
<1>11. BufferCount' /\ bRefs' \in Nat
  <2> DEFINE called == Bit(InCallback /\ class[cb.req] \in WithBuffer)
  <2>1. Cardinality(Buffered)' = Cardinality(Buffered) + (IF c \in WithBuffer THEN 1 ELSE 0)
    <3>1. pending[r] = ~TRUE
      BY <1>2, <1>3 DEF TypeOK
    <3> QED
      BY <1>1, <1>2, <1>3, <3>1, BufferedUpdate
  <2>2. called' = called /\ called \in Nat /\ Bit(bVar) \in Nat /\ Cardinality(Buffered) \in Nat
    BY <1>1, BitType, CountTypes DEF InCallback, NoCallback
  <2>3. bRefs' = bRefs + (IF c \in WithBuffer THEN 1 ELSE 0) /\ bRefs \in Nat
    BY <1>3 DEF RunOnHandle, TypeOK
  <2>4. bRefs = Bit(bVar) + Cardinality(Buffered) + called
    BY DEF Inv, Counts, BufferCount
  <2>5. BufferCount' <=> bRefs' = Bit(bVar) + Cardinality(Buffered)' + called'
    BY <1>1 DEF BufferCount
  <2> HIDE DEF called
  <2> QED
    BY <2>1, <2>2, <2>3, <2>4, <2>5
<1>12. TypeOK'
  BY <1>1, <1>2, <1>3, <1>4, <1>6, <1>11 DEF TypeOK, loopState
<1> QED
  BY <1>4, <1>6, <1>7, <1>8, <1>9, <1>10, <1>11, <1>12 DEF Inv, Counts

\* A request on the loop keeps its instance only; the user has the loop.
LEMMA RunOnLoopInv ==
    ASSUME Inv, NEW c \in OnLoop, NEW r \in Requests, RunOnLoop(c, r)
    PROVE  Inv'
<1>1. UNCHANGED <<loopState, running, handleState, class, rVar, target, sent, bufferState, cb>>
  BY DEF RunOnLoop
<1>2. /\ ~pending[r] /\ class[r] = c /\ loopVars > 0
      /\ pending' = [pending EXCEPT ![r] = TRUE] /\ rRefs' = [rRefs EXCEPT ![r] = @ + 1]
  BY DEF RunOnLoop, Runnable
<1>3. TypeOK
  BY DEF Inv
<1>4. RequestCount' /\ rRefs' \in [Requests -> Nat]
  BY <1>1, <1>2, RequestUpdate
<1>5. TypeOK'
  BY <1>1, <1>2, <1>3, <1>4 DEF TypeOK, loopState, handleState, bufferState
<1>6. BufferCount'
  <2>1. Buffered' = Buffered
    BY <1>1, <1>2, <1>3 DEF Buffered, Pending, TypeOK, WithBuffer, OnLoop
  <2> QED
    BY <1>1, <2>1 DEF Inv, Counts, BufferCount, bufferState, InCallback, NoCallback
<1>7. LoopCount' /\ HandleCount' /\ HandleInv'
  BY <1>1 DEF Inv, Counts, LoopCount, HandleCount, HandleInv, Booked, Uses, Guarded, InUse,
     loopState, handleState
<1>8. LoopInv'
  <2>1. loop = "alive"
    BY <1>2, <1>3, CountTypes DEF Inv, LoopInv, Counts, LoopCount, TypeOK
  <2> QED
    BY <1>1, <2>1 DEF Inv, LoopInv, InCallback, NoCallback, loopState
<1>9. RequestInv'
  BY <1>1, <1>2, <1>3 DEF Inv, RequestInv, TypeOK, InCallback, NoCallback
<1> QED
  BY <1>4, <1>5, <1>6, <1>7, <1>8, <1>9 DEF Inv, Counts

\* The guards of the callback adopt the references of run().
LEMMA CalledInv ==
    ASSUME Inv, NEW c, NEW r \in Requests, Called(c, r)
    PROVE  Inv'
<1>1. UNCHANGED <<loopState, running, handleState, class, rVar, bufferState>>
  BY DEF Called
<1>2. /\ pending[r] = TRUE /\ cb = NoCallback /\ (running \/ loop = "dying")
      /\ pending' = [pending EXCEPT ![r] = FALSE] /\ rRefs' = [rRefs EXCEPT ![r] = @ + 1]
      /\ cb' = [req |-> r, target |-> target[r], sent |-> sent[r]]
      /\ target' = [target EXCEPT ![r] = NoHandle] /\ sent' = [sent EXCEPT ![r] = NoHandle]
  BY DEF Called, Processing, InCallback, Inv, TypeOK
<1>3. TypeOK /\ r # NoRequest
  BY LoopLifetimeAssumption DEF Inv
<1>4. ~InCallback /\ InCallback' /\ cb'.req = r /\ cb.req = NoRequest
  BY <1>2, <1>3 DEF InCallback, NoCallback
<1>5. RequestCount'
  <2> SUFFICES ASSUME NEW q \in Requests
               PROVE  rRefs'[q] = Bit(rVar[q]) + Bit(pending'[q]) + 2 * Bit(cb'.req = q)
    BY <1>1 DEF RequestCount
  <2>1. rRefs[q] = Bit(rVar[q]) + Bit(pending[q]) + 2 * Bit(cb.req = q) /\ rRefs[q] \in Nat
    BY <1>3 DEF Inv, Counts, RequestCount, TypeOK
  <2>2. cb.req # q
    BY <1>4, LoopLifetimeAssumption
  <2>3. CASE q = r
    <3>1. rRefs'[q] = rRefs[q] + 1 /\ pending'[q] = FALSE /\ pending[q] = TRUE /\ cb'.req = q
      BY <1>2, <1>3, <1>4, <2>3 DEF TypeOK
    <3> QED
      BY <2>1, <2>2, <3>1 DEF Bit
  <2>4. CASE q # r
    <3>1. rRefs'[q] = rRefs[q] /\ pending'[q] = pending[q] /\ cb'.req # q
      BY <1>2, <1>3, <1>4, <2>4 DEF TypeOK
    <3> QED
      BY <2>1, <2>2, <3>1 DEF Bit
  <2> QED
    BY <2>3, <2>4
<1>6. TypeOK'
  <2>1. rRefs' \in [Requests -> Nat] /\ pending' \in [Requests -> BOOLEAN]
    BY <1>2, <1>3 DEF TypeOK
  <2>2. /\ target' \in [Requests -> Handles \union {NoHandle}]
        /\ sent' \in [Requests -> Handles \union {NoHandle}]
        /\ target[r] \in Handles \union {NoHandle} /\ sent[r] \in Handles \union {NoHandle}
    BY <1>2, <1>3 DEF TypeOK
  <2>3. cb' \in [req : Requests \union {NoRequest}, target : Handles \union {NoHandle},
                 sent : Handles \union {NoHandle}]
    BY <1>2, <2>2
  <2> QED
    BY <1>1, <1>3, <2>1, <2>2, <2>3 DEF TypeOK, loopState, handleState, bufferState
<1>7. HandleCount'
  <2> SUFFICES ASSUME NEW g \in Handles
               PROVE  hRefs[g] = Bit(hVar[g]) + Uses(g)' + Guarded(g)'
    BY <1>1 DEF HandleCount, handleState
  <2>1. Uses(g)' = Uses(g) + (IF target'[r] = g THEN 1 ELSE 0) + (IF sent'[r] = g THEN 1 ELSE 0)
                           - (IF target[r] = g THEN 1 ELSE 0) - (IF sent[r] = g THEN 1 ELSE 0)
    <3>1. \A q \in Requests \ {r} : target'[q] = target[q] /\ sent'[q] = sent[q]
      BY <1>2, <1>3 DEF TypeOK
    <3> QED
      BY <3>1, UsesUpdate
  <2>2. target'[r] # g /\ sent'[r] # g
    BY <1>2, <1>3, LoopLifetimeAssumption DEF TypeOK
  <2>3. Guarded(g) = 0
    BY <1>2, LoopLifetimeAssumption DEF Guarded, NoCallback
  <2>4. Guarded(g)' = (IF target[r] = g THEN 1 ELSE 0) + (IF sent[r] = g THEN 1 ELSE 0)
    BY <1>2 DEF Guarded
  <2>5. hRefs[g] = Bit(hVar[g]) + Uses(g) + Guarded(g) /\ Bit(hVar[g]) \in Nat /\ Uses(g) \in Nat
    BY BitType, CountTypes DEF Inv, Counts, HandleCount
  <2> QED
    BY <2>1, <2>2, <2>3, <2>4, <2>5
<1>8. HandleInv'
  <2>1. \A g \in Handles : InUse(g)' => InUse(g)
    BY <1>2, <1>3, LoopLifetimeAssumption DEF InUse, TypeOK
  <2> QED
    BY <1>1, <2>1 DEF Inv, HandleInv, handleState
<1>9. LoopCount'
  BY <1>1 DEF Inv, Counts, LoopCount, Booked, loopState, handleState
<1>10. LoopInv'
  <2>1. Unfinished(handle)' => Unfinished(handle)
    BY <1>1, <1>2, <1>3 DEF Unfinished, handleState, TypeOK
  <2> QED
    BY <1>1, <1>2, <2>1 DEF Inv, LoopInv, loopState
<1>11. RequestInv'
  BY <1>2, <1>3, <1>4 DEF Inv, RequestInv, TypeOK
<1>12. BufferCount'
  <2>1. Cardinality(Buffered)' = Cardinality(Buffered)
            + (IF class[r] \in WithBuffer THEN IF FALSE THEN 1 ELSE -1 ELSE 0)
    BY <1>1, <1>2, <1>3, BufferedUpdate
  <2>2. bRefs = Bit(bVar) + Cardinality(Buffered) + Bit(InCallback /\ class[cb.req] \in WithBuffer)
    BY DEF Inv, Counts, BufferCount
  <2>3. Bit(InCallback /\ class[cb.req] \in WithBuffer) = 0
    BY <1>4 DEF Bit
  <2>4. Bit(InCallback /\ class[cb.req] \in WithBuffer)' = (IF class[r] \in WithBuffer THEN 1 ELSE 0)
    BY <1>1, <1>4 DEF Bit
  <2>5. bRefs' = bRefs /\ Bit(bVar)' = Bit(bVar) /\ Bit(bVar) \in Nat /\ Cardinality(Buffered) \in Nat
    BY <1>1, BitType, CountTypes DEF bufferState, Bit
  <2> QED
    BY <2>1, <2>2, <2>3, <2>4, <2>5 DEF BufferCount
<1> QED
  BY <1>5, <1>6, <1>7, <1>8, <1>9, <1>10, <1>11, <1>12 DEF Inv, Counts

\* The callback's parameter and guards go, and with them perhaps handles.
LEMMA ReturnInv == ASSUME Inv, Return PROVE Inv'
<1> DEFINE released == [h \in Handles |-> Guarded(h)]
<1>1. UNCHANGED <<loopVars, running, hVar, class, pending, rVar, target, sent, bVar>>
  BY DEF Return
<1>2. /\ InCallback /\ cb' = NoCallback /\ UnrefHandles(released)
      /\ rRefs' = [rRefs EXCEPT ![cb.req] = @ - 2]
      /\ bRefs' = IF class[cb.req] \in WithBuffer THEN bRefs - 1 ELSE bRefs
  BY DEF Return
<1>3. TypeOK /\ cb.req \in Requests /\ cb.req # NoRequest
  BY <1>2, LoopLifetimeAssumption DEF Inv, RequestInv, TypeOK
<1>4. ~InCallback' /\ cb'.req = NoRequest /\ cb'.target = NoHandle /\ cb'.sent = NoHandle
  BY <1>2 DEF InCallback, NoCallback
<1>5. \A h \in Handles : /\ hRefs[h] = Bit(hVar[h]) + Uses(h) + Guarded(h)
                         /\ Bit(hVar[h]) \in Nat /\ Uses(h) \in Nat /\ Guarded(h) \in Nat
  BY BitType, CountTypes DEF Inv, Counts, HandleCount
<1>6. released \in [Handles -> Nat] /\ \A h \in Handles : released[h] = Guarded(h)
  BY <1>5
<1> HIDE DEF released
<1>7. \A h \in Handles : released[h] <= hRefs[h]
  BY <1>5, <1>6
<1>8. /\ loopRefs' \in Nat
      /\ loop' \in {"alive", "dying", "freed"}
      /\ hRefs' \in [Handles -> Nat]
      /\ \A h \in Handles : hRefs'[h] = hRefs[h] - released[h]
      /\ handle' \in [Handles -> {"none", "failed", "open", "closing", "closed"}]
      /\ \A h \in Handles :
            /\ hRefs'[h] > 0 <=> handle'[h] \in {"open", "failed"}
            /\ handle[h] = "open" /\ hRefs'[h] > 0 => handle'[h] = "open"
            /\ handle'[h] \in {"open", "closing"} => handle[h] \in {"open", "closing"}
      /\ LoopCount'
      /\ loop' = "alive" <=> loopRefs' > 0
      /\ loop' = "freed" => loop = "freed"
      /\ loop = "dying" => loop' = "dying"
  BY <1>1, <1>2, <1>6, <1>7, UnrefHandlesFacts
<1>9. \A h \in Handles : Uses(h)' = Uses(h) /\ Guarded(h)' = 0
  BY <1>1, <1>4, LoopLifetimeAssumption DEF Uses, Guarded
<1>10. \A h \in Handles : hRefs'[h] = Bit(hVar[h]) + Uses(h)
  BY <1>5, <1>6, <1>8
<1>11. HandleCount'
  BY <1>1, <1>5, <1>9, <1>10 DEF HandleCount
<1>12. HandleInv'
  <2> SUFFICES ASSUME NEW h \in Handles, InUse(h)'
               PROVE  handle'[h] = "open"
    BY <1>8 DEF HandleInv
  <2>1. \E r \in Requests : target[r] = h \/ sent[r] = h
    BY <1>1, <1>4, LoopLifetimeAssumption DEF InUse
  <2>2. Targeting(h) # {} \/ Sending(h) # {}
    BY <2>1 DEF Targeting, Sending
  <2>3. Uses(h) > 0
    BY <2>2, Finite, FS_EmptySet, CountTypes
  <2>4. handle[h] = "open" /\ hRefs'[h] > 0
    BY <1>5, <1>10, <2>1, <2>3 DEF Inv, HandleInv, InUse
  <2> QED
    BY <1>8, <2>4
<1>13. LoopInv'
  <2>1. Unfinished(handle)' => Unfinished(handle)
    BY <1>1, <1>8 DEF Unfinished
  <2> QED
    BY <1>1, <1>4, <1>8, <2>1 DEF Inv, LoopInv
<1>14. RequestInv'
  BY <1>1, <1>4 DEF Inv, RequestInv
<1>15. RequestCount' /\ rRefs' \in [Requests -> Nat]
  <2>1. \A q \in Requests :
           rRefs[q] = Bit(rVar[q]) + Bit(pending[q]) + 2 * Bit(cb.req = q) /\ rRefs[q] \in Nat
    BY <1>3 DEF Inv, Counts, RequestCount, TypeOK
  <2>2. \A q \in Requests :
           rRefs'[q] = Bit(rVar[q]) + Bit(pending[q]) + 2 * Bit(cb'.req = q) /\ rRefs'[q] \in Nat
    <3> TAKE q \in Requests
    <3>1. cb'.req # q
      BY <1>4, LoopLifetimeAssumption
    <3>2. rRefs'[q] = IF cb.req = q THEN rRefs[q] - 2 ELSE rRefs[q]
      BY <1>2, <1>3 DEF TypeOK
    <3> QED
      BY <2>1, <3>1, <3>2 DEF Bit
  <2> QED
    BY <1>1, <1>2, <1>3, <2>2 DEF RequestCount, TypeOK
<1>16. BufferCount' /\ bRefs' \in Nat
  <2>1. bRefs = Bit(bVar) + Cardinality(Buffered) + Bit(InCallback /\ class[cb.req] \in WithBuffer)
    BY DEF Inv, Counts, BufferCount
  <2>2. Bit(InCallback /\ class[cb.req] \in WithBuffer) = (IF class[cb.req] \in WithBuffer THEN 1 ELSE 0)
    BY <1>2 DEF Bit
  <2>3. Bit(InCallback /\ class[cb.req] \in WithBuffer)' = 0
    BY <1>4 DEF Bit
  <2>4. Bit(bVar)' = Bit(bVar) /\ Bit(bVar) \in Nat /\ Cardinality(Buffered) \in Nat
           /\ Cardinality(Buffered)' = Cardinality(Buffered)
    BY <1>1, BitType, CountTypes DEF Bit, Buffered, Pending
  <2> QED
    BY <1>2, <2>1, <2>2, <2>3, <2>4 DEF BufferCount
<1>17. TypeOK'
  <2>1. cb' \in [req : Requests \union {NoRequest}, target : Handles \union {NoHandle},
                 sent : Handles \union {NoHandle}]
    BY <1>2 DEF NoCallback
  <2> QED
    BY <1>1, <1>3, <1>8, <1>15, <1>16, <2>1 DEF TypeOK
<1> QED
  BY <1>8, <1>11, <1>12, <1>13, <1>14, <1>15, <1>16, <1>17 DEF Inv, Counts

-----------------------------------------------------------------------------
(* Theorems.                                                               *)

\* Every step preserves the invariant.
LEMMA NextInv == Inv /\ [Next]_vars => Inv'
<1> SUFFICES ASSUME Inv, [Next]_vars PROVE Inv'
  OBVIOUS
<1>1. CASE LoopAction
  BY <1>1, LoopActionInv
<1>2. CASE \E h \in Handles : HandleAction(h)
  BY <1>2, CreateHandleInv, DropHandleInv, WalkInv, FinishCloseInv DEF HandleAction
<1>3. ASSUME NEW r \in Requests, RequestRun(r) PROVE Inv'
  <2>1. CASE \E h \in Handles :
                ConnectRun(r, h) \/ WriteRun(r, h) \/ ShutdownRun(r, h) \/ UdpSendRun(r, h)
    BY <2>1, RunOnHandleInv DEF ConnectRun, WriteRun, ShutdownRun, UdpSendRun, OnHandle
  <2>2. CASE \E h, s \in Handles : Write2Run(r, h, s)
    BY <2>2, RunOnHandleInv DEF Write2Run, OnHandle
  <2>3. CASE WorkRun(r) \/ GetAddrInfoRun(r) \/ GetNameInfoRun(r)
    BY <2>3, RunOnLoopInv DEF WorkRun, GetAddrInfoRun, GetNameInfoRun, OnLoop
  <2> QED
    BY <1>3, <2>1, <2>2, <2>3 DEF RequestRun
<1>4. ASSUME NEW r \in Requests, RequestCb(r) PROVE Inv'
  BY <1>4, CalledInv DEF RequestCb, ConnectCb, WriteCb, Write2Cb, ShutdownCb, UdpSendCb, WorkCb,
     GetAddrInfoCb, GetNameInfoCb
<1>5. CASE Return \/ DropBuffer \/ \E r \in Requests : DropRequest(r)
  BY <1>5, ReturnInv, DropBufferInv, DropRequestInv
<1>6. CASE UNCHANGED vars
  <2>1. UNCHANGED <<loopState, running, handleState, requestState, bufferState, cb>>
    BY <1>6 DEF vars
  <2>2. HandleCount' /\ HandleInv' /\ RequestCount' /\ RequestInv' /\ BufferCount'
    BY <2>1, FrameHandles, FrameRequests, FrameBuffer
  <2>3. LoopCount' /\ LoopInv' /\ TypeOK'
    BY <2>1 DEF Inv, Counts, LoopCount, LoopInv, TypeOK, Booked, InCallback, NoCallback,
       Unfinished, loopState, handleState, requestState, bufferState
  <2> QED
    BY <2>2, <2>3 DEF Inv, Counts
<1> QED
  BY <1>1, <1>2, <1>3, <1>4, <1>5, <1>6 DEF Next

\* loops, handles, requests and buffers: the inductive invariant holds.
THEOREM Invariance == Spec => []Inv
<1> QED
  BY InitInv, NextInv, PTL DEF Spec

\* No counter of a loop, a handle, a request or a buffer drops below zero.
THEOREM TypeCorrect == Spec => []TypeOK
<1>1. Inv => TypeOK
  BY DEF Inv
<1> QED
  BY <1>1, Invariance, PTL

\* ref()/unref(): nothing is leaked or released twice, however many handles
\* and requests there are and in whatever order they are run, called back,
\* run again in their callbacks and dropped.
THEOREM ReferencesCorrect == Spec => []ReferencesAccounted
<1>1. Inv => ReferencesAccounted
  BY DEF Inv, Counts, LoopCount, HandleCount, RequestCount, BufferCount, Buffered,
     ReferencesAccounted
<1> QED
  BY <1>1, Invariance, PTL

\* loop::~instance() never finds an open handle: its logic_error is never
\* thrown for handles that uvcc manages.
THEOREM DestroyFindsNoHandle == Spec => []NoOpenHandleAtDestroy
<1>1. Inv => NoOpenHandleAtDestroy
  <2> SUFFICES ASSUME Inv, loop # "alive" PROVE Booked = {}
    BY DEF NoOpenHandleAtDestroy
  <2>1. loopRefs = 0
    BY DEF Inv, LoopInv, TypeOK
  <2>2. Cardinality(Booked) = 0
    BY <2>1, CountTypes DEF Inv, TypeOK, Counts, LoopCount
  <2> QED
    BY <2>2, Finite, FS_EmptySet
<1> QED
  BY <1>1, Invariance, PTL

\* connect, write, write2, shutdown, udp_send: until its callback has
\* returned a request finds its handles open and their loop alive.
THEOREM RequestsKeepLoop == Spec => []HandleRequestsKeepLoop
<1>1. Inv => HandleRequestsKeepLoop
  <2> SUFFICES ASSUME Inv, NEW h \in Handles, Uses(h) + Guarded(h) > 0
               PROVE  loop = "alive" /\ loopRefs > 0 /\ handle[h] = "open"
    BY DEF HandleRequestsKeepLoop
  <2>1. handle[h] = "open"
    BY InUseCounts DEF Inv, HandleInv
  <2>2. Booked # {}
    BY <2>1 DEF Booked
  <2>3. Cardinality(Booked) > 0
    BY <2>2, Finite, FS_EmptySet, CountTypes
  <2>4. loopRefs > 0
    BY <2>3, CountTypes DEF Inv, TypeOK, Counts, LoopCount
  <2> QED
    BY <2>1, <2>4 DEF Inv, LoopInv
<1> QED
  BY <1>1, Invariance, PTL

\* loop::~instance(): the memory of the loop is given back after everything
\* that libuv had of it.
THEOREM LoopGoesLast == Spec => []NothingLeftAtFree
<1>1. Inv => NothingLeftAtFree
  <2> SUFFICES ASSUME Inv, loop = "freed" PROVE ~running /\ ~Unfinished(handle)
    BY DEF NothingLeftAtFree
  <2>1. loopRefs = 0
    BY DEF Inv, LoopInv, TypeOK
  <2>2. loopVars = 0
    BY <2>1, CountTypes DEF Inv, TypeOK, Counts, LoopCount
  <2> QED
    BY <2>2 DEF Inv, LoopInv
<1> QED
  BY <1>1, Invariance, PTL

\* A request of a class that runs on a handle has one until it is called back.
TargetInv ==
    /\ \A r \in Requests : pending[r] /\ class[r] \in OnHandle => target[r] \in Handles
    /\ InCallback /\ class[cb.req] \in OnHandle => cb.target \in Handles

\* connect, write, write2, shutdown, udp_send: the loop is valid in the
\* callback.
HandleCallbackHasLoop ==
    InCallback /\ class[cb.req] \in OnHandle => loop = "alive" /\ loopRefs > 0

\* run() sets the handle, the callback takes it over.
LEMMA TargetStep == Inv /\ TargetInv /\ [Next]_vars => TargetInv'
<1> SUFFICES ASSUME Inv, TargetInv, [Next]_vars PROVE TargetInv'
  OBVIOUS
<1>0. /\ pending \in [Requests -> BOOLEAN] /\ target \in [Requests -> Handles \union {NoHandle}]
      /\ class \in [Requests -> Classes]
  BY DEF Inv, TypeOK
<1>1. ASSUME UNCHANGED <<class, pending, target>>, cb' = cb \/ cb' = NoCallback PROVE TargetInv'
  BY <1>1 DEF TargetInv, InCallback, NoCallback
<1>2. CASE LoopAction \/ UNCHANGED vars
  BY <1>1, <1>2 DEF LoopAction, CopyLoop, DropLoop, Run, RunReturns, FinishDestroy, vars,
     requestState
<1>3. CASE Return \/ DropBuffer \/ \E r \in Requests : DropRequest(r)
  BY <1>1, <1>3 DEF Return, DropBuffer, DropRequest, requestState
<1>4. CASE \E h \in Handles : HandleAction(h)
  BY <1>1, <1>4 DEF HandleAction, CreateHandle, DropHandle, Walk, FinishClose, requestState
<1>5. ASSUME NEW r \in Requests, NEW c \in OnLoop, RunOnLoop(c, r) PROVE TargetInv'
  BY <1>0, <1>5 DEF RunOnLoop, Runnable, TargetInv, InCallback, NoCallback, OnLoop, OnHandle
<1>6. ASSUME NEW r \in Requests, NEW c, NEW h \in Handles, NEW s, RunOnHandle(c, r, h, s)
      PROVE  TargetInv'
  BY <1>0, <1>6 DEF RunOnHandle, TargetInv, InCallback, NoCallback
<1>7. ASSUME NEW r \in Requests, NEW c, Called(c, r) PROVE TargetInv'
  BY <1>0, <1>7 DEF Called, TargetInv, InCallback, NoCallback
<1>8. CASE \E r \in Requests : RequestRun(r)
  BY <1>5, <1>6, <1>8 DEF RequestRun, ConnectRun, WriteRun, ShutdownRun, UdpSendRun, Write2Run,
     WorkRun, GetAddrInfoRun, GetNameInfoRun, OnLoop
<1>9. CASE \E r \in Requests : RequestCb(r)
  BY <1>7, <1>9 DEF RequestCb, ConnectCb, WriteCb, Write2Cb, ShutdownCb, UdpSendCb, WorkCb,
     GetAddrInfoCb, GetNameInfoCb
<1> QED
  BY <1>2, <1>3, <1>4, <1>8, <1>9 DEF Next

\* The guarantee that work, getaddrinfo and getnameinfo do not give (see
\* LoopValidInCallback) is given by every request on a handle: within its
\* callback the loop is valid, whatever the user code drops there.
THEOREM HandleCallbackHasLoopCorrect == Spec => []HandleCallbackHasLoop
<1>1. Init => TargetInv
  BY DEF Init, TargetInv, InCallback
<1>2. Inv /\ TargetInv /\ HandleRequestsKeepLoop => HandleCallbackHasLoop
  <2> SUFFICES ASSUME Inv, TargetInv, HandleRequestsKeepLoop, InCallback,
                      class[cb.req] \in OnHandle
               PROVE  loop = "alive" /\ loopRefs > 0
    BY DEF HandleCallbackHasLoop
  <2>1. cb.target \in Handles
    BY DEF TargetInv
  <2>2. Uses(cb.target) + Guarded(cb.target) > 0
    BY InUseCounts DEF InUse
  <2> QED
    BY <2>1, <2>2 DEF HandleRequestsKeepLoop
<1> QED
  BY <1>1, <1>2, TargetStep, Invariance, RequestsKeepLoop, PTL DEF Spec

-----------------------------------------------------------------------------
(* The end of the loop.                                                    *)

\* Once nothing refers to the loop, nothing refers to it again, libuv gets
\* no further request and no further handle of it, and what has been given
\* back stays so.
OnlyShrinks ==
    loopRefs = 0 =>
        /\ loopRefs' = 0
        /\ Pending' \subseteq Pending
        /\ \A h \in Handles : handle'[h] \in {"open", "closing"} => handle[h] = "closing"
        /\ loop = "freed" => loop' = "freed"

DestructionShrinks == [][OnlyShrinks]_vars

\* Without references there are no variables and no open handles, and so
\* nothing that a request could run on.
LEMMA NothingToUse ==
    ASSUME Inv, loopRefs = 0
    PROVE  loopVars = 0 /\ \A h \in Handles : handle[h] # "open"
<1>1. IsFiniteSet(Booked) /\ Cardinality(Booked) \in Nat
  BY LoopLifetimeAssumption, FS_Subset, FS_CardinalityType DEF Booked
<1>2. loopVars = 0 /\ Cardinality(Booked) = 0
  BY <1>1 DEF Inv, TypeOK, Counts, LoopCount
<1>3. Booked = {}
  BY <1>1, <1>2, FS_EmptySet
<1> QED
  BY <1>2, <1>3 DEF Booked

\* The handles released in the premortal run are ones that never were on the
\* loop.
LEMMA ReleaseShrinks ==
    ASSUME Inv, loopRefs = 0, NEW released, UnrefHandles(released), Pending' = Pending
    PROVE  OnlyShrinks
<1> DEFINE gone == {h \in Handles : released[h] > 0 /\ hRefs[h] = released[h]}
           booked == {h \in gone : handle[h] = "open"}
           handles == [h \in Handles |-> IF h \in booked THEN "closing"
                                         ELSE IF h \in gone THEN "closed"
                                         ELSE handle[h]]
<1>1. booked = {}
  BY NothingToUse
<1>2. Cardinality(booked) = 0
  BY <1>1, FS_EmptySet
<1>3. handle' = handles /\ UnrefLoop(Cardinality(booked), handles)
  BY DEF UnrefHandles
<1>4. \A h \in Handles : handle'[h] = "closed" \/ handle'[h] = handle[h]
  BY <1>1, <1>3
<1>5. loopRefs' = 0 /\ loop' = loop
  BY <1>2, <1>3 DEF UnrefLoop
<1> QED
  BY <1>4, <1>5, NothingToUse DEF OnlyShrinks

\* loop::unref(), loop::~instance(): the premortal run ends, because the
\* callbacks that are called in it cannot give it more to do: the safety half
\* of LoopReclaimed.
THEOREM DestructionOnlyShrinks == Spec => DestructionShrinks
<1>1. Inv /\ [Next]_vars => [OnlyShrinks]_vars
  <2> SUFFICES ASSUME Inv, Next, loopRefs = 0 PROVE OnlyShrinks
    BY DEF OnlyShrinks
  <2>0. loopVars = 0 /\ \A h \in Handles : handle[h] # "open"
    BY NothingToUse
  <2>1. ASSUME loopRefs' = loopRefs, handle' = handle, pending' = pending,
               loop' = loop \/ (loop # "freed" /\ loop' = "freed")
        PROVE  OnlyShrinks
    BY <2>0, <2>1 DEF OnlyShrinks, Pending
  <2>2. CASE LoopAction
    <3>1. RunReturns \/ FinishDestroy
      BY <2>0, <2>2 DEF LoopAction, CopyLoop, DropLoop, Run
    <3> QED
      BY <2>1, <3>1 DEF RunReturns, FinishDestroy, loopState, handleState, requestState
  <2>3. ASSUME NEW h \in Handles, HandleAction(h) PROVE OnlyShrinks
    <3>1. CASE DropHandle(h)
      <4>1. Pending' = Pending
        BY <3>1 DEF DropHandle, requestState, Pending
      <4> QED
        BY <3>1, <4>1, ReleaseShrinks DEF DropHandle
    <3>2. CASE FinishClose(h)
      <4>1. \A g \in Handles : handle'[g] = "closed" \/ handle'[g] = handle[g]
        BY <3>2 DEF FinishClose, Inv, TypeOK
      <4>2. loopRefs' = loopRefs /\ loop' = loop /\ pending' = pending
        BY <3>2 DEF FinishClose, loopState, requestState
      <4> QED
        BY <2>0, <4>1, <4>2 DEF OnlyShrinks, Pending
    <3>3. ~CreateHandle(h) /\ ~Walk(h)
      BY <2>0 DEF CreateHandle, Walk
    <3> QED
      BY <2>3, <3>1, <3>2, <3>3 DEF HandleAction
  <2>4. ASSUME NEW r \in Requests, RequestRun(r) PROVE FALSE
    BY <2>0, <2>4 DEF RequestRun, ConnectRun, WriteRun, ShutdownRun, UdpSendRun, Write2Run,
       WorkRun, GetAddrInfoRun, GetNameInfoRun, RunOnHandle, RunOnLoop, Usable
  <2>5. ASSUME NEW r \in Requests, RequestCb(r) PROVE OnlyShrinks
    <3>1. PICK c : Called(c, r)
      BY <2>5 DEF RequestCb, ConnectCb, WriteCb, Write2Cb, ShutdownCb, UdpSendCb, WorkCb,
         GetAddrInfoCb, GetNameInfoCb
    <3>2. loopRefs' = loopRefs /\ loop' = loop /\ handle' = handle
      BY <3>1 DEF Called, loopState, handleState
    <3>3. Pending' \subseteq Pending
      BY <3>1 DEF Called, Pending, Inv, TypeOK
    <3> QED
      BY <2>0, <3>2, <3>3 DEF OnlyShrinks
  <2>6. CASE (\E r \in Requests : DropRequest(r)) \/ DropBuffer
    BY <2>1, <2>6 DEF DropRequest, DropBuffer, loopState, handleState, requestState
  <2>7. CASE Return
    <3>1. Pending' = Pending
      BY <2>7 DEF Return, Pending
    <3> QED
      BY <2>7, <3>1, ReleaseShrinks DEF Return
  <2> QED
    BY <2>2, <2>3, <2>4, <2>5, <2>6, <2>7 DEF Next
<1> QED
  BY <1>1, Invariance, PTL DEF Spec, DestructionShrinks
=============================================================================
