------------------------- MODULE FileRequests_proofs -------------------------
(***************************************************************************)
(* Proofs about FileRequests, for any number of files and requests, any    *)
(* sizes of writes and any assignment of classes: files, requests and the  *)
(* buffer are counted exactly, the write queue size is the number of bytes *)
(* that wait, a file is there as long as a request uses it, and is_closing *)
(* tells when its descriptor is not its own any more.                      *)
(***************************************************************************)
EXTENDS FileRequests, FiniteSetTheorems, TLAPS

-----------------------------------------------------------------------------
(* The inductive invariant.                                                *)

Props == [file : AnyFile, out : AnyFile, size : Nat]
Buffered == {r \in Pending : class[r] \in WithBuffer}

\* The references that requests and callbacks have to f.
Uses(f) == CallbackRefs(f) + Cardinality(RunningOn(f)) + Cardinality(SendingTo(f))

\* Files are counted, and one that is still being opened is used by nobody:
\* that is what FileValidWhileUsed needs besides the counters.
FileInv(f) ==
    /\ fRefs[f] = Bit(fVar[f]) + Bit(reading[f]) + Bit(file[f] = "opening") + Uses(f)
    /\ fRefs[f] = 0 <=> file[f] \in {"none", "deleted"}
    /\ file[f] = "opening" => Uses(f) = 0

RequestCounts ==
    \A r \in Requests : rRefs[r] = Bit(rVar[r]) + Bit(pending[r]) + 2 * Bit(cb.req = r)

CalledWithBuffer == cb.req # NoRequest /\ class[cb.req] \in WithBuffer

BufferCount == bRefs = Bit(bVar) + Cardinality(Buffered) + Bit(CalledWithBuffer)

Inv ==
    /\ TypeOK
    /\ \A f \in Files : FileInv(f)
    /\ RequestCounts
    /\ BufferCount
    /\ WriteQueueExact

-----------------------------------------------------------------------------
(* Counting.                                                               *)

\* What is counted for a condition.
LEMMA BitType == \A b : Bit(b) \in {0, 1}
BY DEF Bit

\* Two sets that differ in one element at most differ by one at most.
LEMMA DifferInOne ==
    ASSUME NEW S, IsFiniteSet(S), NEW T, NEW x, T \ {x} = S \ {x}
    PROVE  /\ Cardinality(S) \in Nat
           /\ Cardinality(T) = Cardinality(S) + (IF x \in T THEN 1 ELSE 0)
                                              - (IF x \in S THEN 1 ELSE 0)
<1> DEFINE R == S \ {x}
<1>1. IsFiniteSet(R)
  BY FS_Subset, R \in SUBSET S
<1>2. Cardinality(R) \in Nat /\ Cardinality(R \union {x}) = Cardinality(R) + 1
  BY <1>1, FS_CardinalityType, FS_AddElement
<1>3. S = (IF x \in S THEN R \union {x} ELSE R)
  OBVIOUS
<1>4. T = (IF x \in T THEN R \union {x} ELSE R)
  OBVIOUS
<1> HIDE DEF R
<1>5. Cardinality(S) = Cardinality(R) + (IF x \in S THEN 1 ELSE 0)
  BY <1>2, <1>3
<1>6. Cardinality(T) = Cardinality(R) + (IF x \in T THEN 1 ELSE 0)
  <2>1. CASE x \in T
    <3>1. T = R \union {x}
      BY <1>4, <2>1
    <3> QED
      BY <1>2, <2>1, <3>1
  <2>2. CASE x \notin T
    <3>1. T = R
      BY <1>4, <2>2
    <3> QED
      BY <1>2, <2>2, <3>1
  <2> QED
    BY <2>1, <2>2
<1> DEFINE n == Cardinality(R)
           inT == IF x \in T THEN 1 ELSE 0
           inS == IF x \in S THEN 1 ELSE 0
<1>7. n \in Nat /\ inT \in {0, 1} /\ inS \in {0, 1}
  BY <1>2
<1>8. Cardinality(S) = n + inS /\ Cardinality(T) = n + inT
  BY <1>5, <1>6
<1> HIDE DEF n, inT, inS
<1>9. Cardinality(S) \in Nat /\ Cardinality(T) = Cardinality(S) + inT - inS
  BY <1>7, <1>8
<1> QED
  BY <1>9 DEF inT, inS

\* The sets of requests that are counted are finite.
LEMMA CountTypes ==
    /\ IsFiniteSet(Buffered) /\ Cardinality(Buffered) \in Nat
    /\ \A f : /\ IsFiniteSet(RunningOn(f)) /\ IsFiniteSet(SendingTo(f))
              /\ Cardinality(RunningOn(f)) \in Nat /\ Cardinality(SendingTo(f)) \in Nat
              /\ CallbackRefs(f) \in Nat /\ Uses(f) \in Nat
<1>1. Buffered \in SUBSET Requests
  BY DEF Buffered, Pending
<1>2. \A f : RunningOn(f) \in SUBSET Requests /\ SendingTo(f) \in SUBSET Requests
  BY DEF RunningOn, SendingTo, Pending
<1>3. IsFiniteSet(Buffered) /\ \A f : IsFiniteSet(RunningOn(f)) /\ IsFiniteSet(SendingTo(f))
  BY <1>1, <1>2, FS_Subset, FileRequestsAssumption
<1>4. \A f : CallbackRefs(f) \in Nat
  BY DEF CallbackRefs, Times
<1> QED
  BY <1>3, <1>4, FS_CardinalityType DEF Uses

-----------------------------------------------------------------------------
(* Bytes that wait to be written.                                          *)

Rows(R, w) == UNION {{r} \X (1 .. w[r]) : r \in R}

\* Finitely many requests have finitely many bytes to write.
LEMMA RowsFinite ==
    ASSUME NEW R, IsFiniteSet(R), NEW w \in [R -> Nat]
    PROVE  IsFiniteSet(Rows(R, w))
<1> DEFINE row == [r \in R |-> {r} \X (1 .. w[r])]
           T == {{r} \X (1 .. w[r]) : r \in R}
<1>1. row \in Surjection(R, T)
  <2>1. \A r \in R : row[r] = {r} \X (1 .. w[r]) /\ row[r] \in T
    OBVIOUS
  <2>2. row \in [R -> T]
    BY <2>1
  <2>3. \A t \in T : \E r \in R : row[r] = t
    BY <2>1
  <2> HIDE DEF row, T
  <2> QED
    BY <2>2, <2>3 DEF Surjection
<1>2. IsFiniteSet(T)
  BY <1>1, FS_Surjection
<1>3. ASSUME NEW r \in R PROVE IsFiniteSet({r} \X (1 .. w[r]))
  <2>1. 1 \in Int /\ w[r] \in Int
    OBVIOUS
  <2>2. IsFiniteSet(1 .. w[r]) /\ IsFiniteSet({r})
    BY <2>1, FS_Interval, FS_Singleton
  <2> QED
    BY <2>2, FS_Product
<1>4. \A t \in T : IsFiniteSet(t)
  BY <1>3
<1>5. Rows(R, w) = UNION T
  BY DEF Rows
<1> HIDE DEF T
<1> QED
  BY <1>2, <1>4, <1>5, FS_UNION

\* The bytes of one request are as many as it has to write.
LEMMA RowSize ==
    ASSUME NEW r, NEW n \in Nat
    PROVE  IsFiniteSet({r} \X (1 .. n)) /\ Cardinality({r} \X (1 .. n)) = n
<1>1. IsFiniteSet(1 .. n) /\ Cardinality(1 .. n) = n
  BY FS_Interval
<1>2. IsFiniteSet({r}) /\ Cardinality({r}) = 1
  BY FS_Singleton
<1>3. IsFiniteSet({r} \X (1 .. n)) /\ Cardinality({r} \X (1 .. n)) = Cardinality({r}) * Cardinality(1 .. n)
  BY <1>1, <1>2, FS_Product
<1> QED
  BY <1>1, <1>2, <1>3

\* The bytes are those of one request and those of the others.
LEMMA RowsSplit ==
    ASSUME NEW r \in Requests, NEW w \in [Requests -> Nat]
    PROVE  /\ IsFiniteSet(Rows(Requests \ {r}, w))
           /\ Cardinality(Rows(Requests \ {r}, w)) \in Nat
           /\ Cardinality(Rows(Requests, w)) = Cardinality(Rows(Requests \ {r}, w)) + w[r]
<1> DEFINE rest == Rows(Requests \ {r}, w)
           own == {r} \X (1 .. w[r])
<1>1. Rows(Requests, w) = rest \union own
  BY DEF Rows
<1>2. rest \cap own = {}
  BY DEF Rows
<1>3. IsFiniteSet(rest)
  <2> DEFINE R == Requests \ {r}
             v == [q \in R |-> w[q]]
  <2>1. IsFiniteSet(R)
    BY FS_Subset, R \in SUBSET Requests, FileRequestsAssumption
  <2>2. rest = Rows(R, v)
    BY DEF Rows
  <2>3. v \in [R -> Nat]
    OBVIOUS
  <2> HIDE DEF R, v, rest
  <2> QED
    BY <2>1, <2>2, <2>3, RowsFinite
<1>4. IsFiniteSet(own) /\ Cardinality(own) = w[r]
  BY RowSize
<1> HIDE DEF rest, own
<1>5. Cardinality(rest \union own) = Cardinality(rest) + Cardinality(own) - Cardinality(rest \cap own)
  BY <1>3, <1>4, FS_Union
<1>6. Cardinality(rest) \in Nat /\ Cardinality(rest \cap own) = 0
  BY <1>2, <1>3, FS_CardinalityType, FS_EmptySet
<1>7. Cardinality(Rows(Requests, w)) = Cardinality(rest) + w[r]
  BY <1>1, <1>4, <1>5, <1>6
<1> QED
  BY <1>3, <1>6, <1>7 DEF rest

Sizing(f) == [r \in Requests |-> WaitingSize(r, f)]

PropsOK == props \in [Requests -> Props]

SizingOK ==
    \A f : /\ Sizing(f) \in [Requests -> Nat]
           /\ BytesWaiting(f) = Rows(Requests, Sizing(f))

\* The sizes are natural numbers.
LEMMA SizingType == PropsOK => SizingOK
<1> SUFFICES ASSUME PropsOK, NEW f
             PROVE  /\ Sizing(f) \in [Requests -> Nat]
                    /\ BytesWaiting(f) = Rows(Requests, Sizing(f))
  BY DEF SizingOK
<1>1. \A r \in Requests : WaitingSize(r, f) \in Nat
  <2> TAKE r \in Requests
  <2>1. props[r].size \in Nat
    BY DEF PropsOK, Props
  <2>2. CASE pending[r] /\ class[r] = "write"
    BY <2>1, <2>2 DEF WaitingSize, Times
  <2>3. CASE pending[r] /\ class[r] = "sendfile"
    BY <2>1, <2>3 DEF WaitingSize, Times
  <2>4. CASE ~(pending[r] /\ class[r] = "write") /\ ~(pending[r] /\ class[r] = "sendfile")
    BY <2>4 DEF WaitingSize
  <2> QED
    BY <2>2, <2>3, <2>4
<1>2. BytesWaiting(f) = Rows(Requests, Sizing(f))
  BY DEF BytesWaiting, Rows, Sizing
<1> QED
  BY <1>1, <1>2 DEF Sizing

\* One request begins or ends to wait.
LEMMA BytesUpdate ==
    ASSUME PropsOK, PropsOK', NEW f, NEW r \in Requests,
           \A q \in Requests \ {r} : WaitingSize(q, f)' = WaitingSize(q, f)
    PROVE  /\ Cardinality(BytesWaiting(f)) \in Nat
           /\ Cardinality(BytesWaiting(f))' \in Nat
           /\ Cardinality(BytesWaiting(f))' =
                 Cardinality(BytesWaiting(f)) + WaitingSize(r, f)' - WaitingSize(r, f)
           /\ WaitingSize(r, f) \in Nat /\ WaitingSize(r, f)' \in Nat
<1> DEFINE w == Sizing(f)
           x == Sizing(f)'
<1>1. w \in [Requests -> Nat] /\ BytesWaiting(f) = Rows(Requests, w)
  BY SizingType DEF SizingOK
<1>2. x \in [Requests -> Nat] /\ BytesWaiting(f)' = Rows(Requests, x)
  <2>1. SizingOK'
    BY SizingType, PTL
  <2> QED
    BY <2>1 DEF SizingOK, Rows
<1>3. /\ w[r] = WaitingSize(r, f) /\ x[r] = WaitingSize(r, f)'
      /\ \A q \in Requests \ {r} : w[q] = x[q]
  BY DEF Sizing
<1> HIDE DEF w, x
<1>4. Rows(Requests \ {r}, w) = Rows(Requests \ {r}, x)
  BY <1>3 DEF Rows
<1>5. /\ Cardinality(Rows(Requests \ {r}, w)) \in Nat
      /\ Cardinality(Rows(Requests, w)) = Cardinality(Rows(Requests \ {r}, w)) + w[r]
      /\ Cardinality(Rows(Requests, x)) = Cardinality(Rows(Requests \ {r}, x)) + x[r]
  BY <1>1, <1>2, RowsSplit
<1>6. w[r] \in Nat /\ x[r] \in Nat
  BY <1>1, <1>2
<1>7. Cardinality(BytesWaiting(f))' = Cardinality(Rows(Requests, x))
  BY <1>2
<1> QED
  BY <1>1, <1>3, <1>4, <1>5, <1>6, <1>7
-----------------------------------------------------------------------------
(* What steps leave alone.                                                 *)

\* What is known of a file before a step.
LEMMA Known ==
    ASSUME Inv, NEW f \in Files
    PROVE  /\ fRefs[f] \in Nat /\ Uses(f) \in Nat
           /\ fVar[f] \in BOOLEAN /\ reading[f] \in BOOLEAN
           /\ Bit(fVar[f]) \in {0, 1} /\ Bit(reading[f]) \in {0, 1}
           /\ Bit(file[f] = "opening") = (IF file[f] = "opening" THEN 1 ELSE 0)
           /\ fRefs[f] = Bit(fVar[f]) + Bit(reading[f]) + Bit(file[f] = "opening") + Uses(f)
           /\ fRefs[f] = 0 <=> file[f] \in {"none", "deleted"}
           /\ file[f] = "opening" => Uses(f) = 0
           /\ f # NoFile
<1>1. fRefs[f] \in Nat /\ fVar[f] \in BOOLEAN /\ reading[f] \in BOOLEAN
  BY DEF Inv, TypeOK
<1>2. FileInv(f)
  BY DEF Inv
<1>3. Bit(file[f] = "opening") = (IF file[f] = "opening" THEN 1 ELSE 0)
  BY DEF Bit
<1> QED
  BY <1>1, <1>2, <1>3, BitType, CountTypes, FileRequestsAssumption DEF FileInv

\* The requests are left alone.
LEMMA FrameRequests ==
    ASSUME Inv, UNCHANGED <<class, pending, props>>
    PROVE  /\ Cardinality(Buffered)' = Cardinality(Buffered)
           /\ \A f : /\ Cardinality(RunningOn(f))' = Cardinality(RunningOn(f))
                     /\ Cardinality(SendingTo(f))' = Cardinality(SendingTo(f))
                     /\ Cardinality(BytesWaiting(f))' = Cardinality(BytesWaiting(f))
<1>1. Buffered' = Buffered
  BY DEF Buffered, Pending
<1>2. \A f : RunningOn(f)' = RunningOn(f) /\ SendingTo(f)' = SendingTo(f)
  BY DEF RunningOn, SendingTo, Pending
<1>3. \A f : BytesWaiting(f)' = BytesWaiting(f)
  BY DEF BytesWaiting, WaitingSize
<1> QED
  BY <1>1, <1>2, <1>3

\* Requests and callback are left alone.
LEMMA FrameUses ==
    ASSUME Inv, UNCHANGED <<class, pending, props, cb>>
    PROVE  \A f : Uses(f)' = Uses(f)
BY FrameRequests DEF Uses, CallbackRefs

\* The counters of requests and buffer, too.
LEMMA FrameCounts ==
    ASSUME Inv, UNCHANGED <<requestState, bufferState, cb>>
    PROVE  RequestCounts' /\ BufferCount'
<1>1. UNCHANGED <<class, pending, props, rRefs, rVar, bRefs, bVar, cb>>
  BY DEF requestState, bufferState
<1>2. Cardinality(Buffered)' = Cardinality(Buffered)
  BY <1>1, FrameRequests
<1>3. RequestCounts'
  BY <1>1 DEF Inv, RequestCounts
<1>4. CalledWithBuffer' = CalledWithBuffer
  BY <1>1 DEF CalledWithBuffer
<1>5. BufferCount'
  BY <1>1, <1>2, <1>4 DEF Inv, BufferCount
<1> QED
  BY <1>3, <1>5

\* The write queues, where no request changes.
LEMMA FrameQueue ==
    ASSUME Inv, UNCHANGED <<class, pending, props, queue>>
    PROVE  WriteQueueExact'
BY FrameRequests DEF Inv, WriteQueueExact

\* A step that concerns files only.
LEMMA FileStep ==
    ASSUME Inv, UNCHANGED <<queue, requestState, bufferState, cb>>,
           file' \in [Files -> {"none", "opening", "opened", "failed", "deleted"}],
           fd' \in [Files -> {"none", "open", "closed", "zero", "foreign"}],
           isClosing' \in [Files -> BOOLEAN], reading' \in [Files -> BOOLEAN],
           fVar' \in [Files -> BOOLEAN], fRefs' \in [Files -> Nat],
           \A f \in Files :
               /\ fRefs'[f] = Bit(fVar'[f]) + Bit(reading'[f]) + Bit(file'[f] = "opening") + Uses(f)
               /\ fRefs'[f] = 0 <=> file'[f] \in {"none", "deleted"}
               /\ file'[f] = "opening" => Uses(f) = 0
    PROVE  Inv'
<1>1. UNCHANGED <<class, pending, props, rRefs, rVar, bRefs, bVar, cb>>
  BY DEF requestState, bufferState
<1>2. RequestCounts' /\ BufferCount' /\ WriteQueueExact'
  BY <1>1, FrameCounts, FrameQueue
<1>3. TypeOK'
  BY <1>1 DEF Inv, TypeOK
<1>4. \A f \in Files : FileInv(f)'
  BY <1>1, FrameUses DEF FileInv
<1> QED
  BY <1>2, <1>3, <1>4 DEF Inv

-----------------------------------------------------------------------------
(* File handles.                                                           *)

\* The constructors.
LEMMA NewFileInv ==
    ASSUME Inv, NEW f \in Files, NEW state \in {"opening", "opened", "failed"},
           NEW descriptor \in {"none", "open", "zero"}, NEW refs,
           refs = IF state = "opening" THEN 2 ELSE 1,
           NewFile(f, state, descriptor, refs), isClosing' \in [Files -> BOOLEAN]
    PROVE  Inv'
<1>1. /\ file[f] = "none" /\ file' = [file EXCEPT ![f] = state]
      /\ fd' = [fd EXCEPT ![f] = descriptor] /\ fRefs' = [fRefs EXCEPT ![f] = refs]
      /\ fVar' = [fVar EXCEPT ![f] = TRUE]
      /\ UNCHANGED <<queue, reading, requestState, bufferState, cb>>
  BY DEF NewFile
<1>2. TypeOK
  BY DEF Inv
<1>3. /\ file' \in [Files -> {"none", "opening", "opened", "failed", "deleted"}]
      /\ fd' \in [Files -> {"none", "open", "closed", "zero", "foreign"}]
      /\ reading' \in [Files -> BOOLEAN] /\ fRefs' \in [Files -> Nat]
  BY <1>1, <1>2 DEF TypeOK
<1>4. fVar' \in [Files -> BOOLEAN]
  BY <1>1, <1>2 DEF TypeOK
<1>6. ASSUME NEW g \in Files
      PROVE  /\ fRefs'[g] = Bit(fVar'[g]) + Bit(reading'[g]) + Bit(file'[g] = "opening") + Uses(g)
             /\ fRefs'[g] = 0 <=> file'[g] \in {"none", "deleted"}
             /\ file'[g] = "opening" => Uses(g) = 0
  <2>1. CASE g = f
    <3>1. fRefs[g] = 0 /\ Bit(reading[g]) = 0 /\ Uses(g) = 0
      BY <1>1, <2>1, Known
    <3>2. fRefs'[g] = refs /\ fVar'[g] = TRUE /\ reading' = reading /\ file'[g] = state
      BY <1>1, <1>2, <2>1 DEF TypeOK
    <3>3. Bit(fVar'[g]) = 1 /\ Bit(file'[g] = "opening") = (IF state = "opening" THEN 1 ELSE 0)
      BY <3>2 DEF Bit
    <3> QED
      BY <3>1, <3>2, <3>3
  <2>2. CASE g # f
    <3>1. fRefs'[g] = fRefs[g] /\ fVar'[g] = fVar[g] /\ reading' = reading /\ file'[g] = file[g]
      BY <1>1, <1>2, <2>2 DEF TypeOK
    <3> QED
      BY <3>1, Known
  <2> QED
    BY <2>1, <2>2
<1> QED
  BY <1>1, <1>3, <1>4, <1>6, FileStep

\* What close() makes of a descriptor.
LEMMA ClosedType ==
    ASSUME NEW d \in {"none", "open", "closed", "zero", "foreign"}
    PROVE  Closed(d) \in {"none", "open", "closed", "zero", "foreign"}
<1>1. CASE d = "none"
  BY <1>1 DEF Closed
<1>2. CASE d = "open"
  BY <1>2 DEF Closed
<1>3. CASE d # "none" /\ d # "open"
  BY <1>3 DEF Closed
<1> QED
  BY <1>1, <1>2, <1>3

\* unref(): the files that lose their last reference are deleted and closed.
LEMMA UnrefFilesFacts ==
    ASSUME Inv, NEW released \in [Files -> Nat], UnrefFiles(released),
           \A f \in Files : released[f] <= fRefs[f]
    PROVE  /\ fRefs' \in [Files -> Nat]
           /\ file' \in [Files -> {"none", "opening", "opened", "failed", "deleted"}]
           /\ fd' \in [Files -> {"none", "open", "closed", "zero", "foreign"}]
           /\ \A f \in Files :
                 /\ fRefs'[f] = fRefs[f] - released[f]
                 /\ fRefs'[f] = 0 <=> file'[f] \in {"none", "deleted"}
                 /\ fRefs'[f] > 0 \/ released[f] = 0 => file'[f] = file[f]
                 /\ file'[f] \in {file[f], "deleted"}
<1> DEFINE gone == {f \in Files : released[f] > 0 /\ fRefs[f] = released[f]}
<1>1. /\ fRefs' = [f \in Files |-> fRefs[f] - released[f]]
      /\ file' = [f \in Files |-> IF f \in gone THEN "deleted" ELSE file[f]]
      /\ fd' = [f \in Files |-> IF f \in gone THEN Closed(fd[f]) ELSE fd[f]]
  BY DEF UnrefFiles
<1>2. \A f \in Files :
         /\ fRefs[f] \in Nat /\ released[f] \in Nat /\ released[f] <= fRefs[f]
         /\ fd[f] \in {"none", "open", "closed", "zero", "foreign"}
         /\ file[f] \in {"none", "opening", "opened", "failed", "deleted"}
         /\ Closed(fd[f]) \in {"none", "open", "closed", "zero", "foreign"}
         /\ fRefs[f] = 0 <=> file[f] \in {"none", "deleted"}
  <2> TAKE f \in Files
  <2>1. /\ fRefs[f] \in Nat /\ released[f] \in Nat /\ released[f] <= fRefs[f]
        /\ fd[f] \in {"none", "open", "closed", "zero", "foreign"}
        /\ file[f] \in {"none", "opening", "opened", "failed", "deleted"}
    BY DEF Inv, TypeOK
  <2> QED
    BY <2>1, Known, ClosedType
<1>3. \A f \in Files : f \in gone <=> released[f] > 0 /\ fRefs[f] = released[f]
  OBVIOUS
<1> HIDE DEF gone
<1>4. fRefs' \in [Files -> Nat]
  BY <1>1, <1>2
<1>5. file' \in [Files -> {"none", "opening", "opened", "failed", "deleted"}]
  BY <1>1, <1>2
<1>6. fd' \in [Files -> {"none", "open", "closed", "zero", "foreign"}]
  BY <1>1, <1>2
<1>8. ASSUME NEW f \in Files
      PROVE  /\ fRefs'[f] = fRefs[f] - released[f]
             /\ fRefs'[f] = 0 <=> file'[f] \in {"none", "deleted"}
             /\ fRefs'[f] > 0 \/ released[f] = 0 => file'[f] = file[f]
             /\ file'[f] \in {file[f], "deleted"}
  <2>1. /\ fRefs'[f] = fRefs[f] - released[f]
        /\ file'[f] = IF f \in gone THEN "deleted" ELSE file[f]
    BY <1>1
  <2> QED
    BY <1>2, <1>3, <2>1
<1> QED
  BY <1>4, <1>5, <1>6, <1>8

\* A variable of a file goes.
LEMMA DropFileInv ==
    ASSUME Inv, NEW f \in Files, DropFile(f)
    PROVE  Inv'
<1> DEFINE released == [g \in Files |-> Times(g, f, 1)]
<1>1. /\ fVar[f] = TRUE /\ fVar' = [fVar EXCEPT ![f] = FALSE] /\ UnrefFiles(released)
      /\ UNCHANGED <<isClosing, queue, reading, requestState, bufferState, cb>>
  BY DEF DropFile, Inv, TypeOK
<1>2. released \in [Files -> Nat] /\ \A g \in Files : released[g] = IF g = f THEN 1 ELSE 0
  BY DEF Times
<1> HIDE DEF released
<1>3. Bit(fVar[f]) = 1
  BY <1>1 DEF Bit
<1>4. \A g \in Files : released[g] <= fRefs[g]
  BY <1>2, <1>3, Known
<1>5. /\ fRefs' \in [Files -> Nat]
      /\ file' \in [Files -> {"none", "opening", "opened", "failed", "deleted"}]
      /\ fd' \in [Files -> {"none", "open", "closed", "zero", "foreign"}]
      /\ \A g \in Files :
            /\ fRefs'[g] = fRefs[g] - released[g]
            /\ fRefs'[g] = 0 <=> file'[g] \in {"none", "deleted"}
            /\ fRefs'[g] > 0 \/ released[g] = 0 => file'[g] = file[g]
            /\ file'[g] \in {file[g], "deleted"}
  BY <1>1, <1>2, <1>4, UnrefFilesFacts
<1>6. fVar' \in [Files -> BOOLEAN] /\ reading' \in [Files -> BOOLEAN] /\ isClosing' \in [Files -> BOOLEAN]
  BY <1>1 DEF Inv, TypeOK
<1>7. ASSUME NEW g \in Files
      PROVE  /\ fRefs'[g] = Bit(fVar'[g]) + Bit(reading'[g]) + Bit(file'[g] = "opening") + Uses(g)
             /\ file'[g] = "opening" => Uses(g) = 0
  <2>1. Bit(fVar'[g]) = Bit(fVar[g]) - released[g] /\ reading'[g] = reading[g]
    <3>1. CASE g = f
      <4>1. fVar'[g] = FALSE /\ reading' = reading
        BY <1>1, <3>1 DEF Inv, TypeOK
      <4>2. Bit(fVar'[g]) = 0
        BY <4>1 DEF Bit
      <4> QED
        BY <1>2, <1>3, <3>1, <4>1, <4>2
    <3>2. CASE g # f
      <4>1. fVar'[g] = fVar[g] /\ reading' = reading
        BY <1>1, <3>2 DEF Inv, TypeOK
      <4> QED
        BY <1>2, <3>2, <4>1, BitType
    <3> QED
      BY <3>1, <3>2
  <2>2. file[g] = "opening" => fRefs'[g] > 0
    BY <1>2, <1>5, <2>1, Known, BitType
  <2>3. file'[g] = "opening" <=> file[g] = "opening"
    BY <1>5, <2>2
  <2>4. Bit(file'[g] = "opening") = Bit(file[g] = "opening")
    BY <2>3 DEF Bit
  <2>5. released[g] \in Nat
    BY <1>2
  <2> QED
    BY <1>5, <2>1, <2>3, <2>4, <2>5, Known
<1> QED
  BY <1>1, <1>5, <1>6, <1>7, FileStep

\* A file that the user code can use is referred to by a variable or the
\* running callback.
LEMMA UsableFacts ==
    ASSUME Inv, NEW f \in Files, Usable(f)
    PROVE  /\ file[f] \in {"opened", "failed"}
           /\ Bit(fVar[f]) + Uses(f) > 0
<1>1. file[f] \in {"opened", "failed"} /\ (fVar[f] \/ f \in {cb.file, cb.out, cb.opened})
  BY DEF Usable
<1>2. CASE fVar[f]
  <2>1. Bit(fVar[f]) = 1
    BY <1>2 DEF Bit
  <2> QED
    BY <1>1, <2>1, CountTypes
<1>3. CASE f \in {cb.file, cb.out, cb.opened}
  <2>1. CallbackRefs(f) > 0
    BY <1>3 DEF CallbackRefs, Times
  <2>2. Uses(f) > 0 /\ Uses(f) \in Nat
    BY <2>1, CountTypes DEF Uses
  <2>3. Bit(fVar[f]) \in {0, 1}
    BY BitType
  <2> QED
    BY <1>1, <2>2, <2>3
<1> QED
  BY <1>1, <1>2, <1>3

\* read_start() and read_stop().
LEMMA ReadingInv ==
    ASSUME Inv, NEW f \in Files, ReadStart(f) \/ ReadStop(f)
    PROVE  Inv'
<1>1. /\ Usable(f)
      /\ \/ ~reading[f] /\ reading' = [reading EXCEPT ![f] = TRUE]
              /\ fRefs' = [fRefs EXCEPT ![f] = @ + 1]
         \/ reading[f] /\ reading' = [reading EXCEPT ![f] = FALSE]
              /\ fRefs' = [fRefs EXCEPT ![f] = @ - 1]
      /\ UNCHANGED <<file, fd, isClosing, queue, fVar, requestState, bufferState, cb>>
  BY DEF ReadStart, ReadStop
<1>2. TypeOK
  BY DEF Inv
<1>3. /\ reading' \in [Files -> BOOLEAN]
      /\ \A g \in Files : g # f => reading'[g] = reading[g]
      /\ reading'[f] <=> ~reading[f]
  BY <1>1, <1>2 DEF TypeOK
<1>4. ASSUME NEW g \in Files
      PROVE  /\ fRefs'[g] = Bit(fVar'[g]) + Bit(reading'[g]) + Bit(file'[g] = "opening") + Uses(g)
             /\ fRefs'[g] = 0 <=> file'[g] \in {"none", "deleted"}
             /\ file'[g] = "opening" => Uses(g) = 0
             /\ fRefs'[g] \in Nat
  <2>1. CASE g = f
    <3>1. /\ reading[g] => Bit(reading[g]) = 1 /\ Bit(reading'[g]) = 0
          /\ ~reading[g] => Bit(reading[g]) = 0 /\ Bit(reading'[g]) = 1
      BY <1>3, <2>1 DEF Bit
    <3>2. fRefs'[g] = (IF reading[g] THEN fRefs[g] - 1 ELSE fRefs[g] + 1)
      BY <1>1, <1>2, <2>1 DEF TypeOK
    <3>3. fRefs'[g] = fRefs[g] + Bit(reading'[g]) - Bit(reading[g]) /\ Bit(reading'[g]) \in {0, 1}
      BY <3>1, <3>2, Known
    <3>4. Bit(fVar[g]) + Uses(g) > 0 /\ file[g] \in {"opened", "failed"}
      BY <1>1, <2>1, UsableFacts
    <3>5. file' = file /\ fVar' = fVar
      BY <1>1
    <3> QED
      BY <3>3, <3>4, <3>5, Known
  <2>2. CASE g # f
    <3>1. fRefs'[g] = fRefs[g] /\ reading'[g] = reading[g] /\ file' = file /\ fVar' = fVar
      BY <1>1, <1>2, <2>2 DEF TypeOK
    <3> QED
      BY <3>1, Known
  <2> QED
    BY <2>1, <2>2
<1>5. fRefs' \in [Files -> Nat]
  <2>1. fRefs' = [g \in Files |-> fRefs'[g]]
    BY <1>1, <1>2 DEF TypeOK
  <2> QED
    BY <1>4, <2>1
<1>7. /\ file' \in [Files -> {"none", "opening", "opened", "failed", "deleted"}]
      /\ fd' \in [Files -> {"none", "open", "closed", "zero", "foreign"}]
      /\ fVar' \in [Files -> BOOLEAN] /\ isClosing' \in [Files -> BOOLEAN]
  BY <1>1, <1>2 DEF TypeOK
<1> QED
  BY <1>1, <1>3, <1>4, <1>5, <1>7, FileStep
-----------------------------------------------------------------------------
(* Variables of requests and of the buffer.                                *)

\* A step that concerns neither files nor pending requests.
LEMMA OtherStep ==
    ASSUME Inv, UNCHANGED <<fileState, class, pending, props, cb>>,
           rRefs' \in [Requests -> Nat], rVar' \in [Requests -> BOOLEAN],
           bRefs' \in Nat, bVar' \in BOOLEAN, RequestCounts', BufferCount'
    PROVE  Inv'
<1>1. UNCHANGED <<file, fd, isClosing, queue, reading, fRefs, fVar>>
  BY DEF fileState
<1>2. TypeOK'
  BY <1>1 DEF Inv, TypeOK
<1>3. \A f \in Files : FileInv(f)'
  BY <1>1, FrameUses DEF Inv, FileInv
<1>4. WriteQueueExact'
  BY <1>1, FrameQueue
<1> QED
  BY <1>2, <1>3, <1>4 DEF Inv

\* What is known of a request before a step.
LEMMA KnownRequest ==
    ASSUME Inv, NEW r \in Requests
    PROVE  /\ rRefs[r] \in Nat
           /\ rRefs[r] = Bit(rVar[r]) + Bit(pending[r]) + 2 * Bit(cb.req = r)
           /\ Bit(rVar[r]) \in {0, 1} /\ Bit(pending[r]) \in {0, 1} /\ Bit(cb.req = r) \in {0, 1}
           /\ r # NoRequest
<1>1. rRefs[r] \in Nat /\ rRefs[r] = Bit(rVar[r]) + Bit(pending[r]) + 2 * Bit(cb.req = r)
  BY DEF Inv, TypeOK, RequestCounts
<1> QED
  BY <1>1, BitType, FileRequestsAssumption

\* A variable of a request goes.
LEMMA DropRequestInv ==
    ASSUME Inv, NEW r \in Requests, DropRequest(r)
    PROVE  Inv'
<1>1. /\ rVar[r] /\ rVar' = [rVar EXCEPT ![r] = FALSE] /\ rRefs' = [rRefs EXCEPT ![r] = @ - 1]
      /\ UNCHANGED <<fileState, class, pending, props, bRefs, bVar, cb>>
  BY DEF DropRequest, bufferState
<1>2. TypeOK
  BY DEF Inv
<1>3. ASSUME NEW q \in Requests
      PROVE  /\ rRefs'[q] = Bit(rVar'[q]) + Bit(pending'[q]) + 2 * Bit(cb'.req = q)
             /\ rRefs'[q] \in Nat
  <2>1. pending' = pending /\ cb' = cb
    BY <1>1
  <2>2. CASE q = r
    <3>1. rRefs'[q] = rRefs[q] - 1 /\ rVar'[q] = FALSE /\ rVar[q] = TRUE
      BY <1>1, <1>2, <2>2 DEF TypeOK
    <3>2. Bit(rVar[q]) = 1 /\ Bit(rVar'[q]) = 0
      BY <3>1 DEF Bit
    <3>3. rRefs'[q] = rRefs[q] - 1
      BY <3>1
    <3> QED
      BY <2>1, <3>2, <3>3, KnownRequest
  <2>3. CASE q # r
    <3>1. rRefs'[q] = rRefs[q] /\ rVar'[q] = rVar[q]
      BY <1>1, <1>2, <2>3 DEF TypeOK
    <3> QED
      BY <2>1, <3>1, KnownRequest
  <2> QED
    BY <2>2, <2>3
<1>4. RequestCounts'
  BY <1>3 DEF RequestCounts
<1>5. rRefs' \in [Requests -> Nat] /\ rVar' \in [Requests -> BOOLEAN]
  <2>1. rRefs' = [q \in Requests |-> rRefs'[q]]
    BY <1>1, <1>2 DEF TypeOK
  <2> QED
    BY <1>1, <1>2, <1>3, <2>1 DEF TypeOK
<1>6. BufferCount'
  <2>1. CalledWithBuffer' = CalledWithBuffer
    BY <1>1 DEF CalledWithBuffer
  <2> QED
    BY <1>1, <2>1, FrameRequests DEF Inv, BufferCount
<1> QED
  BY <1>1, <1>2, <1>4, <1>5, <1>6, OtherStep DEF TypeOK

\* The variable of the buffer goes.
LEMMA DropBufferInv == ASSUME Inv, DropBuffer PROVE Inv'
<1>1. /\ bVar = TRUE /\ bVar' = FALSE /\ bRefs' = bRefs - 1
      /\ UNCHANGED <<fileState, class, pending, props, rRefs, rVar, cb>>
  BY DEF DropBuffer, requestState, Inv, TypeOK
<1>2. bRefs = Bit(bVar) + Cardinality(Buffered) + Bit(CalledWithBuffer) /\ bRefs \in Nat
  BY DEF Inv, TypeOK, BufferCount
<1>3. Bit(bVar) = 1 /\ Bit(bVar') = 0 /\ Bit(CalledWithBuffer)' = Bit(CalledWithBuffer)
  BY <1>1 DEF Bit, CalledWithBuffer
<1>4. Cardinality(Buffered)' = Cardinality(Buffered) /\ Cardinality(Buffered) \in Nat
         /\ Bit(CalledWithBuffer) \in {0, 1}
  BY <1>1, FrameRequests, CountTypes, BitType
<1>5. bRefs' = bRefs - 1
  BY <1>1
<1>6. bRefs' = Bit(bVar') + Cardinality(Buffered)' + Bit(CalledWithBuffer)' /\ bRefs' \in Nat
  BY <1>2, <1>3, <1>4, <1>5
<1>7. BufferCount'
  BY <1>6 DEF BufferCount
<1>8. RequestCounts' /\ rRefs' \in [Requests -> Nat] /\ rVar' \in [Requests -> BOOLEAN] /\ bVar' \in BOOLEAN
  BY <1>1 DEF Inv, RequestCounts, TypeOK
<1> QED
  BY <1>1, <1>6, <1>7, <1>8, OtherStep

-----------------------------------------------------------------------------
(* Requests begin and end.                                                 *)

\* The properties of request r change, and whether it is pending.
LEMMA RequestUpdate ==
    ASSUME PropsOK, PropsOK', NEW r \in Requests, class' = class,
           \A q \in Requests \ {r} : pending'[q] = pending[q] /\ props'[q] = props[q]
    PROVE  /\ Cardinality(Buffered)' = Cardinality(Buffered)
                + (IF pending'[r] /\ class[r] \in WithBuffer THEN 1 ELSE 0)
                - (IF pending[r] /\ class[r] \in WithBuffer THEN 1 ELSE 0)
           /\ \A f \in Files :
                 /\ Cardinality(RunningOn(f))' = Cardinality(RunningOn(f))
                      + (IF pending'[r] /\ props'[r].file = f THEN 1 ELSE 0)
                      - (IF pending[r] /\ props[r].file = f THEN 1 ELSE 0)
                 /\ Cardinality(SendingTo(f))' = Cardinality(SendingTo(f))
                      + (IF pending'[r] /\ props'[r].out = f THEN 1 ELSE 0)
                      - (IF pending[r] /\ props[r].out = f THEN 1 ELSE 0)
                 /\ Cardinality(BytesWaiting(f))' = Cardinality(BytesWaiting(f))
                      + WaitingSize(r, f)' - WaitingSize(r, f)
                 /\ Cardinality(BytesWaiting(f)) \in Nat /\ Cardinality(BytesWaiting(f))' \in Nat
                 /\ WaitingSize(r, f) \in Nat /\ WaitingSize(r, f)' \in Nat
<1>1. Cardinality(Buffered)' = Cardinality(Buffered)
                + (IF pending'[r] /\ class[r] \in WithBuffer THEN 1 ELSE 0)
                - (IF pending[r] /\ class[r] \in WithBuffer THEN 1 ELSE 0)
  <2>1. /\ Buffered' \ {r} = Buffered \ {r}
        /\ r \in Buffered <=> pending[r] /\ class[r] \in WithBuffer
        /\ r \in Buffered' <=> pending'[r] /\ class[r] \in WithBuffer
    BY DEF Buffered, Pending
  <2>2. Cardinality(Buffered') = Cardinality(Buffered)
            + (IF r \in Buffered' THEN 1 ELSE 0) - (IF r \in Buffered THEN 1 ELSE 0)
    BY <2>1, CountTypes, DifferInOne
  <2> QED
    BY <2>1, <2>2
<1>2. ASSUME NEW f \in Files
      PROVE  /\ Cardinality(RunningOn(f))' = Cardinality(RunningOn(f))
                  + (IF pending'[r] /\ props'[r].file = f THEN 1 ELSE 0)
                  - (IF pending[r] /\ props[r].file = f THEN 1 ELSE 0)
             /\ Cardinality(SendingTo(f))' = Cardinality(SendingTo(f))
                  + (IF pending'[r] /\ props'[r].out = f THEN 1 ELSE 0)
                  - (IF pending[r] /\ props[r].out = f THEN 1 ELSE 0)
  <2>1. /\ RunningOn(f)' \ {r} = RunningOn(f) \ {r}
        /\ r \in RunningOn(f) <=> pending[r] /\ props[r].file = f
        /\ r \in RunningOn(f)' <=> pending'[r] /\ props'[r].file = f
    BY DEF RunningOn, Pending
  <2>2. /\ SendingTo(f)' \ {r} = SendingTo(f) \ {r}
        /\ r \in SendingTo(f) <=> pending[r] /\ props[r].out = f
        /\ r \in SendingTo(f)' <=> pending'[r] /\ props'[r].out = f
    BY DEF SendingTo, Pending
  <2>3. Cardinality(RunningOn(f)') = Cardinality(RunningOn(f))
            + (IF r \in RunningOn(f)' THEN 1 ELSE 0) - (IF r \in RunningOn(f) THEN 1 ELSE 0)
    BY <2>1, CountTypes, DifferInOne
  <2>4. Cardinality(SendingTo(f)') = Cardinality(SendingTo(f))
            + (IF r \in SendingTo(f)' THEN 1 ELSE 0) - (IF r \in SendingTo(f) THEN 1 ELSE 0)
    BY <2>2, CountTypes, DifferInOne
  <2> QED
    BY <2>1, <2>2, <2>3, <2>4
<1>3. ASSUME NEW f \in Files
      PROVE  /\ Cardinality(BytesWaiting(f))' = Cardinality(BytesWaiting(f))
                  + WaitingSize(r, f)' - WaitingSize(r, f)
             /\ Cardinality(BytesWaiting(f)) \in Nat /\ Cardinality(BytesWaiting(f))' \in Nat
             /\ WaitingSize(r, f) \in Nat /\ WaitingSize(r, f)' \in Nat
  <2>1. \A q \in Requests \ {r} : WaitingSize(q, f)' = WaitingSize(q, f)
    BY DEF WaitingSize
  <2> QED
    BY <2>1, BytesUpdate
<1> QED
  BY <1>1, <1>2, <1>3

\* The bytes that a request waits to write, given its class.
SizeOf(c, p, f) ==
    IF c = "write" THEN Times(f, p.file, p.size)
    ELSE IF c = "sendfile" THEN Times(f, p.out, p.size) ELSE 0

\* A request waits while it is pending.
LEMMA WaitingIs ==
    ASSUME NEW r, NEW f
    PROVE  WaitingSize(r, f) = IF pending[r] THEN SizeOf(class[r], props[r], f) ELSE 0
<1>1. CASE pending[r] /\ class[r] = "write"
  BY <1>1 DEF WaitingSize, SizeOf
<1>2. CASE pending[r] /\ class[r] = "sendfile"
  BY <1>2 DEF WaitingSize, SizeOf
<1>3. CASE ~(pending[r] /\ class[r] = "write") /\ ~(pending[r] /\ class[r] = "sendfile")
  BY <1>3 DEF WaitingSize, SizeOf
<1> QED
  BY <1>1, <1>2, <1>3

\* The same after a step.
LEMMA WaitingIsThen ==
    ASSUME NEW r, NEW f
    PROVE  WaitingSize(r, f)' = IF pending'[r] THEN SizeOf(class'[r], props'[r], f) ELSE 0
<1>1. CASE pending'[r] /\ class'[r] = "write"
  BY <1>1 DEF WaitingSize, SizeOf
<1>2. CASE pending'[r] /\ class'[r] = "sendfile"
  BY <1>2 DEF WaitingSize, SizeOf
<1>3. CASE ~(pending'[r] /\ class'[r] = "write") /\ ~(pending'[r] /\ class'[r] = "sendfile")
  BY <1>3 DEF WaitingSize, SizeOf
<1> QED
  BY <1>1, <1>2, <1>3
\* run(): the state of the requests stays of its type.
LEMMA LaunchTypes ==
    ASSUME TypeOK, NEW r \in Requests, NEW p \in Props, Launch(r, p)
    PROVE  /\ class' \in [Requests -> AllClasses] /\ pending' \in [Requests -> BOOLEAN]
           /\ props' \in [Requests -> [file : AnyFile, out : AnyFile, size : Nat]]
           /\ rRefs' \in [Requests -> Nat] /\ rVar' \in [Requests -> BOOLEAN]
           /\ pending'[r] = TRUE /\ props'[r] = p /\ class' = class /\ rVar' = rVar
           /\ rRefs'[r] = rRefs[r] + 1
           /\ \A q \in Requests \ {r} : /\ pending'[q] = pending[q] /\ props'[q] = props[q]
                                        /\ rRefs'[q] = rRefs[q]
BY DEF TypeOK, Launch, Props

\* run(): what a request refers to is counted, and so are its bytes.
LEMMA LaunchFacts ==
    ASSUME Inv, TypeOK', NEW r \in Requests, NEW p \in Props, ~pending[r], Launch(r, p), cb' = cb
    PROVE  /\ RequestCounts'
           /\ Cardinality(Buffered)' = Cardinality(Buffered)
                + (IF class[r] \in WithBuffer THEN 1 ELSE 0)
           /\ \A f \in Files :
                 /\ Uses(f)' = Uses(f) + Times(f, p.file, 1) + Times(f, p.out, 1)
                 /\ Cardinality(BytesWaiting(f))' =
                       Cardinality(BytesWaiting(f)) + SizeOf(class[r], p, f)
                 /\ Cardinality(BytesWaiting(f)) \in Nat /\ Cardinality(BytesWaiting(f))' \in Nat
<1>1. TypeOK /\ PropsOK /\ PropsOK'
  BY DEF Inv, TypeOK, PropsOK, Props
<1>2. /\ pending'[r] = TRUE /\ props'[r] = p /\ class' = class /\ rVar' = rVar
      /\ rRefs'[r] = rRefs[r] + 1
      /\ \A q \in Requests \ {r} : /\ pending'[q] = pending[q] /\ props'[q] = props[q]
                                   /\ rRefs'[q] = rRefs[q]
  BY <1>1, LaunchTypes
<1>3. RequestCounts'
  <2> SUFFICES ASSUME NEW q \in Requests
               PROVE  rRefs'[q] = Bit(rVar'[q]) + Bit(pending'[q]) + 2 * Bit(cb'.req = q)
    BY DEF RequestCounts
  <2>1. CASE q = r
    <3>1. Bit(pending[q]) = 0 /\ Bit(pending'[q]) = 1
      BY <1>2, <2>1 DEF Bit
    <3>2. rRefs'[q] = rRefs[q] + 1 /\ rVar' = rVar
      BY <1>2, <2>1
    <3> QED
      BY <3>1, <3>2, KnownRequest
  <2>2. CASE q # r
    <3>1. rRefs'[q] = rRefs[q] /\ rVar' = rVar /\ pending'[q] = pending[q]
      BY <1>2, <2>2
    <3> QED
      BY <3>1, KnownRequest
  <2> QED
    BY <2>1, <2>2
<1>4. Cardinality(Buffered)' = Cardinality(Buffered) + (IF class[r] \in WithBuffer THEN 1 ELSE 0)
  <2>1. Cardinality(Buffered)' = Cardinality(Buffered)
                + (IF pending'[r] /\ class[r] \in WithBuffer THEN 1 ELSE 0)
                - (IF pending[r] /\ class[r] \in WithBuffer THEN 1 ELSE 0)
    BY <1>1, <1>2, RequestUpdate
  <2> QED
    BY <1>2, <2>1, CountTypes
<1>5. ASSUME NEW f \in Files
      PROVE  /\ Uses(f)' = Uses(f) + Times(f, p.file, 1) + Times(f, p.out, 1)
             /\ Cardinality(BytesWaiting(f))' =
                   Cardinality(BytesWaiting(f)) + SizeOf(class[r], p, f)
             /\ Cardinality(BytesWaiting(f)) \in Nat /\ Cardinality(BytesWaiting(f))' \in Nat
  <2>1. /\ Cardinality(RunningOn(f))' = Cardinality(RunningOn(f))
              + (IF pending'[r] /\ props'[r].file = f THEN 1 ELSE 0)
              - (IF pending[r] /\ props[r].file = f THEN 1 ELSE 0)
        /\ Cardinality(SendingTo(f))' = Cardinality(SendingTo(f))
              + (IF pending'[r] /\ props'[r].out = f THEN 1 ELSE 0)
              - (IF pending[r] /\ props[r].out = f THEN 1 ELSE 0)
        /\ Cardinality(BytesWaiting(f))' = Cardinality(BytesWaiting(f))
              + WaitingSize(r, f)' - WaitingSize(r, f)
        /\ Cardinality(BytesWaiting(f)) \in Nat /\ Cardinality(BytesWaiting(f))' \in Nat
    BY <1>1, <1>2, RequestUpdate
  <2>2. WaitingSize(r, f) = 0 /\ WaitingSize(r, f)' = SizeOf(class[r], p, f)
    BY <1>2, WaitingIs, WaitingIsThen
  <2>3. SizeOf(class[r], p, f) \in Nat
    BY DEF SizeOf, Times, Props
  <2>4. CallbackRefs(f)' = CallbackRefs(f)
    BY DEF CallbackRefs
  <2>5. /\ Cardinality(RunningOn(f))' = Cardinality(RunningOn(f)) + Times(f, p.file, 1)
        /\ Cardinality(SendingTo(f))' = Cardinality(SendingTo(f)) + Times(f, p.out, 1)
    BY <1>2, <2>1, CountTypes DEF Times
  <2>6. Times(f, p.file, 1) \in Nat /\ Times(f, p.out, 1) \in Nat
    BY DEF Times
  <2>7. Uses(f)' = CallbackRefs(f)' + Cardinality(RunningOn(f))' + Cardinality(SendingTo(f))'
    BY DEF Uses
  <2>8. Uses(f)' = Uses(f) + Times(f, p.file, 1) + Times(f, p.out, 1)
    BY <2>4, <2>5, <2>6, <2>7, CountTypes DEF Uses
  <2> QED
    BY <2>1, <2>2, <2>3, <2>8
<1> QED
  BY <1>3, <1>4, <1>5

\* The user code can run a request only on files that are open or have
\* failed to be; the request keeps them.
LEMMA RunInv ==
    ASSUME Inv, NEW r \in Requests, NEW p \in Props, ~pending[r], Launch(r, p),
           UNCHANGED <<file, fd, isClosing, reading, fVar, bVar, cb>>,
           p.file # NoFile => Usable(p.file), p.out # NoFile => Usable(p.out),
           fRefs' \in [Files -> Nat], queue' \in [Files -> Nat],
           \A g \in Files : fRefs'[g] = fRefs[g] + Times(g, p.file, 1) + Times(g, p.out, 1),
           \A g \in Files : queue'[g] = queue[g] + SizeOf(class[r], p, g),
           bRefs' = bRefs + (IF class[r] \in WithBuffer THEN 1 ELSE 0)
    PROVE  Inv'
<1>1. TypeOK /\ p.file \in AnyFile /\ p.out \in AnyFile /\ p.size \in Nat
  BY DEF Inv, Props
<1>2. \A g \in Files : /\ Times(g, p.file, 1) = (IF g = p.file THEN 1 ELSE 0)
                       /\ Times(g, p.out, 1) = (IF g = p.out THEN 1 ELSE 0)
                       /\ SizeOf(class[r], p, g) \in Nat
  BY <1>1 DEF Times, SizeOf
<1>3. TypeOK'
  <2>2. bRefs' \in Nat
    BY <1>1 DEF TypeOK
  <2>3. /\ class' \in [Requests -> AllClasses] /\ pending' \in [Requests -> BOOLEAN]
        /\ props' \in [Requests -> [file : AnyFile, out : AnyFile, size : Nat]]
        /\ rRefs' \in [Requests -> Nat] /\ rVar' \in [Requests -> BOOLEAN]
    BY <1>1, LaunchTypes
  <2> QED
    BY <1>1, <2>2, <2>3 DEF TypeOK
<1>4. /\ RequestCounts'
      /\ Cardinality(Buffered)' = Cardinality(Buffered) + (IF class[r] \in WithBuffer THEN 1 ELSE 0)
      /\ \A f \in Files :
            /\ Uses(f)' = Uses(f) + Times(f, p.file, 1) + Times(f, p.out, 1)
            /\ Cardinality(BytesWaiting(f))' = Cardinality(BytesWaiting(f)) + SizeOf(class[r], p, f)
  BY <1>3, LaunchFacts
<1>5. ASSUME NEW g \in Files PROVE FileInv(g)'
  <2>1. /\ fRefs'[g] = fRefs[g] + Times(g, p.file, 1) + Times(g, p.out, 1)
        /\ Uses(g)' = Uses(g) + Times(g, p.file, 1) + Times(g, p.out, 1)
    BY <1>4
  <2>2. UNCHANGED <<file, reading, fVar>>
    OBVIOUS
  <2>3. g = p.file \/ g = p.out => file[g] \in {"opened", "failed"}
    BY Known, UsableFacts
  <2>4. /\ fRefs'[g] = Bit(fVar[g]) + Bit(reading[g]) + Bit(file[g] = "opening") + Uses(g)'
        /\ fRefs'[g] = 0 <=> file[g] \in {"none", "deleted"}
        /\ file[g] = "opening" => Uses(g)' = 0
    BY <1>2, <2>1, <2>3, Known
  <2> QED
    BY <2>2, <2>4 DEF FileInv
<1>6. BufferCount'
  <2>1. bRefs = Bit(bVar) + Cardinality(Buffered) + Bit(CalledWithBuffer)
    BY DEF Inv, BufferCount
  <2>2. class' = class
    BY DEF Launch
  <2>3. Bit(CalledWithBuffer)' = Bit(CalledWithBuffer) /\ Bit(bVar') = Bit(bVar)
    BY <2>2 DEF CalledWithBuffer
  <2>4. Bit(CalledWithBuffer) \in {0, 1} /\ Bit(bVar) \in {0, 1} /\ Cardinality(Buffered) \in Nat
    BY BitType, CountTypes
  <2>5. bRefs' = Bit(bVar) + Cardinality(Buffered)' + Bit(CalledWithBuffer)
    BY <1>4, <2>1, <2>4
  <2> QED
    BY <2>3, <2>5 DEF BufferCount
<1>7. WriteQueueExact'
  <2>1. \A f \in Files : queue'[f] = Cardinality(BytesWaiting(f))'
    BY <1>4 DEF Inv, WriteQueueExact
  <2> QED
    BY <2>1 DEF WriteQueueExact
<1> QED
  BY <1>3, <1>4, <1>5, <1>6, <1>7 DEF Inv

\* The properties of a request on a file and on a path.
LEMMA PropsTypes ==
    /\ NoProps \in Props /\ NoProps.file = NoFile /\ NoProps.out = NoFile /\ NoProps.size = 0
    /\ \A f \in Files :
          /\ [NoProps EXCEPT !.file = f] \in Props
          /\ [NoProps EXCEPT !.file = f].file = f
          /\ [NoProps EXCEPT !.file = f].out = NoFile
          /\ [NoProps EXCEPT !.file = f].size = 0
BY DEF NoProps, Props, AnyFile

\* run(_file, ...) of most classes.
LEMMA RunOnFileInv ==
    ASSUME Inv, NEW c \in AllClasses \ {"write", "sendfile"}, NEW r \in Requests, NEW f \in Files,
           RunOnFile(c, r, f)
    PROVE  Inv'
<1> DEFINE p == [NoProps EXCEPT !.file = f]
<1>1. /\ class[r] = c /\ ~pending[r] /\ Usable(f) /\ Launch(r, p)
      /\ fRefs' = [fRefs EXCEPT ![f] = @ + 1]
      /\ UNCHANGED <<file, fd, isClosing, queue, reading, fVar, bVar, cb>>
  BY DEF RunOnFile, Runnable
<1>2. p \in Props /\ p.file = f /\ p.out = NoFile /\ p.size = 0
  BY PropsTypes
<1> HIDE DEF p
<1>3. bRefs' = bRefs + (IF class[r] \in WithBuffer THEN 1 ELSE 0)
  <2>1. bRefs \in Nat
    BY DEF Inv, TypeOK
  <2> QED
    BY <1>1, <2>1 DEF RunOnFile
<1>4. queue' \in [Files -> Nat] /\ \A g \in Files : queue'[g] = queue[g] + SizeOf(class[r], p, g)
  <2>1. SizeOf(class[r], p, f) = 0 /\ \A g \in Files : SizeOf(class[r], p, g) = 0
    BY <1>1 DEF SizeOf
  <2>2. queue \in [Files -> Nat]
    BY DEF Inv, TypeOK
  <2> QED
    BY <1>1, <2>1, <2>2
<1>5. /\ fRefs' \in [Files -> Nat]
      /\ \A g \in Files : fRefs'[g] = fRefs[g] + Times(g, p.file, 1) + Times(g, p.out, 1)
  <2>1. \A g \in Files : Times(g, p.file, 1) = (IF g = f THEN 1 ELSE 0) /\ Times(g, p.out, 1) = 0
    BY <1>2, FileRequestsAssumption DEF Times
  <2>2. fRefs \in [Files -> Nat]
    BY DEF Inv, TypeOK
  <2> QED
    BY <1>1, <2>1, <2>2
<1> QED
  BY <1>1, <1>2, <1>3, <1>4, <1>5, RunInv

\* run(_loop, _path, ...).
LEMMA RunOnPathInv ==
    ASSUME Inv, NEW c \in AllClasses \ (FileClasses \union WithBuffer), NEW r \in Requests,
           RunOnPath(c, r)
    PROVE  Inv'
<1>1. /\ class[r] = c /\ ~pending[r] /\ Launch(r, NoProps)
      /\ UNCHANGED <<file, fd, isClosing, queue, reading, fRefs, fVar, bRefs, bVar, cb>>
  BY DEF RunOnPath, Runnable, fileState, bufferState
<1>2. TypeOK /\ c \notin WithBuffer /\ c \notin {"write", "sendfile"}
  BY DEF Inv, FileClasses
<1>3. bRefs' = bRefs + (IF class[r] \in WithBuffer THEN 1 ELSE 0)
  BY <1>1, <1>2 DEF TypeOK
<1>4. queue' \in [Files -> Nat] /\ \A g \in Files : queue'[g] = queue[g] + SizeOf(class[r], NoProps, g)
  <2>1. \A g \in Files : SizeOf(class[r], NoProps, g) = 0
    BY <1>1, <1>2 DEF SizeOf
  <2> QED
    BY <1>1, <1>2, <2>1 DEF TypeOK
<1>5. /\ fRefs' \in [Files -> Nat]
      /\ \A g \in Files : fRefs'[g] = fRefs[g] + Times(g, NoProps.file, 1) + Times(g, NoProps.out, 1)
  <2>1. \A g \in Files : Times(g, NoProps.file, 1) = 0 /\ Times(g, NoProps.out, 1) = 0
    BY PropsTypes, FileRequestsAssumption DEF Times
  <2> QED
    BY <1>1, <1>2, <2>1 DEF TypeOK
<1> QED
  BY <1>1, <1>3, <1>4, <1>5, PropsTypes, RunInv

\* write::run().
LEMMA WriteRunInv ==
    ASSUME Inv, NEW r \in Requests, NEW f \in Files, NEW n \in Sizes, WriteRun(r, f, n)
    PROVE  Inv'
<1> DEFINE p == [NoProps EXCEPT !.file = f, !.size = n]
<1>1. /\ class[r] = "write" /\ ~pending[r] /\ Usable(f) /\ Launch(r, p)
      /\ fRefs' = [fRefs EXCEPT ![f] = @ + 1] /\ bRefs' = bRefs + 1
      /\ queue' = [queue EXCEPT ![f] = @ + n]
      /\ UNCHANGED <<file, fd, isClosing, reading, fVar, bVar, cb>>
  BY DEF WriteRun, Runnable
<1>2. p \in Props /\ p.file = f /\ p.out = NoFile /\ p.size = n
  BY FileRequestsAssumption DEF NoProps, Props, AnyFile
<1> HIDE DEF p
<1>3. bRefs' = bRefs + (IF class[r] \in WithBuffer THEN 1 ELSE 0)
  BY <1>1 DEF WithBuffer
<1>4. queue' \in [Files -> Nat] /\ \A g \in Files : queue'[g] = queue[g] + SizeOf(class[r], p, g)
  <2>1. \A g \in Files : SizeOf(class[r], p, g) = IF g = f THEN n ELSE 0
    BY <1>1, <1>2 DEF SizeOf, Times
  <2>2. queue \in [Files -> Nat]
    BY DEF Inv, TypeOK
  <2>3. n \in Nat
    BY FileRequestsAssumption
  <2> QED
    BY <1>1, <2>1, <2>2, <2>3
<1>5. /\ fRefs' \in [Files -> Nat]
      /\ \A g \in Files : fRefs'[g] = fRefs[g] + Times(g, p.file, 1) + Times(g, p.out, 1)
  <2>1. \A g \in Files : Times(g, p.file, 1) = (IF g = f THEN 1 ELSE 0) /\ Times(g, p.out, 1) = 0
    BY <1>2, FileRequestsAssumption DEF Times
  <2>2. fRefs \in [Files -> Nat]
    BY DEF Inv, TypeOK
  <2> QED
    BY <1>1, <2>1, <2>2
<1> QED
  BY <1>1, <1>2, <1>3, <1>4, <1>5, RunInv

\* sendfile::run().
LEMMA SendfileRunInv ==
    ASSUME Inv, NEW r \in Requests, NEW f \in Files, NEW out \in AnyFile, NEW n \in Sizes,
           SendfileRun(r, f, out, n)
    PROVE  Inv'
<1> DEFINE p == [file |-> f, out |-> out, size |-> n]
<1>1. /\ class[r] = "sendfile" /\ ~pending[r] /\ Usable(f) /\ (out # NoFile => Usable(out))
      /\ Launch(r, p)
      /\ fRefs' = [g \in Files |-> fRefs[g] + Times(g, f, 1) + Times(g, out, 1)]
      /\ queue' = [g \in Files |-> queue[g] + Times(g, out, n)]
      /\ UNCHANGED <<file, fd, isClosing, reading, fVar, bRefs, bVar, cb>>
  BY DEF SendfileRun, Runnable, bufferState
<1>2. p \in Props /\ p.file = f /\ p.out = out /\ p.size = n
  BY FileRequestsAssumption DEF Props, AnyFile
<1> HIDE DEF p
<1>3. bRefs' = bRefs + (IF class[r] \in WithBuffer THEN 1 ELSE 0)
  <2>1. bRefs \in Nat /\ "sendfile" \notin WithBuffer
    BY DEF Inv, TypeOK, WithBuffer
  <2> QED
    BY <1>1, <2>1
<1>4. \A g \in Files : SizeOf(class[r], p, g) = Times(g, out, n)
  BY <1>1, <1>2 DEF SizeOf
<1>5. queue' \in [Files -> Nat] /\ \A g \in Files : queue'[g] = queue[g] + SizeOf(class[r], p, g)
  <2>1. \A g \in Files : queue[g] \in Nat /\ Times(g, out, n) \in Nat
    BY FileRequestsAssumption DEF Inv, TypeOK, Times
  <2> QED
    BY <1>1, <1>4, <2>1
<1>6. fRefs' \in [Files -> Nat]
  <2>1. \A g \in Files : fRefs[g] \in Nat /\ Times(g, f, 1) \in Nat /\ Times(g, out, 1) \in Nat
    BY DEF Inv, TypeOK, Times
  <2> QED
    BY <1>1, <2>1
<1> QED
  BY <1>1, <1>2, <1>3, <1>5, <1>6, RunInv
\* close::run(): the file is marked and reading stops, whatever comes of it.
LEMMA CloseRunInv ==
    ASSUME Inv, NEW r \in Requests, NEW f \in Files, CloseRun(r, f)
    PROVE  Inv'
<1> DEFINE p == [NoProps EXCEPT !.file = f]
           stopped == [fRefs EXCEPT ![f] = IF reading[f] THEN @ - 1 ELSE @]
<1>1. /\ class[r] = "close" /\ ~pending[r] /\ Usable(f)
      /\ isClosing' = [isClosing EXCEPT ![f] = TRUE] /\ reading' = [reading EXCEPT ![f] = FALSE]
      /\ UNCHANGED <<file, queue, fVar, bRefs, bVar, cb>>
  BY DEF CloseRun, Runnable, bufferState
<1>2. \/ /\ fd' = [fd EXCEPT ![f] = Closed(@)] /\ fRefs' = stopped
         /\ UNCHANGED <<class, pending, props, rRefs, rVar>>
      \/ /\ Launch(r, p) /\ fRefs' = [stopped EXCEPT ![f] = @ + 1] /\ UNCHANGED fd
      \/ /\ fRefs' = stopped /\ UNCHANGED <<fd, class, pending, props, rRefs, rVar>>
  BY DEF CloseRun, requestState
<1>3. TypeOK
  BY DEF Inv
<1>4. p \in Props /\ p.file = f /\ p.out = NoFile
  BY PropsTypes
<1> HIDE DEF p
<1>5. stopped \in [Files -> Nat] /\ \A g \in Files :
         /\ stopped[g] = fRefs[g] + Bit(reading'[g]) - Bit(reading[g])
         /\ g # f => stopped[g] = fRefs[g] /\ reading'[g] = reading[g]
         /\ Bit(reading'[g]) \in {0, 1}
  <2>1. ASSUME NEW g \in Files
        PROVE  /\ stopped[g] = fRefs[g] + Bit(reading'[g]) - Bit(reading[g])
               /\ g # f => stopped[g] = fRefs[g] /\ reading'[g] = reading[g]
               /\ stopped[g] \in Nat
    <3>1. CASE g = f
      <4>1. stopped[g] = (IF reading[g] THEN fRefs[g] - 1 ELSE fRefs[g])
        BY <1>3, <3>1 DEF TypeOK
      <4>2. reading'[g] = FALSE
        BY <1>1, <1>3, <3>1 DEF TypeOK
      <4>3. Bit(reading'[g]) = 0 /\ Bit(reading[g]) = (IF reading[g] THEN 1 ELSE 0)
        BY <4>2 DEF Bit
      <4> HIDE DEF stopped
      <4> QED
        BY <3>1, <4>1, <4>3, Known
    <3>2. CASE g # f
      <4>1. stopped[g] = fRefs[g] /\ reading'[g] = reading[g]
        BY <1>1, <1>3, <3>2 DEF TypeOK
      <4> HIDE DEF stopped
      <4> QED
        BY <4>1, Known
    <3> QED
      BY <3>1, <3>2
  <2>2. stopped = [g \in Files |-> stopped[g]]
    BY <1>3 DEF TypeOK
  <2> HIDE DEF stopped
  <2>3. stopped \in [Files -> Nat]
    BY <2>1, <2>2
  <2> QED
    BY <2>1, <2>3, BitType
<1> HIDE DEF stopped
<1>6. isClosing' \in [Files -> BOOLEAN] /\ reading' \in [Files -> BOOLEAN] /\ fVar' \in [Files -> BOOLEAN]
      /\ file' \in [Files -> {"none", "opening", "opened", "failed", "deleted"}]
  BY <1>1, <1>3 DEF TypeOK
<1>7. fd' \in [Files -> {"none", "open", "closed", "zero", "foreign"}]
  <2>1. Closed(fd[f]) \in {"none", "open", "closed", "zero", "foreign"}
    BY <1>3, ClosedType DEF TypeOK
  <2> QED
    BY <1>2, <1>3, <2>1 DEF TypeOK
<1>9. CASE fRefs' = stopped /\ UNCHANGED <<class, pending, props, rRefs, rVar>>
  <2>1. UNCHANGED <<queue, requestState, bufferState, cb>>
    BY <1>1, <1>9 DEF requestState, bufferState
  <2>2. ASSUME NEW g \in Files
        PROVE  /\ fRefs'[g] = Bit(fVar'[g]) + Bit(reading'[g]) + Bit(file'[g] = "opening") + Uses(g)
               /\ fRefs'[g] = 0 <=> file'[g] \in {"none", "deleted"}
               /\ file'[g] = "opening" => Uses(g) = 0
    <3>1. /\ fRefs'[g] = fRefs[g] + Bit(reading'[g]) - Bit(reading[g])
          /\ g # f => fRefs'[g] = fRefs[g]
          /\ Bit(reading'[g]) \in {0, 1} /\ file' = file /\ fVar' = fVar
      BY <1>1, <1>5, <1>9
    <3>2. g = f => Bit(fVar[g]) + Uses(g) > 0 /\ file[g] \in {"opened", "failed"}
      BY <1>1, UsableFacts
    <3> QED
      BY <3>1, <3>2, Known
  <2>3. fRefs' \in [Files -> Nat]
    BY <1>5, <1>9
  <2> QED
    BY <1>6, <1>7, <2>1, <2>2, <2>3, FileStep
<1>10. CASE Launch(r, p) /\ fRefs' = [stopped EXCEPT ![f] = @ + 1]
  <2>1. fRefs' \in [Files -> Nat] /\ \A g \in Files : fRefs'[g] = stopped[g] + Times(g, f, 1)
    <3>1. \A g \in Files : Times(g, f, 1) = IF g = f THEN 1 ELSE 0
      BY DEF Times
    <3> QED
      BY <1>5, <1>10, <3>1
  <2>2. TypeOK'
    <3>1. /\ class' \in [Requests -> AllClasses] /\ pending' \in [Requests -> BOOLEAN]
          /\ props' \in [Requests -> [file : AnyFile, out : AnyFile, size : Nat]]
          /\ rRefs' \in [Requests -> Nat] /\ rVar' \in [Requests -> BOOLEAN]
      BY <1>3, <1>4, <1>10, LaunchTypes
    <3> QED
      BY <1>1, <1>3, <1>6, <1>7, <2>1, <3>1 DEF TypeOK
  <2>3. /\ RequestCounts'
        /\ Cardinality(Buffered)' = Cardinality(Buffered) + (IF class[r] \in WithBuffer THEN 1 ELSE 0)
        /\ \A g \in Files :
              /\ Uses(g)' = Uses(g) + Times(g, p.file, 1) + Times(g, p.out, 1)
              /\ Cardinality(BytesWaiting(g))' = Cardinality(BytesWaiting(g)) + SizeOf(class[r], p, g)
              /\ Cardinality(BytesWaiting(g)) \in Nat
    BY <1>1, <1>4, <1>10, <2>2, LaunchFacts
  <2>4. ASSUME NEW g \in Files PROVE FileInv(g)'
    <3>1. /\ fRefs'[g] = fRefs[g] + Bit(reading'[g]) - Bit(reading[g]) + Times(g, f, 1)
          /\ Uses(g)' = Uses(g) + Times(g, f, 1)
          /\ Times(g, f, 1) = IF g = f THEN 1 ELSE 0
      <4>1. Times(g, f, 1) = (IF g = f THEN 1 ELSE 0) /\ Times(g, NoFile, 1) = 0
        BY FileRequestsAssumption DEF Times
      <4>2. Uses(g)' = Uses(g) + Times(g, f, 1) + Times(g, NoFile, 1)
        BY <1>4, <2>3
      <4> QED
        BY <1>5, <2>1, <4>1, <4>2, Known
    <3>2. /\ g # f => reading'[g] = reading[g]
          /\ Bit(reading'[g]) \in {0, 1} /\ file' = file /\ fVar' = fVar
      BY <1>1, <1>5
    <3>3. g = f => file[g] \in {"opened", "failed"}
      BY <1>1, UsableFacts
    <3>4. /\ fRefs'[g] = Bit(fVar[g]) + Bit(reading'[g]) + Bit(file[g] = "opening") + Uses(g)'
          /\ file[g] = "opening" => Uses(g)' = 0
      BY <3>1, <3>2, <3>3, Known
    <3>5. fRefs'[g] = 0 <=> file[g] \in {"none", "deleted"}
      BY <3>1, <3>2, <3>3, Known
    <3> QED
      BY <3>2, <3>4, <3>5 DEF FileInv
  <2>5. WriteQueueExact'
    <3>1. \A g \in Files : SizeOf(class[r], p, g) = 0
      BY <1>1 DEF SizeOf
    <3>2. \A g \in Files : queue'[g] = Cardinality(BytesWaiting(g))'
      BY <1>1, <2>3, <3>1 DEF Inv, WriteQueueExact
    <3> QED
      BY <3>2 DEF WriteQueueExact
  <2>6. BufferCount'
    <3>1. class' = class /\ "close" \notin WithBuffer
      BY <1>10 DEF Launch, WithBuffer
    <3>2. CalledWithBuffer' = CalledWithBuffer
      BY <1>1, <3>1 DEF CalledWithBuffer
    <3>3. Cardinality(Buffered)' = Cardinality(Buffered)
      BY <1>1, <2>3, <3>1, CountTypes
    <3> QED
      BY <1>1, <3>2, <3>3 DEF Inv, BufferCount
  <2> QED
    BY <2>2, <2>3, <2>4, <2>5, <2>6 DEF Inv
<1> QED
  BY <1>2, <1>9, <1>10

-----------------------------------------------------------------------------
(* The callbacks.                                                          *)

\* open_cb(): the reference of the constructor goes over to the guard, and
\* the callback gets another.
LEMMA OpenCbInv ==
    ASSUME Inv, NEW f \in Files, OpenCb(f)
    PROVE  Inv'
<1>1. /\ cb = NoCallback /\ file[f] = "opening"
      /\ \/ file' = [file EXCEPT ![f] = "opened"] /\ fd' = [fd EXCEPT ![f] = "open"]
         \/ file' = [file EXCEPT ![f] = "failed"] /\ fd' = fd
      /\ fRefs' = [fRefs EXCEPT ![f] = @ + 1]
      /\ cb' = [NoCallback EXCEPT !.opened = f]
      /\ UNCHANGED <<isClosing, queue, reading, fVar, class, pending, props, rRefs, rVar, bRefs, bVar>>
  BY DEF OpenCb, requestState, bufferState
<1>2. TypeOK
  BY DEF Inv
<1>3. /\ cb.req = NoRequest /\ cb.file = NoFile /\ cb.out = NoFile /\ cb.opened = NoFile
      /\ cb'.req = NoRequest /\ cb'.file = NoFile /\ cb'.out = NoFile /\ cb'.opened = f
      /\ cb' \in [req : Requests \union {NoRequest}, file : AnyFile, out : AnyFile, opened : AnyFile]
  BY <1>1 DEF NoCallback, AnyFile
<1>4. TypeOK'
  BY <1>1, <1>2, <1>3, SMTT(30) DEF TypeOK
<1>5. \A g \in Files : Uses(g)' = Uses(g) + (IF g = f THEN 2 ELSE 0)
  <2> TAKE g \in Files
  <2>1. CallbackRefs(g) = 0 /\ CallbackRefs(g)' = (IF g = f THEN 2 ELSE 0)
    BY <1>3, FileRequestsAssumption DEF CallbackRefs, Times
  <2>2. /\ Cardinality(RunningOn(g))' = Cardinality(RunningOn(g))
        /\ Cardinality(SendingTo(g))' = Cardinality(SendingTo(g))
    BY <1>1, FrameRequests
  <2>3. Uses(g)' = CallbackRefs(g)' + Cardinality(RunningOn(g))' + Cardinality(SendingTo(g))'
    BY DEF Uses
  <2> QED
    BY <2>1, <2>2, <2>3, CountTypes DEF Uses
<1>6. ASSUME NEW g \in Files PROVE FileInv(g)'
  <2>1. reading' = reading /\ fVar' = fVar
    BY <1>1
  <2>2. CASE g = f
    <3>1. fRefs'[g] = fRefs[g] + 1 /\ file'[g] \in {"opened", "failed"} /\ file[g] = "opening"
      BY <1>1, <1>2, <2>2 DEF TypeOK
    <3>2. Uses(g) = 0 /\ Uses(g)' = 2
      BY <1>5, <2>2, <3>1, Known
    <3>3. Bit(file'[g] = "opening") = 0
      BY <3>1 DEF Bit
    <3>4. /\ fRefs'[g] = Bit(fVar[g]) + Bit(reading[g]) + Bit(file'[g] = "opening") + Uses(g)'
          /\ fRefs'[g] # 0
      BY <3>1, <3>2, <3>3, Known
    <3> QED
      BY <2>1, <3>1, <3>4 DEF FileInv
  <2>3. CASE g # f
    <3>1. fRefs'[g] = fRefs[g] /\ file'[g] = file[g] /\ Uses(g)' = Uses(g)
      BY <1>1, <1>2, <1>5, <2>3, Known DEF TypeOK
    <3> QED
      BY <2>1, <3>1, Known DEF FileInv
  <2> QED
    BY <2>2, <2>3
<1>7. RequestCounts'
  BY <1>1, <1>3 DEF Inv, RequestCounts
<1>8. BufferCount'
  <2>1. CalledWithBuffer' = CalledWithBuffer
    BY <1>3 DEF CalledWithBuffer
  <2> QED
    BY <1>1, <2>1, FrameRequests DEF Inv, BufferCount
<1>9. WriteQueueExact'
  BY <1>1, FrameQueue
<1> QED
  BY <1>4, <1>6, <1>7, <1>8, <1>9 DEF Inv
\* The callback of a request: the guards adopt the references of run().
LEMMA CompletedInv ==
    ASSUME Inv, NEW c, NEW r \in Requests, Completed(c, r),
           fd' \in [Files -> {"none", "open", "closed", "zero", "foreign"}],
           queue' = [g \in Files |-> queue'[g]],
           \A g \in Files : queue'[g] = queue[g] - SizeOf(class[r], props[r], g)
    PROVE  Inv'
<1>1. /\ cb = NoCallback /\ pending[r]
      /\ pending' = [pending EXCEPT ![r] = FALSE] /\ rRefs' = [rRefs EXCEPT ![r] = @ + 1]
      /\ cb' = [req |-> r, file |-> props[r].file, out |-> props[r].out, opened |-> NoFile]
      /\ props' = [props EXCEPT ![r] = NoProps]
      /\ UNCHANGED <<file, isClosing, reading, fRefs, fVar, class, rVar, bRefs, bVar>>
  BY DEF Completed, bufferState
<1>2. TypeOK
  BY DEF Inv
<1>3. /\ props[r].file \in AnyFile /\ props[r].out \in AnyFile
      /\ cb.req = NoRequest /\ cb.file = NoFile /\ cb.out = NoFile /\ cb.opened = NoFile
      /\ cb'.req = r /\ cb'.file = props[r].file /\ cb'.out = props[r].out /\ cb'.opened = NoFile
  BY <1>1, <1>2 DEF TypeOK, NoCallback
<1>4. /\ pending'[r] = FALSE /\ pending[r] = TRUE /\ rRefs'[r] = rRefs[r] + 1
      /\ \A q \in Requests \ {r} : /\ pending'[q] = pending[q] /\ props'[q] = props[q]
                                   /\ rRefs'[q] = rRefs[q]
  BY <1>1, <1>2 DEF TypeOK
\* The type of the queue follows from what it counts, so that the step is
\* first seen without it.
<1>5. /\ rRefs' \in [Requests -> Nat] /\ pending' \in [Requests -> BOOLEAN]
      /\ props' \in [Requests -> [file : AnyFile, out : AnyFile, size : Nat]]
      /\ cb' \in [req : Requests \union {NoRequest}, file : AnyFile, out : AnyFile, opened : AnyFile]
  <2>1. NoProps \in [file : AnyFile, out : AnyFile, size : Nat] /\ NoFile \in AnyFile
    BY PropsTypes DEF Props, AnyFile
  <2>2. cb' \in [req : Requests \union {NoRequest}, file : AnyFile, out : AnyFile, opened : AnyFile]
    BY <1>1, <1>3, <2>1
  <2> QED
    BY <1>1, <1>2, <2>1, <2>2 DEF TypeOK
<1>6. /\ Cardinality(Buffered)' = Cardinality(Buffered) - (IF class[r] \in WithBuffer THEN 1 ELSE 0)
      /\ \A f \in Files :
            /\ Cardinality(RunningOn(f))' = Cardinality(RunningOn(f))
                                             - (IF props[r].file = f THEN 1 ELSE 0)
            /\ Cardinality(SendingTo(f))' = Cardinality(SendingTo(f))
                                             - (IF props[r].out = f THEN 1 ELSE 0)
            /\ Cardinality(BytesWaiting(f))' = Cardinality(BytesWaiting(f))
                                             - SizeOf(class[r], props[r], f)
            /\ Cardinality(BytesWaiting(f))' \in Nat
  <2>1. PropsOK /\ PropsOK'
    BY <1>2, <1>5 DEF PropsOK, Props, TypeOK
  <2>2. /\ Cardinality(Buffered)' = Cardinality(Buffered)
              + (IF pending'[r] /\ class[r] \in WithBuffer THEN 1 ELSE 0)
              - (IF pending[r] /\ class[r] \in WithBuffer THEN 1 ELSE 0)
        /\ \A f \in Files :
              /\ Cardinality(RunningOn(f))' = Cardinality(RunningOn(f))
                   + (IF pending'[r] /\ props'[r].file = f THEN 1 ELSE 0)
                   - (IF pending[r] /\ props[r].file = f THEN 1 ELSE 0)
              /\ Cardinality(SendingTo(f))' = Cardinality(SendingTo(f))
                   + (IF pending'[r] /\ props'[r].out = f THEN 1 ELSE 0)
                   - (IF pending[r] /\ props[r].out = f THEN 1 ELSE 0)
              /\ Cardinality(BytesWaiting(f))' = Cardinality(BytesWaiting(f))
                   + WaitingSize(r, f)' - WaitingSize(r, f)
              /\ Cardinality(BytesWaiting(f)) \in Nat /\ Cardinality(BytesWaiting(f))' \in Nat
              /\ WaitingSize(r, f) \in Nat
    BY <1>1, <1>4, <2>1, RequestUpdate, ZenonT(30)
  <2>3. \A f \in Files : WaitingSize(r, f)' = 0 /\ WaitingSize(r, f) = SizeOf(class[r], props[r], f)
    BY <1>4, WaitingIs, WaitingIsThen
  <2>4. \A f \in Files :
           /\ Cardinality(BytesWaiting(f))' = Cardinality(BytesWaiting(f)) - SizeOf(class[r], props[r], f)
           /\ Cardinality(BytesWaiting(f))' \in Nat
    BY <2>2, <2>3
  <2> QED
    BY <1>4, <2>2, <2>4, CountTypes
<1>7. \A f \in Files : queue'[f] = Cardinality(BytesWaiting(f))' /\ queue'[f] \in Nat
  BY <1>6 DEF Inv, WriteQueueExact
<1>8. TypeOK'
  <2>1. queue' \in [Files -> Nat]
    BY <1>7
  <2> QED
    BY <1>1, <1>2, <1>5, <2>1 DEF TypeOK
<1>9. ASSUME NEW g \in Files PROVE FileInv(g)'
  <2>1. CallbackRefs(g) = 0
    BY <1>3, FileRequestsAssumption DEF CallbackRefs, Times
  <2>2. CallbackRefs(g)' = (IF props[r].file = g THEN 1 ELSE 0) + (IF props[r].out = g THEN 1 ELSE 0)
    BY <1>3, FileRequestsAssumption DEF CallbackRefs, Times
  <2>3. Uses(g)' = CallbackRefs(g)' + Cardinality(RunningOn(g))' + Cardinality(SendingTo(g))'
    BY DEF Uses
  <2>4. Uses(g)' = Uses(g)
    BY <1>6, <2>1, <2>2, <2>3, CountTypes DEF Uses
  <2> QED
    BY <1>1, <2>4, Known DEF FileInv
<1>10. RequestCounts'
  <2> SUFFICES ASSUME NEW q \in Requests
               PROVE  rRefs'[q] = Bit(rVar[q]) + Bit(pending'[q]) + 2 * Bit(cb'.req = q)
    BY <1>1 DEF RequestCounts
  <2>1. Bit(cb.req = q) = 0
    BY <1>3, KnownRequest DEF Bit
  <2>2. CASE q = r
    <3>1. Bit(pending[q]) = 1 /\ Bit(pending'[q]) = 0 /\ Bit(cb'.req = q) = 1
      BY <1>3, <1>4, <2>2 DEF Bit
    <3>2. rRefs'[q] = rRefs[q] + 1
      BY <1>4, <2>2
    <3> QED
      BY <2>1, <3>1, <3>2, KnownRequest
  <2>3. CASE q # r
    <3>1. rRefs'[q] = rRefs[q] /\ pending'[q] = pending[q]
      BY <1>4, <2>3
    <3>2. Bit(cb'.req = q) = 0
      BY <1>3, <2>3 DEF Bit
    <3> QED
      BY <2>1, <3>1, <3>2, KnownRequest
  <2> QED
    BY <2>2, <2>3
<1>11. BufferCount'
  <2>1. bRefs = Bit(bVar) + Cardinality(Buffered) + Bit(CalledWithBuffer)
    BY DEF Inv, BufferCount
  <2>2. Bit(CalledWithBuffer) = 0
    BY <1>3 DEF Bit, CalledWithBuffer
  <2>3. Bit(CalledWithBuffer)' = (IF class[r] \in WithBuffer THEN 1 ELSE 0)
    BY <1>1, <1>3, KnownRequest DEF Bit, CalledWithBuffer
  <2>4. Bit(bVar) \in {0, 1} /\ Cardinality(Buffered) \in Nat
    BY BitType, CountTypes
  <2>5. bRefs = Bit(bVar) + Cardinality(Buffered)' + Bit(CalledWithBuffer)'
    BY <1>6, <2>1, <2>2, <2>3, <2>4
  <2> QED
    BY <1>1, <2>5 DEF BufferCount
<1>12. WriteQueueExact'
  BY <1>7 DEF WriteQueueExact
<1> QED
  BY <1>8, <1>9, <1>10, <1>11, <1>12 DEF Inv

\* The callbacks that change neither descriptor nor queue.
LEMMA CompletedOnlyInv ==
    ASSUME Inv, NEW c, c \notin {"write", "sendfile"}, NEW r \in Requests, CompletedOnly(c, r)
    PROVE  Inv'
<1>1. Completed(c, r) /\ fd' = fd /\ queue' = queue /\ class[r] = c
  BY DEF CompletedOnly, Completed
<1>2. fd \in [Files -> {"none", "open", "closed", "zero", "foreign"}] /\ queue \in [Files -> Nat]
  BY DEF Inv, TypeOK
<1>3. \A g \in Files : SizeOf(class[r], props[r], g) = 0
  BY <1>1 DEF SizeOf
<1> QED
  BY <1>1, <1>2, <1>3, CompletedInv

\* write_cb(), sendfile_cb(), close_cb().
LEMMA SpecialCbInv ==
    ASSUME Inv, NEW r \in Requests, WriteCb(r) \/ SendfileCb(r) \/ CloseCb(r)
    PROVE  Inv'
<1>1. /\ fd \in [Files -> {"none", "open", "closed", "zero", "foreign"}] /\ queue \in [Files -> Nat]
      /\ props[r].size \in Nat
  BY DEF Inv, TypeOK
<1>2. CASE WriteCb(r)
  <2>1. /\ Completed("write", r) /\ fd' = fd /\ class[r] = "write"
        /\ queue' = [queue EXCEPT ![props[r].file] = @ - props[r].size]
    BY <1>2 DEF WriteCb, Completed
  <2>2. \A g \in Files : SizeOf(class[r], props[r], g) = IF g = props[r].file THEN props[r].size ELSE 0
    BY <2>1 DEF SizeOf, Times
  <2>3. queue' = [g \in Files |-> queue'[g]]
    BY <1>1, <2>1
  <2>4. \A g \in Files : queue'[g] = queue[g] - SizeOf(class[r], props[r], g)
    BY <1>1, <2>1, <2>2
  <2> QED
    BY <1>1, <2>1, <2>3, <2>4, CompletedInv
<1>3. CASE SendfileCb(r)
  <2>1. /\ Completed("sendfile", r) /\ fd' = fd /\ class[r] = "sendfile"
        /\ queue' = [f \in Files |-> queue[f] - Times(f, props[r].out, props[r].size)]
    BY <1>3 DEF SendfileCb, Completed
  <2>2. \A g \in Files : queue'[g] = queue[g] - SizeOf(class[r], props[r], g)
    BY <2>1 DEF SizeOf
  <2>3. queue' = [g \in Files |-> queue'[g]]
    BY <2>1
  <2> QED
    BY <1>1, <2>1, <2>2, <2>3, CompletedInv
<1>4. CASE CloseCb(r)
  <2>1. /\ Completed("close", r) /\ queue' = queue /\ class[r] = "close"
        /\ fd' = [fd EXCEPT ![props[r].file] = Closed(@)]
    BY <1>4 DEF CloseCb, Completed
  <2>2. \A g \in Files : queue'[g] = queue[g] - SizeOf(class[r], props[r], g)
    BY <1>1, <2>1 DEF SizeOf
  <2>3. \A g \in Files : Closed(fd[g]) \in {"none", "open", "closed", "zero", "foreign"}
    BY <1>1, ClosedType
  <2>4. fd' \in [Files -> {"none", "open", "closed", "zero", "foreign"}]
    BY <1>1, <2>1, <2>3
  <2>5. queue' = [g \in Files |-> queue'[g]]
    BY <1>1, <2>1
  <2> QED
    BY <2>1, <2>2, <2>4, <2>5, CompletedInv
<1> QED
  BY <1>2, <1>3, <1>4

\* The user callback returns: what it and the guards refer to is released.
LEMMA ReturnInv == ASSUME Inv, Return PROVE Inv'
<1> DEFINE released == [f \in Files |-> Times(f, cb.file, 1) + Times(f, cb.out, 1)
                                          + Times(f, cb.opened, 2)]
<1>1. /\ UnrefFiles(released) /\ cb' = NoCallback
      /\ rRefs' = [r \in Requests |-> IF r = cb.req THEN rRefs[r] - 2 ELSE rRefs[r]]
      /\ bRefs' = (IF cb.req # NoRequest /\ class[cb.req] \in WithBuffer THEN bRefs - 1 ELSE bRefs)
      /\ UNCHANGED <<isClosing, queue, reading, fVar, class, pending, props, rVar, bVar>>
  BY DEF Return
<1>2. TypeOK
  BY DEF Inv
<1>3. \A f \in Files : released[f] = CallbackRefs(f) /\ released[f] \in Nat
  BY CountTypes DEF CallbackRefs
<1>4. released \in [Files -> Nat]
  BY <1>3
<1> HIDE DEF released
<1>5. \A f \in Files : /\ Uses(f)' = Uses(f) - released[f]
                       /\ released[f] <= Uses(f)
  <2> TAKE f \in Files
  <2>1. CallbackRefs(f)' = 0
    BY <1>1, FileRequestsAssumption DEF CallbackRefs, NoCallback, Times
  <2>2. /\ Cardinality(RunningOn(f))' = Cardinality(RunningOn(f))
        /\ Cardinality(SendingTo(f))' = Cardinality(SendingTo(f))
    BY <1>1, FrameRequests
  <2>3. Uses(f)' = CallbackRefs(f)' + Cardinality(RunningOn(f))' + Cardinality(SendingTo(f))'
    BY DEF Uses
  <2> QED
    BY <1>3, <2>1, <2>2, <2>3, CountTypes DEF Uses
<1>6. \A f \in Files : released[f] <= fRefs[f]
  BY <1>3, <1>5, Known
<1>7. /\ fRefs' \in [Files -> Nat]
      /\ file' \in [Files -> {"none", "opening", "opened", "failed", "deleted"}]
      /\ fd' \in [Files -> {"none", "open", "closed", "zero", "foreign"}]
      /\ \A f \in Files :
            /\ fRefs'[f] = fRefs[f] - released[f]
            /\ fRefs'[f] = 0 <=> file'[f] \in {"none", "deleted"}
            /\ fRefs'[f] > 0 \/ released[f] = 0 => file'[f] = file[f]
            /\ file'[f] \in {file[f], "deleted"}
  BY <1>1, <1>4, <1>6, UnrefFilesFacts
<1>8. ASSUME NEW f \in Files PROVE FileInv(f)'
  <2>1. /\ Uses(f)' = Uses(f) - released[f] /\ released[f] <= Uses(f) /\ released[f] \in Nat
        /\ fRefs'[f] = fRefs[f] - released[f]
        /\ fRefs'[f] = 0 <=> file'[f] \in {"none", "deleted"}
        /\ fRefs'[f] > 0 \/ released[f] = 0 => file'[f] = file[f]
        /\ file'[f] \in {file[f], "deleted"}
    BY <1>3, <1>5, <1>7
  <2>2. file[f] = "opening" => released[f] = 0
    BY <2>1, Known
  <2>3. file'[f] = "opening" <=> file[f] = "opening"
    BY <2>1, <2>2
  <2>4. Bit(file'[f] = "opening") = Bit(file[f] = "opening")
    BY <2>3 DEF Bit
  <2>5. /\ fRefs'[f] = Bit(fVar[f]) + Bit(reading[f]) + Bit(file'[f] = "opening") + Uses(f)'
        /\ file'[f] = "opening" => Uses(f)' = 0
    BY <2>1, <2>3, <2>4, Known
  <2> QED
    BY <1>1, <2>1, <2>5 DEF FileInv
<1>9. ASSUME NEW q \in Requests
      PROVE  /\ rRefs'[q] = Bit(rVar[q]) + Bit(pending[q]) + 2 * Bit(cb'.req = q)
             /\ rRefs'[q] \in Nat
  <2>1. Bit(cb'.req = q) = 0
    BY <1>1, KnownRequest DEF Bit, NoCallback
  <2>2. rRefs'[q] = IF q = cb.req THEN rRefs[q] - 2 ELSE rRefs[q]
    BY <1>1
  <2>3. Bit(cb.req = q) = IF q = cb.req THEN 1 ELSE 0
    BY DEF Bit
  <2> QED
    BY <2>1, <2>2, <2>3, KnownRequest
<1>10. RequestCounts' /\ rRefs' \in [Requests -> Nat]
  BY <1>1, <1>9 DEF RequestCounts
<1>11. BufferCount' /\ bRefs' \in Nat
  <2>1. bRefs = Bit(bVar) + Cardinality(Buffered) + Bit(CalledWithBuffer)
    BY DEF Inv, BufferCount
  <2>2. Bit(CalledWithBuffer) = (IF CalledWithBuffer THEN 1 ELSE 0)
    BY DEF Bit
  <2>3. Bit(CalledWithBuffer)' = 0
    BY <1>1 DEF Bit, CalledWithBuffer, NoCallback
  <2>4. bRefs' = (IF CalledWithBuffer THEN bRefs - 1 ELSE bRefs)
    BY <1>1 DEF CalledWithBuffer
  <2>5. Bit(bVar) \in {0, 1} /\ Cardinality(Buffered) \in Nat /\ Cardinality(Buffered)' = Cardinality(Buffered)
    BY <1>1, BitType, CountTypes, FrameRequests
  <2>6. bRefs' = Bit(bVar) + Cardinality(Buffered)' + Bit(CalledWithBuffer)' /\ bRefs' \in Nat
    BY <2>1, <2>2, <2>3, <2>4, <2>5
  <2> QED
    BY <1>1, <2>6 DEF BufferCount
<1>12. TypeOK'
  <2>1. cb' \in [req : Requests \union {NoRequest}, file : AnyFile, out : AnyFile, opened : AnyFile]
    BY <1>1 DEF NoCallback, AnyFile
  <2> QED
    BY <1>1, <1>2, <1>7, <1>10, <1>11, <2>1 DEF TypeOK
<1>13. WriteQueueExact'
  BY <1>1, FrameQueue
<1> QED
  BY <1>7, <1>8, <1>10, <1>11, <1>12, <1>13 DEF Inv
-----------------------------------------------------------------------------
(* The theorems.                                                           *)

\* There are no files at the beginning, and nothing is pending.
LEMMA InitInv == Init => Inv
<1> SUFFICES ASSUME Init PROVE Inv
  OBVIOUS
<1>1. TypeOK
  <2>1. class \in [Requests -> AllClasses]
    BY FileRequestsAssumption DEF Init
  <2>2. /\ props \in [Requests -> [file : AnyFile, out : AnyFile, size : Nat]]
        /\ cb \in [req : Requests \union {NoRequest}, file : AnyFile, out : AnyFile,
                   opened : AnyFile]
    BY DEF Init, NoProps, NoCallback, AnyFile
  <2> QED
    BY <2>1, <2>2 DEF Init, TypeOK
<1>2. Buffered = {} /\ \A f : RunningOn(f) = {} /\ SendingTo(f) = {}
  BY DEF Init, Buffered, RunningOn, SendingTo, Pending
<1>3. /\ Cardinality(Buffered) = 0
      /\ \A f : Cardinality(RunningOn(f)) = 0 /\ Cardinality(SendingTo(f)) = 0
  BY <1>2, FS_EmptySet
<1>4. \A f \in Files : FileInv(f)
  <2> TAKE f \in Files
  <2>1. CallbackRefs(f) = 0
    BY FileRequestsAssumption DEF Init, NoCallback, CallbackRefs, Times
  <2>2. Uses(f) = 0
    BY <1>3, <2>1 DEF Uses
  <2>3. Bit(fVar[f]) = 0 /\ Bit(reading[f]) = 0 /\ Bit(file[f] = "opening") = 0
    BY DEF Init, Bit
  <2>4. fRefs[f] = 0 /\ file[f] = "none"
    BY DEF Init
  <2> QED
    BY <2>2, <2>3, <2>4 DEF FileInv
<1>5. RequestCounts
  <2> SUFFICES ASSUME NEW r \in Requests
               PROVE  rRefs[r] = Bit(rVar[r]) + Bit(pending[r]) + 2 * Bit(cb.req = r)
    BY DEF RequestCounts
  <2>1. Bit(rVar[r]) = 1 /\ Bit(pending[r]) = 0 /\ Bit(cb.req = r) = 0
    BY FileRequestsAssumption DEF Init, Bit, NoCallback
  <2>2. rRefs[r] = 1
    BY DEF Init
  <2> QED
    BY <2>1, <2>2
<1>6. BufferCount
  <2>1. Bit(bVar) = 1 /\ Bit(CalledWithBuffer) = 0 /\ bRefs = 1
    BY DEF Init, Bit, CalledWithBuffer, NoCallback
  <2> QED
    BY <1>3, <2>1 DEF BufferCount
<1>7. WriteQueueExact
  <2> SUFFICES ASSUME NEW f \in Files PROVE Cardinality(BytesWaiting(f)) = 0
    BY DEF Init, WriteQueueExact
  <2>1. \A r \in Requests : WaitingSize(r, f) = 0
    BY WaitingIs DEF Init
  <2>2. BytesWaiting(f) = {}
    BY <2>1 DEF BytesWaiting
  <2> QED
    BY <2>2, FS_EmptySet
<1> QED
  BY <1>1, <1>4, <1>5, <1>6, <1>7 DEF Inv

\* The constructors and the variables of files.
LEMMA FileActionInv ==
    ASSUME Inv, NEW f \in Files, FileAction(f)
    PROVE  Inv'
<1>1. isClosing \in [Files -> BOOLEAN]
  BY DEF Inv, TypeOK
<1>2. CASE OpenSync(f) \/ OpenAsync(f) \/ OpenDescriptor(f)
  <2>1. isClosing' \in [Files -> BOOLEAN]
    BY <1>1, <1>2 DEF OpenSync, OpenAsync, OpenDescriptor
  <2>2. \/ NewFile(f, "opened", "open", 1) \/ NewFile(f, "failed", "none", 1)
        \/ NewFile(f, "opening", "none", 2) \/ NewFile(f, "failed", "zero", 1)
    BY <1>2 DEF OpenSync, OpenAsync, OpenDescriptor
  <2>3. CASE NewFile(f, "opened", "open", 1)
    BY <2>1, <2>3, NewFileInv
  <2>4. CASE NewFile(f, "failed", "none", 1)
    BY <2>1, <2>4, NewFileInv
  <2>5. CASE NewFile(f, "opening", "none", 2)
    BY <2>1, <2>5, NewFileInv
  <2>6. CASE NewFile(f, "failed", "zero", 1)
    BY <2>1, <2>6, NewFileInv
  <2> QED
    BY <2>2, <2>3, <2>4, <2>5, <2>6
<1>3. CASE DropFile(f) \/ ReadStart(f) \/ ReadStop(f)
  BY <1>3, DropFileInv, ReadingInv
<1> QED
  BY <1>2, <1>3 DEF FileAction

\* The run functions of a request on a file.
LEMMA RunFileInv ==
    ASSUME Inv, NEW r \in Requests, NEW f \in Files, RunFile(r, f)
    PROVE  Inv'
<1>1. CASE \E c \in {"read", "sync", "truncate", "stat", "chmod", "chown", "utime"} : RunOnFile(c, r, f)
  <2>1. {"read", "sync", "truncate", "stat", "chmod", "chown", "utime"}
           \subseteq AllClasses \ {"write", "sendfile"}
    BY DEF AllClasses, FileClasses, EitherClasses
  <2> QED
    BY <1>1, <2>1, RunOnFileInv
<1>2. CASE CloseRun(r, f)
  BY <1>2, CloseRunInv
<1>3. CASE \E n \in Sizes : WriteRun(r, f, n)
  BY <1>3, WriteRunInv
<1>4. CASE \E n \in Sizes, out \in AnyFile : SendfileRun(r, f, out, n)
  BY <1>4, SendfileRunInv
<1> QED
  BY <1>1, <1>2, <1>3, <1>4 DEF RunFile, ReadRun, SyncRun, TruncateRun, StatRunFile, ChmodRunFile,
     ChownRunFile, UtimeRunFile

\* The run functions of a request on a path.
LEMMA RunPathInv ==
    ASSUME Inv, NEW r \in Requests, RunPath(r)
    PROVE  Inv'
<1>1. PICK c \in EitherClasses \union PathClasses : RunOnPath(c, r)
  BY DEF RunPath, EitherClasses, PathClasses, StatRunPath, ChmodRunPath, ChownRunPath, UtimeRunPath,
     UnlinkRun, MkdirRun, MkdtempRun, RmdirRun, ScandirRun, RenameRun, AccessRun, LinkRun,
     ReadlinkRun, RealpathRun
<1>2. c \in AllClasses \ (FileClasses \union WithBuffer)
  BY DEF AllClasses, FileClasses, EitherClasses, PathClasses, WithBuffer
<1> QED
  BY <1>1, <1>2, RunOnPathInv

\* The callbacks of the requests.
LEMMA RequestCbInv ==
    ASSUME Inv, NEW r \in Requests, RequestCb(r)
    PROVE  Inv'
<1>1. CASE WriteCb(r) \/ SendfileCb(r) \/ CloseCb(r)
  BY <1>1, SpecialCbInv
<1>2. CASE \E c \in AllClasses \ {"write", "sendfile", "close"} : CompletedOnly(c, r)
  BY <1>2, CompletedOnlyInv
<1>3. RequestCb(r) => \/ WriteCb(r) \/ SendfileCb(r) \/ CloseCb(r)
                      \/ \E c \in AllClasses \ {"write", "sendfile", "close"} : CompletedOnly(c, r)
  BY DEF RequestCb, AllClasses, FileClasses, EitherClasses, PathClasses, ReadCb, SyncCb, TruncateCb,
     StatCb, ChmodCb, ChownCb, UtimeCb, UnlinkCb, MkdirCb, MkdtempCb, RmdirCb, ScandirCb, RenameCb,
     AccessCb, LinkCb, ReadlinkCb, RealpathCb
<1> QED
  BY <1>1, <1>2, <1>3

\* A step that changes nothing.
LEMMA StutterInv == Inv /\ UNCHANGED vars => Inv'
<1> SUFFICES ASSUME Inv, UNCHANGED vars PROVE Inv'
  OBVIOUS
<1>1. UNCHANGED <<fileState, class, pending, props, cb, rRefs, rVar, bRefs, bVar>>
  BY DEF vars, requestState, bufferState
<1>2. RequestCounts' /\ BufferCount'
  BY FrameCounts DEF vars
<1>3. TypeOK
  BY DEF Inv
<1> QED
  BY <1>1, <1>2, <1>3, OtherStep DEF TypeOK

\* Every step keeps the invariant.
LEMMA NextInv == Inv /\ [Next]_vars => Inv'
<1> SUFFICES ASSUME Inv, [Next]_vars PROVE Inv'
  OBVIOUS
<1>1. CASE \E f \in Files : FileAction(f) \/ OpenCb(f)
  BY <1>1, FileActionInv, OpenCbInv
<1>2. CASE \E r \in Requests :
              DropRequest(r) \/ RunPath(r) \/ RequestCb(r) \/ \E f \in Files : RunFile(r, f)
  BY <1>2, DropRequestInv, RunPathInv, RequestCbInv, RunFileInv
<1>3. CASE DropBuffer \/ Return
  BY <1>3, DropBufferInv, ReturnInv
<1>4. CASE UNCHANGED vars
  BY <1>4, StutterInv
<1> QED
  BY <1>1, <1>2, <1>3, <1>4 DEF Next

\* The inductive invariant holds in every state that the constructors, the
\* run functions and the callbacks reach.
THEOREM Invariance == Spec => []Inv
<1> QED
  BY InitInv, NextInv, PTL DEF Spec

\* The state of files and requests stays of its type; the write queue size
\* never goes below zero.
THEOREM TypeCorrect == Spec => []TypeOK
<1>1. Inv => TypeOK
  BY DEF Inv
<1> QED
  BY <1>1, Invariance, PTL

\* Constructors, run(), callbacks, read_start/stop and fs::close: the
\* counters of files, requests and the buffer are exact for any number of
\* them, in any order of completion, and a file is deleted when, and only
\* when, nothing refers to it.
THEOREM ReferencesCorrect == Spec => []ReferencesAccounted
<1>1. Inv => ReferencesAccounted
  <2> SUFFICES ASSUME Inv PROVE ReferencesAccounted
    OBVIOUS
  <2>1. \A f \in Files : /\ fRefs[f] = FileRefs(f)
                         /\ fRefs[f] = 0 <=> file[f] \in {"none", "deleted"}
    <3> TAKE f \in Files
    <3>1. FileRefs(f) = Bit(fVar[f]) + Bit(reading[f]) + Bit(file[f] = "opening") + CallbackRefs(f)
                          + Cardinality(RunningOn(f)) + Cardinality(SendingTo(f))
      BY DEF FileRefs
    <3>2. Uses(f) = CallbackRefs(f) + Cardinality(RunningOn(f)) + Cardinality(SendingTo(f))
      BY DEF Uses
    <3> QED
      BY <3>1, <3>2, Known, CountTypes
  <2>2. bRefs = Bit(bVar) + Cardinality({r \in Pending : class[r] \in WithBuffer})
                  + Bit(cb.req # NoRequest /\ class[cb.req] \in WithBuffer)
    BY DEF Inv, BufferCount, Buffered, CalledWithBuffer
  <2> QED
    BY <2>1, <2>2 DEF Inv, RequestCounts, ReferencesAccounted
<1> QED
  BY <1>1, Invariance, PTL

\* write::run(), write_cb(), sendfile::run(), sendfile_cb(): the write queue
\* size of a file is the number of bytes that wait to be written to it, for
\* any sizes and any number of requests in flight.
THEOREM QueueIsExact == Spec => []WriteQueueExact
<1>1. Inv => WriteQueueExact
  BY DEF Inv
<1> QED
  BY <1>1, Invariance, PTL

\* run() and the callbacks: as long as a request is pending or its callback
\* runs, the file that handle() returns is a valid instance.
THEOREM UsedFilesAreValid == Spec => []FileValidWhileUsed
<1>1. Inv => FileValidWhileUsed
  <2> SUFFICES ASSUME Inv, NEW f \in Files,
                      f \in {cb.file, cb.out, cb.opened}
                        \/ \E r \in Pending : f \in {props[r].file, props[r].out}
               PROVE  file[f] \in {"opened", "failed"}
    BY DEF FileValidWhileUsed
  <2>1. Uses(f) > 0
    <3>1. CASE f \in {cb.file, cb.out, cb.opened}
      <4>1. CallbackRefs(f) > 0
        BY <3>1 DEF CallbackRefs, Times
      <4> QED
        BY <4>1, CountTypes DEF Uses
    <3>2. CASE \E r \in Pending : f \in {props[r].file, props[r].out}
      <4>1. RunningOn(f) # {} \/ SendingTo(f) # {}
        BY <3>2 DEF RunningOn, SendingTo
      <4>2. Cardinality(RunningOn(f)) # 0 \/ Cardinality(SendingTo(f)) # 0
        BY <4>1, CountTypes, FS_EmptySet
      <4> QED
        BY <4>2, CountTypes DEF Uses
    <3> QED
      BY <3>1, <3>2
  <2>2. file[f] \in {"none", "opening", "opened", "failed", "deleted"}
    BY DEF Inv, TypeOK
  <2>3. fRefs[f] > 0 /\ file[f] # "opening"
    BY <2>1, Known
  <2> QED
    BY <2>2, <2>3, Known
<1> QED
  BY <1>1, Invariance, PTL

-----------------------------------------------------------------------------
(* Whose descriptor is closed.                                             *)

\* A file that an fs::close in flight is going to close has been marked.
CloseMarked ==
    \A r \in Requests :
        pending[r] /\ class[r] = "close" /\ props[r].file \in Files
            => isClosing[props[r].file]

\* What the state of a file tells about its descriptor, unless the file has
\* been marked.
DescriptorOf(f, state, descriptor) ==
    /\ state = "opened" => descriptor = "open"
    /\ state = "failed" =>
          descriptor = "none" \/ (descriptor = "zero" /\ "async" \in OpenWays[f])
    /\ state = "deleted" =>
          descriptor \in {"none", "closed"} \/ "async" \in OpenWays[f]

\* The inductive invariant of the descriptors.
DescriptorInv ==
    /\ CloseMarked
    /\ \A f \in Files : file[f] \in {"none", "opening"} => fd[f] = "none"
    /\ \A f \in Files : isClosing[f] \/ DescriptorOf(f, file[f], fd[f])

\* The mark of a file stays.
LEMMA MarkStays ==
    ASSUME Inv, [Next]_vars
    PROVE  /\ class' = class
           /\ \A f \in Files : isClosing[f] => isClosing'[f]
<1>1. ASSUME NEW f \in Files, FileAction(f) \/ OpenCb(f)
      PROVE  /\ class' = class
             /\ \A g \in Files : isClosing[g] => isClosing'[g]
  BY <1>1 DEF FileAction, OpenSync, OpenAsync, OpenDescriptor, NewFile, DropFile, ReadStart,
     ReadStop, OpenCb, requestState, Inv, TypeOK
<1>2. ASSUME NEW r \in Requests, RequestCb(r)
      PROVE  class' = class /\ isClosing' = isClosing
  BY <1>2 DEF RequestCb, CloseCb, ReadCb, SyncCb, TruncateCb, StatCb, ChmodCb, ChownCb,
     UtimeCb, UnlinkCb, MkdirCb, MkdtempCb, RmdirCb, ScandirCb, RenameCb, AccessCb, LinkCb,
     ReadlinkCb, RealpathCb, WriteCb, SendfileCb, CompletedOnly, Completed
<1>3. ASSUME NEW r \in Requests, RunPath(r)
      PROVE  class' = class /\ isClosing' = isClosing
  BY <1>3 DEF RunPath, StatRunPath, ChmodRunPath, ChownRunPath, UtimeRunPath, UnlinkRun,
     MkdirRun, MkdtempRun, RmdirRun, ScandirRun, RenameRun, AccessRun, LinkRun, ReadlinkRun,
     RealpathRun, RunOnPath, Launch, fileState
<1>4. ASSUME NEW r \in Requests, NEW f \in Files, RunFile(r, f)
      PROVE  /\ class' = class
             /\ \A g \in Files : isClosing[g] => isClosing'[g]
  BY <1>4 DEF RunFile, ReadRun, SyncRun, TruncateRun, StatRunFile, ChmodRunFile, ChownRunFile,
     UtimeRunFile, RunOnFile, CloseRun, WriteRun, SendfileRun, Launch, requestState,
     Inv, TypeOK
<1>5. CASE (\E r \in Requests : DropRequest(r)) \/ DropBuffer \/ Return \/ UNCHANGED vars
  BY <1>5 DEF DropRequest, DropBuffer, Return, vars, fileState, requestState
<1> QED
  BY <1>1, <1>2, <1>3, <1>4, <1>5 DEF Next

\* What becomes of a request that is going to close a file: it is run, which
\* marks the file, it completes, or nothing happens to it.
LEMMA CloseStep ==
    ASSUME Inv, [Next]_vars, NEW q \in Requests, class[q] = "close", pending'[q]
    PROVE  \/ pending[q] /\ props'[q] = props[q]
           \/ \E f \in Files : props'[q].file = f /\ isClosing'[f]
<1> DEFINE Same == pending[q] /\ props'[q] = props[q]
<1>1. ASSUME UNCHANGED <<pending, props>> PROVE Same
  BY <1>1
<1>2. ASSUME NEW r \in Requests, NEW p, Launch(r, p), class[r] # "close" PROVE Same
  BY <1>2 DEF Launch, Inv, TypeOK
<1>3. ASSUME NEW r \in Requests, NEW c, Completed(c, r) PROVE Same
  BY <1>3 DEF Completed, Inv, TypeOK
<1>4. ASSUME NEW f \in Files, FileAction(f) \/ OpenCb(f) PROVE Same
  BY <1>1, <1>4 DEF FileAction, OpenSync, OpenAsync, OpenDescriptor, NewFile, DropFile, ReadStart,
     ReadStop, OpenCb, requestState
<1>5. ASSUME NEW r \in Requests, RequestCb(r) PROVE Same
  BY <1>3, <1>5 DEF RequestCb, CloseCb, ReadCb, SyncCb, TruncateCb, StatCb, ChmodCb, ChownCb,
     UtimeCb, UnlinkCb, MkdirCb, MkdtempCb, RmdirCb, ScandirCb, RenameCb, AccessCb, LinkCb,
     ReadlinkCb, RealpathCb, WriteCb, SendfileCb, CompletedOnly
<1>6. ASSUME NEW r \in Requests, RunPath(r) PROVE Same
  BY <1>2, <1>6 DEF RunPath, StatRunPath, ChmodRunPath, ChownRunPath, UtimeRunPath, UnlinkRun,
     MkdirRun, MkdtempRun, RmdirRun, ScandirRun, RenameRun, AccessRun, LinkRun, ReadlinkRun,
     RealpathRun, RunOnPath, Runnable
<1>7. ASSUME NEW r \in Requests, NEW f \in Files, RunFile(r, f), ~CloseRun(r, f) PROVE Same
  BY <1>2, <1>7 DEF RunFile, ReadRun, SyncRun, TruncateRun, StatRunFile, ChmodRunFile,
     ChownRunFile, UtimeRunFile, RunOnFile, WriteRun, SendfileRun, Runnable
<1>8. ASSUME NEW r \in Requests, NEW f \in Files, CloseRun(r, f)
      PROVE  Same \/ (props'[q].file = f /\ isClosing'[f])
  <2>1. isClosing'[f]
    BY <1>8 DEF CloseRun, Inv, TypeOK
  <2>2. CASE UNCHANGED requestState
    BY <1>1, <2>2 DEF requestState
  <2>3. CASE Launch(r, [NoProps EXCEPT !.file = f])
    <3>1. CASE q = r
      BY <2>1, <2>3, <3>1 DEF Launch, NoProps, Inv, TypeOK
    <3>2. CASE q # r
      BY <2>3, <3>2 DEF Launch, Inv, TypeOK
    <3> QED
      BY <3>1, <3>2
  <2> QED
    BY <1>8, <2>2, <2>3 DEF CloseRun
<1>9. CASE (\E r \in Requests : DropRequest(r)) \/ DropBuffer \/ Return \/ UNCHANGED vars
  BY <1>1, <1>9 DEF DropRequest, DropBuffer, Return, vars, requestState
<1> QED
  BY <1>4, <1>5, <1>6, <1>7, <1>8, <1>9 DEF Next

\* A file is deleted, and its descriptor closed, once.
LEMMA UnrefDescriptors ==
    ASSUME Inv, DescriptorInv, NEW released, UnrefFiles(released), NEW f \in Files
    PROVE  /\ file'[f] \in {"none", "opening"} => fd'[f] = "none"
           /\ isClosing[f] \/ DescriptorOf(f, file'[f], fd'[f])
<1>1. /\ file[f] \in {"none", "opening"} => fd[f] = "none"
      /\ isClosing[f] \/ DescriptorOf(f, file[f], fd[f])
  BY DEF DescriptorInv
<1>2. CASE released[f] > 0 /\ fRefs[f] = released[f]
  <2>1. file'[f] = "deleted" /\ fd'[f] = Closed(fd[f])
    BY <1>2 DEF UnrefFiles
  <2>2. file[f] \in {"opening", "opened", "failed"}
    BY <1>2 DEF Inv, TypeOK, FileInv
  <2> QED
    BY <1>1, <2>1, <2>2 DEF DescriptorOf, Closed
<1>3. CASE ~(released[f] > 0 /\ fRefs[f] = released[f])
  <2>1. file'[f] = file[f] /\ fd'[f] = fd[f]
    BY <1>3 DEF UnrefFiles
  <2> QED
    BY <1>1, <2>1
<1> QED
  BY <1>2, <1>3

\* Whatever happens to a descriptor, its file says so.
LEMMA FileDescriptorStep ==
    ASSUME Inv, DescriptorInv, [Next]_vars, NEW f \in Files
    PROVE  /\ file'[f] \in {"none", "opening"} => fd'[f] = "none"
           /\ isClosing'[f] \/ DescriptorOf(f, file'[f], fd'[f])
<1>1. /\ file[f] \in {"none", "opening"} => fd[f] = "none"
      /\ isClosing[f] \/ DescriptorOf(f, file[f], fd[f])
      /\ isClosing[f] => isClosing'[f]
  BY MarkStays DEF DescriptorInv
<1>2. CASE file'[f] = file[f] /\ fd'[f] = fd[f]
  BY <1>1, <1>2
<1>3. ASSUME NEW g \in Files, NEW state, NEW descriptor, NEW n,
             NewFile(g, state, descriptor, n), DescriptorOf(g, state, descriptor),
             state \in {"none", "opening"} => descriptor = "none"
      PROVE  /\ file'[f] \in {"none", "opening"} => fd'[f] = "none"
             /\ isClosing'[f] \/ DescriptorOf(f, file'[f], fd'[f])
  <2>1. /\ file'[g] = state /\ fd'[g] = descriptor
        /\ g # f => file'[f] = file[f] /\ fd'[f] = fd[f]
    BY <1>3 DEF NewFile, Inv, TypeOK
  <2> QED
    BY <1>2, <1>3, <2>1
<1>4. ASSUME NEW g \in Files, OpenSync(g) \/ OpenAsync(g) \/ OpenDescriptor(g)
      PROVE  /\ file'[f] \in {"none", "opening"} => fd'[f] = "none"
             /\ isClosing'[f] \/ DescriptorOf(f, file'[f], fd'[f])
  <2>1. DescriptorOf(g, "opened", "open") /\ DescriptorOf(g, "failed", "none")
        /\ DescriptorOf(g, "opening", "none")
    BY DEF DescriptorOf
  <2>2. "async" \in OpenWays[g] => DescriptorOf(g, "failed", "zero")
    BY DEF DescriptorOf
  <2> QED
    BY <1>3, <1>4, <2>1, <2>2 DEF OpenSync, OpenAsync, OpenDescriptor
<1>5. ASSUME NEW g \in Files, OpenCb(g)
      PROVE  /\ file'[f] \in {"none", "opening"} => fd'[f] = "none"
             /\ isClosing'[f] \/ DescriptorOf(f, file'[f], fd'[f])
  <2>1. /\ g # f => file'[f] = file[f] /\ fd'[f] = fd[f]
        /\ file[g] = "opening"
        /\ \/ file'[g] = "opened" /\ fd'[g] = "open"
           \/ file'[g] = "failed" /\ fd'[g] = fd[g]
    BY <1>5 DEF OpenCb, Inv, TypeOK
  <2> QED
    BY <1>1, <1>2, <2>1 DEF DescriptorOf
<1>6. ASSUME NEW released, UnrefFiles(released)
      PROVE  /\ file'[f] \in {"none", "opening"} => fd'[f] = "none"
             /\ isClosing'[f] \/ DescriptorOf(f, file'[f], fd'[f])
  BY <1>1, <1>6, UnrefDescriptors
<1>7. ASSUME NEW g \in Files, FileAction(g)
      PROVE  /\ file'[f] \in {"none", "opening"} => fd'[f] = "none"
             /\ isClosing'[f] \/ DescriptorOf(f, file'[f], fd'[f])
  BY <1>2, <1>4, <1>6, <1>7 DEF FileAction, DropFile, ReadStart, ReadStop
<1>8. ASSUME NEW r \in Requests, NEW g \in Files, CloseRun(r, g)
      PROVE  /\ file'[f] \in {"none", "opening"} => fd'[f] = "none"
             /\ isClosing'[f] \/ DescriptorOf(f, file'[f], fd'[f])
  <2>1. /\ file' = file /\ isClosing'[g] /\ file[g] \in {"opened", "failed"}
        /\ g # f => fd'[f] = fd[f]
    BY <1>8 DEF CloseRun, Usable, Inv, TypeOK
  <2> QED
    BY <1>2, <2>1
<1>9. ASSUME NEW r \in Requests, NEW g \in Files, RunFile(r, g), ~CloseRun(r, g)
      PROVE  file'[f] = file[f] /\ fd'[f] = fd[f]
  BY <1>9 DEF RunFile, ReadRun, SyncRun, TruncateRun, StatRunFile, ChmodRunFile,
     ChownRunFile, UtimeRunFile, RunOnFile, WriteRun, SendfileRun
<1>10. ASSUME NEW r \in Requests, CloseCb(r)
       PROVE  /\ file'[f] \in {"none", "opening"} => fd'[f] = "none"
              /\ isClosing'[f] \/ DescriptorOf(f, file'[f], fd'[f])
  <2>1. /\ file' = file /\ isClosing' = isClosing
        /\ pending[r] /\ class[r] = "close"
        /\ f # props[r].file => fd'[f] = fd[f]
        /\ f = props[r].file => fd'[f] = Closed(fd[f])
    BY <1>10 DEF CloseCb, Completed, Inv, TypeOK
  <2>2. f = props[r].file => isClosing[f]
    BY <2>1 DEF DescriptorInv, CloseMarked
  <2>3. fd[f] = "none" => Closed(fd[f]) = "none"
    BY DEF Closed
  <2> QED
    BY <1>1, <1>2, <2>1, <2>2, <2>3
<1>11. ASSUME NEW r \in Requests, RequestCb(r), ~CloseCb(r)
       PROVE  file'[f] = file[f] /\ fd'[f] = fd[f]
  BY <1>11 DEF RequestCb, ReadCb, SyncCb, TruncateCb, StatCb, ChmodCb, ChownCb,
     UtimeCb, UnlinkCb, MkdirCb, MkdtempCb, RmdirCb, ScandirCb, RenameCb, AccessCb, LinkCb,
     ReadlinkCb, RealpathCb, WriteCb, SendfileCb, CompletedOnly, Completed
<1>12. ASSUME NEW r \in Requests, RunPath(r)
       PROVE  file'[f] = file[f] /\ fd'[f] = fd[f]
  BY <1>12 DEF RunPath, StatRunPath, ChmodRunPath, ChownRunPath, UtimeRunPath, UnlinkRun,
     MkdirRun, MkdtempRun, RmdirRun, ScandirRun, RenameRun, AccessRun, LinkRun, ReadlinkRun,
     RealpathRun, RunOnPath, fileState
<1>13. CASE (\E r \in Requests : DropRequest(r)) \/ DropBuffer \/ UNCHANGED vars
  BY <1>2, <1>13 DEF DropRequest, DropBuffer, vars, fileState
<1>14. CASE Return
  BY <1>6, <1>14 DEF Return
<1> QED
  BY <1>2, <1>5, <1>7, <1>8, <1>9, <1>10, <1>11, <1>12, <1>13, <1>14 DEF Next

\* The descriptors stay accounted for.
LEMMA DescriptorStep == Inv /\ DescriptorInv /\ [Next]_vars => DescriptorInv'
<1> SUFFICES ASSUME Inv, DescriptorInv, [Next]_vars PROVE DescriptorInv'
  OBVIOUS
<1>1. ASSUME NEW r \in Requests, pending'[r], class'[r] = "close", props'[r].file \in Files
      PROVE  isClosing'[props'[r].file]
  <2>1. class[r] = "close"
    BY <1>1, MarkStays
  <2>2. CASE pending[r] /\ props'[r] = props[r]
    BY <1>1, <2>1, <2>2, MarkStays DEF DescriptorInv, CloseMarked
  <2> QED
    BY <1>1, <2>1, <2>2, CloseStep
<1>2. CloseMarked'
  BY <1>1 DEF CloseMarked
<1> QED
  BY <1>2, FileDescriptorStep DEF DescriptorInv

\* uv_fs_interface::close(), fs::close, file: as long as is_closing is not
\* set an opened file has its own descriptor, and only a file that has been
\* marked, or an asynchronous open that libuv can have refused, ever closes
\* a descriptor that is not its own.
THEOREM DescriptorsAreOwn == Spec => []OwnDescriptor
<1>1. Init => DescriptorInv
  BY DEF Init, DescriptorInv, DescriptorOf, CloseMarked
<1>2. Inv /\ DescriptorInv => OwnDescriptor
  BY DEF Inv, TypeOK, DescriptorInv, DescriptorOf, OwnDescriptor
<1> QED
  BY <1>1, <1>2, DescriptorStep, Invariance, PTL DEF Spec
=============================================================================
