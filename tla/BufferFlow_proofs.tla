-------------------------- MODULE BufferFlow_proofs --------------------------
(***************************************************************************)
(* Proofs about BufferFlow and the layout in Buffer, for any number of     *)
(* buffers, variables and endpoints, any shapes and any nesting of sinks:  *)
(* buffers, endpoints and the output request are counted exactly, but for  *)
(* the references that a refused uv_fs_read() loses, which keep their      *)
(* buffer for good; any other buffer is there exactly as long as something *)
(* refers to it, revived by its sink or not, it is deleted once, and its   *)
(* chunks are laid out in one allocation without a gap.                    *)
(***************************************************************************)
EXTENDS BufferFlow, FiniteSetTheorems, TLAPS

-----------------------------------------------------------------------------
(* The stack of running callbacks.                                         *)

\* What a variable or a callback parameter can refer to.
Maybe == Buffers \union {NoBuffer}

\* A running callback.
FrameType ==
    [kind : {"sink", "read", "output", "end", "next", "after"}, of : Maybe, buf : Maybe]

\* The callbacks that libuv calls; a sink is called by unref().
Calls == {"read", "output", "end", "next", "after"}

\* Mirrors SinkRunning, Running and the second term of UserRefs for a stack.
SinkIn(s, b) == \E i \in DOMAIN s : s[i].kind = "sink" /\ s[i].of = b
Runs(s, k) == \E i \in DOMAIN s : s[i].kind = k
FrameRefs(s, b) == Cardinality({i \in DOMAIN s : s[i].buf = b})

\* Only sinks are called inside another callback, each with its own buffer,
\* and no sink inside itself; the frames that are no callbacks have no buffer.
StackInv(s) ==
    /\ s \in Seq(FrameType)
    /\ \A i \in DOMAIN s :
          /\ i > 1 => s[i].kind = "sink"
          /\ s[i].kind = "sink" => s[i].of \in Buffers /\ s[i].buf \in {NoBuffer, s[i].of}
          /\ s[i].kind \in {"end", "next", "after"} => s[i].buf = NoBuffer
    /\ \A i, j \in DOMAIN s :
          s[i].kind = "sink" /\ s[j].kind = "sink" /\ s[i].of = s[j].of => i = j

\* The frames that refer to a buffer can be counted.
LEMMA FrameRefsType ==
  ASSUME NEW s \in Seq(FrameType), NEW b
  PROVE  FrameRefs(s, b) \in Nat /\ IsFiniteSet({i \in DOMAIN s : s[i].buf = b})
<1>1. IsFiniteSet(1 .. Len(s))
  BY FS_Interval
<1>2. {i \in DOMAIN s : s[i].buf = b} \subseteq 1 .. Len(s)
  OBVIOUS
<1> QED
  BY <1>1, <1>2, FS_Subset, FS_CardinalityType DEF FrameRefs

\* A callback that is called adds the reference of its parameter.
LEMMA PushRefs ==
  ASSUME NEW s \in Seq(FrameType), NEW f \in FrameType, NEW b
  PROVE  FrameRefs(Append(s, f), b) = FrameRefs(s, b) + (IF f.buf = b THEN 1 ELSE 0)
<1> DEFINE A == {i \in DOMAIN s : s[i].buf = b}
           B == {i \in DOMAIN Append(s, f) : Append(s, f)[i].buf = b}
           n == Len(s) + 1
<1>1. IsFiniteSet(A) /\ Cardinality(A) \in Nat
  BY FrameRefsType DEF FrameRefs
<1>2. n \notin A
  OBVIOUS
<1>3. B = IF f.buf = b THEN A \union {n} ELSE A
  OBVIOUS
<1>4. FrameRefs(s, b) = Cardinality(A) /\ FrameRefs(Append(s, f), b) = Cardinality(B)
  BY DEF FrameRefs
<1> HIDE DEF A, B, n
<1>5. Cardinality(A \union {n}) = Cardinality(A) + 1
  BY <1>1, <1>2, FS_AddElement
<1> QED
  BY <1>3, <1>4, <1>5, <1>1

\* A callback that returns takes the reference of its parameter with it.
LEMMA PopRefs ==
  ASSUME NEW s \in Seq(FrameType), s # <<>>, NEW b
  PROVE  FrameRefs(s, b) = FrameRefs(Front(s), b) + (IF Last(s).buf = b THEN 1 ELSE 0)
<1>1. Front(s) \in Seq(FrameType) /\ Last(s) \in FrameType /\ s = Append(Front(s), Last(s))
  BY DEF Front, Last
<1> QED
  BY <1>1, PushRefs, ZenonT(30)

\* What remains of a stack under its top.
LEMMA FrontFacts ==
  ASSUME NEW s \in Seq(FrameType), s # <<>>
  PROVE  /\ Front(s) \in Seq(FrameType)
         /\ Len(s) \in Nat \ {0}
         /\ DOMAIN s = 1 .. Len(s)
         /\ DOMAIN Front(s) = 1 .. (Len(s) - 1)
         /\ Len(Front(s)) = Len(s) - 1
         /\ \A i \in 1 .. (Len(s) - 1) : Front(s)[i] = s[i]
         /\ Last(s) = s[Len(s)] /\ Last(s) \in FrameType
  BY DEF Front, Last

\* A stack with one more frame.
LEMMA AppendFacts ==
  ASSUME NEW s \in Seq(FrameType), NEW f \in FrameType
  PROVE  /\ DOMAIN Append(s, f) = 1 .. (Len(s) + 1)
         /\ Append(s, f)[Len(s) + 1] = f
         /\ \A i \in 1 .. Len(s) : Append(s, f)[i] = s[i]
  OBVIOUS

\* A callback that libuv calls is alone on the stack.
LEMMA SingleStack ==
  ASSUME NEW f \in FrameType, f.kind # "sink",
         f.kind \in {"end", "next", "after"} => f.buf = NoBuffer
  PROVE  /\ StackInv(<<f>>)
         /\ \A k \in Calls : Runs(<<f>>, k) <=> f.kind = k
         /\ \A b \in Buffers : ~SinkIn(<<f>>, b)
         /\ \A b \in Buffers : FrameRefs(<<f>>, b) = IF f.buf = b THEN 1 ELSE 0
<1>1. <<f>> = Append(<<>>, f) /\ <<>> \in Seq(FrameType) /\ <<f>> \in Seq(FrameType)
  OBVIOUS
<1>2. \A b \in Buffers : FrameRefs(<<>>, b) = 0
  BY FS_EmptySet DEF FrameRefs
<1>3. \A b \in Buffers : FrameRefs(<<f>>, b) = IF f.buf = b THEN 1 ELSE 0
  <2> TAKE b \in Buffers
  <2>1. FrameRefs(Append(<<>>, f), b) = FrameRefs(<<>>, b) + (IF f.buf = b THEN 1 ELSE 0)
    BY PushRefs, <1>1
  <2> QED
    BY <1>1, <1>2, <2>1
<1>4. DOMAIN <<f>> = {1} /\ <<f>>[1] = f
  OBVIOUS
<1>5. StackInv(<<f>>)
  BY <1>1, <1>4 DEF StackInv
<1> QED
  BY <1>3, <1>4, <1>5 DEF Runs, Calls, SinkIn

\* No callback is running.
LEMMA EmptyStack ==
  /\ StackInv(<<>>)
  /\ \A k \in Calls : ~Runs(<<>>, k)
  /\ \A b \in Buffers : ~SinkIn(<<>>, b)
  /\ \A b \in Buffers : FrameRefs(<<>>, b) = 0
  BY FS_EmptySet DEF StackInv, Runs, SinkIn, FrameRefs

\* A callback on top that is not a sink is the only one.
LEMMA TopAlone ==
  ASSUME NEW s, StackInv(s), s # <<>>, Last(s).kind # "sink"
  PROVE  s = <<Last(s)>> /\ Front(s) = <<>> /\ Last(s) \in FrameType
<1>1. s \in Seq(FrameType) /\ Len(s) \in Nat \ {0} /\ Len(s) \in DOMAIN s /\ Last(s) = s[Len(s)]
  BY DEF StackInv, Last
<1>2. Len(s) = 1
  <2>1. \A i \in DOMAIN s : i > 1 => s[i].kind = "sink"
    BY DEF StackInv
  <2>2. s[Len(s)].kind # "sink"
    BY <1>1
  <2>3. ~(Len(s) > 1)
    BY <1>1, <2>1, <2>2
  <2> QED
    BY <1>1, <2>3
<1> QED
  BY <1>1, <1>2 DEF Front

\* destroy() calls the sink of a buffer whose sink is not running.
LEMMA PushSink ==
  ASSUME NEW s, StackInv(s), NEW b \in Buffers, ~SinkIn(s, b)
  PROVE  /\ StackInv(Append(s, Frame("sink", b, b)))
         /\ \A k \in Calls : Runs(Append(s, Frame("sink", b, b)), k) <=> Runs(s, k)
         /\ \A d \in Buffers : SinkIn(Append(s, Frame("sink", b, b)), d) <=> SinkIn(s, d) \/ d = b
         /\ \A d \in Buffers :
               FrameRefs(Append(s, Frame("sink", b, b)), d)
                   = FrameRefs(s, d) + IF b = d THEN 1 ELSE 0
<1> DEFINE t == Append(s, Frame("sink", b, b))
<1> DEFINE f == Frame("sink", b, b)
<1>1. f \in FrameType /\ f.kind = "sink" /\ f.of = b /\ f.buf = b
  BY DEF Frame, FrameType, Maybe
<1> HIDE DEF f
<1>2. s \in Seq(FrameType) /\ t \in Seq(FrameType) /\ t = Append(s, f)
  BY <1>1 DEF StackInv, f
<1>3. /\ DOMAIN t = (DOMAIN s) \union {Len(s) + 1}
      /\ Len(s) + 1 \notin DOMAIN s
      /\ \A i \in DOMAIN s : t[i] = s[i]
      /\ t[Len(s) + 1] = f
  BY <1>2
<1>4. StackInv(t)
  <2>1. \A i \in DOMAIN t :
          /\ i > 1 => t[i].kind = "sink"
          /\ t[i].kind = "sink" => t[i].of \in Buffers /\ t[i].buf \in {NoBuffer, t[i].of}
          /\ t[i].kind \in {"end", "next", "after"} => t[i].buf = NoBuffer
    BY <1>1, <1>3 DEF StackInv
  <2>2. \A i, j \in DOMAIN t :
          t[i].kind = "sink" /\ t[j].kind = "sink" /\ t[i].of = t[j].of => i = j
    BY <1>1, <1>3 DEF StackInv, SinkIn
  <2> QED
    BY <1>2, <2>1, <2>2 DEF StackInv
<1>5. \A k \in Calls : Runs(t, k) <=> Runs(s, k)
  BY <1>1, <1>3 DEF Runs, Calls
<1>6. \A d \in Buffers : SinkIn(t, d) <=> SinkIn(s, d) \/ d = b
  BY <1>1, <1>3 DEF SinkIn
<1>7. \A d \in Buffers : FrameRefs(t, d) = FrameRefs(s, d) + IF b = d THEN 1 ELSE 0
  BY <1>1, <1>2, PushRefs
<1> QED
  BY <1>4, <1>5, <1>6, <1>7

\* A sink returns: it is no longer on the stack, below its top either.
LEMMA PopSink ==
  ASSUME NEW s, StackInv(s), s # <<>>, Last(s).kind = "sink"
  PROVE  /\ StackInv(Front(s))
         /\ Last(s).of \in Buffers
         /\ Last(s).buf \in {NoBuffer, Last(s).of}
         /\ SinkIn(s, Last(s).of)
         /\ \A k \in Calls : Runs(Front(s), k) <=> Runs(s, k)
         /\ \A d \in Buffers : SinkIn(Front(s), d) => SinkIn(s, d) /\ d # Last(s).of
         /\ \A d \in Buffers : FrameRefs(s, d) = FrameRefs(Front(s), d) + IF Last(s).buf = d THEN 1 ELSE 0
<1> DEFINE t == Front(s)
<1>1. s \in Seq(FrameType) /\ t \in Seq(FrameType)
  BY DEF StackInv, Front
<1>2. /\ DOMAIN s = (DOMAIN t) \union {Len(s)}
      /\ Len(s) \notin DOMAIN t
      /\ \A i \in DOMAIN t : t[i] = s[i]
      /\ s[Len(s)] = Last(s)
  <2>1. /\ Len(s) \in Nat \ {0}
        /\ DOMAIN s = 1 .. Len(s)
        /\ DOMAIN t = 1 .. (Len(s) - 1)
        /\ \A i \in 1 .. (Len(s) - 1) : t[i] = s[i]
        /\ Last(s) = s[Len(s)]
    BY <1>1, FrontFacts
  <2>2. 1 .. Len(s) = (1 .. (Len(s) - 1)) \union {Len(s)}
    BY <2>1
  <2> QED
    BY <2>1, <2>2
<1>3. StackInv(t)
  <2>1. \A i \in DOMAIN t : i \in DOMAIN s /\ t[i] = s[i]
    BY <1>2
  <2> HIDE DEF Front
  <2> QED
    BY <1>1, <2>1 DEF StackInv
<1>4. Last(s).of \in Buffers /\ Last(s).buf \in {NoBuffer, Last(s).of} /\ SinkIn(s, Last(s).of)
  BY <1>1, <1>2 DEF StackInv, SinkIn
<1>5. \A k \in Calls : Runs(t, k) <=> Runs(s, k)
  BY <1>2 DEF Runs, Calls
<1>6. \A d \in Buffers : SinkIn(t, d) => SinkIn(s, d) /\ d # Last(s).of
  <2>1. \A i, j \in DOMAIN s :
          s[i].kind = "sink" /\ s[j].kind = "sink" /\ s[i].of = s[j].of => i = j
    BY DEF StackInv
  <2> QED
    BY <1>2, <2>1 DEF SinkIn
<1>7. \A d \in Buffers : FrameRefs(s, d) = FrameRefs(t, d) + IF Last(s).buf = d THEN 1 ELSE 0
  BY <1>1, PopRefs
<1> QED
  BY <1>3, <1>4, <1>5, <1>6, <1>7

\* The innermost callback has moved from its parameter.
LEMMA EmptyTop ==
  ASSUME NEW s, StackInv(s), s # <<>>
  PROVE  /\ StackInv(Append(Front(s), [Last(s) EXCEPT !.buf = NoBuffer]))
         /\ \A k \in Calls : Runs(Append(Front(s), [Last(s) EXCEPT !.buf = NoBuffer]), k) <=> Runs(s, k)
         /\ \A d \in Buffers : SinkIn(Append(Front(s), [Last(s) EXCEPT !.buf = NoBuffer]), d) <=> SinkIn(s, d)
         /\ \A d \in Buffers :
               FrameRefs(s, d)
                   = FrameRefs(Append(Front(s), [Last(s) EXCEPT !.buf = NoBuffer]), d)
                         + IF Last(s).buf = d THEN 1 ELSE 0
<1> DEFINE t == Append(Front(s), [Last(s) EXCEPT !.buf = NoBuffer])
<1> DEFINE f == [Last(s) EXCEPT !.buf = NoBuffer]
<1>1. s \in Seq(FrameType) /\ Front(s) \in Seq(FrameType) /\ Last(s) \in FrameType
  BY DEF StackInv, Front, Last
<1>2. f \in FrameType /\ f.kind = Last(s).kind /\ f.of = Last(s).of /\ f.buf = NoBuffer
  BY <1>1 DEF FrameType, Maybe
<1> HIDE DEF f
<1>3. t \in Seq(FrameType) /\ t = Append(Front(s), f)
  BY <1>1, <1>2 DEF f
<1>4. /\ DOMAIN t = DOMAIN s
      /\ \A i \in DOMAIN s : i # Len(s) => t[i] = s[i]
      /\ t[Len(s)] = f
      /\ s[Len(s)] = Last(s)
  <2>1. /\ Len(s) \in Nat \ {0}
        /\ DOMAIN s = 1 .. Len(s)
        /\ Len(Front(s)) = Len(s) - 1
        /\ \A i \in 1 .. (Len(s) - 1) : Front(s)[i] = s[i]
        /\ Last(s) = s[Len(s)]
    BY <1>1, FrontFacts
  <2>2. /\ DOMAIN t = 1 .. Len(s)
        /\ t[Len(s)] = f
        /\ \A i \in 1 .. (Len(s) - 1) : t[i] = Front(s)[i]
    <3>1. /\ DOMAIN t = 1 .. (Len(Front(s)) + 1)
          /\ t[Len(Front(s)) + 1] = f
          /\ \A i \in 1 .. Len(Front(s)) : t[i] = Front(s)[i]
      BY <1>1, <1>2, <1>3, AppendFacts
    <3>2. Len(Front(s)) + 1 = Len(s)
      BY <2>1
    <3> QED
      BY <2>1, <3>1, <3>2
  <2>3. \A i \in DOMAIN s : i # Len(s) => i \in 1 .. (Len(s) - 1)
    BY <2>1
  <2> QED
    BY <2>1, <2>2, <2>3
<1>5. \A i \in DOMAIN s : /\ t[i].kind = s[i].kind
                          /\ t[i].of = s[i].of
                          /\ t[i].buf \in {NoBuffer, s[i].buf}
  BY <1>2, <1>4
<1>6. StackInv(t)
  BY <1>3, <1>4, <1>5 DEF StackInv
<1>7. \A d \in Buffers :
        FrameRefs(s, d) = FrameRefs(t, d) + IF Last(s).buf = d THEN 1 ELSE 0
  <2> TAKE d \in Buffers
  <2>1. FrameRefs(t, d) = FrameRefs(Front(s), d) + (IF f.buf = d THEN 1 ELSE 0)
    BY <1>1, <1>2, <1>3, PushRefs
  <2>2. FrameRefs(s, d) = FrameRefs(Front(s), d) + (IF Last(s).buf = d THEN 1 ELSE 0)
    BY <1>1, PopRefs
  <2>3. f.buf # d /\ FrameRefs(Front(s), d) \in Nat
    BY <1>1, <1>2, FrameRefsType, BufferAssumption
  <2> QED
    BY <2>1, <2>2, <2>3
<1> QED
  BY <1>4, <1>5, <1>6, <1>7 DEF Runs, Calls, SinkIn

-----------------------------------------------------------------------------
(* The inductive invariant, and how assignments change the counters.       *)

\* The variables that refer to b, when they have the values f.
Refs(f, b) == Cardinality({v \in Vars : f[v] = b})

\* The types of what refers to buffers.
BufferTypes ==
    /\ life \in [Buffers -> {"none", "alive", "freed"}]
    /\ count \in [Buffers -> Nat]
    /\ sink \in [Buffers -> BOOLEAN]
    /\ var \in [Vars -> Maybe]
    /\ lent \in Maybe
    /\ leaked \in [Buffers -> Nat]
    /\ busy \in BOOLEAN
    /\ busy => outbuf \in Buffers

\* A buffer exists while it is counted, and while its sink is running.
LifeInv(lf, c, s) ==
    \A d \in Buffers : /\ lf[d] = "alive" <=> c[d] > 0
                       /\ SinkIn(s, d) => c[d] > 0

\* The references of libuv, the chunk it reads into and the output in flight,
\* and those that are lost.
Chunks(d) ==
    (IF lent = d THEN 1 ELSE 0) + ((IF busy /\ outbuf = d THEN 1 ELSE 0) + leaked[d])

\* The counters of the buffers are exact.
Accounted ==
    \A d \in Buffers : count[d] = Refs(var, d) + FrameRefs(frames, d) + Chunks(d)

\* The part of the invariant about buffers.
BufferInv ==
    /\ BufferTypes
    /\ StackInv(frames)
    /\ LifeInv(life, count, frames)
    /\ Accounted

\* The variables that refer to a buffer can be counted.
LEMMA RefsType ==
  ASSUME NEW f, NEW b
  PROVE  Refs(f, b) \in Nat /\ IsFiniteSet({v \in Vars : f[v] = b})
<1>1. IsFiniteSet(Vars)
  BY BufferAssumption
<1>2. {v \in Vars : f[v] = b} \subseteq Vars
  OBVIOUS
<1> QED
  BY <1>1, <1>2, FS_Subset, FS_CardinalityType DEF Refs

\* A variable that refers to a buffer is counted.
LEMMA RefsPositive ==
  ASSUME NEW f, NEW b, NEW v \in Vars, f[v] = b
  PROVE  Refs(f, b) > 0
<1> DEFINE A == {w \in Vars : f[w] = b}
<1>1. v \in A
  OBVIOUS
<1>2. IsFiniteSet(A) /\ Cardinality(A) \in Nat /\ Refs(f, b) = Cardinality(A)
  BY RefsType DEF Refs
<1> HIDE DEF A
<1> QED
  BY <1>1, <1>2, FS_EmptySet

\* An assignment to one variable moves one reference.
LEMMA RefsAssign ==
  ASSUME NEW f \in [Vars -> Maybe], NEW g \in [Vars -> Maybe], NEW v \in Vars, NEW b,
         \A w \in Vars : w # v => g[w] = f[w]
  PROVE  Refs(g, b) + (IF f[v] = b THEN 1 ELSE 0) = Refs(f, b) + (IF g[v] = b THEN 1 ELSE 0)
<1> DEFINE A == {w \in Vars : f[w] = b}
           B == {w \in Vars : g[w] = b}
           C == A \ {v}
<1>1. /\ v \notin C
      /\ A = IF f[v] = b THEN C \union {v} ELSE C
      /\ B = IF g[v] = b THEN C \union {v} ELSE C
  OBVIOUS
<1>2. IsFiniteSet(A) /\ Refs(f, b) = Cardinality(A) /\ Refs(g, b) = Cardinality(B)
  BY RefsType DEF Refs
<1>3. IsFiniteSet(C)
  BY <1>2, FS_Subset
<1> HIDE DEF A, B, C
<1>4. Cardinality(C) \in Nat /\ Cardinality(C \union {v}) = Cardinality(C) + 1
  BY <1>1, <1>3, FS_AddElement, FS_CardinalityType
<1>5. Cardinality(A) = Cardinality(C) + (IF f[v] = b THEN 1 ELSE 0)
  BY <1>1, <1>4
<1>6. Cardinality(B) = Cardinality(C) + (IF g[v] = b THEN 1 ELSE 0)
  BY <1>1, <1>4
<1> QED
  BY <1>2, <1>4, <1>5, <1>6

\* The references of libuv are a number.
LEMMA ChunksType ==
  ASSUME leaked \in [Buffers -> Nat], NEW d \in Buffers
  PROVE  Chunks(d) \in Nat
<1>1. (IF lent = d THEN 1 ELSE 0) \in Nat /\ leaked[d] \in Nat
  OBVIOUS
<1>2. (IF busy /\ outbuf = d THEN 1 ELSE 0) \in Nat
  OBVIOUS
<1> QED
  BY <1>1, <1>2 DEF Chunks

\* The buffer of a variable is counted.
LEMMA Held ==
  ASSUME BufferInv, NEW v \in Vars, var[v] # NoBuffer
  PROVE  var[v] \in Buffers /\ count[var[v]] > 0
<1>1. var[v] \in Buffers
  BY DEF BufferInv, BufferTypes, Maybe
<1>2. Refs(var, var[v]) \in Nat /\ Refs(var, var[v]) > 0
  BY RefsType, RefsPositive
<1>3. FrameRefs(frames, var[v]) \in Nat /\ Chunks(var[v]) \in Nat
  BY <1>1, FrameRefsType, ChunksType DEF BufferInv, BufferTypes, StackInv
<1>4. count[var[v]] = Refs(var, var[v]) + FrameRefs(frames, var[v]) + Chunks(var[v])
  BY <1>1 DEF BufferInv, Accounted
<1> QED
  BY <1>1, <1>2, <1>3, <1>4

\* The buffer of the innermost callback is counted.
LEMMA ParameterHeld ==
  ASSUME BufferInv, frames # <<>>, Last(frames).buf # NoBuffer
  PROVE  Last(frames).buf \in Buffers /\ count[Last(frames).buf] > 0
<1> DEFINE b == Last(frames).buf
<1>1. frames \in Seq(FrameType)
  BY DEF BufferInv, StackInv
<1>2. b \in Buffers
  BY <1>1, FrontFacts DEF FrameType, Maybe
<1>3. FrameRefs(frames, b) = FrameRefs(Front(frames), b) + 1
  BY <1>1, PopRefs
<1>4. FrameRefs(Front(frames), b) \in Nat
  BY <1>1, FrontFacts, FrameRefsType
<1>5. Refs(var, b) \in Nat /\ Chunks(b) \in Nat
  BY <1>2, RefsType, ChunksType DEF BufferInv, BufferTypes
<1>6. count[b] = Refs(var, b) + FrameRefs(frames, b) + Chunks(b)
  BY <1>2 DEF BufferInv, Accounted
<1> QED
  BY <1>2, <1>3, <1>4, <1>5, <1>6

\* unref() keeps the life of the buffers right, and the counters change by
\* what the stack gains: one reference less, or the reference of the sink's
\* parameter instead of it.
LEMMA UnrefStep ==
  ASSUME BufferTypes, NEW b \in Buffers, NEW c \in [Buffers -> Nat], NEW s,
         StackInv(s), LifeInv(life, c, s), c[b] > 0, SinkIn(s, b) => c[b] > 1,
         Unref(b, c, s)
  PROVE  /\ count' \in [Buffers -> Nat]
         /\ life' \in [Buffers -> {"none", "alive", "freed"}]
         /\ StackInv(frames')
         /\ LifeInv(life', count', frames')
         /\ \A k \in Calls : Runs(frames', k) <=> Runs(s, k)
         /\ \A d \in Buffers :
               count'[d] + FrameRefs(s, d) + (IF b = d THEN 1 ELSE 0)
                   = c[d] + FrameRefs(frames', d)
<1>1. /\ life \in [Buffers -> {"none", "alive", "freed"}]
      /\ sink[b] \in BOOLEAN
      /\ \A d \in Buffers : c[d] \in Nat
      /\ \A d \in Buffers : FrameRefs(s, d) \in Nat
  BY FrameRefsType DEF BufferTypes, StackInv
<1>2. CASE c[b] = 1 /\ sink[b]
  <2>1. /\ count' = [c EXCEPT ![b] = 1]
        /\ life' = [life EXCEPT ![b] = life[b]]
        /\ frames' = Append(s, Frame("sink", b, b))
    BY <1>2 DEF Unref
  <2>2. count' \in [Buffers -> Nat] /\ \A d \in Buffers : count'[d] = c[d]
    BY <1>2, <2>1
  <2>3. life' = life
    BY <1>1, <2>1
  <2>4. ~SinkIn(s, b)
    BY <1>2
  <2>5. /\ StackInv(frames')
        /\ \A k \in Calls : Runs(frames', k) <=> Runs(s, k)
        /\ \A d \in Buffers : SinkIn(frames', d) <=> SinkIn(s, d) \/ d = b
        /\ \A d \in Buffers : FrameRefs(frames', d) = FrameRefs(s, d) + IF b = d THEN 1 ELSE 0
    BY <2>1, <2>4, PushSink
  <2>6. LifeInv(life', count', frames')
    BY <2>2, <2>3, <2>5 DEF LifeInv
  <2>7. \A d \in Buffers :
          count'[d] + FrameRefs(s, d) + (IF b = d THEN 1 ELSE 0)
              = c[d] + FrameRefs(frames', d)
    BY <1>1, <2>2, <2>5
  <2> QED
    BY <1>1, <2>2, <2>3, <2>5, <2>6, <2>7
<1>3. CASE ~(c[b] = 1 /\ sink[b])
  <2>1. /\ count' = [c EXCEPT ![b] = c[b] - 1]
        /\ life' = [life EXCEPT ![b] = IF c[b] = 1 THEN "freed" ELSE life[b]]
        /\ frames' = s
    BY <1>1, <1>3 DEF Unref
  <2>2. /\ count' \in [Buffers -> Nat]
        /\ \A d \in Buffers : count'[d] = IF d = b THEN c[d] - 1 ELSE c[d]
    BY <1>1, <2>1
  <2>3. /\ life' \in [Buffers -> {"none", "alive", "freed"}]
        /\ \A d \in Buffers : life'[d] = IF d = b /\ c[b] = 1 THEN "freed" ELSE life[d]
    BY <1>1, <2>1
  <2>4. LifeInv(life', count', frames')
    BY <1>1, <2>1, <2>2, <2>3 DEF LifeInv
  <2>5. \A d \in Buffers :
          count'[d] + FrameRefs(s, d) + (IF b = d THEN 1 ELSE 0)
              = c[d] + FrameRefs(frames', d)
    BY <1>1, <2>1, <2>2
  <2> QED
    BY <2>1, <2>2, <2>3, <2>4, <2>5
<1> QED
  BY <1>2, <1>3

\* The same for an assignment to a variable, which unrefs the buffer that
\* the variable referred to.
LEMMA AssignStep ==
  ASSUME BufferTypes, NEW v \in Vars, NEW x \in Maybe, NEW c \in [Buffers -> Nat], NEW s,
         StackInv(s), LifeInv(life, c, s),
         var[v] # NoBuffer => c[var[v]] > 0 /\ (SinkIn(s, var[v]) => c[var[v]] > 1),
         Assign(v, x, c, s)
  PROVE  /\ count' \in [Buffers -> Nat]
         /\ life' \in [Buffers -> {"none", "alive", "freed"}]
         /\ var' \in [Vars -> Maybe]
         /\ StackInv(frames')
         /\ LifeInv(life', count', frames')
         /\ \A k \in Calls : Runs(frames', k) <=> Runs(s, k)
         /\ \A d \in Buffers :
               count'[d] + FrameRefs(s, d) + Refs(var, d) + (IF x = d THEN 1 ELSE 0)
                   = c[d] + FrameRefs(frames', d) + Refs(var', d)
<1>1. /\ var \in [Vars -> Maybe]
      /\ life \in [Buffers -> {"none", "alive", "freed"}]
      /\ var' = [var EXCEPT ![v] = x]
      /\ var' \in [Vars -> Maybe]
      /\ \A d \in Buffers : c[d] \in Nat /\ d # NoBuffer
  BY BufferAssumption DEF BufferTypes, Assign
<1>2. \A d \in Buffers :
        Refs(var', d) + (IF var[v] = d THEN 1 ELSE 0) = Refs(var, d) + (IF x = d THEN 1 ELSE 0)
  <2> TAKE d \in Buffers
  <2>1. var'[v] = x /\ \A w \in Vars : w # v => var'[w] = var[w]
    BY <1>1
  <2>2. Refs(var', d) + (IF var[v] = d THEN 1 ELSE 0)
            = Refs(var, d) + (IF var'[v] = d THEN 1 ELSE 0)
    <3>1. var \in [Vars -> Maybe] /\ var' \in [Vars -> Maybe]
      BY <1>1
    <3> QED
      BY <2>1, <3>1, RefsAssign
  <2> QED
    BY <2>1, <2>2
<1>3. \A d \in Buffers : FrameRefs(s, d) \in Nat /\ Refs(var, d) \in Nat /\ Refs(var', d) \in Nat
  BY FrameRefsType, RefsType DEF StackInv
<1>4. CASE var[v] = NoBuffer
  <2>1. count' = c /\ frames' = s /\ life' = life
    BY <1>4 DEF Assign
  <2>2. \A d \in Buffers :
          count'[d] + FrameRefs(s, d) + Refs(var, d) + (IF x = d THEN 1 ELSE 0)
              = c[d] + FrameRefs(frames', d) + Refs(var', d)
    <3> TAKE d \in Buffers
    <3>1. Refs(var', d) = Refs(var, d) + (IF x = d THEN 1 ELSE 0)
      <4>1. Refs(var', d) + (IF var[v] = d THEN 1 ELSE 0) = Refs(var, d) + (IF x = d THEN 1 ELSE 0)
        BY <1>2
      <4>2. var[v] # d /\ Refs(var', d) \in Nat
        BY <1>1, <1>3, <1>4
      <4> QED
        BY <4>1, <4>2
    <3> QED
      BY <1>1, <1>3, <2>1, <3>1
  <2> QED
    BY <1>1, <2>1, <2>2
<1>5. CASE var[v] # NoBuffer
  <2>1. var[v] \in Buffers /\ Unref(var[v], c, s)
    BY <1>1, <1>5 DEF Assign, Maybe
  <2>2. c[var[v]] > 0 /\ (SinkIn(s, var[v]) => c[var[v]] > 1)
    BY <1>5
  <2>3. /\ count' \in [Buffers -> Nat]
        /\ life' \in [Buffers -> {"none", "alive", "freed"}]
        /\ StackInv(frames')
        /\ LifeInv(life', count', frames')
        /\ \A k \in Calls : Runs(frames', k) <=> Runs(s, k)
        /\ \A d \in Buffers :
              count'[d] + FrameRefs(s, d) + (IF var[v] = d THEN 1 ELSE 0)
                  = c[d] + FrameRefs(frames', d)
    BY <2>1, <2>2, UnrefStep
  <2>4. \A d \in Buffers : count'[d] \in Nat /\ FrameRefs(frames', d) \in Nat
    BY <2>3, FrameRefsType DEF StackInv
  <2>5. \A d \in Buffers :
          count'[d] + FrameRefs(s, d) + Refs(var, d) + (IF x = d THEN 1 ELSE 0)
              = c[d] + FrameRefs(frames', d) + Refs(var', d)
    <3> TAKE d \in Buffers
    <3>1. count'[d] + FrameRefs(s, d) + (IF var[v] = d THEN 1 ELSE 0)
              = c[d] + FrameRefs(frames', d)
      BY <2>3
    <3>2. Refs(var', d) + (IF var[v] = d THEN 1 ELSE 0) = Refs(var, d) + (IF x = d THEN 1 ELSE 0)
      BY <1>2
    <3>3. /\ c[d] \in Nat /\ count'[d] \in Nat
          /\ FrameRefs(s, d) \in Nat /\ FrameRefs(frames', d) \in Nat
          /\ Refs(var, d) \in Nat /\ Refs(var', d) \in Nat
      BY <1>1, <1>3, <2>4
    <3> QED
      BY <3>1, <3>2, <3>3
  <2> QED
    BY <1>1, <2>3, <2>5
<1> QED
  BY <1>4, <1>5

-----------------------------------------------------------------------------
(* The whole invariant.                                                    *)

\* What refers to endpoint e.
EndRefs(e) ==
    (IF e \in eheld THEN 1 ELSE 0)
        + (IF e = Source /\ reading THEN 1 ELSE 0)
        + (IF e = Source /\ Runs(frames, "read") THEN 1 ELSE 0)
        + (IF busy /\ on = e THEN 1 ELSE 0)
        + (IF guard = e /\ (Runs(frames, "output") \/ Runs(frames, "after")) THEN 1 ELSE 0)

\* What refers to the output request.
RequestRefs ==
    (IF rheld THEN 1 ELSE 0) + (IF busy THEN 1 ELSE 0)
        + (IF Runs(frames, "output") THEN 2 ELSE 0)
        + (IF Runs(frames, "after") THEN 1 ELSE 0)

\* The part of the invariant about endpoints and the output request.
FlowInv ==
    /\ erefs \in [Ends -> Int]
    /\ eheld \in SUBSET Ends
    /\ reading \in BOOLEAN
    /\ rheld \in BOOLEAN
    /\ rrefs \in Int
    /\ busy => on \in Ends
    /\ Runs(frames, "output") \/ Runs(frames, "after") => guard \in Ends
    /\ \A e \in Ends : erefs[e] = EndRefs(e)
    /\ rrefs = RequestRefs

\* The counters, which every action but ReadNext keeps without more.
Inv == BufferInv /\ FlowInv

\* While a read is delivered libuv has no other chunk to read into.
Chain == {"read", "end", "next"}
ChainInv == \A k \in Chain : Runs(frames, k) => lent = NoBuffer

-----------------------------------------------------------------------------
(* The actions on buffers.                                                 *)

\* BufferInv for each buffer.
LEMMA Facts ==
  ASSUME BufferInv
  PROVE  /\ BufferTypes
         /\ StackInv(frames)
         /\ frames \in Seq(FrameType)
         /\ LifeInv(life, count, frames)
         /\ \A d \in Buffers :
               /\ count[d] \in Nat /\ leaked[d] \in Nat /\ d # NoBuffer
               /\ Refs(var, d) \in Nat /\ FrameRefs(frames, d) \in Nat /\ Chunks(d) \in Nat
               /\ count[d] = Refs(var, d) + FrameRefs(frames, d) + Chunks(d)
<1>1. BufferTypes /\ StackInv(frames) /\ LifeInv(life, count, frames) /\ Accounted
  BY DEF BufferInv
<1>2. frames \in Seq(FrameType)
  BY <1>1 DEF StackInv
<1>3. \A d \in Buffers : count[d] \in Nat /\ leaked[d] \in Nat /\ d # NoBuffer
  BY <1>1, BufferAssumption DEF BufferTypes
<1>4. \A d \in Buffers : Refs(var, d) \in Nat /\ FrameRefs(frames, d) \in Nat /\ Chunks(d) \in Nat
  BY <1>1, <1>2, RefsType, FrameRefsType, ChunksType DEF BufferTypes
<1>5. \A d \in Buffers : count[d] = Refs(var, d) + FrameRefs(frames, d) + Chunks(d)
  BY <1>1 DEF Accounted
<1> QED
  BY <1>1, <1>2, <1>3, <1>4, <1>5

\* A step that leaves the references of libuv alone keeps BufferInv when the
\* counters change by what variables and callbacks do.
LEMMA Settle ==
  ASSUME BufferInv, UNCHANGED <<lent, leaked, busy, outbuf>>,
         count' \in [Buffers -> Nat],
         life' \in [Buffers -> {"none", "alive", "freed"}],
         sink' \in [Buffers -> BOOLEAN],
         var' \in [Vars -> Maybe],
         StackInv(frames'),
         LifeInv(life', count', frames'),
         \A d \in Buffers :
            count'[d] + FrameRefs(frames, d) + Refs(var, d)
                = count[d] + FrameRefs(frames', d) + Refs(var', d)
  PROVE  BufferInv'
<1>1. BufferTypes'
  BY DEF BufferInv, BufferTypes
<1>2. \A d \in Buffers : Chunks(d)' = Chunks(d)
  BY DEF Chunks
<1>3. \A d \in Buffers : FrameRefs(frames', d) \in Nat /\ Refs(var', d) \in Nat /\ count'[d] \in Nat
  BY FrameRefsType, RefsType DEF StackInv
<1>4. \A d \in Buffers : count'[d] = Refs(var', d) + FrameRefs(frames', d) + Chunks(d)'
  <2> TAKE d \in Buffers
  <2>1. /\ count[d] \in Nat /\ Refs(var, d) \in Nat
        /\ FrameRefs(frames, d) \in Nat /\ Chunks(d) \in Nat
        /\ count[d] = Refs(var, d) + FrameRefs(frames, d) + Chunks(d)
    BY Facts
  <2>2. count'[d] + FrameRefs(frames, d) + Refs(var, d)
            = count[d] + FrameRefs(frames', d) + Refs(var', d)
    OBVIOUS
  <2>3. Chunks(d)' = Chunks(d)
    BY <1>2
  <2>4. count'[d] = Refs(var', d) + FrameRefs(frames', d) + Chunks(d)
    <3> DEFINE x1 == count'[d]
               x2 == count[d]
               r1 == Refs(var, d)
               r2 == Refs(var', d)
               f1 == FrameRefs(frames, d)
               f2 == FrameRefs(frames', d)
               c == Chunks(d)
    <3>1. /\ x1 \in Nat /\ x2 \in Nat /\ r1 \in Nat /\ r2 \in Nat /\ f1 \in Nat /\ f2 \in Nat
          /\ c \in Nat
      BY <1>3, <2>1
    <3>2. x2 = r1 + f1 + c /\ x1 + f1 + r1 = x2 + f2 + r2
      BY <2>1, <2>2
    <3> HIDE DEF x1, x2, r1, r2, f1, f2, c
    <3>3. x1 = r2 + f2 + c
      BY <3>1, <3>2
    <3> QED
      BY <3>3 DEF x1, r2, f2, c
  <2> QED
    BY <2>3, <2>4
<1>5. Accounted'
  BY <1>4 DEF Accounted
<1>6. StackInv(frames)' /\ LifeInv(life, count, frames)'
  OBVIOUS
<1> QED
  BY <1>1, <1>5, <1>6 DEF BufferInv

\* One more reference to a buffer that exists.
LEMMA CountedStep ==
  ASSUME BufferInv, NEW b \in Buffers, count[b] > 0
  PROVE  /\ Counted(b) \in [Buffers -> Nat]
         /\ \A d \in Buffers : Counted(b)[d] = count[d] + (IF b = d THEN 1 ELSE 0)
         /\ LifeInv(life, Counted(b), frames)
<1>1. count \in [Buffers -> Nat] /\ LifeInv(life, count, frames)
  BY Facts DEF BufferTypes
<1>2. /\ Counted(b) \in [Buffers -> Nat]
      /\ \A d \in Buffers : Counted(b)[d] = count[d] + (IF b = d THEN 1 ELSE 0)
  BY <1>1 DEF Counted
<1>3. \A d \in Buffers : count[d] \in Nat /\ (Counted(b)[d] > 0 <=> count[d] > 0)
  <2> TAKE d \in Buffers
  <2>1. count[d] \in Nat /\ Counted(b)[d] = count[d] + (IF b = d THEN 1 ELSE 0)
    BY <1>1, <1>2
  <2> QED
    BY <2>1
<1> QED
  BY <1>1, <1>2, <1>3 DEF LifeInv

\* What the user's actions on buffers, and the return of a sink, leave alone.
Quiet == \A k \in Calls : Runs(frames', k) <=> Runs(frames, k)

\* buffer(...): a new instance for a variable.
LEMMA CreateStep ==
  ASSUME BufferInv, UNCHANGED flowVars, NEW v \in Vars, NEW b \in Buffers, NEW lens,
         Create(v, b, lens)
  PROVE  BufferInv' /\ Quiet
<1>1. /\ var[v] = NoBuffer /\ life[b] = "none" /\ frames' = frames /\ sink' = sink
      /\ life' = [life EXCEPT ![b] = "alive"]
      /\ count' = [count EXCEPT ![b] = 1]
      /\ var' = [var EXCEPT ![v] = b]
  BY DEF Create
<1>2. BufferTypes /\ StackInv(frames) /\ LifeInv(life, count, frames)
  BY Facts
<1>3. count[b] = 0
  BY <1>1, <1>2 DEF LifeInv, BufferTypes
<1>4. /\ count' \in [Buffers -> Nat]
      /\ life' \in [Buffers -> {"none", "alive", "freed"}]
      /\ var' \in [Vars -> Maybe]
      /\ sink' \in [Buffers -> BOOLEAN]
  BY <1>1, <1>2 DEF BufferTypes, Maybe
<1>5. \A d \in Buffers : /\ count'[d] = count[d] + (IF b = d THEN 1 ELSE 0)
                         /\ life'[d] = IF b = d THEN "alive" ELSE life[d]
  BY <1>1, <1>2, <1>3 DEF BufferTypes
<1>6. LifeInv(life', count', frames')
  BY <1>1, <1>2, <1>3, <1>5 DEF LifeInv, BufferTypes
<1>7. var'[v] = b /\ \A w \in Vars : w # v => var'[w] = var[w]
  BY <1>1, <1>2 DEF BufferTypes
<1>8. \A d \in Buffers : Refs(var', d) = Refs(var, d) + (IF b = d THEN 1 ELSE 0)
  <2> TAKE d \in Buffers
  <2>1. var \in [Vars -> Maybe]
    BY <1>2 DEF BufferTypes
  <2>2. Refs(var', d) + (IF var[v] = d THEN 1 ELSE 0)
            = Refs(var, d) + (IF var'[v] = d THEN 1 ELSE 0)
    BY <1>4, <1>7, <2>1, RefsAssign
  <2>3. var[v] # d /\ Refs(var', d) \in Nat
    BY <1>1, Facts, RefsType
  <2> QED
    BY <1>7, <2>2, <2>3
<1>9. \A d \in Buffers :
        count'[d] + FrameRefs(frames, d) + Refs(var, d)
            = count[d] + FrameRefs(frames', d) + Refs(var', d)
  <2> TAKE d \in Buffers
  <2>1. count[d] \in Nat /\ Refs(var, d) \in Nat /\ FrameRefs(frames, d) \in Nat
    BY Facts
  <2>2. /\ count'[d] = count[d] + (IF b = d THEN 1 ELSE 0)
        /\ Refs(var', d) = Refs(var, d) + (IF b = d THEN 1 ELSE 0)
        /\ FrameRefs(frames', d) = FrameRefs(frames, d)
    BY <1>1, <1>5, <1>8
  <2>3. CASE b = d
    BY <2>1, <2>2, <2>3
  <2>4. CASE b # d
    BY <2>1, <2>2, <2>4
  <2> QED
    BY <2>3, <2>4
<1>10. BufferInv'
  BY <1>1, <1>2, <1>4, <1>6, <1>9, Settle DEF flowVars
<1> QED
  BY <1>1, <1>10 DEF Quiet

\* sink_cb() = ...
LEMMA SetSinkStep ==
  ASSUME BufferInv, UNCHANGED flowVars, NEW v \in Vars, SetSink(v)
  PROVE  BufferInv' /\ Quiet
<1>1. /\ UNCHANGED <<life, count, var, frames>>
      /\ sink' \in [Buffers -> BOOLEAN]
  BY Facts DEF SetSink, BufferTypes
<1>2. /\ count \in [Buffers -> Nat]
      /\ life \in [Buffers -> {"none", "alive", "freed"}]
      /\ var \in [Vars -> Maybe]
      /\ StackInv(frames) /\ LifeInv(life, count, frames)
  BY Facts DEF BufferTypes
<1>3. BufferInv'
  BY <1>1, <1>2, Settle DEF flowVars
<1> QED
  BY <1>1, <1>3 DEF Quiet

\* ~buffer().
LEMMA DropStep ==
  ASSUME BufferInv, UNCHANGED flowVars, NEW v \in Vars, Drop(v)
  PROVE  BufferInv' /\ Quiet
<1>1. /\ var[v] # NoBuffer
      /\ MayRelease(var[v])
      /\ Assign(v, NoBuffer, count, frames)
      /\ sink' = sink
  BY DEF Drop
<1>2. /\ BufferTypes /\ StackInv(frames) /\ LifeInv(life, count, frames)
      /\ count \in [Buffers -> Nat] /\ NoBuffer \in Maybe
  BY Facts DEF BufferTypes, Maybe
<1>3. count[var[v]] > 0 /\ (SinkIn(frames, var[v]) => count[var[v]] > 1)
  BY <1>1, Held DEF MayRelease, SinkRunning, SinkIn
<1>4. /\ count' \in [Buffers -> Nat]
      /\ life' \in [Buffers -> {"none", "alive", "freed"}]
      /\ var' \in [Vars -> Maybe]
      /\ StackInv(frames')
      /\ LifeInv(life', count', frames')
      /\ \A k \in Calls : Runs(frames', k) <=> Runs(frames, k)
      /\ \A d \in Buffers :
            count'[d] + FrameRefs(frames, d) + Refs(var, d) + (IF NoBuffer = d THEN 1 ELSE 0)
                = count[d] + FrameRefs(frames', d) + Refs(var', d)
  BY <1>1, <1>2, <1>3, AssignStep
<1>5. \A d \in Buffers :
        count'[d] + FrameRefs(frames, d) + Refs(var, d)
            = count[d] + FrameRefs(frames', d) + Refs(var', d)
  <2> TAKE d \in Buffers
  <2>1. /\ count'[d] \in Nat /\ Refs(var, d) \in Nat /\ FrameRefs(frames, d) \in Nat
        /\ NoBuffer # d
    BY <1>4, Facts
  <2> QED
    BY <1>4, <2>1
<1>6. sink' \in [Buffers -> BOOLEAN]
  BY <1>1, <1>2 DEF BufferTypes
<1>7. BufferInv'
  BY <1>4, <1>5, <1>6, Settle DEF flowVars
<1> QED
  BY <1>4, <1>7 DEF Quiet

\* The copy assignment.
LEMMA CopyStep ==
  ASSUME BufferInv, UNCHANGED flowVars, NEW v \in Vars, NEW w \in Vars, Copy(v, w)
  PROVE  BufferInv' /\ Quiet
<1> DEFINE b == var[w]
           c == Counted(b)
<1>1. /\ b # NoBuffer
      /\ var[v] # NoBuffer /\ var[v] # b => MayRelease(var[v])
      /\ Assign(v, b, c, frames)
      /\ sink' = sink
  BY DEF Copy
<1>2. BufferTypes /\ StackInv(frames)
  BY Facts
<1>3. b \in Buffers /\ count[b] > 0 /\ b \in Maybe
  BY <1>1, Held DEF Maybe
<1>4. /\ c \in [Buffers -> Nat]
      /\ \A d \in Buffers : c[d] = count[d] + (IF b = d THEN 1 ELSE 0)
      /\ LifeInv(life, c, frames)
  BY <1>3, CountedStep
<1> HIDE DEF b, c
<1>5. ASSUME var[v] # NoBuffer
      PROVE  c[var[v]] > 0 /\ (SinkIn(frames, var[v]) => c[var[v]] > 1)
  <2>1. var[v] \in Buffers /\ count[var[v]] > 0 /\ count[var[v]] \in Nat
    BY <1>5, Held, Facts
  <2>2. c[var[v]] = count[var[v]] + (IF b = var[v] THEN 1 ELSE 0)
    BY <1>4, <2>1
  <2>3. var[v] # b => (SinkIn(frames, var[v]) => count[var[v]] > 1)
    BY <1>1, <1>5 DEF MayRelease, SinkRunning, SinkIn
  <2> QED
    BY <2>1, <2>2, <2>3
<1>6. /\ count' \in [Buffers -> Nat]
      /\ life' \in [Buffers -> {"none", "alive", "freed"}]
      /\ var' \in [Vars -> Maybe]
      /\ StackInv(frames')
      /\ LifeInv(life', count', frames')
      /\ \A k \in Calls : Runs(frames', k) <=> Runs(frames, k)
      /\ \A d \in Buffers :
            count'[d] + FrameRefs(frames, d) + Refs(var, d) + (IF b = d THEN 1 ELSE 0)
                = c[d] + FrameRefs(frames', d) + Refs(var', d)
  BY <1>1, <1>2, <1>3, <1>4, <1>5, AssignStep
<1>7. \A d \in Buffers :
        count'[d] + FrameRefs(frames, d) + Refs(var, d)
            = count[d] + FrameRefs(frames', d) + Refs(var', d)
  <2> TAKE d \in Buffers
  <2>1. /\ count[d] \in Nat /\ count'[d] \in Nat
        /\ Refs(var, d) \in Nat /\ FrameRefs(frames, d) \in Nat
        /\ Refs(var', d) \in Nat /\ FrameRefs(frames', d) \in Nat
    BY <1>6, Facts, RefsType, FrameRefsType DEF StackInv
  <2>2. c[d] = count[d] + (IF b = d THEN 1 ELSE 0)
    BY <1>4
  <2>3. count'[d] + FrameRefs(frames, d) + Refs(var, d) + (IF b = d THEN 1 ELSE 0)
            = c[d] + FrameRefs(frames', d) + Refs(var', d)
    BY <1>6
  <2>4. CASE b = d
    <3> DEFINE x1 == count'[d]
               f1 == FrameRefs(frames, d)
               r1 == Refs(var, d)
               x2 == count[d]
               f2 == FrameRefs(frames', d)
               r2 == Refs(var', d)
    <3>1. /\ x1 \in Nat /\ f1 \in Nat /\ r1 \in Nat
          /\ x2 \in Nat /\ f2 \in Nat /\ r2 \in Nat
      BY <2>1
    <3>2. c[d] = x2 + 1
      BY <2>2, <2>4
    <3>3. x1 + f1 + r1 + 1 = c[d] + f2 + r2
      BY <2>3, <2>4
    <3> HIDE DEF x1, x2, f1, f2, r1, r2
    <3>4. x1 + f1 + r1 = x2 + f2 + r2
      BY <3>1, <3>2, <3>3
    <3> QED
      BY <3>4 DEF x1, x2, f1, f2, r1, r2
  <2>5. CASE b # d
    BY <2>1, <2>2, <2>3, <2>5
  <2> QED
    BY <2>4, <2>5
<1>8. sink' \in [Buffers -> BOOLEAN]
  BY <1>1, <1>2 DEF BufferTypes
<1>9. BufferInv'
  BY <1>6, <1>7, <1>8, Settle DEF flowVars
<1> QED
  BY <1>6, <1>9 DEF Quiet

\* The move assignment.
LEMMA MoveStep ==
  ASSUME BufferInv, UNCHANGED flowVars, NEW v \in Vars, NEW w \in Vars, Move(v, w)
  PROVE  BufferInv' /\ Quiet
<1> DEFINE b == var[w]
           g == [var EXCEPT ![v] = b]
<1>1. /\ v # w
      /\ b # NoBuffer
      /\ var[v] # NoBuffer => MayRelease(var[v])
      /\ var' = [var EXCEPT ![v] = b, ![w] = NoBuffer]
      /\ IF var[v] = NoBuffer THEN UNCHANGED <<count, life, frames>> ELSE Unref(var[v], count, frames)
      /\ sink' = sink
  BY DEF Move
<1>2. /\ BufferTypes /\ StackInv(frames) /\ LifeInv(life, count, frames)
      /\ count \in [Buffers -> Nat]
      /\ life \in [Buffers -> {"none", "alive", "freed"}]
      /\ var \in [Vars -> Maybe]
      /\ b \in Maybe
  BY Facts DEF BufferTypes
<1>3. /\ g \in [Vars -> Maybe] /\ var' \in [Vars -> Maybe]
      /\ g[v] = b /\ g[w] = b /\ var'[w] = NoBuffer
      /\ \A u \in Vars : u # v => g[u] = var[u]
      /\ \A u \in Vars : u # w => var'[u] = g[u]
  BY <1>1, <1>2 DEF Maybe
<1> HIDE DEF b, g
<1>4. \A d \in Buffers : Refs(var', d) + (IF var[v] = d THEN 1 ELSE 0) = Refs(var, d)
  <2> TAKE d \in Buffers
  <2>1. Refs(g, d) + (IF var[v] = d THEN 1 ELSE 0) = Refs(var, d) + (IF b = d THEN 1 ELSE 0)
    BY <1>2, <1>3, RefsAssign
  <2>2. Refs(var', d) + (IF b = d THEN 1 ELSE 0) = Refs(g, d) + (IF NoBuffer = d THEN 1 ELSE 0)
    BY <1>3, RefsAssign
  <2>3. NoBuffer # d /\ Refs(g, d) \in Nat /\ Refs(var, d) \in Nat /\ Refs(var', d) \in Nat
    BY Facts, RefsType
  <2>4. CASE b = d
    BY <2>1, <2>2, <2>3, <2>4
  <2>5. CASE b # d
    BY <2>1, <2>2, <2>3, <2>5
  <2> QED
    BY <2>4, <2>5
<1>5. sink' \in [Buffers -> BOOLEAN]
  BY <1>1, <1>2 DEF BufferTypes
<1>6. CASE var[v] = NoBuffer
  <2>1. UNCHANGED <<count, life, frames>>
    BY <1>1, <1>6
  <2>2. \A d \in Buffers :
          count'[d] + FrameRefs(frames, d) + Refs(var, d)
              = count[d] + FrameRefs(frames', d) + Refs(var', d)
    <3> TAKE d \in Buffers
    <3>1. var[v] # d /\ Refs(var', d) \in Nat
      BY <1>6, Facts, RefsType
    <3>2. Refs(var', d) + (IF var[v] = d THEN 1 ELSE 0) = Refs(var, d)
      BY <1>4
    <3>3. Refs(var', d) = Refs(var, d)
      BY <3>1, <3>2
    <3> QED
      BY <2>1, <3>3, SMTT(60)
  <2>3. BufferInv'
    BY <1>2, <1>3, <1>5, <2>1, <2>2, Settle DEF flowVars
  <2> QED
    BY <2>1, <2>3 DEF Quiet
<1>7. CASE var[v] # NoBuffer
  <2>1. var[v] \in Buffers /\ count[var[v]] > 0 /\ Unref(var[v], count, frames)
    BY <1>1, <1>7, Held
  <2>2. SinkIn(frames, var[v]) => count[var[v]] > 1
    BY <1>1, <1>7 DEF MayRelease, SinkRunning, SinkIn
  <2>3. /\ count' \in [Buffers -> Nat]
        /\ life' \in [Buffers -> {"none", "alive", "freed"}]
        /\ StackInv(frames')
        /\ LifeInv(life', count', frames')
        /\ \A k \in Calls : Runs(frames', k) <=> Runs(frames, k)
        /\ \A d \in Buffers :
              count'[d] + FrameRefs(frames, d) + (IF var[v] = d THEN 1 ELSE 0)
                  = count[d] + FrameRefs(frames', d)
    BY <1>2, <2>1, <2>2, UnrefStep
  <2>4. \A d \in Buffers :
          count'[d] + FrameRefs(frames, d) + Refs(var, d)
              = count[d] + FrameRefs(frames', d) + Refs(var', d)
    <3> TAKE d \in Buffers
    <3>1. /\ count[d] \in Nat /\ count'[d] \in Nat
          /\ Refs(var, d) \in Nat /\ FrameRefs(frames, d) \in Nat
          /\ Refs(var', d) \in Nat /\ FrameRefs(frames', d) \in Nat
      BY <2>3, Facts, RefsType, FrameRefsType DEF StackInv
    <3>2. Refs(var', d) + (IF var[v] = d THEN 1 ELSE 0) = Refs(var, d)
      BY <1>4
    <3>3. count'[d] + FrameRefs(frames, d) + (IF var[v] = d THEN 1 ELSE 0)
              = count[d] + FrameRefs(frames', d)
      BY <2>3
    <3>4. CASE var[v] = d
      BY <3>1, <3>2, <3>3, <3>4
    <3>5. CASE var[v] # d
      BY <3>1, <3>2, <3>3, <3>5
    <3> QED
      BY <3>4, <3>5
  <2>5. BufferInv'
    BY <1>3, <1>5, <2>3, <2>4, Settle DEF flowVars
  <2> QED
    BY <2>3, <2>5 DEF Quiet
<1> QED
  BY <1>6, <1>7

\* swap().
LEMMA SwapStep ==
  ASSUME BufferInv, UNCHANGED flowVars, NEW v \in Vars, NEW w \in Vars, Swap(v, w)
  PROVE  BufferInv' /\ Quiet
<1> DEFINE g == [var EXCEPT ![v] = var[w]]
<1>1. /\ v # w
      /\ var' = [var EXCEPT ![v] = var[w], ![w] = var[v]]
      /\ UNCHANGED <<life, count, sink, frames>>
  BY DEF Swap
<1>2. /\ BufferTypes /\ StackInv(frames) /\ LifeInv(life, count, frames)
      /\ count \in [Buffers -> Nat]
      /\ life \in [Buffers -> {"none", "alive", "freed"}]
      /\ sink \in [Buffers -> BOOLEAN]
      /\ var \in [Vars -> Maybe]
  BY Facts DEF BufferTypes
<1>3. /\ g \in [Vars -> Maybe] /\ var' \in [Vars -> Maybe]
      /\ g[v] = var[w] /\ g[w] = var[w] /\ var'[w] = var[v]
      /\ \A u \in Vars : u # v => g[u] = var[u]
      /\ \A u \in Vars : u # w => var'[u] = g[u]
  BY <1>1, <1>2
<1> HIDE DEF g
<1>4. \A d \in Buffers : Refs(var', d) = Refs(var, d)
  <2> TAKE d \in Buffers
  <2>1. Refs(g, d) + (IF var[v] = d THEN 1 ELSE 0) = Refs(var, d) + (IF var[w] = d THEN 1 ELSE 0)
    BY <1>2, <1>3, RefsAssign
  <2>2. Refs(var', d) + (IF var[w] = d THEN 1 ELSE 0) = Refs(g, d) + (IF var[v] = d THEN 1 ELSE 0)
    BY <1>3, RefsAssign
  <2>3. Refs(g, d) \in Nat /\ Refs(var, d) \in Nat /\ Refs(var', d) \in Nat
    BY RefsType
  <2>4. CASE var[w] = d
    BY <2>1, <2>2, <2>3, <2>4
  <2>5. CASE var[w] # d
    BY <2>1, <2>2, <2>3, <2>5
  <2> QED
    BY <2>4, <2>5
<1>5. \A d \in Buffers :
        count'[d] + FrameRefs(frames, d) + Refs(var, d)
            = count[d] + FrameRefs(frames', d) + Refs(var', d)
  BY <1>1, <1>4
<1>6. BufferInv'
  BY <1>1, <1>2, <1>3, <1>5, Settle DEF flowVars
<1> QED
  BY <1>1, <1>6 DEF Quiet

\* A callback copies or moves its parameter into a variable.
LEMMA TakeParameterStep ==
  ASSUME BufferInv, UNCHANGED flowVars, NEW v \in Vars, NEW moves \in BOOLEAN,
         TakeParameter(v, moves)
  PROVE  BufferInv' /\ Quiet
<1> DEFINE b == Last(frames).buf
           s == IF moves THEN Append(Front(frames), [Last(frames) EXCEPT !.buf = NoBuffer])
                ELSE frames
           c == IF moves THEN count ELSE Counted(b)
<1>1. /\ frames # <<>>
      /\ b # NoBuffer
      /\ var[v] # NoBuffer => MayRelease(var[v])
      /\ Assign(v, b, c, s)
      /\ sink' = sink
  BY DEF TakeParameter
<1>2. /\ BufferTypes /\ StackInv(frames) /\ LifeInv(life, count, frames)
      /\ count \in [Buffers -> Nat]
  BY Facts DEF BufferTypes
<1>3. b \in Buffers /\ count[b] > 0 /\ b \in Maybe
  BY <1>1, ParameterHeld DEF Maybe
<1>4. /\ StackInv(s)
      /\ \A k \in Calls : Runs(s, k) <=> Runs(frames, k)
      /\ \A d \in Buffers : SinkIn(s, d) <=> SinkIn(frames, d)
      /\ \A d \in Buffers :
            FrameRefs(frames, d) = FrameRefs(s, d) + IF moves /\ b = d THEN 1 ELSE 0
  <2>1. CASE moves
    BY <1>1, <1>2, <2>1, EmptyTop
  <2>2. CASE ~moves
    <3>1. s = frames
      BY <2>2
    <3>2. \A d \in Buffers : FrameRefs(frames, d) \in Nat
      BY Facts
    <3> HIDE DEF s
    <3> QED
      BY <1>2, <2>2, <3>1, <3>2
  <2> QED
    BY <2>1, <2>2
<1>5. /\ c \in [Buffers -> Nat]
      /\ \A d \in Buffers : c[d] = count[d] + IF ~moves /\ b = d THEN 1 ELSE 0
      /\ LifeInv(life, c, frames)
  <2>1. CASE moves
    <3>1. c = count
      BY <2>1
    <3>2. \A d \in Buffers : count[d] \in Nat
      BY <1>2
    <3> HIDE DEF c
    <3> QED
      BY <1>2, <2>1, <3>1, <3>2
  <2>2. CASE ~moves
    <3>1. c = Counted(b)
      BY <2>2
    <3>2. /\ Counted(b) \in [Buffers -> Nat]
          /\ \A d \in Buffers : Counted(b)[d] = count[d] + (IF b = d THEN 1 ELSE 0)
          /\ LifeInv(life, Counted(b), frames)
      BY <1>3, CountedStep
    <3> HIDE DEF c, b
    <3> QED
      BY <2>2, <3>1, <3>2
  <2> QED
    BY <2>1, <2>2
<1> HIDE DEF b, s, c
<1>6. LifeInv(life, c, s)
  BY <1>4, <1>5 DEF LifeInv
<1>7. ASSUME var[v] # NoBuffer
      PROVE  c[var[v]] > 0 /\ (SinkIn(s, var[v]) => c[var[v]] > 1)
  <2>1. var[v] \in Buffers /\ count[var[v]] > 0 /\ count[var[v]] \in Nat
    BY <1>7, Held, Facts
  <2>2. c[var[v]] = count[var[v]] + IF ~moves /\ b = var[v] THEN 1 ELSE 0
    BY <1>5, <2>1
  <2>3. SinkIn(s, var[v]) => count[var[v]] > 1
    <3>1. SinkIn(s, var[v]) <=> SinkIn(frames, var[v])
      BY <1>4, <2>1
    <3>2. SinkIn(frames, var[v]) => count[var[v]] > 1
      BY <1>1, <1>7 DEF MayRelease, SinkRunning, SinkIn
    <3> QED
      BY <3>1, <3>2
  <2> QED
    BY <2>1, <2>2, <2>3
<1>8. /\ count' \in [Buffers -> Nat]
      /\ life' \in [Buffers -> {"none", "alive", "freed"}]
      /\ var' \in [Vars -> Maybe]
      /\ StackInv(frames')
      /\ LifeInv(life', count', frames')
      /\ \A k \in Calls : Runs(frames', k) <=> Runs(s, k)
      /\ \A d \in Buffers :
            count'[d] + FrameRefs(s, d) + Refs(var, d) + (IF b = d THEN 1 ELSE 0)
                = c[d] + FrameRefs(frames', d) + Refs(var', d)
  BY <1>1, <1>2, <1>3, <1>4, <1>5, <1>6, <1>7, AssignStep
<1>9. \A d \in Buffers :
        count'[d] + FrameRefs(frames, d) + Refs(var, d)
            = count[d] + FrameRefs(frames', d) + Refs(var', d)
  <2> TAKE d \in Buffers
  <2>1. /\ count[d] \in Nat /\ count'[d] \in Nat
        /\ Refs(var, d) \in Nat /\ FrameRefs(frames, d) \in Nat
        /\ Refs(var', d) \in Nat /\ FrameRefs(frames', d) \in Nat
        /\ FrameRefs(s, d) \in Nat
    BY <1>4, <1>8, Facts, RefsType, FrameRefsType DEF StackInv
  <2>2. c[d] = count[d] + IF ~moves /\ b = d THEN 1 ELSE 0
    BY <1>5
  <2>3. count'[d] + FrameRefs(s, d) + Refs(var, d) + (IF b = d THEN 1 ELSE 0)
            = c[d] + FrameRefs(frames', d) + Refs(var', d)
    BY <1>8
  <2>4. FrameRefs(frames, d) = FrameRefs(s, d) + IF moves /\ b = d THEN 1 ELSE 0
    BY <1>4
  <2>5. CASE b # d
    BY <2>1, <2>2, <2>3, <2>4, <2>5
  <2>6. CASE b = d /\ moves
    BY <2>1, <2>2, <2>3, <2>4, <2>6
  <2>7. CASE b = d /\ ~moves
    BY <2>1, <2>2, <2>3, <2>4, <2>7
  <2> QED
    BY <2>5, <2>6, <2>7
<1>10. sink' \in [Buffers -> BOOLEAN]
  BY <1>1, <1>2 DEF BufferTypes
<1>11. BufferInv'
  BY <1>8, <1>9, <1>10, Settle DEF flowVars
<1> QED
  BY <1>4, <1>8, <1>11 DEF Quiet

\* A sink returns, and its parameter goes.
LEMMA SinkReturnsStep ==
  ASSUME BufferInv, UNCHANGED flowVars, SinkReturns
  PROVE  BufferInv' /\ Quiet
<1> DEFINE b == Last(frames).of
           p == Last(frames).buf
           n == IF p = NoBuffer THEN count[b] ELSE count[b] - 1
<1>1. /\ frames # <<>> /\ Last(frames).kind = "sink"
      /\ frames' = Front(frames)
      /\ count' = [count EXCEPT ![b] = IF p = NoBuffer THEN @ ELSE @ - 1]
      /\ life' = [life EXCEPT ![b] = IF p # NoBuffer /\ count'[b] = 0 THEN "freed" ELSE @]
      /\ UNCHANGED <<sink, var>>
  BY DEF SinkReturns
<1>2. /\ StackInv(frames) /\ LifeInv(life, count, frames)
      /\ count \in [Buffers -> Nat]
      /\ life \in [Buffers -> {"none", "alive", "freed"}]
      /\ sink \in [Buffers -> BOOLEAN]
      /\ var \in [Vars -> Maybe]
  BY Facts DEF BufferTypes
<1>3. /\ StackInv(Front(frames))
      /\ b \in Buffers /\ p \in {NoBuffer, b} /\ SinkIn(frames, b)
      /\ \A k \in Calls : Runs(Front(frames), k) <=> Runs(frames, k)
      /\ \A d \in Buffers : SinkIn(Front(frames), d) => SinkIn(frames, d) /\ d # b
      /\ \A d \in Buffers :
            FrameRefs(frames, d) = FrameRefs(Front(frames), d) + IF p = d THEN 1 ELSE 0
  BY <1>1, <1>2, PopSink
<1>4. count[b] \in Nat /\ count[b] > 0 /\ b # NoBuffer
  BY <1>2, <1>3, BufferAssumption DEF LifeInv
<1> HIDE DEF b, p
<1>5. /\ count' \in [Buffers -> Nat]
      /\ \A d \in Buffers : count'[d] = IF b = d THEN n ELSE count[d]
  BY <1>1, <1>2, <1>3, <1>4
<1>6. /\ life' \in [Buffers -> {"none", "alive", "freed"}]
      /\ \A d \in Buffers : life'[d] = IF b = d /\ p # NoBuffer /\ n = 0 THEN "freed" ELSE life[d]
  BY <1>1, <1>2, <1>3, <1>5
<1>7. LifeInv(life', count', frames')
  BY <1>1, <1>2, <1>3, <1>4, <1>5, <1>6 DEF LifeInv
<1>8. \A d \in Buffers :
        count'[d] + FrameRefs(frames, d) + Refs(var, d)
            = count[d] + FrameRefs(frames', d) + Refs(var', d)
  <2> TAKE d \in Buffers
  <2>1. /\ count[d] \in Nat /\ Refs(var, d) \in Nat /\ FrameRefs(frames', d) \in Nat
        /\ d # NoBuffer /\ var' = var
    BY <1>1, <1>3, Facts, RefsType, FrameRefsType DEF StackInv
  <2>2. FrameRefs(frames, d) = FrameRefs(frames', d) + IF p = d THEN 1 ELSE 0
    BY <1>1, <1>3
  <2>3. count'[d] = IF b = d THEN n ELSE count[d]
    BY <1>5
  <2>4. CASE p = d
    BY <1>3, <2>1, <2>2, <2>3, <2>4
  <2>5. CASE p # d
    BY <1>3, <2>1, <2>2, <2>3, <2>5
  <2> QED
    BY <2>4, <2>5
<1>9. BufferInv'
  BY <1>1, <1>2, <1>3, <1>5, <1>6, <1>7, <1>8, Settle DEF flowVars
<1> QED
  BY <1>1, <1>3, <1>9 DEF Quiet

\* Every action on buffers alone.
LEMMA UserStep ==
  ASSUME BufferInv, BufferNext, UNCHANGED flowVars
  PROVE  BufferInv' /\ Quiet
<1>1. ASSUME NEW v \in Vars, NEW b \in Buffers, NEW lens \in Shapes, Create(v, b, lens)
      PROVE  BufferInv' /\ Quiet
  BY <1>1, CreateStep
<1>2. ASSUME NEW v \in Vars, SetSink(v) \/ Drop(v)
      PROVE  BufferInv' /\ Quiet
  BY <1>2, SetSinkStep, DropStep
<1>3. ASSUME NEW v \in Vars, NEW w \in Vars, Copy(v, w) \/ Move(v, w) \/ Swap(v, w)
      PROVE  BufferInv' /\ Quiet
  BY <1>3, CopyStep, MoveStep, SwapStep
<1>4. ASSUME NEW v \in Vars, NEW moves \in BOOLEAN, TakeParameter(v, moves)
      PROVE  BufferInv' /\ Quiet
  BY <1>4, TakeParameterStep
<1>5. CASE SinkReturns
  BY <1>5, SinkReturnsStep
<1> QED
  BY <1>1, <1>2, <1>3, <1>4, <1>5 DEF BufferNext

-----------------------------------------------------------------------------
(* Reading and output.                                                     *)

\* FlowInv for each endpoint.
LEMMA FlowFacts ==
  ASSUME BufferInv, FlowInv
  PROVE  /\ erefs \in [Ends -> Int]
         /\ eheld \in SUBSET Ends
         /\ reading \in BOOLEAN /\ rheld \in BOOLEAN /\ busy \in BOOLEAN
         /\ rrefs \in Int /\ rrefs = RequestRefs
         /\ busy => on \in Ends /\ outbuf \in Buffers
         /\ Runs(frames, "output") \/ Runs(frames, "after") => guard \in Ends
         /\ Source \in Ends /\ NoEnd \notin Ends
         /\ \A e \in Ends : erefs[e] \in Int /\ erefs[e] = EndRefs(e)
  BY BufferFlowAssumption DEF FlowInv, BufferInv, BufferTypes

\* A step that only concerns buffers.
LEMMA FlowKept ==
  ASSUME FlowInv, UNCHANGED <<erefs, eheld, reading, rrefs, rheld, busy, on, guard>>,
         \A k \in {"read", "output", "after"} : Runs(frames', k) <=> Runs(frames, k)
  PROVE  FlowInv'
<1>1. /\ Runs(frames', "read") <=> Runs(frames, "read")
      /\ Runs(frames', "output") <=> Runs(frames, "output")
      /\ Runs(frames', "after") <=> Runs(frames, "after")
  OBVIOUS
<1>2. \A e \in Ends : EndRefs(e)' = EndRefs(e)
  BY <1>1 DEF EndRefs
<1>3. RequestRefs' = RequestRefs
  BY <1>1 DEF RequestRefs
<1> QED
  BY <1>1, <1>2, <1>3 DEF FlowInv

\* A step that leaves the buffers and what refers to them alone.
LEMMA BuffersKept ==
  ASSUME BufferInv, UNCHANGED <<bufferVars, lent, leaked, busy, outbuf>>
  PROVE  BufferInv'
<1>1. UNCHANGED <<life, count, sink, var, frames, lent, leaked, busy, outbuf>>
  BY DEF bufferVars
<1>2. BufferTypes' /\ StackInv(frames)' /\ LifeInv(life, count, frames)'
  BY <1>1 DEF BufferInv, BufferTypes
<1>3. Accounted'
  BY <1>1 DEF BufferInv, Accounted, Chunks
<1> QED
  BY <1>2, <1>3 DEF BufferInv

\* A step that changes the chunks and requests in flight too.
LEMMA Resettle ==
  ASSUME BufferInv,
         count' \in [Buffers -> Nat],
         life' \in [Buffers -> {"none", "alive", "freed"}],
         sink' \in [Buffers -> BOOLEAN],
         var' \in [Vars -> Maybe],
         lent' \in Maybe, leaked' \in [Buffers -> Nat],
         busy' \in BOOLEAN, busy' => outbuf' \in Buffers,
         StackInv(frames'),
         LifeInv(life', count', frames'),
         \A d \in Buffers :
            count'[d] + FrameRefs(frames, d) + Refs(var, d) + Chunks(d)
                = count[d] + FrameRefs(frames', d) + Refs(var', d) + Chunks(d)'
  PROVE  BufferInv'
<1>1. BufferTypes'
  BY DEF BufferTypes
<1>2. \A d \in Buffers : Chunks(d) \in Nat
  BY Facts
<1>3. \A d \in Buffers : Chunks(d)' \in Nat
  <2> TAKE d \in Buffers
  <2>1. (IF lent' = d THEN 1 ELSE 0) \in Nat /\ leaked'[d] \in Nat
    OBVIOUS
  <2>2. (IF busy' /\ outbuf' = d THEN 1 ELSE 0) \in Nat
    OBVIOUS
  <2> QED
    BY <2>1, <2>2 DEF Chunks
<1>4. \A d \in Buffers : FrameRefs(frames', d) \in Nat /\ Refs(var', d) \in Nat /\ count'[d] \in Nat
  BY FrameRefsType, RefsType DEF StackInv
<1>5. \A d \in Buffers : count'[d] = Refs(var', d) + FrameRefs(frames', d) + Chunks(d)'
  <2> TAKE d \in Buffers
  <2>1. /\ count[d] \in Nat /\ Refs(var, d) \in Nat
        /\ FrameRefs(frames, d) \in Nat /\ Chunks(d) \in Nat
        /\ count[d] = Refs(var, d) + FrameRefs(frames, d) + Chunks(d)
    BY Facts
  <2>2. count'[d] + FrameRefs(frames, d) + Refs(var, d) + Chunks(d)
            = count[d] + FrameRefs(frames', d) + Refs(var', d) + Chunks(d)'
    OBVIOUS
  <2>3. /\ FrameRefs(frames', d) \in Nat /\ Refs(var', d) \in Nat
        /\ count'[d] \in Nat /\ Chunks(d)' \in Nat
    BY <1>3, <1>4
  <2> HIDE DEF Chunks
  <2> QED
    BY <2>1, <2>2, <2>3
<1>6. Accounted'
  BY <1>5 DEF Accounted
<1>7. StackInv(frames)' /\ LifeInv(life, count, frames)'
  OBVIOUS
<1> QED
  BY <1>1, <1>6, <1>7 DEF BufferInv

\* The stack with one callback of libuv.
LEMMA FrameFacts ==
  ASSUME NEW k \in Calls, NEW b \in Maybe, k \in {"end", "next", "after"} => b = NoBuffer
  PROVE  /\ StackInv(<<Frame(k, NoBuffer, b)>>)
         /\ \A j \in Calls : Runs(<<Frame(k, NoBuffer, b)>>, j) <=> k = j
         /\ \A d \in Buffers : ~SinkIn(<<Frame(k, NoBuffer, b)>>, d)
         /\ \A d \in Buffers : FrameRefs(<<Frame(k, NoBuffer, b)>>, d) = IF b = d THEN 1 ELSE 0
<1> DEFINE f == Frame(k, NoBuffer, b)
<1>1. f \in FrameType /\ f.kind = k /\ f.buf = b /\ k # "sink"
  BY DEF Frame, FrameType, Maybe, Calls
<1> HIDE DEF f
<1>2. /\ StackInv(<<f>>)
      /\ \A j \in Calls : Runs(<<f>>, j) <=> f.kind = j
      /\ \A d \in Buffers : ~SinkIn(<<f>>, d)
      /\ \A d \in Buffers : FrameRefs(<<f>>, d) = IF f.buf = d THEN 1 ELSE 0
  BY <1>1, SingleStack
<1> QED
  BY <1>1, <1>2 DEF f

\* The stack when the innermost callback is one of libuv.
LEMMA TopFacts ==
  ASSUME BufferInv, frames # <<>>, Last(frames).kind # "sink"
  PROVE  /\ Front(frames) = <<>>
         /\ Last(frames).buf \in Maybe
         /\ \A k \in Calls : Runs(frames, k) <=> Last(frames).kind = k
         /\ \A d \in Buffers : ~SinkIn(frames, d)
         /\ \A d \in Buffers : FrameRefs(frames, d) = IF Last(frames).buf = d THEN 1 ELSE 0
         /\ Last(frames).kind \in {"next", "after"} => Last(frames).buf = NoBuffer
<1> DEFINE f == Last(frames)
<1>1. StackInv(frames) /\ frames \in Seq(FrameType)
  BY Facts
<1>2. frames = <<f>> /\ Front(frames) = <<>> /\ f \in FrameType
  BY <1>1, TopAlone
<1>3. f.kind \in {"end", "next", "after"} => f.buf = NoBuffer
  <2>1. Len(frames) \in DOMAIN frames /\ f = frames[Len(frames)]
    BY <1>1, FrontFacts
  <2> QED
    BY <1>1, <2>1 DEF StackInv
<1> HIDE DEF f
<1>4. /\ \A k \in Calls : Runs(<<f>>, k) <=> f.kind = k
      /\ \A d \in Buffers : ~SinkIn(<<f>>, d)
      /\ \A d \in Buffers : FrameRefs(<<f>>, d) = IF f.buf = d THEN 1 ELSE 0
  <2>1. f.kind # "sink"
    BY DEF f
  <2> QED
    BY <1>2, <1>3, <2>1, SingleStack
<1>5. f.buf \in Maybe
  BY <1>2 DEF FrameType
<1> QED
  BY <1>2, <1>3, <1>4, <1>5 DEF f

\* The buffer of the chunk that libuv reads into is counted.
LEMMA LentHeld ==
  ASSUME BufferInv, lent # NoBuffer
  PROVE  lent \in Buffers /\ count[lent] > 0
<1>1. lent \in Buffers
  BY Facts DEF BufferTypes, Maybe
<1>2. /\ count[lent] = Refs(var, lent) + FrameRefs(frames, lent) + Chunks(lent)
      /\ Refs(var, lent) \in Nat /\ FrameRefs(frames, lent) \in Nat
  BY <1>1, Facts
<1>3. Chunks(lent) \in Nat /\ Chunks(lent) > 0
  <2>1. (IF busy /\ outbuf = lent THEN 1 ELSE 0) \in Nat /\ leaked[lent] \in Nat
    BY <1>1, Facts DEF BufferTypes
  <2> QED
    BY <2>1 DEF Chunks
<1> QED
  BY <1>1, <1>2, <1>3

\* The buffer of the output in flight is counted.
LEMMA OutHeld ==
  ASSUME BufferInv, busy
  PROVE  outbuf \in Buffers /\ count[outbuf] > 0
<1>1. outbuf \in Buffers
  BY Facts DEF BufferTypes
<1>2. /\ count[outbuf] = Refs(var, outbuf) + FrameRefs(frames, outbuf) + Chunks(outbuf)
      /\ Refs(var, outbuf) \in Nat /\ FrameRefs(frames, outbuf) \in Nat
  BY <1>1, Facts
<1>3. Chunks(outbuf) \in Nat /\ Chunks(outbuf) > 0
  <2>1. (IF lent = outbuf THEN 1 ELSE 0) \in Nat /\ leaked[outbuf] \in Nat
    BY <1>1, Facts DEF BufferTypes
  <2> QED
    BY <2>1 DEF Chunks
<1> QED
  BY <1>1, <1>2, <1>3

\* The variables of the request and of an endpoint go.
Drops == DropRequest \/ \E e \in Ends : DropEnd(e)

\* read_start(), of which the source has a reference while it is reading.
LEMMA FlowReading ==
  ASSUME Inv, UNCHANGED <<frames, eheld, rrefs, rheld, busy, on, guard>>,
         NEW ok \in BOOLEAN, ReadStarted(ok)
  PROVE  FlowInv'
<1>1. BufferInv /\ FlowInv
  BY DEF Inv
<1>2. /\ reading \in BOOLEAN /\ erefs \in [Ends -> Int] /\ Source \in Ends
      /\ reading' = ok /\ erefs' = [erefs EXCEPT ![Source] = @ + One(ok) - One(reading)]
  BY <1>1, FlowFacts DEF ReadStarted
<1>3. One(ok) \in Nat /\ One(reading) \in Nat
  BY DEF One
<1>4. /\ erefs' \in [Ends -> Int]
      /\ \A e \in Ends :
            erefs'[e] = IF e = Source THEN erefs[e] + One(ok) - One(reading) ELSE erefs[e]
  BY <1>2, <1>3
<1>5. \A e \in Ends : erefs'[e] = EndRefs(e)'
  <2> TAKE e \in Ends
  <2>1. erefs[e] \in Int /\ erefs[e] = EndRefs(e)
    BY <1>1, FlowFacts
  <2>2. CASE e # Source
    <3>1. EndRefs(e)' = EndRefs(e)
      BY <1>2, <2>2 DEF EndRefs
    <3> QED
      BY <1>4, <2>1, <2>2, <3>1
  <2>3. CASE e = Source
    <3> DEFINE x == IF e \in eheld THEN 1 ELSE 0
               y == IF Runs(frames, "read") THEN 1 ELSE 0
               z == IF busy /\ on = e THEN 1 ELSE 0
               w == IF guard = e /\ (Runs(frames, "output") \/ Runs(frames, "after"))
                    THEN 1 ELSE 0
    <3>1. x \in Nat /\ y \in Nat /\ z \in Nat /\ w \in Nat
      OBVIOUS
    <3>2. EndRefs(e) = x + One(reading) + y + z + w
      BY <2>3 DEF EndRefs, One
    <3>3. EndRefs(e)' = x + One(ok) + y + z + w
      BY <1>2, <2>3 DEF EndRefs, One
    <3> HIDE DEF x, y, z, w
    <3>4. EndRefs(e) + One(ok) - One(reading) = x + One(ok) + y + z + w
      BY <1>3, <3>1, <3>2
    <3> QED
      BY <1>4, <2>1, <2>3, <3>3, <3>4
  <2> QED
    BY <2>2, <2>3
<1>6. RequestRefs' = RequestRefs
  BY DEF RequestRefs
<1>7. reading' \in BOOLEAN
  BY <1>2, Zenon
<1> QED
  BY <1>1, <1>4, <1>5, <1>6, <1>7 DEF FlowInv

\* read_start() of what is not a file, and read_stop().
LEMMA ReadStartStopStep ==
  ASSUME Inv, ReadStop \/ \E ok \in BOOLEAN : ReadStart(ok)
  PROVE  Inv'
<1>1. PICK ok \in BOOLEAN :
         /\ UNCHANGED <<bufferVars, eheld, lent, leaked, rrefs, rheld, busy, on, outbuf, guard>>
         /\ ReadStarted(ok)
  <2>1. ASSUME ReadStop PROVE ReadStarted(FALSE)
    <3>1. /\ reading /\ reading' = FALSE /\ erefs' = [erefs EXCEPT ![Source] = @ - 1]
          /\ erefs \in [Ends -> Int] /\ Source \in Ends
      BY <2>1, FlowFacts DEF ReadStop, Inv
    <3>2. One(FALSE) = 0 /\ One(reading) = 1
      BY <3>1 DEF One
    <3>3. erefs[Source] + 0 - 1 = erefs[Source] - 1
      BY <3>1
    <3> QED
      BY <3>1, <3>2, <3>3 DEF ReadStarted
  <2>2. CASE ReadStop
    BY <2>1, <2>2 DEF ReadStop
  <2>3. CASE \E ok \in BOOLEAN : ReadStart(ok)
    BY <2>3 DEF ReadStart
  <2> QED
    BY <2>2, <2>3
<1>2. BufferInv'
  BY <1>1, BuffersKept DEF Inv
<1>3. frames' = frames
  BY <1>1 DEF bufferVars
<1>4. FlowInv'
  BY <1>1, <1>3, FlowReading
<1> QED
  BY <1>2, <1>4 DEF Inv

\* A variable of the request or of an endpoint goes.
LEMMA DropsStep ==
  ASSUME Inv, Drops
  PROVE  Inv'
<1>1. BufferInv /\ FlowInv
  BY DEF Inv
<1>2. UNCHANGED <<bufferVars, lent, leaked, reading, busy, on, outbuf, guard>>
  BY DEF Drops, DropRequest, DropEnd
<1>3. BufferInv'
  BY <1>1, <1>2, BuffersKept
<1>4. frames' = frames
  BY <1>2 DEF bufferVars
<1>5. /\ erefs \in [Ends -> Int] /\ eheld \in SUBSET Ends /\ reading \in BOOLEAN
      /\ rheld \in BOOLEAN /\ rrefs \in Int /\ rrefs = RequestRefs
  BY <1>1, FlowFacts
<1>6. CASE DropRequest
  <2>1. rheld /\ rheld' = FALSE /\ rrefs' = rrefs - 1 /\ UNCHANGED <<erefs, eheld>>
    BY <1>6 DEF DropRequest
  <2>2. \A e \in Ends : EndRefs(e)' = EndRefs(e)
    BY <1>2, <1>4, <2>1 DEF EndRefs
  <2>3. RequestRefs' = RequestRefs - 1
    BY <1>2, <1>4, <2>1 DEF RequestRefs
  <2>4. rrefs' \in Int /\ rrefs' = RequestRefs'
    BY <1>5, <2>1, <2>3
  <2>5. \A e \in Ends : erefs'[e] = EndRefs(e)'
    BY <1>1, <2>1, <2>2, FlowFacts
  <2>6. FlowInv'
    BY <1>1, <1>2, <1>4, <1>5, <2>1, <2>4, <2>5 DEF FlowInv
  <2> QED
    BY <1>3, <2>6 DEF Inv
<1>7. ASSUME NEW x \in Ends, DropEnd(x)
      PROVE  Inv'
  <2>1. /\ x \in eheld /\ eheld' = eheld \ {x}
        /\ erefs' = [erefs EXCEPT ![x] = @ - 1]
        /\ UNCHANGED <<rrefs, rheld>>
    BY <1>7 DEF DropEnd
  <2>2. /\ erefs' \in [Ends -> Int]
        /\ \A e \in Ends : erefs'[e] = IF e = x THEN erefs[e] - 1 ELSE erefs[e]
    BY <1>5, <2>1
  <2>3. \A e \in Ends : erefs'[e] = EndRefs(e)'
    <3> TAKE e \in Ends
    <3>1. erefs[e] \in Int /\ erefs[e] = EndRefs(e)
      BY <1>1, FlowFacts
    <3>2. CASE e # x
      <4>1. EndRefs(e)' = EndRefs(e)
        BY <1>2, <1>4, <2>1, <3>2 DEF EndRefs
      <4> QED
        BY <2>2, <3>1, <3>2, <4>1
    <3>3. CASE e = x
      <4>1. EndRefs(e)' = EndRefs(e) - 1
        BY <1>2, <1>4, <2>1, <3>3 DEF EndRefs
      <4> QED
        BY <2>2, <3>1, <3>3, <4>1
    <3> QED
      BY <3>2, <3>3
  <2>4. RequestRefs' = RequestRefs
    BY <1>2, <1>4, <2>1 DEF RequestRefs
  <2>5. FlowInv'
    BY <1>1, <1>2, <1>4, <1>5, <2>1, <2>2, <2>3, <2>4 DEF FlowInv
  <2> QED
    BY <1>3, <2>5 DEF Inv
<1> QED
  BY <1>6, <1>7 DEF Drops

\* on_request() = ...
LEMMA SetOutputCallbackStep ==
  ASSUME Inv, SetOutputCallback
  PROVE  Inv'
<1>1. BufferInv /\ FlowInv
  BY DEF Inv
<1>2. UNCHANGED <<bufferVars, erefs, eheld, reading, lent, leaked, rrefs, rheld, busy, on,
                  outbuf, guard>>
  BY DEF SetOutputCallback
<1>3. BufferInv'
  BY <1>1, <1>2, BuffersKept
<1>4. \A k \in {"read", "output", "after"} : Runs(frames', k) <=> Runs(frames, k)
  BY <1>2 DEF bufferVars
<1>5. FlowInv'
  BY <1>1, <1>2, <1>4, FlowKept
<1> QED
  BY <1>3, <1>5 DEF Inv

\* A read callback is called: io_read_cb() takes a reference of the source.
LEMMA FlowEnter ==
  ASSUME Inv, UNCHANGED <<eheld, reading, rrefs, rheld, busy, on, guard>>,
         erefs' = [erefs EXCEPT ![Source] = @ + 1],
         \A k \in {"read", "output", "after"} : ~Runs(frames, k),
         \A k \in {"read", "output", "after"} : Runs(frames', k) <=> k = "read"
  PROVE  FlowInv'
<1>1. BufferInv /\ FlowInv
  BY DEF Inv
<1>2. erefs \in [Ends -> Int] /\ Source \in Ends /\ rrefs = RequestRefs
  BY <1>1, FlowFacts
<1>3. /\ erefs' \in [Ends -> Int]
      /\ \A e \in Ends : erefs'[e] = IF e = Source THEN erefs[e] + 1 ELSE erefs[e]
  BY <1>2
<1>4. /\ ~Runs(frames, "read") /\ ~Runs(frames, "output") /\ ~Runs(frames, "after")
      /\ Runs(frames', "read") /\ ~Runs(frames', "output") /\ ~Runs(frames', "after")
  OBVIOUS
<1>5. \A e \in Ends : erefs'[e] = EndRefs(e)'
  <2> TAKE e \in Ends
  <2>1. erefs[e] \in Int /\ erefs[e] = EndRefs(e)
    BY <1>1, FlowFacts
  <2>2. CASE e # Source
    <3>1. EndRefs(e)' = EndRefs(e)
      BY <1>4, <2>2 DEF EndRefs
    <3> QED
      BY <1>3, <2>1, <2>2, <3>1
  <2>3. CASE e = Source
    <3>1. EndRefs(e)' = EndRefs(e) + 1
      BY <1>4, <2>3 DEF EndRefs
    <3> QED
      BY <1>3, <2>1, <2>3, <3>1
  <2> QED
    BY <2>2, <2>3
<1>6. RequestRefs' = RequestRefs
  BY <1>4 DEF RequestRefs
<1> QED
  BY <1>1, <1>2, <1>3, <1>4, <1>5, <1>6 DEF FlowInv

\* The read callback has returned.
LEMMA FlowLeave ==
  ASSUME Inv, UNCHANGED <<eheld, reading, rrefs, rheld, busy, on, guard>>,
         erefs' = [erefs EXCEPT ![Source] = @ - 1],
         \A k \in {"read", "output", "after"} : Runs(frames, k) <=> k = "read",
         \A k \in {"read", "output", "after"} : ~Runs(frames', k)
  PROVE  FlowInv'
<1>1. BufferInv /\ FlowInv
  BY DEF Inv
<1>2. erefs \in [Ends -> Int] /\ Source \in Ends /\ rrefs = RequestRefs
  BY <1>1, FlowFacts
<1>3. /\ erefs' \in [Ends -> Int]
      /\ \A e \in Ends : erefs'[e] = IF e = Source THEN erefs[e] - 1 ELSE erefs[e]
  BY <1>2
<1>4. /\ ~Runs(frames', "read") /\ ~Runs(frames', "output") /\ ~Runs(frames', "after")
      /\ Runs(frames, "read") /\ ~Runs(frames, "output") /\ ~Runs(frames, "after")
  OBVIOUS
<1>5. \A e \in Ends : erefs'[e] = EndRefs(e)'
  <2> TAKE e \in Ends
  <2>1. erefs[e] \in Int /\ erefs[e] = EndRefs(e)
    BY <1>1, FlowFacts
  <2>2. CASE e # Source
    <3>1. EndRefs(e)' = EndRefs(e)
      BY <1>4, <2>2 DEF EndRefs
    <3> QED
      BY <1>3, <2>1, <2>2, <3>1
  <2>3. CASE e = Source
    <3>1. EndRefs(e)' = EndRefs(e) - 1
      BY <1>4, <2>3 DEF EndRefs
    <3> QED
      BY <1>3, <2>1, <2>3, <3>1
  <2> QED
    BY <2>2, <2>3
<1>6. RequestRefs' = RequestRefs
  BY <1>4 DEF RequestRefs
<1> QED
  BY <1>1, <1>2, <1>3, <1>4, <1>5, <1>6 DEF FlowInv

\* io_read_cb() with data.
LEMMA ReadDataStep ==
  ASSUME Inv, ReadData
  PROVE  Inv'
<1>1. /\ frames = <<>> /\ lent # NoBuffer
      /\ frames' = <<Frame("read", NoBuffer, lent)>>
      /\ lent' = NoBuffer
      /\ erefs' = [erefs EXCEPT ![Source] = @ + 1]
      /\ UNCHANGED <<life, count, sink, var, eheld, reading, leaked, rrefs, rheld, busy, on,
                     outbuf, guard>>
  BY DEF ReadData
<1>2. BufferInv /\ FlowInv
  BY DEF Inv
<1>3. /\ lent \in Buffers /\ lent \in Maybe /\ NoBuffer \in Maybe /\ "read" \in Calls
      /\ BufferTypes /\ LifeInv(life, count, frames)
  BY <1>1, <1>2, LentHeld, Facts DEF Maybe, Calls
<1>4. /\ StackInv(frames')
      /\ \A j \in Calls : Runs(frames', j) <=> "read" = j
      /\ \A d \in Buffers : ~SinkIn(frames', d)
      /\ \A d \in Buffers : FrameRefs(frames', d) = IF lent = d THEN 1 ELSE 0
  <2>1. ~("read" \in {"end", "next", "after"})
    OBVIOUS
  <2> QED
    BY <1>1, <1>3, <2>1, FrameFacts
<1>5. /\ \A j \in Calls : ~Runs(frames, j)
      /\ \A d \in Buffers : FrameRefs(frames, d) = 0
  BY <1>1, EmptyStack
<1>6. LifeInv(life', count', frames')
  BY <1>1, <1>3, <1>4 DEF LifeInv
<1>7. \A d \in Buffers :
        count'[d] + FrameRefs(frames, d) + Refs(var, d) + Chunks(d)
            = count[d] + FrameRefs(frames', d) + Refs(var', d) + Chunks(d)'
  <2> TAKE d \in Buffers
  <2> DEFINE o == (IF busy /\ outbuf = d THEN 1 ELSE 0) + leaked[d]
             l == IF lent = d THEN 1 ELSE 0
  <2>1. o \in Nat /\ l \in Nat /\ d # NoBuffer /\ count[d] \in Nat /\ Refs(var, d) \in Nat
    BY <1>2, Facts
  <2>2. Chunks(d) = l + o
    BY DEF Chunks
  <2>3. Chunks(d)' = 0 + o
    BY <1>1, <2>1 DEF Chunks
  <2>4. FrameRefs(frames', d) = l /\ FrameRefs(frames, d) = 0 /\ count' = count /\ var' = var
    BY <1>1, <1>4, <1>5
  <2> HIDE DEF o, l
  <2> QED
    BY <2>1, <2>2, <2>3, <2>4
<1>8. BufferInv'
  <2>1. /\ count' \in [Buffers -> Nat]
        /\ life' \in [Buffers -> {"none", "alive", "freed"}]
        /\ sink' \in [Buffers -> BOOLEAN]
        /\ var' \in [Vars -> Maybe]
        /\ lent' \in Maybe /\ leaked' \in [Buffers -> Nat]
        /\ busy' \in BOOLEAN /\ (busy' => outbuf' \in Buffers)
    BY <1>1, <1>3 DEF BufferTypes
  <2> QED
    BY <1>2, <1>4, <1>6, <1>7, <2>1, Resettle
<1>9. FlowInv'
  BY <1>1, <1>4, <1>5, FlowEnter DEF Calls
<1> QED
  BY <1>8, <1>9 DEF Inv

\* A read callback with an empty buffer.
LEMMA EmptyReadStep ==
  ASSUME Inv, ReadEndCallback \/ ReadError
  PROVE  Inv'
<1>1. /\ frames = <<>> \/ frames = <<Frame("end", NoBuffer, NoBuffer)>>
      /\ frames' = <<Frame("read", NoBuffer, NoBuffer)>>
      /\ erefs' = [erefs EXCEPT ![Source] = @ + 1]
      /\ UNCHANGED <<life, count, sink, var, lent, leaked, eheld, reading, rrefs, rheld, busy,
                     on, outbuf, guard>>
  BY DEF ReadEndCallback, ReadError, Allocates
<1>2. BufferInv /\ FlowInv
  BY DEF Inv
<1>3. /\ NoBuffer \in Maybe /\ "read" \in Calls /\ "end" \in Calls
      /\ BufferTypes /\ LifeInv(life, count, frames)
      /\ \A d \in Buffers : d # NoBuffer
  BY <1>2, Facts DEF Maybe, Calls
<1>4. /\ StackInv(frames')
      /\ \A j \in Calls : Runs(frames', j) <=> "read" = j
      /\ \A d \in Buffers : ~SinkIn(frames', d)
      /\ \A d \in Buffers : FrameRefs(frames', d) = IF NoBuffer = d THEN 1 ELSE 0
  BY <1>1, <1>3, FrameFacts
<1>5. /\ \A j \in Calls : j # "end" => ~Runs(frames, j)
      /\ \A d \in Buffers : FrameRefs(frames, d) = 0
  <2>1. CASE frames = <<>>
    BY <2>1, EmptyStack
  <2>2. CASE frames = <<Frame("end", NoBuffer, NoBuffer)>>
    <3>1. /\ \A j \in Calls : Runs(frames, j) <=> "end" = j
          /\ \A d \in Buffers : FrameRefs(frames, d) = IF NoBuffer = d THEN 1 ELSE 0
      BY <1>3, <2>2, FrameFacts
    <3> QED
      BY <1>3, <3>1
  <2> QED
    BY <1>1, <2>1, <2>2
<1>6. LifeInv(life', count', frames')
  BY <1>1, <1>3, <1>4 DEF LifeInv
<1>7. \A d \in Buffers :
        count'[d] + FrameRefs(frames, d) + Refs(var, d)
            = count[d] + FrameRefs(frames', d) + Refs(var', d)
  <2> TAKE d \in Buffers
  <2>1. FrameRefs(frames', d) = 0 /\ FrameRefs(frames, d) = 0 /\ count' = count /\ var' = var
    BY <1>1, <1>3, <1>4, <1>5
  <2> QED
    BY <2>1
<1>8. BufferInv'
  <2>1. /\ count' \in [Buffers -> Nat]
        /\ life' \in [Buffers -> {"none", "alive", "freed"}]
        /\ sink' \in [Buffers -> BOOLEAN]
        /\ var' \in [Vars -> Maybe]
    BY <1>1, <1>3 DEF BufferTypes
  <2> QED
    BY <1>1, <1>2, <1>4, <1>6, <1>7, <2>1, Settle
<1>9. FlowInv'
  BY <1>1, <1>4, <1>5, FlowEnter DEF Calls
<1> QED
  BY <1>8, <1>9 DEF Inv

\* file::read_cb() releases the buffer, on an error or at the end.
LEMMA ReadEndStep ==
  ASSUME Inv, ReadEnd
  PROVE  Inv'
<1> DEFINE s == <<Frame("end", NoBuffer, NoBuffer)>>
<1>1. /\ frames = <<>> /\ lent # NoBuffer
      /\ Unref(lent, count, s)
      /\ lent' = NoBuffer
      /\ UNCHANGED <<sink, var, erefs, eheld, reading, leaked, rrefs, rheld, busy, on, outbuf,
                     guard>>
  BY DEF ReadEnd
<1>2. BufferInv /\ FlowInv
  BY DEF Inv
<1>3. /\ lent \in Buffers /\ count[lent] > 0 /\ NoBuffer \in Maybe /\ "end" \in Calls
      /\ BufferTypes /\ LifeInv(life, count, frames)
      /\ count \in [Buffers -> Nat]
  BY <1>1, <1>2, LentHeld, Facts DEF Maybe, Calls, BufferTypes
<1>4. /\ StackInv(s)
      /\ \A j \in Calls : Runs(s, j) <=> "end" = j
      /\ \A d \in Buffers : ~SinkIn(s, d)
      /\ \A d \in Buffers : FrameRefs(s, d) = IF NoBuffer = d THEN 1 ELSE 0
  BY <1>3, FrameFacts
<1> HIDE DEF s
<1>5. /\ \A j \in Calls : ~Runs(frames, j)
      /\ \A d \in Buffers : FrameRefs(frames, d) = 0
  BY <1>1, EmptyStack
<1>6. LifeInv(life, count, s)
  BY <1>3, <1>4 DEF LifeInv
<1>7. /\ count' \in [Buffers -> Nat]
      /\ life' \in [Buffers -> {"none", "alive", "freed"}]
      /\ StackInv(frames')
      /\ LifeInv(life', count', frames')
      /\ \A k \in Calls : Runs(frames', k) <=> Runs(s, k)
      /\ \A d \in Buffers :
            count'[d] + FrameRefs(s, d) + (IF lent = d THEN 1 ELSE 0)
                = count[d] + FrameRefs(frames', d)
  BY <1>1, <1>3, <1>4, <1>6, UnrefStep
<1>8. \A d \in Buffers :
        count'[d] + FrameRefs(frames, d) + Refs(var, d) + Chunks(d)
            = count[d] + FrameRefs(frames', d) + Refs(var', d) + Chunks(d)'
  <2> TAKE d \in Buffers
  <2> DEFINE o == (IF busy /\ outbuf = d THEN 1 ELSE 0) + leaked[d]
             l == IF lent = d THEN 1 ELSE 0
             x1 == count'[d]
             x2 == count[d]
             r == Refs(var, d)
             f2 == FrameRefs(frames', d)
  <2>1. o \in Nat /\ l \in Nat /\ d # NoBuffer /\ x2 \in Nat /\ r \in Nat /\ x1 \in Nat /\ f2 \in Nat
    <3>1. leaked[d] \in Nat /\ d # NoBuffer /\ x2 \in Nat /\ r \in Nat
      BY <1>2, Facts
    <3>2. x1 \in Nat
      BY <1>7
    <3>3. f2 \in Nat
      BY <1>7, FrameRefsType DEF StackInv
    <3> QED
      BY <3>1, <3>2, <3>3
  <2>2. Chunks(d) = l + o
    BY DEF Chunks
  <2>3. Chunks(d)' = 0 + o
    BY <1>1, <2>1 DEF Chunks
  <2>4. FrameRefs(s, d) = 0 /\ FrameRefs(frames, d) = 0 /\ var' = var
    BY <1>1, <1>4, <1>5, <2>1
  <2>5. x1 + FrameRefs(s, d) + l = x2 + f2
    BY <1>7
  <2> HIDE DEF o, l, x1, x2, r, f2
  <2>6. x1 + 0 + r + (l + o) = x2 + f2 + r + (0 + o)
    BY <2>1, <2>4, <2>5
  <2> QED
    BY <2>2, <2>3, <2>4, <2>6 DEF x1, x2, r, f2
<1>9. BufferInv'
  <2>1. /\ sink' \in [Buffers -> BOOLEAN]
        /\ var' \in [Vars -> Maybe]
        /\ lent' \in Maybe /\ leaked' \in [Buffers -> Nat]
        /\ busy' \in BOOLEAN /\ (busy' => outbuf' \in Buffers)
    BY <1>1, <1>3 DEF BufferTypes
  <2> QED
    BY <1>2, <1>7, <1>8, <2>1, Resettle
<1>10. FlowInv'
  <2>1. \A k \in {"read", "output", "after"} : Runs(frames', k) <=> Runs(frames, k)
    BY <1>4, <1>5, <1>7 DEF Calls
  <2> QED
    BY <1>1, <1>2, <2>1, FlowKept
<1> QED
  BY <1>9, <1>10 DEF Inv

\* The read callback returns; of a file the next read is still to be requested.
LEMMA ReadReturnsStep ==
  ASSUME Inv, ReadReturns
  PROVE  Inv'
<1> DEFINE b == Last(frames).buf
           s == IF kind[Source] = "file" THEN <<Frame("next", NoBuffer, NoBuffer)>> ELSE <<>>
<1>1. /\ frames # <<>> /\ Last(frames).kind = "read"
      /\ erefs' = [erefs EXCEPT ![Source] = @ - 1]
      /\ UNCHANGED <<sink, var, lent, leaked, eheld, reading, rrefs, rheld, busy, on, outbuf,
                     guard>>
  BY DEF ReadReturns
<1>2. BufferInv /\ FlowInv
  BY DEF Inv
<1>3. /\ BufferTypes /\ LifeInv(life, count, frames)
      /\ count \in [Buffers -> Nat]
      /\ life \in [Buffers -> {"none", "alive", "freed"}]
      /\ sink' \in [Buffers -> BOOLEAN]
      /\ var' \in [Vars -> Maybe]
      /\ NoBuffer \in Maybe /\ "next" \in Calls
      /\ \A d \in Buffers : d # NoBuffer
  BY <1>1, <1>2, Facts DEF BufferTypes, Maybe, Calls
<1>4. /\ Front(frames) = <<>>
      /\ b \in Maybe
      /\ \A k \in Calls : Runs(frames, k) <=> "read" = k
      /\ \A d \in Buffers : FrameRefs(frames, d) = IF b = d THEN 1 ELSE 0
  BY <1>1, <1>2, TopFacts
<1>5. b # NoBuffer => b \in Buffers /\ count[b] > 0
  BY <1>1, <1>2, ParameterHeld
<1>6. Append(Front(frames), Frame("next", NoBuffer, NoBuffer)) = <<Frame("next", NoBuffer, NoBuffer)>>
  BY <1>4
<1>7. IF b = NoBuffer THEN frames' = s /\ UNCHANGED <<count, life>> ELSE Unref(b, count, s)
  BY <1>4, <1>6 DEF ReadReturns
<1>8. /\ StackInv(s)
      /\ \A j \in {"read", "output", "after"} : ~Runs(s, j)
      /\ \A d \in Buffers : ~SinkIn(s, d)
      /\ \A d \in Buffers : FrameRefs(s, d) = 0
  <2>1. CASE kind[Source] = "file"
    <3>1. s = <<Frame("next", NoBuffer, NoBuffer)>>
      BY <2>1
    <3> HIDE DEF s
    <3>2. /\ StackInv(s)
          /\ \A j \in Calls : Runs(s, j) <=> "next" = j
          /\ \A d \in Buffers : ~SinkIn(s, d)
          /\ \A d \in Buffers : FrameRefs(s, d) = IF NoBuffer = d THEN 1 ELSE 0
      BY <1>3, <3>1, FrameFacts
    <3> QED
      BY <1>3, <3>2 DEF Calls
  <2>2. CASE kind[Source] # "file"
    BY <2>2, EmptyStack DEF Calls
  <2> QED
    BY <2>1, <2>2
<1> HIDE DEF b, s
<1>9. LifeInv(life, count, s)
  BY <1>3, <1>8 DEF LifeInv
<1>10. /\ count' \in [Buffers -> Nat]
       /\ life' \in [Buffers -> {"none", "alive", "freed"}]
       /\ StackInv(frames')
       /\ LifeInv(life', count', frames')
       /\ \A j \in {"read", "output", "after"} : ~Runs(frames', j)
       /\ \A d \in Buffers :
             count'[d] + 0 + (IF b = d THEN 1 ELSE 0) = count[d] + FrameRefs(frames', d)
  <2>1. CASE b = NoBuffer
    <3>1. frames' = s /\ count' = count /\ life' = life
      BY <1>7, <2>1
    <3>2. \A d \in Buffers : b # d /\ count[d] \in Nat
      BY <1>2, <2>1, Facts
    <3> QED
      BY <1>3, <1>8, <1>9, <3>1, <3>2
  <2>2. CASE b # NoBuffer
    <3>1. b \in Buffers /\ count[b] > 0 /\ Unref(b, count, s) /\ ~SinkIn(s, b)
      BY <1>5, <1>7, <1>8, <2>2
    <3>2. /\ count' \in [Buffers -> Nat]
          /\ life' \in [Buffers -> {"none", "alive", "freed"}]
          /\ StackInv(frames')
          /\ LifeInv(life', count', frames')
          /\ \A k \in Calls : Runs(frames', k) <=> Runs(s, k)
          /\ \A d \in Buffers :
                count'[d] + FrameRefs(s, d) + (IF b = d THEN 1 ELSE 0)
                    = count[d] + FrameRefs(frames', d)
      BY <1>3, <1>8, <1>9, <3>1, UnrefStep
    <3>3. \A j \in {"read", "output", "after"} : ~Runs(frames', j)
      BY <1>8, <3>2 DEF Calls
    <3> QED
      BY <1>8, <3>2, <3>3
  <2> QED
    BY <2>1, <2>2
<1>11. \A d \in Buffers :
         count'[d] + FrameRefs(frames, d) + Refs(var, d)
             = count[d] + FrameRefs(frames', d) + Refs(var', d)
  <2> TAKE d \in Buffers
  <2> DEFINE l == IF b = d THEN 1 ELSE 0
             x1 == count'[d]
             x2 == count[d]
             r == Refs(var, d)
             f2 == FrameRefs(frames', d)
  <2>1. l \in Nat /\ x2 \in Nat /\ r \in Nat /\ x1 \in Nat /\ f2 \in Nat
    BY <1>2, <1>10, Facts, FrameRefsType DEF StackInv
  <2>2. x1 + 0 + l = x2 + f2
    BY <1>10
  <2>3. FrameRefs(frames, d) = l /\ var' = var
    BY <1>1, <1>4
  <2> HIDE DEF l, x1, x2, r, f2
  <2>4. x1 + l + r = x2 + f2 + r
    BY <2>1, <2>2
  <2> QED
    BY <2>3, <2>4 DEF x1, x2, r, f2
<1>12. BufferInv'
  BY <1>1, <1>2, <1>3, <1>10, <1>11, Settle
<1>13. FlowInv'
  BY <1>1, <1>4, <1>10, FlowLeave DEF Calls
<1> QED
  BY <1>12, <1>13 DEF Inv

\* The output request comes back: the guard takes over the endpoint.
LEMMA FlowOutput ==
  ASSUME Inv, UNCHANGED <<erefs, eheld, reading, rheld>>, busy, ~busy', guard' = on,
         NEW k \in {"output", "after"},
         rrefs' = IF k = "output" THEN rrefs + 1 ELSE rrefs,
         \A j \in {"read", "output", "after"} : ~Runs(frames, j),
         \A j \in {"read", "output", "after"} : Runs(frames', j) <=> k = j
  PROVE  FlowInv'
<1>1. BufferInv /\ FlowInv
  BY DEF Inv
<1>2. /\ on \in Ends /\ erefs \in [Ends -> Int]
      /\ rrefs \in Int /\ rrefs = RequestRefs
  BY <1>1, FlowFacts
<1>3. /\ ~Runs(frames, "read") /\ ~Runs(frames, "output") /\ ~Runs(frames, "after")
      /\ ~Runs(frames', "read")
      /\ Runs(frames', "output") <=> k = "output"
      /\ Runs(frames', "after") <=> k = "after"
  OBVIOUS
<1>4. \A e \in Ends : erefs'[e] = EndRefs(e)'
  <2> TAKE e \in Ends
  <2>1. erefs[e] = EndRefs(e)
    BY <1>1, FlowFacts
  <2>2. Runs(frames', "output") \/ Runs(frames', "after")
    BY <1>3
  <2>3. EndRefs(e)' = EndRefs(e)
    BY <1>3, <2>2 DEF EndRefs
  <2> QED
    BY <2>1, <2>3
<1>5. rrefs' \in Int /\ rrefs' = RequestRefs'
  <2>1. CASE k = "output"
    <3>1. RequestRefs' = RequestRefs + 1
      BY <1>3, <2>1 DEF RequestRefs
    <3> QED
      BY <1>2, <2>1, <3>1
  <2>2. CASE k = "after"
    <3>1. RequestRefs' = RequestRefs
      BY <1>3, <2>2 DEF RequestRefs
    <3> QED
      BY <1>2, <2>2, <3>1
  <2> QED
    BY <2>1, <2>2
<1>6. (busy' => on' \in Ends) /\ guard' \in Ends
  BY <1>2
<1> QED
  BY <1>1, <1>2, <1>4, <1>5, <1>6 DEF FlowInv

\* The output request comes back, with or without a callback.
LEMMA OutputDoneStep ==
  ASSUME Inv, OutputDone
  PROVE  Inv'
<1> DEFINE s == <<Frame("after", NoBuffer, NoBuffer)>>
<1>1. /\ frames = <<>> /\ busy /\ ~busy' /\ guard' = on
      /\ UNCHANGED <<sink, var, erefs, eheld, reading, lent, leaked, rheld>>
  BY DEF OutputDone
<1>2. BufferInv /\ FlowInv
  BY DEF Inv
<1>3. /\ outbuf \in Buffers /\ outbuf \in Maybe /\ count[outbuf] > 0 /\ NoBuffer \in Maybe
      /\ "after" \in Calls /\ "output" \in Calls
      /\ BufferTypes /\ LifeInv(life, count, frames)
      /\ count \in [Buffers -> Nat]
      /\ life \in [Buffers -> {"none", "alive", "freed"}]
      /\ sink' \in [Buffers -> BOOLEAN]
      /\ var' \in [Vars -> Maybe]
      /\ lent' \in Maybe /\ leaked' \in [Buffers -> Nat]
  BY <1>1, <1>2, OutHeld, Facts DEF Maybe, Calls, BufferTypes
<1>4. busy' \in BOOLEAN /\ (busy' => outbuf' \in Buffers)
  BY <1>1 DEF OutputDone
<1>5. /\ \A j \in Calls : ~Runs(frames, j)
      /\ \A d \in Buffers : FrameRefs(frames, d) = 0
  BY <1>1, EmptyStack
<1>6. \A d \in Buffers : d # NoBuffer
  BY BufferAssumption
<1>7. PICK k \in {"output", "after"} :
        /\ rrefs' = IF k = "output" THEN rrefs + 1 ELSE rrefs
        /\ count' \in [Buffers -> Nat]
        /\ life' \in [Buffers -> {"none", "alive", "freed"}]
        /\ StackInv(frames')
        /\ LifeInv(life', count', frames')
        /\ \A j \in Calls : Runs(frames', j) <=> k = j
        /\ \A d \in Buffers :
              count'[d] + (IF outbuf = d THEN 1 ELSE 0) = count[d] + FrameRefs(frames', d)
  <2>1. CASE outcb
    <3>1. /\ frames' = <<Frame("output", NoBuffer, outbuf)>>
          /\ rrefs' = rrefs + 1
          /\ count' = count /\ life' = life
      BY <2>1 DEF OutputDone
    <3>2. /\ StackInv(frames')
          /\ \A j \in Calls : Runs(frames', j) <=> "output" = j
          /\ \A d \in Buffers : ~SinkIn(frames', d)
          /\ \A d \in Buffers : FrameRefs(frames', d) = IF outbuf = d THEN 1 ELSE 0
      <4>1. ~("output" \in {"end", "next", "after"})
        OBVIOUS
      <4> QED
        BY <1>3, <3>1, <4>1, FrameFacts, SMTT(30)
    <3>3. LifeInv(life', count', frames')
      BY <1>3, <3>1, <3>2 DEF LifeInv
    <3>4. \A d \in Buffers :
            count'[d] + (IF outbuf = d THEN 1 ELSE 0) = count[d] + FrameRefs(frames', d)
      BY <3>1, <3>2
    <3> WITNESS "output" \in {"output", "after"}
    <3> QED
      BY <1>3, <3>1, <3>2, <3>3, <3>4
  <2>2. CASE ~outcb
    <3>1. Unref(outbuf, count, s) /\ rrefs' = rrefs
      BY <2>2 DEF OutputDone
    <3>2. /\ StackInv(s)
          /\ \A j \in Calls : Runs(s, j) <=> "after" = j
          /\ \A d \in Buffers : ~SinkIn(s, d)
          /\ \A d \in Buffers : FrameRefs(s, d) = IF NoBuffer = d THEN 1 ELSE 0
      BY <1>3, FrameFacts
    <3> HIDE DEF s
    <3>3. LifeInv(life, count, s)
      BY <1>3, <3>2 DEF LifeInv
    <3>4. /\ count' \in [Buffers -> Nat]
          /\ life' \in [Buffers -> {"none", "alive", "freed"}]
          /\ StackInv(frames')
          /\ LifeInv(life', count', frames')
          /\ \A j \in Calls : Runs(frames', j) <=> Runs(s, j)
          /\ \A d \in Buffers :
                count'[d] + FrameRefs(s, d) + (IF outbuf = d THEN 1 ELSE 0)
                    = count[d] + FrameRefs(frames', d)
      BY <1>3, <3>1, <3>2, <3>3, UnrefStep
    <3>5. \A d \in Buffers :
            count'[d] + (IF outbuf = d THEN 1 ELSE 0) = count[d] + FrameRefs(frames', d)
      <4> TAKE d \in Buffers
      <4>1. FrameRefs(s, d) = 0 /\ count'[d] \in Nat
        BY <1>6, <3>2, <3>4
      <4>2. count'[d] + FrameRefs(s, d) + (IF outbuf = d THEN 1 ELSE 0)
                = count[d] + FrameRefs(frames', d)
        BY <3>4
      <4> QED
        BY <4>1, <4>2
    <3> WITNESS "after" \in {"output", "after"}
    <3> QED
      BY <3>1, <3>2, <3>4, <3>5
  <2> QED
    BY <2>1, <2>2
<1>8. \A d \in Buffers :
        count'[d] + FrameRefs(frames, d) + Refs(var, d) + Chunks(d)
            = count[d] + FrameRefs(frames', d) + Refs(var', d) + Chunks(d)'
  <2> TAKE d \in Buffers
  <2> DEFINE o == IF outbuf = d THEN 1 ELSE 0
             l == IF lent = d THEN 1 ELSE 0
             m == leaked[d]
             x1 == count'[d]
             x2 == count[d]
             r == Refs(var, d)
             f2 == FrameRefs(frames', d)
  <2>1. /\ o \in Nat /\ l \in Nat /\ m \in Nat /\ x2 \in Nat /\ r \in Nat
        /\ x1 \in Nat /\ f2 \in Nat
    BY <1>2, <1>7, Facts, FrameRefsType DEF StackInv
  <2>2. Chunks(d) = l + (o + m)
    BY <1>1 DEF Chunks
  <2>3. Chunks(d)' = l + (0 + m)
    BY <1>1 DEF Chunks
  <2>4. FrameRefs(frames, d) = 0 /\ var' = var
    BY <1>1, <1>5
  <2>5. x1 + o = x2 + f2
    BY <1>7
  <2> HIDE DEF o, l, m, x1, x2, r, f2
  <2>6. x1 + 0 + r + (l + (o + m)) = x2 + f2 + r + (l + (0 + m))
    BY <2>1, <2>5
  <2> QED
    BY <2>2, <2>3, <2>4, <2>6 DEF x1, x2, r, f2
<1>9. BufferInv'
  BY <1>2, <1>3, <1>4, <1>7, <1>8, Resettle
<1>10. FlowInv'
  BY <1>1, <1>5, <1>7, FlowOutput DEF Calls
<1> QED
  BY <1>9, <1>10 DEF Inv

\* The output callback returns.
LEMMA OutputReturnsStep ==
  ASSUME Inv, OutputReturns
  PROVE  Inv'
<1> DEFINE b == Last(frames).buf
           s == <<Frame("after", NoBuffer, NoBuffer)>>
<1>1. /\ frames # <<>> /\ Last(frames).kind = "output"
      /\ rrefs' = rrefs - 1
      /\ UNCHANGED <<sink, var, erefs, lent, leaked, eheld, reading, rheld, busy, on, outbuf,
                     guard>>
  BY DEF OutputReturns
<1>2. BufferInv /\ FlowInv
  BY DEF Inv
<1>3. /\ BufferTypes /\ LifeInv(life, count, frames)
      /\ count \in [Buffers -> Nat]
      /\ life \in [Buffers -> {"none", "alive", "freed"}]
      /\ sink' \in [Buffers -> BOOLEAN]
      /\ var' \in [Vars -> Maybe]
      /\ NoBuffer \in Maybe /\ "after" \in Calls
      /\ \A d \in Buffers : d # NoBuffer
  BY <1>1, <1>2, Facts DEF BufferTypes, Maybe, Calls
<1>4. /\ Front(frames) = <<>>
      /\ b \in Maybe
      /\ \A k \in Calls : Runs(frames, k) <=> "output" = k
      /\ \A d \in Buffers : FrameRefs(frames, d) = IF b = d THEN 1 ELSE 0
  BY <1>1, <1>2, TopFacts
<1>5. b # NoBuffer => b \in Buffers /\ count[b] > 0
  BY <1>1, <1>2, ParameterHeld
<1>6. Append(Front(frames), Frame("after", NoBuffer, NoBuffer)) = s
  BY <1>4
<1>7. IF b = NoBuffer THEN frames' = s /\ UNCHANGED <<count, life>> ELSE Unref(b, count, s)
  BY <1>6 DEF OutputReturns
<1>8. /\ StackInv(s)
      /\ \A j \in Calls : Runs(s, j) <=> "after" = j
      /\ \A d \in Buffers : ~SinkIn(s, d)
      /\ \A d \in Buffers : FrameRefs(s, d) = IF NoBuffer = d THEN 1 ELSE 0
  BY <1>3, FrameFacts
<1> HIDE DEF b, s
<1>9. LifeInv(life, count, s) /\ \A d \in Buffers : FrameRefs(s, d) = 0
  BY <1>3, <1>8 DEF LifeInv
<1>10. /\ count' \in [Buffers -> Nat]
       /\ life' \in [Buffers -> {"none", "alive", "freed"}]
       /\ StackInv(frames')
       /\ LifeInv(life', count', frames')
       /\ \A j \in Calls : Runs(frames', j) <=> "after" = j
       /\ \A d \in Buffers :
             count'[d] + 0 + (IF b = d THEN 1 ELSE 0) = count[d] + FrameRefs(frames', d)
  <2>1. CASE b = NoBuffer
    <3>1. frames' = s /\ count' = count /\ life' = life
      BY <1>7, <2>1
    <3>2. \A d \in Buffers : b # d /\ count[d] \in Nat
      BY <1>2, <2>1, Facts
    <3> QED
      BY <1>3, <1>8, <1>9, <3>1, <3>2
  <2>2. CASE b # NoBuffer
    <3>1. b \in Buffers /\ count[b] > 0 /\ Unref(b, count, s) /\ ~SinkIn(s, b)
      BY <1>5, <1>7, <1>8, <2>2
    <3>2. /\ count' \in [Buffers -> Nat]
          /\ life' \in [Buffers -> {"none", "alive", "freed"}]
          /\ StackInv(frames')
          /\ LifeInv(life', count', frames')
          /\ \A k \in Calls : Runs(frames', k) <=> Runs(s, k)
          /\ \A d \in Buffers :
                count'[d] + FrameRefs(s, d) + (IF b = d THEN 1 ELSE 0)
                    = count[d] + FrameRefs(frames', d)
      BY <1>3, <1>8, <1>9, <3>1, UnrefStep
    <3> QED
      BY <1>8, <1>9, <3>2
  <2> QED
    BY <2>1, <2>2
<1>11. \A d \in Buffers :
         count'[d] + FrameRefs(frames, d) + Refs(var, d)
             = count[d] + FrameRefs(frames', d) + Refs(var', d)
  <2> TAKE d \in Buffers
  <2> DEFINE l == IF b = d THEN 1 ELSE 0
             x1 == count'[d]
             x2 == count[d]
             r == Refs(var, d)
             f2 == FrameRefs(frames', d)
  <2>1. l \in Nat /\ x2 \in Nat /\ r \in Nat /\ x1 \in Nat /\ f2 \in Nat
    BY <1>2, <1>10, Facts, FrameRefsType DEF StackInv
  <2>2. x1 + 0 + l = x2 + f2
    BY <1>10
  <2>3. FrameRefs(frames, d) = l /\ var' = var
    BY <1>1, <1>4
  <2> HIDE DEF l, x1, x2, r, f2
  <2>4. x1 + l + r = x2 + f2 + r
    BY <2>1, <2>2
  <2> QED
    BY <2>3, <2>4 DEF x1, x2, r, f2
<1>12. BufferInv'
  BY <1>1, <1>2, <1>3, <1>10, <1>11, Settle
<1>13. /\ ~Runs(frames, "read") /\ Runs(frames, "output") /\ ~Runs(frames, "after")
       /\ ~Runs(frames', "read") /\ ~Runs(frames', "output") /\ Runs(frames', "after")
  BY <1>4, <1>10 DEF Calls
<1>14. \A e \in Ends : EndRefs(e)' = EndRefs(e)
  BY <1>1, <1>13 DEF EndRefs
<1>15. RequestRefs' = RequestRefs - 1
  <2>1. (IF rheld THEN 1 ELSE 0) \in Nat /\ (IF busy THEN 1 ELSE 0) \in Nat
    OBVIOUS
  <2> QED
    BY <1>1, <1>13, <2>1 DEF RequestRefs
<1>16. rrefs' \in Int /\ rrefs' = RequestRefs'
  BY <1>1, <1>2, <1>15, FlowFacts
<1>17. FlowInv'
  BY <1>1, <1>2, <1>13, <1>14, <1>16 DEF FlowInv
<1> QED
  BY <1>12, <1>17 DEF Inv

\* The guards of the output callback go.
LEMMA OutputAfterStep ==
  ASSUME Inv, OutputAfter
  PROVE  Inv'
<1>1. /\ frames # <<>> /\ Last(frames).kind = "after"
      /\ frames' = Front(frames)
      /\ rrefs' = rrefs - 1
      /\ erefs' = [erefs EXCEPT ![guard] = @ - 1]
      /\ UNCHANGED <<life, count, sink, var, lent, leaked, eheld, reading, rheld, busy, on,
                     outbuf>>
  BY DEF OutputAfter
<1>2. BufferInv /\ FlowInv
  BY DEF Inv
<1>3. /\ BufferTypes /\ LifeInv(life, count, frames)
      /\ \A d \in Buffers : d # NoBuffer
  BY <1>2, Facts
<1>4. /\ frames' = <<>>
      /\ \A k \in Calls : Runs(frames, k) <=> "after" = k
      /\ \A d \in Buffers : FrameRefs(frames, d) = 0
  <2>1. /\ Front(frames) = <<>>
        /\ Last(frames).buf = NoBuffer
        /\ \A k \in Calls : Runs(frames, k) <=> "after" = k
        /\ \A d \in Buffers : FrameRefs(frames, d) = IF Last(frames).buf = d THEN 1 ELSE 0
    BY <1>1, <1>2, TopFacts
  <2> QED
    BY <1>1, <1>3, <2>1
<1>5. /\ StackInv(frames') /\ \A k \in Calls : ~Runs(frames', k)
      /\ \A d \in Buffers : ~SinkIn(frames', d) /\ FrameRefs(frames', d) = 0
  BY <1>4, EmptyStack
<1>6. LifeInv(life', count', frames')
  BY <1>1, <1>3, <1>5 DEF LifeInv
<1>7. \A d \in Buffers :
        count'[d] + FrameRefs(frames, d) + Refs(var, d)
            = count[d] + FrameRefs(frames', d) + Refs(var', d)
  BY <1>1, <1>4, <1>5
<1>8. BufferInv'
  <2>1. /\ count' \in [Buffers -> Nat]
        /\ life' \in [Buffers -> {"none", "alive", "freed"}]
        /\ sink' \in [Buffers -> BOOLEAN]
        /\ var' \in [Vars -> Maybe]
    BY <1>1, <1>3 DEF BufferTypes
  <2> QED
    BY <1>1, <1>2, <1>5, <1>6, <1>7, <2>1, Settle
<1>9. /\ ~Runs(frames, "read") /\ ~Runs(frames, "output") /\ Runs(frames, "after")
      /\ ~Runs(frames', "read") /\ ~Runs(frames', "output") /\ ~Runs(frames', "after")
  BY <1>4, <1>5 DEF Calls
<1>10. erefs \in [Ends -> Int] /\ guard \in Ends /\ rrefs \in Int /\ rrefs = RequestRefs
  BY <1>2, <1>9, FlowFacts
<1>11. /\ erefs' \in [Ends -> Int]
       /\ \A e \in Ends : erefs'[e] = IF e = guard THEN erefs[e] - 1 ELSE erefs[e]
  BY <1>1, <1>10
<1>12. \A e \in Ends : erefs'[e] = EndRefs(e)'
  <2> TAKE e \in Ends
  <2>1. erefs[e] \in Int /\ erefs[e] = EndRefs(e)
    BY <1>2, FlowFacts
  <2>2. CASE e # guard
    <3>1. EndRefs(e)' = EndRefs(e)
      BY <1>1, <1>9, <2>2 DEF EndRefs
    <3> QED
      BY <1>11, <2>1, <2>2, <3>1
  <2>3. CASE e = guard
    <3>1. EndRefs(e)' = EndRefs(e) - 1
      BY <1>1, <1>9, <2>3 DEF EndRefs
    <3> QED
      BY <1>11, <2>1, <2>3, <3>1
  <2> QED
    BY <2>2, <2>3
<1>13. RequestRefs' = RequestRefs - 1
  <2>1. (IF rheld THEN 1 ELSE 0) \in Nat /\ (IF busy THEN 1 ELSE 0) \in Nat
    OBVIOUS
  <2> QED
    BY <1>1, <1>9, <2>1 DEF RequestRefs
<1>14. rrefs' \in Int /\ rrefs' = RequestRefs'
  BY <1>1, <1>10, <1>13
<1>15. FlowInv'
  BY <1>1, <1>2, <1>9, <1>11, <1>12, <1>14 DEF FlowInv
<1> QED
  BY <1>8, <1>15 DEF Inv

\* io_alloc_cb() takes one reference to the buffer of the alloc callback,
\* which is not yet anybody's.
LEMMA AllocCbStep ==
  ASSUME BufferInv, NEW b \in Buffers, IoAllocCb(b)
  PROVE  /\ count' \in [Buffers -> Nat]
         /\ life' \in [Buffers -> {"none", "alive", "freed"}]
         /\ sink' \in [Buffers -> BOOLEAN]
         /\ var' \in [Vars -> Maybe]
         /\ LifeInv(life', count', frames)
         /\ \A d \in Buffers :
               count'[d] + Refs(var, d) + 0 = count[d] + Refs(var', d) + (IF b = d THEN 1 ELSE 0)
<1>1. /\ BufferTypes /\ LifeInv(life, count, frames)
      /\ count \in [Buffers -> Nat] /\ var \in [Vars -> Maybe]
      /\ life \in [Buffers -> {"none", "alive", "freed"}]
      /\ sink' \in [Buffers -> BOOLEAN]
      /\ b \in Maybe /\ NoBuffer \in Maybe
  BY Facts DEF BufferTypes, Maybe, IoAllocCb
<1>2. CASE AllocNew(b)
  <2>1. /\ life[b] = "none" /\ var' = var
        /\ life' = [life EXCEPT ![b] = "alive"]
        /\ count' = [count EXCEPT ![b] = 1]
    BY <1>2 DEF AllocNew
  <2>2. count[b] = 0
    BY <1>1, <2>1 DEF LifeInv
  <2>3. /\ count' \in [Buffers -> Nat]
        /\ life' \in [Buffers -> {"none", "alive", "freed"}]
        /\ \A d \in Buffers : /\ count'[d] = count[d] + (IF b = d THEN 1 ELSE 0)
                              /\ life'[d] = IF b = d THEN "alive" ELSE life[d]
    BY <1>1, <2>1, <2>2
  <2>4. LifeInv(life', count', frames)
    BY <1>1, <2>1, <2>2, <2>3 DEF LifeInv
  <2>5. \A d \in Buffers :
          count'[d] + Refs(var, d) + 0 = count[d] + Refs(var', d) + (IF b = d THEN 1 ELSE 0)
    <3> TAKE d \in Buffers
    <3> DEFINE l == IF b = d THEN 1 ELSE 0
               x == count[d]
               r == Refs(var, d)
    <3>1. l \in Nat /\ x \in Nat /\ r \in Nat
      BY Facts
    <3>2. count'[d] = x + l /\ var' = var
      BY <2>1, <2>3
    <3> HIDE DEF l, x, r
    <3>3. (x + l) + r + 0 = x + r + l
      BY <3>1
    <3> QED
      BY <3>2, <3>3 DEF l, x, r
  <2> QED
    BY <1>1, <2>1, <2>3, <2>4, <2>5
<1>3. CASE AllocKept(b)
  <2>1. PICK v \in Vars, moves \in BOOLEAN :
          /\ var[v] = b
          /\ var' = [var EXCEPT ![v] = IF moves THEN NoBuffer ELSE @]
          /\ count' = IF moves THEN count ELSE Counted(b)
    BY <1>3 DEF AllocKept
  <2>2. life' = life
    BY <1>3 DEF AllocKept
  <2>3. count[b] > 0 /\ b # NoBuffer
    BY <2>1, Held, Facts
  <2>4. /\ Counted(b) \in [Buffers -> Nat]
        /\ \A d \in Buffers : Counted(b)[d] = count[d] + (IF b = d THEN 1 ELSE 0)
        /\ LifeInv(life, Counted(b), frames)
    BY <2>3, CountedStep
  <2>5. /\ var' \in [Vars -> Maybe]
        /\ var'[v] = IF moves THEN NoBuffer ELSE b
        /\ \A w \in Vars : w # v => var'[w] = var[w]
    BY <1>1, <2>1
  <2>6. \A d \in Buffers :
          Refs(var', d) + (IF b = d THEN 1 ELSE 0) = Refs(var, d) + (IF var'[v] = d THEN 1 ELSE 0)
    <3> TAKE d \in Buffers
    <3>1. Refs(var', d) + (IF var[v] = d THEN 1 ELSE 0)
              = Refs(var, d) + (IF var'[v] = d THEN 1 ELSE 0)
      BY <1>1, <2>5, RefsAssign
    <3> QED
      BY <2>1, <3>1
  <2>7. count' \in [Buffers -> Nat] /\ LifeInv(life', count', frames)
    <3>1. CASE moves
      BY <1>1, <2>1, <2>2, <3>1
    <3>2. CASE ~moves
      BY <2>1, <2>2, <2>4, <3>2
    <3> QED
      BY <3>1, <3>2
  <2>8. \A d \in Buffers :
          count'[d] + Refs(var, d) + 0 = count[d] + Refs(var', d) + (IF b = d THEN 1 ELSE 0)
    <3> TAKE d \in Buffers
    <3> DEFINE l == IF b = d THEN 1 ELSE 0
               x1 == count'[d]
               x2 == count[d]
               r1 == Refs(var, d)
               r2 == Refs(var', d)
    <3>1. l \in Nat /\ x1 \in Nat /\ x2 \in Nat /\ r1 \in Nat /\ r2 \in Nat /\ d # NoBuffer
      BY <2>7, Facts, RefsType
    <3>2. r2 + l = r1 + (IF var'[v] = d THEN 1 ELSE 0)
      BY <2>6
    <3>3. CASE moves
      <4>1. x1 = x2 /\ var'[v] # d
        BY <2>1, <2>5, <3>1, <3>3
      <4>2. r2 + l = r1 + 0
        BY <3>2, <4>1
      <4> HIDE DEF l, x1, x2, r1, r2
      <4>3. x1 + r1 + 0 = x2 + r2 + l
        BY <3>1, <4>1, <4>2
      <4> QED
        BY <4>3 DEF l, x1, x2, r1, r2
    <3>4. CASE ~moves
      <4>1. x1 = x2 + l /\ var'[v] = b
        BY <2>1, <2>4, <2>5, <3>4
      <4>2. r2 + l = r1 + l
        BY <3>2, <4>1
      <4> HIDE DEF l, x1, x2, r1, r2
      <4>3. x1 + r1 + 0 = x2 + r2 + l
        BY <3>1, <4>1, <4>2
      <4> QED
        BY <4>3 DEF l, x1, x2, r1, r2
    <3> QED
      BY <3>3, <3>4
  <2> QED
    BY <1>1, <2>2, <2>5, <2>7, <2>8
<1> QED
  BY <1>2, <1>3 DEF IoAllocCb

\* The chunk is lent to libuv, or its reference is lost.
LEMMA LendStep ==
  ASSUME BufferInv, NEW b \in Buffers, IoAllocCb(b), lent = NoBuffer,
         UNCHANGED <<busy, outbuf>>, StackInv(frames'),
         \A d \in Buffers : FrameRefs(frames', d) = FrameRefs(frames, d),
         \A d \in Buffers : SinkIn(frames', d) => SinkIn(frames, d),
         \/ lent' = b /\ leaked' = leaked
         \/ lent' = lent /\ leaked' = [leaked EXCEPT ![b] = @ + 1]
  PROVE  BufferInv'
<1>1. /\ count' \in [Buffers -> Nat]
      /\ life' \in [Buffers -> {"none", "alive", "freed"}]
      /\ sink' \in [Buffers -> BOOLEAN]
      /\ var' \in [Vars -> Maybe]
      /\ LifeInv(life', count', frames)
      /\ \A d \in Buffers :
            count'[d] + Refs(var, d) + 0 = count[d] + Refs(var', d) + (IF b = d THEN 1 ELSE 0)
  BY AllocCbStep
<1>2. LifeInv(life', count', frames')
  BY <1>1 DEF LifeInv
<1>3. BufferTypes
  BY Facts
<1>4. lent' \in Maybe /\ leaked' \in [Buffers -> Nat]
  BY <1>3 DEF BufferTypes, Maybe
<1>5. busy' \in BOOLEAN /\ (busy' => outbuf' \in Buffers)
  BY <1>3 DEF BufferTypes
<1>6. \A d \in Buffers :
        count'[d] + FrameRefs(frames, d) + Refs(var, d) + Chunks(d)
            = count[d] + FrameRefs(frames', d) + Refs(var', d) + Chunks(d)'
  <2> TAKE d \in Buffers
  <2> DEFINE o == IF busy /\ outbuf = d THEN 1 ELSE 0
             m == leaked[d]
             l == IF b = d THEN 1 ELSE 0
             x1 == count'[d]
             x2 == count[d]
             r1 == Refs(var, d)
             r2 == Refs(var', d)
             f == FrameRefs(frames, d)
  <2>1. /\ o \in Nat /\ m \in Nat /\ l \in Nat /\ x1 \in Nat /\ x2 \in Nat
        /\ r1 \in Nat /\ r2 \in Nat /\ f \in Nat /\ d # NoBuffer
    BY <1>1, Facts, RefsType
  <2>2. Chunks(d) = 0 + (o + m)
    BY <2>1 DEF Chunks
  <2>3. Chunks(d)' = l + (o + m) \/ Chunks(d)' = 0 + (o + (m + l))
    <3>1. CASE lent' = b /\ leaked' = leaked
      BY <3>1 DEF Chunks
    <3>2. CASE lent' = lent /\ leaked' = [leaked EXCEPT ![b] = @ + 1]
      <4>1. leaked'[d] = m + l
        BY <1>3, <2>1, <3>2 DEF BufferTypes
      <4> QED
        BY <2>1, <3>2, <4>1 DEF Chunks
    <3> QED
      BY <3>1, <3>2
  <2>4. x1 + r1 + 0 = x2 + r2 + l /\ FrameRefs(frames', d) = f
    BY <1>1
  <2> HIDE DEF o, m, l, x1, x2, r1, r2, f
  <2>5. /\ x1 + f + r1 + (0 + (o + m)) = x2 + f + r2 + (l + (o + m))
        /\ x1 + f + r1 + (0 + (o + m)) = x2 + f + r2 + (0 + (o + (m + l)))
    BY <2>1, <2>4
  <2> QED
    BY <2>2, <2>3, <2>4, <2>5 DEF x1, x2, r1, r2, f
<1> QED
  BY <1>1, <1>2, <1>4, <1>5, <1>6, Resettle

\* io_alloc_cb() of a stream or a datagram socket.
LEMMA AllocateStep ==
  ASSUME Inv, NEW b \in Buffers, Allocate(b)
  PROVE  Inv'
<1>1. /\ IoAllocCb(b) /\ lent = NoBuffer /\ lent' = b
      /\ UNCHANGED <<frames, erefs, eheld, reading, leaked, rrefs, rheld, busy, on, outbuf,
                     guard>>
  BY DEF Allocate, Allocates
<1>2. BufferInv /\ FlowInv /\ StackInv(frames)
  BY Facts DEF Inv
<1>3. BufferInv'
  BY <1>1, <1>2, LendStep
<1>4. FlowInv'
  BY <1>1, <1>2, FlowKept
<1> QED
  BY <1>3, <1>4 DEF Inv

\* read_start() of a file requests the first read.
LEMMA FileStartStep ==
  ASSUME Inv, NEW b \in Buffers, NEW ok \in BOOLEAN, FileStart(b, ok)
  PROVE  Inv'
<1>1. /\ IoAllocCb(b) /\ lent = NoBuffer /\ ReadStarted(ok)
      /\ UNCHANGED <<frames, eheld, rrefs, rheld, busy, on, outbuf, guard>>
      /\ \/ lent' = b /\ leaked' = leaked
         \/ lent' = lent /\ leaked' = [leaked EXCEPT ![b] = @ + 1]
  BY DEF FileStart, FileReading, FileRead
<1>2. BufferInv /\ StackInv(frames)
  BY Facts DEF Inv
<1>3. BufferInv'
  BY <1>1, <1>2, LendStep
<1>4. FlowInv'
  BY <1>1, FlowReading
<1> QED
  BY <1>3, <1>4 DEF Inv

\* file::read_cb() has nothing more to do.
LEMMA ChainLeaves ==
  ASSUME BufferInv, frames = <<Frame("next", NoBuffer, NoBuffer)>>, frames' = <<>>
  PROVE  /\ StackInv(frames')
         /\ \A k \in {"read", "output", "after"} : Runs(frames', k) <=> Runs(frames, k)
         /\ \A d \in Buffers : ~SinkIn(frames', d)
         /\ \A d \in Buffers : FrameRefs(frames', d) = FrameRefs(frames, d)
<1>1. "next" \in Calls /\ NoBuffer \in Maybe /\ \A d \in Buffers : d # NoBuffer
  BY Facts DEF Calls, Maybe
<1>2. /\ \A j \in Calls : Runs(frames, j) <=> "next" = j
      /\ \A d \in Buffers : FrameRefs(frames, d) = IF NoBuffer = d THEN 1 ELSE 0
  BY <1>1, FrameFacts
<1>3. /\ StackInv(frames')
      /\ \A k \in Calls : ~Runs(frames', k)
      /\ \A d \in Buffers : ~SinkIn(frames', d)
      /\ \A d \in Buffers : FrameRefs(frames', d) = 0
  BY EmptyStack
<1> QED
  BY <1>1, <1>2, <1>3 DEF Calls

\* file::read_cb() requests the next read.
LEMMA ReadNextStep ==
  ASSUME Inv, ChainInv, NEW b \in Buffers, NEW ok \in BOOLEAN, ReadNext(b, ok)
  PROVE  Inv'
<1>1. /\ frames = <<Frame("next", NoBuffer, NoBuffer)>> /\ frames' = <<>> /\ IoAllocCb(b)
      /\ UNCHANGED <<erefs, eheld, reading, rrefs, rheld, busy, on, outbuf, guard>>
      /\ \/ lent' = b /\ leaked' = leaked
         \/ lent' = lent /\ leaked' = [leaked EXCEPT ![b] = @ + 1]
  BY DEF ReadNext, FileRead
<1>2. BufferInv /\ FlowInv
  BY DEF Inv
<1>3. /\ StackInv(frames')
      /\ \A k \in {"read", "output", "after"} : Runs(frames', k) <=> Runs(frames, k)
      /\ \A d \in Buffers : ~SinkIn(frames', d)
      /\ \A d \in Buffers : FrameRefs(frames', d) = FrameRefs(frames, d)
  BY <1>1, <1>2, ChainLeaves
<1>4. lent = NoBuffer
  <2>1. 1 \in DOMAIN frames /\ frames[1].kind = "next"
    BY <1>1 DEF Frame
  <2> QED
    BY <2>1 DEF ChainInv, Chain, Runs
<1>5. BufferInv'
  BY <1>1, <1>2, <1>3, <1>4, LendStep
<1>6. FlowInv'
  BY <1>1, <1>2, <1>3, FlowKept
<1> QED
  BY <1>5, <1>6 DEF Inv

\* file::read_cb() after a stop.
LEMMA ReadNoNextStep ==
  ASSUME Inv, ReadNoNext
  PROVE  Inv'
<1>1. /\ frames = <<Frame("next", NoBuffer, NoBuffer)>> /\ frames' = <<>>
      /\ UNCHANGED <<life, count, sink, var, lent, leaked, erefs, eheld, reading, rrefs, rheld,
                     busy, on, outbuf, guard>>
  BY DEF ReadNoNext
<1>2. BufferInv /\ FlowInv
  BY DEF Inv
<1>3. /\ StackInv(frames')
      /\ \A k \in {"read", "output", "after"} : Runs(frames', k) <=> Runs(frames, k)
      /\ \A d \in Buffers : ~SinkIn(frames', d)
      /\ \A d \in Buffers : FrameRefs(frames', d) = FrameRefs(frames, d)
  BY <1>1, <1>2, ChainLeaves
<1>4. BufferTypes /\ LifeInv(life, count, frames)
  BY <1>2, Facts
<1>5. LifeInv(life', count', frames')
  BY <1>1, <1>3, <1>4 DEF LifeInv
<1>6. \A d \in Buffers :
        count'[d] + FrameRefs(frames, d) + Refs(var, d)
            = count[d] + FrameRefs(frames', d) + Refs(var', d)
  BY <1>1, <1>3
<1>7. /\ count' \in [Buffers -> Nat]
      /\ life' \in [Buffers -> {"none", "alive", "freed"}]
      /\ sink' \in [Buffers -> BOOLEAN]
      /\ var' \in [Vars -> Maybe]
  BY <1>1, <1>4 DEF BufferTypes
<1>8. BufferInv'
  BY <1>1, <1>2, <1>3, <1>5, <1>6, <1>7, Settle
<1>9. FlowInv'
  BY <1>1, <1>2, <1>3, FlowKept
<1> QED
  BY <1>8, <1>9 DEF Inv

\* run(), where libuv takes the request.
LEMMA RunAcceptedStep ==
  ASSUME Inv, NEW x \in Ends, NEW v \in Vars, NEW info, RunAccepted(x, v, info)
  PROVE  Inv'
<1> DEFINE b == var[v]
<1>1. /\ ~busy /\ b # NoBuffer /\ busy'
      /\ erefs' = [erefs EXCEPT ![x] = @ + 1]
      /\ count' = Counted(b)
      /\ rrefs' = rrefs + 1
      /\ on' = x /\ outbuf' = b
      /\ UNCHANGED <<life, sink, var, frames, eheld, reading, lent, leaked, rheld, guard>>
  BY DEF RunAccepted, CanOutput
<1>2. BufferInv /\ FlowInv
  BY DEF Inv
<1>3. /\ BufferTypes /\ StackInv(frames)
      /\ b \in Buffers /\ count[b] > 0
  BY <1>1, <1>2, Facts, Held
<1>4. /\ count' \in [Buffers -> Nat]
      /\ \A d \in Buffers : count'[d] = count[d] + (IF b = d THEN 1 ELSE 0)
      /\ LifeInv(life', count', frames')
  BY <1>1, <1>2, <1>3, CountedStep
<1> HIDE DEF b
<1>5. \A d \in Buffers :
        count'[d] + FrameRefs(frames, d) + Refs(var, d) + Chunks(d)
            = count[d] + FrameRefs(frames', d) + Refs(var', d) + Chunks(d)'
  <2> TAKE d \in Buffers
  <2> DEFINE o == IF b = d THEN 1 ELSE 0
             l == IF lent = d THEN 1 ELSE 0
             m == leaked[d]
             c == count[d]
             r == Refs(var, d)
             f == FrameRefs(frames, d)
  <2>1. o \in Nat /\ l \in Nat /\ m \in Nat /\ c \in Nat /\ r \in Nat /\ f \in Nat
    BY <1>2, Facts
  <2>2. Chunks(d) = l + (0 + m)
    BY <1>1 DEF Chunks
  <2>3. Chunks(d)' = l + (o + m)
    BY <1>1 DEF Chunks
  <2>4. count'[d] = c + o
    BY <1>4
  <2> HIDE DEF o, l, m, c, r, f
  <2>5. (c + o) + f + r + (l + (0 + m)) = c + f + r + (l + (o + m))
    BY <2>1
  <2> QED
    BY <1>1, <2>2, <2>3, <2>4, <2>5 DEF c, r, f
<1>6. BufferInv'
  <2>1. /\ life' \in [Buffers -> {"none", "alive", "freed"}]
        /\ sink' \in [Buffers -> BOOLEAN]
        /\ var' \in [Vars -> Maybe]
        /\ lent' \in Maybe /\ leaked' \in [Buffers -> Nat]
        /\ StackInv(frames')
    BY <1>1, <1>3 DEF BufferTypes
  <2>2. busy' \in BOOLEAN /\ (busy' => outbuf' \in Buffers)
    BY <1>1, <1>3 DEF RunAccepted
  <2> QED
    BY <1>2, <1>4, <1>5, <2>1, <2>2, Resettle
<1>7. erefs \in [Ends -> Int] /\ rrefs \in Int /\ rrefs = RequestRefs
  BY <1>2, FlowFacts
<1>8. /\ erefs' \in [Ends -> Int]
      /\ \A e \in Ends : erefs'[e] = IF e = x THEN erefs[e] + 1 ELSE erefs[e]
  BY <1>1, <1>7
<1>9. \A e \in Ends : erefs'[e] = EndRefs(e)'
  <2> TAKE e \in Ends
  <2>1. erefs[e] \in Int /\ erefs[e] = EndRefs(e)
    BY <1>2, FlowFacts
  <2>2. CASE e # x
    <3>1. EndRefs(e)' = EndRefs(e)
      BY <1>1, <2>2 DEF EndRefs
    <3> QED
      BY <1>8, <2>1, <2>2, <3>1
  <2>3. CASE e = x
    <3>1. EndRefs(e)' = EndRefs(e) + 1
      BY <1>1, <2>3 DEF EndRefs
    <3> QED
      BY <1>8, <2>1, <2>3, <3>1
  <2> QED
    BY <2>2, <2>3
<1>10. RequestRefs' = RequestRefs + 1
  BY <1>1 DEF RequestRefs
<1>11. rrefs' \in Int /\ rrefs' = RequestRefs'
  BY <1>1, <1>7, <1>10
<1>12. FlowInv'
  BY <1>1, <1>2, <1>8, <1>9, <1>11 DEF FlowInv
<1> QED
  BY <1>6, <1>12 DEF Inv

-----------------------------------------------------------------------------
(* The theorems.                                                           *)

\* Init establishes the invariant.
LEMMA InitInv == Init => Inv
<1> SUFFICES ASSUME Init PROVE Inv
  OBVIOUS
<1>1. /\ life = [d \in Buffers |-> "none"]
      /\ count = [d \in Buffers |-> 0]
      /\ sink = [d \in Buffers |-> FALSE]
      /\ var = [v \in Vars |-> NoBuffer]
      /\ frames = <<>>
  BY DEF Init, BufferInit
<1>2. /\ erefs = [e \in Ends |-> 1] /\ eheld = Ends /\ reading = FALSE /\ lent = NoBuffer
      /\ rrefs = 1 /\ rheld = TRUE /\ busy = FALSE /\ leaked = [d \in Buffers |-> 0]
  BY DEF Init
<1>3. /\ StackInv(frames)
      /\ \A k \in Calls : ~Runs(frames, k)
      /\ \A d \in Buffers : ~SinkIn(frames, d)
      /\ \A d \in Buffers : FrameRefs(frames, d) = 0
  BY <1>1, EmptyStack
<1>4. BufferTypes
  BY <1>1, <1>2 DEF BufferTypes, Maybe
<1>5. LifeInv(life, count, frames)
  BY <1>1, <1>3 DEF LifeInv
<1>6. \A d \in Buffers : Refs(var, d) = 0
  <2> TAKE d \in Buffers
  <2>1. {v \in Vars : var[v] = d} = {}
    BY <1>1, BufferAssumption
  <2> QED
    BY <2>1, FS_EmptySet DEF Refs
<1>7. \A d \in Buffers : Chunks(d) = 0
  BY <1>2, BufferAssumption DEF Chunks
<1>8. Accounted
  BY <1>1, <1>3, <1>6, <1>7 DEF Accounted
<1>9. ~Runs(frames, "read") /\ ~Runs(frames, "output") /\ ~Runs(frames, "after")
  BY <1>3 DEF Calls
<1>10. \A e \in Ends : erefs[e] = EndRefs(e)
  BY <1>2, <1>9 DEF EndRefs
<1>11. rrefs = RequestRefs
  BY <1>2, <1>9 DEF RequestRefs
<1>12. FlowInv
  <2>1. erefs \in [Ends -> Int] /\ eheld \in SUBSET Ends /\ rrefs \in Int
    BY <1>2
  <2>2. reading \in BOOLEAN /\ rheld \in BOOLEAN /\ ~busy
    BY <1>2
  <2> QED
    BY <1>9, <1>10, <1>11, <2>1, <2>2 DEF FlowInv
<1> QED
  BY <1>3, <1>4, <1>5, <1>8, <1>12 DEF Inv, BufferInv

\* Every step preserves it.
LEMMA NextInv == Inv /\ ChainInv /\ [Next]_vars => Inv'
<1> SUFFICES ASSUME Inv, ChainInv, [Next]_vars PROVE Inv'
  OBVIOUS
<1>1. CASE UNCHANGED vars
  <2>1. UNCHANGED <<bufferVars, flowVars>>
    BY <1>1 DEF vars
  <2>2. /\ UNCHANGED <<bufferVars, lent, leaked, busy, outbuf>>
        /\ UNCHANGED <<erefs, eheld, reading, rrefs, rheld, busy, on, guard>>
        /\ frames' = frames
    BY <2>1 DEF flowVars, bufferVars
  <2> QED
    BY <2>2, BuffersKept, FlowKept DEF Inv
<1>2. CASE BufferNext /\ UNCHANGED flowVars
  <2>1. BufferInv' /\ Quiet
    BY <1>2, UserStep DEF Inv
  <2>2. \A k \in {"read", "output", "after"} : Runs(frames', k) <=> Runs(frames, k)
    BY <2>1 DEF Quiet, Calls
  <2>3. UNCHANGED <<erefs, eheld, reading, rrefs, rheld, busy, on, guard>>
    BY <1>2 DEF flowVars
  <2> QED
    BY <2>1, <2>2, <2>3, FlowKept DEF Inv
<1>3. CASE ReadStop \/ \E ok \in BOOLEAN : ReadStart(ok)
  BY <1>3, ReadStartStopStep
<1>4. ASSUME NEW b \in Buffers, NEW ok \in BOOLEAN, FileStart(b, ok) \/ ReadNext(b, ok)
      PROVE  Inv'
  BY <1>4, FileStartStep, ReadNextStep
<1>5. ASSUME NEW b \in Buffers, Allocate(b)
      PROVE  Inv'
  BY <1>5, AllocateStep
<1>6. CASE ReadData
  BY <1>6, ReadDataStep
<1>7. CASE ReadEnd
  BY <1>7, ReadEndStep
<1>8. CASE ReadEndCallback \/ ReadError
  BY <1>8, EmptyReadStep
<1>9. CASE ReadReturns \/ ReadNoNext
  BY <1>9, ReadReturnsStep, ReadNoNextStep
<1>10. CASE SetOutputCallback
  BY <1>10, SetOutputCallbackStep
<1>11. ASSUME NEW e \in Ends, NEW v \in Vars, NEW info \in BOOLEAN, RunAccepted(e, v, info)
       PROVE  Inv'
  BY <1>11, RunAcceptedStep
<1>12. CASE OutputDone
  BY <1>12, OutputDoneStep
<1>13. CASE OutputReturns
  BY <1>13, OutputReturnsStep
<1>14. CASE OutputAfter
  BY <1>14, OutputAfterStep
<1>15. CASE DropRequest \/ \E e \in Ends : DropEnd(e)
  BY <1>15, DropsStep DEF Drops
<1> QED
  BY <1>1, <1>2, <1>3, <1>4, <1>5, <1>6, <1>7, <1>8, <1>9, <1>10, <1>11, <1>12, <1>13, <1>14, <1>15
  DEF Next

\* unref() calls no callback of libuv.
LEMMA UnrefRuns ==
  ASSUME NEW b \in Buffers, NEW c, NEW s, StackInv(s), Unref(b, c, s)
  PROVE  \A k \in Calls : Runs(frames', k) => Runs(s, k)
<1> DEFINE f == Frame("sink", b, b)
<1>1. f \in FrameType /\ f.kind = "sink" /\ s \in Seq(FrameType)
  BY DEF Frame, FrameType, Maybe, StackInv
<1>2. frames' = s \/ frames' = Append(s, f)
  BY DEF Unref
<1> HIDE DEF f
<1>3. /\ DOMAIN Append(s, f) = 1 .. (Len(s) + 1)
      /\ Append(s, f)[Len(s) + 1] = f
      /\ \A i \in 1 .. Len(s) : Append(s, f)[i] = s[i]
      /\ DOMAIN s = 1 .. Len(s) /\ Len(s) \in Nat
  BY <1>1, AppendFacts
<1>4. \A k \in Calls : Runs(Append(s, f), k) => Runs(s, k)
  BY <1>1, <1>3 DEF Runs, Calls
<1> QED
  BY <1>2, <1>4

\* After the return of an output callback, or of its guards, no read is
\* being delivered.
LEMMA OutputQuiet ==
  ASSUME Inv, OutputDone \/ OutputReturns \/ OutputAfter
  PROVE  \A k \in Chain : ~Runs(frames', k)
<1> DEFINE s == <<Frame("after", NoBuffer, NoBuffer)>>
<1>1. BufferInv /\ NoBuffer \in Maybe /\ "after" \in Calls /\ "output" \in Calls
  BY DEF Inv, Maybe, Calls
<1>2. StackInv(s) /\ \A j \in Calls : Runs(s, j) <=> "after" = j
  BY <1>1, FrameFacts
<1>3. ASSUME NEW b \in Buffers, NEW c, Unref(b, c, s)
      PROVE  \A k \in Chain : ~Runs(frames', k)
  <2> HIDE DEF s
  <2>1. \A k \in Calls : Runs(frames', k) => Runs(s, k)
    BY <1>2, <1>3, UnrefRuns
  <2> QED
    BY <1>2, <2>1 DEF Chain, Calls
<1>4. CASE OutputDone
  <2>1. outbuf \in Buffers
    BY <1>1, <1>4, OutHeld DEF OutputDone
  <2>2. CASE outcb
    <3>1. frames' = <<Frame("output", NoBuffer, outbuf)>> /\ outbuf \in Maybe
      BY <1>4, <2>1, <2>2 DEF OutputDone, Maybe
    <3>2. \A j \in Calls : Runs(frames', j) <=> "output" = j
      BY <1>1, <3>1, FrameFacts
    <3> QED
      BY <3>2 DEF Chain, Calls
  <2>3. CASE ~outcb
    BY <1>3, <1>4, <2>1, <2>3 DEF OutputDone
  <2> QED
    BY <2>2, <2>3
<1>5. CASE OutputReturns
  <2>1. frames # <<>> /\ Last(frames).kind = "output"
    BY <1>5 DEF OutputReturns
  <2>2. Front(frames) = <<>>
    BY <1>1, <2>1, TopFacts
  <2>3. Append(Front(frames), Frame("after", NoBuffer, NoBuffer)) = s
    BY <2>2
  <2>4. CASE Last(frames).buf = NoBuffer
    <3>1. frames' = s
      BY <1>5, <2>3, <2>4 DEF OutputReturns
    <3> QED
      BY <1>2, <3>1 DEF Chain, Calls
  <2>5. CASE Last(frames).buf # NoBuffer
    <3>1. Last(frames).buf \in Buffers
      BY <1>1, <2>1, <2>5, ParameterHeld
    <3>2. Unref(Last(frames).buf, count, s)
      BY <1>5, <2>3, <2>5 DEF OutputReturns
    <3> QED
      BY <1>3, <3>1, <3>2
  <2> QED
    BY <2>4, <2>5
<1>6. CASE OutputAfter
  <2>1. frames' = <<>>
    BY <1>1, <1>6, TopFacts DEF OutputAfter
  <2> QED
    BY <2>1, EmptyStack DEF Chain, Calls
<1> QED
  BY <1>4, <1>5, <1>6

\* Every step keeps the reads apart.
LEMMA NextChain == Inv /\ ChainInv /\ [Next]_vars => ChainInv'
<1> SUFFICES ASSUME Inv, ChainInv, [Next]_vars PROVE ChainInv'
  OBVIOUS
<1>1. CASE UNCHANGED <<frames, lent>>
  BY <1>1 DEF ChainInv
<1>2. CASE \A k \in Chain : ~Runs(frames', k)
  BY <1>2 DEF ChainInv
<1>3. CASE lent' = NoBuffer
  BY <1>3 DEF ChainInv
<1>4. CASE BufferNext /\ UNCHANGED flowVars
  <2>1. Quiet
    BY <1>4, UserStep DEF Inv
  <2>2. lent' = lent
    BY <1>4 DEF flowVars
  <2>3. \A k \in Chain : Runs(frames', k) <=> Runs(frames, k)
    BY <2>1 DEF Quiet, Calls, Chain
  <2> QED
    BY <2>2, <2>3 DEF ChainInv
<1>5. CASE \/ UNCHANGED vars
           \/ ReadStop \/ SetOutputCallback \/ DropRequest
           \/ \E ok \in BOOLEAN : ReadStart(ok)
           \/ \E e \in Ends, v \in Vars, info \in BOOLEAN : RunAccepted(e, v, info)
           \/ \E e \in Ends : DropEnd(e)
  <2>1. UNCHANGED <<frames, lent>>
    BY <1>5 DEF vars, flowVars, bufferVars, ReadStop, SetOutputCallback, DropRequest,
       ReadStart, RunAccepted, DropEnd
  <2> QED
    BY <1>1, <2>1
<1>6. ASSUME NEW b \in Buffers, NEW ok \in BOOLEAN, FileStart(b, ok)
      PROVE  ChainInv'
  <2>1. frames' = frames /\ ~Running("read") /\ ~Running("end") /\ ~Running("next")
    BY <1>6 DEF FileStart, FileReading
  <2>2. \A k \in Chain : ~Runs(frames', k)
    BY <2>1 DEF Running, Runs, Chain
  <2> QED
    BY <1>2, <2>2
<1>7. CASE \/ ReadNoNext \/ \E b \in Buffers : Allocate(b)
           \/ \E b \in Buffers, ok \in BOOLEAN : ReadNext(b, ok)
  <2>1. frames' = <<>>
    BY <1>7 DEF ReadNoNext, Allocate, Allocates, ReadNext
  <2>2. \A k \in Chain : ~Runs(frames', k)
    BY <2>1, EmptyStack DEF Chain, Calls
  <2> QED
    BY <1>2, <2>2
<1>8. CASE ReadData \/ ReadEnd
  BY <1>3, <1>8 DEF ReadData, ReadEnd
<1>9. CASE ReadError
  BY <1>3, <1>9 DEF ReadError, Allocates
<1>10. CASE ReadEndCallback
  <2>1. Runs(frames, "end") /\ lent' = lent
    BY <1>10 DEF ReadEndCallback, Runs, Frame
  <2> QED
    BY <1>3, <2>1 DEF ChainInv, Chain
<1>11. CASE ReadReturns
  <2>1. BufferInv /\ frames # <<>> /\ Last(frames).kind = "read" /\ lent' = lent
    BY <1>11 DEF ReadReturns, Inv
  <2>2. Runs(frames, "read")
    BY <2>1, TopFacts DEF Calls
  <2> QED
    BY <1>3, <2>1, <2>2 DEF ChainInv, Chain
<1>12. CASE OutputDone \/ OutputReturns \/ OutputAfter
  BY <1>2, <1>12, OutputQuiet
<1> QED
  BY <1>4, <1>5, <1>6, <1>7, <1>8, <1>9, <1>10, <1>11, <1>12 DEF Next

\* buffer.hpp, handle-io.hpp, handle-fs.hpp, request-io.hpp: the counters of
\* buffers, with what a refused uv_fs_read() has lost, of endpoints and of
\* the output request, the life of a buffer and the nesting of sinks are
\* right in every state, however the callbacks are nested, and no chunk is
\* lent while a read is delivered.
THEOREM Invariance == Spec => [](Inv /\ ChainInv)
<1>1. Init => ChainInv
  BY EmptyStack DEF Init, ChainInv
<1> QED
  BY <1>1, InitInv, NextInv, NextChain, PTL DEF Spec

\* The counters of buffer.hpp, io_alloc_cb(), io_read_cb(), file::read_cb(),
\* output::run() and the callbacks of the requests are exact: no reference
\* is given up twice, and none is lost but in a refused uv_fs_read().
THEOREM ReferencesCorrect == Spec => []ReferencesAccounted
<1>1. Inv => ReferencesAccounted
  <2> SUFFICES ASSUME Inv PROVE ReferencesAccounted
    OBVIOUS
  <2>1. BufferInv /\ FlowInv
    BY DEF Inv
  <2>2. \A k : Running(k) <=> Runs(frames, k)
    BY DEF Running, Runs
  <2>3. ASSUME NEW b \in Buffers
        PROVE  count[b] = UserRefs(b) + One(lent = b) + One(busy /\ outbuf = b) + leaked[b]
    <3>1. UserRefs(b) = Refs(var, b) + FrameRefs(frames, b)
      BY DEF UserRefs, Refs, FrameRefs
    <3>2. Chunks(b) = One(lent = b) + (One(busy /\ outbuf = b) + leaked[b])
      BY DEF Chunks, One
    <3>3. One(lent = b) \in Nat /\ One(busy /\ outbuf = b) \in Nat
      BY DEF One
    <3>4. /\ count[b] = Refs(var, b) + FrameRefs(frames, b) + Chunks(b)
          /\ Refs(var, b) \in Nat /\ FrameRefs(frames, b) \in Nat /\ leaked[b] \in Nat
      BY <2>1, Facts
    <3> QED
      BY <3>1, <3>2, <3>3, <3>4
  <2>4. ASSUME NEW e \in Ends
        PROVE  erefs[e] = One(e \in eheld) + One(e = Source /\ reading)
                     + One(e = Source /\ Running("read")) + One(busy /\ on = e)
                     + One(guard = e /\ (Running("output") \/ Running("after")))
    <3>1. erefs[e] = EndRefs(e)
      BY <2>1, FlowFacts
    <3> QED
      BY <3>1 DEF EndRefs, One, Running, Runs
  <2>5. rrefs = One(rheld) + One(busy) + One(Running("output")) * 2 + One(Running("after"))
    <3>1. rrefs = RequestRefs
      BY <2>1, FlowFacts
    <3>2. One(Running("output")) * 2 = IF Runs(frames, "output") THEN 2 ELSE 0
      BY DEF One, Running, Runs
    <3>3. One(Running("after")) = IF Runs(frames, "after") THEN 1 ELSE 0
      BY DEF One, Running, Runs
    <3> QED
      BY <3>1, <3>2, <3>3 DEF RequestRefs, One
  <2> QED
    BY <2>3, <2>4, <2>5 DEF ReferencesAccounted
<1> QED
  BY <1>1, Invariance, PTL

\* buffer::instance::destroy(): a buffer that a variable, a callback, libuv
\* or a request refers to has not been deleted, the one whose sink is
\* running in particular, and one to which nothing refers has been, unless
\* file_read() has lost a reference to it.
THEOREM BuffersAreSafe == Spec => []NoUseAfterFree
<1>1. Inv => NoUseAfterFree
  <2> SUFFICES ASSUME Inv, NEW b \in Buffers
               PROVE  /\ UserRefs(b) > 0 \/ lent = b \/ (busy /\ outbuf = b) \/ SinkRunning(b)
                             => life[b] = "alive"
                      /\ life[b] = "alive" =>
                            \/ UserRefs(b) > 0 \/ lent = b \/ (busy /\ outbuf = b)
                            \/ leaked[b] > 0
    BY DEF NoUseAfterFree
  <2>1. BufferInv
    BY DEF Inv
  <2>2. /\ count[b] = Refs(var, b) + FrameRefs(frames, b) + Chunks(b)
        /\ Refs(var, b) \in Nat /\ FrameRefs(frames, b) \in Nat /\ Chunks(b) \in Nat
        /\ b # NoBuffer
    BY <2>1, Facts
  <2>3. UserRefs(b) = Refs(var, b) + FrameRefs(frames, b)
    BY DEF UserRefs, Refs, FrameRefs
  <2>4. lent = b => count[b] > 0
    BY <2>1, <2>2, LentHeld
  <2>5. busy /\ outbuf = b => count[b] > 0
    BY <2>1, OutHeld
  <2>6. /\ life[b] = "alive" <=> count[b] > 0
        /\ SinkIn(frames, b) => count[b] > 0
    BY <2>1, Facts DEF LifeInv
  <2>7. SinkRunning(b) => count[b] > 0
    BY <2>6 DEF SinkRunning, SinkIn
  <2>8. ~(lent = b) /\ ~(busy /\ outbuf = b) => Chunks(b) = leaked[b]
    <3>1. leaked[b] \in Nat
      BY <2>1, Facts
    <3> QED
      BY <3>1 DEF Chunks
  <2>9. UserRefs(b) > 0 => count[b] > 0
    BY <2>2, <2>3
  <2>10. count[b] > 0 => UserRefs(b) > 0 \/ Chunks(b) > 0
    BY <2>2, <2>3
  <2> QED
    BY <2>4, <2>5, <2>6, <2>7, <2>8, <2>9, <2>10
<1> QED
  BY <1>1, Invariance, PTL

-----------------------------------------------------------------------------
(* The layout.                                                             *)

\* Division with a remainder.
LEMMA Division ==
  ASSUME NEW a \in Nat, NEW m \in Nat \ {0}
  PROVE  /\ a \div m \in Nat
         /\ a % m \in 0 .. (m - 1)
         /\ a = (a \div m) * m + (a % m)
  OBVIOUS

\* A multiple leaves no remainder.
LEMMA Multiple ==
  ASSUME NEW q \in Nat, NEW m \in Nat \ {0}
  PROVE  (q * m) % m = 0
<1> DEFINE p == (q * m) \div m
           r == (q * m) % m
<1>1. q * m \in Nat
  OBVIOUS
<1>2. p \in Nat /\ r \in 0 .. (m - 1) /\ q * m = p * m + r
  BY <1>1, Division
<1> HIDE DEF p, r
<1>3. (q - p) * m = r
  BY <1>2
<1>4. q - p = 0
  BY <1>2, <1>3
<1> QED
  BY <1>2, <1>3, <1>4 DEF r

\* What alignment_padding() is for: less than one alignment is added after
\* the array of uv_buf_t, and the chunks that follow it start at a multiple
\* of the alignment.
PaddingAligns ==
    \A extra \in Nat :
        LET end == SizeofInstance + extra * SizeofUvBuf
        IN  /\ AlignmentPadding(extra) \in 0 .. (MaxAlign - 1)
            /\ (end + AlignmentPadding(extra)) % MaxAlign = 0

\* buffer::instance::alignment_padding() pads right for any sizes, any
\* alignment and any number of chunks.
THEOREM PaddingCorrect == PaddingAligns
<1> SUFFICES ASSUME NEW extra \in Nat
             PROVE  /\ AlignmentPadding(extra) \in 0 .. (MaxAlign - 1)
                    /\ (SizeofInstance + extra * SizeofUvBuf + AlignmentPadding(extra)) % MaxAlign = 0
  BY DEF PaddingAligns
<1> DEFINE end == SizeofInstance + extra * SizeofUvBuf
           q == (end + MaxAlign - 1) \div MaxAlign
           r == (end + MaxAlign - 1) % MaxAlign
           m == MaxAlign
<1>1. end \in Nat /\ m \in Nat \ {0} /\ end + m - 1 \in Nat
  BY BufferAssumption DEF SizeofInstance
<1>2. q \in Nat /\ r \in 0 .. (m - 1) /\ end + m - 1 = q * m + r
  BY <1>1, Division
<1>3. AlignmentPadding(extra) = q * m - end
  BY DEF AlignmentPadding
<1>4. (q * m) % m = 0
  BY <1>1, <1>2, Multiple
<1> HIDE DEF end, q, r, m
<1>5. q * m \in Nat
  BY <1>1, <1>2
<1>6. q * m - end \in 0 .. (m - 1) /\ end + (q * m - end) = q * m
  BY <1>1, <1>2, <1>5
<1> QED
  BY <1>3, <1>4, <1>6 DEF end, m

\* The bytes of finitely many chunks are finitely many.
LEMMA BytesFinite ==
  ASSUME NEW lens \in Seq(Nat)
  PROVE  IsFiniteSet(Bytes(lens)) /\ TotalLen(lens) \in Nat
<1> DEFINE D == 1 .. Len(lens)
           row == [i \in D |-> {i} \X (1 .. lens[i])]
           T == {{i} \X (1 .. lens[i]) : i \in D}
<1>1. Len(lens) \in Nat /\ DOMAIN lens = D /\ \A i \in D : lens[i] \in Nat
  OBVIOUS
<1>2. IsFiniteSet(D)
  BY <1>1, FS_Interval
<1>3. Bytes(lens) = UNION T
  BY <1>1 DEF Bytes
<1>4. ASSUME NEW i \in D PROVE IsFiniteSet({i} \X (1 .. lens[i]))
  <2>1. 1 \in Int /\ lens[i] \in Int
    BY <1>1
  <2>2. IsFiniteSet(1 .. lens[i]) /\ IsFiniteSet({i})
    BY <2>1, FS_Interval, FS_Singleton
  <2> QED
    BY <2>2, FS_Product
<1> HIDE DEF D
<1>5. row \in Surjection(D, T)
  <2>1. \A i \in D : row[i] = {i} \X (1 .. lens[i]) /\ row[i] \in T
    OBVIOUS
  <2>2. row \in [D -> T]
    BY <2>1
  <2>3. \A t \in T : \E i \in D : row[i] = t
    BY <2>1
  <2> HIDE DEF row, T
  <2> QED
    BY <2>2, <2>3 DEF Surjection
<1>6. IsFiniteSet(T)
  BY <1>2, <1>5, FS_Surjection
<1>7. \A t \in T : IsFiniteSet(t)
  BY <1>4
<1> HIDE DEF T
<1> QED
  BY <1>3, <1>6, <1>7, FS_UNION, FS_CardinalityType DEF TotalLen

\* A chunk has as many bytes as it is long.
LEMMA ChunkSize ==
  ASSUME NEW i, NEW n \in Nat
  PROVE  IsFiniteSet({i} \X (1 .. n)) /\ Cardinality({i} \X (1 .. n)) = n
<1>1. IsFiniteSet(1 .. n) /\ Cardinality(1 .. n) = n
  BY FS_Interval
<1>2. IsFiniteSet({i}) /\ Cardinality({i}) = 1
  BY FS_Singleton
<1>3. IsFiniteSet({i} \X (1 .. n)) /\ Cardinality({i} \X (1 .. n)) = Cardinality({i}) * Cardinality(1 .. n)
  BY <1>1, <1>2, FS_Product
<1> QED
  BY <1>1, <1>2, <1>3

\* The chunks up to one that follows k others.
LEMMA OneMoreChunk ==
  ASSUME NEW lens \in Seq(Nat), NEW k \in Nat, k < Len(lens)
  PROVE  TotalLen(SubSeq(lens, 1, k + 1)) = TotalLen(SubSeq(lens, 1, k)) + lens[k + 1]
<1> DEFINE s == SubSeq(lens, 1, k)
           r == SubSeq(lens, 1, k + 1)
           own == {k + 1} \X (1 .. lens[k + 1])
<1>1. s \in Seq(Nat) /\ r \in Seq(Nat) /\ lens[k + 1] \in Nat
  OBVIOUS
<1>2. /\ DOMAIN s = 1 .. k /\ \A i \in 1 .. k : s[i] = lens[i]
      /\ DOMAIN r = 1 .. (k + 1) /\ \A i \in 1 .. (k + 1) : r[i] = lens[i]
  OBVIOUS
<1>3. IsFiniteSet(own) /\ Cardinality(own) = lens[k + 1]
  BY <1>1, ChunkSize
<1>4. IsFiniteSet(Bytes(s)) /\ Cardinality(Bytes(s)) \in Nat
  BY <1>1, BytesFinite DEF TotalLen
<1> HIDE DEF s, r
<1>5. Bytes(r) = Bytes(s) \union own
  <2>1. 1 .. (k + 1) = (1 .. k) \union {k + 1}
    OBVIOUS
  <2>2. \A i \in 1 .. k : r[i] = s[i]
    BY <1>2
  <2>3. r[k + 1] = lens[k + 1]
    BY <1>2
  <2> HIDE DEF own
  <2>4. Bytes(r) = UNION {{i} \X (1 .. r[i]) : i \in (1 .. k) \union {k + 1}}
    BY <1>2, <2>1 DEF Bytes
  <2>5. Bytes(s) = UNION {{i} \X (1 .. r[i]) : i \in 1 .. k}
    BY <1>2, <2>2 DEF Bytes
  <2>6. own = {k + 1} \X (1 .. r[k + 1])
    BY <2>3 DEF own
  <2> QED
    BY <2>4, <2>5, <2>6
<1>6. Bytes(s) \cap own = {}
  <2>1. k + 1 \notin 1 .. k
    OBVIOUS
  <2>2. \A x \in Bytes(s) : x[1] \in 1 .. k
    BY <1>2 DEF Bytes
  <2>3. \A x \in own : x[1] = k + 1
    OBVIOUS
  <2> QED
    BY <2>1, <2>2, <2>3
<1> HIDE DEF own
<1>7. Cardinality(Bytes(s) \union own) = Cardinality(Bytes(s)) + Cardinality(own) - Cardinality(Bytes(s) \cap own)
  BY <1>3, <1>4, FS_Union
<1>8. Cardinality(Bytes(s) \cap own) = 0
  BY <1>6, FS_EmptySet
<1>9. Cardinality(Bytes(r)) = Cardinality(Bytes(s)) + lens[k + 1]
  BY <1>1, <1>3, <1>4, <1>5, <1>7, <1>8
<1> QED
  BY <1>9 DEF TotalLen, s, r

\* Without chunks there are no bytes.
LEMMA NoChunks ==
  ASSUME NEW lens \in Seq(Nat)
  PROVE  /\ TotalLen(SubSeq(lens, 1, 0)) = 0
         /\ Len(lens) = 0 => TotalLen(lens) = 0
         /\ SubSeq(lens, 1, Len(lens)) = lens
<1>1. DOMAIN SubSeq(lens, 1, 0) = {} /\ (Len(lens) = 0 => DOMAIN lens = {})
  OBVIOUS
<1>2. \A s : DOMAIN s = {} => Bytes(s) = {}
  BY DEF Bytes
<1>3. SubSeq(lens, 1, Len(lens)) = lens
  OBVIOUS
<1> QED
  BY <1>1, <1>2, <1>3, FS_EmptySet DEF TotalLen

\* Buffers are made with lists of lengths.
ShapeInv == shape \in [Buffers -> Seq(Nat)]

\* Multiplication by one more.
LEMMA OneMoreTime ==
  ASSUME NEW n \in Nat, n - 1 \in Nat, NEW s \in Nat
  PROVE  (n - 1) * s + s = n * s /\ n * s \in Nat /\ (n - 1) * s \in Nat
<1> DEFINE m == n - 1
<1>1. n = m + 1 /\ m \in Nat
  OBVIOUS
<1> HIDE DEF m
<1>2. (m + 1) * s = m * s + s /\ m * s \in Nat
  BY <1>1
<1>3. m * s + s = n * s /\ n * s \in Nat
  BY <1>1, <1>2
<1> QED
  BY <1>2, <1>3 DEF m

\* The chunks of any shape are laid out right.
LEMMA ShapeLayout ==
  ASSUME NEW lens \in Seq(Nat), TotalLen(lens) # 0
  PROVE  LET n == BufCount(lens)
         IN  /\ Base(lens, 1) % MaxAlign = 0
             /\ Base(lens, 1) >= OffsetUvBuf + n * SizeofUvBuf
             /\ \A i \in 1 .. n - 1 : Base(lens, i + 1) = Base(lens, i) + lens[i]
             /\ Base(lens, n) + lens[n] = AllocationSize(lens)
             /\ n = 1 => UvBufFrom(Base(lens, 1)) = OffsetUvBuf
<1> DEFINE n == Len(lens)
           pad == AlignmentPadding(n - 1)
           end == OffsetUvBuf + n * SizeofUvBuf
           part(i) == TotalLen(SubSeq(lens, 1, i))
<1>1. n \in Nat \ {0} /\ n - 1 \in Nat
  BY NoChunks
<1>2. BufCount(lens) = n /\ ExtraCount(lens) = n - 1
  BY <1>1 DEF BufCount, ExtraCount
<1>3. SizeofInstance + (n - 1) * SizeofUvBuf = end /\ end \in Nat
  <2>1. OffsetUvBuf \in Nat /\ SizeofUvBuf \in Nat
    BY BufferAssumption
  <2>2. (n - 1) * SizeofUvBuf + SizeofUvBuf = n * SizeofUvBuf /\ n * SizeofUvBuf \in Nat
        /\ (n - 1) * SizeofUvBuf \in Nat
    BY <1>1, <2>1, OneMoreTime
  <2> HIDE DEF n
  <2> QED
    BY <2>1, <2>2 DEF SizeofInstance
<1>4. pad \in Nat /\ (end + pad) % MaxAlign = 0
  <2>1. /\ AlignmentPadding(n - 1) \in 0 .. (MaxAlign - 1)
        /\ (SizeofInstance + (n - 1) * SizeofUvBuf + AlignmentPadding(n - 1)) % MaxAlign = 0
    BY <1>1, PaddingCorrect DEF PaddingAligns
  <2>2. MaxAlign \in Nat
    BY BufferAssumption
  <2> QED
    BY <1>3, <2>1, <2>2
<1>5. \A i \in 1 .. n : Base(lens, i) = end + pad + part(i - 1)
  BY DEF Base
<1>6. AllocationSize(lens) = end + pad + TotalLen(lens)
  BY <1>2, <1>3 DEF AllocationSize
<1>7. part(0) = 0 /\ part(n) = TotalLen(lens)
  BY NoChunks
<1>8. \A i \in 1 .. n : part(i) = part(i - 1) + lens[i] /\ part(i - 1) \in Nat /\ lens[i] \in Nat
  <2> SUFFICES ASSUME NEW i \in 1 .. n
               PROVE  part(i) = part(i - 1) + lens[i] /\ part(i - 1) \in Nat /\ lens[i] \in Nat
    OBVIOUS
  <2>1. i - 1 \in Nat /\ i - 1 < Len(lens) /\ (i - 1) + 1 = i /\ lens[i] \in Nat
    OBVIOUS
  <2>2. TotalLen(SubSeq(lens, 1, (i - 1) + 1)) = TotalLen(SubSeq(lens, 1, i - 1)) + lens[(i - 1) + 1]
    BY <2>1, OneMoreChunk
  <2>3. SubSeq(lens, 1, i - 1) \in Seq(Nat)
    BY <2>1
  <2> QED
    BY <2>1, <2>2, <2>3, BytesFinite
<1>9. n = 1 => UvBufFrom(end + pad) = OffsetUvBuf
  BY <1>4, BufferAssumption DEF UvBufFrom
<1> HIDE DEF n, pad, end, part
<1>10. Base(lens, 1) = end + pad
  BY <1>1, <1>3, <1>4, <1>5, <1>7
<1>11. ASSUME NEW i \in 1 .. n - 1 PROVE Base(lens, i + 1) = Base(lens, i) + lens[i]
  <2>1. i \in 1 .. n /\ i + 1 \in 1 .. n /\ (i + 1) - 1 = i
    BY <1>1
  <2>2. Base(lens, i + 1) = end + pad + part(i) /\ Base(lens, i) = end + pad + part(i - 1)
    BY <1>5, <2>1
  <2>3. part(i) = part(i - 1) + lens[i] /\ part(i - 1) \in Nat /\ lens[i] \in Nat
    BY <1>8, <2>1
  <2> QED
    BY <1>3, <1>4, <2>2, <2>3
<1>12. Base(lens, n) + lens[n] = AllocationSize(lens)
  <2>1. n \in 1 .. n
    BY <1>1
  <2>2. Base(lens, n) = end + pad + part(n - 1)
    BY <1>5, <2>1
  <2>3. part(n) = part(n - 1) + lens[n] /\ part(n - 1) \in Nat /\ lens[n] \in Nat
    BY <1>8, <2>1
  <2> QED
    BY <1>3, <1>4, <1>6, <1>7, <2>2, <2>3
<1>13. Base(lens, 1) >= OffsetUvBuf + n * SizeofUvBuf
  <2>1. end + pad >= end
    BY <1>3, <1>4
  <2> QED
    BY <1>10, <2>1 DEF end
<1> QED
  BY <1>2, <1>4, <1>9, <1>10, <1>11, <1>12, <1>13

\* A buffer keeps the shape it was made with.
LEMMA ShapeStep == ShapeInv /\ [Next]_vars => ShapeInv'
<1> SUFFICES ASSUME ShapeInv, [Next]_vars PROVE ShapeInv'
  OBVIOUS
<1> USE DEF ShapeInv
<1>1. ASSUME NEW b \in Buffers, NEW lens \in Shapes, shape' = [shape EXCEPT ![b] = lens]
      PROVE  ShapeInv'
  BY <1>1, BufferAssumption
<1>2. CASE UNCHANGED shape
  BY <1>2
<1>3. CASE BufferNext
  BY <1>1, <1>2, <1>3 DEF BufferNext, Create, SetSink, Drop, Copy, Move, Swap, TakeParameter, SinkReturns
<1>4. ASSUME NEW b \in Buffers, IoAllocCb(b)
      PROVE  ShapeInv'
  BY <1>1, <1>2, <1>4 DEF IoAllocCb, AllocNew, AllocKept
<1>5. CASE \/ \E b \in Buffers, ok \in BOOLEAN : FileStart(b, ok) \/ ReadNext(b, ok)
           \/ \E b \in Buffers : Allocate(b)
  BY <1>4, <1>5 DEF FileStart, ReadNext, FileRead, Allocate
<1>6. CASE \/ UNCHANGED vars
           \/ ReadStop \/ ReadData \/ ReadEnd \/ ReadEndCallback \/ ReadError
           \/ ReadReturns \/ ReadNoNext \/ SetOutputCallback
           \/ OutputDone \/ OutputReturns \/ OutputAfter \/ DropRequest
           \/ \E ok \in BOOLEAN : ReadStart(ok)
           \/ \E e \in Ends, v \in Vars, info \in BOOLEAN : RunAccepted(e, v, info)
           \/ \E e \in Ends : DropEnd(e)
  <2>1. UNCHANGED shape
    BY <1>6 DEF vars, ReadStart, ReadStop, ReadData, ReadEnd, ReadEndCallback,
       ReadError, ReadReturns, ReadNoNext, SetOutputCallback, RunAccepted, OutputDone,
       OutputReturns, OutputAfter, DropEnd, DropRequest, bufferVars
  <2> QED
    BY <1>2, <2>1
<1> QED
  BY <1>3, <1>5, <1>6 DEF Next

\* buffer::instance: for any initializer list, any sizes and any alignment
\* the chunks begin aligned behind the array of uv_buf_t, follow each other
\* and end where the allocation ends, and uv_buf::from() finds the array.
THEOREM LayoutCorrect == Spec => []LayoutSound
<1>1. Init => ShapeInv
  BY BufferAssumption DEF Init, BufferInit, ShapeInv
<1>2. ShapeInv => LayoutSound
  <2> SUFFICES ASSUME ShapeInv, NEW b \in Buffers PROVE
         LET lens == shape[b]
             n == BufCount(lens)
         IN  IF TotalLen(lens) = 0
             THEN \A i \in 1 .. n : Base(lens, i) = 0
             ELSE /\ Base(lens, 1) % MaxAlign = 0
                  /\ Base(lens, 1) >= OffsetUvBuf + n * SizeofUvBuf
                  /\ \A i \in 1 .. n - 1 : Base(lens, i + 1) = Base(lens, i) + lens[i]
                  /\ Base(lens, n) + lens[n] = AllocationSize(lens)
                  /\ n = 1 => UvBufFrom(Base(lens, 1)) = OffsetUvBuf
    BY DEF LayoutSound
  <2>1. shape[b] \in Seq(Nat)
    BY DEF ShapeInv
  <2>2. CASE TotalLen(shape[b]) = 0
    BY <2>2 DEF Base
  <2>3. CASE TotalLen(shape[b]) # 0
    BY <2>1, <2>3, ShapeLayout
  <2> QED
    BY <2>2, <2>3
<1> QED
  BY <1>1, <1>2, ShapeStep, PTL DEF Spec

-----------------------------------------------------------------------------
(* Deletion is final.                                                      *)

\* A sink revives a buffer before it is deleted, never after: a deleted
\* buffer stays deleted, and nothing counts it, lends it, sends it or gets it
\* as a parameter again.
DeletedIsFinal ==
    \A b \in Buffers :
        life[b] = "freed" =>
            /\ life'[b] = "freed" /\ count'[b] = 0
            /\ lent' # b /\ ~(busy' /\ outbuf' = b)
            /\ \A v \in Vars : var'[v] # b
            /\ \A i \in DOMAIN frames' : frames'[i].buf # b

\* Nothing refers to a buffer that has been deleted.
LEMMA DeletedIsForgotten ==
    Inv => \A b \in Buffers :
        life[b] = "freed" =>
            /\ count[b] = 0
            /\ lent # b /\ ~(busy /\ outbuf = b)
            /\ \A v \in Vars : var[v] # b
            /\ \A i \in DOMAIN frames : frames[i].buf # b
<1> SUFFICES ASSUME Inv, NEW b \in Buffers, life[b] = "freed"
    PROVE  /\ count[b] = 0
           /\ lent # b /\ ~(busy /\ outbuf = b)
           /\ \A v \in Vars : var[v] # b
           /\ \A i \in DOMAIN frames : frames[i].buf # b
  OBVIOUS
<1>1. BufferInv
  BY DEF Inv
<1>2. count[b] = 0
  BY <1>1, Facts DEF LifeInv
<1>3. /\ count[b] = Refs(var, b) + FrameRefs(frames, b) + Chunks(b)
      /\ Refs(var, b) \in Nat /\ FrameRefs(frames, b) \in Nat /\ Chunks(b) \in Nat
      /\ b # NoBuffer
  BY <1>1, Facts
<1>4. lent # b
  BY <1>1, <1>2, <1>3, LentHeld
<1>5. ~(busy /\ outbuf = b)
  BY <1>1, <1>2, OutHeld
<1>6. Refs(var, b) = 0 /\ FrameRefs(frames, b) = 0
  BY <1>2, <1>3
<1>7. \A v \in Vars : var[v] # b
  <2>1. IsFiniteSet({v \in Vars : var[v] = b})
    BY BufferAssumption, FS_Subset
  <2> QED
    BY <1>6, <2>1, FS_EmptySet DEF Refs
<1>8. \A i \in DOMAIN frames : frames[i].buf # b
  <2>1. IsFiniteSet(DOMAIN frames)
    BY <1>1, FS_Interval DEF BufferInv, StackInv
  <2>2. IsFiniteSet({i \in DOMAIN frames : frames[i].buf = b})
    BY <2>1, FS_Subset
  <2> QED
    BY <1>6, <2>2, FS_EmptySet DEF FrameRefs
<1> QED
  BY <1>2, <1>4, <1>5, <1>7, <1>8

\* The same of the state after a step.
LEMMA DeletedAfter ==
    Inv' => (\A b \in Buffers :
        life[b] = "freed" =>
            /\ count[b] = 0
            /\ lent # b /\ ~(busy /\ outbuf = b)
            /\ \A v \in Vars : var[v] # b
            /\ \A i \in DOMAIN frames : frames[i].buf # b)'
  BY DeletedIsForgotten, PTL

\* No step makes a deleted buffer anything else.
LEMMA FreedStep ==
    ASSUME Inv, [Next]_vars, NEW b \in Buffers, life[b] = "freed"
    PROVE  life'[b] = "freed"
<1>1. life \in [Buffers -> {"none", "alive", "freed"}]
  BY DEF Inv, BufferInv, BufferTypes
<1>2. ASSUME NEW a, NEW c, NEW s, Unref(a, c, s) PROVE life'[b] = "freed"
  BY <1>1, <1>2 DEF Unref
<1>3. ASSUME NEW v, NEW a, NEW c, NEW s, Assign(v, a, c, s) PROVE life'[b] = "freed"
  BY <1>2, <1>3 DEF Assign
<1>4. ASSUME NEW a, life[a] = "none", life' = [life EXCEPT ![a] = "alive"]
      PROVE  life'[b] = "freed"
  BY <1>1, <1>4
<1>5. CASE SinkReturns
  BY <1>1, <1>5 DEF SinkReturns
<1>6. CASE BufferNext
  BY <1>3, <1>2, <1>4, <1>5, <1>6
  DEF BufferNext, Create, SetSink, Drop, Copy, Move, Swap, TakeParameter
<1>7. CASE ReadEnd \/ ReadReturns \/ OutputDone \/ OutputReturns
  BY <1>2, <1>7 DEF ReadEnd, ReadReturns, OutputDone, OutputReturns
<1>8. ASSUME NEW a \in Buffers, IoAllocCb(a)
      PROVE  life'[b] = "freed"
  BY <1>4, <1>8 DEF IoAllocCb, AllocNew, AllocKept
<1>9. CASE \/ \E a \in Buffers, ok \in BOOLEAN : FileStart(a, ok) \/ ReadNext(a, ok)
           \/ \E a \in Buffers : Allocate(a)
  BY <1>8, <1>9 DEF FileStart, ReadNext, FileRead, Allocate
<1>10. CASE \/ UNCHANGED vars
            \/ ReadStop \/ ReadData \/ ReadEndCallback \/ ReadError \/ ReadNoNext
            \/ SetOutputCallback \/ OutputAfter \/ DropRequest
            \/ \E ok \in BOOLEAN : ReadStart(ok)
            \/ \E e \in Ends, v \in Vars, info \in BOOLEAN : RunAccepted(e, v, info)
            \/ \E e \in Ends : DropEnd(e)
  <2>1. UNCHANGED life
    BY <1>10 DEF vars, ReadStart, ReadStop, ReadData, ReadEndCallback, ReadError, ReadNoNext,
       SetOutputCallback, RunAccepted, OutputAfter, DropEnd, DropRequest, bufferVars
  <2> QED
    BY <2>1
<1> QED
  BY <1>6, <1>7, <1>9, <1>10 DEF Next

\* buffer::instance::destroy(): the instance that the sink of a buffer gets is
\* one that has not been deleted, and once it is nobody has it.
THEOREM DeletionIsFinal == Spec => [][DeletedIsFinal]_vars
<1>1. Inv /\ Inv' /\ [Next]_vars => DeletedIsFinal
  <2> SUFFICES ASSUME Inv, Inv', [Next]_vars, NEW b \in Buffers, life[b] = "freed"
      PROVE  /\ life'[b] = "freed" /\ count'[b] = 0
             /\ lent' # b /\ ~(busy' /\ outbuf' = b)
             /\ \A v \in Vars : var'[v] # b
             /\ \A i \in DOMAIN frames' : frames'[i].buf # b
    BY DEF DeletedIsFinal
  <2>1. life'[b] = "freed"
    BY FreedStep
  <2> QED
    BY <2>1, DeletedAfter
<1> QED
  BY <1>1, Invariance, PTL DEF Spec

-----------------------------------------------------------------------------
(* What file_read() loses stays lost.                                      *)

\* A buffer to which a refused uv_fs_read() has lost a reference is never
\* deleted, whatever variables, callbacks and requests do with it.
LossIsForever ==
    \A b \in Buffers :
        leaked[b] > 0 => leaked'[b] >= leaked[b] /\ life'[b] = "alive"

\* A lost reference keeps its buffer.
LEMMA LostKeeps == Inv => \A b \in Buffers : leaked[b] > 0 => life[b] = "alive"
<1> SUFFICES ASSUME Inv, NEW b \in Buffers, leaked[b] > 0 PROVE life[b] = "alive"
  OBVIOUS
<1>1. BufferInv
  BY DEF Inv
<1>2. /\ count[b] = Refs(var, b) + FrameRefs(frames, b) + Chunks(b)
      /\ Refs(var, b) \in Nat /\ FrameRefs(frames, b) \in Nat /\ leaked[b] \in Nat
      /\ life[b] = "alive" <=> count[b] > 0
  BY <1>1, Facts DEF LifeInv
<1>3. Chunks(b) \in Nat /\ Chunks(b) > 0
  <2>1. (IF lent = b THEN 1 ELSE 0) \in Nat /\ (IF busy /\ outbuf = b THEN 1 ELSE 0) \in Nat
    OBVIOUS
  <2> QED
    BY <1>2, <2>1 DEF Chunks
<1> QED
  BY <1>2, <1>3

\* The same of the state after a step.
LEMMA LostKeepsAfter == Inv' => (\A b \in Buffers : leaked[b] > 0 => life[b] = "alive")'
  BY LostKeeps, PTL

\* Nothing gives up a lost reference.
LEMMA LeakedStep ==
  ASSUME Inv, [Next]_vars, NEW b \in Buffers
  PROVE  leaked'[b] \in Nat /\ leaked[b] \in Nat /\ leaked'[b] >= leaked[b]
<1>1. leaked \in [Buffers -> Nat]
  BY DEF Inv, BufferInv, BufferTypes
<1>2. ASSUME leaked' = leaked
      PROVE  leaked'[b] \in Nat /\ leaked[b] \in Nat /\ leaked'[b] >= leaked[b]
  BY <1>1, <1>2
<1>3. ASSUME NEW a \in Buffers, leaked' = [leaked EXCEPT ![a] = @ + 1]
      PROVE  leaked'[b] \in Nat /\ leaked[b] \in Nat /\ leaked'[b] >= leaked[b]
  BY <1>1, <1>3
<1>4. CASE \E a \in Buffers, ok \in BOOLEAN : FileStart(a, ok) \/ ReadNext(a, ok)
  BY <1>2, <1>3, <1>4 DEF FileStart, ReadNext, FileRead
<1>5. CASE \/ UNCHANGED vars \/ (BufferNext /\ UNCHANGED flowVars)
           \/ ReadStop \/ ReadData \/ ReadEnd \/ ReadEndCallback \/ ReadError
           \/ ReadReturns \/ ReadNoNext \/ SetOutputCallback
           \/ OutputDone \/ OutputReturns \/ OutputAfter \/ DropRequest
           \/ \E ok \in BOOLEAN : ReadStart(ok)
           \/ \E a \in Buffers : Allocate(a)
           \/ \E e \in Ends, v \in Vars, info \in BOOLEAN : RunAccepted(e, v, info)
           \/ \E e \in Ends : DropEnd(e)
  <2>1. leaked' = leaked
    BY <1>5 DEF vars, flowVars, ReadStart, ReadStop, Allocate, ReadData, ReadEnd,
       ReadEndCallback, ReadError, ReadReturns, ReadNoNext, SetOutputCallback, RunAccepted,
       OutputDone, OutputReturns, OutputAfter, DropEnd, DropRequest
  <2> QED
    BY <1>2, <2>1
<1> QED
  BY <1>4, <1>5 DEF Next

\* file_read(), handle-io.hpp read_start(), file::read_cb(): the reference that
\* io_alloc_cb() took for a refused uv_fs_read() is released by nobody, so
\* its buffer is there for good.
THEOREM LostForever == Spec => [][LossIsForever]_vars
<1>1. Inv /\ Inv' /\ [Next]_vars => LossIsForever
  <2> SUFFICES ASSUME Inv, Inv', [Next]_vars, NEW b \in Buffers, leaked[b] > 0
               PROVE  leaked'[b] >= leaked[b] /\ life'[b] = "alive"
    BY DEF LossIsForever
  <2>1. leaked'[b] \in Nat /\ leaked[b] \in Nat /\ leaked'[b] >= leaked[b]
    BY LeakedStep
  <2>2. leaked'[b] > 0
    BY <2>1
  <2> QED
    BY <2>1, <2>2, LostKeepsAfter
<1> QED
  BY <1>1, Invariance, PTL DEF Spec
=============================================================================
