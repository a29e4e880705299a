------------------------------- MODULE Buffer -------------------------------
(***************************************************************************)
(* The buffer (buffer.hpp): the layout of one allocation that holds the    *)
(* instance, the array of uv_buf_t and the chunks, and the life of an      *)
(* instance, which a sink callback can prolong after its counter has       *)
(* reached zero.                                                           *)
(*                                                                         *)
(* Addresses are offsets from the start of the allocation; zero, where the *)
(* counter is, stands for nullptr in a base field.  The user code runs on  *)
(* one thread, outside of or inside callbacks: "frames" is the stack of    *)
(* the callbacks that are running.                                         *)
(***************************************************************************)
EXTENDS Integers, Sequences, FiniteSets, SequencesExt

CONSTANTS
    Buffers,      \* instances
    Vars,         \* buffer variables of the user
    NoBuffer,     \* nullptr in a variable: it has been moved from
    Shapes,       \* initializer lists that buffers are made with
    OffsetUvBuf,  \* offsetof(instance, uv_buf_struct)
    SizeofUvBuf,  \* sizeof(uv_buf_t)
    MaxAlign      \* alignof(std::max_align_t)

ASSUME BufferAssumption ==
    /\ IsFiniteSet(Buffers)
    /\ IsFiniteSet(Vars)
    /\ NoBuffer \notin Buffers
    /\ Shapes \subseteq Seq(Nat) /\ Shapes # {}
    /\ OffsetUvBuf \in Nat \ {0}
    /\ SizeofUvBuf \in Nat \ {0}
    /\ MaxAlign \in Nat \ {0}

\* uv_buf_struct is the last member, and nothing pads it.
SizeofInstance == OffsetUvBuf + SizeofUvBuf

-----------------------------------------------------------------------------
(* Layout.                                                                 *)

\* Mutant: the array of further uv_buf_t structures is left out.
AlignmentPadding_IgnoresArray(extra) == (-SizeofInstance) % MaxAlign

\* alignment_padding(): from the end of the array of uv_buf_t to the next
\* multiple of the alignment.
AlignmentPadding(extra) ==
    LET baseSize == SizeofInstance + extra * SizeofUvBuf
        properSize == ((baseSize + MaxAlign - 1) \div MaxAlign) * MaxAlign
    IN  properSize - baseSize

\* The lengths of the chunks add up to the number of their bytes, each a
\* chunk and a place in it.
Bytes(lens) == UNION {{i} \X (1 .. lens[i]) : i \in DOMAIN lens}
TotalLen(lens) == Cardinality(Bytes(lens))

\* operator new: the array has at least one element.
ExtraCount(lens) == IF Len(lens) > 0 THEN Len(lens) - 1 ELSE 0

AllocationSize(lens) ==
    SizeofInstance + ExtraCount(lens) * SizeofUvBuf
        + AlignmentPadding(ExtraCount(lens)) + TotalLen(lens)

\* instance(): buf_count, and the base field of each element.
BufCount(lens) == ExtraCount(lens) + 1

Base(lens, i) ==
    IF TotalLen(lens) = 0 THEN 0
    ELSE OffsetUvBuf + Len(lens) * SizeofUvBuf
             + AlignmentPadding(Len(lens) - 1)
             + TotalLen(SubSeq(lens, 1, i - 1))

\* uv_buf::from(): the address of the uv_buf_t that a base belongs to.
UvBufFrom(base) == base - AlignmentPadding(0) - SizeofUvBuf

-----------------------------------------------------------------------------
VARIABLES
    shape,   \* shape[b]: the initializer list b was created with
    life,    \* life[b]: "none", "alive" or "freed"
    count,   \* count[b]: the reference counter
    sink,    \* sink[b]: a sink callback has been set
    var,     \* var[v]: the buffer that v refers to
    frames   \* the running callbacks, the innermost one last

bufferVars == <<shape, life, count, sink, var, frames>>

\* A frame: "sink", "read" or "output" is a user callback whose buffer
\* parameter is "buf", NoBuffer when it has been moved from; "of" is the
\* buffer whose sink it is.  Three are not user code: "end" is a read that has
\* released its buffer and has still to call the read callback, "next" a
\* read callback of a file that has returned and has still to request the
\* next read, "after" an output callback that has returned and has still to
\* release what its request held.
Frame(kind, of, buf) == [kind |-> kind, of |-> of, buf |-> buf]

BufferInit ==
    /\ shape = [b \in Buffers |-> CHOOSE s \in Shapes : TRUE]
    /\ life = [b \in Buffers |-> "none"]
    /\ count = [b \in Buffers |-> 0]
    /\ sink = [b \in Buffers |-> FALSE]
    /\ var = [v \in Vars |-> NoBuffer]
    /\ frames = <<>>

-----------------------------------------------------------------------------
\* User code runs: outside of callbacks, or in one.
UserRuns == frames # <<>> => Last(frames).kind \notin {"end", "next", "after"}

SinkRunning(b) == \E i \in DOMAIN frames : frames[i].kind = "sink" /\ frames[i].of = b

\* The discipline of a sink: while it runs, nothing gives up the last
\* reference to its buffer, other than by the return of the sink.  The
\* callback would be called again inside itself, and the instance deleted
\* together with the callback that is executing.
MayRelease(b) == count[b] > 1 \/ ~SinkRunning(b)

Counted(b) == [count EXCEPT ![b] = @ + 1]

\* unref() and destroy(), with the counters c and the callbacks below it: at
\* zero the sink gets a variable that refers to the instance again; without
\* a sink the instance is deleted.
Unref(b, c, stack) ==
    LET zero == c[b] = 1
        revived == zero /\ sink[b]
    IN  /\ count' = [c EXCEPT ![b] = IF revived THEN 1 ELSE @ - 1]
        /\ life' = [life EXCEPT ![b] = IF zero /\ ~revived THEN "freed" ELSE @]
        /\ frames' = IF revived THEN Append(stack, Frame("sink", b, b)) ELSE stack

\* A new value for v.  The caller has counted it; the old one is released.
Assign(v, b, c, stack) ==
    /\ var' = [var EXCEPT ![v] = b]
    /\ IF var[v] = NoBuffer
       THEN count' = c /\ frames' = stack /\ UNCHANGED life
       ELSE Unref(var[v], c, stack)

\* buffer(lens): a new instance in an empty variable.
Create(v, b, lens) ==
    /\ UserRuns
    /\ var[v] = NoBuffer
    /\ life[b] = "none"
    /\ life' = [life EXCEPT ![b] = "alive"]
    /\ shape' = [shape EXCEPT ![b] = lens]
    /\ count' = [count EXCEPT ![b] = 1]
    /\ var' = [var EXCEPT ![v] = b]
    /\ UNCHANGED <<sink, frames>>

\* sink_cb() = ..., not while the callback is running.
SetSink(v) ==
    /\ UserRuns
    /\ var[v] # NoBuffer
    /\ ~SinkRunning(var[v])
    /\ sink' = [sink EXCEPT ![var[v]] = ~@]
    /\ UNCHANGED <<shape, life, count, var, frames>>

\* Copy construction or assignment from another variable.
Copy(v, w) ==
    /\ UserRuns
    /\ v # w
    /\ var[w] # NoBuffer
    /\ var[v] # NoBuffer /\ var[v] # var[w] => MayRelease(var[v])
    /\ Assign(v, var[w], Counted(var[w]), frames)
    /\ UNCHANGED <<shape, sink>>

\* Move construction or assignment.
Move(v, w) ==
    /\ UserRuns
    /\ v # w
    /\ var[w] # NoBuffer
    /\ var[v] # NoBuffer => MayRelease(var[v])
    /\ var' = [var EXCEPT ![v] = var[w], ![w] = NoBuffer]
    /\ IF var[v] = NoBuffer
       THEN UNCHANGED <<count, life, frames>>
       ELSE Unref(var[v], count, frames)
    /\ UNCHANGED <<shape, sink>>

Swap(v, w) ==
    /\ UserRuns
    /\ v # w
    /\ var' = [var EXCEPT ![v] = var[w], ![w] = var[v]]
    /\ UNCHANGED <<shape, life, count, sink, frames>>

\* ~buffer().
Drop(v) ==
    /\ UserRuns
    /\ var[v] # NoBuffer
    /\ MayRelease(var[v])
    /\ Assign(v, NoBuffer, count, frames)
    /\ UNCHANGED <<shape, sink>>

\* The callback that runs moves its parameter into v, or copies it.
TakeParameter(v, moves) ==
    /\ UserRuns
    /\ frames # <<>>
    /\ Last(frames).buf # NoBuffer
    /\ var[v] # NoBuffer => MayRelease(var[v])
    /\ LET b == Last(frames).buf
           stack == IF moves
                    THEN Append(Front(frames), [Last(frames) EXCEPT !.buf = NoBuffer])
                    ELSE frames
       IN  Assign(v, b, IF moves THEN count ELSE Counted(b), stack)
    /\ UNCHANGED <<shape, sink>>

\* Mutant: the buffer is deleted whatever the sink has done with it.
SinkReturns_Deletes ==
    /\ frames # <<>>
    /\ Last(frames).kind = "sink"
    /\ LET b == Last(frames).of
           kept == Last(frames).buf = NoBuffer
       IN  /\ count' = [count EXCEPT ![b] = IF kept THEN @ ELSE @ - 1]
           /\ life' = [life EXCEPT ![b] = IF ~kept THEN "freed" ELSE @]
    /\ frames' = Front(frames)
    /\ UNCHANGED <<shape, sink, var>>

\* destroy(): after the sink, unless it has moved the variable away, the
\* reference goes without another call of the sink.
SinkReturns ==
    /\ frames # <<>>
    /\ Last(frames).kind = "sink"
    /\ LET b == Last(frames).of
           kept == Last(frames).buf = NoBuffer
       IN  /\ count' = [count EXCEPT ![b] = IF kept THEN @ ELSE @ - 1]
           /\ life' = [life EXCEPT ![b] =
                            IF ~kept /\ count'[b] = 0 THEN "freed" ELSE @]
    /\ frames' = Front(frames)
    /\ UNCHANGED <<shape, sink, var>>

BufferNext ==
    \/ \E v \in Vars :
        \/ \E b \in Buffers, lens \in Shapes : Create(v, b, lens)
        \/ SetSink(v) \/ Drop(v)
        \/ \E w \in Vars : Copy(v, w) \/ Move(v, w) \/ Swap(v, w)
        \/ \E moves \in BOOLEAN : TakeParameter(v, moves)
    \/ SinkReturns

-----------------------------------------------------------------------------
\* References to b that variables and the parameters of callbacks hold.
UserRefs(b) ==
    Cardinality({v \in Vars : var[v] = b})
        + Cardinality({i \in DOMAIN frames : frames[i].buf = b})

\* instance(), alignment_padding(), operator new, uv_buf::from(): the chunks
\* of a buffer begin aligned after the array of uv_buf_t, follow each other,
\* and end where the allocation ends; they are null only if the buffer has
\* no room at all; and uv_buf::from() finds the array from the first base
\* of a buffer with one chunk, which is what io_alloc_cb() lends to libuv.
LayoutSound ==
    \A b \in {c \in Buffers : life[c] = "alive"} :
        LET lens == shape[b]
            n == BufCount(lens)
        IN  IF TotalLen(lens) = 0
            THEN \A i \in 1 .. n : Base(lens, i) = 0
            ELSE /\ Base(lens, 1) % MaxAlign = 0
                 /\ Base(lens, 1) >= OffsetUvBuf + n * SizeofUvBuf
                 /\ \A i \in 1 .. n - 1 : Base(lens, i + 1) = Base(lens, i) + lens[i]
                 /\ Base(lens, n) + lens[n] = AllocationSize(lens)
                 /\ n = 1 => UvBufFrom(Base(lens, 1)) = OffsetUvBuf
=============================================================================
