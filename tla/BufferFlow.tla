----------------------------- MODULE BufferFlow -----------------------------
(***************************************************************************)
(* The way of a buffer through the library: io_alloc_cb() takes it from    *)
(* the user's alloc callback and lends its first chunk to libuv,           *)
(* io_read_cb() finds it again from the address of the chunk and hands it  *)
(* to the read callback, and an output request (request-io.hpp) keeps one  *)
(* until it has been written or sent (handle-io.hpp, handle-fs.hpp).       *)
(*                                                                         *)
(* One endpoint is read from; read control is IoRead's subject, so here a  *)
(* stop waits for the buffer that libuv has, and a file is not started     *)
(* again while a read of it is in progress.  One output request is run on  *)
(* endpoints of any kind, and not while libuv has it.  A run() that is     *)
(* refused gives the three references back that it has taken, and          *)
(* try_output() takes none: what they leave is a status and the type in    *)
(* the uv_req_t, which are data.                                           *)
(***************************************************************************)
EXTENDS Buffer

CONSTANTS
    Ends,         \* I/O endpoints
    NoEnd,        \* no endpoint
    Source,       \* the one that is read
    Setups,       \* what the endpoints can be, as functions on Ends
    MaxLeaked     \* bound on the references to a buffer that get lost

Kinds == {"stream", "udp", "file", "other"}

ASSUME BufferFlowAssumption ==
    /\ IsFiniteSet(Ends)
    /\ NoEnd \notin Ends
    /\ Source \in Ends
    /\ Setups \subseteq [Ends -> Kinds]
    /\ MaxLeaked \in Nat

VARIABLES
    kind,     \* kind[e]: what endpoint e is
    erefs,    \* erefs[e]: its reference counter
    eheld,    \* endpoints that a variable of the user refers to
    reading,  \* Source has been started
    lent,     \* the buffer of which libuv has a chunk to read into
    leaked,   \* leaked[b]: references to b that nobody will release
    rrefs,    \* the reference counter of the output request
    rheld,    \* a variable of the user refers to it
    outcb,    \* it has a callback
    busy,     \* libuv has it
    on,       \* the endpoint it is running on, while it is busy
    outbuf,   \* the buffer it is running with, while it is busy
    guard     \* the endpoint that its running callback releases

flowVars == <<kind, erefs, eheld, reading, lent, leaked, rrefs, rheld, outcb, busy,
              on, outbuf, guard>>
vars == <<bufferVars, flowVars>>

Init ==
    /\ BufferInit
    /\ kind \in Setups
    /\ erefs = [e \in Ends |-> 1]
    /\ eheld = Ends
    /\ reading = FALSE
    /\ lent = NoBuffer
    /\ leaked = [b \in Buffers |-> 0]
    /\ rrefs = 1
    /\ rheld = TRUE
    /\ outcb = FALSE
    /\ busy = FALSE
    /\ on = NoEnd
    /\ outbuf = NoBuffer
    /\ guard = NoEnd

-----------------------------------------------------------------------------
(* Reading.                                                                *)

One(b) == IF b THEN 1 ELSE 0
Running(k) == \E i \in DOMAIN frames : frames[i].kind = k

\* What an alloc callback has to return: a buffer of one chunk that is not
\* empty.  uv_buf::from() finds no other.
Lendable(lens) == Len(lens) = 1 /\ lens[1] > 0

\* The alloc callback returns a new buffer: its own variable goes, the
\* reference that io_alloc_cb() has added stays.
AllocNew(b) ==
    /\ life[b] = "none"
    /\ life' = [life EXCEPT ![b] = "alive"]
    /\ count' = [count EXCEPT ![b] = 1]
    /\ \E lens \in Shapes : Lendable(lens) /\ shape' = [shape EXCEPT ![b] = lens]
    /\ UNCHANGED var

\* It returns a buffer that it has kept, and keeps it or not.
AllocKept(b) ==
    /\ Lendable(shape[b])
    /\ \E v \in Vars, moves \in BOOLEAN :
          /\ var[v] = b
          /\ var' = [var EXCEPT ![v] = IF moves THEN NoBuffer ELSE @]
          /\ count' = IF moves THEN count ELSE Counted(b)
    /\ UNCHANGED <<shape, life>>

\* io_alloc_cb(): the first chunk of b is for libuv, with a reference.
IoAllocCb(b) == (AllocNew(b) \/ AllocKept(b)) /\ UNCHANGED sink

\* file_read(): the chunk goes to uv_fs_read().  When that refuses it,
\* neither the caller nor anybody else releases the reference.
FileRead(b, ok) ==
    /\ IoAllocCb(b)
    /\ IF ok
       THEN lent' = b /\ UNCHANGED leaked
       ELSE /\ leaked[b] < MaxLeaked
            /\ leaked' = [leaked EXCEPT ![b] = @ + 1]
            /\ UNCHANGED lent

\* read_start(): a reference for the new reading, unless it fails; a restart
\* gives up that of the old one.
ReadStarted(ok) ==
    /\ reading' = ok
    /\ erefs' = [erefs EXCEPT ![Source] = @ + One(ok) - One(reading)]

\* read_start() of a stream or a datagram socket; libuv asks for memory
\* later.
ReadStart(ok) ==
    /\ UserRuns
    /\ Source \in eheld
    /\ kind[Source] # "file"
    /\ lent = NoBuffer
    /\ ReadStarted(ok)
    /\ UNCHANGED <<bufferVars, kind, eheld, lent, leaked, rrefs, rheld, outcb, busy,
                   on, outbuf, guard>>

\* A read of the file is in progress.
FileReading == lent # NoBuffer \/ Running("end") \/ Running("read") \/ Running("next")

\* read_start() of a file: the first read is requested at once.
FileStart(b, ok) ==
    /\ UserRuns
    /\ Source \in eheld
    /\ kind[Source] = "file"
    /\ ~FileReading
    /\ FileRead(b, ok)
    /\ ReadStarted(ok)
    /\ UNCHANGED <<frames, kind, eheld, rrefs, rheld, outcb, busy, on, outbuf, guard>>

ReadStop ==
    /\ UserRuns
    /\ reading
    /\ lent = NoBuffer
    /\ Source \in eheld
    /\ reading' = FALSE
    /\ erefs' = [erefs EXCEPT ![Source] = @ - 1]
    /\ UNCHANGED <<bufferVars, kind, eheld, lent, leaked, rrefs, rheld, outcb, busy,
                   on, outbuf, guard>>

\* libuv has no memory to read into from a stream or a datagram socket.
Allocates == frames = <<>> /\ reading /\ lent = NoBuffer /\ kind[Source] # "file"

\* It asks for some.
Allocate(b) ==
    /\ Allocates
    /\ IoAllocCb(b)
    /\ lent' = b
    /\ UNCHANGED <<frames, kind, erefs, eheld, reading, leaked, rrefs, rheld, outcb,
                   busy, on, outbuf, guard>>

\* io_read_cb(): the callback's parameter adopts the reference of the chunk.
ReadData ==
    /\ frames = <<>>
    /\ lent # NoBuffer
    /\ frames' = <<Frame("read", NoBuffer, lent)>>
    /\ lent' = NoBuffer
    /\ erefs' = [erefs EXCEPT ![Source] = @ + 1]
    /\ UNCHANGED <<shape, life, count, sink, var, kind, eheld, reading, leaked,
                   rrefs, rheld, outcb, busy, on, outbuf, guard>>

\* file::read_cb() on an error or at the end: the buffer is released, which
\* may call its sink.
ReadEnd ==
    /\ frames = <<>>
    /\ lent # NoBuffer
    /\ kind[Source] = "file"
    /\ Unref(lent, count, <<Frame("end", NoBuffer, NoBuffer)>>)
    /\ lent' = NoBuffer
    /\ UNCHANGED <<shape, sink, var, kind, erefs, eheld, reading, leaked, rrefs, rheld,
                   outcb, busy, on, outbuf, guard>>

\* file::read_cb() then calls the read callback with an empty buffer.
ReadEndCallback ==
    /\ frames = <<Frame("end", NoBuffer, NoBuffer)>>
    /\ frames' = <<Frame("read", NoBuffer, NoBuffer)>>
    /\ erefs' = [erefs EXCEPT ![Source] = @ + 1]
    /\ UNCHANGED <<shape, life, count, sink, var, kind, eheld, reading, lent, leaked,
                   rrefs, rheld, outcb, busy, on, outbuf, guard>>

\* io_read_cb() for a stream or a datagram socket that libuv reports an error
\* of without having asked for memory: the callback gets an empty buffer.
ReadError ==
    /\ Allocates
    /\ frames' = <<Frame("read", NoBuffer, NoBuffer)>>
    /\ erefs' = [erefs EXCEPT ![Source] = @ + 1]
    /\ UNCHANGED <<shape, life, count, sink, var, kind, eheld, reading, lent, leaked,
                   rrefs, rheld, outcb, busy, on, outbuf, guard>>

\* The read callback returns; its parameters go.  file::read_cb() goes on.
ReadReturns ==
    /\ frames # <<>>
    /\ Last(frames).kind = "read"
    /\ LET b == Last(frames).buf
           stack == IF kind[Source] = "file"
                    THEN Append(Front(frames), Frame("next", NoBuffer, NoBuffer))
                    ELSE Front(frames)
       IN  IF b = NoBuffer
           THEN frames' = stack /\ UNCHANGED <<count, life>>
           ELSE Unref(b, count, stack)
    /\ erefs' = [erefs EXCEPT ![Source] = @ - 1]
    /\ UNCHANGED <<shape, sink, var, kind, eheld, reading, lent, leaked, rrefs, rheld,
                   outcb, busy, on, outbuf, guard>>

\* file::read_cb() then requests the next read, unless reading has been
\* stopped.  A refusal is only recorded as the status.
ReadNext(b, ok) ==
    /\ frames = <<Frame("next", NoBuffer, NoBuffer)>>
    /\ reading
    /\ FileRead(b, ok)
    /\ frames' = <<>>
    /\ UNCHANGED <<kind, erefs, eheld, reading, rrefs, rheld, outcb, busy, on, outbuf,
                   guard>>

ReadNoNext ==
    /\ frames = <<Frame("next", NoBuffer, NoBuffer)>>
    /\ ~reading
    /\ frames' = <<>>
    /\ UNCHANGED <<shape, life, count, sink, var, kind, erefs, eheld, reading, lent,
                   leaked, rrefs, rheld, outcb, busy, on, outbuf, guard>>

-----------------------------------------------------------------------------
(* Output.                                                                 *)

\* User code has the request: in a variable, or as a callback parameter.
HasRequest ==
    \/ rheld
    \/ frames # <<>> /\ frames[1].kind = "output"

\* on_request() = ..., not while the callback is running.
SetOutputCallback ==
    /\ UserRuns
    /\ rheld
    /\ frames # <<>> => frames[1].kind # "output"
    /\ outcb' = ~outcb
    /\ UNCHANGED <<bufferVars, kind, erefs, eheld, reading, lent, leaked, rrefs, rheld,
                   busy, on, outbuf, guard>>

\* run() can be called.
CanOutput(e, v) ==
    /\ UserRuns
    /\ HasRequest
    /\ ~busy
    /\ e \in eheld
    /\ var[v] # NoBuffer

\* run() goes on to a libuv function that queues the request: not for a
\* datagram without an address, not for a file without a callback.
Queues(e, info) ==
    \/ kind[e] = "stream"
    \/ kind[e] = "udp" /\ info
    \/ kind[e] = "file" /\ outcb

\* run(): libuv takes the request, which references endpoint, buffer and
\* itself.
RunAccepted(e, v, info) ==
    /\ CanOutput(e, v)
    /\ Queues(e, info)
    /\ erefs' = [erefs EXCEPT ![e] = @ + 1]
    /\ count' = Counted(var[v])
    /\ rrefs' = rrefs + 1
    /\ on' = e
    /\ outbuf' = var[v]
    /\ busy' = TRUE
    /\ UNCHANGED <<shape, life, sink, var, frames, kind, eheld, reading, lent, leaked,
                   rheld, outcb, guard>>

\* write_cb(), udp_send_cb(): guards adopt the references to endpoint and
\* request, the callback's parameter the one to the buffer.  Without a
\* callback the buffer is released at once.
OutputDone ==
    /\ frames = <<>>
    /\ busy
    /\ busy' = FALSE
    /\ guard' = on
    /\ on' = NoEnd
    /\ outbuf' = NoBuffer
    /\ IF outcb
       THEN /\ frames' = <<Frame("output", NoBuffer, outbuf)>>
            /\ rrefs' = rrefs + 1
            /\ UNCHANGED <<count, life>>
       ELSE /\ Unref(outbuf, count, <<Frame("after", NoBuffer, NoBuffer)>>)
            /\ UNCHANGED rrefs
    /\ UNCHANGED <<shape, sink, var, kind, erefs, eheld, reading, lent, leaked, rheld,
                   outcb>>

\* The output callback returns; its parameters go.
OutputReturns ==
    /\ frames # <<>>
    /\ Last(frames).kind = "output"
    /\ LET b == Last(frames).buf
           stack == Append(Front(frames), Frame("after", NoBuffer, NoBuffer))
       IN  IF b = NoBuffer
           THEN frames' = stack /\ UNCHANGED <<count, life>>
           ELSE Unref(b, count, stack)
    /\ rrefs' = rrefs - 1
    /\ UNCHANGED <<shape, sink, var, kind, erefs, eheld, reading, lent, leaked, rheld,
                   outcb, busy, on, outbuf, guard>>

\* Mutant: the guard refers to the endpoint that the request now has.
OutputAfter_LateGuard ==
    /\ frames # <<>>
    /\ Last(frames).kind = "after"
    /\ frames' = Front(frames)
    /\ rrefs' = rrefs - 1
    /\ erefs' = IF busy THEN [erefs EXCEPT ![on] = @ - 1] ELSE [erefs EXCEPT ![guard] = @ - 1]
    /\ guard' = NoEnd
    /\ UNCHANGED <<shape, life, count, sink, var, kind, eheld, reading, lent, leaked,
                   rheld, outcb, busy, on, outbuf>>

\* The guards of the callback release request and endpoint.
OutputAfter ==
    /\ frames # <<>>
    /\ Last(frames).kind = "after"
    /\ frames' = Front(frames)
    /\ rrefs' = rrefs - 1
    /\ erefs' = [erefs EXCEPT ![guard] = @ - 1]
    /\ guard' = NoEnd
    /\ UNCHANGED <<shape, life, count, sink, var, kind, eheld, reading, lent, leaked,
                   rheld, outcb, busy, on, outbuf>>

\* The user drops the variable of an endpoint, or of the request.
DropEnd(e) ==
    /\ UserRuns
    /\ e \in eheld
    /\ eheld' = eheld \ {e}
    /\ erefs' = [erefs EXCEPT ![e] = @ - 1]
    /\ UNCHANGED <<bufferVars, kind, reading, lent, leaked, rrefs, rheld, outcb, busy,
                   on, outbuf, guard>>

DropRequest ==
    /\ UserRuns
    /\ rheld
    /\ rheld' = FALSE
    /\ rrefs' = rrefs - 1
    /\ UNCHANGED <<bufferVars, kind, erefs, eheld, reading, lent, leaked, outcb, busy,
                   on, outbuf, guard>>

Next ==
    \/ BufferNext /\ UNCHANGED flowVars
    \/ \E ok \in BOOLEAN : ReadStart(ok)
    \/ \E b \in Buffers, ok \in BOOLEAN : FileStart(b, ok) \/ ReadNext(b, ok)
    \/ \E b \in Buffers : Allocate(b)
    \/ ReadStop
    \/ ReadData \/ ReadEnd \/ ReadEndCallback \/ ReadError
    \/ ReadReturns \/ ReadNoNext
    \/ SetOutputCallback
    \/ \E e \in Ends, v \in Vars, info \in BOOLEAN : RunAccepted(e, v, info)
    \/ OutputDone \/ OutputReturns \/ OutputAfter
    \/ \E e \in Ends : DropEnd(e)
    \/ DropRequest

Spec == Init /\ [][Next]_vars

-----------------------------------------------------------------------------
\* buffer, io_alloc_cb(), io_read_cb(), file::read_cb(), output::run() and
\* the callbacks of the requests: the counter of a buffer is the number of
\* variables, callback parameters, chunks that libuv reads into and requests
\* in flight that refer to it, and one more for each uv_fs_read() that has
\* refused its chunk, where file_read() loses the reference; those of the
\* endpoints and of the request are exact, whichever buffers are revived by
\* a sink on the way.
ReferencesAccounted ==
    /\ \A b \in Buffers :
          count[b] = UserRefs(b) + One(lent = b) + One(busy /\ outbuf = b) + leaked[b]
    /\ \A e \in Ends :
          erefs[e] = One(e \in eheld) + One(e = Source /\ reading)
                     + One(e = Source /\ Running("read")) + One(busy /\ on = e)
                     + One(guard = e /\ (Running("output") \/ Running("after")))
    /\ rrefs = One(rheld) + One(busy) + One(Running("output")) * 2
               + One(Running("after"))

\* buffer::instance::destroy(), and everything that hands a buffer on: what
\* a variable, a callback, libuv or a request refers to has not been
\* deleted, the buffer whose sink is running in particular; and a buffer to
\* which nothing refers has been, unless a reference to it was lost.
NoUseAfterFree ==
    \A b \in Buffers :
        /\ UserRefs(b) > 0 \/ lent = b \/ (busy /\ outbuf = b) \/ SinkRunning(b)
              => life[b] = "alive"
        /\ life[b] = "alive" =>
              \/ UserRefs(b) > 0 \/ lent = b \/ (busy /\ outbuf = b)
              \/ leaked[b] > 0
=============================================================================
