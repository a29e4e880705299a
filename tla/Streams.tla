------------------------------ MODULE Streams ------------------------------
(***************************************************************************)
(* Stream and datagram sockets as handles (handle-stream.hpp,              *)
(* handle-udp.hpp): their constructors, their options, listen(), the       *)
(* connection callback, accept() and accept_pending_handle(), on one       *)
(* thread.                                                                 *)
(*                                                                         *)
(* A handle that libuv has initialised books the loop until it is deleted. *)
(* uv_status() is the result of the last operation on a handle.            *)
(*                                                                         *)
(* accept() of a tty, and accept_pending_handle() with nothing pending,    *)
(* set the status of a variable that has no instance, which is undefined:  *)
(* the user does not call them so.                                         *)
(***************************************************************************)
EXTENDS Naturals, FiniteSets

CONSTANTS
    Handles,    \* instances of handles
    Vars,       \* handle variables of the user
    NoHandle,   \* nullptr in a variable
    Opened,     \* the classes of handles that the user makes
    Passed      \* the classes of handles that come over pipes

Streaming == {"tcp", "pipe", "tty"}
Kinds == Streaming \union {"udp", "file"}

ASSUME StreamsAssumption ==
    /\ IsFiniteSet(Handles)
    /\ IsFiniteSet(Vars)
    /\ NoHandle \notin Handles
    /\ Opened \subseteq Kinds
    /\ Passed \subseteq {"tcp", "pipe"}

VARIABLES
    inst,       \* inst[h]: the instance h, see Unborn
    var,        \* var[v]: the handle that v refers to
    server      \* the server whose connection callback is running

streamVars == <<inst, var, server>>

\* An instance before its creation.  "failed": its uv_status() is an error;
\* "booked": it has booked the loop; "waiting": libuv has a connection that
\* can be accepted from it; "passed": the class of the handle that has been
\* received over it.
Unborn == [life |-> "none", kind |-> "tcp", refs |-> 0, failed |-> FALSE,
           booked |-> FALSE, listening |-> FALSE, waiting |-> FALSE,
           passed |-> "none"]

StreamInit ==
    /\ inst = [h \in Handles |-> Unborn]
    /\ var = [v \in Vars |-> NoHandle]
    /\ server = NoHandle

-----------------------------------------------------------------------------
\* instance::create() and the initialisation by libuv; the loop is booked
\* if that succeeds.  The reference is counted by the place that keeps it.
Born(k, ok) ==
    [Unborn EXCEPT !.life = "alive", !.kind = k, !.booked = ok, !.failed = ~ok]

Only(h) == [g \in Handles |-> IF g = h THEN 1 ELSE 0]
Nothing == [g \in Handles |-> 0]

\* Mutant: a handle that is deleted does not unbook the loop.
Recount_KeepsBooking(is, gain, lost) ==
    [h \in Handles |->
        LET total == is[h].refs + gain[h] - lost[h]
        IN  IF lost[h] > 0 /\ total = 0
            THEN [Unborn EXCEPT !.life = "freed", !.booked = is[h].booked]
            ELSE [is[h] EXCEPT !.refs = total]]

\* ref() and unref(), in this order: a handle that has lost its last
\* reference is closed and deleted, which unbooks the loop.
Recount(is, gain, lost) ==
    [h \in Handles |->
        LET total == is[h].refs + gain[h] - lost[h]
        IN  IF lost[h] > 0 /\ total = 0
            THEN [Unborn EXCEPT !.life = "freed"]
            ELSE [is[h] EXCEPT !.refs = total]]

\* The constructors of tcp, pipe, tty, udp and file: what follows a
\* successful initialisation (open, bind, set_blocking) can still fail, and
\* only sets the status.
Open(v, h, k, ok, rest) ==
    /\ var[v] = NoHandle
    /\ inst[h].life = "none"
    /\ inst' = Recount([inst EXCEPT ![h] = [Born(k, ok) EXCEPT !.failed = ~(ok /\ rest)]],
                       Only(h), Nothing)
    /\ var' = [var EXCEPT ![v] = h]
    /\ UNCHANGED server

\* Copies and drops of variables.
Copy(v, w) ==
    /\ var[v] = NoHandle
    /\ var[w] # NoHandle
    /\ var' = [var EXCEPT ![v] = var[w]]
    /\ inst' = Recount(inst, Only(var[w]), Nothing)
    /\ UNCHANGED server

Drop(v) ==
    /\ var[v] # NoHandle
    /\ var' = [var EXCEPT ![v] = NoHandle]
    /\ inst' = Recount(inst, Nothing, Only(var[v]))
    /\ UNCHANGED server

\* User code can use h: through a variable or the callback's parameter.
Usable(h) ==
    /\ inst[h].booked
    /\ h = server \/ \E v \in Vars : var[v] = h

\* One libuv function on the handle, whose result becomes the status.
Records(h, ok) ==
    /\ Usable(h)
    /\ inst' = [inst EXCEPT ![h].failed = ~ok]
    /\ UNCHANGED <<var, server>>

\* bind(), the options, and the queries of names and sizes.
StreamOption(h, ok) == inst[h].kind \in Streaming /\ Records(h, ok)
TcpOption(h, ok)    == inst[h].kind = "tcp"  /\ Records(h, ok)
PipeOption(h, ok)   == inst[h].kind = "pipe" /\ Records(h, ok)
TtyOption(h, ok)    == inst[h].kind = "tty"  /\ Records(h, ok)
UdpOption(h, ok)    == inst[h].kind = "udp"  /\ Records(h, ok)

\* listen(): no reference is taken.
Listen(h, ok) ==
    /\ Usable(h)
    /\ inst[h].kind \in {"tcp", "pipe"}
    /\ inst' = [inst EXCEPT ![h].failed = ~ok, ![h].listening = @ \/ ok]
    /\ UNCHANGED <<var, server>>

\* connection_cb(): libuv has a connection for the server, or an error.
\* The parameter of the user callback is a reference.
ConnectionCb(h, ok) ==
    /\ server = NoHandle
    /\ inst[h].listening
    /\ ~inst[h].waiting
    /\ inst' = Recount([inst EXCEPT ![h].failed = ~ok, ![h].waiting = ok],
                       Only(h), Nothing)
    /\ server' = h
    /\ UNCHANGED var

ConnectionReturns ==
    /\ server # NoHandle
    /\ inst' = Recount(inst, Nothing, Only(server))
    /\ server' = NoHandle
    /\ UNCHANGED var

\* A handle comes over the pipe h.
HandlePassed(h, k) ==
    /\ inst[h].booked
    /\ inst[h].kind = "pipe"
    /\ ~inst[h].listening
    /\ inst[h].passed = "none"
    /\ inst' = [inst EXCEPT ![h].passed = k]
    /\ UNCHANGED <<var, server>>

\* accept() and accept_pending_handle(): a client of class k is made; if
\* that succeeds, uv_accept() is called, which uses up what was waiting and
\* gives it to the client or fails.  Both the client and h get the status.
Accepts(v, h, c, k, ok, given) ==
    /\ Usable(h)
    /\ var[v] = NoHandle
    /\ inst[c].life = "none"
    /\ inst' = Recount(
            [inst EXCEPT
                ![c] = [Born(k, ok) EXCEPT !.failed = ~(ok /\ given)],
                ![h].failed = ~(ok /\ given),
                ![h].waiting = @ /\ ~ok, ![h].passed = IF ok THEN "none" ELSE @],
            Only(c), Nothing)
    /\ var' = [var EXCEPT ![v] = c]
    /\ UNCHANGED server

\* accept(): the client is of the class of the server.  uv_accept() fails
\* when no connection is waiting, and may fail when one is.
Accept(v, h, c, ok, given) ==
    /\ inst[h].kind \in {"tcp", "pipe"}
    /\ inst[h].passed = "none"
    /\ given => inst[h].waiting
    /\ Accepts(v, h, c, inst[h].kind, ok, given)

\* accept_pending_handle(): of the class that was sent; uv_accept() may
\* fail here too.
AcceptPendingHandle(v, h, c, ok, given) ==
    /\ inst[h].passed # "none"
    /\ Accepts(v, h, c, inst[h].passed, ok, given)

StreamNext ==
    \/ \E v \in Vars :
        \/ \E h \in Handles, k \in Opened, ok, rest \in BOOLEAN : Open(v, h, k, ok, rest)
        \/ \E w \in Vars : Copy(v, w)
        \/ Drop(v)
        \/ \E h, c \in Handles, ok, given \in BOOLEAN :
            Accept(v, h, c, ok, given) \/ AcceptPendingHandle(v, h, c, ok, given)
    \/ \E h \in Handles, ok \in BOOLEAN :
        \/ StreamOption(h, ok) \/ TcpOption(h, ok) \/ PipeOption(h, ok)
        \/ TtyOption(h, ok) \/ UdpOption(h, ok)
        \/ Listen(h, ok) \/ ConnectionCb(h, ok)
    \/ \E h \in Handles, k \in Passed : HandlePassed(h, k)
    \/ ConnectionReturns

-----------------------------------------------------------------------------
One(b) == IF b THEN 1 ELSE 0

\* References to h that the user's variables and the callback hold.
UserRefs(h) == Cardinality({v \in Vars : var[v] = h}) + One(server = h)
=============================================================================
