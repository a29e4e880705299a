---------------------------- MODULE LoopLifetime ----------------------------
(***************************************************************************)
(* One event loop, the handles on it and the requests that run on them:    *)
(* who keeps whom in existence, and how the loop is destroyed (loop.hpp,   *)
(* handle-base.hpp, request-base.hpp, request-stream.hpp, request-udp.hpp, *)
(* request-dns.hpp, request-misc.hpp).                                     *)
(*                                                                         *)
(* A handle references ("books") its loop.  A running request references   *)
(* its instance, its handles and its buffer; a request that runs on the    *)
(* loop itself does not reference the loop.  All of it is on the loop's    *)
(* thread: user code runs outside of uv_run() or in a request callback.    *)
(*                                                                         *)
(* A run() that libuv refuses releases what it has referenced, all of it   *)
(* kept by the caller's variables, and changes nothing; a DNS request      *)
(* without a callback runs synchronously and changes nothing either.       *)
(***************************************************************************)
EXTENDS Naturals, FiniteSets

CONSTANTS
    Handles,
    NoHandle,
    Requests,
    NoRequest,
    Classes,      \* classes of request to consider
    MaxLoopVars   \* bound: loop variables of the user code

\* Classes of request that run on a handle (write2 on two), and on the loop.
OnHandle == {"connect", "write", "write2", "shutdown", "udp_send"}
OnLoop   == {"work", "getaddrinfo", "getnameinfo"}
WithBuffer == {"write", "write2", "udp_send"}

ASSUME LoopLifetimeAssumption ==
    /\ IsFiniteSet(Handles) /\ NoHandle \notin Handles
    /\ IsFiniteSet(Requests) /\ NoRequest \notin Requests
    /\ Classes \subseteq OnHandle \union OnLoop
    /\ MaxLoopVars \in Nat \ {0}

VARIABLES
    loop,      \* "alive", "dying" in ~instance()'s premortal run, "freed"
    loopRefs,  \* the reference count of the loop instance
    loopVars,  \* loop variables of the user code
    running,   \* loop::run() is being executed
    handle,    \* handle[h]: "none", "failed" to initialize, "open", "closing"
               \* in libuv, "closed"
    hRefs,     \* hRefs[h]: the reference count of the instance; 0 is deleted
    hVar,      \* hVar[h]: the user code has a variable
    class,     \* class[r]: the class of request r
    pending,   \* pending[r]: libuv has the request
    rRefs,     \* rRefs[r]: the reference count of the instance; 0 is deleted
    rVar,      \* rVar[r]: the user code has a variable
    target,    \* target[r]: the handle that r runs on
    sent,      \* sent[r]: the handle that r sends over a pipe
    bRefs,     \* the reference count of the buffer instance
    bVar,      \* the user code has a variable of the buffer
    cb         \* the callback being run: its request, and the handles that
               \* its guards hold

loopState == <<loop, loopRefs, loopVars>>
handleState == <<handle, hRefs, hVar>>
requestState == <<class, pending, rRefs, rVar, target, sent>>
bufferState == <<bRefs, bVar>>

vars == <<loopState, running, handleState, requestState, bufferState, cb>>

NoCallback == [req |-> NoRequest, target |-> NoHandle, sent |-> NoHandle]

TypeOK ==
    /\ loop \in {"alive", "dying", "freed"}
    /\ loopRefs \in Nat
    /\ loopVars \in 0..MaxLoopVars
    /\ running \in BOOLEAN
    /\ handle \in [Handles -> {"none", "failed", "open", "closing", "closed"}]
    /\ hRefs \in [Handles -> Nat]
    /\ hVar \in [Handles -> BOOLEAN]
    /\ class \in [Requests -> Classes]
    /\ pending \in [Requests -> BOOLEAN]
    /\ rRefs \in [Requests -> Nat]
    /\ rVar \in [Requests -> BOOLEAN]
    /\ target \in [Requests -> Handles \union {NoHandle}]
    /\ sent \in [Requests -> Handles \union {NoHandle}]
    /\ bRefs \in Nat
    /\ bVar \in BOOLEAN
    /\ cb \in [req : Requests \union {NoRequest}, target : Handles \union {NoHandle},
               sent : Handles \union {NoHandle}]

\* The user code has made a loop, its requests and a buffer.
Init ==
    /\ loop = "alive"
    /\ loopRefs = 1
    /\ loopVars = 1
    /\ running = FALSE
    /\ handle = [h \in Handles |-> "none"]
    /\ hRefs = [h \in Handles |-> 0]
    /\ hVar = [h \in Handles |-> FALSE]
    /\ class \in [Requests -> Classes]
    /\ pending = [r \in Requests |-> FALSE]
    /\ rRefs = [r \in Requests |-> 1]
    /\ rVar = [r \in Requests |-> TRUE]
    /\ target = [r \in Requests |-> NoHandle]
    /\ sent = [r \in Requests |-> NoHandle]
    /\ bRefs = 1
    /\ bVar = TRUE
    /\ cb = NoCallback

InCallback == cb # NoCallback

\* User code runs in a callback, or when neither run() nor the destructor of
\* the loop is being executed.
UserCode == InCallback \/ (~running /\ loop # "dying")

\* libuv processes events in run() and in the premortal run.
Processing == (running \/ loop = "dying") /\ ~InCallback

\* libuv has handles to finish closing, or requests to complete.
Unfinished(handles) ==
    \/ \E h \in Handles : handles[h] \in {"open", "closing"}
    \/ \E r \in Requests : pending[r]

-----------------------------------------------------------------------------
(* The loop.                                                               *)

\* Mutants: the loop is given back, or forgotten, with things unfinished.
UnrefLoop_AtOnce(n, handles) ==
    /\ loopRefs' = loopRefs - n
    /\ loop' = IF n = 0 \/ loopRefs > n THEN loop ELSE "freed"

UnrefLoop_Forgets(n, handles) ==
    /\ loopRefs' = loopRefs - n
    /\ loop' = IF n = 0 \/ loopRefs > n \/ Unfinished(handles) THEN loop ELSE "freed"

\* instance::unref(), n times, and for the last reference destroy() and the
\* destructor: the loop is closed if libuv has nothing unfinished, otherwise
\* it is run until that is so.
UnrefLoop(n, handles) ==
    /\ loopRefs' = loopRefs - n
    /\ loop' = IF n = 0 \/ loopRefs > n THEN loop
               ELSE IF Unfinished(handles) THEN "dying" ELSE "freed"

CopyLoop ==
    /\ UserCode
    /\ loopVars \in 1..(MaxLoopVars - 1)
    /\ loopVars' = loopVars + 1
    /\ loopRefs' = loopRefs + 1
    /\ UNCHANGED <<loop, running, handleState, requestState, bufferState, cb>>

\* ~loop(); run() is being executed on one of the variables.
DropLoop ==
    /\ UserCode
    /\ loopVars > (IF running THEN 1 ELSE 0)
    /\ loopVars' = loopVars - 1
    /\ UnrefLoop(1, handle)
    /\ UNCHANGED <<running, handleState, requestState, bufferState, cb>>

Run ==
    /\ UserCode /\ ~running
    /\ loopVars > 0
    /\ running' = TRUE
    /\ UNCHANGED <<loopState, handleState, requestState, bufferState, cb>>

\* uv_run() returns when there is nothing left, when asked to stop, or after
\* one iteration; on_exit() is user code.
RunReturns ==
    /\ running /\ ~InCallback
    /\ running' = FALSE
    /\ UNCHANGED <<loopState, handleState, requestState, bufferState, cb>>

\* The premortal run has left nothing unfinished: the second uv_loop_close().
FinishDestroy ==
    /\ loop = "dying" /\ ~InCallback
    /\ ~Unfinished(handle)
    /\ loop' = "freed"
    /\ UNCHANGED <<loopRefs, loopVars, running, handleState, requestState, bufferState, cb>>

-----------------------------------------------------------------------------
(* Handles.                                                                *)

\* Mutant: the handle does not book the loop.
CreateHandle_NotBooked(h) ==
    /\ UserCode
    /\ loopVars > 0
    /\ handle[h] = "none"
    /\ hRefs' = [hRefs EXCEPT ![h] = 1]
    /\ hVar' = [hVar EXCEPT ![h] = TRUE]
    /\ handle' = [handle EXCEPT ![h] = "open"]
    /\ UNCHANGED <<loopState, running, requestState, bufferState, cb>>

\* The constructor of a handle class: if libuv initializes the handle, it
\* books the loop.
CreateHandle(h) ==
    /\ UserCode
    /\ loopVars > 0
    /\ handle[h] = "none"
    /\ hRefs' = [hRefs EXCEPT ![h] = 1]
    /\ hVar' = [hVar EXCEPT ![h] = TRUE]
    /\ \/ /\ handle' = [handle EXCEPT ![h] = "open"]
          /\ loopRefs' = loopRefs + 1
       \/ /\ handle' = [handle EXCEPT ![h] = "failed"]
          /\ UNCHANGED loopRefs
    /\ UNCHANGED <<loop, loopVars, running, requestState, bufferState, cb>>

\* The number of references that pending requests, and the guards of a
\* callback, have to h.
Uses(h) ==
    Cardinality({r \in Requests : target[r] = h}) + Cardinality({r \in Requests : sent[r] = h})

Guarded(h) == (IF cb.target = h THEN 1 ELSE 0) + (IF cb.sent = h THEN 1 ELSE 0)

\* Mutant: the deleted instance does not unbook the loop.
UnrefHandles_StillBooked(released) ==
    LET gone == {h \in Handles : released[h] > 0 /\ hRefs[h] = released[h]} IN
    /\ hRefs' = [h \in Handles |-> hRefs[h] - released[h]]
    /\ handle' = [h \in Handles |-> IF h \in gone THEN "closing" ELSE handle[h]]
    /\ UNCHANGED <<loop, loopRefs>>

\* instance::unref() of each h, released[h] times: the last reference closes
\* the handle, unless it has never been initialized, and deletes its instance
\* at once; libuv finishes closing it later.  The deleted instance unbooks
\* the loop.
UnrefHandles(released) ==
    LET gone == {h \in Handles : released[h] > 0 /\ hRefs[h] = released[h]}
        booked == {h \in gone : handle[h] = "open"}
        handles == [h \in Handles |-> IF h \in booked THEN "closing"
                                      ELSE IF h \in gone THEN "closed"
                                      ELSE handle[h]]
    IN  /\ hRefs' = [h \in Handles |-> hRefs[h] - released[h]]
        /\ handle' = handles
        /\ UnrefLoop(Cardinality(booked), handles)

DropHandle(h) ==
    /\ UserCode
    /\ hVar[h]
    /\ hVar' = [hVar EXCEPT ![h] = FALSE]
    /\ UnrefHandles([g \in Handles |-> IF g = h THEN 1 ELSE 0])
    /\ UNCHANGED <<loopVars, running, requestState, bufferState, cb>>

\* walk(): the callback gets a reference to each handle on the loop, and may
\* keep it where the user code had none.  A handle that libuv is still
\* closing has no instance any more: the user does not walk over one.
Walk(h) ==
    /\ UserCode
    /\ loopVars > 0
    /\ \A g \in Handles : handle[g] # "closing"
    /\ handle[h] = "open"
    /\ ~hVar[h]
    /\ hVar' = [hVar EXCEPT ![h] = TRUE]
    /\ hRefs' = [hRefs EXCEPT ![h] = @ + 1]
    /\ UNCHANGED <<loopState, running, handle, requestState, bufferState, cb>>

\* libuv takes a closed handle off the loop.
FinishClose(h) ==
    /\ Processing
    /\ handle[h] = "closing"
    /\ handle' = [handle EXCEPT ![h] = "closed"]
    /\ UNCHANGED <<loopState, running, hRefs, hVar, requestState, bufferState, cb>>

-----------------------------------------------------------------------------
(* Requests.                                                               *)

DropRequest(r) ==
    /\ UserCode
    /\ rVar[r]
    /\ rVar' = [rVar EXCEPT ![r] = FALSE]
    /\ rRefs' = [rRefs EXCEPT ![r] = @ - 1]
    /\ UNCHANGED <<loopState, running, handleState, class, pending, target, sent,
                   bufferState, cb>>

DropBuffer ==
    /\ UserCode
    /\ bVar
    /\ bVar' = FALSE
    /\ bRefs' = bRefs - 1
    /\ UNCHANGED <<loopState, running, handleState, requestState, cb>>

\* The user code may run r, also again in its own callback, on a handle that
\* it has a variable of, or that handle() of the request gives.
Runnable(c, r) == class[r] = c /\ (rVar[r] \/ cb.req = r) /\ ~pending[r]

Usable(h) == (hVar[h] \/ Guarded(h) > 0) /\ handle[h] = "open"

\* Mutant: run() does not reference the handle.
RunOnHandle_NoRef(c, r, h, s) ==
    /\ UserCode
    /\ Runnable(c, r)
    /\ Usable(h)
    /\ s # NoHandle => Usable(s)
    /\ rRefs' = [rRefs EXCEPT ![r] = @ + 1]
    /\ IF c \in WithBuffer THEN bVar /\ bRefs' = bRefs + 1 ELSE UNCHANGED bRefs
    /\ pending' = [pending EXCEPT ![r] = TRUE]
    /\ target' = [target EXCEPT ![r] = h]
    /\ sent' = [sent EXCEPT ![r] = s]
    /\ UNCHANGED <<loopState, running, handle, hRefs, hVar, class, rVar, bVar, cb>>

\* run() of a request on the handle h, that sends the handle s or NoHandle.
RunOnHandle(c, r, h, s) ==
    /\ UserCode
    /\ Runnable(c, r)
    /\ Usable(h)
    /\ s # NoHandle => Usable(s)
    /\ hRefs' = [g \in Handles |-> hRefs[g] + (IF g = h THEN 1 ELSE 0)
                                            + (IF g = s THEN 1 ELSE 0)]
    /\ rRefs' = [rRefs EXCEPT ![r] = @ + 1]
    /\ IF c \in WithBuffer THEN bVar /\ bRefs' = bRefs + 1 ELSE UNCHANGED bRefs
    /\ pending' = [pending EXCEPT ![r] = TRUE]
    /\ target' = [target EXCEPT ![r] = h]
    /\ sent' = [sent EXCEPT ![r] = s]
    /\ UNCHANGED <<loopState, running, handle, hVar, class, rVar, bVar, cb>>

ConnectRun(r, h)   == RunOnHandle("connect", r, h, NoHandle)
WriteRun(r, h)     == RunOnHandle("write", r, h, NoHandle)
Write2Run(r, h, s) == h # s /\ RunOnHandle("write2", r, h, s)
ShutdownRun(r, h)  == RunOnHandle("shutdown", r, h, NoHandle)
UdpSendRun(r, h)   == RunOnHandle("udp_send", r, h, NoHandle)

\* run() of a request on the loop references the request only.
RunOnLoop(c, r) ==
    /\ UserCode
    /\ Runnable(c, r)
    /\ loopVars > 0
    /\ rRefs' = [rRefs EXCEPT ![r] = @ + 1]
    /\ pending' = [pending EXCEPT ![r] = TRUE]
    /\ UNCHANGED <<loopState, running, handleState, class, rVar, target, sent,
                   bufferState, cb>>

WorkRun(r)        == RunOnLoop("work", r)
GetAddrInfoRun(r) == RunOnLoop("getaddrinfo", r)
GetNameInfoRun(r) == RunOnLoop("getnameinfo", r)

\* libuv calls back: the guards adopt the references of run(), and the user
\* callback gets a variable of the request, which it may run again.
Called(c, r) ==
    /\ Processing
    /\ class[r] = c /\ pending[r]
    /\ pending' = [pending EXCEPT ![r] = FALSE]
    /\ rRefs' = [rRefs EXCEPT ![r] = @ + 1]
    /\ cb' = [req |-> r, target |-> target[r], sent |-> sent[r]]
    /\ target' = [target EXCEPT ![r] = NoHandle]
    /\ sent' = [sent EXCEPT ![r] = NoHandle]
    /\ UNCHANGED <<loopState, running, handleState, class, rVar, bufferState>>

ConnectCb(r)     == Called("connect", r)
WriteCb(r)       == Called("write", r)
Write2Cb(r)      == Called("write2", r)
ShutdownCb(r)    == Called("shutdown", r)
UdpSendCb(r)     == Called("udp_send", r)
WorkCb(r)        == Called("work", r)
GetAddrInfoCb(r) == Called("getaddrinfo", r)
GetNameInfoCb(r) == Called("getnameinfo", r)

\* The callback returns: the parameter and the buffer go, then the guards of
\* the request, of its handle and of the handle sent.
Return ==
    /\ InCallback
    /\ rRefs' = [rRefs EXCEPT ![cb.req] = @ - 2]
    /\ bRefs' = IF class[cb.req] \in WithBuffer THEN bRefs - 1 ELSE bRefs
    /\ UnrefHandles([h \in Handles |-> Guarded(h)])
    /\ cb' = NoCallback
    /\ UNCHANGED <<loopVars, running, hVar, class, pending, rVar, target, sent, bVar>>

-----------------------------------------------------------------------------
LoopAction == CopyLoop \/ DropLoop \/ Run \/ RunReturns \/ FinishDestroy

HandleAction(h) == CreateHandle(h) \/ DropHandle(h) \/ Walk(h) \/ FinishClose(h)

RequestRun(r) ==
    \/ \E h \in Handles :
          ConnectRun(r, h) \/ WriteRun(r, h) \/ ShutdownRun(r, h) \/ UdpSendRun(r, h)
    \/ \E h, s \in Handles : Write2Run(r, h, s)
    \/ WorkRun(r) \/ GetAddrInfoRun(r) \/ GetNameInfoRun(r)

RequestCb(r) ==
    \/ ConnectCb(r) \/ WriteCb(r) \/ Write2Cb(r) \/ ShutdownCb(r) \/ UdpSendCb(r)
    \/ WorkCb(r) \/ GetAddrInfoCb(r) \/ GetNameInfoCb(r)

Next ==
    \/ LoopAction
    \/ \E h \in Handles : HandleAction(h)
    \/ \E r \in Requests : RequestRun(r) \/ RequestCb(r) \/ DropRequest(r)
    \/ Return
    \/ DropBuffer

Spec == Init /\ [][Next]_vars

\* In a run of the loop libuv completes requests and closings, callbacks
\* return, and the destructor goes on.
Fairness ==
    /\ WF_vars(FinishDestroy)
    /\ WF_vars(Return)
    /\ \A h \in Handles : WF_vars(FinishClose(h))
    /\ \A r \in Requests : WF_vars(RequestCb(r))

FairSpec == Spec /\ Fairness

-----------------------------------------------------------------------------
Pending == {r \in Requests : pending[r]}
Booked == {h \in Handles : handle[h] = "open"}

Bit(b) == IF b THEN 1 ELSE 0

\* ref()/unref() of loops, handles, requests and buffers: each counter is
\* the number of variables, bookings, pending requests, guards and callback
\* parameters there are, so that nothing is leaked or released twice, also
\* when a request is run again in its own callback.
ReferencesAccounted ==
    /\ loopRefs = loopVars + Cardinality(Booked)
    /\ \A h \in Handles : hRefs[h] = Bit(hVar[h]) + Uses(h) + Guarded(h)
    /\ \A r \in Requests :
          rRefs[r] = Bit(rVar[r]) + Bit(pending[r]) + 2 * Bit(cb.req = r)
    /\ bRefs = Bit(bVar) + Cardinality({r \in Pending : class[r] \in WithBuffer})
                 + Bit(InCallback /\ class[cb.req] \in WithBuffer)

\* loop::~instance(): "due to loop booking all the uvcc-managed handles are
\* closed before the loop which they are associated with", so that the
\* logic_error is never thrown.
NoOpenHandleAtDestroy == loop # "alive" => Booked = {}

\* connect, write, shutdown, udp_send: as long as libuv has such a request,
\* or calls it back, its handles are open and their loop is alive.
HandleRequestsKeepLoop ==
    \A h \in Handles :
        Uses(h) + Guarded(h) > 0 => loop = "alive" /\ loopRefs > 0 /\ handle[h] = "open"

\* loop::~instance(): the memory of the loop is given back only when libuv
\* has no closing handle and no request of it left, and nothing runs it.
NothingLeftAtFree ==
    loop = "freed" => ~running /\ ~Unfinished(handle)

\* loop::unref(): a loop that nothing refers to goes, whatever requests and
\* closing handles it still had.
LoopReclaimed == loopRefs = 0 ~> loop = "freed"

\* work::loop(), getaddrinfo::loop(), getnameinfo::loop(): "It is guaranteed
\* that it will be a valid instance at least within the request callback".
LoopValidInCallback == InCallback => loop = "alive" /\ loopRefs > 0
=============================================================================
