------------------------------- MODULE Async -------------------------------
(***************************************************************************)
(* The async handle (handle-misc.hpp): send() from any thread, the         *)
(* callback on the loop thread, and the references that both take.         *)
(*                                                                         *)
(* send() counts a reference and then calls uv_async_send(); the two are   *)
(* separate steps, since the callback of this or of an earlier send may    *)
(* run in between.  libuv keeps one pending flag per handle: a send that   *)
(* finds it set is coalesced with the earlier one.  Each callback adopts   *)
(* the reference of one send, so the reference of a coalesced one is never *)
(* released; "merged" counts these.                                        *)
(*                                                                         *)
(* send() with a callback assigns a std::function.  The code has no lock   *)
(* for it: assigning while another thread does, or while the loop thread   *)
(* is calling it, is a data race of the caller, and the model does not     *)
(* take such steps.                                                        *)
(***************************************************************************)
EXTENDS Naturals, FiniteSets

CONSTANTS
    Threads,      \* threads that use the handle
    Loop,         \* the one of them that runs the loop
    Slots,        \* variables that a thread can have
    MaxMerged     \* bound on the sends that are in progress or were coalesced

ASSUME AsyncAssumption ==
    /\ IsFiniteSet(Threads)
    /\ Loop \in Threads
    /\ IsFiniteSet(Slots)
    /\ Slots # {}
    /\ MaxMerged \in Nat \ {0}

VARIABLES
    life,     \* "none", "failed" (uv_async_init refused), "open" or "closed"
    refs,     \* the reference counter of the instance
    held,     \* <<t, s>>: variable s of thread t refers to the handle
    sending,  \* threads inside send(), between ref() and uv_async_send()
    pending,  \* the pending flag of libuv
    cb,       \* a callback has been assigned
    dispatch, \* where async_cb() is: "none", "entered", "user", "leaving"
    merged,   \* number of sends that libuv has coalesced (history)
    unseen    \* threads whose send no callback has followed yet (history)

vars == <<life, refs, held, sending, pending, cb, dispatch, merged, unseen>>

TypeOK ==
    /\ life \in {"none", "failed", "open", "closed"}
    /\ refs \in Nat
    /\ held \subseteq Threads \X Slots
    /\ sending \subseteq Threads
    /\ pending \in BOOLEAN
    /\ cb \in BOOLEAN
    /\ dispatch \in {"none", "entered", "user", "leaving"}
    /\ merged \in 0 .. MaxMerged
    /\ unseen \subseteq Threads

Init ==
    /\ life = "none"
    /\ refs = 0
    /\ held = {}
    /\ sending = {}
    /\ pending = FALSE
    /\ cb = FALSE
    /\ dispatch = "none"
    /\ merged = 0
    /\ unseen = {}

-----------------------------------------------------------------------------
\* User code of thread t can run: it is not inside send() and, for the loop
\* thread, not in the part of async_cb() around the user callback.
Runs(t) ==
    /\ t \notin sending
    /\ t = Loop => dispatch \in {"none", "user"}

\* A thread can use the handle through a variable of its own or, in the
\* callback, through its parameter.
HasHandle(t) ==
    \/ \E s \in Slots : <<t, s>> \in held
    \/ t = Loop /\ dispatch = "user"

\* Mutant: the counter of the new instance is zero.
Create_Uncounted(s, ok) ==
    /\ life = "none"
    /\ life' = IF ok THEN "open" ELSE "failed"
    /\ refs' = 0
    /\ held' = {<<Loop, s>>}
    /\ UNCHANGED <<sending, pending, cb, dispatch, merged, unseen>>

\* async(loop): uv_async_init() succeeds or not; the instance exists anyway.
Create(s, ok) ==
    /\ life = "none"
    /\ life' = IF ok THEN "open" ELSE "failed"
    /\ refs' = 1
    /\ held' = {<<Loop, s>>}
    /\ UNCHANGED <<sending, pending, cb, dispatch, merged, unseen>>

\* Thread t copies a variable, of its own or of another thread, or the
\* parameter of the callback.
Copy(t, s) ==
    /\ <<t, s>> \notin held
    /\ Runs(t)
    /\ \E u \in Threads : HasHandle(u)
    /\ held' = held \union {<<t, s>>}
    /\ refs' = refs + 1
    /\ UNCHANGED <<life, sending, pending, cb, dispatch, merged, unseen>>

\* unref(): the counter goes down; the last reference closes the handle.
Unref ==
    /\ refs' = refs - 1
    /\ life' = IF refs' = 0 THEN "closed" ELSE life

Drop(t, s) ==
    /\ <<t, s>> \in held
    /\ Runs(t)
    /\ held' = held \ {<<t, s>>}
    /\ Unref
    /\ UNCHANGED <<sending, pending, cb, dispatch, merged, unseen>>

\* Bound: a send begins only if it may still be coalesced.
SendBound == Cardinality(sending) + merged < MaxMerged

\* Mutant: the reference is not taken before the event is sent.
SendBegin_NoReference(t) ==
    /\ HasHandle(t)
    /\ Runs(t)
    /\ SendBound
    /\ sending' = sending \union {t}
    /\ UNCHANGED <<life, refs, held, pending, cb, dispatch, merged, unseen>>

\* send(): up to the reference.
SendBegin(t) ==
    /\ HasHandle(t)
    /\ Runs(t)
    /\ SendBound
    /\ sending' = sending \union {t}
    /\ refs' = refs + 1
    /\ UNCHANGED <<life, held, pending, cb, dispatch, merged, unseen>>

\* send(_cb, _args...): the assignment, and send().
SendCallbackBegin(t) ==
    /\ HasHandle(t)
    /\ Runs(t)
    /\ SendBound
    /\ dispatch = "none"
    /\ sending' = sending \union {t}
    /\ refs' = refs + 1
    /\ cb' = TRUE
    /\ UNCHANGED <<life, held, pending, dispatch, merged, unseen>>

\* send(): uv_async_send() raises the flag or finds it raised.
SendAccepted(t) ==
    /\ t \in sending
    /\ life = "open"
    /\ sending' = sending \ {t}
    /\ pending' = TRUE
    /\ merged' = IF pending THEN merged + 1 ELSE merged
    /\ unseen' = unseen \union {t}
    /\ UNCHANGED <<life, refs, held, cb, dispatch>>

\* send(): uv_async_send() refuses a handle that has not been initialised.
SendRefused(t) ==
    /\ t \in sending
    /\ life = "failed"
    /\ sending' = sending \ {t}
    /\ Unref
    /\ UNCHANGED <<held, pending, cb, dispatch, merged, unseen>>

\* libuv lowers the flag and calls async_cb(), which adopts the reference
\* of the send.  A handle that is being closed gets no callback.
Dispatch ==
    /\ Runs(Loop)
    /\ dispatch = "none"
    /\ pending
    /\ life = "open"
    /\ pending' = FALSE
    /\ dispatch' = "entered"
    /\ unseen' = {}
    /\ UNCHANGED <<life, refs, held, sending, cb, merged>>

\* async_cb(): the user callback gets a variable, if there is a callback.
CallUser ==
    /\ dispatch = "entered"
    /\ dispatch' = IF cb THEN "user" ELSE "leaving"
    /\ refs' = IF cb THEN refs + 1 ELSE refs
    /\ UNCHANGED <<life, held, sending, pending, cb, merged, unseen>>

\* async_cb(): the user callback returns and its parameter goes.
UserReturns ==
    /\ Runs(Loop)
    /\ dispatch = "user"
    /\ dispatch' = "leaving"
    /\ Unref
    /\ UNCHANGED <<held, sending, pending, cb, merged, unseen>>

\* Mutant: async_cb() has no guard that adopts the reference.
Leave_NoGuard ==
    /\ dispatch = "leaving"
    /\ dispatch' = "none"
    /\ UNCHANGED <<life, refs, held, sending, pending, cb, merged, unseen>>

\* async_cb(): the guard releases the reference of the send.
Leave ==
    /\ dispatch = "leaving"
    /\ dispatch' = "none"
    /\ Unref
    /\ UNCHANGED <<held, sending, pending, cb, merged, unseen>>

Next ==
    \/ \E s \in Slots, ok \in BOOLEAN : Create(s, ok)
    \/ \E t \in Threads :
        \/ \E s \in Slots : Copy(t, s) \/ Drop(t, s)
        \/ SendBegin(t) \/ SendCallbackBegin(t)
        \/ SendAccepted(t) \/ SendRefused(t)
    \/ Dispatch \/ CallUser \/ UserReturns \/ Leave

Spec == Init /\ [][Next]_vars

\* A thread inside send() goes on, user callbacks return, and the loop
\* thread comes back to uv_run() again and again, whatever its own code
\* does in between.
FairSpec ==
    /\ Spec
    /\ \A t \in Threads : WF_vars(SendAccepted(t) \/ SendRefused(t))
    /\ WF_vars(CallUser \/ UserReturns \/ Leave)
    /\ SF_vars(Dispatch)

-----------------------------------------------------------------------------
One(b) == IF b THEN 1 ELSE 0

\* async::send(), async_cb(): the counter is the number of variables, of
\* sends in progress, of the wake-up that libuv has still to deliver, of
\* what the callback holds, and of the coalesced sends, whose references
\* nobody will release; and the handle is closed exactly when it is zero.
ReferencesAccounted ==
    /\ refs = Cardinality(held)
              + Cardinality(sending) + One(pending) + merged
              + One(dispatch # "none") + One(dispatch = "user")
    /\ life \in {"open", "failed"} <=> refs > 0

\* async::send(): "the reference must be added before async event sending":
\* the handle is open as long as a thread is sending, libuv has a wake-up
\* to deliver or the callback is running, whoever drops the last variable.
WakeupKeepsHandle ==
    /\ pending \/ unseen # {} \/ dispatch # "none" => life = "open"
    /\ sending # {} => life \in {"open", "failed"}

\* async::send(): a send that has returned success is followed by a start
\* of the callback, also when it was coalesced, when other threads keep
\* sending, and when every variable has been dropped meanwhile.
SendAnswered ==
    \A t \in Threads : t \in unseen ~> t \notin unseen
=============================================================================
