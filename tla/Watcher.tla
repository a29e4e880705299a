------------------------------- MODULE Watcher -------------------------------
(***************************************************************************)
(* The handles that libuv watches for between start() and stop(): idle,    *)
(* prepare, check, poll, signal, timer (handle-misc.hpp) and fs_event      *)
(* (handle-fs.hpp), for one handle of a class chosen at the start.         *)
(*                                                                         *)
(* A started handle references itself, so that it outlives the variables   *)
(* of the user code until it is stopped.  These handles have no lock: all  *)
(* of it happens on the loop thread, in the callback or between callbacks. *)
(***************************************************************************)
EXTENDS Naturals

CONSTANTS
    Classes,   \* the classes of handle to consider
    OneShot,   \* whether signal::start_oneshot() is used (libuv >= 1.12)
    Repeats,   \* timer repeat intervals; 0 is non-repeating
    Reuse,     \* whether a timer is started or stopped after it has expired
    Failures,  \* whether the libuv start functions can fail
    MaxVars    \* bound: handle variables of the user code

ASSUME WatcherAssumption ==
    /\ Classes \subseteq {"idle", "prepare", "check", "poll", "fs_event", "signal",
                          "timer"}
    /\ OneShot \in BOOLEAN
    /\ Repeats \subseteq Nat
    /\ Reuse \in BOOLEAN
    /\ Failures \in BOOLEAN
    /\ MaxVars \in Nat \ {0}

VARIABLES
    class,   \* the class of the handle
    opcmd,   \* properties::opcmd_state; UNKNOWN for a timer
    extra,   \* timer: properties::has_extra_ref
    repeat,  \* timer: the repeat interval
    active,  \* libuv watches for the handle
    refs,    \* the reference count of the instance; 0 is deleted
    nvars,   \* handle variables of the user code
    cb       \* "none", "cb" in the user callback, "guard" in a user callback
             \* under a ref_guard that adopted the reference of start()

vars == <<class, opcmd, extra, repeat, active, refs, nvars, cb>>

Started == {"START", "START_ONESHOT"}

TypeOK ==
    /\ class \in Classes
    /\ opcmd \in {"UNKNOWN", "STOP"} \union Started
    /\ extra \in BOOLEAN
    /\ repeat \in Repeats
    /\ active \in BOOLEAN
    /\ refs \in Nat
    /\ nvars \in 0..MaxVars
    /\ cb \in {"none", "cb", "guard"}

Init ==
    /\ class \in Classes
    /\ opcmd = "UNKNOWN"
    /\ extra = FALSE
    /\ repeat \in Repeats
    /\ active = FALSE
    /\ refs = 1
    /\ nvars = 1
    /\ cb = "none"

\* The user code has a variable, or the callback its parameter.
Reachable == nvars > 0 \/ cb # "none"

-----------------------------------------------------------------------------
(* The handles with an opcmd_state.                                        *)

\* Mutant: a restart keeps the reference of the start before.
Start_Leaks(startcmd, mayFail) ==
    /\ Reachable
    /\ opcmd' = startcmd
    /\ refs' = refs + 1
    /\ active' = TRUE
    /\ UNCHANGED <<class, extra, repeat, nvars, cb>>

\* start() of every class: the new state, one reference more, one less if
\* the handle was started already, and the libuv start function; if that
\* fails the state is forgotten and the reference released.
Start(startcmd, mayFail) ==
    LET refsTaken == IF opcmd \in Started THEN refs ELSE refs + 1 IN
    /\ Reachable
    /\ \/ /\ opcmd' = startcmd
          /\ refs' = refsTaken
          /\ active' = TRUE
       \/ /\ Failures /\ mayFail
          /\ opcmd' = "UNKNOWN"
          /\ refs' = refsTaken - 1
          /\ active' = FALSE
    /\ UNCHANGED <<class, extra, repeat, nvars, cb>>

\* libuv does not fail to start an idle, prepare, check or poll handle that
\* is active.  fs_event::start() and uv_signal_start() stop an active handle
\* first, and leave it stopped if they fail.
IdleStart          == class = "idle"     /\ Start("START", ~active)
PrepareStart       == class = "prepare"  /\ Start("START", ~active)
CheckStart         == class = "check"    /\ Start("START", ~active)
PollStart          == class = "poll"     /\ Start("START", ~active)
FsEventStart       == class = "fs_event" /\ Start("START", TRUE)
SignalStart        == class = "signal"   /\ Start("START", TRUE)
SignalStartOneShot == class = "signal"   /\ OneShot /\ Start("START_ONESHOT", TRUE)

\* Mutant: a reference is released whether or not the handle was started.
Stop_AlwaysUnref ==
    /\ Reachable
    /\ opcmd' = "STOP"
    /\ active' = FALSE
    /\ refs' = refs - 1
    /\ UNCHANGED <<class, extra, repeat, nvars, cb>>

\* stop() of every class.
Stop ==
    /\ Reachable
    /\ opcmd' = "STOP"
    /\ active' = FALSE
    /\ refs' = IF opcmd \in Started THEN refs - 1 ELSE refs
    /\ UNCHANGED <<class, extra, repeat, nvars, cb>>

IdleStop    == class = "idle"     /\ Stop
PrepareStop == class = "prepare"  /\ Stop
CheckStop   == class = "check"    /\ Stop
PollStop    == class = "poll"     /\ Stop
FsEventStop == class = "fs_event" /\ Stop
SignalStop  == class = "signal"   /\ Stop

\* The callback of the class, up to the user callback: its parameter is a
\* new reference.
Fire ==
    /\ active
    /\ cb = "none"
    /\ cb' = "cb"
    /\ refs' = refs + 1
    /\ UNCHANGED <<class, opcmd, extra, repeat, active, nvars>>

IdleCb    == class = "idle"     /\ Fire
PrepareCb == class = "prepare"  /\ Fire
CheckCb   == class = "check"    /\ Fire
PollCb    == class = "poll"     /\ Fire
FsEventCb == class = "fs_event" /\ Fire

\* signal_cb() of a one-shot start: the start is over as far as uvcc is
\* concerned, and its reference goes to the ref_guard.
SignalCbOneShot ==
    /\ class = "signal"
    /\ opcmd = "START_ONESHOT"
    /\ active
    /\ cb = "none"
    /\ opcmd' = "UNKNOWN"
    /\ cb' = "guard"
    /\ refs' = refs + 1
    /\ UNCHANGED <<class, extra, repeat, active, nvars>>

SignalCb == class = "signal" /\ opcmd # "START_ONESHOT" /\ Fire

-----------------------------------------------------------------------------
(* The timer.                                                              *)

\* A non-repeating timer has fired, and timer_cb() has left has_extra_ref.
Expired == extra /\ ~active

\* timer::start(); on failure the reference, old or new, is released.
TimerStart ==
    LET refsTaken == IF extra THEN refs ELSE refs + 1 IN
    /\ class = "timer"
    /\ Reachable
    /\ Expired => Reuse
    /\ \/ /\ extra' = TRUE
          /\ refs' = refsTaken
          /\ active' = TRUE
       \/ /\ Failures /\ ~active
          /\ extra' = FALSE
          /\ refs' = refsTaken - 1
          /\ active' = FALSE
    /\ UNCHANGED <<class, opcmd, repeat, nvars, cb>>

\* timer::stop().
TimerStop ==
    /\ class = "timer"
    /\ Reachable
    /\ Expired => Reuse
    /\ active' = FALSE
    /\ extra' = FALSE
    /\ refs' = IF extra THEN refs - 1 ELSE refs
    /\ UNCHANGED <<class, opcmd, repeat, nvars, cb>>

\* repeat_interval(_value).
SetRepeat(r) ==
    /\ class = "timer"
    /\ Reachable
    /\ repeat' = r
    /\ UNCHANGED <<class, opcmd, extra, active, refs, nvars, cb>>

\* libuv re-arms a repeating timer before it calls timer_cb().
TimerCb == class = "timer" /\ repeat # 0 /\ Fire

\* Mutant: the reference of start() is not handed to a ref_guard.
TimerCbLast_NoGuard ==
    /\ class = "timer"
    /\ repeat = 0
    /\ active
    /\ cb = "none"
    /\ active' = FALSE
    /\ cb' = "cb"
    /\ refs' = refs + 1
    /\ UNCHANGED <<class, opcmd, extra, repeat, nvars>>

\* A non-repeating one is inactive by then, and the reference of start()
\* goes to the ref_guard of timer_cb(), if has_extra_ref tells there is one.
TimerCbLast ==
    /\ class = "timer"
    /\ repeat = 0
    /\ active
    /\ cb = "none"
    /\ active' = FALSE
    /\ cb' = IF extra THEN "guard" ELSE "cb"
    /\ refs' = refs + 1
    /\ UNCHANGED <<class, opcmd, extra, repeat, nvars>>

-----------------------------------------------------------------------------
\* References released, down to the last one, which closes the handle.
Release(n) ==
    /\ refs' = IF refs > n THEN refs - n ELSE 0
    /\ active' = (active /\ refs > n)

\* The user callback returns: its parameter goes, and the ref_guard.
Return ==
    /\ cb # "none"
    /\ Release(IF cb = "guard" THEN 2 ELSE 1)
    /\ cb' = "none"
    /\ UNCHANGED <<class, opcmd, extra, repeat, nvars>>

\* The user code copies a variable or the callback parameter.
CopyVariable ==
    /\ Reachable
    /\ refs > 0
    /\ nvars < MaxVars
    /\ nvars' = nvars + 1
    /\ refs' = refs + 1
    /\ UNCHANGED <<class, opcmd, extra, repeat, active, cb>>

\* ... or lets one go.
DropVariable ==
    /\ nvars > 0
    /\ nvars' = nvars - 1
    /\ Release(1)
    /\ UNCHANGED <<class, opcmd, extra, repeat, cb>>

Next ==
    \/ IdleStart \/ PrepareStart \/ CheckStart \/ PollStart \/ FsEventStart
    \/ SignalStart \/ SignalStartOneShot \/ TimerStart
    \/ IdleStop \/ PrepareStop \/ CheckStop \/ PollStop \/ FsEventStop \/ SignalStop
    \/ TimerStop
    \/ \E r \in Repeats : SetRepeat(r)
    \/ IdleCb \/ PrepareCb \/ CheckCb \/ PollCb \/ FsEventCb
    \/ SignalCb \/ SignalCbOneShot
    \/ TimerCb \/ TimerCbLast
    \/ Return
    \/ CopyVariable \/ DropVariable

Spec == Init /\ [][Next]_vars

\* The loop is being run, so that a timer that is due expires, and callbacks
\* return.  Nothing is assumed of the events the other classes wait for.
Fairness == WF_vars(TimerCb \/ TimerCbLast) /\ WF_vars(Return)

FairSpec == Spec /\ Fairness

-----------------------------------------------------------------------------
\* What the running callback owns: its parameter and the guarded reference.
CallbackRefs == IF cb = "guard" THEN 2 ELSE IF cb = "cb" THEN 1 ELSE 0

\* The handle is between a start and the stop, or the event, that ends it.
IsStarted == IF class = "timer" THEN active ELSE opcmd \in Started

\* start()/stop(): the instance is referenced by the variables, by what the
\* running callback owns, and once more exactly while it is started, so that
\* no sequence of starts, restarts, failures, stops and callbacks, issued in
\* or out of a callback, leaks a reference or releases one twice.
ReferencesAccounted ==
    refs = nvars + CallbackRefs + (IF IsStarted THEN 1 ELSE 0)

\* start(), stop(), the callbacks, ~handle(): the instance exists exactly
\* while libuv watches for it, a variable refers to it or its callback runs:
\* a watched handle is not deleted, and none is left behind unwatched.
WatchedHandleExists == refs > 0 <=> active \/ nvars > 0 \/ cb # "none"

\* timer::start(): the extra reference "is automatically released when the
\* timer stops because of being non-repeating": a non-repeating timer without
\* variables, restarted or not by its callbacks, goes, unless a callback
\* keeps a variable or makes it repeating again.
ExpiredTimerGoes ==
    (class = "timer" /\ nvars = 0 /\ repeat = 0)
        ~> (refs = 0 \/ nvars > 0 \/ repeat # 0)
=============================================================================
