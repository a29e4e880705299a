--------------------------- MODULE Watcher_proofs ---------------------------
(***************************************************************************)
(* Proofs about Watcher, for any classes of handle, any repeat intervals   *)
(* and any number of handle variables: the extra reference of start() is   *)
(* accounted for, provided that a timer is not used after it has expired,  *)
(* and nothing happens to a handle whose last reference has gone.          *)
(***************************************************************************)
EXTENDS Watcher, TLAPS

\* What the user code has to keep to: a timer that has expired is neither
\* started nor stopped again.  Nothing is asked of the other classes.
Discipline == "timer" \in Classes => ~Reuse

\* Which class uses which part of the state, and what libuv's watching for a
\* handle tells of it.
StateInv ==
    /\ class = "timer" => opcmd = "UNKNOWN" /\ (active => extra)
    /\ class # "timer" => extra = FALSE
    /\ active => refs > 0
    /\ opcmd \in Started => active

Inv == TypeOK /\ StateInv /\ ReferencesAccounted

-----------------------------------------------------------------------------
\* The constructor of a handle class establishes the invariant.
LEMMA InitInv == Init => Inv
<1> SUFFICES ASSUME Init PROVE Inv
  OBVIOUS
<1>1. TypeOK
  <2>1. nvars \in 0..MaxVars
    BY WatcherAssumption DEF Init
  <2>2. refs \in Nat
    BY DEF Init
  <2> QED
    BY <2>1, <2>2 DEF Init, TypeOK, Started
<1>2. StateInv /\ ReferencesAccounted
  BY DEF Init, StateInv, ReferencesAccounted, CallbackRefs, IsStarted, Started
<1> QED
  BY <1>1, <1>2 DEF Inv

\* start(), whatever came before it and whether or not libuv fails.
LEMMA StartInv ==
    ASSUME Inv, class # "timer", NEW c \in Started, NEW mayFail \in BOOLEAN, Start(c, mayFail)
    PROVE  Inv'
<1>1. refs' \in Nat /\ nvars' \in 0..MaxVars
  BY WatcherAssumption DEF Start, Inv, TypeOK,
     StateInv, ReferencesAccounted, CallbackRefs, IsStarted, Started
<1>2. TypeOK'
  BY <1>1, Zenon DEF Start, Inv, TypeOK, Started
<1>3. ReferencesAccounted'
  BY DEF Start, Inv, TypeOK,
     StateInv, ReferencesAccounted, CallbackRefs, IsStarted, Started
<1>4. StateInv'
  BY <1>1, <1>3 DEF Start, Inv, TypeOK,
     StateInv, ReferencesAccounted, CallbackRefs, IsStarted, Started
<1> QED
  BY <1>2, <1>3, <1>4 DEF Inv

\* stop(), whether or not the handle was started.
LEMMA StopInv ==
    ASSUME Inv, class # "timer", Stop
    PROVE  Inv'
<1>1. refs' \in Nat /\ nvars' \in 0..MaxVars
  BY WatcherAssumption DEF Stop, Inv, TypeOK,
     StateInv, ReferencesAccounted, CallbackRefs, IsStarted, Started
<1>2. TypeOK'
  BY <1>1, Zenon DEF Stop, Inv, TypeOK, Started
<1>3. ReferencesAccounted'
  BY DEF Stop, Inv, TypeOK,
     StateInv, ReferencesAccounted, CallbackRefs, IsStarted, Started
<1>4. StateInv'
  BY <1>1, <1>3 DEF Stop, Inv, TypeOK,
     StateInv, ReferencesAccounted, CallbackRefs, IsStarted, Started
<1> QED
  BY <1>2, <1>3, <1>4 DEF Inv

\* The callback of a class gets a reference in its parameter.
LEMMA FireInv ==
    ASSUME Inv, Fire
    PROVE  Inv'
<1>1. refs' \in Nat /\ nvars' \in 0..MaxVars
  BY WatcherAssumption DEF Fire, Inv, TypeOK,
     StateInv, ReferencesAccounted, CallbackRefs, IsStarted, Started
<1>2. TypeOK'
  BY <1>1, Zenon DEF Fire, Inv, TypeOK, Started
<1>3. ReferencesAccounted'
  BY DEF Fire, Inv, TypeOK,
     StateInv, ReferencesAccounted, CallbackRefs, IsStarted, Started
<1>4. StateInv'
  BY <1>1, <1>3 DEF Fire, Inv, TypeOK,
     StateInv, ReferencesAccounted, CallbackRefs, IsStarted, Started
<1> QED
  BY <1>2, <1>3, <1>4 DEF Inv

\* signal_cb() of a one-shot start hands the reference to its guard.
LEMMA SignalCbOneShotInv ==
    ASSUME Inv, SignalCbOneShot
    PROVE  Inv'
<1>1. refs' \in Nat /\ nvars' \in 0..MaxVars
  BY WatcherAssumption DEF SignalCbOneShot, Inv, TypeOK,
     StateInv, ReferencesAccounted, CallbackRefs, IsStarted, Started
<1>2. TypeOK'
  BY <1>1, Zenon DEF SignalCbOneShot, Inv, TypeOK, Started
<1>3. ReferencesAccounted'
  BY DEF SignalCbOneShot, Inv, TypeOK,
     StateInv, ReferencesAccounted, CallbackRefs, IsStarted, Started
<1>4. StateInv'
  BY <1>1, <1>3 DEF SignalCbOneShot, Inv, TypeOK,
     StateInv, ReferencesAccounted, CallbackRefs, IsStarted, Started
<1> QED
  BY <1>2, <1>3, <1>4 DEF Inv

\* The timer, as long as it is left alone after it has expired.
LEMMA TimerStartInv ==
    ASSUME Inv, Discipline, TimerStart
    PROVE  Inv'
<1>0. ~Reuse
  BY DEF Discipline, TimerStart, Inv, TypeOK
<1>1. refs' \in Nat /\ nvars' \in 0..MaxVars
  BY <1>0, WatcherAssumption DEF TimerStart, Expired, Inv, TypeOK,
     StateInv, ReferencesAccounted, CallbackRefs, IsStarted, Started
<1>2. TypeOK'
  BY <1>1, Zenon DEF TimerStart, Expired, Inv, TypeOK, Started
<1>3. ReferencesAccounted'
  BY <1>0 DEF TimerStart, Expired, Inv, TypeOK,
     StateInv, ReferencesAccounted, CallbackRefs, IsStarted, Started
<1>4. StateInv'
  BY <1>0, <1>1, <1>3 DEF TimerStart, Expired, Inv, TypeOK,
     StateInv, ReferencesAccounted, CallbackRefs, IsStarted, Started
<1> QED
  BY <1>2, <1>3, <1>4 DEF Inv

\* timer::stop() of a timer that has not expired.
LEMMA TimerStopInv ==
    ASSUME Inv, Discipline, TimerStop
    PROVE  Inv'
<1>0. ~Reuse
  BY DEF Discipline, TimerStop, Inv, TypeOK
<1>1. refs' \in Nat /\ nvars' \in 0..MaxVars
  BY <1>0, WatcherAssumption DEF TimerStop, Expired, Inv, TypeOK,
     StateInv, ReferencesAccounted, CallbackRefs, IsStarted, Started
<1>2. TypeOK'
  BY <1>1, Zenon DEF TimerStop, Expired, Inv, TypeOK, Started
<1>3. ReferencesAccounted'
  BY <1>0 DEF TimerStop, Expired, Inv, TypeOK,
     StateInv, ReferencesAccounted, CallbackRefs, IsStarted, Started
<1>4. StateInv'
  BY <1>0, <1>1, <1>3 DEF TimerStop, Expired, Inv, TypeOK,
     StateInv, ReferencesAccounted, CallbackRefs, IsStarted, Started
<1> QED
  BY <1>2, <1>3, <1>4 DEF Inv

\* timer_cb() of a non-repeating timer hands the reference to its guard.
LEMMA TimerCbLastInv ==
    ASSUME Inv, TimerCbLast
    PROVE  Inv'
<1>1. refs' \in Nat /\ nvars' \in 0..MaxVars
  BY WatcherAssumption DEF TimerCbLast, Inv, TypeOK,
     StateInv, ReferencesAccounted, CallbackRefs, IsStarted, Started
<1>2. TypeOK'
  BY <1>1, Zenon DEF TimerCbLast, Inv, TypeOK, Started
<1>3. ReferencesAccounted'
  BY DEF TimerCbLast, Inv, TypeOK,
     StateInv, ReferencesAccounted, CallbackRefs, IsStarted, Started
<1>4. StateInv'
  BY <1>1, <1>3 DEF TimerCbLast, Inv, TypeOK,
     StateInv, ReferencesAccounted, CallbackRefs, IsStarted, Started
<1> QED
  BY <1>2, <1>3, <1>4 DEF Inv

\* repeat_interval() changes no reference.
LEMMA SetRepeatInv ==
    ASSUME Inv, NEW r \in Repeats, SetRepeat(r)
    PROVE  Inv'
<1>1. refs' \in Nat /\ nvars' \in 0..MaxVars
  BY WatcherAssumption DEF SetRepeat, Inv, TypeOK,
     StateInv, ReferencesAccounted, CallbackRefs, IsStarted, Started
<1>2. TypeOK'
  BY <1>1, Zenon DEF SetRepeat, Inv, TypeOK, Started
<1>3. ReferencesAccounted'
  BY DEF SetRepeat, Inv, TypeOK,
     StateInv, ReferencesAccounted, CallbackRefs, IsStarted, Started
<1>4. StateInv'
  BY <1>1, <1>3 DEF SetRepeat, Inv, TypeOK,
     StateInv, ReferencesAccounted, CallbackRefs, IsStarted, Started
<1> QED
  BY <1>2, <1>3, <1>4 DEF Inv

\* Variables and callback parameters come and go.
LEMMA ReturnInv ==
    ASSUME Inv, Return
    PROVE  Inv'
<1>1. refs' \in Nat /\ nvars' \in 0..MaxVars
  BY WatcherAssumption DEF Return, Release, Inv, TypeOK,
     StateInv, ReferencesAccounted, CallbackRefs, IsStarted, Started
<1>2. TypeOK'
  BY <1>1, Zenon DEF Return, Release, Inv, TypeOK, Started
<1>3. ReferencesAccounted'
  BY DEF Return, Release, Inv, TypeOK,
     StateInv, ReferencesAccounted, CallbackRefs, IsStarted, Started
<1>4. StateInv'
  BY <1>1, <1>3 DEF Return, Release, Inv, TypeOK,
     StateInv, ReferencesAccounted, CallbackRefs, IsStarted, Started
<1> QED
  BY <1>2, <1>3, <1>4 DEF Inv

\* A copied variable is counted.
LEMMA CopyVariableInv ==
    ASSUME Inv, CopyVariable
    PROVE  Inv'
<1>1. refs' \in Nat /\ nvars' \in 0..MaxVars
  BY WatcherAssumption DEF CopyVariable, Inv, TypeOK,
     StateInv, ReferencesAccounted, CallbackRefs, IsStarted, Started
<1>2. TypeOK'
  BY <1>1, Zenon DEF CopyVariable, Inv, TypeOK, Started
<1>3. ReferencesAccounted'
  BY DEF CopyVariable, Inv, TypeOK,
     StateInv, ReferencesAccounted, CallbackRefs, IsStarted, Started
<1>4. StateInv'
  BY <1>1, <1>3 DEF CopyVariable, Inv, TypeOK,
     StateInv, ReferencesAccounted, CallbackRefs, IsStarted, Started
<1> QED
  BY <1>2, <1>3, <1>4 DEF Inv

\* A dropped variable is discounted, and the last one closes the handle.
LEMMA DropVariableInv ==
    ASSUME Inv, DropVariable
    PROVE  Inv'
<1>1. refs' \in Nat /\ nvars' \in 0..MaxVars
  BY WatcherAssumption DEF DropVariable, Release, Inv, TypeOK,
     StateInv, ReferencesAccounted, CallbackRefs, IsStarted, Started
<1>2. TypeOK'
  BY <1>1, Zenon DEF DropVariable, Release, Inv, TypeOK, Started
<1>3. ReferencesAccounted'
  BY DEF DropVariable, Release, Inv, TypeOK,
     StateInv, ReferencesAccounted, CallbackRefs, IsStarted, Started
<1>4. StateInv'
  BY <1>1, <1>3 DEF DropVariable, Release, Inv, TypeOK,
     StateInv, ReferencesAccounted, CallbackRefs, IsStarted, Started
<1> QED
  BY <1>2, <1>3, <1>4 DEF Inv

\* Every operation of every class preserves the invariant.
LEMMA NextInv == Discipline /\ Inv /\ [Next]_vars => Inv'
<1> SUFFICES ASSUME Discipline, Inv, [Next]_vars PROVE Inv'
  OBVIOUS
<1>1. CASE IdleStart \/ PrepareStart \/ CheckStart \/ PollStart
  <2>1. (~active) \in BOOLEAN
    BY DEF Inv, TypeOK
  <2> QED
    BY <1>1, <2>1, StartInv DEF IdleStart, PrepareStart, CheckStart, PollStart, Started
<1>2. CASE FsEventStart \/ SignalStart \/ SignalStartOneShot
  BY <1>2, StartInv DEF FsEventStart, SignalStart, SignalStartOneShot, Started
<1>3. CASE IdleStop \/ PrepareStop \/ CheckStop \/ PollStop \/ FsEventStop \/ SignalStop
  BY <1>3, StopInv DEF IdleStop, PrepareStop, CheckStop, PollStop, FsEventStop, SignalStop
<1>4. CASE IdleCb \/ PrepareCb \/ CheckCb \/ PollCb \/ FsEventCb \/ SignalCb \/ TimerCb
  BY <1>4, FireInv DEF IdleCb, PrepareCb, CheckCb, PollCb, FsEventCb, SignalCb, TimerCb
<1>5. CASE SignalCbOneShot
  BY <1>5, SignalCbOneShotInv
<1>6. CASE TimerStart \/ TimerStop \/ TimerCbLast
  BY <1>6, TimerStartInv, TimerStopInv, TimerCbLastInv
<1>7. CASE \E r \in Repeats : SetRepeat(r)
  BY <1>7, SetRepeatInv
<1>8. CASE Return \/ CopyVariable \/ DropVariable
  BY <1>8, ReturnInv, CopyVariableInv, DropVariableInv
<1>9. CASE UNCHANGED vars
  BY <1>9 DEF vars, Inv, TypeOK, StateInv, ReferencesAccounted, CallbackRefs, IsStarted
<1> QED
  BY <1>1, <1>2, <1>3, <1>4, <1>5, <1>6, <1>7, <1>8, <1>9 DEF Next

-----------------------------------------------------------------------------
\* start()/stop() and the callbacks of every class: the inductive invariant
\* holds in every reachable state.
THEOREM Invariance == ASSUME Discipline PROVE Spec => []Inv
<1>1. Inv /\ [Next]_vars => Inv'
  BY NextInv
<1> QED
  BY <1>1, InitInv, PTL DEF Spec

\* No sequence of starts, restarts, failures, stops and callbacks leaks the
\* reference of start() or releases it twice.
THEOREM ReferencesCorrect == ASSUME Discipline PROVE Spec => []ReferencesAccounted
<1>1. Inv => ReferencesAccounted
  BY DEF Inv
<1> QED
  BY <1>1, Invariance, PTL

\* A watched handle, a variable and a callback always find the instance, and
\* an instance without any of them is gone: nothing can be waiting for a stop
\* that nobody can call.
THEOREM WatchedExists == ASSUME Discipline PROVE Spec => []WatchedHandleExists
<1>1. Inv => WatchedHandleExists
  BY DEF Inv, StateInv, TypeOK, ReferencesAccounted, CallbackRefs, IsStarted,
     WatchedHandleExists
<1> QED
  BY <1>1, Invariance, PTL

\* The counter of the instance is a natural number and the handle never has
\* more variables than the user made.
THEOREM TypeCorrect == ASSUME Discipline PROVE Spec => []TypeOK
<1>1. Inv => TypeOK
  BY DEF Inv
<1> QED
  BY <1>1, Invariance, PTL

\* Nothing happens to a handle without references.
ClosedIsFinal == [][refs > 0]_vars

\* start(), stop(), the callbacks of every class: the last reference is the
\* last of everything; libuv does not watch for the deleted handle, and no
\* callback of it is running.
THEOREM NothingAfterClose == ASSUME Discipline PROVE Spec => ClosedIsFinal
<1>1. Inv /\ [Next]_vars => [refs > 0]_vars
  <2> SUFFICES ASSUME Inv, Next, ~(refs > 0) PROVE FALSE
    OBVIOUS
  <2>1. refs = 0 /\ nvars \in Nat
    BY DEF Inv, TypeOK
  <2>2. nvars = 0 /\ cb = "none"
    BY <2>1 DEF Inv, TypeOK, ReferencesAccounted, CallbackRefs
  <2>3. ~active
    BY <2>1 DEF Inv, StateInv
  <2>4. ~Reachable
    BY <2>2 DEF Reachable
  <2>5. \A c, f : ~Start(c, f)
    BY <2>4 DEF Start
  <2>6. ~Stop /\ ~Fire
    BY <2>3, <2>4 DEF Stop, Fire
  <2>7. ~TimerStart /\ ~TimerStop /\ ~\E r \in Repeats : SetRepeat(r)
    BY <2>4 DEF TimerStart, TimerStop, SetRepeat
  <2>8. ~SignalCbOneShot /\ ~TimerCbLast /\ ~Return /\ ~CopyVariable /\ ~DropVariable
    BY <2>2, <2>3, <2>4 DEF SignalCbOneShot, TimerCbLast, Return, CopyVariable, DropVariable
  <2> QED
    BY <2>5, <2>6, <2>7, <2>8
    DEF Next, IdleStart, PrepareStart, CheckStart, PollStart, FsEventStart, SignalStart,
        SignalStartOneShot, IdleStop, PrepareStop, CheckStop, PollStop, FsEventStop,
        SignalStop, IdleCb, PrepareCb, CheckCb, PollCb, FsEventCb, SignalCb, TimerCb
<1> QED
  BY <1>1, Invariance, PTL DEF Spec, ClosedIsFinal
=============================================================================
