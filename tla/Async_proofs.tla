---------------------------- MODULE Async_proofs ----------------------------
(***************************************************************************)
(* Proofs about Async, for any finite set of threads and of variables and  *)
(* any bound on the coalesced sends: the references of send() and of the   *)
(* callback are accounted for, a wake-up always finds the handle and is    *)
(* not lost, and the reference of a coalesced send keeps the handle for    *)
(* ever.                                                                   *)
(***************************************************************************)
EXTENDS Async, FiniteSetTheorems, TLAPS

-----------------------------------------------------------------------------
(* The inductive invariant.                                                *)

\* A handle that libuv has not initialised gets no wake-up.
FailedIdle == life = "failed" => pending = FALSE /\ dispatch = "none"

\* A send that no callback has followed yet has left the flag raised.
UnseenPending == unseen # {} => pending = TRUE

\* The sends in progress are within the bound on the coalesced ones.
SendsBounded == Cardinality(sending) + merged <= MaxMerged

Inv ==
    /\ TypeOK
    /\ ReferencesAccounted
    /\ FailedIdle
    /\ UnseenPending
    /\ SendsBounded

-----------------------------------------------------------------------------
(* Cardinalities.                                                          *)

\* Threads and variables are finitely many, so are the references they hold.
LEMMA ReferencesFinite ==
    TypeOK => /\ IsFiniteSet(held) /\ Cardinality(held) \in Nat
              /\ IsFiniteSet(sending) /\ Cardinality(sending) \in Nat
<1> SUFFICES ASSUME TypeOK
             PROVE  /\ IsFiniteSet(held) /\ Cardinality(held) \in Nat
                    /\ IsFiniteSet(sending) /\ Cardinality(sending) \in Nat
  OBVIOUS
<1>1. IsFiniteSet(Threads \X Slots)
  BY AsyncAssumption, FS_Product
<1>2. IsFiniteSet(held) /\ IsFiniteSet(sending)
  BY <1>1, AsyncAssumption, FS_Subset DEF TypeOK
<1> QED
  BY <1>2, FS_CardinalityType

\* An element more.
LEMMA CardAdd ==
    ASSUME NEW S, IsFiniteSet(S), NEW x, x \notin S
    PROVE  Cardinality(S \union {x}) = Cardinality(S) + 1
BY FS_AddElement

\* An element less.
LEMMA CardRemove ==
    ASSUME NEW S, IsFiniteSet(S), NEW x, x \in S
    PROVE  /\ Cardinality(S \ {x}) = Cardinality(S) - 1
           /\ Cardinality(S \ {x}) \in Nat
           /\ Cardinality(S) \in Nat
           /\ Cardinality(S) > 0
<1>1. IsFiniteSet(S \ {x}) /\ Cardinality(S \ {x}) = Cardinality(S) - 1
  BY FS_RemoveElement
<1>2. Cardinality(S \ {x}) \in Nat /\ Cardinality(S) \in Nat
  BY <1>1, FS_CardinalityType
<1> QED
  BY <1>1, <1>2

\* What is counted conditionally counts zero or one.
LEMMA OneType == \A b : One(b) \in 0 .. 1
BY DEF One

\* Whoever can use the handle holds a reference that is counted.
LEMMA UsersCounted ==
    ASSUME Inv, NEW t \in Threads, HasHandle(t)
    PROVE  refs > 0
<1>0. /\ Cardinality(held) \in Nat /\ Cardinality(sending) \in Nat
      /\ refs \in Nat /\ merged \in Nat
  BY ReferencesFinite, AsyncAssumption DEF Inv, TypeOK
<1>1. CASE \E s \in Slots : <<t, s>> \in held
  <2>1. PICK s \in Slots : <<t, s>> \in held
    BY <1>1
  <2>2. Cardinality(held) > 0
    BY <2>1, ReferencesFinite, CardRemove DEF Inv
  <2> QED
    BY <1>0, <2>2 DEF Inv, ReferencesAccounted, One
<1>2. CASE t = Loop /\ dispatch = "user"
  BY <1>0, <1>2 DEF Inv, ReferencesAccounted, One
<1> QED
  BY <1>1, <1>2 DEF HasHandle

-----------------------------------------------------------------------------
\* No instance, no reference, nothing in flight.
LEMMA InitInv == Init => Inv
<1> SUFFICES ASSUME Init PROVE Inv
  OBVIOUS
<1>1. Cardinality({}) = 0
  BY FS_EmptySet
<1>2. TypeOK
  <2>1. refs \in Nat /\ merged \in 0 .. MaxMerged
    BY AsyncAssumption DEF Init
  <2> QED
    BY <2>1, Zenon DEF Init, TypeOK
<1>3. ReferencesAccounted
  BY <1>1 DEF Init, ReferencesAccounted, One
<1>4. FailedIdle /\ UnseenPending
  BY DEF Init, FailedIdle, UnseenPending
<1>5. SendsBounded
  BY <1>1, AsyncAssumption DEF Init, SendsBounded
<1> QED
  BY <1>2, <1>3, <1>4, <1>5 DEF Inv

\* async(loop), also when libuv refuses.
LEMMA CreateInv ==
    ASSUME Inv, NEW s \in Slots, NEW ok \in BOOLEAN, Create(s, ok)
    PROVE  Inv'
<1>0. /\ Cardinality(held) \in Nat /\ Cardinality(sending) \in Nat
      /\ refs \in Nat /\ merged \in Nat
  BY ReferencesFinite, AsyncAssumption DEF Inv, TypeOK
<1>1. refs = 0
  BY <1>0 DEF Create, Inv, ReferencesAccounted
<1>2. /\ Cardinality(sending) = 0 /\ merged = 0
      /\ One(pending) = 0 /\ One(dispatch # "none") = 0 /\ One(dispatch = "user") = 0
  <2>1. One(pending) \in 0 .. 1 /\ One(dispatch # "none") \in 0 .. 1
            /\ One(dispatch = "user") \in 0 .. 1
    BY OneType
  <2>2. 0 = Cardinality(held) + Cardinality(sending) + One(pending) + merged
            + One(dispatch # "none") + One(dispatch = "user")
    BY <1>1 DEF Inv, ReferencesAccounted
  <2> QED
    BY <1>0, <2>1, <2>2
<1>3. pending = FALSE /\ dispatch = "none"
  BY <1>2 DEF One, Inv, TypeOK
<1>4. Cardinality({<<Loop, s>>}) = 1
  BY FS_Singleton
<1>5. <<Loop, s>> \in Threads \X Slots
  BY AsyncAssumption
<1>6. TypeOK'
  BY <1>5 DEF Create, Inv, TypeOK
<1>7. ReferencesAccounted'
  BY <1>2, <1>4 DEF Create, ReferencesAccounted
<1>8. FailedIdle' /\ UnseenPending' /\ SendsBounded'
  BY <1>3 DEF Create, Inv, FailedIdle, UnseenPending, SendsBounded
<1> QED
  BY <1>6, <1>7, <1>8 DEF Inv

\* A copy of a variable.
LEMMA CopyInv ==
    ASSUME Inv, NEW t \in Threads, NEW s \in Slots, Copy(t, s)
    PROVE  Inv'
<1>0. /\ Cardinality(held) \in Nat /\ Cardinality(sending) \in Nat
      /\ refs \in Nat /\ merged \in Nat
  BY ReferencesFinite, AsyncAssumption DEF Inv, TypeOK
<1>1. refs > 0
  BY UsersCounted DEF Copy
<1>2. Cardinality(held') = Cardinality(held) + 1
  BY ReferencesFinite, CardAdd DEF Copy, Inv
<1>3. TypeOK'
  BY DEF Copy, Inv, TypeOK
<1>4. ReferencesAccounted'
  BY <1>0, <1>1, <1>2 DEF Copy, Inv, ReferencesAccounted, One
<1>5. FailedIdle' /\ UnseenPending' /\ SendsBounded'
  BY DEF Copy, Inv, FailedIdle, UnseenPending, SendsBounded
<1> QED
  BY <1>3, <1>4, <1>5 DEF Inv

\* The end of a variable.
LEMMA DropInv ==
    ASSUME Inv, NEW t \in Threads, NEW s \in Slots, Drop(t, s)
    PROVE  Inv'
<1>0. /\ Cardinality(held) \in Nat /\ Cardinality(sending) \in Nat
      /\ refs \in Nat /\ merged \in Nat
  BY ReferencesFinite, AsyncAssumption DEF Inv, TypeOK
<1>1. Cardinality(held') = Cardinality(held) - 1 /\ Cardinality(held') \in Nat
  BY ReferencesFinite, CardRemove DEF Drop, Inv
<1>2. refs' \in Nat
  BY <1>0, <1>1 DEF Drop, Unref, Inv, ReferencesAccounted, One
<1>3. TypeOK'
  BY <1>2, Zenon DEF Drop, Unref, Inv, TypeOK
<1>4. ReferencesAccounted'
  BY <1>0, <1>1, <1>2 DEF Drop, Unref, Inv, ReferencesAccounted, One
<1>5. FailedIdle' /\ UnseenPending' /\ SendsBounded'
  BY DEF Drop, Unref, Inv, FailedIdle, UnseenPending, SendsBounded
<1> QED
  BY <1>3, <1>4, <1>5 DEF Inv

\* send(), up to the reference.
LEMMA SendBeginInv ==
    ASSUME Inv, NEW t \in Threads, SendBegin(t)
    PROVE  Inv'
<1>0. /\ Cardinality(held) \in Nat /\ Cardinality(sending) \in Nat
      /\ refs \in Nat /\ merged \in Nat
  BY ReferencesFinite, AsyncAssumption DEF Inv, TypeOK
<1>1. refs > 0
  BY UsersCounted DEF SendBegin
<1>2. Cardinality(sending') = Cardinality(sending) + 1
  BY ReferencesFinite, CardAdd DEF SendBegin, Runs, Inv
<1>3. TypeOK'
  BY DEF SendBegin, Inv, TypeOK
<1>4. ReferencesAccounted'
  BY <1>0, <1>1, <1>2 DEF SendBegin, Inv, ReferencesAccounted, One
<1>5. FailedIdle' /\ UnseenPending' /\ SendsBounded'
  BY <1>0, <1>2, AsyncAssumption
     DEF SendBegin, SendBound, Inv, FailedIdle, UnseenPending, SendsBounded
<1> QED
  BY <1>3, <1>4, <1>5 DEF Inv

\* send() with a callback, up to the reference.
LEMMA SendCallbackBeginInv ==
    ASSUME Inv, NEW t \in Threads, SendCallbackBegin(t)
    PROVE  Inv'
<1>0. /\ Cardinality(held) \in Nat /\ Cardinality(sending) \in Nat
      /\ refs \in Nat /\ merged \in Nat
  BY ReferencesFinite, AsyncAssumption DEF Inv, TypeOK
<1>1. refs > 0
  BY UsersCounted DEF SendCallbackBegin
<1>2. Cardinality(sending') = Cardinality(sending) + 1
  BY ReferencesFinite, CardAdd DEF SendCallbackBegin, Runs, Inv
<1>3. TypeOK'
  BY DEF SendCallbackBegin, Inv, TypeOK
<1>4. ReferencesAccounted'
  BY <1>0, <1>1, <1>2 DEF SendCallbackBegin, Inv, ReferencesAccounted, One
<1>5. FailedIdle' /\ UnseenPending' /\ SendsBounded'
  BY <1>0, <1>2, AsyncAssumption
     DEF SendCallbackBegin, SendBound, Inv, FailedIdle, UnseenPending, SendsBounded
<1> QED
  BY <1>3, <1>4, <1>5 DEF Inv

\* send(): libuv raises the flag, or coalesces.
LEMMA SendAcceptedInv ==
    ASSUME Inv, NEW t \in Threads, SendAccepted(t)
    PROVE  Inv'
<1>0. /\ Cardinality(held) \in Nat /\ Cardinality(sending) \in Nat
      /\ refs \in Nat /\ merged \in Nat
  BY ReferencesFinite, AsyncAssumption DEF Inv, TypeOK
<1>1. /\ Cardinality(sending') = Cardinality(sending) - 1
      /\ Cardinality(sending') \in Nat
  BY ReferencesFinite, CardRemove DEF SendAccepted, Inv
<1>2. merged' \in 0 .. MaxMerged /\ Cardinality(sending') + merged' <= MaxMerged
  BY <1>0, <1>1, AsyncAssumption DEF SendAccepted, Inv, SendsBounded
<1>3. TypeOK'
  BY <1>2, Zenon DEF SendAccepted, Inv, TypeOK
<1>4. ReferencesAccounted'
  BY <1>0, <1>1, <1>2 DEF SendAccepted, Inv, TypeOK, ReferencesAccounted, One
<1>5. FailedIdle' /\ UnseenPending' /\ SendsBounded'
  BY <1>2 DEF SendAccepted, FailedIdle, UnseenPending, SendsBounded
<1> QED
  BY <1>3, <1>4, <1>5 DEF Inv

\* send(): libuv refuses, and the reference is given back.
LEMMA SendRefusedInv ==
    ASSUME Inv, NEW t \in Threads, SendRefused(t)
    PROVE  Inv'
<1>0. /\ Cardinality(held) \in Nat /\ Cardinality(sending) \in Nat
      /\ refs \in Nat /\ merged \in Nat
  BY ReferencesFinite, AsyncAssumption DEF Inv, TypeOK
<1>1. /\ Cardinality(sending') = Cardinality(sending) - 1
      /\ Cardinality(sending') \in Nat
  BY ReferencesFinite, CardRemove DEF SendRefused, Inv
<1>2. refs' \in Nat
  BY <1>0, <1>1 DEF SendRefused, Unref, Inv, ReferencesAccounted, One
<1>3. TypeOK'
  BY <1>2, Zenon DEF SendRefused, Unref, Inv, TypeOK
<1>4. ReferencesAccounted'
  BY <1>0, <1>1, <1>2 DEF SendRefused, Unref, Inv, ReferencesAccounted, One
<1>5. FailedIdle' /\ UnseenPending' /\ SendsBounded'
  BY <1>0, <1>1, AsyncAssumption
     DEF SendRefused, Unref, Inv, FailedIdle, UnseenPending, SendsBounded
<1> QED
  BY <1>3, <1>4, <1>5 DEF Inv

\* libuv delivers the wake-up.
LEMMA DispatchInv ==
    ASSUME Inv, Dispatch
    PROVE  Inv'
<1>0. /\ Cardinality(held) \in Nat /\ Cardinality(sending) \in Nat
      /\ refs \in Nat /\ merged \in Nat
  BY ReferencesFinite, AsyncAssumption DEF Inv, TypeOK
<1>3. TypeOK'
  BY Zenon DEF Dispatch, Inv, TypeOK
<1>4. ReferencesAccounted'
  BY <1>0 DEF Dispatch, Inv, TypeOK, ReferencesAccounted, One
<1>5. FailedIdle' /\ UnseenPending' /\ SendsBounded'
  BY DEF Dispatch, Inv, FailedIdle, UnseenPending, SendsBounded
<1> QED
  BY <1>3, <1>4, <1>5 DEF Inv

\* async_cb() calls the user, or has nobody to call.
LEMMA CallUserInv ==
    ASSUME Inv, CallUser
    PROVE  Inv'
<1>0. /\ Cardinality(held) \in Nat /\ Cardinality(sending) \in Nat
      /\ refs \in Nat /\ merged \in Nat
  BY ReferencesFinite, AsyncAssumption DEF Inv, TypeOK
<1>1. refs' \in Nat
  BY <1>0 DEF CallUser
<1>3. TypeOK'
  BY <1>1, Zenon DEF CallUser, Inv, TypeOK
<1>4. ReferencesAccounted'
  BY <1>0 DEF CallUser, Inv, TypeOK, ReferencesAccounted, One
<1>5. FailedIdle' /\ UnseenPending' /\ SendsBounded'
  BY DEF CallUser, Inv, FailedIdle, UnseenPending, SendsBounded
<1> QED
  BY <1>3, <1>4, <1>5 DEF Inv

\* The user callback returns.
LEMMA UserReturnsInv ==
    ASSUME Inv, UserReturns
    PROVE  Inv'
<1>0. /\ Cardinality(held) \in Nat /\ Cardinality(sending) \in Nat
      /\ refs \in Nat /\ merged \in Nat
  BY ReferencesFinite, AsyncAssumption DEF Inv, TypeOK
<1>1. refs' \in Nat
  BY <1>0 DEF UserReturns, Unref, Inv, ReferencesAccounted, One
<1>3. TypeOK'
  BY <1>1, Zenon DEF UserReturns, Unref, Inv, TypeOK
<1>4. ReferencesAccounted'
  BY <1>0, <1>1 DEF UserReturns, Unref, Inv, ReferencesAccounted, One
<1>5. FailedIdle' /\ UnseenPending' /\ SendsBounded'
  BY DEF UserReturns, Unref, Inv, FailedIdle, UnseenPending, SendsBounded
<1> QED
  BY <1>3, <1>4, <1>5 DEF Inv

\* The guard of async_cb() releases the reference of the send.
LEMMA LeaveInv ==
    ASSUME Inv, Leave
    PROVE  Inv'
<1>0. /\ Cardinality(held) \in Nat /\ Cardinality(sending) \in Nat
      /\ refs \in Nat /\ merged \in Nat
  BY ReferencesFinite, AsyncAssumption DEF Inv, TypeOK
<1>1. refs' \in Nat
  BY <1>0 DEF Leave, Unref, Inv, ReferencesAccounted, One
<1>3. TypeOK'
  BY <1>1, Zenon DEF Leave, Unref, Inv, TypeOK
<1>4. ReferencesAccounted'
  BY <1>0, <1>1 DEF Leave, Unref, Inv, ReferencesAccounted, One
<1>5. FailedIdle' /\ UnseenPending' /\ SendsBounded'
  BY DEF Leave, Unref, Inv, FailedIdle, UnseenPending, SendsBounded
<1> QED
  BY <1>3, <1>4, <1>5 DEF Inv

\* Every step preserves the invariant.
LEMMA NextInv == Inv /\ [Next]_vars => Inv'
<1> SUFFICES ASSUME Inv, [Next]_vars PROVE Inv'
  OBVIOUS
<1>1. CASE \E s \in Slots, ok \in BOOLEAN : Create(s, ok)
  BY <1>1, CreateInv
<1>2. CASE \E t \in Threads, s \in Slots : Copy(t, s) \/ Drop(t, s)
  BY <1>2, CopyInv, DropInv
<1>3. CASE \E t \in Threads : SendBegin(t) \/ SendCallbackBegin(t)
  BY <1>3, SendBeginInv, SendCallbackBeginInv
<1>4. CASE \E t \in Threads : SendAccepted(t) \/ SendRefused(t)
  BY <1>4, SendAcceptedInv, SendRefusedInv
<1>5. CASE Dispatch \/ CallUser \/ UserReturns \/ Leave
  BY <1>5, DispatchInv, CallUserInv, UserReturnsInv, LeaveInv
<1>6. CASE UNCHANGED vars
  BY <1>6 DEF vars, Inv, TypeOK, ReferencesAccounted, FailedIdle, UnseenPending,
     SendsBounded
<1> QED
  BY <1>1, <1>2, <1>3, <1>4, <1>5, <1>6 DEF Next

-----------------------------------------------------------------------------
\* async::send(), async_cb(): the inductive invariant holds in every
\* reachable state.
THEOREM Invariance == Spec => []Inv
<1>1. Inv /\ [Next]_vars => Inv'
  BY NextInv
<1> QED
  BY <1>1, InitInv, PTL DEF Spec

\* The counter of the instance never becomes negative, and the coalesced
\* sends stay within the bound that send() is given.
THEOREM TypeCorrect == Spec => []TypeOK
<1>1. Inv => TypeOK
  BY DEF Inv
<1> QED
  BY <1>1, Invariance, PTL

\* async::send(), async_cb(): whatever the interleaving of sends, coalesced
\* or not, of copies and drops and of the callback, every reference is
\* accounted for.
THEOREM ReferencesCorrect == Spec => []ReferencesAccounted
<1>1. Inv => ReferencesAccounted
  BY DEF Inv
<1> QED
  BY <1>1, Invariance, PTL

\* async::send(): the reference that is added before the event is sent keeps
\* the handle until the callback has returned.
THEOREM WakeupSafe == Spec => []WakeupKeepsHandle
<1>1. Inv => WakeupKeepsHandle
  <2> SUFFICES ASSUME Inv PROVE WakeupKeepsHandle
    OBVIOUS
  <2>0. /\ Cardinality(held) \in Nat /\ Cardinality(sending) \in Nat
        /\ refs \in Nat /\ merged \in Nat
    BY ReferencesFinite, AsyncAssumption DEF Inv, TypeOK
  <2>1. pending \/ dispatch # "none" => life = "open"
    BY <2>0 DEF Inv, TypeOK, ReferencesAccounted, FailedIdle, One
  <2>2. unseen # {} => life = "open"
    BY <2>1 DEF Inv, UnseenPending
  <2>3. ASSUME sending # {} PROVE life \in {"open", "failed"}
    <3>1. Cardinality(sending) > 0
      BY <2>0, <2>3, ReferencesFinite, FS_EmptySet DEF Inv
    <3> QED
      BY <2>0, <3>1 DEF Inv, ReferencesAccounted, One
  <2> QED
    BY <2>1, <2>2, <2>3 DEF WakeupKeepsHandle
<1> QED
  BY <1>1, Invariance, PTL

-----------------------------------------------------------------------------
(* Wake-ups and the end of the handle.                                     *)

\* A send that no callback has followed yet has left the flag of an open
\* handle raised, and the handle referred to.
WakeupPending == unseen # {} => pending = TRUE /\ life = "open" /\ refs > 0

\* async::send(): no order of sends, drops and callbacks loses a wake-up: the
\* safety half of SendAnswered.
THEOREM WakeupNotLost == Spec => []WakeupPending
<1>1. Inv /\ WakeupKeepsHandle => WakeupPending
  BY DEF Inv, UnseenPending, WakeupKeepsHandle, ReferencesAccounted, WakeupPending
<1> QED
  BY <1>1, Invariance, WakeupSafe, PTL

\* After a step as well.
LEMMA FiniteAfter ==
    TypeOK' => (Cardinality(held) \in Nat /\ Cardinality(sending) \in Nat)'
<1>1. TypeOK => Cardinality(held) \in Nat /\ Cardinality(sending) \in Nat
  BY ReferencesFinite
<1> QED
  BY <1>1, PTL

\* A sum is above zero if one of its terms is.
LEMMA SumAbove ==
    \A a, b, c, m, d, e \in Nat : m > 0 => a + b + c + m + d + e > 0
  OBVIOUS

\* The reference of a coalesced send stays, and with it the handle.
CoalescedKeepsHandle == [][merged > 0 => merged' > 0 /\ life' # "closed"]_vars

\* async::send(), async_cb(): nothing releases the reference of a send that
\* libuv has coalesced with another one, so that the handle is never closed
\* after it, whatever becomes of the variables.
THEOREM CoalescedIsForever == Spec => CoalescedKeepsHandle
<1>1. Inv /\ Inv' /\ [Next]_vars => [merged > 0 => merged' > 0 /\ life' # "closed"]_vars
  <2> SUFFICES ASSUME Inv, Inv', [Next]_vars, merged > 0
               PROVE  merged' > 0 /\ life' # "closed"
    OBVIOUS
  <2>1. merged \in Nat /\ merged' \in Nat /\ refs' \in Nat
    BY AsyncAssumption DEF Inv, TypeOK
  <2>2. merged' > 0
    <3>1. merged' = merged \/ merged' = merged + 1
      BY DEF Next, vars, Create, Copy, Drop, SendBegin, SendCallbackBegin, SendAccepted,
         SendRefused, Dispatch, CallUser, UserReturns, Leave
    <3> QED
      BY <2>1, <3>1
  <2>3. refs' > 0
    <3>1. TypeOK'
      BY DEF Inv
    <3>2. Cardinality(held') \in Nat /\ Cardinality(sending') \in Nat
      BY <3>1, FiniteAfter
    <3> DEFINE H == Cardinality(held')  S == Cardinality(sending')  P == One(pending')
               D == One(dispatch' # "none")  U == One(dispatch' = "user")
    <3>3. H \in Nat /\ S \in Nat /\ P \in Nat /\ D \in Nat /\ U \in Nat
      BY <3>2 DEF One
    <3>4. refs' = H + S + P + merged' + D + U
      BY DEF Inv, ReferencesAccounted
    <3> HIDE DEF H, S, P, D, U
    <3> QED
      BY <2>1, <2>2, <3>3, <3>4, SumAbove
  <2> QED
    BY <2>2, <2>3 DEF Inv, ReferencesAccounted
<1> QED
  BY <1>1, Invariance, PTL DEF Spec, CoalescedKeepsHandle

\* Nothing happens to a handle that has been closed.
ClosedIsFinal == [][life # "closed"]_vars

\* async: no variable, send, wake-up or callback is left when the handle is
\* closed, and none comes after it.
THEOREM NothingAfterClose == Spec => ClosedIsFinal
<1>1. Inv /\ [Next]_vars => [life # "closed"]_vars
  <2> SUFFICES ASSUME Inv, Next, life = "closed" PROVE FALSE
    OBVIOUS
  <2>0. /\ Cardinality(held) \in Nat /\ Cardinality(sending) \in Nat
        /\ refs \in Nat /\ merged \in Nat
    BY ReferencesFinite, AsyncAssumption DEF Inv, TypeOK
  <2>1. refs = 0
    BY <2>0 DEF Inv, ReferencesAccounted
  <2>2. Cardinality(held) = 0 /\ Cardinality(sending) = 0 /\ dispatch = "none"
    <3> DEFINE H == Cardinality(held)  S == Cardinality(sending)  P == One(pending)
               D == One(dispatch # "none")  U == One(dispatch = "user")
    <3>1. H \in Nat /\ S \in Nat /\ P \in Nat /\ D \in Nat /\ U \in Nat
      BY <2>0 DEF One
    <3>2. H + S + P + merged + D + U = 0
      BY <2>1 DEF Inv, ReferencesAccounted
    <3> HIDE DEF H, S, P, D, U
    <3>3. H = 0 /\ S = 0 /\ D = 0
      BY <2>0, <3>1, <3>2
    <3> QED
      BY <3>3 DEF H, S, D, One
  <2>3. held = {} /\ sending = {}
    BY <2>2, ReferencesFinite, FS_EmptySet DEF Inv
  <2> QED
    BY <2>2, <2>3 DEF Next, Create, Copy, Drop, SendBegin, SendCallbackBegin, SendAccepted,
       SendRefused, Dispatch, CallUser, UserReturns, Leave, HasHandle
<1> QED
  BY <1>1, Invariance, PTL DEF Spec, ClosedIsFinal
=============================================================================
