--------------------------- MODULE IoRead_proofs ---------------------------
(***************************************************************************)
(* Proofs about IoRead.  The first part is for any threads, any commands   *)
(* from anywhere, restarts and failures: the references of a reading       *)
(* endpoint are accounted for and it is silent after a stop.  The second   *)
(* is about the data and the chain of a file, which need a discipline of   *)
(* the user code.  Then IoRead is shown to implement ReadControl, in which *)
(* every command is one step, and a chain of reads not to break unless a   *)
(* read fails.                                                             *)
(***************************************************************************)
EXTENDS IoRead, FiniteSetTheorems, TLAPS

-----------------------------------------------------------------------------
(* The inductive invariant of the read control.                            *)

Holders == {t \in Threads : var[t]}

\* A thread is inside a command exactly while it owns rdstate_switch.
LockInv == \A t \in Threads : pc[t] # "idle" <=> lock = t

\* What the owner of the lock knows: the state it has switched to and, from
\* the state before, whether libuv can be reading.
OwnerInv ==
    /\ \A t \in Threads :
          /\ pc[t] \in {"restop", "start"} => rdcmd \in Reading
          /\ pc[t] \in {"stop", "stopUnref"} => rdcmd \notin Reading
          /\ pc[t] \in {"start", "stop"} => active = FALSE
    /\ lock = NoThread /\ active = TRUE => rdcmd \in Reading

\* The references of the reading state: in a command, before the interface
\* is called, the one of the state before may still be there, and the one of
\* the new state is.
ReadingRefs ==
    IF lock = NoThread THEN Bit(rdcmd \in Reading)
    ELSE IF pc[lock] = "restop" THEN 2
    ELSE IF pc[lock] = "stop" THEN 0
    ELSE 1

Accounted == refs = Cardinality(Holders) + Bit(cb = "user") + ReadingRefs

Inv == TypeOK /\ LockInv /\ OwnerInv /\ Accounted

-----------------------------------------------------------------------------
(* Counting.                                                               *)

\* The variables are finitely many.
LEMMA HoldersFinite == IsFiniteSet(Holders) /\ Cardinality(Holders) \in Nat
<1>1. Holders \in SUBSET Threads
  BY DEF Holders
<1>2. IsFiniteSet(Holders)
  BY <1>1, FS_Subset, IoReadAssumption
<1> QED
  BY <1>2, FS_CardinalityType

\* ~io(): one holder less.
LEMMA HoldersDrop ==
    ASSUME TypeOK, NEW t \in Threads, var[t], var' = [var EXCEPT ![t] = FALSE]
    PROVE  Cardinality(Holders') = Cardinality(Holders) - 1 /\ Cardinality(Holders) > 0
<1>1. Holders' = Holders \ {t} /\ t \in Holders
  BY DEF Holders, TypeOK
<1>2. Cardinality(Holders \ {t}) = Cardinality(Holders) - 1 /\ IsFiniteSet(Holders \ {t})
  BY <1>1, HoldersFinite, FS_RemoveElement
<1>3. Cardinality(Holders \ {t}) \in Nat
  BY <1>2, FS_CardinalityType
<1> QED
  BY <1>1, <1>2, <1>3, HoldersFinite

\* A flag counts for nothing or for one.
LEMMA BitType == \A b : Bit(b) \in {0, 1}
BY DEF Bit

-----------------------------------------------------------------------------
(* Preservation.                                                           *)

\* The endpoint before the first command.
LEMMA InitInv == Init => Inv
<1> SUFFICES ASSUME Init PROVE Inv
  OBVIOUS
<1>1. Holders = Threads
  BY DEF Init, Holders
<1>2. refs = Cardinality(Threads) /\ Cardinality(Threads) \in Nat
  BY IoReadAssumption, FS_CardinalityType DEF Init
<1>3. TypeOK
  <2>1. var \in [Threads -> BOOLEAN] /\ pc \in [Threads -> {"idle"}] /\ off \in [Threads -> {0}]
    BY DEF Init
  <2>2. inflight \in Seq(Nat)
    BY DEF Init
  <2> QED
    BY <1>2, <2>1, <2>2, IoReadAssumption DEF Init, TypeOK, RdCmd
<1>4. LockInv /\ OwnerInv
  BY IoReadAssumption DEF Init, LockInv, OwnerInv, Reading
<1>5. ReadingRefs = 0 /\ Bit(cb = "user") = 0
  BY DEF Init, ReadingRefs, Bit, Reading
<1>6. Accounted
  BY <1>1, <1>2, <1>5 DEF Accounted
<1> QED
  BY <1>3, <1>4, <1>6 DEF Inv

\* The commands keep the types; the counter is dealt with below.
LEMMA CommandType ==
    ASSUME Inv, NEW t \in Threads, Command(t), refs' \in Nat
    PROVE  TypeOK'
<1> USE IoReadAssumption DEF Inv, TypeOK
<1>1. CASE SetCallbacks(t) \/ DropVariable(t)
  BY <1>1 DEF SetCallbacks, DropVariable, loopVars
<1>2. CASE \E o \in Offsets : ReadStart(t, o)
  BY <1>2 DEF ReadStart, loopVars, RdCmd
<1>3. CASE RestartStop(t) \/ FinishStop(t)
  BY <1>3 DEF RestartStop, FinishStop, InterfaceStop, loopVars
<1>4. CASE StartSucceeds(t)
  <2>1. off[t] \in Nat \union {-1}
    OBVIOUS
  <2>2. rdoffset' \in Nat /\ position' \in Nat
    BY <1>4, <2>1 DEF StartSucceeds, InterfaceStart, FileStart, StreamStart, FilePosition,
       PositionAfter
  <2>5. inflight' = inflight \/ inflight' = Append(inflight, rdoffset')
    BY <1>4, Zenon DEF StartSucceeds, InterfaceStart, FileStart, StreamStart
  <2>3. inflight' \in Seq(Nat)
    BY <2>2, <2>5, SMTT(30)
  <2>4. active' \in BOOLEAN
    BY <1>4 DEF StartSucceeds, InterfaceStart, FileStart, StreamStart
  <2> QED
    BY <1>4, <2>2, <2>3, <2>4 DEF StartSucceeds, loopVars
<1>5. CASE StartFails(t)
  <2>1. off[t] \in Nat \union {-1}
    OBVIOUS
  <2>2. rdoffset' \in Nat /\ position' \in Nat
    BY <1>5, <2>1 DEF StartFails, FilePosition, PositionAfter
  <2> QED
    BY <1>5, <2>2 DEF StartFails, loopVars, RdCmd
<1>6. CASE ReadStop(t) \/ ReadPause(t) \/ ReadResume(t)
  BY <1>6 DEF ReadStop, ReadPause, ReadResume, loopVars, RdCmd
<1> QED
  BY <1>1, <1>2, <1>3, <1>4, <1>5, <1>6 DEF Command

\* The loop thread keeps the types.
LEMMA LoopType ==
    ASSUME Inv, LoopStep, refs' \in Nat
    PROVE  TypeOK'
<1> USE IoReadAssumption DEF Inv, TypeOK
<1>1. CASE \E n \in {-1, 1} : StreamDelivers(n)
  BY <1>1 DEF StreamDelivers, EnterCallback
<1>2. CASE \E n \in {-1, 1} : FileDelivers(n)
  BY <1>2 DEF FileDelivers, EnterCallback
<1>3. CASE FileDeliversFreed
  BY <1>3 DEF FileDeliversFreed
<1>4. CASE CallbackReturns
  BY <1>4 DEF CallbackReturns
<1>5. CASE ReadTail
  BY <1>5 DEF ReadTail
<1>6. CASE FileChain
  BY <1>6 DEF FileChain
<1> QED
  BY <1>1, <1>2, <1>3, <1>4, <1>5, <1>6 DEF LoopStep

\* The commands keep lock, state and program counters together.
LEMMA CommandLock ==
    ASSUME Inv, NEW t \in Threads, Command(t)
    PROVE  LockInv' /\ OwnerInv'
<1> USE IoReadAssumption DEF Inv, TypeOK, LockInv, OwnerInv, Reading, RdCmd
<1>1. CASE SetCallbacks(t) \/ DropVariable(t)
  BY <1>1 DEF SetCallbacks, DropVariable
<1>2. CASE \E o \in Offsets : ReadStart(t, o)
  BY <1>2 DEF ReadStart, MayIssue
<1>3. CASE RestartStop(t)
  BY <1>3 DEF RestartStop, InterfaceStop
<1>4. CASE FinishStop(t)
  BY <1>4 DEF FinishStop, InterfaceStop
<1>5. CASE StartSucceeds(t)
  BY <1>5 DEF StartSucceeds
<1>6. CASE StartFails(t)
  BY <1>6 DEF StartFails
<1>7. CASE ReadStop(t) \/ ReadPause(t) \/ ReadResume(t)
  BY <1>7, SMTT(30) DEF ReadStop, ReadPause, ReadResume, MayIssue
<1> QED
  BY <1>1, <1>2, <1>3, <1>4, <1>5, <1>6, <1>7 DEF Command

\* The loop thread takes no lock; it can only end the reading.
LEMMA LoopLock ==
    ASSUME Inv, LoopStep
    PROVE  LockInv' /\ OwnerInv'
<1>1. UNCHANGED <<lock, pc, rdcmd>> /\ (active' = active \/ active' = FALSE)
  BY DEF LoopStep, StreamDelivers, FileDelivers, FileDeliversFreed, CallbackReturns,
     ReadTail, FileChain
<1> QED
  BY <1>1 DEF Inv, TypeOK, LockInv, OwnerInv

\* Every command releases what the state before it had and adds what the
\* new one needs.
LEMMA CommandCounts ==
    ASSUME Inv, NEW t \in Threads, Command(t)
    PROVE  refs' \in Nat /\ Accounted'
<1>1. Cardinality(Holders) \in Nat /\ Bit(cb = "user") \in {0, 1}
  BY HoldersFinite, BitType
<1>2. t # NoThread /\ lock \in Threads \union {NoThread} /\ cb' = cb
  BY IoReadAssumption DEF Inv, TypeOK, Command, SetCallbacks, DropVariable, ReadStart,
     RestartStop, StartSucceeds, StartFails, ReadStop, ReadPause, FinishStop, ReadResume,
     loopVars
<1>3. refs = Cardinality(Holders) + Bit(cb = "user") + ReadingRefs /\ refs \in Nat
  BY DEF Inv, TypeOK, Accounted
<1>0. Bit(cb = "user")' = Bit(cb = "user")
  BY <1>2 DEF Bit
<1>4. CASE SetCallbacks(t)
  <2>1. Holders' = Holders /\ ReadingRefs' = ReadingRefs /\ refs' = refs
    BY <1>4 DEF SetCallbacks, Holders, ReadingRefs
  <2> QED
    BY <1>0, <1>3, <2>1 DEF Accounted
<1>5. CASE DropVariable(t)
  <2>1. Cardinality(Holders') = Cardinality(Holders) - 1 /\ Cardinality(Holders) > 0
    BY <1>5, HoldersDrop DEF DropVariable, Inv
  <2>2. ReadingRefs' = ReadingRefs /\ refs' = refs - 1 /\ ReadingRefs \in 0 .. 2
    BY <1>5 DEF DropVariable, ReadingRefs, Bit
  <2> QED
    BY <1>0, <1>1, <1>3, <2>1, <2>2 DEF Accounted
<1>6. CASE ~DropVariable(t) /\ ~SetCallbacks(t)
  <2>1. Holders' = Holders
    BY <1>6 DEF Holders, Command, ReadStart, RestartStop, StartSucceeds, StartFails,
       ReadStop, ReadPause, FinishStop, ReadResume
  <2>2. refs' - refs = ReadingRefs' - ReadingRefs /\ ReadingRefs' \in 0 .. 2
    <3> USE IoReadAssumption DEF Inv, TypeOK, LockInv, OwnerInv, ReadingRefs, Bit, Reading, RdCmd
    <3>1. CASE \E o \in Offsets : ReadStart(t, o)
      BY <1>2, <3>1 DEF ReadStart, MayIssue
    <3>2. CASE RestartStop(t) \/ FinishStop(t)
      BY <1>2, <3>2 DEF RestartStop, FinishStop
    <3>3. CASE StartSucceeds(t) \/ StartFails(t)
      BY <1>2, <3>3 DEF StartSucceeds, StartFails
    <3>4. CASE ReadStop(t) \/ ReadPause(t) \/ ReadResume(t)
      BY <1>2, <3>4 DEF ReadStop, ReadPause, ReadResume, MayIssue
    <3> QED
      BY <1>6, <3>1, <3>2, <3>3, <3>4 DEF Command
  <2>3. refs' \in Int /\ ReadingRefs \in 0 .. 2
    BY <1>6 DEF Inv, TypeOK, ReadingRefs, Bit, Command, ReadStart, RestartStop,
       StartSucceeds, StartFails, ReadStop, ReadPause, FinishStop, ReadResume
  <2> QED
    BY <1>0, <1>1, <1>3, <2>1, <2>2, <2>3 DEF Accounted
<1> QED
  BY <1>4, <1>5, <1>6

\* The callback's parameter is counted and discounted.
LEMMA LoopCounts ==
    ASSUME Inv, LoopStep
    PROVE  refs' \in Nat /\ Accounted'
<1>1. Cardinality(Holders) \in Nat /\ ReadingRefs \in 0 .. 2
  BY HoldersFinite DEF ReadingRefs, Bit
<1>2. Holders' = Holders /\ ReadingRefs' = ReadingRefs
  BY DEF LoopStep, StreamDelivers, FileDelivers, FileDeliversFreed, CallbackReturns,
     ReadTail, FileChain, Holders, ReadingRefs
<1>3. \/ cb # "user" /\ cb' = "user" /\ refs' = refs + 1
      \/ cb = "user" /\ cb' # "user" /\ refs' = refs - 1
      \/ cb # "user" /\ cb' # "user" /\ refs' = refs
  BY DEF LoopStep, StreamDelivers, FileDelivers, FileDeliversFreed, CallbackReturns,
     ReadTail, FileChain, EnterCallback, LoopFree
<1> QED
  BY <1>1, <1>2, <1>3 DEF Inv, TypeOK, Accounted, Bit

\* Every step of every thread preserves the invariant.
LEMMA NextInv == Inv /\ [Next]_vars => Inv'
<1> SUFFICES ASSUME Inv, [Next]_vars PROVE Inv'
  OBVIOUS
<1>1. CASE LoopStep
  BY <1>1, LoopCounts, LoopType, LoopLock DEF Inv
<1>2. CASE \E t \in Threads : Command(t)
  BY <1>2, CommandCounts, CommandType, CommandLock DEF Inv
<1>3. CASE UNCHANGED vars
  BY <1>3 DEF vars, Inv, TypeOK, LockInv, OwnerInv, Accounted, Holders, ReadingRefs
<1> QED
  BY <1>1, <1>2, <1>3 DEF Next

-----------------------------------------------------------------------------
(* Theorems for any user code.                                             *)

\* io::read_start(), read_stop(), read_pause(), read_resume(): the inductive
\* invariant holds, whatever the threads do.
THEOREM Invariance == Spec => []Inv
<1> QED
  BY InitInv, NextInv, PTL DEF Spec

\* Every property of the endpoint keeps its type; the counter never drops
\* below zero.
THEOREM TypeCorrect == Spec => []TypeOK
<1>1. Inv => TypeOK
  BY DEF Inv
<1> QED
  BY <1>1, Invariance, PTL

\* io::read_start(), read_stop(), read_pause(), read_resume(): with no
\* command running, the endpoint has one reference more than variables and
\* callback parameters exactly while it is in a reading state.
THEOREM ReferencesCorrect == Spec => []ReferencesAccounted
<1>1. Inv => ReferencesAccounted
  BY DEF Inv, Accounted, ReadingRefs, Holders, ReferencesAccounted
<1> QED
  BY <1>1, Invariance, PTL

\* read_stop(), read_pause(), file::read_cb(): a step from a state that is
\* not a reading one asks libuv for no further read, and a stream or a
\* datagram socket is not being read there once the command has returned.
LEMMA SilentStep ==
    ASSUME Inv, [Next]_vars, rdcmd \notin Reading
    PROVE  /\ Asked' <= Asked
           /\ lock = NoThread /\ kind # "file" => Asked = 0
<1>1. lock = NoThread /\ kind # "file" => Asked = 0
  BY DEF Inv, TypeOK, OwnerInv, Asked, Bit
<1> SUFFICES Asked' <= Asked
  BY <1>1
<1>2. Asked \in Nat
  BY DEF Inv, TypeOK, Asked, Bit
<1>3. CASE UNCHANGED <<kind, active, inflight>>
  BY <1>2, <1>3 DEF Asked
<1>4. CASE LoopStep
  <2>1. kind' = kind
    BY <1>4 DEF LoopStep, StreamDelivers, FileDelivers, FileDeliversFreed, CallbackReturns,
       ReadTail, FileChain
  <2>2. CASE kind = "file"
    <3>1. inflight' = inflight \/ (inflight # <<>> /\ inflight' = Tail(inflight))
      BY <1>4, <2>2 DEF LoopStep, StreamDelivers, FileDelivers, FileDeliversFreed,
         CallbackReturns, ReadTail, FileChain
    <3>2. Len(inflight') <= Len(inflight)
      BY <3>1 DEF Inv, TypeOK
    <3> QED
      BY <2>1, <2>2, <3>2 DEF Asked
  <2>3. CASE kind # "file"
    <3>1. active' = active \/ active' = FALSE
      BY <1>4, <2>3 DEF LoopStep, StreamDelivers, FileDelivers, FileDeliversFreed,
         CallbackReturns, ReadTail, FileChain
    <3> QED
      BY <2>1, <2>3, <3>1 DEF Inv, TypeOK, Asked, Bit
  <2> QED
    BY <2>2, <2>3
<1>5. ASSUME NEW t \in Threads, Command(t) PROVE Asked' <= Asked
  <2>1. pc[t] # "start" /\ pc[t] # "restop"
    BY DEF Inv, OwnerInv
  <2>2. kind' = kind /\ inflight' = inflight /\ (active' = active \/ active' = FALSE)
    BY <1>5, <2>1 DEF Command, SetCallbacks, DropVariable, ReadStart, RestartStop,
       StartSucceeds, StartFails, ReadStop, ReadPause, FinishStop, ReadResume, InterfaceStop,
       loopVars
  <2> QED
    BY <1>2, <2>2 DEF Inv, TypeOK, Asked, Bit
<1> QED
  BY <1>3, <1>4, <1>5 DEF Next, vars

\* read_stop() and read_pause(): libuv is asked for nothing more after one of
\* them has switched the state, and does not read a stream or a datagram
\* socket after it has returned, unless the endpoint is started again.
THEOREM StopIsSilent == Spec => NoReadAfterStop
<1>1. Inv /\ [Next]_vars =>
        [rdcmd \notin Reading =>
            /\ Asked' <= Asked
            /\ lock = NoThread /\ kind # "file" => Asked = 0]_vars
  BY SilentStep
<1> QED
  BY <1>1, Invariance, PTL DEF Spec, NoReadAfterStop

-----------------------------------------------------------------------------
(* Use after free needs every variable to go.                              *)

\* What a thread that keeps its variable guarantees.
KeptInv == fault = FALSE /\ \A t \in Threads \ Droppers : var[t]

\* A kept variable is a reference.
LEMMA KeptRefs ==
    ASSUME Inv, KeptInv, NEW t \in Threads \ Droppers
    PROVE  refs > 0
<1>1. t \in Holders
  BY DEF KeptInv, Holders
<1>2. Cardinality(Holders) # 0
  BY <1>1, HoldersFinite, FS_EmptySet
<1>3. Bit(cb = "user") \in {0, 1} /\ ReadingRefs \in 0 .. 2
  BY BitType DEF ReadingRefs, Bit
<1> QED
  BY <1>2, <1>3, HoldersFinite DEF Inv, Accounted

\* No step of any thread uses a deleted instance, or takes a kept variable.
LEMMA KeptStep ==
    ASSUME Inv, KeptInv, NEW t \in Threads \ Droppers, [Next]_vars
    PROVE  KeptInv'
<1>1. refs # 0
  BY KeptRefs DEF Inv, TypeOK
<1>2. CASE LoopStep
  <2>1. var' = var
    BY <1>2 DEF LoopStep, StreamDelivers, FileDelivers, FileDeliversFreed,
       CallbackReturns, ReadTail, FileChain
  <2>2. \/ fault' = fault
        \/ fault' = (fault \/ (nread > 0 /\ refs = 0))
        \/ fault' = (fault \/ refs = 0)
    BY <1>1, <1>2, Zenon DEF LoopStep, StreamDelivers, FileDelivers, FileDeliversFreed,
       CallbackReturns, ReadTail, FileChain
  <2>3. fault' = FALSE
    BY <1>1, <2>2, Zenon DEF KeptInv
  <2> QED
    BY <2>1, <2>3 DEF KeptInv
<1>3. ASSUME NEW u \in Threads, Command(u) PROVE KeptInv'
  <2>1. fault' = fault
    BY <1>3 DEF Command, SetCallbacks, DropVariable, ReadStart, RestartStop,
       StartSucceeds, StartFails, ReadStop, ReadPause, FinishStop, ReadResume, loopVars
  <2>2. var' = var \/ (u \in Droppers /\ var' = [var EXCEPT ![u] = FALSE])
    BY <1>3 DEF Command, SetCallbacks, DropVariable, ReadStart, RestartStop,
       StartSucceeds, StartFails, ReadStop, ReadPause, FinishStop, ReadResume
  <2> QED
    BY <2>1, <2>2 DEF Inv, TypeOK, KeptInv
<1>4. CASE UNCHANGED vars
  BY <1>4 DEF vars, KeptInv
<1> QED
  BY <1>2, <1>3, <1>4 DEF Next

\* io_read_cb(), file::read_cb(): as long as one thread keeps a variable of
\* the endpoint, no callback path uses a deleted instance, whatever commands
\* the callback and the other threads issue and whatever fails.
THEOREM KeptInstanceIsSafe ==
    ASSUME Threads \ Droppers # {}
    PROVE  Spec => []NoUseAfterFree
<1> PICK t \in Threads \ Droppers : TRUE
  OBVIOUS
<1>1. Init => KeptInv
  BY DEF Init, KeptInv
<1>2. Inv /\ KeptInv /\ [Next]_vars => KeptInv'
  BY KeptStep
<1>3. KeptInv => NoUseAfterFree
  BY DEF KeptInv, NoUseAfterFree
<1> QED
  BY <1>1, <1>2, <1>3, Invariance, PTL DEF Spec

-----------------------------------------------------------------------------
(* The data and the chain of a file.                                       *)

\* What the user code has to keep to.  One thread, and no start from the
\* callback, for every endpoint.  A file, whose uv_fs_read() runs on after a
\* stop, is stopped only in its callback, is started or resumed only outside
\* of it, and is not restarted.
Discipline ==
    /\ Threads = {Loop}
    /\ "start" \notin CallbackCmds
    /\ "file" \in Kinds =>
          /\ CallbackCmds \subseteq {"stop", "pause"}
          /\ OutsideCmds \subseteq {"start", "resume"}
          /\ Restarts = FALSE

\* stream, udp: rdoffset is the position of the next data, except while the
\* data just read are being delivered.
StreamData ==
    /\ inflight = << >>
    /\ cb # "chain"
    /\ position = IF cb \in {"user", "tail"} /\ nread > 0 THEN rdoffset + 1 ELSE rdoffset

\* file: one uv_fs_read() or one callback; what is being read is at rdoffset,
\* and a start finds nothing being read.
FileData ==
    /\ inflight = << >> \/ (inflight = <<rdoffset>> /\ cb = "none" /\ rdcmd \in Reading)
    /\ pc[Loop] # "restop"
    /\ pc[Loop] = "start" => cb = "none" /\ inflight = << >>

\* The callback path and the commands of the one thread, one at a time.
ChainInv ==
    /\ cb = "user" => cboff = trueoff
    /\ cb \in {"tail", "chain"} => pc[Loop] = "idle"
    /\ pc[Loop] = "restop" => rdcmd = "START"
    /\ pc[Loop] \in {"restop", "start"} /\ rdcmd = "START" => cb = "none"
    /\ pc[Loop] = "start" /\ rdcmd = "RESUME" => off[Loop] = rdoffset
    /\ kind # "file" => StreamData
    /\ kind = "file" => FileData

\* The commands of the one thread keep the data where the offset says.
LEMMA CommandChain ==
    ASSUME Discipline, Inv, ChainInv, Command(Loop)
    PROVE  ChainInv'
<1> USE IoReadAssumption DEF Discipline, Inv, TypeOK, ChainInv
<1>0. UNCHANGED <<kind, cb, nread, cboff, trueoff>>
  BY DEF Command, SetCallbacks, DropVariable, ReadStart, RestartStop, StartSucceeds,
     StartFails, ReadStop, ReadPause, FinishStop, ReadResume, loopVars
<1>1. CASE SetCallbacks(Loop) \/ DropVariable(Loop)
  BY <1>0, <1>1 DEF SetCallbacks, DropVariable, StreamData, FileData
<1>2. CASE \E o \in Offsets : ReadStart(Loop, o)
  BY <1>0, <1>2 DEF ReadStart, MayIssue, InCallback, Outside, StreamData, FileData, Reading
<1>3. CASE RestartStop(Loop)
  BY <1>0, <1>3 DEF RestartStop, StreamData, FileData
<1>4. CASE FinishStop(Loop)
  BY <1>0, <1>4 DEF FinishStop, StreamData, FileData
<1>5. CASE StartSucceeds(Loop)
  <2>1. rdcmd \in Reading /\ off[Loop] \in Nat \union {-1} /\ pc'[Loop] = "idle"
    BY <1>5 DEF StartSucceeds, OwnerInv
  <2>2. CASE kind # "file"
    <3>1. inflight' = inflight /\ rdoffset' = (IF off[Loop] >= 0 THEN off[Loop] ELSE rdoffset)
      BY <1>5, <2>2, Zenon DEF StartSucceeds, InterfaceStart, StreamStart
    <3>2. position' = PositionAfter(Loop)
      BY <1>5 DEF StartSucceeds
    <3>3. StreamData'
      BY <1>0, <1>5, <2>1, <2>2, <3>1, <3>2 DEF StartSucceeds, PositionAfter, StreamData, Reading
    <3> QED
      BY <1>0, <2>1, <2>2, <3>3
  <2>3. CASE kind = "file"
    <3>1. cb = "none" /\ inflight = << >>
      BY <1>5, <2>3 DEF StartSucceeds, FileData
    <3>2. inflight' = Append(inflight, rdoffset') /\ rdcmd' = rdcmd
      BY <1>5, <2>3, Zenon DEF StartSucceeds, InterfaceStart, FileStart
    <3>3. inflight' = <<rdoffset'>>
      BY <3>1, <3>2
    <3> QED
      BY <1>0, <2>1, <2>3, <3>1, <3>2, <3>3 DEF FileData
  <2> QED
    BY <2>2, <2>3
<1>6. CASE StartFails(Loop)
  <2>1. rdcmd \in Reading /\ off[Loop] \in Nat \union {-1} /\ pc'[Loop] = "idle"
    BY <1>6 DEF StartFails, OwnerInv
  <2>2. CASE kind # "file"
    <3>1. inflight' = inflight /\ rdoffset' = (IF off[Loop] >= 0 THEN off[Loop] ELSE rdoffset)
      BY <1>6, <2>2, Zenon DEF StartFails
    <3>2. position' = PositionAfter(Loop)
      BY <1>6 DEF StartFails
    <3>3. StreamData'
      BY <1>0, <1>6, <2>1, <2>2, <3>1, <3>2 DEF StartFails, PositionAfter, StreamData, Reading
    <3> QED
      BY <1>0, <2>1, <2>2, <3>3
  <2>3. CASE kind = "file"
    BY <1>0, <1>6, <2>1, <2>3 DEF StartFails, FileData
  <2> QED
    BY <2>2, <2>3
<1>7. CASE ReadStop(Loop) \/ ReadPause(Loop)
  BY <1>0, <1>7 DEF ReadStop, ReadPause, MayIssue, InCallback, Outside, StreamData, FileData
<1>8. CASE ReadResume(Loop)
  BY <1>0, <1>8 DEF ReadResume, MayIssue, InCallback, Outside, StreamData, FileData, Reading
<1> QED
  BY <1>1, <1>2, <1>3, <1>4, <1>5, <1>6, <1>7, <1>8 DEF Command

\* So does the callback path.
LEMMA LoopChain ==
    ASSUME Discipline, Inv, ChainInv, LoopStep
    PROVE  ChainInv'
<1> USE IoReadAssumption DEF Discipline, Inv, TypeOK, ChainInv
<1>1. CASE \E n \in {-1, 1} : StreamDelivers(n)
  BY <1>1 DEF StreamDelivers, EnterCallback, LoopFree, StreamData
<1>2. CASE \E n \in {-1, 1} : FileDelivers(n)
  <2>1. kind = "file" /\ inflight = <<rdoffset>> /\ Head(<<rdoffset>>) = rdoffset
           /\ Tail(<<rdoffset>>) = << >>
    BY <1>2 DEF FileDelivers, FileData
  <2> QED
    BY <1>2, <2>1 DEF FileDelivers, EnterCallback, LoopFree, FileData
<1>3. CASE FileDeliversFreed
  <2>1. kind = "file" /\ inflight = <<rdoffset>> /\ Tail(<<rdoffset>>) = << >>
    BY <1>3 DEF FileDeliversFreed, FileData
  <2> QED
    BY <1>3, <2>1 DEF FileDeliversFreed, FileData
<1>4. CASE CallbackReturns
  BY <1>4 DEF CallbackReturns, StreamData, FileData
<1>5. CASE ReadTail
  BY <1>5 DEF ReadTail, StreamData, FileData
<1>6. CASE FileChain
  <2>1. kind = "file" /\ inflight = << >> /\ pc[Loop] = "idle"
    BY <1>6 DEF FileChain, StreamData, FileData
  <2>2. inflight' = << >> \/ (inflight' = <<rdoffset>> /\ rdcmd \in Reading)
    BY <1>6, <2>1 DEF FileChain
  <2> QED
    BY <1>6, <2>1, <2>2 DEF FileChain, FileData
<1> QED
  BY <1>1, <1>2, <1>3, <1>4, <1>5, <1>6 DEF LoopStep

\* With the discipline, the invariant of the data.
LEMMA ChainInvariance ==
    ASSUME Discipline
    PROVE  Spec => []ChainInv
<1>1. Init => ChainInv
  BY IoReadAssumption DEF Init, ChainInv, StreamData, FileData
<1>2. Inv /\ ChainInv /\ [Next]_vars => ChainInv'
  <2> SUFFICES ASSUME Inv, ChainInv, [Next]_vars PROVE ChainInv'
    OBVIOUS
  <2>1. CASE LoopStep
    BY <2>1, LoopChain
  <2>2. CASE \E t \in Threads : Command(t)
    BY <2>2, CommandChain DEF Discipline
  <2>3. CASE UNCHANGED vars
    BY <2>3 DEF vars, ChainInv, StreamData, FileData
  <2> QED
    BY <2>1, <2>2, <2>3 DEF Next
<1> QED
  BY <1>1, <1>2, Invariance, PTL DEF Spec

\* on_read_t: with the discipline, the callback is told the offset its data
\* really have, whatever fails and whichever variables are dropped.
THEOREM OffsetsCorrect ==
    ASSUME Discipline
    PROVE  Spec => []OffsetExact
<1>1. ChainInv => OffsetExact
  BY DEF ChainInv, OffsetExact
<1> QED
  BY <1>1, ChainInvariance, PTL

\* file::read_start(), file::read_cb(): with the discipline, the request
\* structure of a file carries one uv_fs_read() at a time.
THEOREM ChainIsSingle ==
    ASSUME Discipline
    PROVE  Spec => []SingleChain
<1>1. Inv /\ ChainInv => SingleChain
  <2> SUFFICES ASSUME Inv, ChainInv PROVE SingleChain
    OBVIOUS
  <2>1. Len(<< >>) = 0 /\ Len(<<rdoffset>>) = 1
    OBVIOUS
  <2>2. inflight = << >> \/ (inflight = <<rdoffset>> /\ cb = "none")
    BY DEF ChainInv, StreamData, FileData
  <2>3. CASE inflight = << >>
    BY <2>1, <2>3 DEF SingleChain, Bit
  <2>4. CASE inflight = <<rdoffset>> /\ cb = "none"
    BY <2>1, <2>4 DEF SingleChain, Bit
  <2> QED
    BY <2>2, <2>3, <2>4
<1> QED
  BY <1>1, ChainInvariance, Invariance, PTL

-----------------------------------------------------------------------------
(* The commands are atomic.                                                *)

\* A thread inside a command has a reference of its own: read_stop() unlocks
\* rdstate_switch, which is in the instance, after it has released the one
\* of the reading state.
ReachInv == \A t \in Threads : pc[t] # "idle" => var[t] \/ (t = Loop /\ cb = "user")

\* A variable is not dropped, and the callback does not return, in a command.
LEMMA ReachStep == Inv /\ ReachInv /\ [Next]_vars => ReachInv'
<1> SUFFICES ASSUME Inv, ReachInv, [Next]_vars PROVE ReachInv'
  OBVIOUS
<1> USE DEF ReachInv
<1>1. CASE LoopStep
  <2>1. pc' = pc /\ var' = var /\ (cb = "user" => cb' = "user" \/ pc[Loop] = "idle")
    BY <1>1 DEF LoopStep, StreamDelivers, FileDelivers, FileDeliversFreed, CallbackReturns,
       ReadTail, FileChain, EnterCallback, LoopFree
  <2> QED
    BY <2>1
<1>2. ASSUME NEW u \in Threads, Command(u) PROVE ReachInv'
  <2>1. cb' = cb /\ \A t \in Threads : t # u => pc'[t] = pc[t] /\ var'[t] = var[t]
    BY <1>2 DEF Command, SetCallbacks, DropVariable, ReadStart, RestartStop,
       StartSucceeds, StartFails, ReadStop, ReadPause, FinishStop, ReadResume, loopVars, Inv, TypeOK
  <2>2. CASE DropVariable(u)
    BY <2>1, <2>2 DEF DropVariable
  <2>3. CASE ~DropVariable(u)
    <3>1. var' = var
      BY <1>2, <2>3 DEF Command, SetCallbacks, ReadStart, RestartStop,
         StartSucceeds, StartFails, ReadStop, ReadPause, FinishStop, ReadResume
    <3>2. pc[u] # "idle" \/ pc'[u] = "idle" \/ InCallback(u) \/ Outside(u)
      BY <1>2, <2>3 DEF Command, SetCallbacks, ReadStart, RestartStop,
         StartSucceeds, StartFails, ReadStop, ReadPause, FinishStop, ReadResume, MayIssue,
         Inv, TypeOK
    <3>3. pc'[u] # "idle" => var'[u] \/ (u = Loop /\ cb' = "user")
      BY <2>1, <3>1, <3>2 DEF InCallback, Outside
    <3> QED
      BY <2>1, <3>3
  <2> QED
    BY <2>2, <2>3
<1>3. CASE UNCHANGED vars
  BY <1>3 DEF vars
<1> QED
  BY <1>1, <1>2, <1>3 DEF Next

\* The instance exists as long as it is referred to, called back or read.
LEMMA AliveWhileReferenced ==
    Inv => (refs > 0 <=> Holders # {} \/ cb = "user" \/ Mode = "reading")
<1> SUFFICES ASSUME Inv
    PROVE  refs > 0 <=> Holders # {} \/ cb = "user" \/ Mode = "reading"
  OBVIOUS
<1>1. Cardinality(Holders) \in Nat /\ Bit(cb = "user") \in {0, 1} /\ ReadingRefs \in 0 .. 2
  BY HoldersFinite, BitType DEF ReadingRefs, Bit
<1>2. refs = Cardinality(Holders) + Bit(cb = "user") + ReadingRefs
  BY DEF Inv, Accounted
<1>3. Holders # {} <=> Cardinality(Holders) > 0
  BY <1>1, HoldersFinite, FS_EmptySet
<1>4. cb = "user" <=> Bit(cb = "user") > 0
  BY DEF Bit
<1>5. Mode = "reading" <=> ReadingRefs > 0
  <2>1. CASE lock = NoThread
    BY <2>1, IoReadAssumption DEF Inv, TypeOK, LockInv, Mode, ReadingRefs, Bit
  <2>2. CASE lock # NoThread
    <3>1. lock \in Threads /\ pc[lock] # "idle"
      BY <2>2 DEF Inv, TypeOK, LockInv
    <3>2. CASE pc[lock] = "stopUnref"
      BY <2>2, <3>1, <3>2 DEF Mode, ReadingRefs
    <3>3. CASE pc[lock] # "stopUnref"
      <4>1. ~\E t \in Threads : pc[t] = "stopUnref"
        BY <3>3 DEF Inv, LockInv
      <4>2. pc[lock] \in {"restop", "start", "stop"}
        BY <3>1, <3>3 DEF Inv, TypeOK
      <4>3. CASE pc[lock] = "stop"
        BY <2>2, <3>1, <4>1, <4>3 DEF Inv, OwnerInv, Mode, ReadingRefs
      <4>4. CASE pc[lock] \in {"restop", "start"}
        BY <2>2, <3>1, <4>1, <4>4 DEF Inv, OwnerInv, Mode, ReadingRefs
      <4> QED
        BY <4>2, <4>3, <4>4
    <3> QED
      BY <3>2, <3>3
  <2> QED
    BY <2>1, <2>2
<1> QED
  BY <1>1, <1>2, <1>3, <1>4, <1>5

\* The same of the state after a step.
LEMMA AliveAfter ==
    Inv' => (refs > 0 <=> Holders # {} \/ cb = "user" \/ Mode = "reading")'
  BY AliveWhileReferenced, PTL

\* The instance exists exactly while a variable refers to it, its read
\* callback runs, or the commands have it in the reading state.
InstanceKept ==
    refs > 0 <=> (\E t \in Threads : var[t]) \/ cb = "user" \/ Mode = "reading"

\* io::read_start(), read_stop(), ~io(): a reading endpoint outlives its
\* variables, and goes with the last of variable, callback and reading state,
\* even though the uv_fs_read() of a file may still be under way then.
THEOREM InstanceKeptExactly == Spec => []InstanceKept
<1>1. Inv => InstanceKept
  BY AliveWhileReferenced DEF InstanceKept, Holders
<1> QED
  BY <1>1, Invariance, PTL

\* A new endpoint is stopped, and every thread has its variable.
LEMMA InitControl == Init => ReachInv /\ Control!Init
<1> SUFFICES ASSUME Init PROVE ReachInv /\ Control!Init
  OBVIOUS
<1>1. ReachInv
  BY DEF Init, ReachInv
<1>2. Mode = "stopped" /\ Asked = 0
  BY DEF Init, Mode, Asked, Reading, Bit
<1>3. Holders = Threads
  BY DEF Init, Holders
<1>4. (refs > 0) = TRUE
  <2>1. Threads # {} /\ IsFiniteSet(Threads)
    BY IoReadAssumption
  <2> QED
    BY <2>1, FS_EmptySet, FS_CardinalityType DEF Init
<1>5. (cb = "user") = FALSE
  BY DEF Init
<1> QED
  BY <1>1, <1>2, <1>3, <1>4, <1>5 DEF Init, Control!Init, Holders

\* The command that runs, if one does, is at the only step of a stop.
LEMMA ModeOf ==
    Inv =>
        /\ lock = NoThread =>
                /\ rdcmd \in Reading => Mode = "reading"
                /\ rdcmd = "PAUSE" => Mode = "paused"
                /\ rdcmd \in {"UNKNOWN", "STOP"} => Mode = "stopped"
        /\ \A t \in Threads :
                pc[t] \in {"restop", "start", "stopUnref"} => Mode = "reading"
<1> SUFFICES ASSUME Inv
    PROVE  /\ lock = NoThread =>
                /\ rdcmd \in Reading => Mode = "reading"
                /\ rdcmd = "PAUSE" => Mode = "paused"
                /\ rdcmd \in {"UNKNOWN", "STOP"} => Mode = "stopped"
           /\ \A t \in Threads :
                pc[t] \in {"restop", "start", "stopUnref"} => Mode = "reading"
  OBVIOUS
<1>1. lock = NoThread => \A t \in Threads : pc[t] = "idle"
  BY IoReadAssumption DEF Inv, LockInv
<1>3. ASSUME NEW t \in Threads, pc[t] \in {"restop", "start"} PROVE Mode = "reading"
  BY <1>3 DEF Mode, Inv, OwnerInv
<1>5. ASSUME NEW t \in Threads, pc[t] = "stopUnref" PROVE Mode = "reading"
  BY <1>5 DEF Mode
<1>6. ASSUME lock = NoThread
      PROVE  /\ rdcmd \in Reading => Mode = "reading"
             /\ rdcmd = "PAUSE" => Mode = "paused"
             /\ rdcmd \in {"UNKNOWN", "STOP"} => Mode = "stopped"
  BY <1>1, <1>6 DEF Mode, Reading
<1> QED
  BY <1>3, <1>5, <1>6

\* The same of the state after a step.
LEMMA ModeAfter ==
    Inv' =>
        (/\ lock = NoThread =>
                /\ rdcmd \in Reading => Mode = "reading"
                /\ rdcmd = "PAUSE" => Mode = "paused"
                /\ rdcmd \in {"UNKNOWN", "STOP"} => Mode = "stopped"
         /\ \A t \in Threads :
                pc[t] \in {"restop", "start", "stopUnref"} => Mode = "reading")'
  BY ModeOf, PTL

\* Inside a command the instance is there, and the caller has it.
LEMMA CommandReaches ==
    ASSUME Inv, ReachInv, NEW t \in Threads,
           pc[t] # "idle" \/ InCallback(t) \/ Outside(t)
    PROVE  Control!Reaches(t)
<1>1. t \in Holders \/ (t = Loop /\ cb = "user")
  BY DEF ReachInv, InCallback, Outside, Holders
<1>2. refs > 0
  BY <1>1, AliveWhileReferenced
<1> QED
  BY <1>1, <1>2 DEF Control!Reaches, Holders

\* A step that leaves the view as it is.
LEMMA SameView ==
    ASSUME kind' = kind, Mode' = Mode, Holders' = Holders, cb' = "user" <=> cb = "user",
           Asked' = Asked, (refs > 0)' <=> refs > 0
    PROVE  UNCHANGED Control!vars
  BY DEF Control!vars, Holders

\* A step that ends reading, or what is left of a pause, is a stop or a pause.
LEMMA StopView ==
    ASSUME Inv, ReachInv, Inv', NEW t \in Threads,
           pc[t] # "idle" \/ InCallback(t) \/ Outside(t),
           kind' = kind, Holders' = Holders, cb' = cb,
           Asked' = IF kind = "file" THEN Asked ELSE 0,
           \/ Mode' = "stopped"
           \/ Mode = "reading" /\ Mode' = "paused"
    PROVE  Control!Stop(t) \/ Control!Pause(t)
<1>1. Control!Reaches(t)
  BY CommandReaches
<1>2. (refs > 0)' = Control!Referenced'
  BY AliveAfter DEF Control!Referenced, Holders
<1>3. (cb = "user")' = (cb = "user")
  OBVIOUS
<1>4. Asked' = Control!Uncancelled
  BY DEF Control!Uncancelled
<1> QED
  BY <1>1, <1>2, <1>3, <1>4 DEF Control!Stop, Control!Pause, Holders

\* Of the steps of a command one is the command of ReadControl; the others do
\* not show.
LEMMA CommandSimulates ==
    ASSUME Inv, ReachInv, Inv', NEW t \in Threads, Command(t)
    PROVE  [Control!Next]_(Control!vars)
<1> USE DEF loopVars
<1>1. kind' = kind /\ cb' = cb
  BY DEF Command, SetCallbacks, DropVariable, ReadStart, RestartStop,
     StartSucceeds, StartFails, ReadStop, ReadPause, FinishStop, ReadResume
<1>2. (cb = "user")' = (cb = "user")
  BY <1>1
<1>3. CASE SetCallbacks(t)
  <2>1. Mode' = Mode /\ Holders' = Holders /\ Asked' = Asked /\ refs' = refs
    BY <1>3 DEF SetCallbacks, Mode, Holders, Asked
  <2> QED
    BY <1>1, <2>1, SameView
<1>4. CASE DropVariable(t)
  <2>1. Holders' = Holders \ {t} /\ t \in Holders
    BY <1>4 DEF DropVariable, Holders, Inv, TypeOK
  <2>2. Mode' = Mode /\ Asked' = Asked
    BY <1>4 DEF DropVariable, Mode, Asked
  <2>3. (refs > 0)' = Control!Referenced'
    BY AliveAfter DEF Control!Referenced, Holders
  <2>4. Control!Drop(t)
    BY <1>1, <1>2, <2>1, <2>2, <2>3 DEF Control!Drop, Holders
  <2> QED
    BY <2>4 DEF Control!Next
<1>5. CASE \E o \in Offsets : ReadStart(t, o)
  <2>1. PICK o \in Offsets : ReadStart(t, o)
    BY <1>5
  <2>2. Holders' = Holders /\ Asked' = Asked
    BY <2>1 DEF ReadStart, Holders, Asked
  <2>3. lock = NoThread /\ Control!Reaches(t)
    BY <2>1, CommandReaches DEF ReadStart, MayIssue
  <2>4. (refs > 0)' = (refs > 0)
    BY <2>1, <2>3 DEF ReadStart, Control!Reaches, Inv, TypeOK
  <2>5. Mode' = "reading"
    <3>1. pc'[t] \in {"restop", "start"}
      BY <2>1 DEF ReadStart, Inv, TypeOK
    <3> QED
      BY <3>1, ModeAfter
  <2>6. CASE Mode = "reading"
    BY <1>1, <2>2, <2>4, <2>5, <2>6, SameView
  <2>7. CASE Mode # "reading"
    <3>1. Control!Start(t)
      BY <1>1, <1>2, <2>2, <2>3, <2>4, <2>5, <2>7 DEF Control!Start, Holders
    <3> QED
      BY <3>1 DEF Control!Next
  <2> QED
    BY <2>6, <2>7
<1>6. CASE RestartStop(t)
  <2>1. Mode = "reading" /\ Mode' = "reading"
    <3>1. pc[t] = "restop" /\ pc'[t] = "start"
      BY <1>6 DEF RestartStop, Inv, TypeOK
    <3> QED
      BY <3>1, ModeOf, ModeAfter
  <2>2. Holders' = Holders /\ Asked' = IF kind = "file" THEN Asked ELSE 0
    BY <1>1, <1>6 DEF RestartStop, InterfaceStop, Holders, Asked, Bit
  <2>3. (refs > 0)' = (refs > 0)
    BY <2>1, AliveWhileReferenced, AliveAfter
  <2>4. Control!Reaches(t)
    BY <1>6, CommandReaches DEF RestartStop
  <2>5. Control!Restart(t)
    BY <1>1, <1>2, <2>1, <2>2, <2>3, <2>4
    DEF Control!Restart, Control!Uncancelled, Holders
  <2> QED
    BY <2>5 DEF Control!Next
<1>7. CASE StartSucceeds(t)
  <2>1. pc[t] = "start" /\ Mode = "reading" /\ lock' = NoThread /\ rdcmd' = rdcmd
    BY <1>7, ModeOf DEF StartSucceeds
  <2>2. rdcmd \in Reading /\ active = FALSE
    BY <2>1 DEF Inv, OwnerInv
  <2>3. Mode' = "reading"
    BY <2>1, <2>2, ModeAfter
  <2>4. Holders' = Holders /\ (refs > 0)' = (refs > 0) /\ refs > 0
    BY <1>7, <2>1, AliveWhileReferenced DEF StartSucceeds, Holders
  <2>5. Asked' = Asked + 1 /\ (kind # "file" => Asked = 0)
    <3>1. CASE kind = "file"
      BY <1>1, <1>7, <3>1 DEF StartSucceeds, InterfaceStart, FileStart, Asked, Inv, TypeOK
    <3>2. CASE kind # "file"
      BY <1>1, <1>7, <2>2, <3>2 DEF StartSucceeds, InterfaceStart, StreamStart, Asked, Bit
    <3> QED
      BY <3>1, <3>2
  <2>6. Control!Ask
    BY <1>1, <1>2, <2>1, <2>3, <2>4, <2>5 DEF Control!Ask, Holders
  <2> QED
    BY <2>6 DEF Control!Next
<1>8. CASE StartFails(t)
  <2>1. Mode' = "stopped"
    BY <1>8, ModeAfter DEF StartFails
  <2>2. active = FALSE
    BY <1>8 DEF StartFails, Inv, OwnerInv
  <2>3. Holders' = Holders /\ Asked' = IF kind = "file" THEN Asked ELSE 0
    BY <1>1, <1>8, <2>2 DEF StartFails, Holders, Asked, Bit
  <2>4. pc[t] # "idle"
    BY <1>8 DEF StartFails
  <2>5. Control!Stop(t) \/ Control!Pause(t)
    BY <1>1, <2>1, <2>3, <2>4, StopView
  <2> QED
    BY <2>5 DEF Control!Next
<1>9. CASE ReadStop(t)
  <2>1. Holders' = Holders /\ Asked' = Asked /\ lock = NoThread /\ refs' = refs
    BY <1>9 DEF ReadStop, MayIssue, Holders, Asked
  <2>2. CASE rdcmd \in Reading
    <3>1. pc'[t] = "stopUnref"
      BY <1>9, <2>2 DEF ReadStop, Inv, TypeOK
    <3>2. Mode' = Mode
      BY <2>1, <2>2, <3>1, ModeOf, ModeAfter
    <3> QED
      BY <1>1, <2>1, <3>2, SameView
  <2>3. CASE rdcmd \notin Reading
    <3>1. active = FALSE
      BY <2>1, <2>3 DEF Inv, OwnerInv, TypeOK
    <3>2. Asked' = IF kind = "file" THEN Asked ELSE 0
      BY <2>1, <3>1 DEF Asked, Bit
    <3>3. Mode' = "stopped"
      <4>1. rdcmd' = "STOP" /\ ~\E u \in Threads : pc'[u] = "stopUnref"
        BY <1>9, <2>1, <2>3, IoReadAssumption DEF ReadStop, Inv, TypeOK, LockInv
      <4> QED
        BY <4>1 DEF Mode, Reading
    <3>4. InCallback(t) \/ Outside(t)
      BY <1>9 DEF ReadStop, MayIssue
    <3>5. Control!Stop(t) \/ Control!Pause(t)
      BY <1>1, <2>1, <3>2, <3>3, <3>4, StopView
    <3> QED
      BY <3>5 DEF Control!Next
  <2> QED
    BY <2>2, <2>3
<1>10. CASE ReadPause(t)
  <2>1. Holders' = Holders /\ Asked' = Asked /\ lock = NoThread /\ refs' = refs
    BY <1>10 DEF ReadPause, MayIssue, Holders, Asked
  <2>2. rdcmd \in Reading /\ pc'[t] = "stopUnref"
    BY <1>10 DEF ReadPause, Inv, TypeOK
  <2>3. Mode' = Mode
    BY <2>1, <2>2, ModeOf, ModeAfter
  <2> QED
    BY <1>1, <2>1, <2>3, SameView
<1>11. CASE FinishStop(t)
  <2>1. Holders' = Holders /\ Asked' = IF kind = "file" THEN Asked ELSE 0
    BY <1>1, <1>11 DEF FinishStop, InterfaceStop, Holders, Asked, Bit
  <2>2. pc[t] \in {"stop", "stopUnref"} /\ lock' = NoThread /\ rdcmd' = rdcmd
    BY <1>11 DEF FinishStop
  <2>3. rdcmd \notin Reading
    BY <2>2 DEF Inv, OwnerInv
  <2>4. CASE pc[t] = "stop"
    <3>1. active = FALSE /\ refs' = refs
      BY <1>11, <2>4 DEF FinishStop, Inv, OwnerInv
    <3>2. Asked' = Asked
      BY <2>1, <3>1 DEF Asked, Bit
    <3>3. \A u \in Threads : pc[u] # "stopUnref"
      BY <2>4 DEF Inv, LockInv
    <3>4. \A u \in Threads : pc'[u] # "stopUnref"
      BY <1>11, <3>3 DEF FinishStop, Inv, TypeOK
    <3>5. Mode' = Mode
      BY <2>2, <3>3, <3>4 DEF Mode
    <3> QED
      BY <1>1, <2>1, <3>1, <3>2, <3>5, SameView
  <2>5. CASE pc[t] = "stopUnref"
    <3>1. Mode = "reading"
      BY <2>5, ModeOf
    <3>2. rdcmd = "PAUSE" \/ rdcmd \in {"UNKNOWN", "STOP"}
      BY <2>3 DEF Reading, Inv, TypeOK, RdCmd
    <3>3. Mode' = "stopped" \/ Mode' = "paused"
      BY <2>2, <3>2, ModeAfter
    <3>4. pc[t] # "idle"
      BY <2>5
    <3>5. Control!Stop(t) \/ Control!Pause(t)
      BY <1>1, <2>1, <3>1, <3>3, <3>4, StopView
    <3> QED
      BY <3>5 DEF Control!Next
  <2> QED
    BY <2>2, <2>4, <2>5
<1>12. CASE ReadResume(t)
  <2>1. Holders' = Holders /\ Asked' = Asked /\ lock = NoThread /\ rdcmd = "PAUSE"
    BY <1>12 DEF ReadResume, MayIssue, Holders, Asked
  <2>2. Mode = "paused"
    BY <2>1, ModeOf
  <2>3. Mode' = "reading"
    <3>1. pc'[t] = "start"
      BY <1>12 DEF ReadResume, Inv, TypeOK
    <3> QED
      BY <3>1, ModeAfter
  <2>4. Control!Reaches(t)
    BY <1>12, CommandReaches DEF ReadResume, MayIssue
  <2>5. (refs > 0)' = (refs > 0)
    BY <1>12, <2>4 DEF ReadResume, Control!Reaches, Inv, TypeOK
  <2>6. Control!Resume(t)
    BY <1>1, <1>2, <2>1, <2>2, <2>3, <2>4, <2>5 DEF Control!Resume, Holders
  <2> QED
    BY <2>6 DEF Control!Next
<1> QED
  BY <1>3, <1>4, <1>5, <1>6, <1>7, <1>8, <1>9, <1>10, <1>11, <1>12 DEF Command

\* The loop thread answers reads that were asked for and lets the callback
\* begin and end.
LEMMA LoopSimulates ==
    ASSUME Inv, Inv', LoopStep
    PROVE  [Control!Next]_(Control!vars)
<1>1. kind' = kind /\ rdcmd' = rdcmd /\ lock' = lock /\ var' = var /\ pc' = pc
  BY DEF LoopStep, StreamDelivers, FileDelivers, FileDeliversFreed, CallbackReturns,
     ReadTail, FileChain
<1>2. Mode' = Mode /\ Holders' = Holders
  BY <1>1 DEF Mode, Holders
<1>3. ASSUME NEW n \in {-1, 1}, StreamDelivers(n) PROVE [Control!Next]_(Control!vars)
  <2>1. kind # "file" /\ cb = "none" /\ cb' = "user" /\ active = TRUE
    BY <1>3 DEF StreamDelivers, LoopFree, EnterCallback, Inv, TypeOK
  <2>2. Asked = 1
    BY <2>1 DEF Asked, Bit
  <2>3. Asked' = Asked - 1 \/ Asked' = Asked
    BY <1>1, <2>1, <2>2 DEF Asked, Bit
  <2>4. Mode = "reading"
    <3>1. CASE lock = NoThread
      BY <2>1, <3>1, ModeOf DEF Inv, OwnerInv
    <3>2. CASE lock # NoThread
      <4>1. lock \in Threads /\ pc[lock] # "idle"
        BY <3>2 DEF Inv, TypeOK, LockInv
      <4>2. pc[lock] \in {"restop", "stopUnref"}
        BY <2>1, <4>1 DEF Inv, OwnerInv, TypeOK
      <4> QED
        BY <4>1, <4>2, ModeOf
    <3> QED
      BY <3>1, <3>2
  <2>5. (refs > 0)' = (refs > 0) /\ refs > 0
    BY <1>2, <2>4, AliveWhileReferenced, AliveAfter
  <2>6. ~(cb = "user") /\ (cb = "user")' = TRUE
    BY <2>1
  <2>7. Control!Answer
    BY <1>1, <1>2, <2>1, <2>2, <2>3, <2>5, <2>6 DEF Control!Answer, Holders
  <2> QED
    BY <2>7 DEF Control!Next
<1>4. ASSUME NEW n \in {-1, 1}, FileDelivers(n) PROVE [Control!Next]_(Control!vars)
  <2>1. kind = "file" /\ cb = "none" /\ cb' = "user"
    BY <1>4 DEF FileDelivers, LoopFree, EnterCallback
  <2>2. Asked > 0 /\ Asked' = Asked - 1
    BY <1>1, <1>4, <2>1 DEF FileDelivers, Asked, Inv, TypeOK
  <2>3. (refs > 0)' = (refs > 0) /\ refs > 0
    BY <1>4 DEF FileDelivers, EnterCallback, Inv, TypeOK
  <2>4. ~(cb = "user") /\ (cb = "user")' = TRUE
    BY <2>1
  <2>5. Control!Answer
    BY <1>1, <1>2, <2>2, <2>3, <2>4 DEF Control!Answer, Holders
  <2> QED
    BY <2>5 DEF Control!Next
<1>5. CASE FileDeliversFreed
  <2>1. kind = "file" /\ refs = 0 /\ refs' = refs /\ cb' = cb
    BY <1>5 DEF FileDeliversFreed
  <2>2. Asked > 0 /\ Asked' = Asked - 1
    BY <1>1, <1>5, <2>1 DEF FileDeliversFreed, Asked, Inv, TypeOK
  <2>3. ~(refs > 0) /\ (refs > 0)' = (refs > 0) /\ (cb = "user")' = (cb = "user")
    BY <2>1
  <2>4. Control!Orphan
    BY <1>1, <1>2, <2>1, <2>2, <2>3 DEF Control!Orphan, Holders
  <2> QED
    BY <2>4 DEF Control!Next
<1>6. CASE CallbackReturns
  <2>1. Asked' = Asked
    BY <1>6 DEF CallbackReturns, Asked
  <2>2. cb = "user" /\ (cb = "user")' = FALSE
    BY <1>6 DEF CallbackReturns
  <2>3. (refs > 0)' = Control!Referenced'
    BY AliveAfter DEF Control!Referenced, Holders
  <2>4. Control!Return
    BY <1>1, <1>2, <2>1, <2>2, <2>3 DEF Control!Return, Holders
  <2> QED
    BY <2>4 DEF Control!Next
<1>7. CASE ReadTail
  <2>1. Asked' = Asked /\ refs' = refs /\ cb # "user" /\ cb' # "user"
    BY <1>7 DEF ReadTail, Asked
  <2> QED
    BY <1>1, <1>2, <2>1, SameView
<1>8. CASE FileChain
  <2>1. refs' = refs /\ cb # "user" /\ cb' # "user" /\ active' = active
    BY <1>8 DEF FileChain
  <2>2. CASE inflight' = inflight
    <3>1. Asked' = Asked
      BY <1>1, <2>1, <2>2 DEF Asked
    <3> QED
      BY <1>1, <1>2, <2>1, <3>1, SameView
  <2>3. CASE kind # "file"
    <3>1. Asked' = Asked
      BY <1>1, <2>1, <2>3 DEF Asked
    <3> QED
      BY <1>1, <1>2, <2>1, <3>1, SameView
  <2>4. CASE kind = "file" /\ inflight' # inflight
    <3>1. rdcmd \in Reading /\ inflight' = Append(inflight, rdoffset)
      BY <1>8, <2>4 DEF FileChain
    <3>2. Asked' = Asked + 1
      BY <1>1, <2>4, <3>1 DEF Asked, Inv, TypeOK
    <3>3. Mode = "reading"
      BY <3>1 DEF Mode
    <3>4. refs > 0 /\ (refs > 0)' = (refs > 0)
      BY <2>1, <3>3, AliveWhileReferenced
    <3>5. (cb = "user")' = (cb = "user")
      BY <2>1
    <3>6. Control!Ask
      BY <1>1, <1>2, <2>4, <3>2, <3>3, <3>4, <3>5 DEF Control!Ask, Holders
    <3> QED
      BY <3>6 DEF Control!Next
  <2> QED
    BY <2>2, <2>3, <2>4
<1> QED
  BY <1>3, <1>4, <1>5, <1>6, <1>7, <1>8 DEF LoopStep

\* io::read_start(), read_stop(), read_pause(), read_resume(), io_read_cb(),
\* file::read_cb(): with any threads and any commands, whether the starts
\* fail or not, every step is an atomic command of the control, an answer to
\* a read it has asked for, or invisible.
THEOREM Implements == Spec => ControlSpec
<1>1. Init => ReachInv /\ Control!Init
  BY InitControl
<1>2. Inv /\ Inv' /\ ReachInv /\ [Next]_vars => [Control!Next]_(Control!vars)
  <2> SUFFICES ASSUME Inv, Inv', ReachInv, [Next]_vars
               PROVE  [Control!Next]_(Control!vars)
    OBVIOUS
  <2>1. CASE LoopStep
    BY <2>1, LoopSimulates
  <2>2. ASSUME NEW t \in Threads, Command(t) PROVE [Control!Next]_(Control!vars)
    BY <2>2, CommandSimulates
  <2>3. CASE UNCHANGED vars
    <3>1. Mode' = Mode /\ Holders' = Holders /\ Asked' = Asked
      BY <2>3 DEF vars, Mode, Holders, Asked
    <3> QED
      BY <2>3, <3>1, SameView DEF vars
  <2> QED
    BY <2>1, <2>2, <2>3 DEF Next
<1> QED
  BY <1>1, <1>2, ReachStep, Invariance, PTL DEF Spec, ControlSpec, Control!Spec

-----------------------------------------------------------------------------
(* Reading goes on.                                                        *)

\* A file that is being read has a uv_fs_read() to complete, a callback that
\* will set off the next one, or a start on its way.
ChainUnbroken ==
    kind = "file" /\ rdcmd \in Reading =>
        \/ inflight # << >>
        \/ cb # "none"
        \/ \E t \in Threads : pc[t] \in {"restop", "start"}

\* Every step keeps one of them.
LEMMA UnbrokenStep ==
    ASSUME Failures = FALSE, Inv, ChainUnbroken, [Next]_vars
    PROVE  ChainUnbroken'
<1> SUFFICES ASSUME kind' = "file", rdcmd' \in Reading, cb' = "none",
                    \A t \in Threads : pc'[t] \notin {"restop", "start"}
             PROVE  inflight' # << >>
  BY DEF ChainUnbroken
<1>1. CASE LoopStep
  <2>1. kind = "file" /\ rdcmd \in Reading /\ pc' = pc
    BY <1>1 DEF LoopStep, StreamDelivers, FileDelivers, FileDeliversFreed, CallbackReturns,
       ReadTail, FileChain
  <2>2. refs > 0
    BY <2>1, AliveWhileReferenced DEF Mode
  <2>3. FileChain
    BY <1>1, <2>1, <2>2 DEF LoopStep, StreamDelivers, FileDelivers, FileDeliversFreed,
       CallbackReturns, ReadTail, EnterCallback
  <2>4. inflight' = Append(inflight, rdoffset)
    BY <2>1, <2>3 DEF FileChain
  <2> QED
    BY <2>4 DEF Inv, TypeOK
<1>2. ASSUME NEW t \in Threads, Command(t) PROVE inflight' # << >>
  <2>1. kind = "file" /\ cb = "none"
    BY <1>2 DEF Command, SetCallbacks, DropVariable, ReadStart, RestartStop, StartSucceeds,
       StartFails, ReadStop, ReadPause, FinishStop, ReadResume, loopVars
  <2>2. CASE StartSucceeds(t)
    <3>1. inflight' = Append(inflight, rdoffset')
      BY <2>1, <2>2 DEF StartSucceeds, InterfaceStart, FileStart
    <3>2. inflight \in Seq(Nat)
      BY DEF Inv, TypeOK
    <3> QED
      BY <3>1, <3>2
  <2>3. CASE SetCallbacks(t) \/ DropVariable(t)
    BY <2>1, <2>3 DEF SetCallbacks, DropVariable, ChainUnbroken
  <2>4. CASE (\E o \in Offsets : ReadStart(t, o)) \/ RestartStop(t) \/ ReadResume(t)
    <3>1. pc'[t] \in {"restop", "start"}
      BY <2>4 DEF ReadStart, RestartStop, ReadResume, Inv, TypeOK
    <3> QED
      BY <3>1
  <2>5. CASE StartFails(t)
    BY <2>5 DEF StartFails
  <2>6. CASE ReadStop(t) \/ ReadPause(t)
    BY <2>6 DEF ReadStop, ReadPause, Reading
  <2>7. CASE FinishStop(t)
    BY <2>7 DEF FinishStop, Inv, OwnerInv
  <2> QED
    BY <1>2, <2>2, <2>3, <2>4, <2>5, <2>6, <2>7 DEF Command
<1>3. CASE UNCHANGED vars
  BY <1>3 DEF vars, ChainUnbroken
<1> QED
  BY <1>1, <1>2, <1>3 DEF Next

\* file::read_start(), file::read_cb(): a file that is being read never
\* stands still, whichever threads stop, pause, resume and restart it: the
\* safety half of KeepsReading, if uv_fs_read() is not refused.
THEOREM ChainNeverBreaks ==
    ASSUME Failures = FALSE
    PROVE  Spec => []ChainUnbroken
<1>1. Init => ChainUnbroken
  BY DEF Init, ChainUnbroken, Reading
<1>2. Inv /\ ChainUnbroken /\ [Next]_vars => ChainUnbroken'
  BY UnbrokenStep
<1> QED
  BY <1>1, <1>2, Invariance, PTL DEF Spec
=============================================================================
