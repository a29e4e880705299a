------------------------------- MODULE IoRead -------------------------------
(***************************************************************************)
(* Read control of an I/O endpoint: io::read_start, read_stop, read_pause  *)
(* and read_resume (handle-io.hpp), the read_start/read_stop interfaces    *)
(* and read callbacks of stream, udp and file endpoints, for one endpoint. *)
(*                                                                         *)
(* A control command runs under the rdstate_switch spinlock; the callback  *)
(* path of the loop thread does not take it.  A command is therefore       *)
(* several steps: taking the lock and switching the state, the stop of a   *)
(* restart, the call of the endpoint's interface.  The user code acts      *)
(* from the read callback (on the loop thread) and from outside of it (on  *)
(* any thread), through the variable it holds there.                       *)
(*                                                                         *)
(* One data unit is read at a time; what was read is abstracted to where   *)
(* it was read.  References are counted atomically (module RefCount).      *)
(***************************************************************************)
EXTENDS Integers, FiniteSets, Sequences

CONSTANTS
    Kinds,         \* of "stream" (pipe, tcp, tty), "udp" and "file"
    Threads,
    Loop,          \* the thread that runs the loop
    NoThread,
    Droppers,      \* threads that may drop their handle variable
    CallbackCmds,  \* commands the read callback issues
    OutsideCmds,   \* commands issued elsewhere
    Restarts,      \* whether read_start is issued while reading
    Offsets,       \* _offset arguments of read_start
    Failures,      \* whether the libuv start functions can fail
    MaxReads,      \* bound: data units delivered
    MaxInflight    \* bound: uv_fs_read() calls not yet completed

Cmds == {"start", "stop", "pause", "resume"}

ASSUME IoReadAssumption ==
    /\ Kinds \subseteq {"stream", "udp", "file"}
    /\ IsFiniteSet(Threads)
    /\ Loop \in Threads
    /\ NoThread \notin Threads
    /\ Droppers \subseteq Threads
    /\ CallbackCmds \subseteq Cmds
    /\ OutsideCmds \subseteq Cmds
    /\ Restarts \in BOOLEAN
    /\ Offsets \subseteq Nat \union {-1}
    /\ Failures \in BOOLEAN
    /\ MaxReads \in Nat
    /\ MaxInflight \in Nat

VARIABLES
    kind,      \* the kind of the endpoint
    rdcmd,     \* properties::rdcmd_state
    lock,      \* the thread that owns rdstate_switch
    rdoffset,  \* properties::rdoffset
    callbacks, \* alloc_cb and read_cb have been set
    refs,      \* the reference count of the instance; 0 is deleted
    var,       \* var[t]: t holds a handle variable
    pc,        \* pc[t]: where t is in a control command
    off,       \* off[t]: the offset argument of the interface call
    active,    \* stream, udp: libuv is reading
    inflight,  \* file: offsets of the uv_fs_read() calls not yet completed
    cb,        \* the loop thread: "none", "user" callback, "tail", "chain"
    nread,     \* of the callback being run
    cboff,     \* the _offset argument of the callback being run
    trueoff,   \* the offset this data really has
    position,  \* stream, udp: the offset of the next data
    reads,     \* data units delivered so far
    fault      \* the instance was used after it had been deleted

vars == <<kind, rdcmd, lock, rdoffset, callbacks, refs, var, pc, off, active,
          inflight, cb, nread, cboff, trueoff, position, reads, fault>>

RdCmd == {"UNKNOWN", "STOP", "PAUSE", "START", "RESUME"}
Reading == {"START", "RESUME"}

TypeOK ==
    /\ kind \in Kinds
    /\ rdcmd \in RdCmd
    /\ lock \in Threads \union {NoThread}
    /\ rdoffset \in Nat
    /\ callbacks \in BOOLEAN
    /\ refs \in Nat
    /\ var \in [Threads -> BOOLEAN]
    /\ pc \in [Threads -> {"idle", "restop", "start", "stop", "stopUnref"}]
    /\ off \in [Threads -> Nat \union {-1}]
    /\ active \in BOOLEAN
    /\ inflight \in Seq(Nat)
    /\ cb \in {"none", "user", "tail", "chain"}
    /\ nread \in {-1, 0, 1}
    /\ cboff \in Nat
    /\ trueoff \in Nat
    /\ position \in Nat
    /\ reads \in Nat
    /\ fault \in BOOLEAN

Init ==
    /\ kind \in Kinds
    /\ rdcmd = "UNKNOWN"
    /\ lock = NoThread
    /\ rdoffset = 0
    /\ callbacks = FALSE
    /\ refs = Cardinality(Threads)
    /\ var = [t \in Threads |-> TRUE]
    /\ pc = [t \in Threads |-> "idle"]
    /\ off = [t \in Threads |-> 0]
    /\ active = FALSE
    /\ inflight = << >>
    /\ cb = "none"
    /\ nread = 0
    /\ cboff = 0
    /\ trueoff = 0
    /\ position = 0
    /\ reads = 0
    /\ fault = FALSE

loopVars == <<kind, cb, nread, cboff, trueoff, reads, fault>>

-----------------------------------------------------------------------------
(* The user code that issues a command.                                    *)

\* t is running user code that can reach the instance: the callback through
\* its io parameter, other code through a variable.
InCallback(t) == t = Loop /\ cb = "user"
Outside(t) == var[t] /\ (t = Loop => cb = "none")

\* Bound on the reads of a file that commands set off.
Bounded == Len(inflight) + (IF cb = "none" THEN 0 ELSE 1) < MaxInflight

MayIssue(t, cmd) ==
    /\ pc[t] = "idle"
    /\ lock = NoThread
    /\ \/ InCallback(t) /\ cmd \in CallbackCmds
       \/ Outside(t) /\ cmd \in OutsideCmds

\* io.on_alloc() = ..., io.on_read() = ..., not under the lock.
SetCallbacks(t) ==
    /\ pc[t] = "idle"
    /\ InCallback(t) \/ Outside(t)
    /\ ~callbacks
    /\ callbacks' = TRUE
    /\ UNCHANGED <<rdcmd, lock, rdoffset, refs, var, pc, off, active, inflight,
                   position, loopVars>>

\* The user code lets its variable go.
DropVariable(t) ==
    /\ t \in Droppers
    /\ pc[t] = "idle"
    /\ var[t]
    /\ t = Loop => cb \in {"none", "user"}
    /\ var' = [var EXCEPT ![t] = FALSE]
    /\ refs' = refs - 1
    /\ UNCHANGED <<rdcmd, lock, rdoffset, callbacks, pc, off, active, inflight,
                   position, loopVars>>

-----------------------------------------------------------------------------
(* The control commands.                                                   *)

\* read_start(): refused with UV_EINVAL, changing nothing, until both
\* callbacks are set.
ReadStart(t, o) ==
    /\ MayIssue(t, "start")
    /\ Bounded
    /\ callbacks
    /\ rdcmd \in Reading => Restarts
    /\ lock' = t
    /\ rdcmd' = "START"
    /\ refs' = refs + 1
    /\ off' = [off EXCEPT ![t] = o]
    /\ pc' = [pc EXCEPT ![t] = IF rdcmd \in Reading THEN "restop" ELSE "start"]
    /\ UNCHANGED <<rdoffset, callbacks, var, active, inflight, position, loopVars>>

\* The endpoint's read_stop(): nothing for a file, whose uv_fs_read() runs on.
InterfaceStop == active' = FALSE

\* Mutant: a restart keeps the reference of the start before.
RestartStop_Leaks(t) ==
    /\ pc[t] = "restop"
    /\ InterfaceStop
    /\ pc' = [pc EXCEPT ![t] = "start"]
    /\ UNCHANGED <<rdcmd, lock, rdoffset, callbacks, refs, var, off, inflight, position,
                   loopVars>>

\* The "restart" case: the endpoint is stopped and one reference released.
RestartStop(t) ==
    /\ pc[t] = "restop"
    /\ InterfaceStop
    /\ refs' = refs - 1
    /\ pc' = [pc EXCEPT ![t] = "start"]
    /\ UNCHANGED <<rdcmd, lock, rdoffset, callbacks, var, off, inflight, position,
                   loopVars>>

\* stream and udp read_start().
StreamStart(o) ==
    /\ rdoffset' = IF o >= 0 THEN o ELSE rdoffset
    /\ active' = TRUE
    /\ UNCHANGED inflight

\* lseek() at a file that is only read with explicit offsets.
FilePosition == 0

\* file read_start() and its file_read().
FileStart(o) ==
    /\ rdoffset' = IF o >= 0 THEN o ELSE FilePosition
    /\ inflight' = Append(inflight, rdoffset')
    /\ UNCHANGED active

InterfaceStart(o) == IF kind = "file" THEN FileStart(o) ELSE StreamStart(o)

\* A start with an offset, but not a resume, renames the position of the data.
PositionAfter(t) ==
    IF rdcmd = "START" /\ off[t] >= 0 THEN off[t] ELSE position

\* The call of the endpoint's read_start() succeeds.
StartSucceeds(t) ==
    /\ pc[t] = "start"
    /\ InterfaceStart(off[t])
    /\ position' = PositionAfter(t)
    /\ pc' = [pc EXCEPT ![t] = "idle"]
    /\ off' = [off EXCEPT ![t] = 0]
    /\ lock' = NoThread
    /\ UNCHANGED <<rdcmd, callbacks, refs, var, loopVars>>

\* It fails: the reference is released, and the state forgotten.
StartFails(t) ==
    /\ Failures
    /\ pc[t] = "start"
    /\ rdoffset' = IF off[t] >= 0 THEN off[t]
                   ELSE IF kind = "file" THEN FilePosition ELSE rdoffset
    /\ position' = PositionAfter(t)
    /\ rdcmd' = "UNKNOWN"
    /\ refs' = refs - 1
    /\ pc' = [pc EXCEPT ![t] = "idle"]
    /\ off' = [off EXCEPT ![t] = 0]
    /\ lock' = NoThread
    /\ UNCHANGED <<callbacks, var, active, inflight, loopVars>>

\* Mutant: a reference is released whether or not the endpoint was reading.
ReadStop_AlwaysUnref(t) ==
    /\ MayIssue(t, "stop")
    /\ lock' = t
    /\ rdcmd' = "STOP"
    /\ pc' = [pc EXCEPT ![t] = "stopUnref"]
    /\ UNCHANGED <<rdoffset, callbacks, refs, var, off, active, inflight, position,
                   loopVars>>

ReadStop(t) ==
    /\ MayIssue(t, "stop")
    /\ lock' = t
    /\ rdcmd' = "STOP"
    /\ pc' = [pc EXCEPT ![t] = IF rdcmd \in Reading THEN "stopUnref" ELSE "stop"]
    /\ UNCHANGED <<rdoffset, callbacks, refs, var, off, active, inflight, position,
                   loopVars>>

\* read_pause(true); a no-op unless reading.
ReadPause(t) ==
    /\ MayIssue(t, "pause")
    /\ rdcmd \in Reading
    /\ lock' = t
    /\ rdcmd' = "PAUSE"
    /\ pc' = [pc EXCEPT ![t] = "stopUnref"]
    /\ UNCHANGED <<rdoffset, callbacks, refs, var, off, active, inflight, position,
                   loopVars>>

\* The call of the endpoint's read_stop() that ends read_stop() and
\* read_pause().
FinishStop(t) ==
    /\ pc[t] \in {"stop", "stopUnref"}
    /\ InterfaceStop
    /\ refs' = IF pc[t] = "stopUnref" THEN refs - 1 ELSE refs
    /\ pc' = [pc EXCEPT ![t] = "idle"]
    /\ lock' = NoThread
    /\ UNCHANGED <<rdcmd, rdoffset, callbacks, var, off, inflight, position, loopVars>>

\* read_resume(true); a no-op unless paused.  rdoffset is read here and
\* stored by the interface call.
ReadResume(t) ==
    /\ MayIssue(t, "resume")
    /\ Bounded
    /\ rdcmd = "PAUSE"
    /\ lock' = t
    /\ rdcmd' = "RESUME"
    /\ refs' = refs + 1
    /\ off' = [off EXCEPT ![t] = rdoffset]
    /\ pc' = [pc EXCEPT ![t] = "start"]
    /\ UNCHANGED <<rdoffset, callbacks, var, active, inflight, position, loopVars>>

-----------------------------------------------------------------------------
(* The loop thread.                                                        *)

LoopFree == pc[Loop] = "idle" /\ cb = "none"

\* io_read_cb() up to the call of the user callback, which gets a reference
\* in its io parameter.
EnterCallback(n) ==
    /\ n = 1 => reads < MaxReads
    /\ cb' = "user"
    /\ nread' = n
    /\ cboff' = rdoffset
    /\ refs' = refs + 1
    /\ reads' = IF n = 1 THEN reads + 1 ELSE reads

\* libuv has data, an error or the end for a stream or a udp endpoint; after
\* an error or the end a stream is not read any more.
StreamDelivers(n) ==
    /\ kind # "file"
    /\ LoopFree
    /\ active
    /\ EnterCallback(n)
    /\ trueoff' = position
    /\ position' = IF n = 1 THEN position + 1 ELSE position
    /\ active' = IF n = 1 \/ kind = "udp" THEN active ELSE FALSE
    /\ UNCHANGED <<kind, rdcmd, lock, rdoffset, callbacks, var, pc, off, inflight, fault>>

\* A uv_fs_read() has completed: file::read_cb() up to the user callback.
FileDelivers(n) ==
    /\ kind = "file"
    /\ LoopFree
    /\ inflight # << >>
    /\ refs > 0
    /\ EnterCallback(n)
    /\ trueoff' = Head(inflight)
    /\ inflight' = Tail(inflight)
    /\ UNCHANGED <<kind, rdcmd, lock, rdoffset, callbacks, var, pc, off, active, position,
                   fault>>

\* The same, but the instance behind the request has been deleted.
FileDeliversFreed ==
    /\ kind = "file"
    /\ LoopFree
    /\ inflight # << >>
    /\ refs = 0
    /\ fault' = TRUE
    /\ inflight' = Tail(inflight)
    /\ UNCHANGED <<kind, rdcmd, lock, rdoffset, callbacks, refs, var, pc, off, active, cb,
                   nread, cboff, trueoff, position, reads>>

\* The user callback returns; its io parameter is destroyed.
CallbackReturns ==
    /\ cb = "user"
    /\ pc[Loop] = "idle"
    /\ refs' = refs - 1
    /\ cb' = "tail"
    /\ UNCHANGED <<kind, rdcmd, lock, rdoffset, callbacks, var, pc, off, active, inflight,
                   nread, cboff, trueoff, position, reads, fault>>

\* Mutant: the offset does not follow the data.
ReadTail_SameOffset ==
    /\ cb = "tail"
    /\ cb' = IF kind = "file" THEN "chain" ELSE "none"
    /\ UNCHANGED <<kind, rdcmd, lock, rdoffset, callbacks, refs, var, pc, off, active,
                   inflight, nread, cboff, trueoff, position, reads, fault>>

\* The end of io_read_cb().
ReadTail ==
    /\ cb = "tail"
    /\ rdoffset' = IF nread > 0 THEN rdoffset + nread ELSE rdoffset
    /\ fault' = (fault \/ (nread > 0 /\ refs = 0))
    /\ cb' = IF kind = "file" THEN "chain" ELSE "none"
    /\ UNCHANGED <<kind, rdcmd, lock, callbacks, refs, var, pc, off, active, inflight,
                   nread, cboff, trueoff, position, reads>>

\* Mutants: the next read is issued in any state, or only after a start.
FileChain_Always ==
    /\ cb = "chain"
    /\ inflight' = Append(inflight, rdoffset)
    /\ fault' = (fault \/ refs = 0)
    /\ cb' = "none"
    /\ UNCHANGED <<kind, rdcmd, lock, rdoffset, callbacks, refs, var, pc, off, active,
                   nread, cboff, trueoff, position, reads>>

FileChain_NotResumed ==
    /\ cb = "chain"
    /\ inflight' = IF rdcmd = "START" THEN Append(inflight, rdoffset) ELSE inflight
    /\ fault' = (fault \/ refs = 0)
    /\ cb' = "none"
    /\ UNCHANGED <<kind, rdcmd, lock, rdoffset, callbacks, refs, var, pc, off, active,
                   nread, cboff, trueoff, position, reads>>

\* The end of file::read_cb(): the request is cleaned up and, without the
\* lock, the state decides whether the next read is issued.  If that fails
\* the chain ends, in the state it is in.
FileChain ==
    /\ cb = "chain"
    /\ \/ rdcmd \in Reading /\ inflight' = Append(inflight, rdoffset)
       \/ rdcmd \in Reading /\ Failures /\ UNCHANGED inflight
       \/ rdcmd \notin Reading /\ UNCHANGED inflight
    /\ fault' = (fault \/ refs = 0)
    /\ cb' = "none"
    /\ UNCHANGED <<kind, rdcmd, lock, rdoffset, callbacks, refs, var, pc, off, active,
                   nread, cboff, trueoff, position, reads>>

-----------------------------------------------------------------------------
Command(t) ==
    \/ SetCallbacks(t)
    \/ DropVariable(t)
    \/ \E o \in Offsets : ReadStart(t, o)
    \/ RestartStop(t)
    \/ StartSucceeds(t)
    \/ StartFails(t)
    \/ ReadStop(t)
    \/ ReadPause(t)
    \/ FinishStop(t)
    \/ ReadResume(t)

LoopStep ==
    \/ \E n \in {-1, 1} : StreamDelivers(n) \/ FileDelivers(n)
    \/ FileDeliversFreed
    \/ CallbackReturns
    \/ ReadTail
    \/ FileChain

Next == LoopStep \/ \E t \in Threads : Command(t)

Spec == Init /\ [][Next]_vars

\* The loop thread runs, callbacks return, and a thread inside a command
\* goes on with it.
Fairness ==
    /\ WF_vars(LoopStep)
    /\ \A t \in Threads :
          WF_vars(RestartStop(t) \/ StartSucceeds(t) \/ FinishStop(t))

FairSpec == Spec /\ Fairness

-----------------------------------------------------------------------------
(* Properties.                                                             *)

Bit(b) == IF b THEN 1 ELSE 0

\* read_start/stop/pause/resume: whenever no command is running, the
\* instance is referenced by the variables, by the callback parameter, and
\* once more exactly while the endpoint is in a reading state.
ReferencesAccounted ==
    lock = NoThread =>
        refs = Cardinality({t \in Threads : var[t]})
                 + Bit(cb = "user") + Bit(rdcmd \in Reading)

\* io_read_cb(), file::read_cb(): no callback path uses the instance after
\* it has been deleted.
NoUseAfterFree == ~fault

\* on_read_t: the _offset the callback gets is the offset its data has.
OffsetExact == cb = "user" => cboff = trueoff

\* file::read_start(): "a chain of calls": the endpoint's only request
\* structure carries one uv_fs_read() at a time.
SingleChain == Len(inflight) + Bit(cb \in {"user", "tail", "chain"}) <= 1

\* read_start(): "the loop keeps trying to read from the file until
\* read_stop() is explicitly called".
KeepsReading ==
    (kind = "file" /\ rdcmd \in Reading /\ cb = "none")
        ~> (cb = "user" \/ rdcmd \notin Reading)

\* The state that the commands have agreed on: a stop or a pause takes effect
\* when libuv has been told, everything else with the switch of the state.
Mode ==
    IF rdcmd \in Reading \/ \E t \in Threads : pc[t] = "stopUnref" THEN "reading"
    ELSE IF rdcmd = "PAUSE" THEN "paused"
    ELSE "stopped"

\* The reads that libuv has been asked for.
Asked == IF kind = "file" THEN Len(inflight) ELSE Bit(active)

\* read_stop()/read_pause(): from the switch of the state on, libuv is asked
\* for no further read, until the next start or resume, and a stream or a
\* datagram socket is not read at all once the command has returned.  A file
\* is different: the uv_fs_read() that was under way runs on, and calls back
\* after the stop, but file::read_cb() does not add another one to it.
NoReadAfterStop ==
    [][rdcmd \notin Reading =>
          /\ Asked' <= Asked
          /\ lock = NoThread /\ kind # "file" => Asked = 0]_vars

\* io::read_start(), read_stop(), read_pause(), read_resume(), io_read_cb(),
\* file::read_cb(): in every interleaving the endpoint behaves as if the
\* commands were the atomic ones of the table at read_resume(); each command
\* has a reference to the instance until it returns, and the instance goes
\* exactly when it is not read, not called back and not referred to any more.
Control == INSTANCE ReadControl WITH
               mode <- Mode,
               held <- {t \in Threads : var[t]},
               calling <- cb = "user",
               asked <- Asked,
               alive <- refs > 0

ControlSpec == Control!Spec
=============================================================================
