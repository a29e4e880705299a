---------------------------- MODULE ReadControl ----------------------------
(***************************************************************************)
(* What the read control of an I/O endpoint promises: the commands are the *)
(* atomic ones of the table at io::read_resume() (handle-io.hpp), although *)
(* any thread issues them; reads are asked for only while reading, and a   *)
(* stop or a pause cancels them, except those of a file; and the instance  *)
(* lives as long as it reads, its callback runs or a variable refers to    *)
(* it.  Module IoRead implements it, with a lock that the callback path    *)
(* does not take.                                                          *)
(***************************************************************************)
EXTENDS Naturals

CONSTANTS Kinds, Threads, Loop

VARIABLES
    kind,     \* of the endpoint
    mode,     \* "stopped", "paused" or "reading"
    held,     \* threads that hold a variable
    calling,  \* the read callback is running, on the thread Loop
    asked,    \* reads that libuv has been asked for and has not answered
    alive     \* the instance exists

vars == <<kind, mode, held, calling, asked, alive>>

Init ==
    /\ kind \in Kinds
    /\ mode = "stopped"
    /\ held = Threads
    /\ calling = FALSE
    /\ asked = 0
    /\ alive = TRUE

\* User code on t has the instance, so it exists.
Reaches(t) == alive /\ (t \in held \/ (t = Loop /\ calling))

Referenced == held # {} \/ calling \/ mode = "reading"

\* What remains asked for after a stop; a file's uv_fs_read() runs on.
Uncancelled == IF kind = "file" THEN asked ELSE 0

-----------------------------------------------------------------------------
Start(t) ==
    /\ Reaches(t)
    /\ mode # "reading"
    /\ mode' = "reading"
    /\ UNCHANGED <<kind, held, calling, asked, alive>>

\* "restart": functionally equivalent to a stop followed by a start.
Restart(t) ==
    /\ Reaches(t)
    /\ mode = "reading"
    /\ asked' = Uncancelled
    /\ UNCHANGED <<kind, mode, held, calling, alive>>

\* A start that libuv refuses ends like a stop.
Stop(t) ==
    /\ Reaches(t)
    /\ mode' = "stopped"
    /\ asked' = Uncancelled
    /\ alive' = Referenced'
    /\ UNCHANGED <<kind, held, calling>>

Pause(t) ==
    /\ Reaches(t)
    /\ mode = "reading"
    /\ mode' = "paused"
    /\ asked' = Uncancelled
    /\ alive' = Referenced'
    /\ UNCHANGED <<kind, held, calling>>

Resume(t) ==
    /\ Reaches(t)
    /\ mode = "paused"
    /\ mode' = "reading"
    /\ UNCHANGED <<kind, held, calling, asked, alive>>

Drop(t) ==
    /\ t \in held
    /\ held' = held \ {t}
    /\ alive' = Referenced'
    /\ UNCHANGED <<kind, mode, calling, asked>>

-----------------------------------------------------------------------------
\* libuv is asked to read, at a start and, for a file, after a callback.  A
\* stream or a socket is asked once, for any number of answers.
Ask ==
    /\ alive
    /\ mode = "reading"
    /\ kind # "file" => asked = 0
    /\ asked' = asked + 1
    /\ UNCHANGED <<kind, mode, held, calling, alive>>

\* The read callback is called, for a read that has been asked for.
Answer ==
    /\ alive
    /\ asked > 0
    /\ ~calling
    /\ calling' = TRUE
    /\ asked' = asked - 1 \/ (kind # "file" /\ asked' = asked)
    /\ UNCHANGED <<kind, mode, held, alive>>

\* A file's read completes after the instance has gone: the one case in
\* which an answer does not find it.
Orphan ==
    /\ kind = "file"
    /\ ~alive
    /\ asked > 0
    /\ asked' = asked - 1
    /\ UNCHANGED <<kind, mode, held, calling, alive>>

Return ==
    /\ calling
    /\ calling' = FALSE
    /\ alive' = Referenced'
    /\ UNCHANGED <<kind, mode, held, asked>>

Next ==
    \/ \E t \in Threads :
        Start(t) \/ Restart(t) \/ Stop(t) \/ Pause(t) \/ Resume(t) \/ Drop(t)
    \/ Ask \/ Answer \/ Orphan \/ Return

Spec == Init /\ [][Next]_vars
=============================================================================
