------------------------------ MODULE Process ------------------------------
(***************************************************************************)
(* The process handle (handle-misc.hpp) and the endpoints it passes to the *)
(* child.  For each descriptor of the child there is a container, which    *)
(* libuv reads in uv_spawn(), and an endpoint, a handle variable that      *)
(* keeps the stream the container points to.  Both are vectors that grow   *)
(* together; spawn_options holds the size and the address of the first.    *)
(*                                                                         *)
(* User id, environment, directory and arguments are plain data.  The user *)
(* passes endpoints that have an instance to inherit_stdio(), assigns no   *)
(* element of stdio(), and does not spawn while the child is running.      *)
(***************************************************************************)
EXTENDS Streams, Sequences

CONSTANTS
    MaxFd       \* bound on the descriptors of the child, numbered from 1

ASSUME ProcessAssumption == MaxFd \in Nat

VARIABLES
    plife,       \* "none", "alive" or "freed"
    prefs,       \* the reference counter of the process handle
    pheld,       \* a variable of the user refers to it
    running,     \* the child has been spawned and has not exited
    exiting,     \* its exit callback is running
    containers,  \* stdio_uv_containers: the stream, or NoHandle
    endpoints,   \* stdio_uvcc_endpoints
    options      \* stdio_count, and whether stdio is the current array

processVars == <<plife, prefs, pheld, running, exiting, containers, endpoints, options>>
vars == <<streamVars, processVars>>

Init ==
    /\ StreamInit
    /\ plife = "none"
    /\ prefs = 0
    /\ pheld = FALSE
    /\ running = FALSE
    /\ exiting = FALSE
    /\ containers = <<>>
    /\ endpoints = <<>>
    /\ options = [count |-> 0, current |-> TRUE]

-----------------------------------------------------------------------------
\* process(loop): the loop is booked before libuv knows the handle.
CreateProcess ==
    /\ plife = "none"
    /\ plife' = "alive"
    /\ prefs' = 1
    /\ pheld' = TRUE
    /\ UNCHANGED <<streamVars, running, exiting, containers, endpoints, options>>

\* User code can use the process handle.
HasProcess == pheld \/ exiting

Grown(seq, n) == [i \in 1 .. n |-> IF i <= Len(seq) THEN seq[i] ELSE NoHandle]

\* Mutant: the options keep the address of the old array.
Ensured_OldAddress(fd) ==
    [size |-> IF fd > Len(containers) THEN fd ELSE Len(containers),
     options |-> IF fd > Len(containers)
                 THEN [count |-> fd, current |-> Len(containers) = 0]
                 ELSE options]

\* ensure_stdio_number(): the size of the vectors, and the options.
Ensured(fd) ==
    [size |-> IF fd > Len(containers) THEN fd ELSE Len(containers),
     options |-> IF fd > Len(containers)
                 THEN [count |-> fd, current |-> TRUE]
                 ELSE options]

\* Container and endpoint number fd get new values.
Store(fd, stream, h) ==
    /\ containers' = [Grown(containers, Ensured(fd).size) EXCEPT ![fd] = stream]
    /\ endpoints' = [Grown(endpoints, Ensured(fd).size) EXCEPT ![fd] = h]
    /\ options' = Ensured(fd).options

\* The endpoint that number fd has so far.
Former(fd) == IF fd <= Len(endpoints) THEN endpoints[fd] ELSE NoHandle

\* inherit_stdio(fd, io): a stream is entered as such, a file by its
\* descriptor, anything else is ignored.  The parameter, a copy of the
\* user's variable, is moved into the endpoints; the old one is released.
InheritStdio(fd, v) ==
    /\ HasProcess
    /\ var[v] # NoHandle
    /\ Store(fd, IF inst[var[v]].kind \in Streaming THEN var[v] ELSE NoHandle, var[v])
    /\ inst' = Recount(inst, Only(var[v]), Only(Former(fd)))
    /\ UNCHANGED <<var, server, plife, prefs, pheld, running, exiting>>

\* inherit_stdio(fd, file descriptor): the endpoint stays as it is.
InheritDescriptor(fd) ==
    /\ HasProcess
    /\ Store(fd, NoHandle, Former(fd))
    /\ UNCHANGED <<streamVars, plife, prefs, pheld, running, exiting>>

\* create_stdio_pipe(): a new pipe takes the place of the old endpoint.
CreateStdioPipe(fd, h) ==
    /\ HasProcess
    /\ inst[h].life = "none"
    /\ Store(fd, h, h)
    /\ inst' = Recount([inst EXCEPT ![h] = Born("pipe", TRUE)], Only(h), Only(Former(fd)))
    /\ UNCHANGED <<var, server, plife, prefs, pheld, running, exiting>>

\* create_stdio_pipe(): the pipe cannot be made; the vectors have grown.
CreateStdioPipeFails(fd) ==
    /\ HasProcess
    /\ containers' = Grown(containers, Ensured(fd).size)
    /\ endpoints' = Grown(endpoints, Ensured(fd).size)
    /\ options' = Ensured(fd).options
    /\ UNCHANGED <<streamVars, plife, prefs, pheld, running, exiting>>

\* The user copies an element of stdio().
TakeEndpoint(v, fd) ==
    /\ HasProcess
    /\ var[v] = NoHandle
    /\ Former(fd) # NoHandle
    /\ var' = [var EXCEPT ![v] = Former(fd)]
    /\ inst' = Recount(inst, Only(Former(fd)), Nothing)
    /\ UNCHANGED <<server, processVars>>

\* spawn(): no reference is taken.  A failure only sets the status.
Spawn ==
    /\ HasProcess
    /\ ~running
    /\ running' = TRUE
    /\ UNCHANGED <<streamVars, plife, prefs, pheld, exiting, containers, endpoints,
                   options>>

\* exit_cb(): the child has exited and the handle is still there; a
\* callback, if there is one, gets a reference.
ExitCb(called) ==
    /\ plife = "alive"
    /\ running
    /\ ~exiting
    /\ server = NoHandle
    /\ running' = FALSE
    /\ exiting' = called
    /\ prefs' = prefs + One(called)
    /\ UNCHANGED <<streamVars, plife, pheld, containers, endpoints, options>>

EndpointRefs(h) == Cardinality({i \in DOMAIN endpoints : endpoints[i] = h})

\* unref() of the process handle: with the last reference its endpoints go.
UnrefProcess ==
    /\ prefs' = prefs - 1
    /\ IF prefs = 1
       THEN /\ plife' = "freed"
            /\ inst' = Recount(inst, Nothing, [h \in Handles |-> EndpointRefs(h)])
            /\ containers' = <<>>
            /\ endpoints' = <<>>
            /\ options' = [count |-> 0, current |-> TRUE]
       ELSE UNCHANGED <<plife, inst, containers, endpoints, options>>
    /\ UNCHANGED <<var, server, running>>

DropProcess ==
    /\ pheld
    /\ pheld' = FALSE
    /\ UnrefProcess
    /\ UNCHANGED exiting

ExitReturns ==
    /\ exiting
    /\ exiting' = FALSE
    /\ UnrefProcess
    /\ UNCHANGED pheld

\* The loop calls back one at a time.
OneCallback == exiting => server' = NoHandle

Next ==
    \/ StreamNext /\ UNCHANGED processVars /\ OneCallback
    \/ CreateProcess
    \/ \E fd \in 1 .. MaxFd :
        \/ \E v \in Vars : InheritStdio(fd, v) \/ TakeEndpoint(v, fd)
        \/ \E h \in Handles : CreateStdioPipe(fd, h)
        \/ InheritDescriptor(fd)
        \/ CreateStdioPipeFails(fd)
    \/ Spawn
    \/ \E called \in BOOLEAN : ExitCb(called)
    \/ DropProcess \/ ExitReturns

Spec == Init /\ [][Next]_vars

-----------------------------------------------------------------------------
\* Constructors, listen(), accept(), inherit_stdio(), create_stdio_pipe(),
\* the callbacks and ~properties(): the counter of a handle is the number of
\* variables, parameters and endpoints that refer to it; it exists exactly
\* as long as that is not zero, and only then has the loop booked; one that
\* exists without having booked it reports an error.
ReferencesAccounted ==
    /\ \A h \in Handles :
          /\ inst[h].refs = UserRefs(h) + EndpointRefs(h)
          /\ inst[h].life = "alive" <=> inst[h].refs > 0
          /\ inst[h].booked => inst[h].life = "alive"
          /\ inst[h].life = "alive" /\ ~inst[h].booked => inst[h].failed
    /\ prefs = One(pheld) + One(exiting)
    /\ plife = "alive" <=> prefs > 0

\* inherit_stdio(), create_stdio_pipe(), ensure_stdio_number(): whenever
\* spawn() is called, libuv sees the current array with its right length,
\* and each stream in it is one that exists, whatever the user has dropped,
\* replaced or added since it was entered.
StdioAlive ==
    plife = "alive" =>
        /\ options.current
        /\ options.count = Len(containers)
        /\ \A i \in DOMAIN containers :
              containers[i] # NoHandle => inst[containers[i]].life = "alive"
=============================================================================
