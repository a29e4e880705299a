---------------------------- MODULE FileRequests ----------------------------
(***************************************************************************)
(* File handles (handle-fs.hpp) and the filesystem requests (request-fs.   *)
(* hpp): the constructors that open a file, the run functions and the      *)
(* callbacks of every request class, the write queue size of a file and    *)
(* the fate of its descriptor.                                             *)
(*                                                                         *)
(* All of it is on the loop's thread: the thread pool that performs the    *)
(* operations only decides when, and in which order, they complete.        *)
(*                                                                         *)
(* A run() that libuv refuses releases what it has referenced, all of it   *)
(* kept by the caller's variables, and takes the write queue size back: it *)
(* changes nothing.  Neither does a synchronous run() or try_write(),      *)
(* except for what handle() of the request returns.  fs::close::run() is   *)
(* different: it has marked the file and stopped reading by then.          *)
(***************************************************************************)
EXTENDS Naturals, FiniteSets

CONSTANTS
    Files,
    NoFile,
    Requests,
    NoRequest,
    OpenWays,     \* the constructors that each file may be made with
    Assignments,  \* the classes that the requests may have
    Sizes         \* numbers of bytes to write

\* Request classes that run on a file, on a path, and on either.
FileClasses == {"close", "read", "write", "sync", "truncate", "sendfile"}
EitherClasses == {"stat", "chmod", "chown", "utime"}
PathClasses == {"unlink", "mkdir", "mkdtemp", "rmdir", "scandir", "rename", "access",
                "link", "readlink", "realpath"}
AllClasses == FileClasses \union EitherClasses \union PathClasses

WithBuffer == {"read", "write"}

ASSUME FileRequestsAssumption ==
    /\ IsFiniteSet(Files) /\ NoFile \notin Files
    /\ IsFiniteSet(Requests) /\ NoRequest \notin Requests
    /\ OpenWays \in [Files -> SUBSET {"sync", "async", "descriptor"}]
    /\ Assignments \subseteq [Requests -> AllClasses]
    /\ Sizes \subseteq Nat

VARIABLES
    file,     \* file[f]: "none", "opening", "opened", "failed", "deleted"
    fd,       \* fd[f]: the descriptor: "none", "open", "closed", "zero" when
              \* uv_fs_t.result is 0 because nothing has been opened, "foreign"
              \* when a descriptor that is not the file's own has been closed
    isClosing,  \* isClosing[f]: properties::is_closing
    queue,      \* queue[f]: properties::write_queue_size
    reading,    \* reading[f]: read_start() holds a reference (module IoRead)
    fRefs,    \* fRefs[f]: the reference count of the instance
    fVar,     \* fVar[f]: the user code has a variable
    class,    \* class[r]: the class of request r
    pending,  \* pending[r]: libuv has the request
    props,    \* props[r]: the properties: the file, for sendfile the output,
              \* and the pending size; they go over to cb with the callback
    rRefs,    \* rRefs[r]: the reference count of the instance
    rVar,     \* rVar[r]: the user code has a variable
    bRefs,    \* the reference count of a buffer
    bVar,     \* the user code has a variable of the buffer
    cb        \* the callback being run: its request, the files its guards
              \* hold, and the file whose opening it reports

fileState == <<file, fd, isClosing, queue, reading, fRefs, fVar>>
requestState == <<class, pending, props, rRefs, rVar>>
bufferState == <<bRefs, bVar>>

vars == <<fileState, requestState, bufferState, cb>>

AnyFile == Files \union {NoFile}

NoProps == [file |-> NoFile, out |-> NoFile, size |-> 0]
NoCallback == [req |-> NoRequest, file |-> NoFile, out |-> NoFile, opened |-> NoFile]

TypeOK ==
    /\ file \in [Files -> {"none", "opening", "opened", "failed", "deleted"}]
    /\ fd \in [Files -> {"none", "open", "closed", "zero", "foreign"}]
    /\ isClosing \in [Files -> BOOLEAN]
    /\ queue \in [Files -> Nat]
    /\ reading \in [Files -> BOOLEAN]
    /\ fRefs \in [Files -> Nat]
    /\ fVar \in [Files -> BOOLEAN]
    /\ class \in [Requests -> AllClasses]
    /\ pending \in [Requests -> BOOLEAN]
    /\ props \in [Requests -> [file : AnyFile, out : AnyFile, size : Nat]]
    /\ rRefs \in [Requests -> Nat]
    /\ rVar \in [Requests -> BOOLEAN]
    /\ bRefs \in Nat
    /\ bVar \in BOOLEAN
    /\ cb \in [req : Requests \union {NoRequest}, file : AnyFile, out : AnyFile,
               opened : AnyFile]

\* The user code has made its requests and a buffer.
Init ==
    /\ file = [f \in Files |-> "none"]
    /\ fd = [f \in Files |-> "none"]
    /\ isClosing = [f \in Files |-> FALSE]
    /\ queue = [f \in Files |-> 0]
    /\ reading = [f \in Files |-> FALSE]
    /\ fRefs = [f \in Files |-> 0]
    /\ fVar = [f \in Files |-> FALSE]
    /\ class \in Assignments
    /\ pending = [r \in Requests |-> FALSE]
    /\ props = [r \in Requests |-> NoProps]
    /\ rRefs = [r \in Requests |-> 1]
    /\ rVar = [r \in Requests |-> TRUE]
    /\ bRefs = 1
    /\ bVar = TRUE
    /\ cb = NoCallback

-----------------------------------------------------------------------------
(* File handles.                                                           *)

NewFile(f, state, descriptor, refs) ==
    /\ file[f] = "none"
    /\ file' = [file EXCEPT ![f] = state]
    /\ fd' = [fd EXCEPT ![f] = descriptor]
    /\ fRefs' = [fRefs EXCEPT ![f] = refs]
    /\ fVar' = [fVar EXCEPT ![f] = TRUE]
    /\ UNCHANGED <<queue, reading, requestState, bufferState, cb>>

\* file(_loop, _path, _flags, _mode).
OpenSync(f) ==
    /\ "sync" \in OpenWays[f]
    /\ \/ NewFile(f, "opened", "open", 1)
       \/ NewFile(f, "failed", "none", 1)
    /\ UNCHANGED isClosing

\* Mutant: a refused open keeps the reference of the callback.
OpenAsync_Leaks(f) ==
    /\ "async" \in OpenWays[f]
    /\ \/ NewFile(f, "opening", "none", 2)
       \/ NewFile(f, "failed", "zero", 2)
    /\ UNCHANGED isClosing

\* The same with a callback: libuv takes the request, or refuses it before
\* it has stored anything in the zero-initialized uv_fs_t.
OpenAsync(f) ==
    /\ "async" \in OpenWays[f]
    /\ \/ NewFile(f, "opening", "none", 2)
       \/ NewFile(f, "failed", "zero", 1)
    /\ UNCHANGED isClosing

\* file(_loop, _fd), from an open descriptor or from a negative value.
OpenDescriptor(f) ==
    /\ "descriptor" \in OpenWays[f]
    /\ \/ /\ NewFile(f, "opened", "open", 1)
          /\ UNCHANGED isClosing
       \/ /\ NewFile(f, "failed", "none", 1)
          /\ isClosing' = [isClosing EXCEPT ![f] = TRUE]

\* open_cb() up to the user callback, whose parameter is a new reference.
OpenCb(f) ==
    /\ cb = NoCallback
    /\ file[f] = "opening"
    /\ \/ /\ file' = [file EXCEPT ![f] = "opened"]
          /\ fd' = [fd EXCEPT ![f] = "open"]
       \/ /\ file' = [file EXCEPT ![f] = "failed"]
          /\ UNCHANGED fd
    /\ fRefs' = [fRefs EXCEPT ![f] = @ + 1]
    /\ cb' = [NoCallback EXCEPT !.opened = f]
    /\ UNCHANGED <<isClosing, queue, reading, fVar, requestState, bufferState>>

\* close() of whatever uv_fs_t.result says.
Closed(descriptor) ==
    CASE descriptor = "none" -> "none"
      [] descriptor = "open" -> "closed"
      [] OTHER -> "foreign"

\* unref() of each f, released[f] times, with uv_fs_interface::close() for
\* the last reference.
UnrefFiles(released) ==
    LET gone == {f \in Files : released[f] > 0 /\ fRefs[f] = released[f]} IN
    /\ fRefs' = [f \in Files |-> fRefs[f] - released[f]]
    /\ file' = [f \in Files |-> IF f \in gone THEN "deleted" ELSE file[f]]
    /\ fd' = [f \in Files |-> IF f \in gone THEN Closed(fd[f]) ELSE fd[f]]

Times(g, f, n) == IF g = f THEN n ELSE 0

DropFile(f) ==
    /\ fVar[f]
    /\ fVar' = [fVar EXCEPT ![f] = FALSE]
    /\ UnrefFiles([g \in Files |-> Times(g, f, 1)])
    /\ UNCHANGED <<isClosing, queue, reading, requestState, bufferState, cb>>

\* The user code has a variable of a file that is not being opened, or the
\* callback can have one: its parameter, or handle() of its request.
Usable(f) ==
    /\ fVar[f] \/ f \in {cb.file, cb.out, cb.opened}
    /\ file[f] \in {"opened", "failed"}

\* io::read_start() and read_stop() (module IoRead), as far as fs::close has
\* to do with them.
ReadStart(f) ==
    /\ Usable(f)
    /\ ~reading[f]
    /\ reading' = [reading EXCEPT ![f] = TRUE]
    /\ fRefs' = [fRefs EXCEPT ![f] = @ + 1]
    /\ UNCHANGED <<file, fd, isClosing, queue, fVar, requestState, bufferState, cb>>

ReadStop(f) ==
    /\ Usable(f)
    /\ reading[f]
    /\ reading' = [reading EXCEPT ![f] = FALSE]
    /\ fRefs' = [fRefs EXCEPT ![f] = @ - 1]
    /\ UNCHANGED <<file, fd, isClosing, queue, fVar, requestState, bufferState, cb>>

DropRequest(r) ==
    /\ rVar[r]
    /\ rVar' = [rVar EXCEPT ![r] = FALSE]
    /\ rRefs' = [rRefs EXCEPT ![r] = @ - 1]
    /\ UNCHANGED <<fileState, class, pending, props, bufferState, cb>>

DropBuffer ==
    /\ bVar
    /\ bVar' = FALSE
    /\ bRefs' = bRefs - 1
    /\ UNCHANGED <<fileState, requestState, cb>>

-----------------------------------------------------------------------------
(* The run functions.                                                      *)

\* The user code may run r, also again in its own callback.
Runnable(c, r) == class[r] = c /\ (rVar[r] \/ cb.req = r) /\ ~pending[r]

\* The references of the request and its properties.
Launch(r, p) ==
    /\ pending' = [pending EXCEPT ![r] = TRUE]
    /\ props' = [props EXCEPT ![r] = p]
    /\ rRefs' = [rRefs EXCEPT ![r] = @ + 1]
    /\ UNCHANGED <<class, rVar>>

\* Mutant: run() does not reference the file.
RunOnFile_NoRef(c, r, f) ==
    /\ Runnable(c, r)
    /\ Usable(f)
    /\ Launch(r, [NoProps EXCEPT !.file = f])
    /\ IF c \in WithBuffer THEN bVar /\ bRefs' = bRefs + 1 ELSE UNCHANGED bRefs
    /\ UNCHANGED <<file, fd, isClosing, queue, reading, fRefs, fVar, bVar, cb>>

\* run(_file, ...) of most classes.
RunOnFile(c, r, f) ==
    /\ Runnable(c, r)
    /\ Usable(f)
    /\ Launch(r, [NoProps EXCEPT !.file = f])
    /\ fRefs' = [fRefs EXCEPT ![f] = @ + 1]
    /\ IF c \in WithBuffer THEN bVar /\ bRefs' = bRefs + 1 ELSE UNCHANGED bRefs
    /\ UNCHANGED <<file, fd, isClosing, queue, reading, fVar, bVar, cb>>

ReadRun(r, f)      == RunOnFile("read", r, f)
SyncRun(r, f)      == RunOnFile("sync", r, f)
TruncateRun(r, f)  == RunOnFile("truncate", r, f)
StatRunFile(r, f)  == RunOnFile("stat", r, f)
ChmodRunFile(r, f) == RunOnFile("chmod", r, f)
ChownRunFile(r, f) == RunOnFile("chown", r, f)
UtimeRunFile(r, f) == RunOnFile("utime", r, f)

\* write::run(): the pending size goes to the write queue of the file.
WriteRun(r, f, n) ==
    /\ Runnable("write", r)
    /\ Usable(f)
    /\ bVar
    /\ Launch(r, [NoProps EXCEPT !.file = f, !.size = n])
    /\ fRefs' = [fRefs EXCEPT ![f] = @ + 1]
    /\ bRefs' = bRefs + 1
    /\ queue' = [queue EXCEPT ![f] = @ + n]
    /\ UNCHANGED <<file, fd, isClosing, reading, fVar, bVar, cb>>

\* sendfile::run(): out is a file, or NoFile for another kind of endpoint,
\* whose references and write queue are not those of a file.
SendfileRun(r, f, out, n) ==
    /\ Runnable("sendfile", r)
    /\ Usable(f)
    /\ out # NoFile => Usable(out)
    /\ Launch(r, [file |-> f, out |-> out, size |-> n])
    /\ fRefs' = [g \in Files |-> fRefs[g] + Times(g, f, 1) + Times(g, out, 1)]
    /\ queue' = [g \in Files |-> queue[g] + Times(g, out, n)]
    /\ UNCHANGED <<file, fd, isClosing, reading, fVar, bufferState, cb>>

\* Mutant: the file is marked only when the descriptor is closed at once.
CloseRun_LateMark(r, f) ==
    /\ Runnable("close", r)
    /\ Usable(f)
    /\ reading' = [reading EXCEPT ![f] = FALSE]
    /\ LET stopped == [fRefs EXCEPT ![f] = IF reading[f] THEN @ - 1 ELSE @] IN
       \/ /\ fd' = [fd EXCEPT ![f] = Closed(@)]
          /\ isClosing' = [isClosing EXCEPT ![f] = TRUE]
          /\ fRefs' = stopped
          /\ UNCHANGED requestState
       \/ /\ Launch(r, [NoProps EXCEPT !.file = f])
          /\ fRefs' = [stopped EXCEPT ![f] = @ + 1]
          /\ UNCHANGED <<fd, isClosing>>
    /\ UNCHANGED <<file, queue, fVar, bufferState, cb>>

\* close::run(): synchronous, taken by libuv, or refused.
CloseRun(r, f) ==
    /\ Runnable("close", r)
    /\ Usable(f)
    /\ isClosing' = [isClosing EXCEPT ![f] = TRUE]
    /\ reading' = [reading EXCEPT ![f] = FALSE]
    /\ LET stopped == [fRefs EXCEPT ![f] = IF reading[f] THEN @ - 1 ELSE @] IN
       \/ /\ fd' = [fd EXCEPT ![f] = Closed(@)]
          /\ fRefs' = stopped
          /\ UNCHANGED requestState
       \/ /\ Launch(r, [NoProps EXCEPT !.file = f])
          /\ fRefs' = [stopped EXCEPT ![f] = @ + 1]
          /\ UNCHANGED fd
       \/ /\ fRefs' = stopped
          /\ UNCHANGED <<fd, requestState>>
    /\ UNCHANGED <<file, queue, fVar, bufferState, cb>>

\* run(_loop, _path, ...) references the request only.
RunOnPath(c, r) ==
    /\ Runnable(c, r)
    /\ Launch(r, NoProps)
    /\ UNCHANGED <<fileState, bufferState, cb>>

StatRunPath(r)  == RunOnPath("stat", r)
ChmodRunPath(r) == RunOnPath("chmod", r)
ChownRunPath(r) == RunOnPath("chown", r)
UtimeRunPath(r) == RunOnPath("utime", r)
UnlinkRun(r)    == RunOnPath("unlink", r)
MkdirRun(r)     == RunOnPath("mkdir", r)
MkdtempRun(r)   == RunOnPath("mkdtemp", r)
RmdirRun(r)     == RunOnPath("rmdir", r)
ScandirRun(r)   == RunOnPath("scandir", r)
RenameRun(r)    == RunOnPath("rename", r)
AccessRun(r)    == RunOnPath("access", r)
LinkRun(r)      == RunOnPath("link", r)
ReadlinkRun(r)  == RunOnPath("readlink", r)
RealpathRun(r)  == RunOnPath("realpath", r)

-----------------------------------------------------------------------------
(* The callbacks.                                                          *)

\* The callback up to the user callback: the guards adopt the references of
\* run(), and the user callback gets a variable of the request.
Completed(c, r) ==
    /\ cb = NoCallback
    /\ class[r] = c /\ pending[r]
    /\ pending' = [pending EXCEPT ![r] = FALSE]
    /\ rRefs' = [rRefs EXCEPT ![r] = @ + 1]
    /\ cb' = [req |-> r, file |-> props[r].file, out |-> props[r].out, opened |-> NoFile]
    /\ props' = [props EXCEPT ![r] = NoProps]
    /\ UNCHANGED <<file, isClosing, reading, fRefs, fVar, class, rVar, bufferState>>

CompletedOnly(c, r) == Completed(c, r) /\ UNCHANGED <<fd, queue>>

ReadCb(r)     == CompletedOnly("read", r)
SyncCb(r)     == CompletedOnly("sync", r)
TruncateCb(r) == CompletedOnly("truncate", r)
StatCb(r)     == CompletedOnly("stat", r)
ChmodCb(r)    == CompletedOnly("chmod", r)
ChownCb(r)    == CompletedOnly("chown", r)
UtimeCb(r)    == CompletedOnly("utime", r)
UnlinkCb(r)   == CompletedOnly("unlink", r)
MkdirCb(r)    == CompletedOnly("mkdir", r)
MkdtempCb(r)  == CompletedOnly("mkdtemp", r)
RmdirCb(r)    == CompletedOnly("rmdir", r)
ScandirCb(r)  == CompletedOnly("scandir", r)
RenameCb(r)   == CompletedOnly("rename", r)
AccessCb(r)   == CompletedOnly("access", r)
LinkCb(r)     == CompletedOnly("link", r)
ReadlinkCb(r) == CompletedOnly("readlink", r)
RealpathCb(r) == CompletedOnly("realpath", r)

\* Mutant: the pending size is taken off twice.
WriteCb_Twice(r) ==
    /\ Completed("write", r)
    /\ queue' = [queue EXCEPT ![props[r].file] = @ - 2 * props[r].size]
    /\ UNCHANGED fd

\* write_cb() takes the pending size, not what was written, off the queue.
WriteCb(r) ==
    /\ Completed("write", r)
    /\ queue' = [queue EXCEPT ![props[r].file] = @ - props[r].size]
    /\ UNCHANGED fd

\* Mutant: the write queue of the output is left as it is.
SendfileCb_KeepsQueue(r) == Completed("sendfile", r) /\ UNCHANGED <<fd, queue>>

\* sendfile_cb(), where the output is a file.
SendfileCb(r) ==
    /\ Completed("sendfile", r)
    /\ queue' = [f \in Files |-> queue[f] - Times(f, props[r].out, props[r].size)]
    /\ UNCHANGED fd

\* By the time of close_cb() the descriptor has been closed.
CloseCb(r) ==
    /\ Completed("close", r)
    /\ fd' = [fd EXCEPT ![props[r].file] = Closed(@)]
    /\ UNCHANGED queue

\* The user callback returns: its parameters and the guards go.  The guard
\* and the parameter of open_cb() are two references to the file.
Return ==
    /\ cb # NoCallback
    /\ UnrefFiles([f \in Files |-> Times(f, cb.file, 1) + Times(f, cb.out, 1)
                                    + Times(f, cb.opened, 2)])
    /\ rRefs' = [r \in Requests |-> IF r = cb.req THEN rRefs[r] - 2 ELSE rRefs[r]]
    /\ bRefs' = IF cb.req # NoRequest /\ class[cb.req] \in WithBuffer
                THEN bRefs - 1 ELSE bRefs
    /\ cb' = NoCallback
    /\ UNCHANGED <<isClosing, queue, reading, fVar, class, pending, props, rVar, bVar>>

-----------------------------------------------------------------------------
FileAction(f) ==
    \/ OpenSync(f) \/ OpenAsync(f) \/ OpenDescriptor(f)
    \/ DropFile(f) \/ ReadStart(f) \/ ReadStop(f)

RunFile(r, f) ==
    \/ ReadRun(r, f) \/ SyncRun(r, f) \/ TruncateRun(r, f) \/ StatRunFile(r, f)
    \/ ChmodRunFile(r, f) \/ ChownRunFile(r, f) \/ UtimeRunFile(r, f)
    \/ CloseRun(r, f)
    \/ \E n \in Sizes : WriteRun(r, f, n)
    \/ \E n \in Sizes, out \in AnyFile : SendfileRun(r, f, out, n)

RunPath(r) ==
    \/ StatRunPath(r) \/ ChmodRunPath(r) \/ ChownRunPath(r) \/ UtimeRunPath(r)
    \/ UnlinkRun(r) \/ MkdirRun(r) \/ MkdtempRun(r) \/ RmdirRun(r) \/ ScandirRun(r)
    \/ RenameRun(r) \/ AccessRun(r) \/ LinkRun(r) \/ ReadlinkRun(r) \/ RealpathRun(r)

RequestCb(r) ==
    \/ CloseCb(r) \/ ReadCb(r) \/ WriteCb(r) \/ SyncCb(r) \/ TruncateCb(r)
    \/ SendfileCb(r) \/ StatCb(r) \/ ChmodCb(r) \/ ChownCb(r) \/ UtimeCb(r)
    \/ UnlinkCb(r) \/ MkdirCb(r) \/ MkdtempCb(r) \/ RmdirCb(r) \/ ScandirCb(r)
    \/ RenameCb(r) \/ AccessCb(r) \/ LinkCb(r) \/ ReadlinkCb(r) \/ RealpathCb(r)

Next ==
    \/ \E f \in Files : FileAction(f) \/ OpenCb(f)
    \/ \E r \in Requests :
          DropRequest(r) \/ RunPath(r) \/ RequestCb(r) \/ \E f \in Files : RunFile(r, f)
    \/ DropBuffer
    \/ Return

Spec == Init /\ [][Next]_vars

-----------------------------------------------------------------------------
Bit(b) == IF b THEN 1 ELSE 0

Pending == {r \in Requests : pending[r]}

\* Pending requests that run on f, and those that write their output to it.
RunningOn(f) == {r \in Pending : props[r].file = f}
SendingTo(f) == {r \in Pending : props[r].out = f}

\* The references that the running callback has to f.
CallbackRefs(f) == Times(f, cb.file, 1) + Times(f, cb.out, 1) + Times(f, cb.opened, 2)

FileRefs(f) ==
    Bit(fVar[f]) + Bit(reading[f]) + Bit(file[f] = "opening") + CallbackRefs(f)
      + Cardinality(RunningOn(f)) + Cardinality(SendingTo(f))

\* run(), the callbacks, read_start/stop and the constructors: the counters
\* of files, requests and the buffer are the variables, pending operations,
\* guards and callback parameters there are, whatever is issued from within
\* callbacks, refused or completed in another order, and a file lives just
\* as long as its counter says so.
ReferencesAccounted ==
    /\ \A f \in Files :
          /\ fRefs[f] = FileRefs(f)
          /\ fRefs[f] = 0 <=> file[f] \in {"none", "deleted"}
    /\ \A r \in Requests :
          rRefs[r] = Bit(rVar[r]) + Bit(pending[r]) + 2 * Bit(cb.req = r)
    /\ bRefs = Bit(bVar) + Cardinality({r \in Pending : class[r] \in WithBuffer})
                 + Bit(cb.req # NoRequest /\ class[cb.req] \in WithBuffer)

\* How many bytes request r is to write to f, and the bytes that wait: each
\* one is a pending request and a number.
WaitingSize(r, f) ==
    CASE pending[r] /\ class[r] = "write"    -> Times(f, props[r].file, props[r].size)
      [] pending[r] /\ class[r] = "sendfile" -> Times(f, props[r].out, props[r].size)
      [] OTHER                               -> 0

BytesWaiting(f) == UNION {{r} \X (1 .. WaitingSize(r, f)) : r \in Requests}

\* write_queue_size(): "the amount of bytes waiting to be written to the
\* file", which try_write() relies on not to overtake a queued write.
WriteQueueExact == \A f \in Files : queue[f] = Cardinality(BytesWaiting(f))

\* handle() of a request: "guaranteed that it will be a valid instance at
\* least within the request callback", and until then.
FileValidWhileUsed ==
    \A f \in Files :
        (f \in {cb.file, cb.out, cb.opened} \/ \E r \in Pending : f \in {props[r].file, props[r].out})
            => file[f] \in {"opened", "failed"}

\* file::is_closing(), "the file descriptor will be closed automatically when
\* the file handle reference count has became zero": as long as a file has
\* not been marked by fs::close its descriptor is its own, open until the last
\* reference goes; what is closed that is not the file's own (a number that
\* may belong to another file by then) is closed a second time after an
\* fs::close, or is the zero of an asynchronous open that libuv has refused.
OwnDescriptor ==
    \A f \in Files :
        /\ file[f] = "opened" /\ ~isClosing[f] => fd[f] = "open"
        /\ fd[f] = "foreign" => isClosing[f] \/ "async" \in OpenWays[f]
=============================================================================
