------------------------------ MODULE LogFollow ------------------------------
(***************************************************************************)
(* The life of the realtime streams of ONE WebSocket session in            *)
(* LogFollowService: who opens a remote `tail -F`, who owns it, and who    *)
(* closes it.  Sessions share no state but the thread pools, so one        *)
(* session is all of the service.                                          *)
(*                                                                         *)
(* The actors, each with a program counter of its own, are                 *)
(*   - the message handler (open_stream, switch_file, close_stream, ping), *)
(*     one message of a session after another;                             *)
(*   - the connection callback (afterConnectionClosed,                     *)
(*     handleTransportError), on any thread of the container;              *)
(*   - for each stream its periodic rotation check and stale cleanup;      *)
(*   - for each tail its reader (readTailLoop) and the restart that the    *)
(*     reader schedules when the tail ends.                                *)
(*                                                                         *)
(* Every step is what an actor does between two points where another can   *)
(* change what it depends on: a lock it takes or releases, a remote call,  *)
(* a read of a volatile field.  A tail handle stands for an SSH channel    *)
(* with its `tail -F`; a file is its position in the rotation order.  Any  *)
(* time may pass between two steps, so a test of lastDataAtEpochMs or of   *)
(* lastHeartbeatAtEpochMs against its threshold may have either outcome.   *)
(***************************************************************************)
EXTENDS Naturals

CONSTANTS Streams,    \* bound: the streams the session opens, one per open
          Handles,    \* bound: the tails opened for them
          Handler,    \* the thread that handles the messages
          Callback,   \* the thread that reports the end of the connection
          None,
          MaxFile     \* bound: the rotations of the log

ASSUME LogFollowAssumption ==
  /\ MaxFile \in Nat \ {0}
  /\ None \notin Streams /\ None \notin Handles
  /\ Handler \notin Streams /\ Callback \notin Streams /\ Handler # Callback

(* The threads that run closeSessionStream; a stream stands for its own    *)
(* stale cleanup task.                                                     *)
Closers == Streams \cup {Handler, Callback}

Files == 1..MaxFile

VARIABLES
  connection,      \* "open", "failing" (no more messages) or "closed"
  callbackDue,     \* afterConnectionClosed has not been called yet
  newestFile,      \* the newest log file on the remote host
  registered,      \* activeStreams.get(ws.getId())
  created,         \* the ActiveStream objects made so far
  closed,          \* the streams with active.closed
  locked,          \* the streams whose lock a startTail holds
  tailHandle, tailGeneration, currentFile,   \* fields of each stream
  openPath,        \* the file startTail is about to open, under the lock
  handleState,     \* the remote side of each tail
  tailStream, tailGen, tailFile,             \* what each tail is opened for
  rotationTask, staleTask,                   \* the periodic tasks
  handlerPc, handlerStream,
  rotationPc,
  closePc, closeStream, closeTail,           \* of each closer
  tailPc           \* the reader of each tail, then its restart task

worldVars   == <<connection, callbackDue, newestFile>>
streamVars  == <<registered, created, closed>>
openedVars  == <<tailStream, tailGen, tailFile>>
tailVars    == <<locked, tailHandle, tailGeneration, openPath, handleState,
                 openedVars>>
taskVars    == <<rotationTask, staleTask>>
handlerVars == <<handlerPc, handlerStream>>
closeVars   == <<closePc, closeStream, closeTail>>

(* ws.isOpen() *)
wsOpen == connection # "closed"

vars == <<worldVars, streamVars, tailVars, currentFile, taskVars,
          handlerVars, rotationPc, closeVars, tailPc>>

Init ==
  /\ connection = "open" /\ callbackDue = FALSE /\ newestFile = 1
  /\ registered = None
  /\ created = {} /\ closed = {} /\ locked = {}
  /\ tailHandle = [s \in Streams |-> None]
  /\ tailGeneration = [s \in Streams |-> 0]
  /\ currentFile = [s \in Streams |-> 1]
  /\ openPath = [s \in Streams |-> 1]
  /\ handleState = [h \in Handles |-> "unused"]
  /\ tailStream = [h \in Handles |-> None]
  /\ tailGen = [h \in Handles |-> 0]
  /\ tailFile = [h \in Handles |-> 1]
  /\ rotationTask = [s \in Streams |-> "none"]
  /\ staleTask = [s \in Streams |-> "none"]
  /\ handlerPc = "idle" /\ handlerStream = None
  /\ rotationPc = [s \in Streams |-> "idle"]
  /\ closePc = [c \in Closers |-> "idle"]
  /\ closeStream = [c \in Closers |-> None]
  /\ closeTail = [c \in Closers |-> None]
  /\ tailPc = [h \in Handles |-> "none"]

-----------------------------------------------------------------------------
(***************************************************************************)
(* startTail, in three parts: enter the synchronized block, with the close *)
(* of the previous tail; then openTail succeeds or throws.                 *)
(***************************************************************************)
(* Mutant: the previous tail is forgotten instead of closed. *)
StartTailEnterForgets(s) ==
  /\ s \notin locked
  /\ s \notin closed
  /\ locked' = locked \cup {s}
  /\ openPath' = [openPath EXCEPT ![s] = currentFile[s]]
  /\ tailHandle' = [tailHandle EXCEPT ![s] = None]
  /\ tailGeneration' = [tailGeneration EXCEPT
                          ![s] = IF tailHandle[s] = None THEN @ ELSE @ + 1]
  /\ UNCHANGED <<handleState, openedVars>>

(* Mutant: startTail does not look at closed under the lock. *)
StartTailEnterUnchecked(s) ==
  /\ s \notin locked
  /\ locked' = locked \cup {s}
  /\ openPath' = [openPath EXCEPT ![s] = currentFile[s]]
  /\ tailHandle' = [tailHandle EXCEPT ![s] = None]
  /\ tailGeneration' = [tailGeneration EXCEPT
                          ![s] = IF tailHandle[s] = None THEN @ ELSE @ + 1]
  /\ handleState' = [h \in Handles |-> IF h = tailHandle[s] THEN "closed"
                                                           ELSE handleState[h]]
  /\ UNCHANGED openedVars

StartTailEnter(s) ==
  /\ s \notin locked
  /\ s \notin closed
  /\ locked' = locked \cup {s}
  /\ openPath' = [openPath EXCEPT ![s] = currentFile[s]]
  /\ \/ /\ tailHandle[s] = None
        /\ UNCHANGED <<tailHandle, tailGeneration, handleState>>
     \/ /\ tailHandle[s] # None
        /\ tailHandle' = [tailHandle EXCEPT ![s] = None]
        /\ tailGeneration' = [tailGeneration EXCEPT ![s] = @ + 1]
        /\ handleState' = [handleState EXCEPT ![tailHandle[s]] = "closed"]
  /\ UNCHANGED openedVars

(* The stream was closed before the lock was taken: nothing is opened. *)
StartTailClosed(s) ==
  /\ s \notin locked
  /\ s \in closed
  /\ UNCHANGED tailVars

(* The tail h is open; the caller's step also submits its reader. *)
StartTailOpened(s, h) ==
  /\ handleState[h] = "unused"
  /\ handleState' = [handleState EXCEPT ![h] = "open"]
  /\ tailHandle' = [tailHandle EXCEPT ![s] = h]
  /\ tailGeneration' = [tailGeneration EXCEPT ![s] = @ + 1]
  /\ tailStream' = [tailStream EXCEPT ![h] = s]
  /\ tailGen' = [tailGen EXCEPT ![h] = tailGeneration[s] + 1]
  /\ tailFile' = [tailFile EXCEPT ![h] = openPath[s]]
  /\ locked' = locked \ {s}
  /\ UNCHANGED openPath

(* Mutant: an exception of openTail leaves the lock taken. *)
StartTailFailedLocked(s) ==
  UNCHANGED <<locked, tailHandle, tailGeneration, openPath, handleState,
              openedVars>>

(* openTail threw: the lock is released, the previous tail is gone. *)
StartTailFailed(s) ==
  /\ locked' = locked \ {s}
  /\ UNCHANGED <<tailHandle, tailGeneration, openPath, handleState,
                 openedVars>>

-----------------------------------------------------------------------------
(***************************************************************************)
(* closeSessionStream: take whatever stream the session has out of the map *)
(* and close it.                                                           *)
(***************************************************************************)
(* Mutant: the stream is closed, but stays in the map. *)
RemoveRegisteredKeeps(c) ==
  /\ closeStream' = [closeStream EXCEPT ![c] = registered]
  /\ closePc' = [closePc EXCEPT
                   ![c] = IF registered = None THEN "idle" ELSE "mark"]
  /\ UNCHANGED <<registered, created, closed, closeTail>>

RemoveRegistered(c) ==
  /\ registered' = None
  /\ closeStream' = [closeStream EXCEPT ![c] = registered]
  /\ closePc' = [closePc EXCEPT
                   ![c] = IF registered = None THEN "idle" ELSE "mark"]
  /\ UNCHANGED <<created, closed, closeTail>>

Cancelled(task) == IF task = "kept" THEN "cancelled" ELSE task

(***************************************************************************)
(* ActiveStream.close sets closed and cancels the tasks it finds in their  *)
(* fields.  One step: the tasks do nothing from when closed is set.        *)
(***************************************************************************)
MarkClosed(c) ==
  LET s == closeStream[c] IN
  /\ closePc[c] = "mark"
  /\ closed' = closed \cup {s}
  /\ rotationTask' = [rotationTask EXCEPT ![s] = Cancelled(@)]
  /\ staleTask' = [staleTask EXCEPT ![s] = Cancelled(@)]
  /\ closePc' = [closePc EXCEPT ![c] = "take"]
  /\ UNCHANGED <<worldVars, registered, created, tailVars, currentFile,
                 handlerVars, rotationPc, closeStream, closeTail, tailPc>>

(* Mutant: the generation stays the one of the tail that is closed. *)
TakeTailSameGeneration(c) ==
  LET s == closeStream[c] IN
  /\ closePc[c] = "take"
  /\ s \notin locked
  /\ closeTail' = [closeTail EXCEPT ![c] = tailHandle[s]]
  /\ tailHandle' = [tailHandle EXCEPT ![s] = None]
  /\ closePc' = [closePc EXCEPT ![c] = "disconnect"]
  /\ UNCHANGED <<worldVars, streamVars, locked, tailGeneration, openPath,
                 handleState, openedVars, currentFile, taskVars, handlerVars,
                 rotationPc, closeStream, tailPc>>

(* Mutant: the field is cleared before its value is taken. *)
TakeTailCleared(c) ==
  LET s == closeStream[c] IN
  /\ closePc[c] = "take"
  /\ s \notin locked
  /\ tailHandle' = [tailHandle EXCEPT ![s] = None]
  /\ tailGeneration' = [tailGeneration EXCEPT ![s] = @ + 1]
  /\ closePc' = [closePc EXCEPT ![c] = "disconnect"]
  /\ UNCHANGED <<worldVars, streamVars, locked, openPath, handleState,
                 openedVars, currentFile, taskVars, handlerVars, rotationPc,
                 closeStream, closeTail, tailPc>>

(* The synchronized block of close: take the handle out of the stream. *)
TakeTail(c) ==
  LET s == closeStream[c] IN
  /\ closePc[c] = "take"
  /\ s \notin locked
  /\ closeTail' = [closeTail EXCEPT ![c] = tailHandle[s]]
  /\ tailHandle' = [tailHandle EXCEPT ![s] = None]
  /\ tailGeneration' = [tailGeneration EXCEPT ![s] = @ + 1]
  /\ closePc' = [closePc EXCEPT ![c] = "disconnect"]
  /\ UNCHANGED <<worldVars, streamVars, locked, openPath, handleState,
                 openedVars, currentFile, taskVars, handlerVars, rotationPc,
                 closeStream, tailPc>>

(* closeHandle, after the lock is released. *)
DisconnectTail(c) ==
  /\ closePc[c] = "disconnect"
  /\ handleState' = [h \in Handles |-> IF h = closeTail[c] THEN "closed"
                                                          ELSE handleState[h]]
  /\ closePc' = [closePc EXCEPT ![c] = "idle"]
  /\ closeStream' = [closeStream EXCEPT ![c] = None]
  /\ closeTail' = [closeTail EXCEPT ![c] = None]
  /\ UNCHANGED <<worldVars, streamVars, locked, tailHandle, tailGeneration,
                 openPath, openedVars, currentFile, taskVars, handlerVars,
                 rotationPc, tailPc>>

CloseStep(c) == MarkClosed(c) \/ TakeTail(c) \/ DisconnectTail(c)

-----------------------------------------------------------------------------
(***************************************************************************)
(* The message handler.                                                    *)
(***************************************************************************)
HandlerReady ==
  /\ connection = "open"
  /\ handlerPc = "idle"
  /\ closePc[Handler] = "idle"

(* open_stream, switch_file: openInternal first closes what is open. *)
OpenMessage ==
  /\ HandlerReady
  /\ created # Streams
  /\ RemoveRegistered(Handler)
  /\ handlerPc' = "resolve"
  /\ UNCHANGED <<worldVars, tailVars, currentFile, taskVars, handlerStream,
                 rotationPc, tailPc>>

CloseMessage ==
  /\ HandlerReady
  /\ registered # None
  /\ RemoveRegistered(Handler)
  /\ UNCHANGED <<worldVars, tailVars, currentFile, taskVars, handlerVars,
                 rotationPc, tailPc>>

(* The file is found: a new ActiveStream, put into the map at once. *)
RegisterStream(s, file) ==
  /\ handlerPc = "resolve"
  /\ closePc[Handler] = "idle"
  /\ s \notin created
  /\ file <= newestFile
  /\ created' = created \cup {s}
  /\ registered' = s
  /\ currentFile' = [currentFile EXCEPT ![s] = file]
  /\ handlerPc' = "startTail"
  /\ handlerStream' = s
  /\ UNCHANGED <<worldVars, closed, tailVars, taskVars, rotationPc,
                 closeVars, tailPc>>

(* The exception leaves handleTextMessage and the session is closed. *)
HandlerThrows ==
  /\ connection' = "closed"
  /\ callbackDue' = (callbackDue \/ wsOpen)
  /\ handlerPc' = "idle"
  /\ handlerStream' = None
  /\ UNCHANGED newestFile

(* No such server, project or file, or the snapshot cannot be read. *)
OpenThrows ==
  /\ handlerPc \in {"resolve", "startTail"}
  /\ closePc[Handler] = "idle"
  /\ HandlerThrows
  /\ UNCHANGED <<streamVars, tailVars, currentFile, taskVars, rotationPc,
                 closeVars, tailPc>>

FirstTailEnter ==
  /\ handlerPc = "startTail"
  /\ \/ StartTailEnter(handlerStream) /\ handlerPc' = "openTail"
     \/ StartTailClosed(handlerStream) /\ handlerPc' = "scheduleRotation"
  /\ UNCHANGED <<worldVars, streamVars, currentFile, taskVars, handlerStream,
                 rotationPc, closeVars, tailPc>>

FirstTailOpened(h) ==
  /\ handlerPc = "openTail"
  /\ StartTailOpened(handlerStream, h)
  /\ tailPc' = [tailPc EXCEPT ![h] = "submitted"]
  /\ handlerPc' = "scheduleRotation"
  /\ UNCHANGED <<worldVars, streamVars, currentFile, taskVars, handlerStream,
                 rotationPc, closeVars>>

FirstTailFailed ==
  /\ handlerPc = "openTail"
  /\ StartTailFailed(handlerStream)
  /\ HandlerThrows
  /\ UNCHANGED <<streamVars, currentFile, taskVars, rotationPc, closeVars,
                 tailPc>>

(***************************************************************************)
(* scheduleRotationCheck and scheduleStaleStreamCleanup: the task runs     *)
(* from when it is scheduled, close can cancel it from when it is kept in  *)
(* its field.  The stream may have been closed in the meantime.            *)
(***************************************************************************)
HandlerMoves(from, to) ==
  /\ handlerPc = from
  /\ handlerPc' = to
  /\ UNCHANGED <<worldVars, streamVars, tailVars, currentFile, rotationPc,
                 closeVars, tailPc>>

ScheduleRotation ==
  /\ HandlerMoves("scheduleRotation", "keepRotation")
  /\ rotationTask' = [rotationTask EXCEPT ![handlerStream] = "scheduled"]
  /\ UNCHANGED <<staleTask, handlerStream>>

KeepRotation ==
  /\ HandlerMoves("keepRotation", "scheduleStale")
  /\ rotationTask' = [rotationTask EXCEPT ![handlerStream] = "kept"]
  /\ UNCHANGED <<staleTask, handlerStream>>

ScheduleStale ==
  /\ HandlerMoves("scheduleStale", "keepStale")
  /\ staleTask' = [staleTask EXCEPT ![handlerStream] = "scheduled"]
  /\ UNCHANGED <<rotationTask, handlerStream>>

(* The last step of openInternal: the client is told "following". *)
KeepStale ==
  /\ HandlerMoves("keepStale", "idle")
  /\ staleTask' = [staleTask EXCEPT ![handlerStream] = "kept"]
  /\ handlerStream' = None
  /\ UNCHANGED rotationTask

HandlerStep ==
  \/ \E s \in Streams, file \in Files : RegisterStream(s, file)
  \/ OpenThrows
  \/ FirstTailEnter
  \/ \E h \in Handles : FirstTailOpened(h)
  \/ FirstTailFailed
  \/ ScheduleRotation \/ KeepRotation \/ ScheduleStale \/ KeepStale

-----------------------------------------------------------------------------
(***************************************************************************)
(* The connection, the callback the container makes at its end, and the    *)
(* remote application, which starts a new log file.                        *)
(***************************************************************************)
Disconnect ==
  /\ wsOpen
  /\ connection' = "closed"
  /\ callbackDue' = TRUE
  /\ UNCHANGED <<newestFile, streamVars, tailVars, currentFile, taskVars,
                 handlerVars, rotationPc, closeVars, tailPc>>

(* afterConnectionClosed *)
ConnectionClosed ==
  /\ callbackDue
  /\ closePc[Callback] = "idle"
  /\ callbackDue' = FALSE
  /\ RemoveRegistered(Callback)
  /\ UNCHANGED <<connection, newestFile, tailVars, currentFile, taskVars,
                 handlerVars, rotationPc, tailPc>>

(* handleTransportError: before the container closes the connection. *)
TransportError ==
  /\ connection = "open"
  /\ closePc[Callback] = "idle"
  /\ connection' = "failing"
  /\ RemoveRegistered(Callback)
  /\ UNCHANGED <<callbackDue, newestFile, tailVars, currentFile, taskVars,
                 handlerVars, rotationPc, tailPc>>

RotateLog ==
  /\ newestFile < MaxFile
  /\ newestFile' = newestFile + 1
  /\ UNCHANGED <<connection, callbackDue, streamVars, tailVars, currentFile,
                 taskVars, handlerVars, rotationPc, closeVars, tailPc>>

-----------------------------------------------------------------------------
Runs(task) == task \in {"scheduled", "kept"}

RotationMoves(s, from, to) ==
  /\ rotationPc[s] = from
  /\ rotationPc' = [rotationPc EXCEPT ![s] = to]
  /\ UNCHANGED <<worldVars, streamVars, taskVars, handlerVars, closeVars>>

(***************************************************************************)
(* The rotation check of stream s, if the log has been idle for long       *)
(* enough: the checks, then the remote listing.                            *)
(***************************************************************************)
RotationRun(s) ==
  /\ Runs(rotationTask[s])
  /\ s \notin closed
  /\ wsOpen
  /\ RotationMoves(s, "idle", "list")
  /\ UNCHANGED <<tailVars, currentFile, tailPc>>

(* The listing failed, is empty, or has no newer file. *)
RotationKeepsFile(s) ==
  /\ RotationMoves(s, "list", "idle")
  /\ UNCHANGED <<tailVars, currentFile, tailPc>>

(* Mutant: the stream names the newer file, but its tail is left alone. *)
RotationSwitchNameOnly(s) ==
  /\ newestFile > currentFile[s]
  /\ currentFile' = [currentFile EXCEPT ![s] = newestFile]
  /\ RotationMoves(s, "list", "idle")
  /\ UNCHANGED <<tailVars, tailPc>>

(* A newer file: the stream moves to it, then its tail follows. *)
RotationSwitch(s) ==
  /\ newestFile > currentFile[s]
  /\ currentFile' = [currentFile EXCEPT ![s] = newestFile]
  /\ RotationMoves(s, "list", "startTail")
  /\ UNCHANGED <<tailVars, tailPc>>

RotationEnter(s) ==
  /\ \/ RotationMoves(s, "startTail", "openTail") /\ StartTailEnter(s)
     \/ RotationMoves(s, "startTail", "idle") /\ StartTailClosed(s)
  /\ UNCHANGED <<currentFile, tailPc>>

RotationOpened(s, h) ==
  /\ RotationMoves(s, "openTail", "idle")
  /\ StartTailOpened(s, h)
  /\ tailPc' = [tailPc EXCEPT ![h] = "submitted"]
  /\ UNCHANGED currentFile

(* The exception is logged; the next check finds the file unchanged. *)
RotationFailed(s) ==
  /\ RotationMoves(s, "openTail", "idle")
  /\ StartTailFailed(s)
  /\ UNCHANGED <<currentFile, tailPc>>

(* The message file_switched meets a closed connection: the exception     *)
(* skips startTail.                                                        *)
RotationThrows(s) ==
  /\ ~wsOpen
  /\ RotationMoves(s, "startTail", "idle")
  /\ UNCHANGED <<tailVars, currentFile, tailPc>>

RotationStep(s) ==
  \/ RotationRun(s) \/ RotationKeepsFile(s) \/ RotationSwitch(s)
  \/ RotationEnter(s) \/ RotationThrows(s) \/ RotationFailed(s)
  \/ \E h \in Handles : RotationOpened(s, h)

(***************************************************************************)
(* The stale cleanup of stream s: it finds s without heartbeat for too     *)
(* long, then closes the stream the session has by then.                   *)
(***************************************************************************)
(* Mutant: like the rotation check, it has nothing to do without ws. *)
StaleRunConnected(s) ==
  /\ Runs(staleTask[s])
  /\ closePc[s] = "idle"
  /\ s \notin closed
  /\ wsOpen
  /\ closePc' = [closePc EXCEPT ![s] = "remove"]
  /\ UNCHANGED <<worldVars, streamVars, tailVars, currentFile, taskVars,
                 handlerVars, rotationPc, closeStream, closeTail, tailPc>>

StaleRun(s) ==
  /\ Runs(staleTask[s])
  /\ closePc[s] = "idle"
  /\ s \notin closed
  /\ closePc' = [closePc EXCEPT ![s] = "remove"]
  /\ UNCHANGED <<worldVars, streamVars, tailVars, currentFile, taskVars,
                 handlerVars, rotationPc, closeStream, closeTail, tailPc>>

StaleRemove(s) ==
  /\ closePc[s] = "remove"
  /\ RemoveRegistered(s)
  /\ UNCHANGED <<worldVars, tailVars, currentFile, taskVars, handlerVars,
                 rotationPc, tailPc>>

-----------------------------------------------------------------------------
(* Tail h is still the one its stream reads, and there is someone to read  *)
(* it for.                                                                 *)
IsCurrent(h) ==
  /\ tailStream[h] \notin closed
  /\ wsOpen
  /\ tailGen[h] = tailGeneration[tailStream[h]]

TailMoves(h, from, to) ==
  /\ tailPc[h] = from
  /\ tailPc' = [tailPc EXCEPT ![h] = to]
  /\ UNCHANGED <<worldVars, streamVars, currentFile, taskVars, handlerVars,
                 rotationPc, closeVars>>

(* readTailLoop of tail h: the checks under the lock. *)
ReaderStart(h) ==
  LET s == tailStream[h]
      wanted == /\ s \notin closed
                /\ tailHandle[s] # None
                /\ tailGen[h] = tailGeneration[s]
  IN  /\ s \notin locked
      /\ TailMoves(h, "submitted", IF wanted THEN "reading" ELSE "done")
      /\ UNCHANGED tailVars

(* The remote tail ended, or the read failed. *)
ReaderEnd(h) == TailMoves(h, "reading", "ended") /\ UNCHANGED tailVars

(* The loop condition fails after a line: nothing is restarted.  There may *)
(* never be another line, so no fairness.                                  *)
ReaderStop(h) ==
  /\ TailMoves(h, "reading", "done")
  /\ ~IsCurrent(h)
  /\ UNCHANGED tailVars

(* After the loop: scheduleTailRestart if the tail is still wanted. *)
ReaderFinish(h) ==
  /\ TailMoves(h, "ended", IF IsCurrent(h) THEN "restartDue" ELSE "done")
  /\ UNCHANGED tailVars

(* The restart task of tail h, a second later. *)
RestartRun(h) ==
  /\ TailMoves(h, "restartDue", IF IsCurrent(h) THEN "startTail" ELSE "done")
  /\ UNCHANGED tailVars

(* Likewise for the status "reconnecting". *)
RestartThrows(h) ==
  /\ ~wsOpen
  /\ TailMoves(h, "startTail", "done")
  /\ UNCHANGED tailVars

RestartEnter(h) ==
  \/ TailMoves(h, "startTail", "openTail") /\ StartTailEnter(tailStream[h])
  \/ TailMoves(h, "startTail", "done") /\ StartTailClosed(tailStream[h])

RestartOpened(h, next) ==
  /\ tailPc[h] = "openTail"
  /\ StartTailOpened(tailStream[h], next)
  /\ tailPc' = [tailPc EXCEPT ![h] = "done", ![next] = "submitted"]
  /\ UNCHANGED <<worldVars, streamVars, currentFile, taskVars, handlerVars,
                 rotationPc, closeVars>>

(* openTail threw: again later if the failed tail still is the current one. *)
RestartFailed(h) ==
  /\ TailMoves(h, "openTail", IF IsCurrent(h) THEN "restartDue" ELSE "done")
  /\ StartTailFailed(tailStream[h])

TailStep(h) ==
  \/ ReaderStart(h) \/ ReaderFinish(h)
  \/ RestartRun(h) \/ RestartEnter(h) \/ RestartThrows(h) \/ RestartFailed(h)
  \/ \E next \in Handles : RestartOpened(h, next)

-----------------------------------------------------------------------------
Next ==
  \/ OpenMessage \/ CloseMessage \/ HandlerStep
  \/ Disconnect \/ ConnectionClosed \/ TransportError \/ RotateLog
  \/ \E c \in Closers : CloseStep(c)
  \/ \E s \in Streams : RotationStep(s) \/ StaleRun(s) \/ StaleRemove(s)
  \/ \E h \in Handles : ReaderEnd(h) \/ ReaderStop(h) \/ TailStep(h)

Spec == Init /\ [][Next]_vars

(***************************************************************************)
(* Fairness.  Threads that can run do run, and a remote call ends, with a  *)
(* result or an exception (the SSH client has timeouts).  The container    *)
(* reports the end of a connection.  Once that is gone no ping arrives, so *)
(* the stale cleanup of a stream that is left finds its time-out passed.   *)
(***************************************************************************)
Fairness ==
  /\ WF_vars(HandlerStep)
  /\ WF_vars(ConnectionClosed)
  /\ \A c \in Closers : WF_vars(CloseStep(c))
  /\ \A s \in Streams : /\ WF_vars(RotationStep(s))
                        /\ WF_vars(~wsOpen /\ StaleRun(s))
                        /\ WF_vars(StaleRemove(s))
  /\ \A h \in Handles : WF_vars(TailStep(h))

FairSpec == Spec /\ Fairness

-----------------------------------------------------------------------------
IsOpen(h) == handleState[h] = "open"

Closing(s) == \E c \in Closers : closeStream[c] = s

(* Types of the variables. *)
TypeOK ==
  /\ connection \in {"open", "failing", "closed"} /\ callbackDue \in BOOLEAN
  /\ newestFile \in Files
  /\ registered \in Streams \cup {None}
  /\ created \subseteq Streams
  /\ closed \subseteq created
  /\ locked \subseteq created
  /\ tailHandle \in [Streams -> Handles \cup {None}]
  /\ tailGeneration \in [Streams -> Nat]
  /\ currentFile \in [Streams -> Files]
  /\ openPath \in [Streams -> Files]
  /\ rotationTask \in [Streams -> {"none", "scheduled", "kept", "cancelled"}]
  /\ staleTask \in [Streams -> {"none", "scheduled", "kept", "cancelled"}]
  /\ handlerPc \in {"idle", "resolve", "startTail", "openTail",
                    "scheduleRotation", "keepRotation", "scheduleStale",
                    "keepStale"}
  /\ handlerStream \in Streams \cup {None}
  /\ rotationPc \in [Streams -> {"idle", "list", "startTail", "openTail"}]
  /\ closePc \in [Closers -> {"idle", "remove", "mark", "take", "disconnect"}]
  /\ closeStream \in [Closers -> Streams \cup {None}]
  /\ closeTail \in [Closers -> Handles \cup {None}]
  /\ handleState \in [Handles -> {"unused", "open", "closed"}]
  /\ tailStream \in [Handles -> Streams \cup {None}]
  /\ tailGen \in [Handles -> Nat]
  /\ tailFile \in [Handles -> Files]
  /\ tailPc \in [Handles -> {"none", "submitted", "reading", "ended",
                             "restartDue", "startTail", "openTail", "done"}]

(***************************************************************************)
(* No SSH channel is lost: an open tail is the current one of a stream, or *)
(* a thread that is closing the stream has taken it out to close it.       *)
(***************************************************************************)
OpenTailsAreOwned ==
  \A h \in Handles : IsOpen(h) =>
    \/ \E s \in Streams : tailHandle[s] = h
    \/ \E c \in Closers : closeTail[c] = h

(***************************************************************************)
(* However reopen, rotation, restart and close interleave, a stream never  *)
(* has two remote tails at a time.                                         *)
(***************************************************************************)
OneTailPerStream ==
  \A h1, h2 \in Handles :
    (IsOpen(h1) /\ IsOpen(h2) /\ tailStream[h1] = tailStream[h2]) => h1 = h2

(***************************************************************************)
(* close is final: when the thread that closes a stream is through, the    *)
(* stream has no open tail, whatever startTail was on its way to it.       *)
(***************************************************************************)
ClosedStreamsHoldNoTail ==
  \A h \in Handles : (IsOpen(h) /\ tailStream[h] \in closed)
                       => Closing(tailStream[h])

(***************************************************************************)
(* The generation that a reader compares without the lock stands for its   *)
(* tail: while they agree the stream still has that tail, and it is open.  *)
(***************************************************************************)
GenerationNamesTail ==
  \A h \in Handles :
    LET s == tailStream[h] IN
    (s # None /\ tailGen[h] = tailGeneration[s])
      => tailHandle[s] = h /\ IsOpen(h)

(***************************************************************************)
(* Between two switches a stream that is followed reads the file it names, *)
(* though currentFile is written without the lock and read under it.       *)
(***************************************************************************)
TailFollowsCurrentFile ==
  \A s \in Streams :
    (/\ wsOpen
     /\ tailHandle[s] # None
     /\ s \notin closed
     /\ rotationPc[s] \in {"idle", "list"})
      => tailFile[tailHandle[s]] = currentFile[s]

(***************************************************************************)
(* The stream in the map is one that nobody has closed or is closing, so   *)
(* a ping or a close always reaches the stream the client sees.            *)
(***************************************************************************)
RegisteredStreamIsLive ==
  registered # None => registered \notin closed /\ ~Closing(registered)

(***************************************************************************)
(* activeStreams.put never drops a stream that is still registered: only   *)
(* an empty entry is filled.                                               *)
(***************************************************************************)
PutReplacesNothing ==
  [][registered' \in {None, registered} \/ registered = None]_vars

(***************************************************************************)
(* The service keeps its promise to the remote host: a stream is released  *)
(* when the thread that closes it is through.                              *)
(***************************************************************************)
Lease == INSTANCE TailLease WITH
           state <- handleState, owner <- tailStream,
           released <- {s \in closed : ~Closing(s)}

LeaseSpec == Lease!Spec

(***************************************************************************)
(* A stream the browser follows has its tail, or somebody is about to open *)
(* one (README.md: "tail -F" style, which retries until it can read).      *)
(***************************************************************************)
FollowedStreamHasTail ==
  \A s \in Streams :
    (wsOpen /\ registered = s /\ handlerPc = "idle")
      => \/ tailHandle[s] # None
         \/ rotationPc[s] \in {"startTail", "openTail"}
         \/ \E h \in Handles : /\ tailStream[h] = s
                               /\ tailPc[h] \in {"restartDue", "startTail",
                                                 "openTail"}

(***************************************************************************)
(* The stale cleanup of a stream closes that stream, the one its log line  *)
(* names, and no other.                                                    *)
(***************************************************************************)
StaleCleanupClosesItsOwn ==
  [][\A s \in Streams :
       (closePc[s] = "remove" /\ closePc'[s] = "mark")
         => closeStream'[s] = s]_vars

(***************************************************************************)
(* Once the browser is gone the remote host is left alone: for every       *)
(* interleaving of the end of the connection with an open, a rotation or a *)
(* restart, in the end no tail runs.                                       *)
(***************************************************************************)
DisconnectReleasesTails ==
  <>(~wsOpen) => <>[](\A h \in Handles : ~IsOpen(h))

(* A thread that closes a stream is not blocked for ever by its lock. *)
EveryCloseEnds ==
  \A c \in Closers : (closePc[c] # "idle") ~> (closePc[c] = "idle")
=============================================================================
