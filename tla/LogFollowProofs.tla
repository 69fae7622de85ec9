-------------------------- MODULE LogFollowProofs --------------------------
(***************************************************************************)
(* Proofs about LogFollow for any number of streams, tails and log files:  *)
(* its type invariant, who owns a tail and for how long, and that it       *)
(* implements TailLease.                                                   *)
(*                                                                         *)
(* The inductive invariant says who may touch a stream.  ControlInv: only  *)
(* created streams are worked on, and nothing is registered while the      *)
(* handler resolves a file.  LockInv: at most one startTail is inside the  *)
(* lock of a stream, and the stream has no tail meanwhile.  TailInv: a     *)
(* tail belongs to one stream, by its field or by the thread that took it  *)
(* out, and old generations stay old.  CloseInv: a stream has at most one  *)
(* closer, and once that is past the lock no tail can come back.           *)
(***************************************************************************)
EXTENDS LogFollow, TLAPS

ControlInv ==
  /\ registered # None => registered \in created
  /\ handlerPc = "resolve" => registered = None
  /\ handlerPc \notin {"idle", "resolve"} => handlerStream \in created
  /\ \A s \in Streams : rotationTask[s] # "none" => s \in created
  /\ \A s \in Streams : rotationPc[s] # "idle" => s \in created

HandlerOpens(s) == handlerPc = "openTail" /\ handlerStream = s
RotationOpens(s) == rotationPc[s] = "openTail"
RestartOpens(h, s) == tailPc[h] = "openTail" /\ tailStream[h] = s

LockInv ==
  \A s \in Streams :
    /\ s \in locked => tailHandle[s] = None
    /\ HandlerOpens(s) => s \in locked /\ ~RotationOpens(s)
    /\ RotationOpens(s) => s \in locked
    /\ \A h \in Handles : RestartOpens(h, s) =>
         /\ s \in locked /\ ~HandlerOpens(s) /\ ~RotationOpens(s)
         /\ \A h2 \in Handles : RestartOpens(h2, s) => h2 = h

TailInv ==
  /\ \A h \in Handles :
       /\ tailStream[h] = None <=> handleState[h] = "unused"
       /\ tailPc[h] # "none" => tailStream[h] # None
       /\ tailStream[h] # None => tailStream[h] \in created
       /\ tailStream[h] # None => tailGen[h] <= tailGeneration[tailStream[h]]
       /\ (tailStream[h] # None /\ tailGen[h] = tailGeneration[tailStream[h]])
            => tailHandle[tailStream[h]] = h
       /\ IsOpen(h) => \/ tailHandle[tailStream[h]] = h
                       \/ \E c \in Closers : closeTail[c] = h
  /\ \A s \in Streams :
       tailHandle[s] # None => /\ tailStream[tailHandle[s]] = s
                               /\ IsOpen(tailHandle[s])

CloseInv ==
  /\ \A c \in Closers :
       /\ closePc[c] \in {"idle", "remove"} => closeStream[c] = None
       /\ closeStream[c] # None => /\ closeStream[c] \in created
                                   /\ closeStream[c] # registered
       /\ closePc[c] \in {"mark", "take", "disconnect"}
            => closeStream[c] # None
       /\ closePc[c] \in {"take", "disconnect"} => closeStream[c] \in closed
       /\ closePc[c] = "disconnect" => /\ closeStream[c] \notin locked
                                       /\ tailHandle[closeStream[c]] = None
       /\ closeTail[c] # None => /\ closePc[c] = "disconnect"
                                 /\ tailStream[closeTail[c]] = closeStream[c]
       /\ \A d \in Closers :
            (closeStream[c] # None /\ closeStream[c] = closeStream[d])
              => c = d
  /\ \A s \in closed :
       /\ s # registered
       /\ Closing(s) \/ (tailHandle[s] = None /\ s \notin locked)

IInv == TypeOK /\ ControlInv /\ LockInv /\ TailInv /\ CloseInv

(* openTail has succeeded, for a stream whose lock is held (startTail,     *)
(* 172-200): the new tail belongs to the stream, under a new generation.   *)
LEMMA OpenedTailInv ==
  ASSUME TypeOK, TailInv, NEW s \in Streams, NEW h \in Handles,
         s \in created, tailHandle[s] = None, StartTailOpened(s, h),
         UNCHANGED <<created, closeTail>>,
         \A k \in Handles : tailPc'[k] # "none" => k = h \/ tailPc[k] # "none"
  PROVE  TailInv'
<1>1. /\ tailStream[h] = None
      /\ handleState' = [handleState EXCEPT ![h] = "open"]
      /\ tailHandle' = [tailHandle EXCEPT ![s] = h]
      /\ tailGeneration' = [tailGeneration EXCEPT ![s] = @ + 1]
      /\ tailStream' = [tailStream EXCEPT ![h] = s]
      /\ tailGen' = [tailGen EXCEPT ![h] = tailGeneration[s] + 1]
  BY DEF StartTailOpened, TailInv
<1>2. s # None /\ h # None
  BY LogFollowAssumption
<1>3. ASSUME NEW k \in Handles PROVE
       /\ tailStream'[k] = None <=> handleState'[k] = "unused"
       /\ tailPc'[k] # "none" => tailStream'[k] # None
       /\ tailStream'[k] # None => tailStream'[k] \in created
  <2>1. CASE k = h
    BY <1>1, <1>2, <2>1 DEF TypeOK
  <2>2. CASE k # h
    BY <1>1, <1>2, <2>2 DEF TypeOK, TailInv
  <2>3. QED BY <2>1, <2>2
<1>4. ASSUME NEW k \in Handles, tailStream'[k] # None PROVE
       /\ tailGen'[k] <= tailGeneration'[tailStream'[k]]
       /\ tailGen'[k] = tailGeneration'[tailStream'[k]]
            => tailHandle'[tailStream'[k]] = k
  <2>1. CASE k = h
    BY <1>1, <1>2, <2>1 DEF TypeOK
  <2>2. CASE k # h
    <3>1. /\ tailStream'[k] = tailStream[k] /\ tailGen'[k] = tailGen[k]
          /\ tailStream[k] \in Streams
      BY <1>1, <2>2, <1>4 DEF TypeOK
    <3>2. tailGen[k] \in Nat /\ tailGeneration[s] \in Nat
      BY DEF TypeOK
    <3>3. tailGen[k] <= tailGeneration[tailStream[k]]
      BY <3>1, <1>4 DEF TailInv
    <3>4. CASE tailStream[k] = s
      BY <3>1, <3>2, <3>3, <3>4, <1>1 DEF TypeOK
    <3>5. CASE tailStream[k] # s
      BY <3>1, <3>5, <1>1, <1>4 DEF TypeOK, TailInv
    <3>6. QED BY <3>4, <3>5
  <2>3. QED BY <2>1, <2>2
<1>5. ASSUME NEW k \in Handles, IsOpen(k)' PROVE
       \/ tailHandle'[tailStream'[k]] = k
       \/ \E c \in Closers : closeTail'[c] = k
  <2>1. CASE k = h
    BY <1>1, <2>1 DEF TypeOK
  <2>2. CASE k # h
    <3>1. /\ IsOpen(k) /\ tailStream'[k] = tailStream[k]
          /\ tailStream[k] \in Streams
      BY <1>1, <2>2, <1>5 DEF TypeOK, TailInv, IsOpen
    <3>2. CASE tailHandle[tailStream[k]] = k
      BY <3>1, <3>2, <1>1, <1>2, LogFollowAssumption DEF TypeOK
    <3>3. CASE \E c \in Closers : closeTail[c] = k
      BY <3>3
    <3>4. QED BY <3>1, <3>2, <3>3 DEF TailInv
  <2>3. QED BY <2>1, <2>2
<1>6. ASSUME NEW r \in Streams, tailHandle'[r] # None PROVE
       /\ tailStream'[tailHandle'[r]] = r
       /\ handleState'[tailHandle'[r]] = "open"
  <2>1. CASE r = s
    BY <1>1, <2>1 DEF TypeOK, IsOpen
  <2>2. CASE r # s
    <3>1. tailHandle'[r] = tailHandle[r] /\ tailHandle[r] \in Handles
      BY <1>1, <2>2, <1>6 DEF TypeOK
    <3>2. tailStream[tailHandle[r]] = r /\ IsOpen(tailHandle[r])
      BY <3>1, <1>6 DEF TailInv
    <3>3. tailHandle[r] # h
      BY <3>2, <1>1, LogFollowAssumption
    <3>4. QED BY <1>1, <3>1, <3>2, <3>3 DEF IsOpen, TypeOK
  <2>3. QED BY <2>1, <2>2
<1>7. QED
  BY <1>3, <1>4, <1>5, <1>6 DEF TailInv, IsOpen

(* The same step does not get in the way of a thread that closes a stream: *)
(* that one has to wait for the lock.                                      *)
LEMMA OpenedCloseInv ==
  ASSUME TypeOK, CloseInv, TailInv, NEW s \in Streams, NEW h \in Handles,
         s \in created, s \in locked, StartTailOpened(s, h),
         UNCHANGED <<created, closed, registered, closeVars>>
  PROVE  CloseInv'
<1>1. /\ tailStream[h] = None
      /\ tailHandle' = [tailHandle EXCEPT ![s] = h]
      /\ tailStream' = [tailStream EXCEPT ![h] = s]
      /\ locked' = locked \ {s}
  BY DEF StartTailOpened, TailInv
<1>2. ASSUME NEW c \in Closers, closePc[c] = "disconnect" PROVE
       /\ closeStream[c] \notin locked'
       /\ tailHandle'[closeStream[c]] = None
  <2>1. /\ closeStream[c] # s /\ closeStream[c] \in Streams
        /\ tailHandle[closeStream[c]] = None /\ closeStream[c] \notin locked
    BY <1>2 DEF CloseInv, TypeOK
  <2>2. QED BY <2>1, <1>1 DEF TypeOK
<1>3. ASSUME NEW c \in Closers, closeTail[c] # None PROVE
       tailStream'[closeTail[c]] = closeStream[c]
  <2>1. /\ closeStream[c] # None /\ tailStream[closeTail[c]] = closeStream[c]
        /\ closeTail[c] \in Handles
    BY <1>3 DEF CloseInv, TypeOK
  <2>2. QED BY <2>1, <1>1 DEF TypeOK
<1>4. ASSUME NEW r \in closed PROVE
       Closing(r)' \/ (tailHandle'[r] = None /\ r \notin locked')
  <2>1. Closing(r)' <=> Closing(r)
    BY DEF Closing, closeVars
  <2>2. r \in Streams
    BY DEF TypeOK
  <2>3. QED BY <1>1, <2>1, <2>2 DEF CloseInv, TypeOK
<1>5. QED BY <1>2, <1>3, <1>4 DEF CloseInv, closeVars

-----------------------------------------------------------------------------
(***************************************************************************)
(* Each action keeps the invariant, one part after another.  The tuples of *)
(* variables only group what UNCHANGED names.                              *)
(***************************************************************************)
USE DEF worldVars, streamVars, openedVars, tailVars, taskVars,
        handlerVars, closeVars

(* open_stream or switch_file: what the session follows is taken out of    *)
(* the map.                                                                *)
LEMMA OpenMessageInv ==
  ASSUME IInv, OpenMessage
  PROVE  IInv'
<1>1. TypeOK'
  BY DEF IInv, TypeOK, OpenMessage, HandlerReady, RemoveRegistered
<1>2. ControlInv'
  BY DEF IInv, ControlInv, OpenMessage, HandlerReady, RemoveRegistered
<1>3. LockInv'
  BY DEF IInv, LockInv, HandlerOpens, RotationOpens, RestartOpens, Closing,
     OpenMessage, HandlerReady, RemoveRegistered
<1>4. TailInv'
  BY DEF IInv, TailInv, IsOpen, Closers, OpenMessage, HandlerReady,
     RemoveRegistered
<1>5. CloseInv'
  BY LogFollowAssumption DEF IInv, TypeOK, CloseInv, ControlInv, Closers,
     Closing, OpenMessage, HandlerReady, RemoveRegistered
<1>6. QED
  BY <1>1, <1>2, <1>3, <1>4, <1>5 DEF IInv

(* close_stream takes the stream out of the map. *)
LEMMA CloseMessageInv ==
  ASSUME IInv, CloseMessage
  PROVE  IInv'
<1>1. TypeOK'
  BY DEF IInv, TypeOK, CloseMessage, HandlerReady, RemoveRegistered
<1>2. ControlInv'
  BY DEF IInv, ControlInv, CloseMessage, HandlerReady, RemoveRegistered
<1>3. LockInv'
  BY DEF IInv, LockInv, HandlerOpens, RotationOpens, RestartOpens, Closing,
     CloseMessage, HandlerReady, RemoveRegistered
<1>4. TailInv'
  BY DEF IInv, TailInv, IsOpen, Closers, CloseMessage, HandlerReady,
     RemoveRegistered
<1>5. CloseInv'
  BY LogFollowAssumption DEF IInv, TypeOK, CloseInv, ControlInv, Closers,
     Closing, CloseMessage, HandlerReady, RemoveRegistered
<1>6. QED
  BY <1>1, <1>2, <1>3, <1>4, <1>5 DEF IInv

(* openInternal puts a new stream into the map, before it has a tail. *)
LEMMA RegisterStreamInv ==
  ASSUME IInv, NEW s \in Streams, NEW file \in Files,
         RegisterStream(s, file)
  PROVE  IInv'
<1>1. TypeOK'
  BY DEF IInv, TypeOK, RegisterStream
<1>2. ControlInv'
  BY DEF IInv, ControlInv, RegisterStream
<1>3. LockInv'
  BY DEF IInv, LockInv, HandlerOpens, RotationOpens, RestartOpens, Closing,
     RegisterStream
<1>4. TailInv'
  BY DEF IInv, TailInv, IsOpen, Closers, RegisterStream
<1>5. CloseInv'
  BY DEF IInv, TypeOK, CloseInv, Closers, Closing, RegisterStream
<1>6. QED
  BY <1>1, <1>2, <1>3, <1>4, <1>5 DEF IInv

(* openInternal throws before it has a tail. *)
LEMMA OpenThrowsInv ==
  ASSUME IInv, OpenThrows
  PROVE  IInv'
<1>1. TypeOK'
  BY DEF IInv, TypeOK, OpenThrows, HandlerThrows
<1>2. ControlInv'
  BY DEF IInv, ControlInv, OpenThrows, HandlerThrows
<1>3. LockInv'
  BY DEF IInv, LockInv, HandlerOpens, RotationOpens, RestartOpens, Closing,
     OpenThrows, HandlerThrows
<1>4. TailInv'
  BY DEF IInv, TailInv, IsOpen, Closers, OpenThrows, HandlerThrows
<1>5. CloseInv'
  BY DEF IInv, CloseInv, Closers, Closing, OpenThrows, HandlerThrows
<1>6. QED
  BY <1>1, <1>2, <1>3, <1>4, <1>5 DEF IInv

(* openInternal enters startTail. *)
LEMMA FirstTailEnterInv ==
  ASSUME IInv, FirstTailEnter
  PROVE  IInv'
<1>1. TypeOK'
  BY LogFollowAssumption DEF IInv, TypeOK, ControlInv, CloseInv, Closers,
     Files, FirstTailEnter, StartTailEnter, StartTailClosed
<1>2. ControlInv'
  BY DEF IInv, ControlInv, FirstTailEnter, StartTailEnter, StartTailClosed
<1>3. LockInv'
  BY DEF IInv, TypeOK, LockInv, HandlerOpens, RotationOpens, RestartOpens,
     Closing, FirstTailEnter, StartTailEnter, StartTailClosed
<1>4. TailInv'
  BY DEF IInv, TypeOK, TailInv, ControlInv, IsOpen, Closers, FirstTailEnter,
     StartTailEnter, StartTailClosed
<1>5. CloseInv'
  BY DEF IInv, TypeOK, CloseInv, Closers, Closing, FirstTailEnter,
     StartTailEnter, StartTailClosed
<1>6. QED
  BY <1>1, <1>2, <1>3, <1>4, <1>5 DEF IInv

(* openTail succeeds in openInternal. *)
LEMMA FirstTailOpenedInv ==
  ASSUME IInv, NEW h \in Handles, FirstTailOpened(h)
  PROVE  IInv'
<1>1. TypeOK'
  BY DEF IInv, TypeOK, ControlInv, FirstTailOpened, StartTailOpened
<1>2. ControlInv'
  BY DEF IInv, ControlInv, FirstTailOpened, StartTailOpened
<1>3. LockInv'
  BY DEF IInv, LockInv, TailInv, HandlerOpens, RotationOpens, RestartOpens,
     Closing, FirstTailOpened, StartTailOpened
<1>4. TailInv'
  <2>1. /\ handlerStream \in Streams /\ handlerStream \in created
        /\ handlerStream \in locked /\ tailHandle[handlerStream] = None
    BY DEF IInv, TypeOK, ControlInv, LockInv, HandlerOpens,
       FirstTailOpened
  <2>2. StartTailOpened(handlerStream, h)
    BY DEF FirstTailOpened
  <2>3. \A k \in Handles : tailPc'[k] # "none" => k = h \/ tailPc[k] # "none"
    BY DEF FirstTailOpened
  <2>4. UNCHANGED <<created, closeTail>>
    BY DEF FirstTailOpened
  <2>5. QED
    BY <2>1, <2>2, <2>3, <2>4, OpenedTailInv DEF IInv
<1>5. CloseInv'
  <2>1. /\ handlerStream \in Streams /\ handlerStream \in created
        /\ handlerStream \in locked /\ tailHandle[handlerStream] = None
    BY DEF IInv, TypeOK, ControlInv, LockInv, HandlerOpens,
       FirstTailOpened
  <2>2. StartTailOpened(handlerStream, h)
    BY DEF FirstTailOpened
  <2>3. UNCHANGED <<created, closed, registered, closeVars>>
    BY DEF FirstTailOpened
  <2>4. QED
    BY <2>1, <2>2, <2>3, OpenedCloseInv DEF IInv
<1>6. QED
  BY <1>1, <1>2, <1>3, <1>4, <1>5 DEF IInv

(* openTail throws in openInternal. *)
LEMMA FirstTailFailedInv ==
  ASSUME IInv, FirstTailFailed
  PROVE  IInv'
<1>1. TypeOK'
  BY DEF IInv, TypeOK, FirstTailFailed, StartTailFailed, HandlerThrows
<1>2. ControlInv'
  BY DEF IInv, ControlInv, FirstTailFailed, StartTailFailed, HandlerThrows
<1>3. LockInv'
  BY DEF IInv, LockInv, HandlerOpens, RotationOpens, RestartOpens, Closing,
     FirstTailFailed, StartTailFailed, HandlerThrows
<1>4. TailInv'
  BY DEF IInv, TailInv, IsOpen, Closers, FirstTailFailed, StartTailFailed,
     HandlerThrows
<1>5. CloseInv'
  BY DEF IInv, CloseInv, Closers, Closing, FirstTailFailed, StartTailFailed,
     HandlerThrows
<1>6. QED
  BY <1>1, <1>2, <1>3, <1>4, <1>5 DEF IInv

(* The rotation check is scheduled. *)
LEMMA ScheduleRotationInv ==
  ASSUME IInv, ScheduleRotation
  PROVE  IInv'
<1>1. TypeOK'
  BY DEF IInv, TypeOK, ScheduleRotation, HandlerMoves
<1>2. ControlInv'
  BY DEF IInv, ControlInv, ScheduleRotation, HandlerMoves
<1>3. LockInv'
  BY DEF IInv, LockInv, HandlerOpens, RotationOpens, RestartOpens, Closing,
     ScheduleRotation, HandlerMoves
<1>4. TailInv'
  BY DEF IInv, TailInv, IsOpen, Closers, ScheduleRotation, HandlerMoves
<1>5. CloseInv'
  BY DEF IInv, CloseInv, Closers, Closing, ScheduleRotation, HandlerMoves
<1>6. QED
  BY <1>1, <1>2, <1>3, <1>4, <1>5 DEF IInv

(* The rotation check is kept in its field. *)
LEMMA KeepRotationInv ==
  ASSUME IInv, KeepRotation
  PROVE  IInv'
<1>1. TypeOK'
  BY DEF IInv, TypeOK, KeepRotation, HandlerMoves
<1>2. ControlInv'
  BY DEF IInv, ControlInv, KeepRotation, HandlerMoves
<1>3. LockInv'
  BY DEF IInv, LockInv, HandlerOpens, RotationOpens, RestartOpens, Closing,
     KeepRotation, HandlerMoves
<1>4. TailInv'
  BY DEF IInv, TailInv, IsOpen, Closers, KeepRotation, HandlerMoves
<1>5. CloseInv'
  BY DEF IInv, CloseInv, Closers, Closing, KeepRotation, HandlerMoves
<1>6. QED
  BY <1>1, <1>2, <1>3, <1>4, <1>5 DEF IInv

(* The stale cleanup is scheduled. *)
LEMMA ScheduleStaleInv ==
  ASSUME IInv, ScheduleStale
  PROVE  IInv'
<1>1. TypeOK'
  BY DEF IInv, TypeOK, ScheduleStale, HandlerMoves
<1>2. ControlInv'
  BY DEF IInv, ControlInv, ScheduleStale, HandlerMoves
<1>3. LockInv'
  BY DEF IInv, LockInv, HandlerOpens, RotationOpens, RestartOpens, Closing,
     ScheduleStale, HandlerMoves
<1>4. TailInv'
  BY DEF IInv, TailInv, IsOpen, Closers, ScheduleStale, HandlerMoves
<1>5. CloseInv'
  BY DEF IInv, CloseInv, Closers, Closing, ScheduleStale, HandlerMoves
<1>6. QED
  BY <1>1, <1>2, <1>3, <1>4, <1>5 DEF IInv

(* The stale cleanup is kept in its field. *)
LEMMA KeepStaleInv ==
  ASSUME IInv, KeepStale
  PROVE  IInv'
<1>1. TypeOK'
  BY DEF IInv, TypeOK, KeepStale, HandlerMoves
<1>2. ControlInv'
  BY DEF IInv, ControlInv, KeepStale, HandlerMoves
<1>3. LockInv'
  BY DEF IInv, LockInv, HandlerOpens, RotationOpens, RestartOpens, Closing,
     KeepStale, HandlerMoves
<1>4. TailInv'
  BY DEF IInv, TailInv, IsOpen, Closers, KeepStale, HandlerMoves
<1>5. CloseInv'
  BY DEF IInv, CloseInv, Closers, Closing, KeepStale, HandlerMoves
<1>6. QED
  BY <1>1, <1>2, <1>3, <1>4, <1>5 DEF IInv

(* The connection ends. *)
LEMMA DisconnectInv ==
  ASSUME IInv, Disconnect
  PROVE  IInv'
<1>1. TypeOK'
  BY DEF IInv, TypeOK, Disconnect
<1>2. ControlInv'
  BY DEF IInv, ControlInv, Disconnect
<1>3. LockInv'
  BY DEF IInv, LockInv, HandlerOpens, RotationOpens, RestartOpens, Closing,
     Disconnect
<1>4. TailInv'
  BY DEF IInv, TailInv, IsOpen, Closers, Disconnect
<1>5. CloseInv'
  BY DEF IInv, CloseInv, Closers, Closing, Disconnect
<1>6. QED
  BY <1>1, <1>2, <1>3, <1>4, <1>5 DEF IInv

(* afterConnectionClosed takes the stream out of the map. *)
LEMMA ConnectionClosedInv ==
  ASSUME IInv, ConnectionClosed
  PROVE  IInv'
<1>1. TypeOK'
  BY DEF IInv, TypeOK, ConnectionClosed, RemoveRegistered
<1>2. ControlInv'
  BY DEF IInv, ControlInv, ConnectionClosed, RemoveRegistered
<1>3. LockInv'
  BY DEF IInv, LockInv, HandlerOpens, RotationOpens, RestartOpens, Closing,
     ConnectionClosed, RemoveRegistered
<1>4. TailInv'
  BY DEF IInv, TailInv, IsOpen, Closers, ConnectionClosed, RemoveRegistered
<1>5. CloseInv'
  BY LogFollowAssumption DEF IInv, TypeOK, CloseInv, ControlInv, Closers,
     Closing, ConnectionClosed, RemoveRegistered
<1>6. QED
  BY <1>1, <1>2, <1>3, <1>4, <1>5 DEF IInv

(* handleTransportError takes the stream out of the map. *)
LEMMA TransportErrorInv ==
  ASSUME IInv, TransportError
  PROVE  IInv'
<1>1. TypeOK'
  BY DEF IInv, TypeOK, TransportError, RemoveRegistered
<1>2. ControlInv'
  BY DEF IInv, ControlInv, TransportError, RemoveRegistered
<1>3. LockInv'
  BY DEF IInv, LockInv, HandlerOpens, RotationOpens, RestartOpens, Closing,
     TransportError, RemoveRegistered
<1>4. TailInv'
  BY DEF IInv, TailInv, IsOpen, Closers, TransportError, RemoveRegistered
<1>5. CloseInv'
  BY LogFollowAssumption DEF IInv, TypeOK, CloseInv, ControlInv, Closers,
     Closing, TransportError, RemoveRegistered
<1>6. QED
  BY <1>1, <1>2, <1>3, <1>4, <1>5 DEF IInv

(* The application starts a new log file. *)
LEMMA RotateLogInv ==
  ASSUME IInv, RotateLog
  PROVE  IInv'
<1>1. TypeOK'
  BY LogFollowAssumption DEF IInv, TypeOK, Files, RotateLog
<1>2. ControlInv'
  BY DEF IInv, ControlInv, RotateLog
<1>3. LockInv'
  BY DEF IInv, LockInv, HandlerOpens, RotationOpens, RestartOpens, Closing,
     RotateLog
<1>4. TailInv'
  BY DEF IInv, TailInv, IsOpen, Closers, RotateLog
<1>5. CloseInv'
  BY DEF IInv, CloseInv, Closers, Closing, RotateLog
<1>6. QED
  BY <1>1, <1>2, <1>3, <1>4, <1>5 DEF IInv

(* close sets closed: from here on no startTail enters the lock. *)
LEMMA MarkClosedInv ==
  ASSUME IInv, NEW c \in Closers, MarkClosed(c)
  PROVE  IInv'
<1>1. TypeOK'
  BY DEF IInv, TypeOK, CloseInv, MarkClosed, Cancelled
<1>2. ControlInv'
  BY DEF IInv, ControlInv, MarkClosed, Cancelled
<1>3. LockInv'
  BY DEF IInv, LockInv, HandlerOpens, RotationOpens, RestartOpens, Closing,
     MarkClosed, Cancelled
<1>4. TailInv'
  BY DEF IInv, TailInv, IsOpen, MarkClosed
<1>5. CloseInv'
  <2>1. /\ closed' = closed \cup {closeStream[c]}
        /\ closePc' = [closePc EXCEPT ![c] = "take"]
        /\ closePc[c] = "mark"
        /\ UNCHANGED <<created, registered, locked, tailHandle, tailStream,
                       closeStream, closeTail>>
    BY DEF MarkClosed
  <2>2. /\ closeStream[c] \in created /\ closeStream[c] # registered
    BY <2>1 DEF IInv, CloseInv
  <2>3. \A s \in Streams : Closing(s)' <=> Closing(s)
    BY <2>1 DEF Closing
  <2>4. Closing(closeStream[c])
    BY DEF Closing
  <2>5. ASSUME NEW s \in closed' PROVE
        /\ s # registered
        /\ Closing(s) \/ (tailHandle[s] = None /\ s \notin locked)
    BY <2>1, <2>4 DEF IInv, CloseInv
  <2>6. closed' \subseteq Streams
    BY <2>1, <2>2 DEF IInv, TypeOK
  <2>7. QED
    BY <2>1, <2>3, <2>5, <2>6 DEF IInv, CloseInv
<1>6. QED
  BY <1>1, <1>2, <1>3, <1>4, <1>5 DEF IInv

(* close takes the tail out under the lock: no startTail is inside. *)
LEMMA TakeTailInv ==
  ASSUME IInv, NEW c \in Closers, TakeTail(c)
  PROVE  IInv'
<1>1. TypeOK'
  BY DEF IInv, TypeOK, CloseInv, TakeTail
<1>2. ControlInv'
  BY DEF IInv, ControlInv, TakeTail
<1>3. LockInv'
  BY DEF IInv, LockInv, HandlerOpens, RotationOpens, RestartOpens, Closing,
     TakeTail
<1>4. TailInv'
  <2> DEFINE s == closeStream[c]
  <2>1. s \in Streams /\ s # None
    BY DEF IInv, CloseInv, TypeOK, TakeTail
  <2>2. /\ tailHandle' = [tailHandle EXCEPT ![s] = None]
        /\ tailGeneration' = [tailGeneration EXCEPT ![s] = @ + 1]
        /\ closeTail' = [closeTail EXCEPT ![c] = tailHandle[s]]
        /\ closePc[c] = "take"
        /\ UNCHANGED <<tailStream, handleState, tailPc, created, tailGen>>
    BY DEF TakeTail
  <2> HIDE DEF s
  <2>3. ASSUME NEW h \in Handles, tailStream[h] # None PROVE
        /\ tailGen[h] <= tailGeneration'[tailStream[h]]
        /\ tailGen[h] = tailGeneration'[tailStream[h]]
             => tailHandle'[tailStream[h]] = h
    <3>1. /\ tailStream[h] \in Streams /\ tailGen[h] \in Nat
          /\ tailGeneration[s] \in Nat
      BY <2>1, <2>3 DEF IInv, TypeOK
    <3>2. tailGen[h] <= tailGeneration[tailStream[h]]
      BY <2>3 DEF IInv, TailInv
    <3>3. CASE tailStream[h] = s
      BY <3>1, <3>2, <3>3, <2>2 DEF IInv, TypeOK
    <3>4. CASE tailStream[h] # s
      BY <2>2, <2>3 DEF IInv, TypeOK, TailInv
    <3>5. QED
      BY <3>3, <3>4
  <2>4. ASSUME NEW h \in Handles, IsOpen(h) PROVE
        \/ tailHandle'[tailStream[h]] = h
        \/ \E d \in Closers : closeTail'[d] = h
    <3>1. CASE tailHandle[tailStream[h]] = h
      BY <3>1, <2>2 DEF IInv, TypeOK
    <3>2. CASE \E d \in Closers : closeTail[d] = h
      <4>1. PICK d \in Closers : closeTail[d] = h
        BY <3>2
      <4>2. d # c
        BY <4>1, <2>2, LogFollowAssumption DEF IInv, CloseInv
      <4>3. QED
        BY <4>1, <4>2, <2>2
    <3>3. QED
      BY <3>1, <3>2, <2>4 DEF IInv, TailInv
  <2>5. ASSUME NEW r \in Streams, tailHandle'[r] # None
        PROVE  tailHandle'[r] = tailHandle[r]
    BY <2>2, <2>5
  <2>6. QED
    BY <2>2, <2>3, <2>4 DEF IInv, TailInv, IsOpen
<1>5. CloseInv'
  <2> DEFINE s == closeStream[c]
  <2>1. /\ s \in Streams /\ s # None /\ s \in created /\ s # registered
        /\ s \in closed
    BY DEF IInv, CloseInv, TypeOK, TakeTail
  <2>2. /\ tailHandle' = [tailHandle EXCEPT ![s] = None]
        /\ closeTail' = [closeTail EXCEPT ![c] = tailHandle[s]]
        /\ closePc' = [closePc EXCEPT ![c] = "disconnect"]
        /\ closePc[c] = "take" /\ s \notin locked
        /\ UNCHANGED <<tailStream, created, registered, closed, locked,
                       closeStream>>
    BY DEF TakeTail
  <2>3. tailHandle[s] # None => tailStream[tailHandle[s]] = s
    BY <2>1 DEF IInv, TailInv
  <2>4. \A r : Closing(r)' <=> Closing(r)
    BY <2>2 DEF Closing
  <2> \A d \in Closers : s = closeStream[d] => d = c
    BY <2>1 DEF IInv, CloseInv
  <2> closeStream[c] = s
    OBVIOUS
  <2> HIDE DEF s
  <2>5. ASSUME NEW d \in Closers PROVE
        /\ closePc'[d] \in {"idle", "remove"} => closeStream[d] = None
        /\ closePc'[d] \in {"mark", "take", "disconnect"}
             => closeStream[d] # None
        /\ closePc'[d] \in {"take", "disconnect"} => closeStream[d] \in closed
        /\ closePc'[d] = "disconnect"
             => /\ closeStream[d] \notin locked
                /\ tailHandle'[closeStream[d]] = None
        /\ closeTail'[d] # None
             => /\ closePc'[d] = "disconnect"
                /\ tailStream[closeTail'[d]] = closeStream[d]
    <3>1. CASE d = c
      BY <3>1, <2>1, <2>2, <2>3 DEF IInv, TypeOK
    <3>2. CASE d # c
      BY <3>2, <2>2 DEF IInv, CloseInv
    <3>3. QED
      BY <3>1, <3>2
  <2>6. QED
    BY <2>2, <2>4, <2>5 DEF IInv, CloseInv
<1>6. QED
  BY <1>1, <1>2, <1>3, <1>4, <1>5 DEF IInv

(* close disconnects the tail it took out. *)
LEMMA DisconnectTailInv ==
  ASSUME IInv, NEW c \in Closers, DisconnectTail(c)
  PROVE  IInv'
<1>1. TypeOK'
  BY DEF IInv, TypeOK, DisconnectTail
<1>2. ControlInv'
  BY DEF IInv, ControlInv, DisconnectTail
<1>3. LockInv'
  BY DEF IInv, LockInv, HandlerOpens, RotationOpens, RestartOpens, Closing,
     DisconnectTail
<1>4. TailInv'
  BY LogFollowAssumption DEF IInv, TypeOK, CloseInv, TailInv, IsOpen,
     Closers, DisconnectTail
<1>5. CloseInv'
  BY DEF IInv, TypeOK, CloseInv, Closers, Closing, DisconnectTail
<1>6. QED
  BY <1>1, <1>2, <1>3, <1>4, <1>5 DEF IInv

(* A rotation check starts. *)
LEMMA RotationRunInv ==
  ASSUME IInv, NEW s \in Streams, RotationRun(s)
  PROVE  IInv'
<1>1. TypeOK'
  BY DEF IInv, TypeOK, RotationRun, RotationMoves, Runs
<1>2. ControlInv'
  BY DEF IInv, ControlInv, RotationRun, RotationMoves, Runs
<1>3. LockInv'
  BY DEF IInv, LockInv, HandlerOpens, RotationOpens, RestartOpens, Closing,
     RotationRun, RotationMoves, Runs
<1>4. TailInv'
  BY DEF IInv, TailInv, IsOpen, Closers, RotationRun, RotationMoves, Runs
<1>5. CloseInv'
  BY DEF IInv, CloseInv, Closing, RotationRun, RotationMoves
<1>6. QED
  BY <1>1, <1>2, <1>3, <1>4, <1>5 DEF IInv

(* A rotation check finds no newer file. *)
LEMMA RotationKeepsFileInv ==
  ASSUME IInv, NEW s \in Streams, RotationKeepsFile(s)
  PROVE  IInv'
<1>1. TypeOK'
  BY DEF IInv, TypeOK, RotationKeepsFile, RotationMoves
<1>2. ControlInv'
  BY DEF IInv, ControlInv, RotationKeepsFile, RotationMoves
<1>3. LockInv'
  BY DEF IInv, LockInv, HandlerOpens, RotationOpens, RestartOpens, Closing,
     RotationKeepsFile, RotationMoves
<1>4. TailInv'
  BY DEF IInv, TailInv, IsOpen, Closers, RotationKeepsFile, RotationMoves
<1>5. CloseInv'
  BY DEF IInv, CloseInv, Closing, RotationKeepsFile, RotationMoves
<1>6. QED
  BY <1>1, <1>2, <1>3, <1>4, <1>5 DEF IInv

(* A rotation check switches to the newer file. *)
LEMMA RotationSwitchInv ==
  ASSUME IInv, NEW s \in Streams, RotationSwitch(s)
  PROVE  IInv'
<1>1. TypeOK'
  BY DEF IInv, TypeOK, RotationSwitch, RotationMoves
<1>2. ControlInv'
  BY DEF IInv, ControlInv, RotationSwitch, RotationMoves
<1>3. LockInv'
  BY DEF IInv, LockInv, HandlerOpens, RotationOpens, RestartOpens, Closing,
     RotationSwitch, RotationMoves
<1>4. TailInv'
  BY DEF IInv, TailInv, IsOpen, Closers, RotationSwitch, RotationMoves
<1>5. CloseInv'
  BY DEF IInv, CloseInv, Closers, Closing, RotationSwitch, RotationMoves
<1>6. QED
  BY <1>1, <1>2, <1>3, <1>4, <1>5 DEF IInv

(* A rotation check enters startTail. *)
LEMMA RotationEnterInv ==
  ASSUME IInv, NEW s \in Streams, RotationEnter(s)
  PROVE  IInv'
<1>1. TypeOK'
  <2>1. s \in created
    BY DEF IInv, ControlInv, RotationEnter, RotationMoves
  <2>2. CASE RotationMoves(s, "startTail", "openTail") /\ StartTailEnter(s)
    BY <2>1, <2>2 DEF IInv, TypeOK, RotationEnter, RotationMoves,
       StartTailEnter
  <2>3. CASE RotationMoves(s, "startTail", "idle") /\ StartTailClosed(s)
    BY <2>3 DEF IInv, TypeOK, RotationEnter, RotationMoves,
       StartTailClosed
  <2>4. QED
    BY <2>2, <2>3 DEF RotationEnter
<1>2. ControlInv'
  BY DEF IInv, TypeOK, ControlInv, RotationEnter, RotationMoves,
     StartTailEnter, StartTailClosed
<1>3. LockInv'
  BY DEF IInv, TypeOK, LockInv, HandlerOpens, RotationOpens, RestartOpens,
     Closing, RotationEnter, RotationMoves, StartTailEnter, StartTailClosed
<1>4. TailInv'
  BY DEF IInv, TypeOK, TailInv, IsOpen, Closers, RotationEnter,
     RotationMoves, StartTailEnter, StartTailClosed
<1>5. CloseInv'
  BY DEF IInv, TypeOK, CloseInv, Closers, Closing, RotationEnter,
     RotationMoves, StartTailEnter, StartTailClosed
<1>6. QED
  BY <1>1, <1>2, <1>3, <1>4, <1>5 DEF IInv

(* A rotation check fails to tell the client. *)
LEMMA RotationThrowsInv ==
  ASSUME IInv, NEW s \in Streams, RotationThrows(s)
  PROVE  IInv'
<1>1. TypeOK'
  BY DEF IInv, TypeOK, RotationThrows, RotationMoves
<1>2. ControlInv'
  BY DEF IInv, ControlInv, RotationThrows, RotationMoves
<1>3. LockInv'
  BY DEF IInv, LockInv, HandlerOpens, RotationOpens, RestartOpens, Closing,
     RotationThrows, RotationMoves
<1>4. TailInv'
  BY DEF IInv, TailInv, IsOpen, Closers, RotationThrows, RotationMoves
<1>5. CloseInv'
  BY DEF IInv, CloseInv, Closing, RotationThrows, RotationMoves
<1>6. QED
  BY <1>1, <1>2, <1>3, <1>4, <1>5 DEF IInv

(* openTail succeeds in a rotation check. *)
LEMMA RotationOpenedInv ==
  ASSUME IInv, NEW s \in Streams, NEW h \in Handles, RotationOpened(s, h)
  PROVE  IInv'
<1>1. TypeOK'
  BY DEF IInv, TypeOK, RotationOpened, RotationMoves, StartTailOpened
<1>2. ControlInv'
  BY DEF IInv, ControlInv, RotationOpened, RotationMoves, StartTailOpened
<1>3. LockInv'
  BY DEF IInv, TypeOK, LockInv, HandlerOpens, RotationOpens, RestartOpens,
     Closing, RotationOpened, RotationMoves, StartTailOpened
<1>4. TailInv'
  <2>1. s \in Streams /\ s \in created /\ s \in locked /\ tailHandle[s] = None
    BY DEF IInv, ControlInv, LockInv, RotationOpens, RotationOpened,
       RotationMoves
  <2>2. StartTailOpened(s, h)
    BY DEF RotationOpened
  <2>3. \A k \in Handles : tailPc'[k] # "none" => k = h \/ tailPc[k] # "none"
    BY DEF RotationOpened
  <2>4. UNCHANGED <<created, closeTail>>
    BY DEF RotationOpened, RotationMoves
  <2>5. QED
    BY <2>1, <2>2, <2>3, <2>4, OpenedTailInv DEF IInv
<1>5. CloseInv'
  <2>1. s \in Streams /\ s \in created /\ s \in locked /\ tailHandle[s] = None
    BY DEF IInv, ControlInv, LockInv, RotationOpens, RotationOpened,
       RotationMoves
  <2>2. StartTailOpened(s, h)
    BY DEF RotationOpened
  <2>3. UNCHANGED <<created, closed, registered, closeVars>>
    BY DEF RotationOpened, RotationMoves
  <2>4. QED
    BY <2>1, <2>2, <2>3, OpenedCloseInv DEF IInv
<1>6. QED
  BY <1>1, <1>2, <1>3, <1>4, <1>5 DEF IInv

(* openTail throws in a rotation check. *)
LEMMA RotationFailedInv ==
  ASSUME IInv, NEW s \in Streams, RotationFailed(s)
  PROVE  IInv'
<1>1. TypeOK'
  BY DEF IInv, TypeOK, RotationFailed, RotationMoves, StartTailFailed
<1>2. ControlInv'
  BY DEF IInv, ControlInv, RotationFailed, RotationMoves, StartTailFailed
<1>3. LockInv'
  BY DEF IInv, TypeOK, LockInv, HandlerOpens, RotationOpens, RestartOpens,
     Closing, RotationFailed, RotationMoves, StartTailFailed
<1>4. TailInv'
  BY DEF IInv, TailInv, IsOpen, Closers, RotationFailed, RotationMoves,
     StartTailFailed
<1>5. CloseInv'
  BY DEF IInv, CloseInv, Closers, Closing, RotationFailed, RotationMoves,
     StartTailFailed
<1>6. QED
  BY <1>1, <1>2, <1>3, <1>4, <1>5 DEF IInv

(* A stale cleanup finds its stream stale. *)
LEMMA StaleRunInv ==
  ASSUME IInv, NEW s \in Streams, StaleRun(s)
  PROVE  IInv'
<1>1. TypeOK'
  BY DEF IInv, TypeOK, StaleRun, Runs
<1>2. ControlInv'
  BY DEF IInv, ControlInv, StaleRun, Runs
<1>3. LockInv'
  BY DEF IInv, LockInv, HandlerOpens, RotationOpens, RestartOpens, Closing,
     StaleRun, Runs
<1>4. TailInv'
  BY DEF IInv, TailInv, IsOpen, Closers, StaleRun, Runs
<1>5. CloseInv'
  BY DEF IInv, CloseInv, Closers, Closing, StaleRun, Runs
<1>6. QED
  BY <1>1, <1>2, <1>3, <1>4, <1>5 DEF IInv

(* A stale cleanup takes the stream out of the map. *)
LEMMA StaleRemoveInv ==
  ASSUME IInv, NEW s \in Streams, StaleRemove(s)
  PROVE  IInv'
<1>1. TypeOK'
  BY DEF IInv, TypeOK, StaleRemove, RemoveRegistered
<1>2. ControlInv'
  BY DEF IInv, ControlInv, StaleRemove, RemoveRegistered
<1>3. LockInv'
  BY DEF IInv, LockInv, HandlerOpens, RotationOpens, RestartOpens, Closing,
     StaleRemove, RemoveRegistered
<1>4. TailInv'
  BY DEF IInv, TailInv, IsOpen, Closers, StaleRemove, RemoveRegistered
<1>5. CloseInv'
  BY LogFollowAssumption DEF IInv, TypeOK, CloseInv, ControlInv, Closers,
     Closing, StaleRemove, RemoveRegistered
<1>6. QED
  BY <1>1, <1>2, <1>3, <1>4, <1>5 DEF IInv

(* The remote tail of a reader ends. *)
LEMMA ReaderEndInv ==
  ASSUME IInv, NEW h \in Handles, ReaderEnd(h)
  PROVE  IInv'
<1>1. TypeOK'
  BY DEF IInv, TypeOK, ReaderEnd, TailMoves
<1>2. ControlInv'
  BY DEF IInv, ControlInv, ReaderEnd, TailMoves
<1>3. LockInv'
  BY DEF IInv, LockInv, HandlerOpens, RotationOpens, RestartOpens, Closing,
     ReaderEnd, TailMoves
<1>4. TailInv'
  BY DEF IInv, TailInv, IsOpen, Closers, ReaderEnd, TailMoves
<1>5. CloseInv'
  BY DEF IInv, CloseInv, Closers, Closing, ReaderEnd, TailMoves
<1>6. QED
  BY <1>1, <1>2, <1>3, <1>4, <1>5 DEF IInv

(* A reader finds its tail replaced or closed. *)
LEMMA ReaderStopInv ==
  ASSUME IInv, NEW h \in Handles, ReaderStop(h)
  PROVE  IInv'
<1>1. TypeOK'
  BY DEF IInv, TypeOK, ReaderStop, TailMoves
<1>2. ControlInv'
  BY DEF IInv, ControlInv, ReaderStop, TailMoves
<1>3. LockInv'
  BY DEF IInv, LockInv, HandlerOpens, RotationOpens, RestartOpens, Closing,
     ReaderStop, TailMoves
<1>4. TailInv'
  BY DEF IInv, TailInv, IsOpen, Closers, ReaderStop, TailMoves
<1>5. CloseInv'
  BY DEF IInv, CloseInv, Closers, Closing, ReaderStop, TailMoves
<1>6. QED
  BY <1>1, <1>2, <1>3, <1>4, <1>5 DEF IInv

(* A reader starts. *)
LEMMA ReaderStartInv ==
  ASSUME IInv, NEW h \in Handles, ReaderStart(h)
  PROVE  IInv'
<1>1. TypeOK'
  BY DEF IInv, TypeOK, ReaderStart, TailMoves
<1>2. ControlInv'
  BY DEF IInv, ControlInv, ReaderStart, TailMoves
<1>3. LockInv'
  BY DEF IInv, LockInv, HandlerOpens, RotationOpens, RestartOpens, Closing,
     ReaderStart, TailMoves
<1>4. TailInv'
  BY DEF IInv, TailInv, IsOpen, Closers, ReaderStart, TailMoves
<1>5. CloseInv'
  BY DEF IInv, CloseInv, Closers, Closing, ReaderStart, TailMoves
<1>6. QED
  BY <1>1, <1>2, <1>3, <1>4, <1>5 DEF IInv

(* A reader that ended schedules the restart of its tail. *)
LEMMA ReaderFinishInv ==
  ASSUME IInv, NEW h \in Handles, ReaderFinish(h)
  PROVE  IInv'
<1>1. TypeOK'
  BY DEF IInv, TypeOK, ReaderFinish, TailMoves
<1>2. ControlInv'
  BY DEF IInv, ControlInv, ReaderFinish, TailMoves
<1>3. LockInv'
  BY DEF IInv, LockInv, HandlerOpens, RotationOpens, RestartOpens, Closing,
     ReaderFinish, TailMoves
<1>4. TailInv'
  BY DEF IInv, TailInv, IsOpen, Closers, ReaderFinish, TailMoves
<1>5. CloseInv'
  BY DEF IInv, CloseInv, Closers, Closing, ReaderFinish, TailMoves
<1>6. QED
  BY <1>1, <1>2, <1>3, <1>4, <1>5 DEF IInv

(* A restart task starts. *)
LEMMA RestartRunInv ==
  ASSUME IInv, NEW h \in Handles, RestartRun(h)
  PROVE  IInv'
<1>1. TypeOK'
  BY DEF IInv, TypeOK, RestartRun, TailMoves
<1>2. ControlInv'
  BY DEF IInv, ControlInv, RestartRun, TailMoves
<1>3. LockInv'
  BY DEF IInv, LockInv, HandlerOpens, RotationOpens, RestartOpens, Closing,
     RestartRun, TailMoves
<1>4. TailInv'
  BY DEF IInv, TailInv, IsOpen, Closers, RestartRun, TailMoves
<1>5. CloseInv'
  BY DEF IInv, CloseInv, Closers, Closing, RestartRun, TailMoves
<1>6. QED
  BY <1>1, <1>2, <1>3, <1>4, <1>5 DEF IInv

(* A restart task enters startTail. *)
LEMMA RestartEnterInv ==
  ASSUME IInv, NEW h \in Handles, RestartEnter(h)
  PROVE  IInv'
<1>1. TypeOK'
  <2>1. tailStream[h] \in Streams /\ tailStream[h] \in created
    BY DEF IInv, TypeOK, TailInv, RestartEnter, TailMoves
  <2>2. CASE /\ TailMoves(h, "startTail", "openTail")
             /\ StartTailEnter(tailStream[h])
    BY <2>1, <2>2 DEF IInv, TypeOK, TailMoves, StartTailEnter
  <2>3. CASE /\ TailMoves(h, "startTail", "done")
             /\ StartTailClosed(tailStream[h])
    BY <2>3 DEF IInv, TypeOK, TailMoves, StartTailClosed
  <2>4. QED
    BY <2>2, <2>3 DEF RestartEnter
<1>2. ControlInv'
  BY DEF IInv, ControlInv, RestartEnter, TailMoves, StartTailEnter,
     StartTailClosed
<1>3. LockInv'
  <2>1. CASE /\ TailMoves(h, "startTail", "openTail")
             /\ StartTailEnter(tailStream[h])
    BY <2>1 DEF IInv, TypeOK, LockInv, HandlerOpens, RotationOpens,
       RestartOpens, TailMoves, StartTailEnter
  <2>2. CASE /\ TailMoves(h, "startTail", "done")
             /\ StartTailClosed(tailStream[h])
    BY <2>2 DEF IInv, LockInv, HandlerOpens, RotationOpens, RestartOpens,
       TailMoves, StartTailClosed
  <2>3. QED
    BY <2>1, <2>2 DEF RestartEnter
<1>4. TailInv'
  <2>1. CASE /\ TailMoves(h, "startTail", "openTail")
             /\ StartTailEnter(tailStream[h])
    BY <2>1 DEF IInv, TypeOK, TailInv, IsOpen, TailMoves, StartTailEnter
  <2>2. CASE /\ TailMoves(h, "startTail", "done")
             /\ StartTailClosed(tailStream[h])
    BY <2>2 DEF IInv, TailInv, IsOpen, TailMoves, StartTailClosed
  <2>3. QED
    BY <2>1, <2>2 DEF RestartEnter
<1>5. CloseInv'
  BY DEF IInv, TypeOK, CloseInv, Closers, Closing, RestartEnter, TailMoves,
     StartTailEnter, StartTailClosed
<1>6. QED
  BY <1>1, <1>2, <1>3, <1>4, <1>5 DEF IInv

(* A restart task fails to tell the client. *)
LEMMA RestartThrowsInv ==
  ASSUME IInv, NEW h \in Handles, RestartThrows(h)
  PROVE  IInv'
<1>1. TypeOK'
  BY DEF IInv, TypeOK, RestartThrows, TailMoves
<1>2. ControlInv'
  BY DEF IInv, ControlInv, RestartThrows, TailMoves
<1>3. LockInv'
  BY DEF IInv, LockInv, HandlerOpens, RotationOpens, RestartOpens, Closing,
     RestartThrows, TailMoves
<1>4. TailInv'
  BY DEF IInv, TailInv, IsOpen, Closers, RestartThrows, TailMoves
<1>5. CloseInv'
  BY DEF IInv, CloseInv, Closers, Closing, RestartThrows, TailMoves
<1>6. QED
  BY <1>1, <1>2, <1>3, <1>4, <1>5 DEF IInv

(* openTail succeeds in a restart task. *)
LEMMA RestartOpenedInv ==
  ASSUME IInv, NEW h \in Handles, NEW next \in Handles,
         RestartOpened(h, next)
  PROVE  IInv'
<1>1. TypeOK'
  BY DEF IInv, TypeOK, TailInv, RestartOpened, StartTailOpened
<1>2. ControlInv'
  BY DEF IInv, ControlInv, RestartOpened, StartTailOpened
<1>3. LockInv'
  BY DEF IInv, TypeOK, LockInv, HandlerOpens, RotationOpens, RestartOpens,
     Closing, RestartOpened, StartTailOpened
<1>4. TailInv'
  <2>1. /\ tailStream[h] \in Streams /\ tailStream[h] \in created
        /\ tailStream[h] \in locked /\ tailHandle[tailStream[h]] = None
    BY DEF IInv, TypeOK, TailInv, LockInv, RestartOpens, RestartOpened
  <2>2. StartTailOpened(tailStream[h], next)
    BY DEF RestartOpened
  <2>3. \A k \in Handles : tailPc'[k] # "none"
                             => k = next \/ tailPc[k] # "none"
    BY DEF IInv, TypeOK, RestartOpened
  <2>4. UNCHANGED <<created, closeTail>>
    BY DEF RestartOpened
  <2>5. QED
    BY <2>1, <2>2, <2>3, <2>4, OpenedTailInv DEF IInv
<1>5. CloseInv'
  <2>1. /\ tailStream[h] \in Streams /\ tailStream[h] \in created
        /\ tailStream[h] \in locked /\ tailHandle[tailStream[h]] = None
    BY DEF IInv, TypeOK, TailInv, LockInv, RestartOpens, RestartOpened
  <2>2. StartTailOpened(tailStream[h], next)
    BY DEF RestartOpened
  <2>3. UNCHANGED <<created, closed, registered, closeVars>>
    BY DEF RestartOpened
  <2>4. QED
    BY <2>1, <2>2, <2>3, OpenedCloseInv DEF IInv
<1>6. QED
  BY <1>1, <1>2, <1>3, <1>4, <1>5 DEF IInv

(* openTail throws in a restart task. *)
LEMMA RestartFailedInv ==
  ASSUME IInv, NEW h \in Handles, RestartFailed(h)
  PROVE  IInv'
<1>1. TypeOK'
  BY DEF IInv, TypeOK, RestartFailed, TailMoves, StartTailFailed
<1>2. ControlInv'
  BY DEF IInv, ControlInv, RestartFailed, TailMoves, StartTailFailed
<1>3. LockInv'
  BY DEF IInv, TypeOK, LockInv, HandlerOpens, RotationOpens, RestartOpens,
     Closing, RestartFailed, TailMoves, StartTailFailed
<1>4. TailInv'
  BY DEF IInv, TailInv, IsOpen, Closers, RestartFailed, TailMoves,
     StartTailFailed
<1>5. CloseInv'
  BY DEF IInv, CloseInv, Closers, Closing, RestartFailed, TailMoves,
     StartTailFailed
<1>6. QED
  BY <1>1, <1>2, <1>3, <1>4, <1>5 DEF IInv

(* A stuttering step. *)
LEMMA UnchangedInv ==
  ASSUME IInv, UNCHANGED vars
  PROVE  IInv'
<1>1. TypeOK'
  BY DEF IInv, TypeOK, vars
<1>2. ControlInv' /\ LockInv'
  BY DEF IInv, ControlInv, LockInv, HandlerOpens, RotationOpens,
     RestartOpens, vars
<1>3. TailInv'
  BY DEF IInv, TailInv, IsOpen, vars
<1>4. CloseInv'
  BY DEF IInv, CloseInv, Closing, vars
<1>5. QED
  BY <1>1, <1>2, <1>3, <1>4 DEF IInv

HIDE DEF worldVars, streamVars, openedVars, tailVars, taskVars,
         handlerVars, closeVars

-----------------------------------------------------------------------------
(* Every reachable state of the streams satisfies the invariant, whatever  *)
(* the handler, the callback, the tasks and the readers do to each other.  *)
THEOREM LogFollowInvariant == Spec => []IInv
<1>1. Init => IInv
  <2> SUFFICES ASSUME Init PROVE IInv
    OBVIOUS
  <2>1. TypeOK
    <3>1. 1 \in Files
      BY LogFollowAssumption DEF Files
    <3>2. QED
      BY <3>1 DEF Init, TypeOK
  <2>2. ControlInv /\ LockInv
    BY DEF Init, ControlInv, LockInv, HandlerOpens, RotationOpens,
       RestartOpens
  <2>3. TailInv
    BY DEF Init, TailInv, IsOpen
  <2>4. CloseInv
    BY DEF Init, CloseInv
  <2>5. QED
    BY <2>1, <2>2, <2>3, <2>4 DEF IInv
<1>2. IInv /\ [Next]_vars => IInv'
  <2> SUFFICES ASSUME IInv, [Next]_vars PROVE IInv'
    OBVIOUS
  <2>1. CASE OpenMessage
    BY <2>1, OpenMessageInv
  <2>2. CASE CloseMessage
    BY <2>2, CloseMessageInv
  <2>3. CASE HandlerStep
    BY <2>3, RegisterStreamInv, OpenThrowsInv, FirstTailEnterInv,
       FirstTailOpenedInv, FirstTailFailedInv, ScheduleRotationInv,
       KeepRotationInv, ScheduleStaleInv, KeepStaleInv DEF HandlerStep
  <2>4. CASE Disconnect \/ ConnectionClosed \/ TransportError \/ RotateLog
    BY <2>4, DisconnectInv, ConnectionClosedInv, TransportErrorInv,
       RotateLogInv
  <2>5. CASE \E c \in Closers : CloseStep(c)
    BY <2>5, MarkClosedInv, TakeTailInv, DisconnectTailInv DEF CloseStep
  <2>6. CASE \E s \in Streams : RotationStep(s)
    BY <2>6, RotationRunInv, RotationKeepsFileInv, RotationSwitchInv,
       RotationEnterInv, RotationThrowsInv, RotationOpenedInv,
       RotationFailedInv DEF RotationStep
  <2>7. CASE \E s \in Streams : StaleRun(s) \/ StaleRemove(s)
    BY <2>7, StaleRunInv, StaleRemoveInv
  <2>8. CASE \E h \in Handles : ReaderEnd(h) \/ ReaderStop(h) \/ TailStep(h)
    BY <2>8, ReaderEndInv, ReaderStopInv, ReaderStartInv, ReaderFinishInv,
       RestartRunInv, RestartEnterInv, RestartThrowsInv, RestartOpenedInv,
       RestartFailedInv DEF TailStep
  <2>9. CASE UNCHANGED vars
    BY <2>9, UnchangedInv
  <2>10. QED
    BY <2>1, <2>2, <2>3, <2>4, <2>5, <2>6, <2>7, <2>8, <2>9 DEF Next
<1>3. QED
  BY <1>1, <1>2, PTL DEF Spec

(* Every variable keeps its type. *)
THEOREM StreamTypes == Spec => []TypeOK
<1>1. IInv => TypeOK
  BY DEF IInv
<1>2. QED
  BY <1>1, LogFollowInvariant, PTL

(* No remote tail is lost: whoever opened it, somebody still has it. *)
THEOREM NoTailIsLost == Spec => []OpenTailsAreOwned
<1>1. IInv => OpenTailsAreOwned
  <2> SUFFICES ASSUME IInv, NEW h \in Handles, IsOpen(h)
               PROVE  \/ \E s \in Streams : tailHandle[s] = h
                      \/ \E c \in Closers : closeTail[c] = h
    BY DEF OpenTailsAreOwned
  <2>1. tailStream[h] \in Streams
    BY DEF IInv, TypeOK, TailInv, IsOpen
  <2>2. QED
    BY <2>1 DEF IInv, TailInv
<1>2. QED
  BY <1>1, LogFollowInvariant, PTL

(* A tail that is open is the one its stream has, or the one that the      *)
(* thread that closes its stream holds, and then the stream has none.      *)
LEMMA WhereOpenTailsAre ==
  ASSUME IInv, NEW h \in Handles, IsOpen(h)
  PROVE  /\ tailStream[h] \in Streams
         /\ \/ tailHandle[tailStream[h]] = h
            \/ \E c \in Closers : /\ closeTail[c] = h
                                  /\ closeStream[c] = tailStream[h]
                                  /\ tailHandle[tailStream[h]] = None
<1>1. tailStream[h] \in Streams
  BY DEF IInv, TypeOK, TailInv, IsOpen
<1>2. ASSUME NEW c \in Closers, closeTail[c] = h
      PROVE  /\ closeStream[c] = tailStream[h]
             /\ tailHandle[tailStream[h]] = None
  BY <1>2, LogFollowAssumption DEF IInv, CloseInv
<1>3. QED
  BY <1>1, <1>2 DEF IInv, TailInv

(* A stream has one remote tail at a time. *)
THEOREM OneTailAtATime == Spec => []OneTailPerStream
<1>1. IInv => OneTailPerStream
  <2> SUFFICES ASSUME IInv, NEW h1 \in Handles, NEW h2 \in Handles,
                      IsOpen(h1), IsOpen(h2), tailStream[h1] = tailStream[h2]
               PROVE  h1 = h2
    BY DEF OneTailPerStream
  <2>1. CASE tailHandle[tailStream[h1]] = None
    BY <2>1, WhereOpenTailsAre, LogFollowAssumption DEF IInv, CloseInv
  <2>2. CASE tailHandle[tailStream[h1]] # None
    BY <2>2, WhereOpenTailsAre
  <2>3. QED
    BY <2>1, <2>2
<1>2. QED
  BY <1>1, LogFollowInvariant, PTL

(* Closing a stream is final. *)
THEOREM CloseIsFinal == Spec => []ClosedStreamsHoldNoTail
<1>1. IInv => ClosedStreamsHoldNoTail
  <2> SUFFICES ASSUME IInv, NEW h \in Handles, IsOpen(h),
                      tailStream[h] \in closed
               PROVE  Closing(tailStream[h])
    BY DEF ClosedStreamsHoldNoTail
  <2>1. CASE tailHandle[tailStream[h]] = h
    BY <2>1, LogFollowAssumption DEF IInv, CloseInv
  <2>2. CASE tailHandle[tailStream[h]] # h
    BY <2>2, WhereOpenTailsAre DEF Closing
  <2>3. QED
    BY <2>1, <2>2
<1>2. QED
  BY <1>1, LogFollowInvariant, PTL

(* A generation that agrees names the open tail of its stream. *)
THEOREM GenerationsAreReliable == Spec => []GenerationNamesTail
<1>1. IInv => GenerationNamesTail
  <2> SUFFICES ASSUME IInv, NEW h \in Handles, tailStream[h] # None,
                      tailGen[h] = tailGeneration[tailStream[h]]
               PROVE  tailHandle[tailStream[h]] = h /\ IsOpen(h)
    BY DEF GenerationNamesTail
  <2>1. tailStream[h] \in Streams
    BY DEF IInv, TypeOK
  <2>2. tailHandle[tailStream[h]] = h
    BY DEF IInv, TailInv
  <2>3. QED
    BY <2>1, <2>2, LogFollowAssumption DEF IInv, TailInv
<1>2. QED
  BY <1>1, LogFollowInvariant, PTL

(* What is registered is live. *)
THEOREM RegisteredIsLive == Spec => []RegisteredStreamIsLive
<1>1. IInv => RegisteredStreamIsLive
  BY DEF IInv, CloseInv, RegisteredStreamIsLive, Closing
<1>2. QED
  BY <1>1, LogFollowInvariant, PTL

(* Only an empty entry of the map is filled. *)
THEOREM PutsReplaceNothing == Spec => PutReplacesNothing
<1>1. IInv /\ [Next]_vars
        => [registered' \in {None, registered} \/ registered = None]_vars
  <2> SUFFICES ASSUME IInv, Next
               PROVE  registered' \in {None, registered} \/ registered = None
    OBVIOUS
  <2>1. CASE OpenMessage \/ CloseMessage
    BY <2>1 DEF OpenMessage, CloseMessage, RemoveRegistered
  <2>2. CASE HandlerStep
    BY <2>2 DEF IInv, ControlInv, HandlerStep, RegisterStream, OpenThrows,
       FirstTailEnter, FirstTailOpened, FirstTailFailed, ScheduleRotation,
       KeepRotation, ScheduleStale, KeepStale, HandlerMoves, streamVars
  <2>3. CASE Disconnect \/ ConnectionClosed \/ TransportError \/ RotateLog
    BY <2>3 DEF Disconnect, ConnectionClosed, TransportError, RotateLog,
       RemoveRegistered, streamVars
  <2>4. CASE \E c \in Closers : CloseStep(c)
    BY <2>4 DEF CloseStep, MarkClosed, TakeTail, DisconnectTail, streamVars
  <2>5. CASE \E s \in Streams : RotationStep(s)
    BY <2>5 DEF RotationStep, RotationRun, RotationKeepsFile, RotationSwitch,
       RotationEnter, RotationThrows, RotationOpened, RotationFailed,
       RotationMoves, streamVars
  <2>6. CASE \E s \in Streams : StaleRun(s) \/ StaleRemove(s)
    BY <2>6 DEF StaleRun, StaleRemove, RemoveRegistered, streamVars
  <2>7. CASE \E h \in Handles : ReaderEnd(h) \/ ReaderStop(h) \/ TailStep(h)
    BY <2>7 DEF ReaderEnd, ReaderStop, TailStep, ReaderStart, ReaderFinish,
       RestartRun, RestartEnter, RestartThrows, RestartOpened, RestartFailed,
       TailMoves, streamVars
  <2>8. QED
    BY <2>1, <2>2, <2>3, <2>4, <2>5, <2>6, <2>7 DEF Next
<1>2. QED
  BY <1>1, LogFollowInvariant, PTL DEF Spec, PutReplacesNothing

-----------------------------------------------------------------------------
(***************************************************************************)
(* The tail of a stream reads the file the stream names.  While no switch  *)
(* is on its way, whoever holds the lock is opening that file; and the     *)
(* switch, when it holds the lock, opens the file it has set.              *)
(***************************************************************************)
Steady(s) == wsOpen /\ s \notin closed /\ rotationPc[s] \in {"idle", "list"}

FileInv ==
  \A s \in Streams :
    /\ Steady(s) => /\ s \in locked => openPath[s] = currentFile[s]
                    /\ tailHandle[s] # None
                         => tailFile[tailHandle[s]] = currentFile[s]
    /\ RotationOpens(s) => openPath[s] = currentFile[s]

(* A step that opens and names no file, and ends no switch. *)
LEMMA QuietFile ==
  ASSUME FileInv,
         UNCHANGED <<locked, openPath, tailHandle, tailFile, currentFile>>,
         \A s \in Streams : Steady(s)' => Steady(s),
         \A s \in Streams : RotationOpens(s)' => RotationOpens(s)
  PROVE  FileInv'
BY DEF FileInv

(* startTail enters the lock and takes the file that is named. *)
LEMMA EnterFile ==
  ASSUME IInv, FileInv, NEW s \in Streams, StartTailEnter(s),
         UNCHANGED currentFile,
         \A r \in Streams \ {s} : Steady(r)' => Steady(r),
         \A r \in Streams \ {s} : RotationOpens(r)' => RotationOpens(r)
  PROVE  FileInv'
<1>1. /\ openPath' = [openPath EXCEPT ![s] = currentFile[s]]
      /\ tailHandle' = [tailHandle EXCEPT ![s] = None]
      /\ locked' = locked \cup {s}
      /\ UNCHANGED <<tailFile, currentFile>>
  BY DEF StartTailEnter, openedVars, IInv, TypeOK
<1>2. openPath'[s] = currentFile'[s] /\ tailHandle'[s] = None
  BY <1>1 DEF IInv, TypeOK
<1>3. ASSUME NEW r \in Streams \ {s}
      PROVE  /\ openPath'[r] = openPath[r] /\ tailHandle'[r] = tailHandle[r]
             /\ r \in locked' => r \in locked
  BY <1>1 DEF IInv, TypeOK
<1>4. QED
  BY <1>1, <1>2, <1>3 DEF FileInv

(* openTail succeeds: the tail reads the file startTail took. *)
LEMMA OpenedFile ==
  ASSUME IInv, FileInv, NEW s \in Streams, NEW h \in Handles,
         StartTailOpened(s, h), UNCHANGED currentFile,
         Steady(s)' => openPath[s] = currentFile[s],
         \A r \in Streams \ {s} : Steady(r)' => Steady(r),
         \A r \in Streams : RotationOpens(r)' => RotationOpens(r)
  PROVE  FileInv'
<1>1. /\ tailHandle' = [tailHandle EXCEPT ![s] = h]
      /\ tailFile' = [tailFile EXCEPT ![h] = openPath[s]]
      /\ locked' = locked \ {s}
      /\ UNCHANGED <<openPath, currentFile>>
      /\ handleState[h] = "unused"
  BY DEF StartTailOpened
<1>2. /\ s \notin locked'
      /\ tailHandle'[s] = h /\ tailFile'[h] = openPath[s]
  BY <1>1 DEF IInv, TypeOK
<1>3. ASSUME NEW r \in Streams \ {s}
      PROVE  /\ tailHandle'[r] = tailHandle[r]
             /\ r \in locked' => r \in locked
  BY <1>1 DEF IInv, TypeOK
<1>4. ASSUME NEW r \in Streams \ {s}, tailHandle[r] # None
      PROVE  tailFile'[tailHandle[r]] = tailFile[tailHandle[r]]
  <2>1. tailHandle[r] \in Handles /\ handleState[tailHandle[r]] = "open"
    BY <1>4 DEF IInv, TypeOK, TailInv, IsOpen
  <2>2. tailHandle[r] # h
    BY <1>1, <2>1
  <2>3. QED
    BY <1>1, <2>1, <2>2 DEF IInv, TypeOK
<1>5. QED
  BY <1>1, <1>2, <1>3, <1>4 DEF FileInv

(* openTail throws: the stream is left without a tail. *)
LEMMA FailedFile ==
  ASSUME IInv, FileInv, NEW s \in Streams, s \in locked, StartTailFailed(s),
         UNCHANGED currentFile,
         \A r \in Streams \ {s} : Steady(r)' => Steady(r),
         \A r \in Streams : RotationOpens(r)' => RotationOpens(r)
  PROVE  FileInv'
<1>1. /\ locked' = locked \ {s}
      /\ UNCHANGED <<openPath, tailHandle, tailFile, currentFile>>
  BY DEF StartTailFailed, openedVars
<1>2. tailHandle[s] = None
  BY DEF IInv, LockInv
<1>3. QED
  BY <1>1, <1>2 DEF FileInv

(* The handler's steps: the new stream has no tail, so that any file may   *)
(* be named; and the tail that openInternal opens is of the file named.    *)
LEMMA HandlerFile ==
  ASSUME IInv, FileInv, HandlerStep
  PROVE  FileInv'
<1> USE DEF worldVars, streamVars, tailVars, openedVars, closeVars, wsOpen,
            Steady, RotationOpens
<1>1. ASSUME NEW s \in Streams, NEW file \in Files, RegisterStream(s, file)
      PROVE  FileInv'
  <2>1. s \notin locked /\ tailHandle[s] = None /\ ~RotationOpens(s)
    BY <1>1, LogFollowAssumption
    DEF RegisterStream, IInv, TypeOK, TailInv, ControlInv
  <2>2. /\ UNCHANGED <<locked, openPath, tailHandle, tailFile, rotationPc>>
        /\ UNCHANGED <<connection, closed>>
        /\ \A r \in Streams \ {s} : currentFile'[r] = currentFile[r]
    BY <1>1 DEF RegisterStream, IInv, TypeOK
  <2>3. QED
    BY <2>1, <2>2 DEF FileInv
<1>2. CASE OpenThrows
  BY <1>2, QuietFile DEF OpenThrows, HandlerThrows
<1>3. CASE FirstTailEnter
  <2>1. handlerStream \in Streams
    BY <1>3 DEF FirstTailEnter, IInv, TypeOK, ControlInv
  <2>2. CASE StartTailEnter(handlerStream)
    BY <1>3, <2>1, <2>2, EnterFile DEF FirstTailEnter
  <2>3. CASE StartTailClosed(handlerStream)
    BY <1>3, <2>3, QuietFile DEF FirstTailEnter, StartTailClosed
  <2>4. QED
    BY <1>3, <2>2, <2>3 DEF FirstTailEnter
<1>4. CASE \E h \in Handles : FirstTailOpened(h)
  <2>1. PICK h \in Handles : FirstTailOpened(h)
    BY <1>4
  <2>2. PICK s \in Streams : s = handlerStream /\ s \in locked
    BY <2>1 DEF FirstTailOpened, IInv, TypeOK, ControlInv, LockInv,
       HandlerOpens
  <2>3. /\ UNCHANGED <<connection, closed, rotationPc, currentFile>>
        /\ StartTailOpened(s, h)
    BY <2>1, <2>2 DEF FirstTailOpened
  <2>4. Steady(s)' => openPath[s] = currentFile[s]
    BY <2>2, <2>3 DEF FileInv
  <2>5. QED
    BY <2>3, <2>4, OpenedFile
<1>5. CASE FirstTailFailed
  <2>1. handlerStream \in Streams /\ handlerStream \in locked
    BY <1>5 DEF FirstTailFailed, IInv, TypeOK, ControlInv, LockInv,
       HandlerOpens
  <2>2. QED
    BY <1>5, <2>1, FailedFile DEF FirstTailFailed, HandlerThrows
<1>6. CASE ScheduleRotation \/ KeepRotation \/ ScheduleStale \/ KeepStale
  BY <1>6, QuietFile DEF ScheduleRotation, KeepRotation, ScheduleStale,
     KeepStale, HandlerMoves
<1>7. QED
  BY <1>1, <1>2, <1>3, <1>4, <1>5, <1>6 DEF HandlerStep

(* The rotation check names the newer file before it has the lock, and     *)
(* only it can be between the two.                                         *)
LEMMA RotationFile ==
  ASSUME IInv, FileInv, NEW s \in Streams, RotationStep(s)
  PROVE  FileInv'
<1> USE DEF worldVars, streamVars, tailVars, openedVars, wsOpen, Steady,
            RotationOpens, RotationMoves
<1>1. rotationPc \in [Streams -> {"idle", "list", "startTail", "openTail"}]
  BY DEF IInv, TypeOK
<1>2. CASE RotationRun(s) \/ RotationKeepsFile(s) \/ RotationThrows(s)
  BY <1>1, <1>2, QuietFile DEF RotationRun, RotationKeepsFile, RotationThrows
<1>3. CASE RotationSwitch(s)
  <2>1. /\ UNCHANGED <<locked, openPath, tailHandle, tailFile>>
        /\ rotationPc'[s] = "startTail"
        /\ \A r \in Streams \ {s} : /\ currentFile'[r] = currentFile[r]
                                    /\ Steady(r)' = Steady(r)
                                    /\ RotationOpens(r)' = RotationOpens(r)
    BY <1>1, <1>3 DEF RotationSwitch, IInv, TypeOK
  <2>2. QED
    BY <2>1 DEF FileInv
<1>4. CASE RotationEnter(s)
  <2>1. CASE StartTailEnter(s)
    BY <1>1, <1>4, <2>1, EnterFile DEF RotationEnter
  <2>2. CASE StartTailClosed(s)
    BY <1>1, <1>4, <2>2, QuietFile DEF RotationEnter, StartTailClosed,
       StartTailEnter
  <2>3. QED
    BY <1>4, <2>1, <2>2 DEF RotationEnter
<1>5. CASE \E h \in Handles : RotationOpened(s, h)
  <2>1. PICK h \in Handles : RotationOpened(s, h)
    BY <1>5
  <2>2. openPath[s] = currentFile[s]
    BY <2>1 DEF RotationOpened, FileInv
  <2>3. QED
    BY <1>1, <2>1, <2>2, OpenedFile DEF RotationOpened
<1>6. CASE RotationFailed(s)
  <2>1. s \in locked
    BY <1>6 DEF RotationFailed, IInv, LockInv
  <2>2. QED
    BY <1>1, <1>6, <2>1, FailedFile DEF RotationFailed
<1>7. QED
  BY <1>2, <1>3, <1>4, <1>5, <1>6 DEF RotationStep

(* The readers and their restarts open the file that is named, unless a    *)
(* switch is on its way.                                                   *)
LEMMA TailFile ==
  ASSUME IInv, FileInv, NEW h \in Handles,
         ReaderEnd(h) \/ ReaderStop(h) \/ TailStep(h)
  PROVE  FileInv'
<1> USE DEF worldVars, streamVars, tailVars, openedVars, wsOpen, Steady,
            RotationOpens, TailMoves
<1>1. tailPc[h] # "none" => tailStream[h] \in Streams
  BY DEF IInv, TypeOK, TailInv
<1>2. CASE \/ ReaderEnd(h) \/ ReaderStop(h) \/ ReaderStart(h)
           \/ ReaderFinish(h) \/ RestartRun(h) \/ RestartThrows(h)
  BY <1>2, QuietFile DEF ReaderEnd, ReaderStop, ReaderStart, ReaderFinish,
     RestartRun, RestartThrows
<1>3. CASE RestartEnter(h)
  <2>1. CASE StartTailEnter(tailStream[h])
    BY <1>1, <1>3, <2>1, EnterFile DEF RestartEnter
  <2>2. CASE StartTailClosed(tailStream[h])
    BY <1>3, <2>2, QuietFile DEF RestartEnter, StartTailClosed
  <2>3. QED
    BY <1>3, <2>1, <2>2 DEF RestartEnter
<1>4. CASE RestartFailed(h)
  <2>1. tailStream[h] \in locked
    BY <1>1, <1>4 DEF RestartFailed, IInv, LockInv, RestartOpens
  <2>2. QED
    BY <1>1, <1>4, <2>1, FailedFile DEF RestartFailed
<1>5. CASE \E next \in Handles : RestartOpened(h, next)
  <2>1. PICK next \in Handles : RestartOpened(h, next)
    BY <1>5
  <2>2. PICK s \in Streams : s = tailStream[h] /\ s \in locked
    BY <1>1, <2>1 DEF RestartOpened, IInv, LockInv, RestartOpens
  <2>3. /\ UNCHANGED <<connection, closed, rotationPc, currentFile>>
        /\ StartTailOpened(s, next)
    BY <2>1, <2>2 DEF RestartOpened
  <2>4. Steady(s)' => openPath[s] = currentFile[s]
    BY <2>2, <2>3 DEF FileInv
  <2>5. QED
    BY <2>3, <2>4, OpenedFile
<1>6. QED
  BY <1>2, <1>3, <1>4, <1>5 DEF TailStep

(* A thread that closes a stream only takes its tail away. *)
LEMMA CloseFile ==
  ASSUME IInv, FileInv, NEW c \in Closers, CloseStep(c)
  PROVE  FileInv'
<1> USE DEF worldVars, streamVars, tailVars, openedVars, wsOpen, Steady,
            RotationOpens
<1>1. CASE MarkClosed(c)
  BY <1>1, QuietFile DEF MarkClosed
<1>2. CASE TakeTail(c)
  <2>1. \A s \in Streams : tailHandle'[s] \in {None, tailHandle[s]}
    BY <1>2 DEF TakeTail, IInv, TypeOK
  <2>2. UNCHANGED <<locked, openPath, tailFile, currentFile, connection,
                    closed, rotationPc>>
    BY <1>2 DEF TakeTail
  <2>3. QED
    BY <2>1, <2>2 DEF FileInv
<1>3. CASE DisconnectTail(c)
  BY <1>3, QuietFile DEF DisconnectTail
<1>4. QED
  BY <1>1, <1>2, <1>3 DEF CloseStep

(* Between two switches a stream that is followed reads the file it names. *)
THEOREM TailsFollowTheFile == Spec => []TailFollowsCurrentFile
<1>1. Init => FileInv
  <2> SUFFICES ASSUME Init, NEW s \in Streams
               PROVE  /\ tailHandle[s] = None /\ s \notin locked
                      /\ ~RotationOpens(s)
    BY DEF FileInv
  <2>1. QED
    BY DEF Init, RotationOpens
<1>2. IInv /\ FileInv /\ [Next]_vars => FileInv'
  <2> SUFFICES ASSUME IInv, FileInv, [Next]_vars
               PROVE  FileInv'
    OBVIOUS
  <2> USE DEF worldVars, streamVars, tailVars, openedVars, wsOpen, Steady,
              RotationOpens
  <2>1. CASE OpenMessage \/ CloseMessage
    BY <2>1, QuietFile DEF OpenMessage, CloseMessage, RemoveRegistered
  <2>2. CASE Disconnect \/ ConnectionClosed \/ TransportError \/ RotateLog
    BY <2>2, QuietFile DEF Disconnect, ConnectionClosed, TransportError,
       RotateLog, RemoveRegistered
  <2>3. CASE \E s \in Streams : StaleRun(s) \/ StaleRemove(s)
    BY <2>3, QuietFile DEF StaleRun, StaleRemove, RemoveRegistered
  <2>4. CASE UNCHANGED vars
    BY <2>4, QuietFile DEF vars
  <2>5. QED
    BY <2>1, <2>2, <2>3, <2>4, HandlerFile, CloseFile, RotationFile, TailFile
    DEF Next
<1>3. FileInv => TailFollowsCurrentFile
  BY DEF FileInv, Steady, TailFollowsCurrentFile
<1>4. QED
  BY <1>1, <1>2, <1>3, LogFollowInvariant, PTL DEF Spec

-----------------------------------------------------------------------------
(***************************************************************************)
(* LogFollow implements TailLease: opening a tail is Open, the close of a  *)
(* previous tail in startTail is Close, the last step of close is Release, *)
(* and every other step is a stutter.                                      *)
(***************************************************************************)
Released == {s \in closed : ~Closing(s)}

(* startTail enters the lock: the previous tail is closed, or there is     *)
(* none.                                                                   *)
LEMMA EnterLease ==
  ASSUME IInv, NEW s \in Streams, StartTailEnter(s),
         UNCHANGED <<closed, closeStream>>
  PROVE  Lease!Next \/ UNCHANGED Lease!leaseVars
<1>1. UNCHANGED <<tailStream, Released>>
  BY DEF StartTailEnter, openedVars, Released, Closing
<1>2. CASE tailHandle[s] = None
  BY <1>1, <1>2 DEF StartTailEnter, Lease!leaseVars, Released
<1>3. CASE tailHandle[s] # None
  <2>1. tailHandle[s] \in Handles /\ handleState[tailHandle[s]] = "open"
    BY <1>3 DEF IInv, TypeOK, TailInv, IsOpen
  <2>2. Lease!Close(tailHandle[s])
    BY <1>1, <1>3, <2>1 DEF StartTailEnter, Lease!Close, Released
  <2>3. QED
    BY <2>1, <2>2 DEF Lease!Next
<1>4. QED
  BY <1>2, <1>3

(* openTail succeeds: the stream has no other tail and is not released.    *)
LEMMA OpenedLease ==
  ASSUME IInv, NEW s \in Streams, NEW h \in Handles, s \in locked,
         StartTailOpened(s, h), UNCHANGED <<closed, closeStream>>
  PROVE  Lease!Next
<1>1. UNCHANGED Released
  BY DEF Released, Closing
<1>2. tailHandle[s] = None
  BY DEF IInv, LockInv
<1>3. Lease!TailsOf(s) = {}
  <2> SUFFICES ASSUME NEW k \in Handles, IsOpen(k), tailStream[k] = s
               PROVE  FALSE
    BY DEF Lease!TailsOf, IsOpen
  <2>1. PICK c \in Closers : closeTail[c] = k /\ closeStream[c] = s
    BY <1>2, WhereOpenTailsAre, LogFollowAssumption
  <2>2. closePc[c] = "disconnect" /\ s \notin locked
    BY <2>1, LogFollowAssumption DEF IInv, CloseInv
  <2>3. QED
    BY <2>2
<1>4. s \notin Released
  BY DEF Released, IInv, CloseInv
<1>5. Lease!Open(s, h)
  BY <1>1, <1>3, <1>4 DEF StartTailOpened, Lease!Open, Released
<1>6. QED
  BY <1>5 DEF Lease!Next

(* The last step of close releases the stream, with the tail it took out.  *)
LEMMA DisconnectLease ==
  ASSUME IInv, NEW c \in Closers, DisconnectTail(c)
  PROVE  Lease!Next
<1> DEFINE s == closeStream[c]
<1>1. /\ s \in Streams /\ s \in closed /\ s # None
      /\ tailHandle[s] = None
      /\ closeTail[c] # None => tailStream[closeTail[c]] = s
      /\ \A d \in Closers : closeStream[d] = s => d = c
  BY LogFollowAssumption DEF IInv, TypeOK, CloseInv, DisconnectTail
<1>2. /\ handleState' = [h \in Handles |->
           IF h = closeTail[c] THEN "closed" ELSE handleState[h]]
      /\ closeStream' = [closeStream EXCEPT ![c] = None]
      /\ UNCHANGED <<closed, tailStream>>
  BY DEF DisconnectTail, streamVars, openedVars
<1>3. s \notin Released
  BY DEF Released, Closing
<1>4. Released' = Released \cup {s}
  <2>1. \A r \in Streams : Closing(r)' <=> (Closing(r) /\ r # s)
    BY <1>1, <1>2, LogFollowAssumption DEF Closing, IInv, TypeOK
  <2>2. closed \subseteq Streams
    BY DEF IInv, TypeOK
  <2>3. QED
    BY <1>1, <1>2, <2>1, <2>2 DEF Released
<1>5. \A h \in Handles : h \in Lease!TailsOf(s) => h = closeTail[c]
  <2> SUFFICES ASSUME NEW h \in Handles, IsOpen(h), tailStream[h] = s
               PROVE  h = closeTail[c]
    BY DEF Lease!TailsOf, IsOpen
  <2>1. QED
    BY <1>1, WhereOpenTailsAre, LogFollowAssumption
<1>6. \A h \in Handles : h = closeTail[c] =>
        h \in Lease!TailsOf(s) \/ handleState[h] = "closed"
  BY <1>1, LogFollowAssumption DEF Lease!TailsOf, IInv, TypeOK, TailInv
<1>7. handleState' = [h \in Handles |->
        IF h \in Lease!TailsOf(s) THEN "closed" ELSE handleState[h]]
  BY <1>2, <1>5, <1>6
<1>8. Lease!Release(s)
  BY <1>2, <1>3, <1>4, <1>7 DEF Lease!Release, Released
<1>9. QED
  BY <1>1, <1>8 DEF Lease!Next

(* A thread that takes a stream out of the map releases nothing yet.       *)
LEMMA RemoveLease ==
  ASSUME IInv, NEW c \in Closers, closePc[c] \in {"idle", "remove"},
         RemoveRegistered(c), UNCHANGED <<handleState, tailStream>>
  PROVE  UNCHANGED Lease!leaseVars
<1>1. closeStream[c] = None
  BY DEF IInv, CloseInv
<1>2. /\ closeStream' = [closeStream EXCEPT ![c] = registered]
      /\ closed' = closed
  BY DEF RemoveRegistered
<1>3. registered \notin closed /\ None \notin closed
  BY LogFollowAssumption DEF IInv, TypeOK, CloseInv
<1>4. \A s \in closed : Closing(s)' <=> Closing(s)
  BY <1>1, <1>2, <1>3 DEF Closing, IInv, TypeOK
<1>5. QED
  BY <1>2, <1>4 DEF Lease!leaseVars

(* The threads of LogFollowService keep the promise of TailLease: a stream *)
(* has one tail at a time and, once it is released, none.                  *)
THEOREM LogFollowImplementsTailLease == Spec => LeaseSpec
<1>1. Init => Lease!Init
  BY DEF Init, Lease!Init
<1>2. IInv /\ [Next]_vars => [Lease!Next]_Lease!leaseVars
  <2> SUFFICES ASSUME IInv, [Next]_vars
               PROVE  Lease!Next \/ UNCHANGED Lease!leaseVars
    OBVIOUS
  <2> USE DEF tailVars, openedVars, streamVars, closeVars
  <2> DEFINE Quiet == UNCHANGED <<handleState, tailStream, closed,
                                  closeStream>>
  <2>1. Quiet => UNCHANGED Lease!leaseVars
    BY DEF Lease!leaseVars, Closing
  <2>2. CASE OpenMessage \/ CloseMessage
    BY <2>2, RemoveLease DEF OpenMessage, CloseMessage, HandlerReady, Closers
  <2>3. CASE HandlerStep
    <3>1. CASE FirstTailEnter
      <4>1. handlerStream \in Streams
        BY <3>1 DEF FirstTailEnter, IInv, TypeOK, ControlInv
      <4>2. QED
        BY <3>1, <4>1, <2>1, EnterLease DEF FirstTailEnter, StartTailClosed
    <3>2. ASSUME NEW h \in Handles, FirstTailOpened(h)
          PROVE  Lease!Next
      <4>1. handlerStream \in Streams /\ handlerStream \in locked
        BY <3>2 DEF FirstTailOpened, IInv, TypeOK, ControlInv, LockInv,
           HandlerOpens
      <4>2. QED
        BY <3>2, <4>1, OpenedLease DEF FirstTailOpened
    <3>3. CASE \E s \in Streams, file \in Files : RegisterStream(s, file)
      BY <3>3, <2>1 DEF RegisterStream
    <3>4. CASE OpenThrows \/ FirstTailFailed
      BY <3>4, <2>1 DEF OpenThrows, FirstTailFailed, StartTailFailed
    <3>5. CASE ScheduleRotation \/ KeepRotation \/ ScheduleStale \/ KeepStale
      BY <3>5, <2>1 DEF ScheduleRotation, KeepRotation, ScheduleStale,
         KeepStale, HandlerMoves
    <3>6. QED
      BY <2>3, <3>1, <3>2, <3>3, <3>4, <3>5 DEF HandlerStep
  <2>4. CASE Disconnect \/ RotateLog \/ UNCHANGED vars
    BY <2>4, <2>1 DEF Disconnect, RotateLog, vars
  <2>5. CASE ConnectionClosed \/ TransportError
    BY <2>5, RemoveLease DEF ConnectionClosed, TransportError, Closers
  <2>6. CASE \E c \in Closers : CloseStep(c)
    <3>1. ASSUME NEW c \in Closers, MarkClosed(c)
          PROVE  UNCHANGED Lease!leaseVars
      BY <3>1 DEF MarkClosed, Closing, Lease!leaseVars
    <3>2. ASSUME NEW c \in Closers, TakeTail(c)
          PROVE  UNCHANGED Lease!leaseVars
      BY <3>2, <2>1 DEF TakeTail
    <3>3. QED
      BY <2>6, <3>1, <3>2, DisconnectLease DEF CloseStep
  <2>7. CASE \E s \in Streams : RotationStep(s)
    <3> SUFFICES ASSUME NEW s \in Streams, RotationStep(s)
                 PROVE  Lease!Next \/ UNCHANGED Lease!leaseVars
      BY <2>7
    <3>1. CASE RotationEnter(s)
      BY <3>1, <2>1, EnterLease DEF RotationEnter, RotationMoves,
         StartTailClosed
    <3>2. ASSUME NEW h \in Handles, RotationOpened(s, h)
          PROVE  Lease!Next
      <4>1. s \in locked
        BY <3>2 DEF RotationOpened, RotationMoves, IInv, LockInv,
           RotationOpens
      <4>2. QED
        BY <3>2, <4>1, OpenedLease DEF RotationOpened, RotationMoves
    <3>3. CASE \/ RotationRun(s) \/ RotationKeepsFile(s) \/ RotationSwitch(s)
               \/ RotationThrows(s) \/ RotationFailed(s)
      BY <3>3, <2>1 DEF RotationRun, RotationKeepsFile, RotationSwitch,
         RotationThrows, RotationFailed, RotationMoves, StartTailFailed
    <3>4. QED
      BY <3>1, <3>2, <3>3 DEF RotationStep
  <2>8. CASE \E s \in Streams : StaleRun(s) \/ StaleRemove(s)
    BY <2>8, <2>1, RemoveLease DEF StaleRun, StaleRemove, Closers
  <2>9. CASE \E h \in Handles : ReaderEnd(h) \/ ReaderStop(h) \/ TailStep(h)
    <3> SUFFICES ASSUME NEW h \in Handles,
                        ReaderEnd(h) \/ ReaderStop(h) \/ TailStep(h)
                 PROVE  Lease!Next \/ UNCHANGED Lease!leaseVars
      BY <2>9
    <3>1. CASE RestartEnter(h)
      <4>1. tailStream[h] \in Streams
        BY <3>1 DEF RestartEnter, TailMoves, IInv, TypeOK, TailInv
      <4>2. QED
        BY <3>1, <4>1, <2>1, EnterLease DEF RestartEnter, TailMoves,
           StartTailClosed
    <3>2. ASSUME NEW next \in Handles, RestartOpened(h, next)
          PROVE  Lease!Next
      <4>1. tailStream[h] \in Streams /\ tailStream[h] \in locked
        BY <3>2 DEF RestartOpened, IInv, TypeOK, TailInv, LockInv,
           RestartOpens
      <4>2. QED
        BY <3>2, <4>1, OpenedLease DEF RestartOpened
    <3>3. CASE \/ ReaderEnd(h) \/ ReaderStop(h) \/ ReaderStart(h)
               \/ ReaderFinish(h) \/ RestartRun(h) \/ RestartThrows(h)
               \/ RestartFailed(h)
      BY <3>3, <2>1 DEF ReaderEnd, ReaderStop, ReaderStart, ReaderFinish,
         RestartRun, RestartThrows, RestartFailed, TailMoves, StartTailFailed
    <3>4. QED
      BY <3>1, <3>2, <3>3 DEF TailStep
  <2>10. QED
    BY <2>2, <2>3, <2>4, <2>5, <2>6, <2>7, <2>8, <2>9 DEF Next
<1>3. QED
  BY <1>1, <1>2, LogFollowInvariant, PTL DEF Spec, LeaseSpec, Lease!Spec

==============================================================================
