--------------------------- MODULE TabSocketProofs ---------------------------
(***************************************************************************)
(* Proofs about TabSocket for any number of sockets, requests and broken   *)
(* connections, however often two tabs get the same socket: its types,     *)
(* that a tab has one connection at a time, besides those it has lost to   *)
(* syncStateToActiveTab, and that a tab which is closed, paused or         *)
(* switched off stays without one until it is asked to follow again.       *)
(*                                                                         *)
(* The types of what the tab keeps and of what is on its way are two       *)
(* invariants: a message is made of what the tab asked for, and what the   *)
(* tab shows and names is taken from messages.                             *)
(***************************************************************************)
EXTENDS TabSocket, TLAPS

ReadyStates == {"connecting", "open", "closing", "closed"}
ToServer == Seq(Requests \cup {CloseStream})
Messages == [type : {"following", "log_lines"},
             id : StreamIds, request : Requests]
StreamsOpen == [id : StreamIds, request : Requests, told : BOOLEAN]

FlagTypes ==
  /\ present \in BOOLEAN /\ inFront \in BOOLEAN
  /\ realtimeWanted \in BOOLEAN /\ pausedByIdle \in BOOLEAN
  /\ wsConnected \in BOOLEAN /\ wsClosing \in BOOLEAN
  /\ wsReconnectTimer \in BOOLEAN /\ quiet \in BOOLEAN

WishTypes ==
  /\ lastOpenStreamPayload \in 0..MaxOpens
  /\ currentStreamId \in StreamIds \cup {0}
  /\ opens \in 0..MaxOpens /\ pendingOpens \subseteq 1..opens
  /\ view \in 0..opens /\ shown \in 0..MaxOpens

SocketTypes ==
  /\ ws \in Sockets \cup {None, OtherWs}
  /\ lent \subseteq Sockets
  /\ readyState \in [Sockets -> ReadyStates]
  /\ retries \subseteq Sockets \X Requests
  /\ drops \in 0..MaxDrops

PageTypes ==
  /\ pageShows \in {"this", "other"}
  /\ switching \in 0..switches /\ switches \in 0..MaxSwitches
  /\ orphaned \subseteq Sockets

WireTypes ==
  /\ upstream \in [Sockets -> ToServer]
  /\ downstream \in [Sockets -> Seq(Messages)]
  /\ stream \in [Sockets -> StreamsOpen \cup {NoStream}]

Types == WishTypes /\ SocketTypes /\ WireTypes

(* Every step sets a flag to a truth value, or leaves it. *)
LEMMA FlagsKept ==
  ASSUME FlagTypes, [Next]_vars
  PROVE  FlagTypes'
<1> USE DEF FlagTypes, tabVars, socketVars, wishVars, openVars, viewVars,
        wireVars, pageVars, switchVars
<1>1. CASE UNCHANGED vars
  BY <1>1 DEF vars
<1>2. CASE UserStep
  BY <1>2 DEF UserStep, OpenFile, OpenLatestRealtime, LeaveTab, ActivateTab,
     ActivateTabOfOtherServer, NeighbourCloses, PauseIdleTab, FollowOff,
     CloseTab, ShutdownTabSocket, GoesQuiet, TakeSocketOfPage,
     ResumeTabRealtime
<1>3. CASE OpenFileStep
  BY <1>3 DEF OpenFileStep, OpenFileFollows, OpenFileInBackground,
     OpenFileFails, WsSend, SendOverOpen, SendWhenOpen, SendOverOther,
     SendOverNew
<1>4. CASE Reconnect
  BY <1>4 DEF Reconnect, WsSend, SendOverOpen, SendWhenOpen, SendOverOther,
     SendOverNew
<1>5. CASE \E s \in Sockets : OnOpen(s) \/ ClosingEnds(s) \/ Drop(s)
  BY <1>5 DEF OnOpen, ClosingEnds, Drop, OnClose
<1>6. CASE \E s \in Sockets, request \in Requests :
             RetrySend(s, request) \/ RetryExpires(s, request)
  BY <1>6 DEF RetrySend, RetryExpires
<1>7. CASE \E s \in Sockets :
             \/ ServerOpens(s) \/ ServerClosesStream(s)
             \/ ServerSaysFollowing(s) \/ ServerSaysLines(s)
  BY <1>7 DEF ServerOpens, ServerClosesStream, ServerSaysFollowing,
     ServerSaysLines, ServerSays, ServerSteps
<1>8. CASE \E s \in Sockets : OnFollowing(s) \/ OnLogLines(s)
  BY <1>8 DEF OnFollowing, OnLogLines, Receive
<1>9. CASE PageStep
  <2>1. CASE ProjectsLoadedShowTab
    BY <2>1 DEF ProjectsLoadedShowTab, ResumeTabRealtime
  <2>2. CASE SyncStateToActiveTab
    BY <2>2 DEF SyncStateToActiveTab, TakeSocketOfPage
  <2>3. CASE OtherTabIsShown
    BY <2>3 DEF OtherTabIsShown
  <2>4. CASE \E s \in Sockets : OtherTabClosesSocket(s) \/ OtherTabSends(s)
    BY <2>4 DEF OtherTabClosesSocket, OtherTabSends
  <2>5. QED
    BY <1>9, <2>1, <2>2, <2>3, <2>4 DEF PageStep
<1>10. QED
  BY <1>1, <1>2, <1>3, <1>4, <1>5, <1>6, <1>7, <1>8, <1>9
  DEF Next, SocketStep

(* What the page shows, the calls that wait and the sockets lost.          *)
LEMMA PageKept ==
  ASSUME Types, PageTypes, [Next]_vars
  PROVE  PageTypes'
<1> USE DEF PageTypes, tabVars, socketVars, wishVars, openVars, viewVars,
        wireVars, pageVars, switchVars
<1>1. UNCHANGED pageVars => PageTypes'
  OBVIOUS
<1>2. \A request : WsSend(request) => PageTypes'
  BY DEF WsSend, PageIfInFront
<1>3. ShutdownTabSocket => PageTypes'
  BY DEF ShutdownTabSocket, GoesQuiet, PageIfInFront
<1>4. TakeSocketOfPage => orphaned' \subseteq Sockets
  BY DEF TakeSocketOfPage
<1>5. Switches /\ switching' \in {switching, switching + 1}
        => switching' \in 0..switches' /\ switches' \in 0..MaxSwitches
  BY TabSocketAssumption DEF Switches
<1>6. CASE UNCHANGED vars
  BY <1>1, <1>6 DEF vars
<1>7. CASE UserStep
  <2>1. CASE OpenFile \/ OpenLatestRealtime
    BY <1>1, <2>1 DEF OpenFile, OpenLatestRealtime
  <2>2. CASE LeaveTab
    BY <1>4, <1>5, <2>2 DEF LeaveTab
  <2>3. CASE ActivateTab \/ NeighbourCloses
    BY <2>3 DEF ActivateTab, NeighbourCloses
  <2>4. CASE ActivateTabOfOtherServer
    BY <1>5, <2>4 DEF ActivateTabOfOtherServer
  <2>5. CASE PauseIdleTab \/ FollowOff \/ CloseTab
    BY <1>3, <2>5 DEF PauseIdleTab, FollowOff, CloseTab
  <2>6. QED
    BY <1>7, <2>1, <2>2, <2>3, <2>4, <2>5 DEF UserStep
<1>8. CASE PageStep
  <2>1. CASE ProjectsLoadedShowTab
    BY <2>1, TabSocketAssumption DEF ProjectsLoadedShowTab
  <2>2. CASE SyncStateToActiveTab
    BY <1>4, <2>2 DEF SyncStateToActiveTab
  <2>3. CASE OtherTabIsShown
    BY <1>5, <2>3 DEF OtherTabIsShown
  <2>4. CASE \E s \in Sockets : OtherTabClosesSocket(s) \/ OtherTabSends(s)
    BY <2>4 DEF OtherTabClosesSocket, OtherTabSends
  <2>5. QED
    BY <1>8, <2>1, <2>2, <2>3, <2>4 DEF PageStep
<1>9. CASE OpenFileStep
  BY <1>1, <1>2, <1>9 DEF OpenFileStep, OpenFileFollows,
     OpenFileInBackground, OpenFileFails
<1>10. CASE Reconnect
  BY <1>1, <1>2, <1>10 DEF Reconnect
<1>11. CASE \E s \in Sockets : ClosingEnds(s) \/ Drop(s)
  BY <1>11 DEF ClosingEnds, Drop, OnClose
<1>12. CASE \E s \in Sockets :
              \/ OnOpen(s) \/ OnFollowing(s) \/ OnLogLines(s)
              \/ \E request \in Requests :
                   RetrySend(s, request) \/ RetryExpires(s, request)
  BY <1>1, <1>12 DEF OnOpen, OnFollowing, OnLogLines, Receive, RetrySend,
     RetryExpires
<1>13. CASE \E s \in Sockets :
              \/ ServerOpens(s) \/ ServerClosesStream(s)
              \/ ServerSaysFollowing(s) \/ ServerSaysLines(s)
  BY <1>1, <1>13 DEF ServerOpens, ServerClosesStream, ServerSaysFollowing,
     ServerSaysLines, ServerSays, ServerSteps
<1>14. QED
  BY <1>6, <1>7, <1>8, <1>9, <1>10, <1>11, <1>12, <1>13
  DEF Next, SocketStep

(* A step that leaves what is on its way alone. *)
LEMMA QuietWire ==
  ASSUME WireTypes, UNCHANGED <<upstream, downstream, stream>>
  PROVE  WireTypes'
BY DEF WireTypes

(* What the tab or the server appends to a queue, and what is taken from   *)
(* its head.                                                               *)
LEMMA QueueTypes ==
  ASSUME NEW S, NEW q \in [Sockets -> Seq(S)], NEW s \in Sockets
  PROVE  /\ \A m \in S : [q EXCEPT ![s] = Append(@, m)] \in [Sockets -> Seq(S)]
         /\ q[s] # << >> => /\ Head(q[s]) \in S
                            /\ [q EXCEPT ![s] = Tail(@)] \in [Sockets -> Seq(S)]
         /\ [q EXCEPT ![s] = << >>] \in [Sockets -> Seq(S)]
OBVIOUS

(* wsSend keeps the types, for a request that openFile has numbered. *)
LEMMA WsSendTypes ==
  ASSUME SocketTypes, WireTypes, NEW request \in Requests, WsSend(request),
         UNCHANGED drops
  PROVE  /\ lastOpenStreamPayload' \in 0..MaxOpens
         /\ SocketTypes' /\ WireTypes'
<1> USE DEF socketVars, wireVars
<1>0. lent' = lent
  BY DEF WsSend
<1>1. lastOpenStreamPayload' \in 0..MaxOpens
  BY TabSocketAssumption DEF WsSend, Requests
<1>2. CASE SendOverOpen(request)
  <2>1. ws \in Sockets
    BY <1>2 DEF SendOverOpen
  <2>2. upstream' \in [Sockets -> ToServer]
    BY <1>2, <2>1, QueueTypes DEF SendOverOpen, WireTypes, ToServer
  <2>3. QED
    BY <1>0, <1>1, <1>2, <2>2 DEF SendOverOpen, SocketTypes, WireTypes
<1>3. CASE SendWhenOpen(request) \/ SendOverOther
  BY <1>0, <1>1, <1>3, QuietWire DEF SendWhenOpen, SendOverOther, SocketTypes
<1>4. CASE SendOverNew(request)
  <2>1. PICK s \in Sockets :
          /\ ws' = s /\ retries' = retries \cup {<<s, request>>}
          /\ readyState' = [readyState EXCEPT ![s] = "connecting"]
    BY <1>4 DEF SendOverNew
  <2>2. readyState' \in [Sockets -> ReadyStates]
    BY <2>1 DEF SocketTypes, ReadyStates
  <2>3. SocketTypes'
    BY <1>0, <1>4, <2>1, <2>2 DEF SendOverNew, SocketTypes
  <2>4. QED
    BY <1>1, <1>4, <2>3, QuietWire DEF SendOverNew
<1>5. QED
  BY <1>2, <1>3, <1>4 DEF WsSend

(* shutdownTabSocket keeps them too. *)
LEMMA ShutdownTypes ==
  ASSUME SocketTypes, WireTypes, ShutdownTabSocket, UNCHANGED drops
  PROVE  /\ currentStreamId' = 0
         /\ SocketTypes' /\ WireTypes'
<1>1. readyState' \in [Sockets -> ReadyStates]
  BY DEF ShutdownTabSocket, SocketTypes, ReadyStates
<1>2. upstream' \in [Sockets -> ToServer]
  <2>1. \A s \in Sockets : Append(upstream[s], CloseStream) \in ToServer
    BY DEF WireTypes, ToServer
  <2>2. QED
    BY <2>1 DEF ShutdownTabSocket, WireTypes
<1>3. QED
  BY <1>1, <1>2 DEF ShutdownTabSocket, GoesQuiet, SocketTypes, WireTypes

(* resumeTabRealtime numbers the call of openFile it makes.                *)
LEMMA ResumeTypes ==
  ASSUME WishTypes, NEW active, ResumeTabRealtime(active),
         UNCHANGED <<lastOpenStreamPayload, currentStreamId, view, shown>>
  PROVE  WishTypes'
<1> USE DEF openVars
<1>1. CASE UNCHANGED <<opens, pendingOpens>>
  BY <1>1 DEF WishTypes
<1>2. CASE /\ opens < MaxOpens /\ opens' = opens + 1
           /\ pendingOpens' = pendingOpens \cup {opens + 1}
  BY <1>2, TabSocketAssumption DEF WishTypes
<1>3. QED
  BY <1>1, <1>2 DEF ResumeTabRealtime

(* The user's clicks and the idle monitor. *)
LEMMA UserStepTypes ==
  ASSUME Types, UserStep
  PROVE  Types'
<1> USE DEF Types, tabVars, socketVars, wishVars, openVars, viewVars,
        wireVars, pageVars
<1>1. CASE OpenFile
  <2>1. WishTypes'
    BY <1>1, TabSocketAssumption DEF OpenFile, WishTypes
  <2>2. SocketTypes' /\ WireTypes'
    BY <1>1, QuietWire DEF OpenFile, SocketTypes
  <2>3. QED
    BY <2>1, <2>2
<1>2. CASE OpenLatestRealtime
  <2>1. WishTypes'
    BY <1>2, TabSocketAssumption DEF OpenLatestRealtime, WishTypes
  <2>2. SocketTypes' /\ WireTypes'
    BY <1>2, QuietWire DEF OpenLatestRealtime, SocketTypes
  <2>3. QED
    BY <2>1, <2>2
<1>3. CASE LeaveTab
  <2>1. ws' \in Sockets \cup {None, OtherWs}
    BY <1>3 DEF LeaveTab, TakeSocketOfPage, SocketTypes
  <2>2. QED
    BY <1>3, <2>1, QuietWire DEF LeaveTab, WishTypes, SocketTypes
<1>4. CASE ActivateTab
  <2>1. WishTypes'
    BY <1>4, ResumeTypes DEF ActivateTab
  <2>2. lent' \subseteq Sockets
    BY <1>4 DEF ActivateTab, LendSocketOfPage, SocketTypes
  <2>3. SocketTypes' /\ WireTypes'
    BY <1>4, <2>2, QuietWire DEF ActivateTab, SocketTypes
  <2>4. QED
    BY <2>1, <2>3
<1>5. CASE PauseIdleTab
  BY <1>5, ShutdownTypes DEF PauseIdleTab, WishTypes
<1>6. CASE FollowOff
  BY <1>6, ShutdownTypes, TabSocketAssumption DEF FollowOff, WishTypes
<1>7. CASE CloseTab
  BY <1>7, ShutdownTypes DEF CloseTab, WishTypes
<1>8. CASE ActivateTabOfOtherServer
  <2>1. lent' \subseteq Sockets
    BY <1>8 DEF ActivateTabOfOtherServer, LendSocketOfPage, SocketTypes
  <2>2. QED
    BY <1>8, <2>1, QuietWire
    DEF ActivateTabOfOtherServer, WishTypes, SocketTypes
<1>9. CASE NeighbourCloses
  BY <1>9, QuietWire DEF NeighbourCloses, WishTypes, SocketTypes
<1>10. QED
  BY <1>1, <1>2, <1>3, <1>4, <1>5, <1>6, <1>7, <1>8, <1>9 DEF UserStep

(* The page and the other tabs.                                            *)
LEMMA PageStepTypes ==
  ASSUME Types, PageStep
  PROVE  Types'
<1> USE DEF Types, tabVars, socketVars, wishVars, openVars, viewVars,
        wireVars, pageVars
<1>1. CASE ProjectsLoadedShowTab
  <2>1. WishTypes'
    BY <1>1, ResumeTypes DEF ProjectsLoadedShowTab
  <2>2. QED
    BY <1>1, <2>1, QuietWire DEF ProjectsLoadedShowTab, SocketTypes
<1>2. CASE SyncStateToActiveTab
  <2>1. ws' \in Sockets \cup {None, OtherWs} /\ lent' \subseteq Sockets
    BY <1>2 DEF SyncStateToActiveTab, TakeSocketOfPage, LendSocketOfPage,
       SocketTypes
  <2>2. QED
    BY <1>2, <2>1, QuietWire DEF SyncStateToActiveTab, WishTypes,
       SocketTypes
<1>3. CASE OtherTabIsShown
  BY <1>3, QuietWire DEF OtherTabIsShown, WishTypes, SocketTypes
<1>4. ASSUME NEW s \in Sockets, OtherTabClosesSocket(s)
      PROVE  Types'
  <2>1. /\ readyState' \in [Sockets -> ReadyStates]
        /\ lent' \subseteq Sockets
    BY <1>4 DEF OtherTabClosesSocket, SocketTypes, ReadyStates
  <2>2. upstream' \in [Sockets -> ToServer]
    BY <1>4, QueueTypes DEF OtherTabClosesSocket, WireTypes, ToServer
  <2>3. QED
    BY <1>4, <2>1, <2>2 DEF OtherTabClosesSocket, WishTypes, SocketTypes,
       WireTypes
<1>5. ASSUME NEW s \in Sockets, OtherTabSends(s)
      PROVE  Types'
  <2>1. /\ opens' = opens + 1 /\ opens' \in 0..MaxOpens
        /\ opens' \in Requests
    BY <1>5, TabSocketAssumption DEF OtherTabSends, WishTypes, Requests
  <2>2. upstream' = [upstream EXCEPT ![s] = Append(@, opens')]
    BY <1>5, <2>1 DEF OtherTabSends
  <2>3. upstream' \in [Sockets -> ToServer]
    BY <2>1, <2>2, QueueTypes DEF WireTypes, ToServer
  <2>4. WishTypes'
    BY <1>5, <2>1, TabSocketAssumption DEF OtherTabSends, WishTypes
  <2>5. QED
    BY <1>5, <2>3, <2>4 DEF OtherTabSends, SocketTypes, WireTypes
<1>6. QED
  BY <1>1, <1>2, <1>3, <1>4, <1>5 DEF PageStep

(* The rest of openFile. *)
LEMMA OpenFileStepTypes ==
  ASSUME Types, OpenFileStep
  PROVE  Types'
<1> USE DEF Types, tabVars, socketVars, wishVars, openVars, viewVars,
        wireVars, pageVars
<1>1. PICK request \in pendingOpens :
        \/ OpenFileFollows(request) \/ OpenFileInBackground(request)
        \/ OpenFileFails(request)
  BY DEF OpenFileStep
<1>2. request \in 1..opens /\ request \in Requests
  BY TabSocketAssumption DEF WishTypes, Requests
<1>3. CASE OpenFileFollows(request)
  <2>1. WsSend(request) /\ UNCHANGED drops
    BY <1>3 DEF OpenFileFollows
  <2>2. lastOpenStreamPayload' \in 0..MaxOpens /\ SocketTypes' /\ WireTypes'
    BY <1>2, <2>1, WsSendTypes
  <2>3. WishTypes'
    BY <1>2, <1>3, <2>2, TabSocketAssumption DEF OpenFileFollows, WishTypes
  <2>4. QED
    BY <2>2, <2>3
<1>4. CASE OpenFileInBackground(request)
  <2>1. WishTypes'
    BY <1>2, <1>4, TabSocketAssumption DEF OpenFileInBackground, WishTypes
  <2>2. SocketTypes' /\ WireTypes'
    BY <1>4, QuietWire DEF OpenFileInBackground, SocketTypes
  <2>3. QED
    BY <2>1, <2>2
<1>5. CASE OpenFileFails(request)
  BY <1>5, QuietWire DEF OpenFileFails, WishTypes, SocketTypes
<1>6. QED
  BY <1>1, <1>3, <1>4, <1>5

(* The timers. *)
LEMMA TimerTypes ==
  ASSUME Types,
         \/ Reconnect
         \/ \E s \in Sockets, request \in Requests :
              RetrySend(s, request) \/ RetryExpires(s, request)
  PROVE  Types'
<1> USE DEF Types, tabVars, socketVars, wishVars, openVars, viewVars,
        wireVars, pageVars
<1>1. CASE Reconnect
  <2>1. CASE MayReconnect /\ WsSend(lastOpenStreamPayload)
    <3>1. lastOpenStreamPayload \in Requests
      BY <2>1, TabSocketAssumption DEF MayReconnect, WishTypes, Requests
    <3>2. PICK request \in Requests : WsSend(request)
      BY <2>1, <3>1
    <3>3. UNCHANGED drops
      BY <1>1 DEF Reconnect
    <3>4. lastOpenStreamPayload' \in 0..MaxOpens /\ SocketTypes' /\ WireTypes'
      BY <3>2, <3>3, WsSendTypes
    <3>5. QED
      BY <1>1, <3>4 DEF Reconnect, WishTypes
  <2>2. CASE UNCHANGED <<socketVars, lastOpenStreamPayload, retries,
                         wireVars, pageVars>>
    BY <1>1, <2>2, QuietWire DEF Reconnect, WishTypes, SocketTypes
  <2>3. QED
    BY <1>1, <2>1, <2>2 DEF Reconnect
<1>2. ASSUME NEW s \in Sockets, NEW request \in Requests,
             RetrySend(s, request)
      PROVE  Types'
  <2>1. upstream' \in [Sockets -> ToServer]
    BY <1>2, QueueTypes DEF RetrySend, WireTypes, ToServer
  <2>2. WishTypes' /\ SocketTypes'
    BY <1>2 DEF RetrySend, WishTypes, SocketTypes
  <2>3. QED
    BY <1>2, <2>1, <2>2 DEF RetrySend, WireTypes
<1>3. ASSUME NEW s \in Sockets, NEW request \in Requests,
             RetryExpires(s, request)
      PROVE  Types'
  BY <1>3, QuietWire DEF RetryExpires, WishTypes, SocketTypes
<1>4. QED
  BY <1>1, <1>2, <1>3

(* A socket opens or closes. *)
LEMMA EventTypes ==
  ASSUME Types, NEW s \in Sockets, OnOpen(s) \/ ClosingEnds(s) \/ Drop(s)
  PROVE  Types'
<1> USE DEF Types, tabVars, socketVars, wishVars, openVars, viewVars,
        wireVars, pageVars
<1>1. CASE OnOpen(s)
  <2>1. readyState' \in [Sockets -> ReadyStates]
    BY <1>1 DEF OnOpen, SocketTypes, ReadyStates
  <2>2. WishTypes' /\ SocketTypes'
    BY <1>1, <2>1 DEF OnOpen, WishTypes, SocketTypes
  <2>3. QED
    BY <1>1, <2>2, QuietWire DEF OnOpen
<1>2. ASSUME OnClose(s), drops' \in 0..MaxDrops
      PROVE  Types'
  <2>1. WireTypes'
    BY <1>2, QueueTypes DEF OnClose, WireTypes, ToServer
  <2>2. readyState' \in [Sockets -> ReadyStates]
    BY <1>2 DEF OnClose, SocketTypes, ReadyStates
  <2>3. WishTypes' /\ SocketTypes'
    BY <1>2, <2>2 DEF OnClose, WishTypes, SocketTypes
  <2>4. QED
    BY <2>1, <2>3
<1>3. CASE ClosingEnds(s)
  BY <1>2, <1>3 DEF ClosingEnds, SocketTypes
<1>4. CASE Drop(s)
  BY <1>2, <1>4, TabSocketAssumption DEF Drop, SocketTypes
<1>5. QED
  BY <1>1, <1>3, <1>4

(* The server takes a message from a socket, or sends one. *)
LEMMA ServerTypes ==
  ASSUME Types, NEW s \in Sockets,
         \/ ServerOpens(s) \/ ServerClosesStream(s)
         \/ ServerSaysFollowing(s) \/ ServerSaysLines(s)
  PROVE  Types'
<1> USE DEF Types, tabVars, socketVars, wishVars, openVars, viewVars,
        pageVars
<1>1. WishTypes' /\ SocketTypes'
  BY DEF ServerOpens, ServerClosesStream, ServerSaysFollowing,
     ServerSaysLines, ServerSays, ServerSteps, WishTypes, SocketTypes
<1>2. CASE ServerOpens(s)
  <2>1. /\ Head(upstream[s]) \in Requests
        /\ upstream' \in [Sockets -> ToServer]
    BY <1>2, QueueTypes DEF ServerOpens, WireTypes, ToServer
  <2>2. PICK id \in StreamIds : stream' = [stream EXCEPT ![s] =
          [id |-> id, request |-> Head(upstream[s]), told |-> FALSE]]
    BY <1>2 DEF ServerOpens
  <2>3. [id |-> id, request |-> Head(upstream[s]), told |-> FALSE]
          \in StreamsOpen
    BY <2>1 DEF StreamsOpen
  <2>4. QED
    BY <1>1, <1>2, <2>1, <2>2, <2>3 DEF ServerOpens, WireTypes
<1>3. CASE ServerClosesStream(s)
  <2>1. upstream' \in [Sockets -> ToServer]
    BY <1>3, QueueTypes DEF ServerClosesStream, WireTypes, ToServer
  <2>2. QED
    BY <1>1, <1>3, <2>1 DEF ServerClosesStream, WireTypes
<1>4. ASSUME NEW type \in {"following", "log_lines"}, ServerSays(s, type)
      PROVE  /\ upstream' = upstream
             /\ downstream' \in [Sockets -> Seq(Messages)]
             /\ stream[s] \in StreamsOpen
  <2>1. stream[s] \in StreamsOpen
    BY <1>4 DEF ServerSays, WireTypes
  <2>2. [type |-> type, id |-> stream[s].id, request |-> stream[s].request]
          \in Messages
    BY <2>1 DEF Messages, StreamsOpen
  <2>3. QED
    BY <1>4, <2>1, <2>2, QueueTypes DEF ServerSays, WireTypes
<1>5. CASE ServerSaysFollowing(s)
  <2>1. stream[s] \in StreamsOpen
    BY <1>4, <1>5 DEF ServerSaysFollowing
  <2>2. [stream[s] EXCEPT !.told = TRUE] \in StreamsOpen
    BY <2>1 DEF StreamsOpen
  <2>3. stream' \in [Sockets -> StreamsOpen \cup {NoStream}]
    BY <1>5, <2>2 DEF ServerSaysFollowing, WireTypes
  <2>4. QED
    BY <1>1, <1>4, <1>5, <2>3 DEF ServerSaysFollowing, WireTypes
<1>6. CASE ServerSaysLines(s)
  BY <1>1, <1>4, <1>6 DEF ServerSaysLines, WireTypes
<1>7. QED
  BY <1>2, <1>3, <1>5, <1>6

(* handleWsMessage takes over what the message says. *)
LEMMA MessageTypes ==
  ASSUME Types, NEW s \in Sockets, OnFollowing(s) \/ OnLogLines(s)
  PROVE  Types'
<1> USE DEF Types, tabVars, socketVars, openVars, pageVars
<1>1. PICK type \in {"following", "log_lines"} : Receive(s, type)
  BY DEF OnFollowing, OnLogLines
<1>2. /\ Head(downstream[s]) \in Messages
      /\ downstream' \in [Sockets -> Seq(Messages)]
  BY <1>1, QueueTypes DEF Receive, WireTypes
<1>3. /\ Head(downstream[s]).id \in StreamIds
      /\ Head(downstream[s]).request \in 0..MaxOpens
  BY <1>2, TabSocketAssumption DEF Messages, Requests
<1>4. /\ currentStreamId' \in StreamIds \cup {0}
      /\ shown' \in 0..MaxOpens
  BY <1>3 DEF OnFollowing, OnLogLines, WishTypes
<1>5. QED
  BY <1>1, <1>2, <1>4 DEF Receive, WishTypes, SocketTypes, WireTypes

(* What the later proofs build on. *)
LEMMA TypesInvariant == Spec => [](FlagTypes /\ Types /\ PageTypes)
<1>1. Init => FlagTypes
  BY DEF Init, FlagTypes
<1>2. Init => Types
  <2> SUFFICES ASSUME Init
               PROVE  WishTypes /\ SocketTypes /\ WireTypes
    BY DEF Types
  <2>1. WishTypes
    BY TabSocketAssumption DEF Init, WishTypes
  <2>2. SocketTypes
    BY TabSocketAssumption DEF Init, SocketTypes, ReadyStates
  <2>3. WireTypes
    BY DEF Init, WireTypes, ToServer
  <2>4. QED
    BY <2>1, <2>2, <2>3
<1>3. Types /\ [Next]_vars => Types'
  <2> SUFFICES ASSUME Types, [Next]_vars
               PROVE  Types'
    OBVIOUS
  <2>1. CASE UNCHANGED vars
    BY <2>1 DEF vars, tabVars, socketVars, wishVars, openVars, viewVars,
       wireVars, pageVars, Types, WishTypes, SocketTypes, WireTypes
  <2>2. QED
    BY <2>1, UserStepTypes, PageStepTypes, OpenFileStepTypes, TimerTypes,
       EventTypes, ServerTypes, MessageTypes DEF Next, SocketStep
<1>4. FlagTypes /\ [Next]_vars => FlagTypes'
  BY FlagsKept
<1>5. Init => PageTypes
  BY TabSocketAssumption DEF Init, PageTypes
<1>6. Types /\ PageTypes /\ [Next]_vars => PageTypes'
  BY PageKept
<1>7. QED
  BY <1>1, <1>2, <1>3, <1>4, <1>5, <1>6, PTL DEF Spec

(* Every variable keeps its type. *)
THEOREM TabSocketTypes == Spec => []TypeOK
<1>1. FlagTypes /\ Types /\ PageTypes => TypeOK
  BY DEF FlagTypes, Types, WishTypes, SocketTypes, WireTypes, PageTypes,
     TypeOK, ReadyStates, ToServer, Messages, StreamsOpen
<1>2. QED
  BY <1>1, TypesInvariant, PTL

-----------------------------------------------------------------------------
(***************************************************************************)
(* One connection.  Only ensureWebSocket makes one, when the tab's is not  *)
(* live; and the tab lets go of a socket only when it is closed or told to *)
(* close, or in syncStateToActiveTab, and then it is among the lost ones.  *)
(***************************************************************************)
LEMMA WsSendKeepsOne ==
  ASSUME SocketTypes, OneLiveSocket, NEW request, WsSend(request)
  PROVE  OneLiveSocket'
<1>0. orphaned' = orphaned
  BY DEF WsSend
<1>1. CASE SendOverOpen(request) \/ SendWhenOpen(request) \/ SendOverOther
  BY <1>0, <1>1 DEF SendOverOpen, SendWhenOpen, SendOverOther,
     OneLiveSocket, Live, socketVars
<1>2. CASE SendOverNew(request)
  <2>1. PICK s \in Sockets :
          /\ ws' = s
          /\ readyState' = [readyState EXCEPT ![s] = "connecting"]
    BY <1>2 DEF SendOverNew
  <2>2. \A r \in Sockets : Live(r) => r \in orphaned
    BY <1>2 DEF SendOverNew, HasLiveSocket, OneLiveSocket
  <2>3. \A r \in Sockets : r # s => readyState'[r] = readyState[r]
    BY <2>1 DEF SocketTypes
  <2>4. QED
    BY <1>0, <2>1, <2>2, <2>3 DEF OneLiveSocket, Live
<1>3. QED
  BY <1>1, <1>2 DEF WsSend

LEMMA ShutdownKeepsOne ==
  ASSUME OneLiveSocket, ShutdownTabSocket
  PROVE  OneLiveSocket'
BY DEF OneLiveSocket, ShutdownTabSocket, GoesQuiet, Live, pageVars

LEMMA TakeKeepsOne ==
  ASSUME OneLiveSocket, TakeSocketOfPage, UNCHANGED readyState
  PROVE  OneLiveSocket'
BY DEF OneLiveSocket, TakeSocketOfPage, Live

(* A tab has one connection at a time, however its file is opened again,   *)
(* its connection breaks and comes back, and the tab is left and entered;  *)
(* but for the sockets that are overwritten while the page shows another.  *)
THEOREM OneConnection == Spec => []OneLiveSocket
<1>1. Init => OneLiveSocket
  BY DEF Init, OneLiveSocket, Live
<1>2. Types /\ OneLiveSocket /\ [Next]_vars => OneLiveSocket'
  <2> SUFFICES ASSUME Types, OneLiveSocket, [Next]_vars
               PROVE  OneLiveSocket'
    OBVIOUS
  <2> USE DEF Types, socketVars, pageVars
  <2>1. UNCHANGED <<ws, readyState, orphaned>> => OneLiveSocket'
    BY DEF OneLiveSocket, Live
  <2>2. CASE UNCHANGED vars
    BY <2>1, <2>2 DEF vars
  <2>3. CASE UserStep
    <3>1. CASE LeaveTab
      BY <3>1, TakeKeepsOne DEF LeaveTab
    <3>2. QED
      BY <2>1, <2>3, <3>1, ShutdownKeepsOne DEF UserStep, OpenFile,
         OpenLatestRealtime, ActivateTab, ActivateTabOfOtherServer,
         NeighbourCloses, PauseIdleTab, FollowOff, CloseTab
  <2>4. CASE OpenFileStep
    BY <2>1, <2>4, WsSendKeepsOne DEF OpenFileStep, OpenFileFollows,
       OpenFileInBackground, OpenFileFails
  <2>5. CASE Reconnect
    BY <2>1, <2>5, WsSendKeepsOne DEF Reconnect
  <2>6. ASSUME NEW s \in Sockets, OnOpen(s) \/ ClosingEnds(s) \/ Drop(s)
        PROVE  OneLiveSocket'
    BY <2>6 DEF OnOpen, ClosingEnds, Drop, OnClose, OneLiveSocket, Live,
       SocketTypes
  <2>7. CASE \E s \in Sockets, request \in Requests :
               RetrySend(s, request) \/ RetryExpires(s, request)
    BY <2>1, <2>7 DEF RetrySend, RetryExpires
  <2>8. CASE \E s \in Sockets :
               \/ ServerOpens(s) \/ ServerClosesStream(s)
               \/ ServerSaysFollowing(s) \/ ServerSaysLines(s)
    BY <2>1, <2>8 DEF ServerOpens, ServerClosesStream, ServerSaysFollowing,
       ServerSaysLines, ServerSays, ServerSteps
  <2>9. CASE \E s \in Sockets : OnFollowing(s) \/ OnLogLines(s)
    BY <2>1, <2>9 DEF OnFollowing, OnLogLines, Receive
  <2>10. CASE PageStep
    <3>1. CASE ProjectsLoadedShowTab \/ OtherTabIsShown
      BY <2>1, <3>1 DEF ProjectsLoadedShowTab, OtherTabIsShown
    <3>2. CASE SyncStateToActiveTab
      BY <2>1, <3>2, TakeKeepsOne DEF SyncStateToActiveTab
    <3>3. ASSUME NEW s \in Sockets, OtherTabClosesSocket(s)
          PROVE  OneLiveSocket'
      BY <3>3 DEF OtherTabClosesSocket, OneLiveSocket, Live, SocketTypes
    <3>4. CASE \E s \in Sockets : OtherTabSends(s)
      BY <2>1, <3>4 DEF OtherTabSends
    <3>5. QED
      BY <2>10, <3>1, <3>2, <3>3, <3>4 DEF PageStep
  <2>11. QED
    BY <2>2, <2>3, <2>4, <2>5, <2>6, <2>7, <2>8, <2>9, <2>10
    DEF Next, SocketStep
<1>3. QED
  BY <1>1, <1>2, TypesInvariant, PTL DEF Spec

-----------------------------------------------------------------------------
(***************************************************************************)
(* Quiet tabs.  shutdownTabSocket takes the socket and the timer away; the *)
(* steps that bring one of them back are wsSend, which openFile calls, or  *)
(* the timer, and scheduleTabReconnect, which a quiet tab has no reason    *)
(* for.  No message reaches it, for it has no open socket.                 *)
(***************************************************************************)
Silent == ws = None /\ ~wsReconnectTimer /\ \A s \in Sockets : ~Live(s)

QuietInv == quiet => Silent /\ ~MayReconnect

(* What is closed, paused or switched off is quiet, if nothing is lost.    *)
LEMMA ShutdownIsQuiet ==
  ASSUME OneLiveSocket, ShutdownTabSocket,
         ~present' \/ pausedByIdle' \/ lastOpenStreamPayload' = 0
  PROVE  QuietInv'
<1>1. quiet' => \A s \in Sockets : Live(s) => s = ws
  BY DEF ShutdownTabSocket, GoesQuiet, OneLiveSocket
<1>2. quiet' => Silent'
  BY <1>1 DEF ShutdownTabSocket, Silent, Live
<1>3. ~MayReconnect'
  BY DEF MayReconnect
<1>4. QED
  BY <1>2, <1>3 DEF QuietInv

(* A tab that was closed, paused or switched off stays without connection, *)
(* until it is asked to follow.                                            *)
THEOREM QuietStaysQuiet == Spec => []QuietTabIsQuiet
<1>1. Init => QuietInv
  BY DEF Init, QuietInv
<1>2. FlagTypes /\ Types /\ OneLiveSocket /\ QuietInv /\ [Next]_vars
        => QuietInv'
  <2> SUFFICES ASSUME FlagTypes, Types, OneLiveSocket, QuietInv, [Next]_vars
               PROVE  QuietInv'
    OBVIOUS
  <2> USE DEF socketVars, tabVars, wishVars, pageVars
  <2> DEFINE Wishes == <<present, realtimeWanted, pausedByIdle,
                         lastOpenStreamPayload>>
             Sound == <<ws, wsReconnectTimer, readyState>>
  <2>1. UNCHANGED Sound => (Silent' <=> Silent)
    BY DEF Silent, Live
  <2>2. UNCHANGED Wishes => (MayReconnect' <=> MayReconnect)
    BY DEF MayReconnect
  <2>3. UNCHANGED <<quiet, Wishes, Sound>> => QuietInv'
    BY <2>1, <2>2 DEF QuietInv
  <2>4. ~quiet' => QuietInv'
    BY DEF QuietInv
  <2>5. \A active : ResumeTabRealtime(active)
          => ~quiet' \/ UNCHANGED <<quiet, pausedByIdle>>
    BY DEF ResumeTabRealtime
  <2>6. TakeSocketOfPage => ~quiet' \/ UNCHANGED <<quiet, ws>>
    BY DEF TakeSocketOfPage, FlagTypes
  <2>7. CASE UNCHANGED vars
    BY <2>3, <2>7 DEF vars
  <2>8. CASE UserStep
    <3>1. CASE OpenFile \/ OpenLatestRealtime \/ NeighbourCloses
               \/ ActivateTabOfOtherServer
      BY <2>3, <2>4, <3>1 DEF OpenFile, OpenLatestRealtime, NeighbourCloses,
         ActivateTabOfOtherServer
    <3>2. CASE ActivateTab
      BY <2>3, <2>4, <2>5, <3>2 DEF ActivateTab
    <3>3. CASE LeaveTab
      BY <2>3, <2>4, <2>6, <3>3 DEF LeaveTab
    <3>4. CASE PauseIdleTab \/ FollowOff \/ CloseTab
      BY <3>4, ShutdownIsQuiet DEF PauseIdleTab, FollowOff, CloseTab
    <3>5. QED
      BY <2>8, <3>1, <3>2, <3>3, <3>4 DEF UserStep
  <2>9. CASE PageStep
    <3>1. CASE ProjectsLoadedShowTab
      BY <2>3, <2>4, <2>5, <3>1 DEF ProjectsLoadedShowTab
    <3>2. CASE SyncStateToActiveTab
      BY <2>3, <2>4, <2>6, <3>2 DEF SyncStateToActiveTab
    <3>3. CASE OtherTabIsShown
      BY <2>3, <3>3 DEF OtherTabIsShown
    <3>4. ASSUME NEW s \in Sockets, OtherTabClosesSocket(s)
          PROVE  QuietInv'
      <4>1. Live(s) /\ quiet' = quiet
        BY <3>4 DEF OtherTabClosesSocket
      <4>2. QED
        BY <4>1, <2>4 DEF QuietInv, Silent
    <3>5. CASE \E s \in Sockets : OtherTabSends(s)
      BY <2>3, <3>5 DEF OtherTabSends
    <3>6. QED
      BY <2>9, <3>1, <3>2, <3>3, <3>4, <3>5 DEF PageStep
  <2>10. CASE OpenFileStep
    <3>1. PICK request \in pendingOpens :
            \/ OpenFileFollows(request) \/ OpenFileInBackground(request)
            \/ OpenFileFails(request)
      BY <2>10 DEF OpenFileStep
    <3>2. CASE OpenFileFollows(request)
      BY <2>4, <3>2 DEF OpenFileFollows
    <3>3. CASE OpenFileInBackground(request)
      <4>1. UNCHANGED <<quiet, Sound, present, lastOpenStreamPayload>>
        BY <3>3 DEF OpenFileInBackground
      <4>2. CASE realtimeWanted' = FALSE
        BY <2>1, <4>1, <4>2 DEF QuietInv, MayReconnect
      <4>3. CASE UNCHANGED <<realtimeWanted, pausedByIdle>>
        BY <2>3, <4>1, <4>3
      <4>4. QED
        BY <3>3, <4>2, <4>3 DEF OpenFileInBackground
    <3>4. CASE OpenFileFails(request)
      BY <2>3, <3>4 DEF OpenFileFails
    <3>5. QED
      BY <3>1, <3>2, <3>3, <3>4
  <2>11. CASE Reconnect
    <3>1. wsReconnectTimer /\ quiet' = quiet
      BY <2>11 DEF Reconnect
    <3>2. QED
      BY <2>4, <3>1 DEF QuietInv, Silent
  <2>12. ASSUME NEW s \in Sockets,
                OnOpen(s) \/ Drop(s) \/ OnFollowing(s) \/ OnLogLines(s)
         PROVE  QuietInv'
    <3>1. Live(s) /\ quiet' = quiet
      BY <2>12 DEF OnOpen, Drop, OnClose, OnFollowing, OnLogLines, Receive,
         Live
    <3>2. QED
      BY <2>4, <3>1 DEF QuietInv, Silent
  <2>13. ASSUME NEW s \in Sockets, ClosingEnds(s)
         PROVE  QuietInv'
    <3>1. CASE ~quiet
      BY <2>4, <2>13, <3>1 DEF ClosingEnds, OnClose
    <3>2. CASE quiet
      <4>1. ~MayReconnect /\ Silent
        BY <3>2 DEF QuietInv
      <4>2. UNCHANGED Wishes
        BY <2>13 DEF ClosingEnds, OnClose
      <4>3. \A r \in Sockets : ~Live(r)'
        BY <2>13, <4>1 DEF ClosingEnds, OnClose, Silent, Live, Types,
           SocketTypes
      <4>4. ws' = None /\ ~wsReconnectTimer'
        BY <2>13, <4>1 DEF ClosingEnds, OnClose, Silent
      <4>5. QED
        BY <2>2, <4>1, <4>2, <4>3, <4>4 DEF QuietInv, Silent
    <3>3. QED
      BY <3>1, <3>2
  <2>14. CASE \E s \in Sockets, request \in Requests :
                RetrySend(s, request) \/ RetryExpires(s, request)
    BY <2>3, <2>14 DEF RetrySend, RetryExpires
  <2>15. CASE \E s \in Sockets :
                \/ ServerOpens(s) \/ ServerClosesStream(s)
                \/ ServerSaysFollowing(s) \/ ServerSaysLines(s)
    BY <2>3, <2>15 DEF ServerOpens, ServerClosesStream, ServerSaysFollowing,
       ServerSaysLines, ServerSays, ServerSteps
  <2>16. QED
    BY <2>7, <2>8, <2>9, <2>10, <2>11, <2>12, <2>13, <2>14, <2>15
    DEF Next, SocketStep
<1>3. QuietInv => QuietTabIsQuiet
  BY DEF QuietInv, Silent, QuietTabIsQuiet
<1>4. QED
  BY <1>1, <1>2, <1>3, TypesInvariant, OneConnection, PTL DEF Spec

==============================================================================
