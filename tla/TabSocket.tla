------------------------------ MODULE TabSocket ------------------------------
(***************************************************************************)
(* One tab of the browser page (app.js) and the WebSockets it follows its  *)
(* log with: open a file in realtime, lose the connection and reconnect,   *)
(* pause in the background, switch the realtime view off, close the tab.   *)
(*                                                                         *)
(* JavaScript runs one callback at a time, so an action is a callback: a   *)
(* click, a timer, an event of a socket, the rest of an async function     *)
(* after an await.  A request is the number of the openFile call it comes  *)
(* from; a stream id is a number that nothing else still refers to.  The   *)
(* server answers as LogFollowService does (see LogFollow): a request ends *)
(* the stream of that socket and starts another, whose lines may be sent   *)
(* before the status "following" names it.                                 *)
(*                                                                         *)
(* The other tabs are those of PageTabs.  Here they matter for the socket  *)
(* that the page has in state.ws: it is the one of the tab the page shows, *)
(* which is not the active tab while activateTab waits for the projects of *)
(* another server (app.js:741), and syncStateToActiveTab gives it to the   *)
(* active tab (app.js:603).                                                *)
(***************************************************************************)
EXTENDS Naturals, Sequences, FiniteSets

CONSTANTS Sockets,      \* bound: the WebSocket objects alive at a time
          None,
          OtherWs,      \* a socket that another tab has made
          MaxOpens,     \* bound: the openFile calls
          MaxDrops,     \* bound: the connections the network breaks
          StreamIds,    \* bound: the stream ids referred to at a time
          MaxLines,     \* bound: the messages a socket has on their way
          MaxSwitches,  \* bound: the waits and changes of the page that let
                        \* two tabs have the same socket
          SlowConnect   \* a connection may take more than five seconds

ASSUME TabSocketAssumption ==
  /\ None \notin Sockets /\ OtherWs \notin Sockets \cup {None}
  /\ MaxOpens \in Nat /\ MaxDrops \in Nat /\ MaxLines \in Nat \ {0}
  /\ MaxSwitches \in Nat
  /\ StreamIds \subseteq Nat \ {0}
  /\ SlowConnect \in BOOLEAN

Requests == 1..MaxOpens
CloseStream == 0            \* the message close_stream

VARIABLES
  present, inFront,           \* the tab exists; it is the active one
  ws, wsConnected, wsClosing, \* fields of the tab, with those below
  realtimeWanted, pausedByIdle, lastOpenStreamPayload, currentStreamId,
  wsReconnectTimer,
  pendingOpens, opens,        \* openFile calls that wait for their snapshot
  view,                       \* the request whose snapshot the tab shows
  shown,                      \* history: whose lines were last added to it
  readyState,                 \* of each socket
  retries,                    \* the requests that wait for a socket to open
  upstream, downstream,       \* the messages on their way, of each socket
  stream,                     \* the stream the server has for each socket
  drops,
  pageShows,                  \* the tab whose socket state.ws is: this one,
                              \* or another
  switching,                  \* the calls of activateTab that still wait
  switches,
  lent,                       \* the sockets of this tab that another has too
  orphaned,                   \* history: live sockets that the tab has lost
                              \* to syncStateToActiveTab
  quiet                       \* history: the tab was closed, paused or
                              \* switched off, and not asked to follow since

socketVars == <<ws, wsConnected, wsClosing, readyState>>
wishVars   == <<realtimeWanted, pausedByIdle, lastOpenStreamPayload>>
openVars   == <<pendingOpens, opens>>
viewVars   == <<view, shown>>
wireVars   == <<upstream, downstream, stream>>
tabVars    == <<present, inFront>>
switchVars == <<switching, switches>>
pageVars   == <<pageShows, switchVars, lent, orphaned>>

vars == <<tabVars, socketVars, wishVars, currentStreamId, wsReconnectTimer,
          openVars, viewVars, retries, wireVars, drops, pageVars, quiet>>

NoStream == [id |-> 0, request |-> 0, told |-> FALSE]

Init ==
  /\ present = TRUE /\ inFront = TRUE
  /\ ws = None /\ wsConnected = FALSE /\ wsClosing = FALSE
  /\ realtimeWanted = FALSE /\ pausedByIdle = FALSE
  /\ lastOpenStreamPayload = 0 /\ currentStreamId = 0
  /\ wsReconnectTimer = FALSE
  /\ pendingOpens = {} /\ opens = 0
  /\ view = 0 /\ shown = 0
  /\ readyState = [s \in Sockets |-> "closed"]
  /\ retries = {}
  /\ upstream = [s \in Sockets |-> << >>]
  /\ downstream = [s \in Sockets |-> << >>]
  /\ stream = [s \in Sockets |-> NoStream]
  /\ drops = 0
  /\ pageShows = "this" /\ switching = 0 /\ switches = 0
  /\ lent = {} /\ orphaned = {} /\ quiet = FALSE

Live(s) == readyState[s] \in {"connecting", "open"}
HasLiveSocket == ws \in Sockets /\ Live(ws)

(* A socket made in the background is not given to the page.               *)
PageIfInFront == IF inFront THEN "this" ELSE "other"

-----------------------------------------------------------------------------
(***************************************************************************)
(* wsSend of an open_stream request, with ensureWebSocket: over the socket *)
(* the tab has if that is live, otherwise over a new one, once it is open. *)
(* Whether the socket of another tab is live, or gets open, is not known   *)
(* here, nor what the server does with the request.                        *)
(***************************************************************************)
SendOverOpen(request) ==
  /\ ws \in Sockets /\ readyState[ws] = "open"
  /\ upstream' = [upstream EXCEPT ![ws] = Append(@, request)]
  /\ UNCHANGED <<socketVars, retries, downstream, stream>>

SendWhenOpen(request) ==
  /\ ws \in Sockets /\ readyState[ws] = "connecting"
  /\ retries' = retries \cup {<<ws, request>>}
  /\ UNCHANGED <<socketVars, wireVars>>

SendOverOther ==
  /\ ws = OtherWs
  /\ UNCHANGED <<socketVars, retries, wireVars>>

(* Nothing refers to s: a name for a socket that is created now. *)
IsNew(s) == readyState[s] = "closed" /\ \A r \in retries : r[1] # s

(* Mutant: a socket that is still connecting is not taken for one. *)
SendOverNewWhileConnecting(request) ==
  /\ ~(ws \in Sockets /\ readyState[ws] = "open")
  /\ \E s \in Sockets :
       /\ IsNew(s)
       /\ ws' = s
       /\ readyState' = [readyState EXCEPT ![s] = "connecting"]
       /\ retries' = retries \cup {<<s, request>>}
  /\ wsClosing' = FALSE
  /\ UNCHANGED <<wsConnected, wireVars>>

SendOverNew(request) ==
  /\ ~HasLiveSocket
  /\ \E s \in Sockets :
       /\ IsNew(s)
       /\ ws' = s
       /\ readyState' = [readyState EXCEPT ![s] = "connecting"]
       /\ retries' = retries \cup {<<s, request>>}
  /\ wsClosing' = FALSE
  /\ UNCHANGED <<wsConnected, wireVars>>

WsSend(request) ==
  /\ lastOpenStreamPayload' = request
  /\ \/ /\ SendOverOpen(request) \/ SendWhenOpen(request) \/ SendOverOther
        /\ pageShows' = IF inFront THEN "this" ELSE pageShows
     \/ /\ SendOverNew(request)
        /\ pageShows' = PageIfInFront
  /\ UNCHANGED <<switchVars, lent, orphaned>>

(***************************************************************************)
(* shutdownTabSocket: tell the server if the socket is open, close it and  *)
(* forget it.  What the page has is then nothing, or a socket that is of   *)
(* no use to another tab.                                                  *)
(***************************************************************************)
GoesQuiet ==
  /\ quiet' = (orphaned = {})
  /\ pageShows' = PageIfInFront
  /\ UNCHANGED <<switchVars, lent, orphaned>>

(* Mutant: the reconnect timer is not cleared. *)
ShutdownTabSocketKeepsTimer ==
  /\ wsClosing' = TRUE
  /\ ws' = None /\ wsConnected' = FALSE /\ currentStreamId' = 0
  /\ readyState' = [s \in Sockets |-> IF s = ws /\ Live(s) THEN "closing"
                                                      ELSE readyState[s]]
  /\ upstream' = [s \in Sockets |->
       IF s = ws /\ readyState[s] = "open" THEN Append(upstream[s], CloseStream)
                                           ELSE upstream[s]]
  /\ GoesQuiet
  /\ UNCHANGED <<wsReconnectTimer, retries, downstream, stream>>

(* Mutant: the socket is forgotten, but not closed. *)
ShutdownTabSocketForgets ==
  /\ wsReconnectTimer' = FALSE
  /\ wsClosing' = TRUE
  /\ ws' = None /\ wsConnected' = FALSE /\ currentStreamId' = 0
  /\ GoesQuiet
  /\ UNCHANGED <<readyState, upstream, retries, downstream, stream>>

ShutdownTabSocket ==
  /\ wsReconnectTimer' = FALSE
  /\ wsClosing' = TRUE
  /\ ws' = None /\ wsConnected' = FALSE /\ currentStreamId' = 0
  /\ readyState' = [s \in Sockets |-> IF s = ws /\ Live(s) THEN "closing"
                                                      ELSE readyState[s]]
  /\ upstream' = [s \in Sockets |->
       IF s = ws /\ readyState[s] = "open" THEN Append(upstream[s], CloseStream)
                                           ELSE upstream[s]]
  /\ GoesQuiet
  /\ UNCHANGED <<retries, downstream, stream>>

-----------------------------------------------------------------------------
(***************************************************************************)
(* syncStateToActiveTab, as far as sockets go: the active tab takes that   *)
(* of the page.  When the page shows another tab, that is one of the other *)
(* tab's or none; when this tab is the one the page shows, though another  *)
(* is active, it is the other that takes this one's.                       *)
(***************************************************************************)
TakeSocketOfPage ==
  \/ pageShows = "this" /\ UNCHANGED <<ws, wsConnected, orphaned, quiet>>
  \/ /\ pageShows = "other"
     /\ ws' \in {ws, OtherWs} \cup lent
     /\ wsConnected' \in BOOLEAN
     /\ orphaned' = (orphaned \cup {s \in {ws} \cap Sockets : Live(s)}) \ {ws'}
     /\ quiet' = (quiet /\ ws' = ws)

LendSocketOfPage ==
  lent' = IF pageShows = "this" THEN lent \cup ({ws} \cap Sockets) ELSE lent

SyncStateToActiveTab ==
  /\ \/ /\ present /\ inFront
        /\ TakeSocketOfPage
        /\ UNCHANGED lent
     \/ /\ ~inFront
        /\ LendSocketOfPage
        /\ UNCHANGED <<ws, wsConnected, orphaned, quiet>>
  /\ UNCHANGED <<tabVars, wsClosing, readyState, wishVars, currentStreamId,
                 wsReconnectTimer, openVars, viewVars, retries, wireVars,
                 drops, pageShows, switchVars>>

Switches == switches < MaxSwitches /\ switches' = switches + 1

-----------------------------------------------------------------------------
(* The user opens a file in realtime: openFile up to its await. *)
OpenFile ==
  /\ present /\ inFront
  /\ opens < MaxOpens
  /\ opens' = opens + 1
  /\ pendingOpens' = pendingOpens \cup {opens + 1}
  /\ UNCHANGED <<tabVars, socketVars, wishVars, currentStreamId,
                 wsReconnectTimer, viewVars, retries, wireVars, drops,
                 pageVars, quiet>>

(* openLatestRealtime up to its await: like OpenFile, but it notes the wish *)
(* for realtime first.                                                     *)
OpenLatestRealtime ==
  /\ present /\ inFront
  /\ opens < MaxOpens
  /\ opens' = opens + 1
  /\ pendingOpens' = pendingOpens \cup {opens + 1}
  /\ realtimeWanted' = TRUE /\ pausedByIdle' = FALSE
  /\ quiet' = FALSE
  /\ UNCHANGED <<tabVars, socketVars, lastOpenStreamPayload, currentStreamId,
                 wsReconnectTimer, viewVars, retries, wireVars, drops,
                 pageVars>>

(* The snapshot is there and the tab is still the active one. *)
OpenFileFollows(request) ==
  /\ request \in pendingOpens
  /\ present /\ inFront
  /\ pendingOpens' = pendingOpens \ {request}
  /\ view' = request /\ shown' = 0
  /\ realtimeWanted' = TRUE /\ pausedByIdle' = FALSE
  /\ WsSend(request)
  /\ wsReconnectTimer' = (wsReconnectTimer /\ ws' = ws)
  /\ quiet' = FALSE
  /\ UNCHANGED <<tabVars, currentStreamId, opens, drops>>

(* The snapshot is there, but the user has gone to another tab, or the page *)
(* shows another; it is not taken if the tab is gone, or has been given the *)
(* project of another tab since (app.js:557).                               *)
OpenFileInBackground(request) ==
  /\ request \in pendingOpens
  /\ ~inFront \/ pageShows = "other"
  /\ pendingOpens' = pendingOpens \ {request}
  /\ \/ /\ present
        /\ view' = request /\ shown' = 0
        /\ realtimeWanted' = FALSE /\ pausedByIdle' = FALSE
     \/ /\ ~present \/ switches > 0
        /\ UNCHANGED <<viewVars, realtimeWanted, pausedByIdle>>
  /\ UNCHANGED <<tabVars, socketVars, lastOpenStreamPayload, currentStreamId,
                 wsReconnectTimer, opens, retries, wireVars, drops, pageVars,
                 quiet>>

(* The snapshot cannot be read: the exception is shown to the user. *)
OpenFileFails(request) ==
  /\ request \in pendingOpens
  /\ pendingOpens' = pendingOpens \ {request}
  /\ UNCHANGED <<tabVars, socketVars, wishVars, currentStreamId,
                 wsReconnectTimer, opens, viewVars, retries, wireVars, drops,
                 pageVars, quiet>>

(* Another tab becomes the active one; if it is of another server the page *)
(* shows this one until the projects of that server have come.             *)
LeaveTab ==
  /\ present /\ inFront
  /\ inFront' = FALSE
  /\ TakeSocketOfPage
  /\ \/ pageShows' = "other" /\ UNCHANGED switches
     \/ UNCHANGED pageShows /\ Switches
  /\ UNCHANGED <<present, wsClosing, readyState, wishVars, currentStreamId,
                 wsReconnectTimer, openVars, viewVars, retries, wireVars,
                 drops, switching, lent>>

(* resumeTabRealtime: the file of a paused tab is opened again, if it is   *)
(* active.                                                                 *)
ResumeTabRealtime(active) ==
  IF pausedByIdle /\ realtimeWanted
  THEN /\ pausedByIdle' = FALSE /\ quiet' = FALSE
       /\ \/ /\ active /\ opens < MaxOpens
             /\ opens' = opens + 1
             /\ pendingOpens' = pendingOpens \cup {opens + 1}
          \/ ~active /\ UNCHANGED openVars
  ELSE UNCHANGED <<pausedByIdle, quiet, openVars>>

(* activateTab of a tab of the server in use, or of the tab that is active *)
(* already; of a tab of another server, up to the await of loadProjects;   *)
(* and the rest of that, which shows the tab whether it is active or not.  *)
ActivateTab ==
  /\ present
  /\ inFront' = TRUE
  /\ \/ inFront /\ UNCHANGED <<lent, pageShows>>
     \/ ~inFront /\ LendSocketOfPage /\ pageShows' = "this"
  /\ ResumeTabRealtime(TRUE)
  /\ UNCHANGED <<present, socketVars, realtimeWanted, lastOpenStreamPayload,
                 currentStreamId, wsReconnectTimer, viewVars, retries,
                 wireVars, drops, switchVars, orphaned>>

ActivateTabOfOtherServer ==
  /\ present /\ ~inFront
  /\ inFront' = TRUE
  /\ LendSocketOfPage
  /\ Switches /\ switching' = switching + 1
  /\ UNCHANGED <<present, socketVars, wishVars, currentStreamId,
                 wsReconnectTimer, openVars, viewVars, retries, wireVars,
                 drops, pageShows, orphaned, quiet>>

ProjectsLoadedShowTab ==
  /\ switching > 0 /\ switching' = switching - 1
  /\ pageShows' = "this"
  /\ ResumeTabRealtime(inFront)
  /\ UNCHANGED <<tabVars, socketVars, realtimeWanted, lastOpenStreamPayload,
                 currentStreamId, wsReconnectTimer, viewVars, retries,
                 wireVars, drops, switches, lent, orphaned>>

(* closeTab of the tab that was active: this one comes up, not resumed.    *)
NeighbourCloses ==
  /\ present /\ ~inFront
  /\ inFront' = TRUE
  /\ pageShows' = "this"
  /\ UNCHANGED <<present, socketVars, wishVars, currentStreamId,
                 wsReconnectTimer, openVars, viewVars, retries, wireVars,
                 drops, switchVars, lent, orphaned, quiet>>

(* The page shows another tab: the one that is active, or one for which    *)
(* activateTab has waited while it was left for this one.                  *)
OtherTabIsShown ==
  /\ pageShows = "this" /\ pageShows' = "other"
  /\ IF inFront THEN Switches ELSE UNCHANGED switches
  /\ UNCHANGED <<tabVars, socketVars, wishVars, currentStreamId,
                 wsReconnectTimer, openVars, viewVars, retries, wireVars,
                 drops, switching, lent, orphaned, quiet>>

(* Another tab closes a socket it shares with this one, or asks for the    *)
(* file it shows over it (a call of openFile too).                         *)
OtherTabClosesSocket(s) ==
  /\ s \in lent /\ Live(s)
  /\ lent' = lent \ {s}
  /\ readyState' = [readyState EXCEPT ![s] = "closing"]
  /\ upstream' = IF readyState[s] = "open"
                 THEN [upstream EXCEPT ![s] = Append(@, CloseStream)]
                 ELSE upstream
  /\ UNCHANGED <<tabVars, ws, wsConnected, wsClosing, wishVars,
                 currentStreamId, wsReconnectTimer, openVars, viewVars,
                 retries, downstream, stream, drops, pageShows, switchVars,
                 orphaned, quiet>>

OtherTabSends(s) ==
  /\ s \in lent /\ readyState[s] = "open"
  /\ opens < MaxOpens /\ opens' = opens + 1
  /\ upstream' = [upstream EXCEPT ![s] = Append(@, opens + 1)]
  /\ UNCHANGED <<tabVars, socketVars, wishVars, currentStreamId,
                 wsReconnectTimer, pendingOpens, viewVars, retries, downstream,
                 stream, drops, pageVars, quiet>>

(* The idle monitor finds the tab in the background for long enough. *)
PauseIdleTab ==
  /\ present /\ ~inFront
  /\ realtimeWanted /\ ~pausedByIdle
  /\ HasLiveSocket \/ ws = OtherWs
  /\ ShutdownTabSocket
  /\ pausedByIdle' = TRUE
  /\ UNCHANGED <<tabVars, realtimeWanted, lastOpenStreamPayload, openVars,
                 viewVars, drops>>

(* The realtime switch is turned off, or a search hit is opened. *)
FollowOff ==
  /\ present /\ inFront
  /\ ShutdownTabSocket
  /\ realtimeWanted' = FALSE /\ pausedByIdle' = FALSE
  /\ lastOpenStreamPayload' = 0
  /\ UNCHANGED <<tabVars, openVars, viewVars, drops>>

CloseTab ==
  /\ present
  /\ present' = FALSE /\ inFront' = FALSE
  /\ ShutdownTabSocket
  /\ UNCHANGED <<wishVars, openVars, viewVars, drops>>

-----------------------------------------------------------------------------
(***************************************************************************)
(* Events of the sockets.                                                  *)
(***************************************************************************)
OnOpen(s) ==
  /\ readyState[s] = "connecting"
  /\ readyState' = [readyState EXCEPT ![s] = "open"]
  /\ wsConnected' = (wsConnected \/ ws = s)
  /\ pausedByIdle' = (pausedByIdle /\ ws # s)
  /\ UNCHANGED <<tabVars, ws, wsClosing, realtimeWanted,
                 lastOpenStreamPayload, currentStreamId, wsReconnectTimer,
                 openVars, viewVars, retries, wireVars, drops, pageVars,
                 quiet>>

(* scheduleTabReconnect has something to reconnect. *)
MayReconnect ==
  /\ present /\ realtimeWanted /\ ~pausedByIdle
  /\ lastOpenStreamPayload # 0

(***************************************************************************)
(* onclose of socket s, whether or not the tab still uses s.  What was on  *)
(* its way is gone.                                                        *)
(***************************************************************************)
OnClose(s) ==
  /\ readyState' = [readyState EXCEPT ![s] = "closed"]
  /\ ws' = IF ws = s THEN None ELSE ws
  /\ wsClosing' = FALSE
  /\ wsConnected' = FALSE
  /\ wsReconnectTimer' = (wsReconnectTimer \/ (~wsClosing /\ MayReconnect))
  /\ upstream' = [upstream EXCEPT ![s] = << >>]
  /\ downstream' = [downstream EXCEPT ![s] = << >>]
  /\ stream' = [stream EXCEPT ![s] = NoStream]
  /\ pageShows' = IF ws = s /\ ~inFront THEN "other" ELSE pageShows
  /\ lent' = lent \ {s} /\ orphaned' = orphaned \ {s}
  /\ UNCHANGED <<tabVars, wishVars, currentStreamId, openVars, viewVars,
                 retries, switchVars, quiet>>

ClosingEnds(s) ==
  /\ readyState[s] = "closing"
  /\ OnClose(s)
  /\ UNCHANGED drops

Drop(s) ==
  /\ Live(s)
  /\ drops < MaxDrops
  /\ drops' = drops + 1
  /\ OnClose(s)

-----------------------------------------------------------------------------
(***************************************************************************)
(* Timers.                                                                 *)
(***************************************************************************)
(* Mutant: the interval ends when the socket is open, but sends nothing. *)
RetrySendNothing(s, request) ==
  /\ <<s, request>> \in retries
  /\ ws # s \/ readyState[s] \in {"open", "closed"}
  /\ retries' = retries \ {<<s, request>>}
  /\ UNCHANGED <<tabVars, socketVars, wishVars, currentStreamId,
                 wsReconnectTimer, openVars, viewVars, wireVars, drops,
                 pageVars, quiet>>

(* The interval of wsSend: it sends, gives up, or looks again later. *)
RetrySend(s, request) ==
  /\ <<s, request>> \in retries
  /\ ws # s \/ readyState[s] \in {"open", "closed"}
  /\ retries' = retries \ {<<s, request>>}
  /\ upstream' = IF ws = s /\ readyState[s] = "open"
                 THEN [upstream EXCEPT ![s] = Append(@, request)]
                 ELSE upstream
  /\ UNCHANGED <<tabVars, socketVars, wishVars, currentStreamId,
                 wsReconnectTimer, openVars, viewVars, downstream, stream,
                 drops, pageVars, quiet>>

(* Five seconds after wsSend its interval is cleared. *)
RetryExpires(s, request) ==
  /\ SlowConnect
  /\ <<s, request>> \in retries
  /\ readyState[s] = "connecting"
  /\ retries' = retries \ {<<s, request>>}
  /\ UNCHANGED <<tabVars, socketVars, wishVars, currentStreamId,
                 wsReconnectTimer, openVars, viewVars, wireVars, drops,
                 pageVars, quiet>>

(* The reconnect delay has passed; the tab may have a socket again. *)
Reconnect ==
  /\ wsReconnectTimer
  /\ wsReconnectTimer' = FALSE
  /\ \/ MayReconnect /\ WsSend(lastOpenStreamPayload)
     \/ /\ ~MayReconnect
        /\ UNCHANGED <<socketVars, lastOpenStreamPayload, retries, wireVars,
                       pageVars>>
  /\ UNCHANGED <<tabVars, realtimeWanted, pausedByIdle, currentStreamId,
                 openVars, viewVars, drops, quiet>>

-----------------------------------------------------------------------------
(***************************************************************************)
(* The server, and the messages it sends.                                  *)
(***************************************************************************)
IdsInUse ==
  {currentStreamId} \cup {stream[s].id : s \in Sockets}
    \cup UNION {{downstream[s][i].id : i \in DOMAIN downstream[s]}
                  : s \in Sockets}

ServerSteps == UNCHANGED <<tabVars, socketVars, wishVars, currentStreamId,
                           wsReconnectTimer, openVars, viewVars, retries,
                           drops, pageVars, quiet>>

(* openInternal, up to the first line the new tail delivers. *)
ServerOpens(s) ==
  /\ upstream[s] # << >> /\ Head(upstream[s]) # CloseStream
  /\ upstream' = [upstream EXCEPT ![s] = Tail(@)]
  /\ \E id \in StreamIds \ IdsInUse :
       /\ \A lower \in StreamIds \ IdsInUse : id <= lower
       /\ stream' = [stream EXCEPT ![s] =
                       [id |-> id, request |-> Head(upstream[s]), told |-> FALSE]]
  /\ UNCHANGED downstream
  /\ ServerSteps

ServerClosesStream(s) ==
  /\ upstream[s] # << >> /\ Head(upstream[s]) = CloseStream
  /\ upstream' = [upstream EXCEPT ![s] = Tail(@)]
  /\ stream' = [stream EXCEPT ![s] = NoStream]
  /\ UNCHANGED downstream
  /\ ServerSteps

ServerSays(s, type) ==
  /\ stream[s] # NoStream
  /\ Len(downstream[s]) < MaxLines
  /\ downstream' = [downstream EXCEPT ![s] =
       Append(@, [type |-> type, id |-> stream[s].id,
                  request |-> stream[s].request])]
  /\ UNCHANGED upstream
  /\ ServerSteps

ServerSaysFollowing(s) ==
  /\ ~stream[s].told
  /\ ServerSays(s, "following")
  /\ stream' = [stream EXCEPT ![s].told = TRUE]

ServerSaysLines(s) ==
  /\ ServerSays(s, "log_lines")
  /\ UNCHANGED stream

-----------------------------------------------------------------------------
(***************************************************************************)
(* handleWsMessage, of the tab that has made the socket.  Nothing comes    *)
(* over a socket that was told to close.                                   *)
(***************************************************************************)
Receive(s, type) ==
  /\ readyState[s] = "open"
  /\ downstream[s] # << >>
  /\ Head(downstream[s]).type = type
  /\ downstream' = [downstream EXCEPT ![s] = Tail(@)]
  /\ UNCHANGED <<tabVars, socketVars, lastOpenStreamPayload,
                 wsReconnectTimer, openVars, view, retries, upstream, stream,
                 drops, pageVars, quiet>>

OnFollowing(s) ==
  /\ Receive(s, "following")
  /\ realtimeWanted' = TRUE /\ pausedByIdle' = FALSE
  /\ currentStreamId' = Head(downstream[s]).id
  /\ UNCHANGED shown

(* Lines of another stream than the one last named are dropped. *)
IsForeign(id) == currentStreamId # 0 /\ id # currentStreamId

OnLogLines(s) ==
  /\ Receive(s, "log_lines")
  /\ shown' = IF IsForeign(Head(downstream[s]).id)
              THEN shown ELSE Head(downstream[s]).request
  /\ UNCHANGED <<realtimeWanted, pausedByIdle, currentStreamId>>

-----------------------------------------------------------------------------
UserStep ==
  \/ OpenFile \/ OpenLatestRealtime \/ LeaveTab \/ ActivateTab
  \/ ActivateTabOfOtherServer \/ NeighbourCloses
  \/ PauseIdleTab \/ FollowOff \/ CloseTab

(* What the other tabs and the page do with the sockets.                   *)
PageStep ==
  \/ ProjectsLoadedShowTab \/ SyncStateToActiveTab \/ OtherTabIsShown
  \/ \E s \in Sockets : OtherTabClosesSocket(s) \/ OtherTabSends(s)

OpenFileStep ==
  \E request \in pendingOpens :
    \/ OpenFileFollows(request) \/ OpenFileInBackground(request)
    \/ OpenFileFails(request)

SocketStep(s) ==
  \/ OnOpen(s) \/ ClosingEnds(s)
  \/ \E request \in Requests : RetrySend(s, request)
  \/ ServerOpens(s) \/ ServerClosesStream(s) \/ ServerSaysFollowing(s)
  \/ OnFollowing(s) \/ OnLogLines(s)

Next ==
  \/ UserStep \/ PageStep \/ OpenFileStep \/ Reconnect
  \/ \E s \in Sockets : SocketStep(s) \/ Drop(s) \/ ServerSaysLines(s)
  \/ \E s \in Sockets, request \in Requests : RetryExpires(s, request)

Spec == Init /\ [][Next]_vars

(***************************************************************************)
(* Fairness.  A connection that is asked for is made or, as often as the   *)
(* bound allows, broken; a close is completed; timers fire; the server     *)
(* answers; messages arrive.  The user and the log need not do anything.   *)
(***************************************************************************)
Fairness ==
  /\ WF_vars(OpenFileStep)
  /\ WF_vars(Reconnect)
  /\ \A s \in Sockets :
       /\ WF_vars(OnOpen(s) \/ ClosingEnds(s))
       /\ WF_vars(\E request \in Requests : RetrySend(s, request))
       /\ WF_vars(ServerOpens(s) \/ ServerClosesStream(s))
       /\ SF_vars(ServerSaysFollowing(s))
       /\ WF_vars(OnFollowing(s) \/ OnLogLines(s))

FairSpec == Spec /\ Fairness

-----------------------------------------------------------------------------
(* Types of the variables. *)
TypeOK ==
  /\ present \in BOOLEAN /\ inFront \in BOOLEAN
  /\ ws \in Sockets \cup {None, OtherWs}
  /\ wsConnected \in BOOLEAN /\ wsClosing \in BOOLEAN
  /\ realtimeWanted \in BOOLEAN /\ pausedByIdle \in BOOLEAN
  /\ lastOpenStreamPayload \in 0..MaxOpens
  /\ currentStreamId \in StreamIds \cup {0}
  /\ wsReconnectTimer \in BOOLEAN
  /\ opens \in 0..MaxOpens /\ pendingOpens \subseteq 1..opens
  /\ view \in 0..opens /\ shown \in 0..MaxOpens
  /\ readyState \in [Sockets -> {"connecting", "open", "closing", "closed"}]
  /\ retries \subseteq Sockets \X Requests
  /\ upstream \in [Sockets -> Seq(Requests \cup {CloseStream})]
  /\ downstream \in [Sockets -> Seq([type : {"following", "log_lines"},
                                     id : StreamIds, request : Requests])]
  /\ stream \in [Sockets -> [id : StreamIds, request : Requests,
                             told : BOOLEAN] \cup {NoStream}]
  /\ drops \in 0..MaxDrops
  /\ pageShows \in {"this", "other"}
  /\ switching \in 0..switches /\ switches \in 0..MaxSwitches
  /\ lent \subseteq Sockets /\ orphaned \subseteq Sockets
  /\ quiet \in BOOLEAN

(***************************************************************************)
(* A tab has one connection at a time: a socket it no longer knows is      *)
(* closed or being closed, unless syncStateToActiveTab has replaced it by  *)
(* that of the tab the page showed (app.js:603).                           *)
(***************************************************************************)
OneLiveSocket == \A s \in Sockets : Live(s) => s = ws \/ s \in orphaned

(***************************************************************************)
(* A tab that was closed, paused, or that the user switched off, has no    *)
(* connection and no timer that would make one until it is asked to follow *)
(* again: by the user, by the answer to an openFile that was under way, or *)
(* by the socket of another tab.  No other late event brings one back.     *)
(***************************************************************************)
QuietTabIsQuiet ==
  quiet => /\ ws = None /\ ~wsReconnectTimer
           /\ \A s \in Sockets : ~Live(s)

(***************************************************************************)
(* A broken connection is made again: when the reconnect timer is set, a   *)
(* stream is followed again some day, unless the tab is closed, paused or  *)
(* switched off, or has come to share a socket with another tab.           *)
(***************************************************************************)
Followed == ws \in Sockets /\ stream[ws].id = currentStreamId
                           /\ currentStreamId # 0
Shared == ws = OtherWs \/ ws \in lent

BrokenConnectionIsReplaced ==
  wsReconnectTimer ~> (Followed \/ ~MayReconnect \/ Shared)

(***************************************************************************)
(* Every connection that the tab has given up is closed in the end, with   *)
(* the stream the server has for it; one that syncStateToActiveTab has     *)
(* replaced is not given up, but lost.                                     *)
(***************************************************************************)
GivenUpSocketsClose ==
  \A s \in Sockets :
    (ws # s /\ s \notin orphaned /\ stream[s] # NoStream)
      ~> (stream[s] = NoStream)

(***************************************************************************)
(* What is added to the view comes from the file the view shows (lines of  *)
(* another stream are skipped, app.js:2666).                               *)
(***************************************************************************)
ViewShowsOneFile == shown \in {0, view}
=============================================================================
