# log-viewer in TLA+

log-viewer is a small web application. A Spring Boot server lists, reads and
searches log files of remote hosts over SSH, and follows one of them with a
remote `tail -F` whose lines it pushes to a browser page over a WebSocket. This
directory holds a specification of its concurrent parts, the configurations that
model-check it, and proofs about it.

Short names for the files that are cited most:

| name | file |
|---|---|
| LogFollowService | `src/src/main/java/com/example/logviewer/ws/LogFollowService.java` |
| LogWebSocketHandler | `src/src/main/java/com/example/logviewer/ws/LogWebSocketHandler.java` |
| app.js | `src/src/main/resources/static/app.js` |

`tlc -config X.cfg M` checks a run, `tlapm M.tla` checks the proofs of a module.

## 1. The system

### 1.1 Components

**Realtime streams** (LogFollowService, LogWebSocketHandler; modelled in part).
State: the map `activeStreams` from session id to `ActiveStream`; in each stream
`closed`, `lock`, `tailHandle`, `tailGeneration`, `currentFile`, the two
heartbeat and data clocks, the futures of its rotation check and its stale
cleanup. Operations: `openStream`/`switchFile` (both `openInternal`),
`closeStream`, `ping`, `closeSessionStream` from the two connection callbacks,
`startTail`, the rotation check every 5 s, the stale cleanup every 10 s,
`readTailLoop` on one thread per tail, `scheduleTailRestart`, `shutdown`.
Threads: the container's, four scheduler threads, one reader per tail.
Correct when no remote `tail -F` is left behind or doubled, a closed stream stays
closed, a reader never speaks for a tail that is gone, and the tail reads the
file the stream names.

**Realtime keyword filter** (`RealtimeLineFilter` in LogFollowService; modelled).
State: the last context lines, the number of lines still due after a match.
Operations: `accept`, `reset`. Correct when its output is that of
`grep -C`: every line near a match, once, in order, and memory is bounded.

**Browser tab and its WebSockets** (app.js; modelled in part). State per tab:
`ws`, `wsConnected`, `wsClosing`, `wsReconnectTimer`, `realtimeWanted`,
`pausedByIdle`, `lastOpenStreamPayload`, `currentStreamId`. Operations:
`openFile`, `openLatestRealtime`, `activateTab`, `closeTab`, the realtime
switch, the idle pause, `ensureWebSocket`, `wsSend` with its 80 ms retry interval,
the socket events, `scheduleTabReconnect`, `handleWsMessage`. Correct when a tab
has one connection at most and none once it was told to be quiet, a broken
connection comes back, and the view shows lines of its own file only.

**SSH client and remote tail** (`SshRemoteLogClient`, `RealtimeGrepCommandBuilder`).
No state of its own that outlives a call but the channel in a `TailStreamHandle`.
LogFollow models what the service sees of it: a channel opens or fails, ends by
itself, is closed.

**Remote log reading and search** (`RemoteCommandLogService`). Stateless between
calls. A search runs over the files of a scope under caps (20 files, 20 MiB, 200
hits, 8 s); a page reads a file backwards in byte ranges. Correct when chunks
tile the file, and a search returns the hits an unbounded one would, up to the
first cap, and says so.

**Log file names and their order** (`LogFileNameParser`, `LogFileOrdering`).
Pure. Correct when the order is total and the rotation check cannot go back.

**Path rules** (`PathGuard`, `LogPathExpression`, `ShellQuoter`). Pure.

**Server configuration store** (`ServerConfigService`,
`ServerConfigFileRepository`, `CredentialCipher`, and the form in app.js; modelled
in part). State: one YAML file, and the form of each page. Operations: load, save,
with masked passwords sent back by the page. Correct when a password never leaves
its server, a save is one step for everyone else, and what a crash leaves is not
taken for a configuration.

**Servers, projects and stars of the page** (app.js; modelled). State: the server
in use, which is kept in `state.serverId`, the select, localStorage and each tab;
the list of projects, which comes from the server; the starred projects of each
server in localStorage. Operations: start, change of the server, tabs of several
servers, a saved configuration, stars and their order, the default project.
Correct when the four places agree, and projects and stars on the page are those
of the server in use.

**Log view, following and realtime monitor** (app.js; modelled in part). State:
`logBuffer` and what was drawn of it, the place of the view, `autoFollow`, pending
animation frames, the keyword of the monitor. Operations: lines, earlier parts and
snapshots that come in, renders, scrolls of the user and of the page, applying and
stopping the monitor. Correct when the view shows the text, following ends only by
the user, new lines are seen, and the stream has the keyword that is shown.

**Page tabs, paging and search panel** (app.js; modelled in part). State: one
global `state`, and a copy of it in each tab that `syncStateToActiveTab` writes
and `loadStateFromTab` reads. Operations: open a project, switch and close tabs,
list and open files, `loadPrevChunk`, `searchLogs`, `openSearchHit`, the idle
pause. Each asks the server in the middle and goes on in whatever tab is active
by then. Correct when tabs never mix, the active tab has what the page shows, no
part of a file is read twice at a time, and an old search never replaces a newer.

**REST controllers, DTOs, start-up and configuration, markup**. No behaviour of
their own.

### 1.2 Interaction

```
 page tab --openFile--> REST snapshot (RemoteCommandLogService) --> SSH
    |                                                               ^
    |  open_stream / switch_file / close_stream / ping              |
    v                                                               |
 WebSocket --> LogWebSocketHandler --> LogFollowService --openTail--+
    ^                                    |   |  |
    |  following / log_lines /           |   |  +-- rotation check  \ scheduler
    |  file_switched / status            |   +----- stale cleanup   / threads
    +------------------------------------+--------- readers (one per tail)
                                                    through RealtimeLineFilter
```

The tab and the server share nothing but messages. Inside the server the threads
share `ActiveStream` (some fields under its lock, some volatile) and the map.
Two sessions share only thread pools, so one session is modelled. Two tabs share
what is displayed and, by way of `state.ws`, a socket: TabSocket has one tab with
its sockets and what the others may do to them, PageTabs all tabs with what they display, ServerPage all tabs with the servers they
belong to, LogView two tabs with how their text comes into the view. Pages share
the store of the configuration, and nothing else.

### 1.3 What is hard here

* The end of the connection may come between any two steps of an open: the
  callback can find the map empty, or a stream without its tail.
* `startTail` has three callers on three threads, and `close` a fourth; `closed`
  is set before the lock is taken, the tail is taken out under the lock and
  disconnected after it.
* Readers and restarts compare a generation without the lock.
* `currentFile` is written without the lock that `startTail` reads it under.
* The stale cleanup looks at its own stream and then closes by session id.
* In the page, events of a socket the tab no longer uses, retry intervals,
  timeouts and the reconnect timer all come after the state they were made for.
* In the page, the rest of a handler after its `await` finds another tab active,
  its own tab closed, paused or with another file, or a later search begun.
* A tab of another server is active before its page is shown: what the page has in
  between, text, project and socket, is that of the tab before, and every call of
  `syncStateToActiveTab` gives it to the new one. A list of projects may come when its
  server is no longer the one in use.
* Text is drawn in animation frames; in between it is replaced, cut at either end,
  or belongs to another tab. What comes may be in the text already: a snapshot, an
  earlier part and a stream are read independently. The browser reports every move of the view late, and
  the page must tell its own moves from the user's.
* A save of the configuration reads and writes in two visits of a lock, and the file
  is truncated before it is written.
* A keyword context of one match overlaps that of the next.

`PROJECT.json` lists each of these at its line, with the property that would see
it go wrong, and the hazards that no property covers yet.

## 2. Modules

| module | models | lines of code |
|---|---|---|
| `RealtimeLineFilter` | the keyword filter as a state machine over lines | LogFollowService 416-423, 572-634 |
| `LogFollow` | the streams of one session, all threads | LogFollowService 70-345, 420-470, 535-570 and LogWebSocketHandler |
| `TailLease` | the abstract promise to the remote host: what LogFollow implements | - |
| `TabSocket` | one tab with its sockets, timers, requests, and the server as it sees it | app.js, WebSocket and tab functions |
| `PageTabs` | all tabs of the page and what they show | app.js, tab, file, paging and search functions; the range reads of RemoteCommandLogService |
| `LogSearch` | one search: scopes, caps, what grep and the awk script print, how it is parsed | RemoteCommandLogService 148-188, 230-322, 361-512, 519-624, 676-748 |
| `ServerPage` | the server in use, its projects and stars, tabs of several servers | app.js 556-610, 718-839, 1187-1210, 1784-1862, 2104-2282, 2318-2392, 3529-3598, 3920-3939 |
| `ConfigStore` | the configuration form, the threads that save it, the file | app.js 1941-2102, 3578-3597, 3852-3856; ServerConfigService 38-58; ServerConfigFileRepository |
| `ConfigRegister` | the abstract promise of the store: what ConfigStore implements | - |
| `LogView` | how text comes into the view, following, the keyword of the monitor | app.js 439-452, 608-687, 884-900, 1655-1663, 2665-2721, 2768-2939, 3337-3526 |
| `MC*` | constants and symmetry of the TLC instances | - |
| `RealtimeLineFilterProofs`, `LogFollowProofs`, `TabSocketProofs`, `PageTabsProofs`, `ServerPageProofs`, `ConfigStoreProofs`, `LogSearchProofs`, `LogViewProofs` | theorems | - |

The exact lines of every definition are under `map` in `PROJECT.json`. The
definitions named "Mutant" in a comment are not part of the models: each is a
definition with a plausible error in it, kept to show that a property notices.

### 2.1 RealtimeLineFilter

`Accept(matched)` is `accept` for a line with or without the keyword,
`PassThrough` is `accept` of a stream that has none, `Reset` is `reset`, which
`startTail` calls. The text of a line is abstracted to its number. `recentLines`,
`nextSeq`, `lastEmittedSeq` and `pendingAfterLines` are the fields of the class;
`accepted`, `matches` and `timesShown` are histories that the properties are
about. `ResolveTailFilterOptions` clamps the context of a request.

### 2.2 LogFollow

Every thread has a program counter: `handlerPc` (message handler), `closePc` (one
for each thread that runs `closeSessionStream`: handler, callback, the stale
cleanup of each stream), `rotationPc` (one per stream), `tailPc` (the reader of a
tail and then its restart). A step is what a thread does between two points
where another can change what it depends on.

| code | in the model |
|---|---|
| `openInternal` | `OpenMessage`, `CloseStep(Handler)`, `RegisterStream`, `FirstTail*`, `ScheduleRotation`, `KeepRotation`, `ScheduleStale`, `KeepStale`; errors: `OpenThrows`, `FirstTailFailed` |
| `startTail` | `StartTailEnter` / `StartTailClosed`, then `StartTailOpened` / `StartTailFailed`, used by three callers |
| `closeSessionStream`, `ActiveStream.close` | `RemoveRegistered`, `MarkClosed`, `TakeTail`, `DisconnectTail` |
| rotation check | `RotationRun`, `RotationKeepsFile`, `RotationSwitch`, `RotationEnter`, `RotationOpened`, `RotationFailed`, `RotationThrows` |
| stale cleanup | `StaleRun`, `StaleRemove`, then the close steps |
| `readTailLoop` | `ReaderStart`, `ReaderEnd`, `ReaderStop`, `ReaderFinish` |
| `scheduleTailRestart` | `RestartRun`, `RestartEnter`, `RestartOpened`, `RestartFailed`, `RestartThrows` |
| connection callbacks | `Disconnect`, `ConnectionClosed`, `TransportError` |

A file is its place in the rotation order. A clock is left out where the code
compares it with a threshold: both outcomes are possible at any time.

### 2.3 TailLease

Three actions on remote tails: `Open` (once per tail, for a stream that has none
and is not released), `Close`, `Release` (a stream for good, with the tail it
has). `LogFollow` implements it with `state <- handleState`,
`owner <- tailStream` and `released` the streams that are closed and that no
thread is still closing.

### 2.4 TabSocket

An action is one callback of the page. `OpenFile` is `openFile` up to its
`await`; `OpenFileFollows`, `OpenFileInBackground` and `OpenFileFails` are its
rest. `WsSend` is `wsSend` with `ensureWebSocket`; a pair in `retries` is one of
its intervals. `OnOpen`, `OnClose` (in `ClosingEnds` and `Drop`), `Reconnect`,
`ShutdownTabSocket` and `Receive` are the event handlers and helpers of the same
purpose. `ServerOpens`, `ServerClosesStream`, `ServerSaysFollowing` and
`ServerSaysLines` are the server as seen from the page: LogFollow reduced to
"a request ends the stream of its socket and starts another". `view` and `shown`
record which request the displayed snapshot and the lines below it come from.

The socket of the page, `state.ws`, is that of the tab the page shows. This is not the
active tab while `activateTab` waits for the projects of another server (741), and
`SyncStateToActiveTab`, which any handler may run in that time, gives it to the active
tab (603). So the model says which tab the page shows (`pageShows`) and how many calls
of `activateTab` wait (`switching`). The other tabs are reduced to what they can do to
this one: they are shown and left (`LeaveTab`, `OtherTabIsShown`, `NeighbourCloses`), they
have a socket of their own that this tab may be given (`OtherWs`), and they may be given
one of this tab (`lent`), which they then close or send over (`OtherTabClosesSocket`,
`OtherTabSends`). `ActivateTab` is the case without a wait, `ActivateTabOfOtherServer` and
`ProjectsLoadedShowTab` the one with it. A live socket that the tab loses by 603 is
noted in `orphaned`. `quiet` notes that the tab was closed, paused or switched off; the
events that ask it to follow again take the note back: a click, the answer of an
`openFile` that was under way, the socket of another tab.

### 2.5 PageTabs

`page` is the global `state`, `saved[t]` the copy tab `t` has, both reduced to
the fields that an answer changes: project, whether its files are listed, current
file, text with its offsets, `loadingPrev`, the hits and the number of the last
search. A unit of text is named by project, file and position, so that a property
can tell where a text comes from. `realtimeFile[t]` is `lastRealtimeFile` while
`realtimeWanted` is set.

A handler that waits is a record in `calls`: its kind, the context it captured
(`captureActiveTabContext`) and what it asked for. Its rest is a pair of actions,
one for the case that the context is still the active one (`InContext`), one,
named `...Late`, for the case that it is not; `CallFails` is the exception.

| code | in the model |
|---|---|
| `activateTab`, `resumeTabRealtime` | `ActivateTab`, with `EnterQuietly`, `EnterAndResume` |
| `openProjectInTab` | `OpenProject` up to its first await, `GoOn` and `NextCall` after `resumeTabRealtime`, `FilesLoaded` after `loadFiles` |
| `closeTab` | `CloseTab` in its three cases |
| `loadFiles`, `openLatestRealtime` | `RefreshFiles`, `OpenLatestRealtime`, `FilesLoaded`, `FilesLoadedLate` |
| `openFile` | `OpenFile`, `FileOpened`, `FileOpenedLate` |
| `loadPrevChunk` | `LoadPrevChunk`, `PrevChunkLoaded`, `PrevChunkLoadedLate` |
| `openSearchHit`, `openFileAtOffset` | `OpenSearchHit`, `HitShown`, `HitShownLate` |
| `searchLogs` | `SearchLogs`, `SearchDone`, `SearchDoneOpensHit`, `SearchDoneLate` |
| idle monitor, realtime switch, clear, reset | `PauseIdleTab`, `SetRealtimeFollowOff`, `ClearViewer`, `ResetSearchPanel` |

`stray` notes the tabs that `FileOpenedLate` has given the project of another tab, because
the user had come there in the await before (794), for as long as they are open.

All tabs are of one server; ServerPage has several. Files do not
change while they are shown, and the thresholds of time (idle pause, cooldown of
the list) may have passed or not at any time.

### 2.6 LogSearch

`search` is sequential, but a long way from its arguments to its answer. The steps
are those at which it waits for a remote command: `List` (the listing and the
choice of the files in scope), `ScanFile` for each file, `CommandFails` for any of
them. `Reject`, `StopAtCap` and `AllScanned` are its other exits. A line is whether
the keyword occurs in it and the time its timestamp says; what a file holds is
chosen when a command reads it.

| code | in the model |
|---|---|
| `listLogFiles`, `LATEST_FIRST`, `selectTargetFiles`, `filterFilesByRecentDays` | `Listings`, `LatestFirst`, `SelectTargetFiles`, `FilterFilesByRecentDays` |
| `resolveRequestedTimeRange`, `normalizeEndBound` | `TimeRange`, `EndBound` |
| `grepFile` | `GrepOutput` (grep itself, external), `ParseGrepLine` folded over it by `GrepFile` |
| the awk script | `AwkLine` folded over the lines, with `FlushOpenHits`, `RememberBeforeContext`, `InTimeRange` |
| `searchFileByLogTimestamp` | `ParseAwkLine` folded over what the script prints |
| the loop of `search` | `WithinCaps`, `StopAtCap`, `ScanFile`, `AllScanned` |

The output is that of GNU grep. Where `rg` is installed the code prefers it; the
two may differ in the context after the last hit of `-m`. A time that does not
parse (`parseRequestedTime`) is refused before anything happens and is not among
the requests. Of the requests one has a range that begins later in the very second
in which it ends: its end is extended to the end of that second and so passes its
beginning, and the range is the whole day. `AroundTheClock`, the reference for what a
range means, counts from its beginning to the end of the last second and says the same.
The page asks for whole seconds.

### 2.7 ServerPage

`page` is the part of `state` that depends on the server, `select` the list box,
`storage` localStorage, `saved[t]` server and project of a tab. A handler is an
action up to its `await` of `loadProjects` or of the save, which puts a record into
`calls`; its rest is another action.

| code | in the model |
|---|---|
| `init`, `renderServerSelect`, `pickAvailableServerId` | `Init`, `RenderServerSelect`, `Picked` |
| `activateTab` | `ActivateTab`: `StayOnServer`, or `SwitchServer` and, after its await, `ProjectsLoadedShowTab` |
| `openProjectInTab` up to `loadFiles` | `OpenProjectInTab`, by a click (`OpenProject`) or by `openDefaultStarredProjectIfNeeded` (`ProjectsLoadedOpenDefault`) |
| `closeTab` | `CloseTab` in its three cases, with `ShowNeighbour` |
| the select, the refresh button, the save button | `ChangeServer`, `RefreshProjects`, `SaveConfig` and `ConfigSaved` |
| `loadStarredProjectPaths`, `toggleProjectStar`, `reorderStarredProject` | `StarsOf`, `Migrates`, `ToggleProjectStar`, `ReorderStarredProject` |

`closeOtherTabs` and `closeRightTabs` are several `CloseTab`. `SyncStateToActiveTab` stands
for the handlers of a frame, a line or a timer that do nothing else here, at any time.
Answers come in any order, and the user, other answers and failures may interrupt a
switch. Two histories say where the code then goes wrong: `overtaken`, from a list of
projects that came before one asked for earlier until a list is next asked for with
none to come, and `astray`, from a switch that ended on a tab that was no longer active
(749) to the next switch.

### 2.8 ConfigStore and ConfigRegister

The form of page `c` maps ids to what is in the password field; a configuration maps
ids to passwords. A password is the id it was typed for and a number, so that a
property can tell whose it is. `pc[c]` is the thread that handles the save of a
page: `LoadExisting`, then `RefuseSave` or `Truncate` and `Write`, then
`ConfigSaved` in the page. `WriteFails` is an `IOException` between the two,
`Crash` an end of the process at any point.

`ConfigRegister` knows neither lock nor file. `Ask`, `Read` and `Replace` are a save
that reads a whole configuration and replaces it by the rows it was sent, at one
instant; `Refuse`, `Break` and `Restart` are its other ends. The refinement takes the
file as it was when the lock was taken for as long as it is held.

### 2.9 LogView

`page` has the text, what was drawn of it (`rendered`, `shown`), the place of the
view (`top`), the place the page remembers (`lastTop`), the pending render and the
animation frames that were asked for; `saved[t]` is the copy of tab `t`. `Frame`
begins an animation frame: the scroll event, if the view has moved, and then the
callbacks, one action each. Between frames come lines (`LogLines`,
`LogLinesInBackground`), answers (`PrevChunk*`, `FileOpened`, `FileOpenedLate`) and
the user. Helpers that take a page and return one (`RenderLogBuffer`,
`ScrollToBottom`, `ScheduleLogBufferRender`, `Drawn`) have the names of the code.

| code | in the model |
|---|---|
| `scheduleLogBufferRender` and its callback | `ScheduleLogBufferRender`, `RenderFrame`, `Drawn` |
| `scrollToBottom` and its callback | `ScrollToBottom`, `SettleFrame` |
| `onLogScroll`, `loadPrevChunk` | `OnLogScroll`, `OnLogScrollLoadPrevChunk`, `PrevChunkLoaded`, `PrevChunkFails` and the late ones |
| `handleWsMessage`, log_lines | `LogLines`, `LogLinesInBackground` |
| `openLatestRealtime`, `openFile` | `OpenLatestRealtime`, `FileOpened`, `FileOpenedLate` |
| `handleWsMessage`, following | `StreamOpened` |
| `applyRealtimeMonitor`, `stopRealtimeMonitor`, `resumeRealtimeView` | `SetMonitor` with its two callers |

A snapshot without a keyword and an earlier part are reads of 65536 bytes, `Chunk` lines;
a snapshot with a keyword is the last 200 lines, `KeywordLines`, which may be more or
fewer (2777). It is made at any time between the request and the answer, and the
lines of the stream before go on until the new one is open, so a snapshot may have lines
that are still to come. `Overlaps` says when, and `mixed` notes the tabs whose text is
such a one, until their next snapshot.

## 3. What is checked

All invariants and properties are explained where they are defined. Each module has a
type invariant `TypeOK`; those of the filter, LogFollow, TabSocket, ServerPage,
ConfigStore and LogSearch are theorems, those of the other modules held in the
instances below and are not among the properties of the runs.

| run | instance | shows |
|---|---|---|
| `filter` | all patterns of 9 lines, contexts -1, 0, 1, 2, 3, 21 | output is exactly the context lines, in order, once; memory is the context |
| `follow_one_stream` | 1 stream, 2 tails, 2 files, fair | one tail at a time, generations are reliable, the tail reads the named file; after the end of the connection no tail is left, closes end |
| `follow_reopen` | 2 streams, 2 tails, 1 file | no tail is lost, close is final, the map holds live streams, TailLease is implemented |
| `tab` | 3 sockets, 2 opens, 1 drop, 1 wait for another server, slow connections | one live connection but for those lost at 603, none after the tab was told to be quiet |
| `tab_reconnect` | 2 sockets, 1 open, 1 drop, 2 waits for another server, fair | a broken connection is replaced; given up connections close, also where two tabs have one socket |
| `page` | 2 tabs, 2 projects, 2 files of 2 units, 2 waiting handlers, 5 clicks | tabs do not mix, page and active tab agree, one tab per project, one earlier part at a time, hits never go back; but for tabs gone astray at 794 |
| `search` | 7 files, 28 requests, 61 contents of up to 5 lines, caps of 2 files, 4 bytes, 3 hits, 2 context lines | hits are the first wanted lines within all caps, with exact context; an answer that leaves something out says so |
| `servers` | 2 servers with a project in common, 3 tabs, 2 stars, 2 waiting handlers, 5 clicks | the four places agree on the server, stars and projects are its own; but for a page gone astray at 749 and lists that overtake; answers leave the user alone |
| `store` | 2 pages, 3 servers, 2 typed passwords, 2 saves, errors and crashes at every step | passwords stay with their server; ConfigRegister is implemented |
| `view` | 2 tabs, 1 keyword, a file of 4 to 6 lines, reads of 2 and, with a keyword, 3, texts of 4, a view of 2, 3 clicks, fair | the view shows the text, lines stay in order but in a mixed text, only the user stops following, new lines are seen |
| `restart_lost`, `view_monitor` | small | disagreements, see section 5 |

**Bounds.** Nine lines hold two matches with contexts that are apart, touch and
overlap for contexts up to 3, and 21 is beyond the clamp at 20. In LogFollow the
second tail is the one that replaces the first while its reader is still on its
way, and the second file the one that the rotation check moves to (the theorems are about
any number of either); two streams are the closed one and the one
that replaces it, which is what a late step can confuse. A stream is opened
once in its life, so `Streams` also bounds the opens. When the tails of the
instance are used up, an open can only fail: one of the outcomes of the code. In
TabSocket a
second socket is the successor of the first, a third one the successor of that
while both predecessors are still closing. Two opens are one request and the one
that overtakes it. A stream id may be used again once nothing refers to it, and
six of them are never used up by that many sockets and messages. `MaxLines` = 1
message on its way is enough for a late one. `MaxSwitches` = 1 is one wait for another
server, in which the tab can lose its socket; two are the way in and the way out
again, in which it can get a socket and give one. The liveness run has one open, whose
connection breaks at any point; with two opens and no waits it passes as well.
In PageTabs two tabs are the one the user is in and the one an answer was meant for; a
third would only repeat either.
Two waiting handlers are one and the other that overtakes it. Five clicks open
two projects, leave the user three more, for instance to start a search, leave its
tab and return; answers, failures and pauses are not counted. Files of two units
with chunks of one have an earlier part, and a hit at an offset that the text does
or does not cover. In LogSearch five lines hold
two hits whose contexts overlap, touch or stand apart, and contents of two lines
also a line without a timestamp; two files of five are read at most, so the second
begins with the hits of the first and a third meets each cap. A clock of three
seconds of two milliseconds has ranges within the day, over midnight, and of one
second. In ServerPage a
project that both servers have tells a tab of one from a tab of the other, and a
project that one of them has tells the lists apart; three tabs are one for each and
an empty one; five clicks open a project on each server, switch between the tabs, and
interrupt the switch. Server and projects of a start are any, lists of servers change
by other pages. In ConfigStore two saves are one and the one
that overtakes it, by two pages or one; three ids are a server both forms have, one
that is removed and one that is added. In LogView a text of four lines is longer than
the view of two, is filled by two reads and cut by the next line at its head or by the
next read at its end; a read of three lines with a keyword reaches below one of two
without (the theorems are about any two sizes). Terminal states are legal
(the bounds are used up, the session is over, the tab is closed, the search has
answered), hence
`CHECK_DEADLOCK FALSE`.

**Fairness.** LogFollow: threads that can run do run, and remote calls end with a
result or an exception because the SSH client sets timeouts; the container reports
the end of a connection; with the connection gone no ping arrives, so the stale
time-out of a stream left behind passes. Nothing is assumed about messages, the
log, `ReaderEnd` (a tail may stay silent for ever), or the stale cleanup of a
connected stream. TabSocket: a connection that is asked for is made or breaks,
a close completes, timers fire, the server answers, messages arrive. The status
"following" needs strong fairness because lines share the bounded queue with it
and the log may be faster. Nothing is assumed about the user.
LogView: a page that is looked at gets its animation frames (`WF_vars(Browser)`); a line can still come before every frame, the user may always
go to another tab, and nothing is assumed of either. The liveness run of TabSocket
has no slow connections, because with them the property fails by the
step `RetryExpires`: the request that waited is dropped, and nothing follows. Neither
the other tabs nor the answers of `loadProjects` are assumed to do anything.

## 4. What is proved

The theorems hold for every set of streams and tails and every number of
rotations, for every log and context of the filter, for every number of sockets,
opens, broken connections and changes of a tab, for every set of tabs, projects and files and
every number of clicks and waiting handlers of the page, for every set of pages and
servers and every number of saves, for every directory, content, request and
configuration of the search, and for every size of a view, its text and its files. Every
safety invariant and action property of a run that passes is a theorem.

**RealtimeLineFilter.** `ShowsExactlyTheContext` is not inductive: what `accept`
returns depends on the deque and on two counters. The invariant `IInv` adds what
they hold: the deque the last `contextLines` lines, `lastEmittedSeq` the end of
the context of the newest match (or of the log, if that comes first),
`pendingAfterLines` the part of that context that has not been read. From it
follow `FilterTypes`, `FilterShowsExactlyTheContext`, `FilterMemoryIsBounded` and
`FilterNeverGoesBack`.

**LogFollow.** No property of section 3 is inductive by itself. The invariant is
`IInv == TypeOK /\ ControlInv /\ LockInv /\ TailInv /\ CloseInv`:

* `ControlInv`: threads work on streams that were created, and the handler
  resolves a file only while the map is empty;
* `LockInv`: a locked stream has no tail, and each of the three callers of
  `startTail` that is at `openTail` holds the lock alone. Without it two openers
  could each install a tail;
* `TailInv`: the tail of a stream is open and was opened for it; an open tail is
  the tail of its stream or in the hands of a closer; no tail has a generation
  beyond that of its stream, and the one that has the same is the stream's tail.
  This is why a reader may compare generations without the lock;
* `CloseInv`: no two closers have the same stream, none has the registered one,
  one past `mark` has a stream with `closed` set, one at `disconnect` has a stream
  that is neither locked nor has a tail; and a closed stream that nobody is closing
  has no tail and is not locked. This carries the fact that `closed` is set before
  the lock is taken through the steps of an `openTail` that is under way.

`LogFollowInvariant` proves it, one step per action. `StreamTypes`,
`NoTailIsLost`, `OneTailAtATime`, `CloseIsFinal`, `GenerationsAreReliable`,
`RegisteredIsLive` are consequences. `PutsReplaceNothing` is an action property
and uses that the handler has emptied the map before it resolves a file.
`TailsFollowTheFile` needs one more invariant, `FileInv`: while no switch of a stream is
on its way, whoever holds its lock opens the file it names; and the switch, when it is
at `openTail`, opens the file it has set itself. The write of `currentFile` outside the
lock does no harm because the switch that made it has yet to come through the lock.
`LogFollowImplementsTailLease` shows that the initial states map to
initial states and each step to `Open`, `Close`, `Release` or a stutter.

**TabSocket.** `TabSocketTypes` has two parts, because what the tab shows is taken
from messages and what is in the messages from what the tab has asked for: `Types`
carries both. `OneConnection` is inductive over the types: only `ensureWebSocket` makes a
socket the tab's, and only when the one it has is neither open nor being opened;
whoever else touches `ws` gives it up, but for `syncStateToActiveTab`, which leaves the
socket that was there to `orphaned`. `QuietStaysQuiet` is the invariant `QuietInv`: a
tab that is quiet has no socket, no timer, no live socket anywhere, and `MayReconnect` is
false, so that no late `onclose` sets a timer. A status "following" that was on
its way would make `MayReconnect` true: it cannot come, for it comes over an open
socket. Neither theorem has a condition on what the user or other tabs do.

**PageTabs.** None of the properties of the run `page` is inductive. An answer is
shown when tab and project are those it was asked for, so the invariant must know that
a handler which waits has the project its tab has. `IInv` is the conjunction of

* `PlaceInv`, `ViewInv`, `RealtimeInv`: the tabs are distinct and the active one is
  among them; page and copies of a tab that is not astray hold text and hits of their own
  project, and no hits newer than their last search; page and copy of the active tab have
  one project, astray or not; only an open tab with a project wants to follow a file
  (a paused tab without one would ask for the file of no project);
* `PageIsActiveTab` and `OneTabPerProject`;
* `CallInv`: a handler that waits has the project of its tab as long as that is open
  and not astray. `InContext` compares tab and project, so an answer that is shown in a
  tab that is not astray is one of its project;
* `PrevInv`: while an earlier part is on its way to an open tab, the flag of that tab,
  which the page has when the tab is active, is up.

The lemma `PageTabsInvariant` proves it by classes of steps: those that show something in
the active tab (`ShowInv`), change a copy in the background (`CopyInv`), show nothing
(`QuietInv`), enter another tab (`EnterInv`), or close or make one. The five properties of
the run follow, without an assumption on where the user is when an answer comes. What the
code does wrong at 794 makes one tab go astray: the theorems say that it harms no other
tab, and `OnePrevForATab` that it does not harm the one in this respect either.

**ServerPage.** The four places that name the server change in one step, and a switch to a
tab of another server changes them all before it waits. The invariant is `IInv == Base`
with the types of the histories and of `clicks`, and `Base` is

* `ServerInv`: a page that has listed projects, or shows one, has a server;
* `TabsInv`: the tabs are distinct, the active one is among them, a tab without a
  project is the only one, and one with a project has a server;
* `CallsInv`: a list is asked for a server, and then the page has one; `activateTab`
  waits for tabs that have a project;
* `EmptyInv`: a page that shows no project is that of a tab without one, for which
  nobody waits. This is why the default project, which is opened by an answer, never
  takes the user from a tab, even where the page is that of another tab than the active
  one;
* `InStep`, unless the page is astray: page, select, localStorage and active tab agree, and
  the stars are those stored for the server.

Each handler has a lemma that it keeps the invariant and the action properties
(`Good`), and says what it makes of the list of projects: clicks leave it and its
server alone or ask for a list of the new server (`ListStep`), answers bring a list or
ask for one (`AnswerStep`). From these `ListInv` follows while no list has overtaken
another and the page is not astray (`InOrder`): the last list that is waited for is of the
server in use. Answers in any order and interrupted switches are in the model and in
the theorems; `AnswersLeaveTheUserAlone` holds of them all. Stars are put in and taken
out by lemmas about sequences without duplicates (`RemoveFirstIs`, `InsertAtIs`,
`MovedIs`).

**ConfigStore.** `PasswordsStayWithTheirServer` is about the file alone, but what is
written to it comes from the form of a page and from a configuration that was read
some time before. The invariant is `IInv == TypeOK /\ ThreadInv /\ OwnInv`:

* `ThreadInv`: what each thread has at each of its steps: a request from the start
  to the answer, a configuration between read and write, and once it has truncated
  the file, one with a password for every masked row; and that a thread between
  truncation and write is the one that holds the lock, that `before` is kept then and
  at no other time, and that the file cannot be read then;
* `OwnInv`: every password, in the file, in what a thread has read and in every form
  and request, is the mask or was typed for its server.

It is proved step by step, and gives `TypeCorrect` and `PasswordsStay`.
`ImplementsRegister` maps each step: taking the lock and truncating is a stutter,
since the register shows `before` from then on; writing is `Replace`; an error and a
crash after truncation are `Break` and a `Restart` that loses the value.

**LogSearch.** What a command prints is a fold over the lines of a file, what the
service makes of it a fold over what is printed. Neither says by itself what the hits
are: the parser sees what is printed for a line before the next line is searched, so
the two folds go on together (`GrepParsedAppend`, `AwkParsedAppend`), and the argument is
an induction over the lines of the file.

* `GrepInv` is what the parser has of grep's output after line `i`: the hits are the
  first lines with the keyword and have exactly their context so far, the last hit is the
  current one as long as its context may go on, and the lines kept in `rolling` end
  with line `i` if that was printed and reach back to the line with the keyword before
  it or as far as the context does. `GrepGoesOn` is the step, in its three cases: a line
  that is not printed, a line of context, a hit. That `--` empties `rolling` is needed
  where two contexts neither touch nor overlap (`RollingIsReady`).
* `AwkInv` is the same for the script: before the limit is reached the last lines are
  kept for the next hit, and each hit lacks the lines after it that `afterRemaining`
  counts; once it is reached nothing changes (`AwkHasExited`).
* `AwkSelectsWanted` compares the condition of the script, two comparisons and a case for
  midnight, with the reference, a distance on the clock (`ClockIsLinear`).

From these follows for one file `FileSearched` (`GrepFileSearched`, `AwkFileSearched`):
the first wanted lines up to the limit, each with exactly its context. For the search
the inductive invariant is `SearchInv == ScanInv /\ FilesInv /\ HitsInv`:

* `ScanInv`: before the first file is read there are no hits, at least one hit is
  allowed (`MaxHitsPositive`) and at least one file, so no cap can stop the search;
* `FilesInv`: the files read and those still to read are the files in scope, each once,
  whatever listing the search has begun with (`ScopeIsOne`);
* `HitsInv`: the hits are the first wanted lines of the files read, with their context,
  and as long as the search goes on all of them; when there are as many as allowed the
  last one is of the last file (`ScanKeepsHits`, `ScanKeepsContext`).

`SearchFindsTheFirst`, `SearchShowsTheContext`, `SearchSaysWhatItLeavesOut`,
`SearchHoldsItsCaps`, `SearchReadsOneFile` and `SearchTypes` are consequences. TLC has
checked `FilesInv` and `HitsInv` on the instance of the run first.

**LogView.** That the text of a tab stays in order depends on what is still on its way:
an earlier part goes in front of whatever text the tab has when it comes, which may be
another snapshot than the one it was asked for, or none. The invariant is `IInv == Types
/\ PageIsTheTab /\ TabsOK /\ CallsOK(calls)`:

* `TabsOK`: a text has lines of its file, and its `startOffset` leaves a whole read before
  the end of the file. Unless the tab is mixed its lines are in order, after
  `startOffset` and up to the one where the stream goes on (`Reach`), and an earlier part
  that is awaited ends before all of them; `loadingPrev` is set for it. A new snapshot
  that does not overlap keeps this: the stream that is to come goes on where it ends or
  later, and one that is a read of the end begins no earlier than where one began
  before, for files only grow. One that does overlap makes the tab mixed, and the
  next one that does not ends that, for it replaces the text as a whole;
* `PageIsTheTab`: page and copy of the active tab have the same text; and `lastTop` is
  where the view is, unless the user has moved it. Every function that sets `scrollTop`
  or draws does this, so `onLogScroll`, which compares the two, turns following off for
  the user only.

The texts are handled by lemmas (a part of a text, the next line, the end of the file,
an earlier part in front: `PartOK`, `NextLineOK`, `SnapshotOK`, `PrevOK`), the page by
one lemma for each function that changes it. `LinesInOrder`, `TextsFromTheFiles` and
`FollowingEndsWithTheUser` follow for any sizes of read, text, view and file, with
`LogViewAssumption` (the sizes are positive) alone: a read with a keyword may be longer or
shorter than one without.

`TheViewShowsTheText` needs another invariant beside `IInv`. `ViewInv` says that the view
has the lines of the text it was drawn from, and that this is the text of the page unless
a render is awaited, which covers the changes of the text that do not draw it. A render
that finds the text drawn before at the head of the new one (`CanAppend`) adds the rest,
with an empty line; `Lines` leaves the empty lines out and is a recursive function, of
which `LinesConcat` is proved by induction: the lines of two views put together are those
of the one and then those of the other (`DrawnView`). That no line of a text is an empty
one comes from `IInv`. Every other way to change the text draws all of it
(`RenderLogBufferView`).

The only assumptions are `LogFollowAssumption` (the names of the threads are distinct, `None` is no stream or tail, there is a file), `FilterAssumption`
(contexts are integers, the number of lines is a natural number),
`TabSocketAssumption`, `PageTabsAssumption` and `ServerPageAssumption` (`None` and the
markers are none of the things they stand beside, bounds are natural numbers, a read
has at least a unit, a list of stars has each project once),
`LogViewAssumption` (above), `ConstantsAssumption` of LogSearch (the caps are numbers,
those on files and hits positive; a request names a number of hits or none) and
`DataAssumption` (a directory has finitely many files, none of a size below zero; the
times of lines and requests are times of a day or `None`, which is no number; no second
goes on into the next day), and `ConfigStoreAssumption` (the
mask, an empty field, an unreadable file and `None` are neither passwords nor
configurations nor each other where they could be confused); TLC evaluates them in
the runs.

**Only model-checked.** The liveness properties (`DisconnectReleasesTails`,
`EveryCloseEnds`, `BrokenConnectionIsReplaced`, `GivenUpSocketsClose`,
`NewLinesAreSeen`), since liveness under fairness and `ENABLED` are out of the prover's
reach, and the type invariants of PageTabs and LogView as they are written, of which the
proofs carry what they need. The library's induction theorems take an operator as their
parameter, which no installed prover can instantiate; the inductions here are over the
set of the numbers that a statement holds for (`Induction`), from the fact that `<` on
the naturals is well founded, and a fold is replaced by the function that goes through
its sequence step by step (`FoldTrace`).

## 5. Where code and intention disagree

1. `restart_lost`: a restart whose `openTail` fails is meant to be tried again,
   but the condition compares a generation that `startTail` has moved on. The
   stream stays registered, connected and silent.
2. `view_monitor`: a new keyword of the realtime monitor, or its stop, is meant to
   reopen the stream, through `resumeRealtimeView`. When the user has scrolled up, that
   function takes the call for one to go back to the end (app.js:445), and the
   stream keeps the keyword it had, while the page shows the new one as monitored. The
   run has `Patient` set: without it two answers of `openFile` in the wrong order have
   the same effect.

The modules state six more promises that the code breaks. They are not among the runs; naming the definition in the configuration shows the counterexample:

* `StaleCleanupClosesItsOwn` (LogFollow, as a `PROPERTY` of MCLogFollowReopen.cfg): the
  stale cleanup tests its own stream and closes the one the session has by then, which
  a reopen may have replaced (LogFollowService:327, the log line before it names the
  stream that was tested).
* `ViewShowsOneFile` (TabSocket, as an `INVARIANT` of MCTabSocket.cfg):
  between the snapshot of a new file and the status "following", lines of the old
  stream pass the stream test (app.js:2666) and are added below the other file.
* `KeptTextIsOfItsFile` (PageTabs, as a `PROPERTY` of MCPageTabs.cfg): the text is
  kept for a hit of the current file only (app.js:3249), but the current file has been
  set to that of the hit before the comparison (3264), so a hit of another file at an
  offset the text covers is shown in the wrong text.
* `TabKeepsItsProject` (PageTabs, as a `PROPERTY` of MCPageTabs.cfg): `openProjectInTab`
  goes on after a paused tab has been resumed and writes its project into whatever tab is
  active by then (794; after its second await it does look, 800). That tab, which goes
  astray, may then show text of another project, and a project may have two tabs. Without
  the exception of `stray` `TabsDoNotMix` and `OneTabPerProject` fail too.
* `TabKeepsItsProject` (ServerPage, as a `PROPERTY` of MCServerPage.cfg): `activateTab`
  makes the tab of another server active and then waits for its projects (741) with
  the page of the tab before; a click (731), a frame (3504) or a line (2684) in between
  copies that page into the new tab. And the rest shows the tab it was called for,
  whichever is active (749): the page then has the server of that tab and the stars of
  another, which the next click on a star stores for the wrong server. The properties
  of `servers` except such a page (`astray`) until the server is next chosen.
* `NoLineTwice` (LogView, as an `INVARIANT` of MCLogView.cfg): lines that a snapshot has
  already come again, by the stream before, which goes on until the new one is open
  (2666), or by an earlier part that was asked for before (2885), which 200 long lines
  of a snapshot with a keyword may reach below. `LinesStayInOrder` excepts the text of
  such a snapshot (`mixed`).

Further disagreements were met that no definition states:

* `onclose` of an earlier socket marks a tab with an open new socket as not connected
  (app.js:2548), and a request that waits more than five seconds for its connection
  is dropped (2604).
* A `loadPrevChunk` that fails while another tab is active leaves its own tab
  unable to load earlier parts (2891). One that succeeds puts the view where it was at
  the call (2887), although lines may have come or the user may have scrolled since.
* While `activateTab` waits for the projects of another server, `syncStateToActiveTab`
  also gives the tab that was entered the socket of the tab that was left (603), as the
  page still has it. A live socket of its own is then lost: nothing closes it, its lines go
  on coming, and whatever is sent goes over the other. `OneLiveSocket` excepts the
  sockets that are lost in this way (`orphaned`), and the two tabs then share one, which
  either closes under the other.
* The answer of an `openFile` that was under way when realtime was switched off makes a
  connection and follows again (2830-2850): `QuietTabIsQuiet` is about a tab with no such
  answer to come, from when it comes.
* `loadProjects` does not look whether its server is still the current one (2153): of
  two lists the one that comes last stays. `ProjectsAreOfTheServer` excepts a page where
  a list has overtaken another (`overtaken`) until lists are asked for anew.
* A render that is pending when the user scrolls up goes to the end all the same and
  turns following on again (3364); the frame of an earlier `scrollToBottom` (3499) and
  the scroll event after a change of the tab do the same to a tab that was not
  followed, for the place of the view is not kept with the tab.
* Each addition to a text that was drawn before ends in an empty line, which the whole
  text has only once (3357 and 3382): `shown` in LogView has it as `Blank`.
* A text cut at its head keeps its `startOffset` (885, 3488), so the next earlier part
  leaves a gap.
* A crash, or an error of the disk, between truncating and writing the configuration
  leaves a file that no load can read, the load at the beginning of a save included
  (ServerConfigService:41): the page cannot repair it. Of two overlapping saves the later
  may put back a password that the other has just replaced (41 and 55).

`LogSearch` shows two limits of an answer that are no errors by the code's own
standard: a search in a clock range ends at the hit that reaches the limit, so the
last hits lose context after them, and the single hit of a search without a
keyword always has none; and an answer with exactly the allowed hits is marked as
partial even when there are no more.

## 6. Not modelled

* `LogFollowService.shutdown()`: it ends the application.
* The delivered lines: batches, their order and the file name they are labelled
  with, the monitor of the session.
* The clocks. Every comparison with a threshold may have either outcome, which
  covers all real schedules but cannot say how long something takes.
* The number of scheduler threads: each task has a thread of its own.
* Rendering, wording of messages, the heartbeat (it only feeds the clocks).
* `file_switched` in the page, the file filter, the list of hits of the realtime
  monitor, the focused line of a search hit.
* Of a server in the configuration, what is neither id nor password; encryption.
* The path rules and file names: pure functions of strings, which a model would have
  to put together character by character.
* SSH, REST controllers, start-up: I/O and forwarding.

## 7. What could follow

1. `LogDelivery`: the lines of a tail through filter and batches to the client
   across a rotation; composes RealtimeLineFilter with the generation protocol of
   LogFollow. Abstract specification: each line is delivered at most once, in
   order, under the name of its file.
2. The clocks behind idle and heartbeat, in discrete time.
3. Theorems: the type invariants of PageTabs and LogView; that the retries of
   `restart_lost` are dead code.
