------------------------------- MODULE PageTabs -------------------------------
(***************************************************************************)
(* The tabs of the browser page (app.js) and what they show: a project, a  *)
(* file, a part of its text, the hits of a search.                         *)
(*                                                                         *)
(* The page works on one global object `state`, here `page`.  Each tab     *)
(* keeps a copy: syncStateToActiveTab writes the page into the active tab, *)
(* loadStateFromTab reads it back.  Every handler that asks the server for *)
(* something waits in the middle, and what it does with the answer depends *)
(* on which tab is active by then.  An action is a handler up to its       *)
(* await, or the rest of it; calls are the handlers that wait.             *)
(*                                                                         *)
(* A text is a sequence of units that name the project, the file and the   *)
(* position they come from, a project stands for server, path and log      *)
(* type, and every project has the same file names.  The file filter is    *)
(* empty and no realtime keyword is set.  The sockets of a tab and the     *)
(* lines they bring are the subject of TabSocket.                          *)
(***************************************************************************)
EXTENDS Naturals, SequencesExt

CONSTANTS Tabs,        \* bound: the tabs that are alive at a time
          Projects, Files,
          Latest,      \* the file a project lists first
          None,
          Size,        \* the units of a file
          Chunk,       \* the units of a read, 65536 bytes
          MaxText,     \* the units a view may hold, 1000000 characters
          MaxCalls,    \* bound: the handlers that wait at a time
          MaxSearches, \* bound: the searches of a tab
          MaxClicks    \* bound: what the user does

OpenNewest == "newest"

ASSUME PageTabsAssumption ==
  /\ None \notin Tabs \cup Projects \cup Files
  /\ OpenNewest \notin Projects \cup {None}
  /\ Latest \in Files
  /\ {Size, Chunk, MaxText, MaxCalls, MaxSearches, MaxClicks} \subseteq Nat
  /\ Chunk > 0

VARIABLES
  tabs,          \* the ids of the tabs, from left to right
  activeTabId,
  page,          \* the fields of `state` a tab has a copy of
  saved,         \* these copies
  realtimeFile,  \* lastRealtimeFile of each tab that wants realtime
  pausedByIdle,  \* of each tab
  calls,
  clicks,
  stray          \* history: the tabs that openProjectInTab, resumed after its
                 \* await, has given the project of another tab

vars == <<tabs, activeTabId, page, saved, realtimeFile, pausedByIdle, calls,
          clicks, stray>>

Positions == 0..Size
Units == [project : Projects, file : Files, pos : Positions]
Hits == [project : Projects, request : 1..MaxSearches]

(* `listed` says that the list of files of the project is there. *)
EmptyView ==
  [project |-> None, listed |-> FALSE, file |-> None,
   text |-> << >>, start |-> 0, end |-> 0, loadingPrev |-> FALSE,
   hits |-> None, request |-> 0]

IsOpen(t) == \E i \in DOMAIN tabs : tabs[i] = t

(* Nothing refers to t: a name for a tab that is created now. *)
IsNew(t) == ~IsOpen(t) /\ \A c \in calls : c.tab # t

Init ==
  \E t \in Tabs :
    /\ tabs = <<t>> /\ activeTabId = t
    /\ page = EmptyView
    /\ saved = [u \in Tabs |-> EmptyView]
    /\ realtimeFile = [u \in Tabs |-> None]
    /\ pausedByIdle = [u \in Tabs |-> FALSE]
    /\ calls = {}
    /\ clicks = 0
    /\ stray = {}

-----------------------------------------------------------------------------
(***************************************************************************)
(* The server's answers: a range of a file (readTailBytes, readChunk,      *)
(* readPrevChunk), where `lo` and `hi` are startOffset and endOffset.      *)
(***************************************************************************)
Smaller(a, b) == IF a <= b THEN a ELSE b
Less(a, b) == IF a <= b THEN 0 ELSE a - b

TailRange == [lo |-> Less(Size, Chunk), hi |-> Size]
RangeFrom(from) == [lo |-> from, hi |-> Smaller(Size, from + Chunk)]
PrevRange(before) ==
  [lo |-> Less(Smaller(before, Size), Chunk), hi |-> Smaller(before, Size)]

TextOf(project, file, range) ==
  [i \in 1..(range.hi - range.lo) |->
     [project |-> project, file |-> file, pos |-> range.lo + i - 1]]

(* trimViewerIfNeeded keeps the head of a text that grew at the front. *)
KeepHead(text) == SubSeq(text, 1, Smaller(Len(text), MaxText))

-----------------------------------------------------------------------------
(***************************************************************************)
(* The page and its tabs.                                                  *)
(***************************************************************************)
(* The page becomes v, and syncStateToActiveTab. *)
Sync(v) == saved' = [saved EXCEPT ![activeTabId] = v]
Show(v) == page' = v /\ Sync(v)

(* Mutant: the flag loadingPrev of the tab is not restored. *)
LoadedNotLoading(v) ==
  [v EXCEPT !.file = IF v.listed /\ @ = None THEN Latest ELSE @,
            !.loadingPrev = FALSE]

(* loadStateFromTab: a list of files has one that is selected. *)
Loaded(v) == IF v.listed /\ v.file = None THEN [v EXCEPT !.file = Latest]
                                          ELSE v

(* Mutant: the context is not looked at after the await. *)
InContextAlways(c) == TRUE

(* isActiveTabContext: the page is where it was when c was called. *)
InContext(c) == activeTabId = c.tab /\ page.project = c.project

(* The tab of c is still there, and shows the same project. *)
TabOf(c) == IsOpen(c.tab) /\ saved[c.tab].project = c.project

Numbers == 1..MaxCalls
FreeNumbers == Numbers \ {c.number : c \in calls}
NextNumber == CHOOSE n \in FreeNumbers : \A m \in FreeNumbers : n <= m

(* A handler that waits for the server; its number tells it from others. *)
Call(kind, t, project, file, at) ==
  [kind |-> kind, number |-> 0, tab |-> t, project |-> project,
   file |-> file, at |-> at, then |-> None]

Wait(c) ==
  /\ FreeNumbers # {}
  /\ calls' = calls \cup {[c EXCEPT !.number = NextNumber]}

Returns(c) == calls' = calls \ {c}
Continues(c, d) == calls' = (calls \ {c}) \cup {[d EXCEPT !.number = c.number]}

-----------------------------------------------------------------------------
(***************************************************************************)
(* activateTab.  A tab that was paused reads its file again                *)
(* (resumeTabRealtime); `then` is the project its caller goes on with.     *)
(***************************************************************************)
IsPaused(t) == pausedByIdle[t] /\ realtimeFile[t] # None

View(t) == IF t = activeTabId THEN page ELSE Loaded(saved[t])

Enter(t, v) ==
  /\ activeTabId' = t
  /\ page' = v
  /\ saved' = [saved EXCEPT ![activeTabId] = page, ![t] = v]

EnterQuietly(t) ==
  /\ ~IsPaused(t)
  /\ Enter(t, View(t))
  /\ UNCHANGED pausedByIdle

EnterAndResume(t, then) ==
  /\ IsPaused(t)
  /\ Enter(t, [View(t) EXCEPT !.file = realtimeFile[t]])
  /\ pausedByIdle' = [pausedByIdle EXCEPT ![t] = FALSE]
  /\ Wait([Call("open", t, saved[t].project, realtimeFile[t], 0)
             EXCEPT !.then = then])

ActivateTab(t) ==
  /\ IsOpen(t)
  /\ \/ t # activeTabId /\ EnterQuietly(t) /\ UNCHANGED calls
     \/ EnterAndResume(t, None)
  /\ UNCHANGED <<tabs, realtimeFile>>

(***************************************************************************)
(* closeTab, for the tab at position i; the tab to its left becomes active *)
(* and when there is none a new empty one is made.  Nothing is kept of the *)
(* tab that is gone, whose id may come again.                              *)
(***************************************************************************)
LeftOf(i, rest) == IF i > 1 THEN rest[i - 1] ELSE rest[1]

CloseBackgroundTab(i) ==
  /\ tabs[i] # activeTabId
  /\ tabs' = RemoveAt(tabs, i)
  /\ UNCHANGED <<activeTabId, page, saved>>

CloseActiveTab(i) ==
  /\ tabs[i] = activeTabId /\ Len(tabs) > 1
  /\ tabs' = RemoveAt(tabs, i)
  /\ activeTabId' = LeftOf(i, tabs')
  /\ page' = Loaded(saved[activeTabId'])
  /\ saved' = [saved EXCEPT ![activeTabId'] = Loaded(@)]

CloseLastTab ==
  /\ Len(tabs) = 1
  /\ \E u \in Tabs :
       /\ IsNew(u)
       /\ tabs' = <<u>> /\ activeTabId' = u
       /\ saved' = [saved EXCEPT ![u] = EmptyView]
  /\ page' = EmptyView

CloseTab(t) ==
  /\ \E i \in DOMAIN tabs :
       /\ tabs[i] = t
       /\ CloseBackgroundTab(i) \/ CloseActiveTab(i) \/ CloseLastTab
  /\ realtimeFile' = [realtimeFile EXCEPT ![t] = None]
  /\ pausedByIdle' = [pausedByIdle EXCEPT ![t] = FALSE]
  /\ stray' = stray \ {t}
  /\ UNCHANGED calls

-----------------------------------------------------------------------------
(***************************************************************************)
(* openProjectInTab: a project of the tree is shown in the first tab that  *)
(* has it, or in the active one when that is empty, or in a new one, with  *)
(* loadFiles after it, and with the newest file if the tab had none.       *)
(***************************************************************************)
TabHas(t, p) == IsOpen(t) /\ saved[t].project = p
HasTab(p) == \E t \in Tabs : TabHas(t, p)

FirstTabWith(t, p) ==
  \E i \in DOMAIN tabs :
    /\ tabs[i] = t /\ saved[t].project = p
    /\ \A j \in DOMAIN tabs : j < i => saved[tabs[j]].project # p

LoadFiles(t, p, file) ==
  [Call("files", t, p, None, 0)
     EXCEPT !.then = IF file = None THEN OpenNewest ELSE None]

OpenProjectOfTab(p, t) ==
  /\ FirstTabWith(t, p)
  /\ \/ EnterQuietly(t) /\ Wait(LoadFiles(t, p, saved[t].file))
     \/ EnterAndResume(t, p)
  /\ UNCHANGED tabs

OpenProjectInEmptyTab(p) ==
  /\ ~HasTab(p) /\ saved[activeTabId].project = None
  /\ Show([page EXCEPT !.project = p])
  /\ Wait(LoadFiles(activeTabId, p, None))
  /\ UNCHANGED <<tabs, activeTabId, pausedByIdle>>

(* Mutant: the tab that has the project already is not looked for. *)
OpenProjectInNewTabAlways(p, t) ==
  /\ saved[activeTabId].project # None
  /\ IsNew(t)
  /\ tabs' = Append(tabs, t)
  /\ activeTabId' = t
  /\ page' = [EmptyView EXCEPT !.project = p]
  /\ saved' = [saved EXCEPT ![activeTabId] = page,
                            ![t] = [EmptyView EXCEPT !.project = p]]
  /\ Wait(LoadFiles(t, p, None))
  /\ UNCHANGED pausedByIdle

OpenProjectInNewTab(p, t) ==
  /\ ~HasTab(p) /\ saved[activeTabId].project # None
  /\ IsNew(t)
  /\ tabs' = Append(tabs, t)
  /\ activeTabId' = t
  /\ page' = [EmptyView EXCEPT !.project = p]
  /\ saved' = [saved EXCEPT ![activeTabId] = page,
                            ![t] = [EmptyView EXCEPT !.project = p]]
  /\ Wait(LoadFiles(t, p, None))
  /\ UNCHANGED pausedByIdle

OpenProject(p) ==
  /\ \/ OpenProjectInEmptyTab(p)
     \/ \E t \in Tabs : OpenProjectOfTab(p, t) \/ OpenProjectInNewTab(p, t)
  /\ UNCHANGED realtimeFile

-----------------------------------------------------------------------------
(***************************************************************************)
(* The list of files, and openFile up to its await.                        *)
(***************************************************************************)
(* openLatestRealtime and openFile: the tab wants to follow file f. *)
WantsRealtime(t, f) ==
  /\ realtimeFile' = [realtimeFile EXCEPT ![t] = f]
  /\ pausedByIdle' = [pausedByIdle EXCEPT ![t] = FALSE]

(* openSelectedFile. *)
OpenFile(f) ==
  /\ page.project # None /\ page.listed
  /\ Show([page EXCEPT !.file = f])
  /\ Wait(Call("open", activeTabId, page.project, f, 0))
  /\ UNCHANGED <<tabs, activeTabId, realtimeFile, pausedByIdle>>

OpenLatestRealtime ==
  /\ page.project # None
  /\ \/ /\ page.listed
        /\ Show([page EXCEPT !.file = Latest])
        /\ Wait(Call("open", activeTabId, page.project, Latest, 0))
        /\ WantsRealtime(activeTabId, Latest)
     \/ /\ ~page.listed
        /\ Wait(LoadFiles(activeTabId, page.project, None))
        /\ UNCHANGED <<page, saved, realtimeFile, pausedByIdle>>
  /\ UNCHANGED <<tabs, activeTabId>>

(* autoRefreshFilesFromSelect: the list is read again when it is opened. *)
RefreshFiles ==
  /\ page.project # None /\ page.listed
  /\ Wait(Call("files", activeTabId, page.project, page.file, 0))
  /\ UNCHANGED <<tabs, activeTabId, page, saved, realtimeFile, pausedByIdle>>

(* The list selects the file it was asked for, or the current one. *)
FileAfter(c) ==
  IF c.file # None THEN c.file ELSE IF page.file # None THEN page.file
                                                        ELSE Latest

FilesLoaded(c) ==
  /\ c.kind = "files" /\ InContext(c)
  /\ \/ /\ c.then # OpenNewest
        /\ Show([page EXCEPT !.listed = TRUE, !.file = FileAfter(c)])
        /\ Returns(c)
        /\ UNCHANGED <<realtimeFile, pausedByIdle>>
     \/ /\ c.then = OpenNewest
        /\ Show([page EXCEPT !.listed = TRUE, !.file = Latest])
        /\ Continues(c, Call("open", c.tab, c.project, Latest, 0))
        /\ WantsRealtime(c.tab, Latest)
  /\ UNCHANGED <<tabs, activeTabId>>

FilesLoadedLate(c) ==
  /\ c.kind = "files" /\ ~InContext(c)
  /\ saved' = IF TabOf(c)
              THEN [saved EXCEPT
                      ![c.tab].listed = TRUE,
                      ![c.tab].file = IF c.file # None THEN c.file ELSE @]
              ELSE saved
  /\ Returns(c)
  /\ UNCHANGED <<tabs, activeTabId, page, realtimeFile, pausedByIdle>>

-----------------------------------------------------------------------------
(***************************************************************************)
(* openFile after its await.                                               *)
(***************************************************************************)
Filled(v, c, range) ==
  [v EXCEPT !.text = TextOf(c.project, c.file, range),
            !.start = range.lo, !.end = range.hi]

(* When openProjectInTab has resumed a paused tab, it goes on: it writes   *)
(* its project into the page, whatever tab that shows by now.              *)
GoOn(c, v) == IF c.then = None THEN v ELSE [v EXCEPT !.project = c.then]

NextCall(c) ==
  IF c.then = None THEN Returns(c)
  ELSE Continues(c, Call("files", c.tab, c.project, None, 0))

FileOpened(c) ==
  /\ c.kind = "open" /\ InContext(c)
  /\ Show(GoOn(c, Filled(page, c, TailRange)))
  /\ WantsRealtime(c.tab, c.file)
  /\ NextCall(c)
  /\ UNCHANGED <<tabs, activeTabId>>

(* The tab went to the background: its own copy gets the text. *)
FilledCopy(c) ==
  IF TabOf(c)
  THEN [saved EXCEPT ![c.tab] =
          [Filled(@, c, TailRange) EXCEPT !.file = c.file]]
  ELSE saved

Misplaced(c) ==
  IF GoOn(c, page).project # page.project THEN {activeTabId} ELSE {}

FileOpenedLate(c) ==
  /\ c.kind = "open" /\ ~InContext(c)
  /\ page' = GoOn(c, page)
  /\ saved' = IF c.then = None
              THEN FilledCopy(c)
              ELSE [FilledCopy(c) EXCEPT ![activeTabId] = GoOn(c, page)]
  /\ stray' = stray \cup Misplaced(c)
  /\ IF TabOf(c) THEN WantsRealtime(c.tab, None)
                 ELSE UNCHANGED <<realtimeFile, pausedByIdle>>
  /\ NextCall(c)
  /\ UNCHANGED <<tabs, activeTabId>>

-----------------------------------------------------------------------------
(***************************************************************************)
(* loadPrevChunk, when the user scrolls to the top of the text.            *)
(***************************************************************************)
LoadPrevChunk ==
  /\ page.project # None /\ page.file # None
  /\ ~page.loadingPrev
  /\ page.start > 0
  /\ Wait(Call("prev", activeTabId, page.project, page.file, page.start))
  /\ Sync(page)
  /\ page' = [page EXCEPT !.loadingPrev = TRUE]
  /\ UNCHANGED <<tabs, activeTabId, realtimeFile, pausedByIdle>>

Prepended(v, c, range) ==
  [v EXCEPT !.start = range.lo,
            !.text = KeepHead(TextOf(c.project, c.file, range) \o @),
            !.loadingPrev = FALSE]

PrevChunkLoaded(c) ==
  /\ c.kind = "prev" /\ InContext(c)
  /\ Show(Prepended(page, c, PrevRange(c.at)))
  /\ Returns(c)
  /\ UNCHANGED <<tabs, activeTabId, realtimeFile, pausedByIdle>>

PrevChunkLoadedLate(c) ==
  /\ c.kind = "prev" /\ ~InContext(c)
  /\ saved' = IF IsOpen(c.tab)
              THEN [saved EXCEPT ![c.tab].loadingPrev = FALSE] ELSE saved
  /\ Returns(c)
  /\ UNCHANGED <<tabs, activeTabId, page, realtimeFile, pausedByIdle>>

-----------------------------------------------------------------------------
(***************************************************************************)
(* openSearchHit: the hit's file is selected, then openFileAtOffset keeps  *)
(* the text or reads the part around the hit.                              *)
(***************************************************************************)
CanReuseCurrentLogChunk(v, f, at) ==
  /\ v.file = f
  /\ v.text # << >>
  /\ v.start <= at /\ at <= v.end

Selected(v, f) == [v EXCEPT !.file = f]

HitCall(f, at) == Call("offset", activeTabId, page.project, f, at)

OpenSearchHit(f, at) ==
  /\ page.hits # None
  /\ Show(Selected(page, f))
  /\ IF CanReuseCurrentLogChunk(Selected(page, f), f, at)
     THEN UNCHANGED calls
     ELSE Wait(HitCall(f, at))
  /\ WantsRealtime(activeTabId, None)
  /\ UNCHANGED <<tabs, activeTabId>>

(* 32768 bytes before the hit are read, and as many after it. *)
RangeAround(at) == RangeFrom(Less(at, Chunk \div 2))

HitShown(c) ==
  /\ c.kind = "offset" /\ InContext(c)
  /\ Show(Filled(page, c, RangeAround(c.at)))
  /\ Returns(c)
  /\ UNCHANGED <<tabs, activeTabId, realtimeFile, pausedByIdle>>

HitShownLate(c) ==
  /\ c.kind = "offset" /\ ~InContext(c)
  /\ Sync(page)
  /\ Returns(c)
  /\ UNCHANGED <<tabs, activeTabId, page, realtimeFile, pausedByIdle>>

-----------------------------------------------------------------------------
(***************************************************************************)
(* searchLogs.  Every click gets a number, the one that returns early for  *)
(* want of a keyword too; only the answer to the last number counts.       *)
(***************************************************************************)
Numbered(v, n) == [v EXCEPT !.request = n]

SearchLogs ==
  /\ page.project # None
  /\ saved[activeTabId].request < MaxSearches
  /\ LET n == saved[activeTabId].request + 1
     IN /\ page' = Numbered(page, n)
        /\ saved' = [saved EXCEPT ![activeTabId] = Numbered(@, n)]
        /\ \/ UNCHANGED calls
           \/ Wait(Call("search", activeTabId, page.project, None, n))
  /\ UNCHANGED <<tabs, activeTabId, realtimeFile, pausedByIdle>>

(* Mutant: the number of the request is not compared. *)
IsLastSearchAlways(c) == TRUE

IsLastSearch(c) == saved[c.tab].request = c.at

WithHits(v, c) ==
  [v EXCEPT !.hits = [project |-> c.project, request |-> c.at]]

(* Mutant: the hits are not written to the tab. *)
SearchDoneUnsaved(c) ==
  /\ c.kind = "search" /\ InContext(c) /\ IsLastSearch(c)
  /\ page' = WithHits(page, c)
  /\ Returns(c)
  /\ UNCHANGED <<tabs, activeTabId, saved, realtimeFile, pausedByIdle>>

SearchDone(c) ==
  /\ c.kind = "search" /\ InContext(c) /\ IsLastSearch(c)
  /\ Show(WithHits(page, c))
  /\ Returns(c)
  /\ UNCHANGED <<tabs, activeTabId, realtimeFile, pausedByIdle>>

(* When one file was searched, or a time, the first hit is opened at once. *)
SearchDoneOpensHit(c, f, at) ==
  /\ c.kind = "search" /\ InContext(c) /\ IsLastSearch(c)
  /\ Show(Selected(WithHits(page, c), f))
  /\ IF CanReuseCurrentLogChunk(Selected(page, f), f, at)
     THEN Returns(c)
     ELSE Continues(c, HitCall(f, at))
  /\ WantsRealtime(activeTabId, None)
  /\ UNCHANGED <<tabs, activeTabId>>

SearchDoneLate(c) ==
  /\ c.kind = "search" /\ ~(InContext(c) /\ IsLastSearch(c))
  /\ saved' = IF IsOpen(c.tab) /\ IsLastSearch(c)
              THEN [saved EXCEPT ![c.tab] = WithHits(@, c)] ELSE saved
  /\ Returns(c)
  /\ UNCHANGED <<tabs, activeTabId, page, realtimeFile, pausedByIdle>>

ResetSearchPanel ==
  /\ page.hits # None
  /\ Show([page EXCEPT !.hits = None])
  /\ UNCHANGED <<tabs, activeTabId, realtimeFile, pausedByIdle, calls>>

-----------------------------------------------------------------------------
ClearViewer ==
  /\ page.text # << >>
  /\ Show([page EXCEPT !.text = << >>, !.start = 0, !.end = 0])
  /\ UNCHANGED <<tabs, activeTabId, realtimeFile, pausedByIdle, calls>>

(* The realtime switch is turned off. *)
SetRealtimeFollowOff ==
  /\ page.project # None
  /\ WantsRealtime(activeTabId, None)
  /\ Sync(page)
  /\ UNCHANGED <<tabs, activeTabId, page, calls>>

(* The idle monitor finds a tab that has been in the background for long. *)
PauseIdleTab(t) ==
  /\ IsOpen(t) /\ t # activeTabId
  /\ realtimeFile[t] # None /\ ~pausedByIdle[t]
  /\ pausedByIdle' = [pausedByIdle EXCEPT ![t] = TRUE]
  /\ UNCHANGED <<tabs, activeTabId, page, saved, realtimeFile, calls>>

(* The server has answered with an error, or not at all. *)
CallFails(c) ==
  /\ IF c.kind = "prev" /\ InContext(c)
     THEN Show([page EXCEPT !.loadingPrev = FALSE])
     ELSE UNCHANGED <<page, saved>>
  /\ Returns(c)
  /\ UNCHANGED <<tabs, activeTabId, realtimeFile, pausedByIdle>>

-----------------------------------------------------------------------------
ClickInTab ==
  \/ \E t \in Tabs : ActivateTab(t)
  \/ \E p \in Projects : OpenProject(p)
  \/ \E f \in Files : OpenFile(f)
  \/ OpenLatestRealtime \/ RefreshFiles \/ LoadPrevChunk
  \/ ClearViewer \/ SetRealtimeFollowOff
  \/ SearchLogs \/ ResetSearchPanel
  \/ \E f \in Files, at \in 0..(Size - 1) : OpenSearchHit(f, at)

Click ==
  \/ \E t \in Tabs : CloseTab(t)
  \/ ClickInTab /\ UNCHANGED stray

AnswerToItsTab(c) ==
  \/ FilesLoaded(c) \/ FilesLoadedLate(c)
  \/ FileOpened(c)
  \/ PrevChunkLoaded(c) \/ PrevChunkLoadedLate(c)
  \/ HitShown(c) \/ HitShownLate(c)
  \/ SearchDone(c) \/ SearchDoneLate(c)
  \/ \E f \in Files, at \in 0..(Size - 1) : SearchDoneOpensHit(c, f, at)
  \/ CallFails(c)

Answer(c) ==
  \/ FileOpenedLate(c)
  \/ AnswerToItsTab(c) /\ UNCHANGED stray

Next ==
  \/ Click /\ clicks < MaxClicks /\ clicks' = clicks + 1
  \/ (\E c \in calls : Answer(c)) /\ UNCHANGED clicks
  \/ (\E t \in Tabs : PauseIdleTab(t)) /\ UNCHANGED <<clicks, stray>>

Spec == Init /\ [][Next]_vars

-----------------------------------------------------------------------------
(* Types of the variables. *)
Views ==
  [project : Projects \cup {None}, listed : BOOLEAN, file : Files \cup {None},
   text : Seq(Units), start : Positions, end : Positions,
   loadingPrev : BOOLEAN, hits : Hits \cup {None}, request : 0..MaxSearches]

TypeOK ==
  /\ tabs \in Seq(Tabs) /\ IsOpen(activeTabId)
  /\ page \in Views
  /\ saved \in [Tabs -> Views]
  /\ realtimeFile \in [Tabs -> Files \cup {None}]
  /\ pausedByIdle \in [Tabs -> BOOLEAN]
  /\ calls \subseteq
       [kind : {"files", "open", "prev", "offset", "search"},
        number : Numbers, tab : Tabs, project : Projects,
        file : Files \cup {None}, at : Nat,
        then : Projects \cup {None, OpenNewest}]
  /\ clicks \in 0..MaxClicks
  /\ stray \subseteq Tabs

(***************************************************************************)
(* A tab shows text and hits of its own project only, though the answers   *)
(* come at any time and the user may be in another tab by then.  Not so a  *)
(* tab that is astray: openProjectInTab goes on after activateTab without  *)
(* looking, and gives the tab that is active by then its project           *)
(* (app.js:792-796).                                                       *)
(***************************************************************************)
OfOneProject(v) ==
  /\ \A i \in DOMAIN v.text : v.text[i].project = v.project
  /\ v.hits # None => v.hits.project = v.project

TabsDoNotMix ==
  /\ activeTabId \notin stray => OfOneProject(page)
  /\ \A t \in Tabs : IsOpen(t) /\ t \notin stray => OfOneProject(saved[t])

(***************************************************************************)
(* The copy the active tab has agrees with the page in all that a switch   *)
(* of tabs must not lose, as long as the tab is not astray.                *)
(***************************************************************************)
Kept(v) == <<v.project, v.text, v.start, v.end, v.hits, v.request>>

PageIsActiveTab ==
  activeTabId \notin stray => Kept(page) = Kept(saved[activeTabId])

(* There are no two tabs for one project, but for those that are astray. *)
OneTabPerProject ==
  \A t, u \in Tabs \ stray :
    (/\ IsOpen(t) /\ IsOpen(u)
     /\ saved[t].project = saved[u].project /\ saved[t].project # None)
      => t = u

(***************************************************************************)
(* A tab loads one earlier part at a time, wherever it is in between.      *)
(***************************************************************************)
OnePrevAtATime ==
  \A c, d \in calls :
    (c.kind = "prev" /\ d.kind = "prev" /\ c.tab = d.tab /\ IsOpen(c.tab))
      => c = d

(***************************************************************************)
(* The hits of an earlier search never replace those of a later one, in a  *)
(* tab that is not astray.                                                 *)
(***************************************************************************)
Stays(t) == IsOpen(t) /\ \E i \in DOMAIN tabs' : tabs'[i] = t
NotOlder(h, g) == (h # None /\ g # None) => h.request >= g.request

SearchNeverGoesBack ==
  [][\A t \in Tabs \ stray :
       Stays(t) => NotOlder(saved'[t].hits, saved[t].hits)]_vars

(***************************************************************************)
(* A tab that has a project keeps it: what openProjectInTab looks after at *)
(* its second await (app.js:800) and not at its first.  The code breaks    *)
(* it, and so no run checks it.                                            *)
(***************************************************************************)
TabKeepsItsProject ==
  [][\A t \in Tabs :
       (Stays(t) /\ saved[t].project # None)
         => saved'[t].project = saved[t].project]_vars

(***************************************************************************)
(* When a hit is shown without a request to the server, the text is that   *)
(* of the hit's file (canReuseCurrentLogChunk, app.js:3249: a text is not  *)
(* kept when `state.currentFile !== fileName`).                            *)
(***************************************************************************)
KeptTextIsOfItsFile ==
  [][(/\ calls' = calls /\ activeTabId' = activeTabId
      /\ page'.file # page.file /\ page'.text # << >>)
       => page'.text[1].file = page'.file]_vars
=============================================================================
