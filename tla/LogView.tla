-------------------------------- MODULE LogView --------------------------------
(***************************************************************************)
(* The log on the page (app.js): how lines that arrive, the earlier part   *)
(* of the file and the tabs the user changes between come into the view,   *)
(* and when the view follows the end of the log.                           *)
(*                                                                         *)
(* Text that arrives is drawn by a callback of the next animation frame,   *)
(* and a scroll to the end is repeated in the frame after it.  The browser *)
(* tells the page of a move of the view at the start of a frame too,       *)
(* whoever moved it: onLogScroll compares lastTop, where the page last     *)
(* left the view, with where it is, and takes the difference for the       *)
(* user's.                                                                 *)
(*                                                                         *)
(* A log is a sequence of numbered lines, a line is as high as the 24      *)
(* pixels from the top where the earlier part is asked for, and every line *)
(* passes the keyword.  A tab has one file, which grows; what is read of   *)
(* it ends anywhere between the call and the answer, and lines of a stream *)
(* are on their way for a while (TabSocket and PageTabs have connections   *)
(* that break and tabs of other projects).                                 *)
(***************************************************************************)
EXTENDS Naturals, SequencesExt

CONSTANTS Tabs, Keywords, None,
          Chunk,    \* the lines of 65536 bytes, which a read without keyword
                    \* and one of an earlier part have
          KeywordLines, \* the 200 lines of a read with a keyword, more than
                    \* Chunk or less: it depends on how long they are
          MaxText,  \* the lines a text may have, 1000000 characters
          Height,   \* the lines the view shows
          FirstSize, \* the lines of a file at first
          MaxLines, \* bound: the lines of a file
          MaxClicks, \* bound: what the user does
          Patient   \* the user waits for a file that is being opened

Closed == << >>
Blank == 0

ASSUME LogViewAssumption ==
  /\ {Chunk, KeywordLines, MaxText, Height, FirstSize, MaxLines, MaxClicks}
       \subseteq Nat \ {0}
  /\ None \notin Keywords
  /\ Patient \in BOOLEAN

VARIABLES
  activeTabId,
  page,    \* the fields of `state` and the view, see EmptyPage
  saved,   \* the copies of the tabs
  wanted,  \* realtimeWanted of each tab
  stream,  \* the stream the server has for it: <<its keyword>>, or Closed
  sent,    \* the last line the stream has brought or passed over
  asked,   \* the streams asked for that have not said `following` yet
  size,    \* the lines of its file that were read by anyone so far
  mixed,   \* history: the tabs whose text may get lines it has, see Overlaps
  calls,   \* the handlers that wait for the server
  running, \* the callbacks of the frame that are still to run
  clicks

streamVars == <<stream, sent, asked>>
fileVars == <<size, mixed>>
vars == <<activeTabId, page, saved, wanted, streamVars, fileVars, calls,
          running, clicks>>

Copied == {"text", "start", "follow", "loadingPrev", "monitor"}

(* `rendered` is the text the view was drawn from, `shown` its lines;      *)
(* `moved` says who has moved the view since onLogScroll was told.         *)
EmptyPage ==
  [text |-> << >>, start |-> 0, follow |-> TRUE, loadingPrev |-> FALSE,
   monitor |-> None,
   rendered |-> << >>, shown |-> << >>, top |-> 0, lastTop |-> 0,
   moved |-> None,
   pendingLogRender |-> FALSE, pendingForce |-> FALSE, pendingFollow |-> FALSE,
   frames |-> << >>]

Copy(p) == Restrict(p, Copied)

Init ==
  /\ activeTabId \in Tabs
  /\ page = EmptyPage
  /\ saved = [t \in Tabs |-> Copy(EmptyPage)]
  /\ wanted = [t \in Tabs |-> FALSE]
  /\ stream = [t \in Tabs |-> Closed]
  /\ sent = [t \in Tabs |-> 0]
  /\ asked = [t \in Tabs |-> << >>]
  /\ size = [t \in Tabs |-> FirstSize]
  /\ mixed = {}
  /\ calls = {}
  /\ running = << >>
  /\ clicks = 0

-----------------------------------------------------------------------------
(***************************************************************************)
(* What the handlers do to the page p.                                     *)
(***************************************************************************)
Smaller(a, b) == IF a <= b THEN a ELSE b
Larger(a, b) == IF a <= b THEN b ELSE a
Less(a, b) == IF a <= b THEN 0 ELSE a - b

(* trimTextBuffer at either end. *)
KeepTail(text) == SubSeq(text, Less(Len(text), MaxText) + 1, Len(text))
KeepHead(text) == SubSeq(text, 1, Smaller(Len(text), MaxText))

Bottom(shown) == Less(Len(shown), Height)

(* The page sets scrollTop, and remembers it. *)
MovedTo(p, to) ==
  LET at == Smaller(to, Bottom(p.shown)) IN
  [p EXCEPT !.top = at, !.lastTop = at,
            !.moved = IF at = p.top \/ @ # None THEN @ ELSE "page"]

(* A text ends its last line, so that formatLogBufferHtml adds an empty one.*)
Formatted(text) == IF text = << >> THEN << >> ELSE Append(text, Blank)

(* Mutant: the place where the view ends up is not remembered. *)
RenderLogBufferForgets(p) ==
  [MovedTo([p EXCEPT !.shown = Formatted(p.text), !.rendered = p.text], p.top)
     EXCEPT !.lastTop = p.lastTop]

(* The view stays where it is, or at the end of a shorter text. *)
RenderLogBuffer(p) ==
  MovedTo([p EXCEPT !.shown = Formatted(p.text), !.rendered = p.text], p.top)

ScheduleLogBufferRender(p, force, follow) ==
  [p EXCEPT !.pendingForce = @ \/ force,
            !.pendingFollow = @ \/ follow,
            !.pendingLogRender = TRUE,
            !.frames = IF p.pendingLogRender THEN @ ELSE Append(@, "render")]

ScrollToBottom(p) ==
  [MovedTo(p, Bottom(p.shown)) EXCEPT
     !.follow = TRUE, !.frames = Append(@, "settle")]

(* The page becomes p, and syncStateToActiveTab. *)
Show(p) ==
  /\ page' = p
  /\ saved' = [saved EXCEPT ![activeTabId] = Copy(p)]

-----------------------------------------------------------------------------
(***************************************************************************)
(* Lines from the stream (handleWsMessage); those of a tab in the          *)
(* background only go into its copy.  The file may have grown by more than *)
(* what was read of it.                                                    *)
(***************************************************************************)
Read(t, n) == size' = [size EXCEPT ![t] = Larger(@, n)]

NextLine(t) ==
  /\ running = << >>
  /\ stream[t] # Closed
  /\ sent[t] < MaxLines
  /\ sent' = [sent EXCEPT ![t] = @ + 1]
  /\ Read(t, sent[t] + 1)
  /\ UNCHANGED <<stream, asked, mixed>>

WithLine(t) == Append(saved[t].text, sent[t] + 1)

LogLines(t) ==
  /\ t = activeTabId
  /\ NextLine(t)
  /\ LET text == KeepTail(WithLine(t))
         p == ScheduleLogBufferRender([page EXCEPT !.text = text],
                                      text # WithLine(t), page.follow)
     IN Show(IF page.follow THEN p ELSE [p EXCEPT !.lastTop = p.top])
  /\ UNCHANGED <<activeTabId, wanted, calls, running, clicks>>

LogLinesInBackground(t) ==
  /\ t # activeTabId
  /\ NextLine(t)
  /\ saved' = [saved EXCEPT ![t].text = KeepTail(WithLine(t))]
  /\ UNCHANGED <<activeTabId, page, wanted, calls, running, clicks>>

(* The message `following` of a stream: its tail has started at some time  *)
(* after it was asked for, and lines of the stream before are no longer    *)
(* taken (currentStreamId).                                                *)
StreamOpened(t) ==
  /\ running = << >>
  /\ asked[t] # << >>
  /\ stream' = [stream EXCEPT ![t] = <<Head(asked[t]).keyword>>]
  /\ \E at \in Larger(Head(asked[t]).size, sent[t])..MaxLines :
       sent' = [sent EXCEPT ![t] = at] /\ Read(t, at)
  /\ asked' = [asked EXCEPT ![t] = Tail(@)]
  /\ wanted' = [wanted EXCEPT ![t] = TRUE]
  /\ UNCHANGED <<activeTabId, page, saved, mixed, calls, running, clicks>>

-----------------------------------------------------------------------------
(***************************************************************************)
(* An animation frame: the browser reports a move of the view, and runs    *)
(* the callbacks that were asked for before it.                            *)
(***************************************************************************)
Frame ==
  /\ running = << >>
  /\ page.frames # << >> \/ page.moved # None
  /\ running' =
       (IF page.moved = None THEN << >> ELSE <<"scroll">>) \o page.frames
  /\ page' = [page EXCEPT !.frames = << >>]
  /\ UNCHANGED <<activeTabId, saved, wanted, streamVars, fileVars, calls,
                 clicks>>

Callback(name) ==
  /\ running # << >> /\ Head(running) = name
  /\ running' = Tail(running)
  /\ UNCHANGED <<activeTabId, wanted, streamVars, fileVars, clicks>>

(* The text has only become longer. *)
CanAppend(p) ==
  /\ ~p.pendingForce
  /\ p.rendered # << >> /\ IsPrefix(p.rendered, p.text)

Added(p) == SubSeq(p.text, Len(p.rendered) + 1, Len(p.text))

(* Mutant: what was added is not noted as drawn. *)
DrawnAgain(p) ==
  IF CanAppend(p) THEN [p EXCEPT !.shown = @ \o Formatted(Added(p))]
                  ELSE RenderLogBuffer(p)

Drawn(p) ==
  IF CanAppend(p) THEN [p EXCEPT !.shown = @ \o Formatted(Added(p)),
                                 !.rendered = p.text]
                  ELSE RenderLogBuffer(p)

(* Mutant: the callback does not say that it has run. *)
NothingIsPendingButTheRender(p) ==
  [p EXCEPT !.pendingForce = FALSE, !.pendingFollow = FALSE]

NothingIsPending(p) ==
  [p EXCEPT !.pendingLogRender = FALSE, !.pendingForce = FALSE,
            !.pendingFollow = FALSE]

RenderFrame ==
  /\ Callback("render")
  /\ LET p == NothingIsPending(Drawn(page))
     IN Show(IF page.pendingFollow THEN ScrollToBottom(p)
                                   ELSE [p EXCEPT !.lastTop = p.top])
  /\ UNCHANGED calls

SettleFrame ==
  /\ Callback("settle")
  /\ Show(MovedTo(page, Bottom(page.shown)))
  /\ UNCHANGED calls

FollowsAfterScroll(p) ==
  /\ p.top >= p.lastTop
  /\ p.follow \/ p.top >= Bottom(p.shown)

Scrolled(p) ==
  [p EXCEPT !.follow = FollowsAfterScroll(p),
            !.lastTop = p.top, !.moved = None]

(* Mutant: the flag loadingPrev is not looked at. *)
AsksForPrevAgain(p) == p.top = 0 /\ p.start > 0

(* loadPrevChunk goes on. *)
AsksForPrev(p) == p.top = 0 /\ p.start > 0 /\ ~p.loadingPrev

OnLogScroll ==
  /\ Callback("scroll")
  /\ ~AsksForPrev(page)
  /\ Show(Scrolled(page))
  /\ UNCHANGED calls

OnLogScrollLoadPrevChunk ==
  /\ Callback("scroll")
  /\ AsksForPrev(page)
  /\ Show([Scrolled(page) EXCEPT !.loadingPrev = TRUE])
  /\ calls' = calls \cup {[kind |-> "prev", tab |-> activeTabId,
                           before |-> page.start, height |-> Len(page.shown)]}

-----------------------------------------------------------------------------
(***************************************************************************)
(* The earlier part of the file comes, or does not.  The view is put where *)
(* it was at the call, further down by what the text has grown.            *)
(***************************************************************************)
Returns(c) ==
  /\ running = << >>
  /\ c \in calls
  /\ calls' = calls \ {c}

PrevChunkLoaded(c) ==
  /\ c.kind = "prev" /\ c.tab = activeTabId
  /\ Returns(c)
  /\ LET from == Less(c.before, Chunk)
         chunk == [i \in 1..(c.before - from) |-> from + i]
         p == RenderLogBuffer([page EXCEPT
                !.text = KeepHead(chunk \o @), !.start = from,
                !.loadingPrev = FALSE])
     IN Show(MovedTo(p, Less(Len(p.shown), c.height)))
  /\ UNCHANGED <<activeTabId, wanted, streamVars, fileVars, running, clicks>>

PrevChunkFails(c) ==
  /\ c.kind = "prev" /\ c.tab = activeTabId
  /\ Returns(c)
  /\ Show([page EXCEPT !.loadingPrev = FALSE])
  /\ UNCHANGED <<activeTabId, wanted, streamVars, fileVars, running, clicks>>

PrevChunkLoadedLate(c) ==
  /\ c.kind = "prev" /\ c.tab # activeTabId
  /\ Returns(c)
  /\ saved' = [saved EXCEPT ![c.tab].loadingPrev = FALSE]
  /\ UNCHANGED <<activeTabId, page, wanted, streamVars, fileVars, running,
                 clicks>>

(* The finally block of loadPrevChunk passes over a tab that was left. *)
PrevChunkFailsLate(c) ==
  /\ c.kind = "prev" /\ c.tab # activeTabId
  /\ Returns(c)
  /\ UNCHANGED <<activeTabId, page, saved, wanted, streamVars, fileVars,
                 running, clicks>>

-----------------------------------------------------------------------------
(***************************************************************************)
(* The user.                                                               *)
(***************************************************************************)
Click ==
  /\ running = << >>
  /\ clicks < MaxClicks /\ clicks' = clicks + 1

UserScroll(to) ==
  /\ Click
  /\ to # page.top /\ to <= Bottom(page.shown)
  /\ page' = [page EXCEPT !.top = to, !.moved = "user"]
  /\ UNCHANGED <<activeTabId, saved, wanted, streamVars, fileVars, calls,
                 running>>

BackToBottom ==
  /\ Click
  /\ Show(ScrollToBottom(page))
  /\ UNCHANGED <<activeTabId, wanted, streamVars, fileVars, calls, running>>

ClearViewer ==
  /\ Click
  /\ Show([RenderLogBuffer([page EXCEPT !.text = << >>]) EXCEPT !.start = 0])
  /\ UNCHANGED <<activeTabId, wanted, streamVars, fileVars, calls, running>>

(* loadStateFromTab: a callback that was asked for is not taken back. *)
Loaded(t) ==
  RenderLogBuffer(
    [f \in DOMAIN page |->
       CASE f \in Copied -> saved[t][f]
         [] f \in {"pendingLogRender", "pendingForce", "pendingFollow"} -> FALSE
         [] f = "moved" /\ page.moved # None -> "page"
         [] OTHER -> page[f]])

ActivateTab(t) ==
  /\ Click
  /\ t # activeTabId
  /\ activeTabId' = t
  /\ page' = Loaded(t)
  /\ saved' = [saved EXCEPT ![activeTabId] = Copy(page)]
  /\ UNCHANGED <<wanted, streamVars, fileVars, calls, running>>

-----------------------------------------------------------------------------
(***************************************************************************)
(* The realtime stream and its keyword.                                    *)
(***************************************************************************)
Opening(t) == \/ \E c \in calls : c.tab = t /\ c.kind # "prev"
              \/ asked[t] # << >>

(* openLatestRealtime up to the await in openFile. *)
OpenLatest(p, kind) ==
  /\ Patient => ~Opening(activeTabId)
  /\ Show(p)
  /\ wanted' = [wanted EXCEPT ![activeTabId] = TRUE]
  /\ calls' = calls \cup {[kind |-> kind, tab |-> activeTabId,
                           keyword |-> p.monitor,
                           size |-> size[activeTabId]]}

OpenLatestRealtime ==
  /\ Click
  /\ OpenLatest(page, "open")
  /\ UNCHANGED <<activeTabId, streamVars, fileVars, running>>

(* A connection is made when the stream is first asked for, and stays.     *)
IsLive(t) == wanted[t] /\ (stream[t] # Closed \/ asked[t] # << >>)

(* resumeRealtimeView takes a stream that is not followed for one that is  *)
(* only to be scrolled.                                                    *)
ResumesToBottom == IsLive(activeTabId) /\ ~page.follow

MonitorOnly(p) ==
  /\ Show(RenderLogBuffer(p))
  /\ UNCHANGED <<wanted, calls>>

SetMonitor(keyword, resumes) ==
  /\ Click
  /\ LET p == [page EXCEPT !.monitor = keyword] IN
     \/ resumes /\ ~ResumesToBottom /\ OpenLatest(p, "monitor")
     \/ resumes /\ ResumesToBottom /\ MonitorOnly(ScrollToBottom(p))
     \/ ~resumes /\ MonitorOnly(p)
  /\ UNCHANGED <<activeTabId, streamVars, fileVars, running>>

ApplyRealtimeMonitor(k) ==
  SetMonitor(k, k # page.monitor \/ ~IsLive(activeTabId))

StopRealtimeMonitor ==
  page.monitor # None /\ SetMonitor(None, wanted[activeTabId])

(* The end of a file of n lines; readTailLines, which is asked for a       *)
(* keyword, names no offset.                                               *)
Snapshot(c, n) ==
  LET from == Less(n, IF c.keyword = None THEN Chunk ELSE KeywordLines) IN
  [text |-> [i \in 1..(n - from) |-> from + i],
   start |-> IF c.keyword = None THEN from ELSE 0]

(***************************************************************************)
(* The code does not look whether a snapshot has lines that are still to   *)
(* come: those of a stream that goes on until the next one is open, or     *)
(* those of an earlier part that is awaited, when the snapshot is a read   *)
(* with a keyword or an older one than what the tab has had already.       *)
(***************************************************************************)
StreamIsBehind(t, n) ==
  \/ stream[t] # Closed /\ sent[t] < n
  \/ stream[t] = Closed /\ asked[t] # << >> /\ Head(asked[t]).size < n

AwaitsPrev(t) == \E c \in calls : c.kind = "prev" /\ c.tab = t

Overlaps(c, n) ==
  \/ StreamIsBehind(c.tab, n)
  \/ AwaitsPrev(c.tab) /\ (c.keyword # None \/ n < size[c.tab])

(* The answer of a read that was n lines of the file. *)
Answered(c, n) ==
  /\ c.kind \in {"open", "monitor"}
  /\ Returns(c)
  /\ n \in c.size..MaxLines
  /\ Read(c.tab, n)
  /\ mixed' = IF Overlaps(c, n) THEN mixed \cup {c.tab} ELSE mixed \ {c.tab}
  /\ UNCHANGED <<activeTabId, stream, sent, running, clicks>>

(* The rest of openFile: the text is shown, and the stream asked for. *)
FileOpened(c, n) ==
  /\ c.tab = activeTabId
  /\ Answered(c, n)
  /\ LET new == Snapshot(c, n)
     IN Show(ScrollToBottom(RenderLogBuffer(
          [page EXCEPT !.text = KeepTail(new.text), !.start = new.start])))
  /\ wanted' = [wanted EXCEPT ![c.tab] = TRUE]
  /\ asked' = [asked EXCEPT ![c.tab] =
                 Append(@, [keyword |-> c.keyword, size |-> size'[c.tab]])]

(* The tab was left: it gets the text only, and is not in realtime.  The   *)
(* handler of a keyword draws the page again, whatever it shows.           *)
FileOpenedLate(c, n) ==
  /\ c.tab # activeTabId
  /\ Answered(c, n)
  /\ LET new == Snapshot(c, n)
     IN saved' = [saved EXCEPT ![c.tab].text = new.text,
                               ![c.tab].start = new.start]
  /\ page' = IF c.kind = "monitor" THEN RenderLogBuffer(page) ELSE page
  /\ wanted' = [wanted EXCEPT ![c.tab] = FALSE]
  /\ UNCHANGED asked

-----------------------------------------------------------------------------
User ==
  \/ \E to \in 0..MaxText + MaxLines : UserScroll(to)
  \/ BackToBottom \/ ClearViewer \/ OpenLatestRealtime \/ StopRealtimeMonitor
  \/ \E k \in Keywords : ApplyRealtimeMonitor(k)
  \/ \E t \in Tabs : ActivateTab(t)

Server ==
  \/ \E t \in Tabs : LogLines(t) \/ LogLinesInBackground(t) \/ StreamOpened(t)
  \/ \E c \in calls :
       \/ PrevChunkLoaded(c) \/ PrevChunkFails(c)
       \/ PrevChunkLoadedLate(c) \/ PrevChunkFailsLate(c)
       \/ \E n \in 1..MaxLines : FileOpened(c, n) \/ FileOpenedLate(c, n)

Browser == Frame \/ RenderFrame \/ SettleFrame
           \/ OnLogScroll \/ OnLogScrollLoadPrevChunk

Next == User \/ Server \/ Browser

Spec == Init /\ [][Next]_vars

(* A page that is looked at gets its animation frames. *)
FairSpec == Spec /\ WF_vars(Browser)

-----------------------------------------------------------------------------
(* Types of the variables. *)
TypeOK ==
  LET Line == 1..MaxLines
      Text == Seq(Line)
  IN
  /\ activeTabId \in Tabs
  /\ DOMAIN page = DOMAIN EmptyPage
  /\ page.text \in Text /\ page.rendered \in Text
  /\ page.shown \in Seq(Line \cup {Blank})
  /\ {page.start, page.top, page.lastTop} \subseteq 0..MaxText + MaxLines
  /\ {page.follow, page.loadingPrev, page.pendingLogRender, page.pendingForce,
      page.pendingFollow} \subseteq BOOLEAN
  /\ page.monitor \in Keywords \cup {None}
  /\ page.moved \in {None, "page", "user"}
  /\ page.frames \in Seq({"render", "settle"})
  /\ running \in Seq({"scroll", "render", "settle"})
  /\ \A t \in Tabs : /\ DOMAIN saved[t] = Copied
                     /\ saved[t].text \in Text
                     /\ saved[t].start \in 0..MaxLines
                     /\ saved[t].monitor \in Keywords \cup {None}
  /\ wanted \in [Tabs -> BOOLEAN]
  /\ stream \in [Tabs -> {Closed} \cup {<<k>> : k \in Keywords \cup {None}}]
  /\ sent \in [Tabs -> 0..MaxLines]
  /\ \A t \in Tabs : asked[t] \in
       Seq([keyword : Keywords \cup {None}, size : Line])
  /\ size \in [Tabs -> Line]
  /\ mixed \subseteq Tabs
  /\ \A c \in calls : c.kind \in {"prev", "open", "monitor"} /\ c.tab \in Tabs
  /\ clicks \in 0..MaxClicks

(***************************************************************************)
(* The view has the lines of the text it was drawn from, each of them      *)
(* once, and this is the text of the tab as soon as no callback is awaited *)
(* (scheduleLogBufferRender adds to what renderLogBuffer has drawn, of     *)
(* whichever tab).                                                         *)
(***************************************************************************)
Lines(shown) ==
  LET lines[i \in 0..Len(shown)] ==
        IF i = 0 THEN << >>
        ELSE IF shown[i] = Blank THEN lines[i - 1]
        ELSE Append(lines[i - 1], shown[i])
  IN lines[Len(shown)]

ViewShowsTheText ==
  /\ Lines(page.shown) = page.rendered
  /\ ~page.pendingLogRender => page.rendered = page.text

(***************************************************************************)
(* No text of a tab has a line twice or before an earlier one, although    *)
(* parts come in at both ends, are cut off at both, and the answer of      *)
(* loadPrevChunk may find another text than the one it was asked for; but  *)
(* when a snapshot has lines that are still to come, the code puts them in *)
(* twice (Overlaps), until the file is opened again.                       *)
(***************************************************************************)
Increases(text) == \A i \in 2..Len(text) : text[i - 1] < text[i]

Texts(t) == {saved[t].text} \cup (IF t = activeTabId THEN {page.text} ELSE {})

LinesStayInOrder ==
  \A t \in Tabs \ mixed : \A text \in Texts(t) : Increases(text)

(* What the code breaks: handleWsMessage and loadPrevChunk add what comes  *)
(* whatever the text has.                                                  *)
NoLineTwice == \A t \in Tabs : \A text \in Texts(t) : Increases(text)

(***************************************************************************)
(* Following ends in a tab only when the user has scrolled there: nothing  *)
(* the page does to the view is taken for it (lastViewerScrollTop).        *)
(***************************************************************************)
OnlyTheUserStopsFollowing ==
  [][activeTabId' = activeTabId /\ page.follow /\ ~page'.follow
       => page.moved = "user"]_vars

(***************************************************************************)
(* A line that comes while its tab follows is seen at the end of the view, *)
(* or the user goes to another tab.                                        *)
(***************************************************************************)
EndIsSeen == page.rendered = page.text /\ page.top = Bottom(page.shown)

NewLinesAreSeen ==
  \A t \in Tabs :
    (activeTabId = t /\ page.pendingFollow) ~> (EndIsSeen \/ activeTabId # t)

(***************************************************************************)
(* The keyword a tab monitors is the one its stream has, once no answer is *)
(* awaited: conditions that were changed take effect with the button       *)
(* (realtimeSearchHint).                                                   *)
(***************************************************************************)
Monitor(t) == IF t = activeTabId THEN page.monitor ELSE saved[t].monitor

MonitorReachesTheStream ==
  \A t \in Tabs :
    wanted[t] /\ ~Opening(t) => stream[t] = <<Monitor(t)>>
=============================================================================
