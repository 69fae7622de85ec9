------------------------------ MODULE ServerPage ------------------------------
(***************************************************************************)
(* The server, its projects and its stars on the browser page (app.js).    *)
(*                                                                         *)
(* Which server the page works on is said in four places: state.serverId,  *)
(* the select, localStorage and the active tab.  The list of projects      *)
(* comes from the server some time after it was asked for, the stars come  *)
(* from localStorage at once.  Tabs keep the server and the project they   *)
(* were opened with; what else they show is the subject of PageTabs.       *)
(*                                                                         *)
(* An action is a handler up to the await of loadProjects or of the save,  *)
(* or the rest of it; calls are the handlers that wait, in the order they  *)
(* asked.  A list of servers that comes from the store may be any list,    *)
(* for other pages save lists too; the server of an answer may be one that *)
(* is in no list any more.                                                 *)
(***************************************************************************)
EXTENDS Naturals, Sequences, SequencesExt

CONSTANTS Servers, Projects, Tabs,
          ProjectsOf,  \* the projects that are found on each server
          Legacy,      \* the stars of the version that had one list, as
                       \* they are read: each once
          None,
          MaxCalls,    \* bound: the handlers that wait at a time
          MaxClicks    \* bound: what the user does

ASSUME ServerPageAssumption ==
  /\ None \notin Servers \cup Projects \cup Tabs \cup Seq(Projects)
  /\ ProjectsOf \in [Servers -> SUBSET Projects]
  /\ Legacy \in Seq(Projects) /\ IsInjective(Legacy)
  /\ {MaxCalls, MaxClicks} \subseteq Nat

VARIABLES
  page,      \* serverId, projectPath, starredProjectOrder, the server whose
             \* projects are listed, startupDefaultProjectDone
  select,    \* the options of serverSelect and its value
  storage,   \* localStorage: the server, the stars of each server (None when
             \* there is no entry), the server Legacy has gone to
  tabs,      \* the ids of the tabs, from left to right
  activeTabId,
  saved,     \* server and project of each tab
  calls,
  missed,    \* history: the last answer for a list of projects was an error
  overtaken, \* history: since there was last no list of projects to wait for,
             \* one has come before another that was asked for earlier
  astray,    \* history: since the server was last chosen, activateTab has
             \* loaded a tab into the page that was no longer active
  clicks

vars == <<page, select, storage, tabs, activeTabId, saved, calls, missed,
          overtaken, astray, clicks>>

IsOpen(t) == \E i \in DOMAIN tabs : tabs[i] = t
IsNew(t) == ~IsOpen(t) /\ \A i \in DOMAIN calls : calls[i].tab # t

EmptyTab(s) == [server |-> s, project |-> None]

(* What a list of servers says: its servers and the first of them, which   *)
(* is the default too.                                                     *)
Lists == {[servers |-> {}, first |-> None]} \cup
         {l \in [servers : SUBSET Servers, first : Servers] :
            l.first \in l.servers}

-----------------------------------------------------------------------------
(***************************************************************************)
(* localStorage: loadStarredProjectPaths and what it writes.               *)
(***************************************************************************)
(* Mutant: the server that has Legacy already is not looked up. *)
MigratesAgain(s) == s # None /\ storage.stars[s] = None /\ Legacy # << >>

Migrates(s) ==
  /\ s # None /\ storage.stars[s] = None
  /\ storage.migratedTo = None /\ Legacy # << >>

StarsOf(s) ==
  CASE s = None -> << >>
    [] Migrates(s) -> Legacy
    [] ~Migrates(s) /\ s # None ->
         IF storage.stars[s] = None THEN << >> ELSE storage.stars[s]

(* persistSelectedServerId. *)
Remember(s) == storage' = [storage EXCEPT !.server = s]

(* persistSelectedServerId and reloadStarredProjectState. *)
Visit(s) ==
  storage' = IF Migrates(s)
             THEN [storage EXCEPT !.server = s, !.stars[s] = Legacy,
                                  !.migratedTo = s]
             ELSE [storage EXCEPT !.server = s]

(* Mutant: the stars are not read again. *)
AtServerOldStars(pg, s) == [pg EXCEPT !.server = s]

AtServer(pg, s) ==
  IF s = pg.server THEN pg
  ELSE [pg EXCEPT !.server = s, !.order = StarsOf(s)]

-----------------------------------------------------------------------------
(***************************************************************************)
(* The calls.  A handler that goes on with a tab names it, and the project *)
(* when it is openProjectInTab that waits.                                 *)
(***************************************************************************)
Call(kind, s, then, t, p) ==
  [kind |-> kind, server |-> s, then |-> then, tab |-> t, project |-> p]

Wait(rest, c) == Len(rest) < MaxCalls /\ calls' = Append(rest, c)

LoadProjects(rest, s, then) ==
  Wait(rest, Call("projects", s, then, None, None))

Waits(kind) == \E i \in DOMAIN calls : calls[i].kind = kind

(* A list of projects is waited for again. *)
AsksAnew == ~Waits("projects") /\ Waits("projects")'

(* The answer of call i comes before an earlier list of projects. *)
Overtakes(i) ==
  /\ calls[i].kind = "projects"
  /\ \E j \in DOMAIN calls : j < i /\ calls[j].kind = "projects"

-----------------------------------------------------------------------------
(***************************************************************************)
(* renderServerSelect.                                                     *)
(***************************************************************************)
FirstOf(candidates, l) ==
  LET i == SelectInSeq(candidates, LAMBDA s : s \in l.servers)
  IN IF i = 0 THEN None ELSE candidates[i]

(* The server in use, the one of the last visit, the first of the list. *)
Picked(l) ==
  LET current == IF page.server = None THEN select.value ELSE page.server
  IN FirstOf(<<current, storage.server, l.first>>, l)

(* Mutant: the select keeps the first option. *)
RenderServerSelectFirst(l) ==
  /\ select' = [options |-> l.servers, value |-> l.first]
  /\ page' = [page EXCEPT !.server = Picked(l), !.order = StarsOf(Picked(l))]
  /\ Visit(Picked(l))
  /\ saved' = [saved EXCEPT ![activeTabId] =
                 [server |-> Picked(l), project |-> page.project]]
  /\ astray' = FALSE

RenderServerSelect(l) ==
  /\ select' = [options |-> l.servers, value |-> Picked(l)]
  /\ page' = [page EXCEPT !.server = Picked(l), !.order = StarsOf(Picked(l))]
  /\ Visit(Picked(l))
  /\ saved' = [saved EXCEPT ![activeTabId] =
                 [server |-> Picked(l), project |-> page.project]]
  /\ astray' = FALSE

(* The start: loadBootstrap has its list, and localStorage is what earlier *)
(* visits left there.  Without a server there are no projects to wait for. *)
Starts(t, l, s, stars) ==
  LET moves == s # None /\ stars[s] = None /\ Legacy # << >>
      order == IF moves THEN Legacy ELSE << >>
  IN
  /\ tabs = <<t>> /\ activeTabId = t
  /\ saved = [u \in Tabs |-> EmptyTab(IF u = t THEN s ELSE None)]
  /\ select = [options |-> l.servers, value |-> s]
  /\ storage = [server |-> s, migratedTo |-> IF moves THEN s ELSE None,
                stars |-> IF moves THEN [stars EXCEPT ![s] = Legacy]
                                   ELSE stars]
  /\ page = [server |-> s, project |-> None, order |-> order,
             listed |-> None, done |-> s = None]
  /\ calls = IF s = None THEN << >>
             ELSE <<Call("projects", s, "default", None, None)>>
  /\ missed = FALSE /\ overtaken = FALSE /\ astray = FALSE
  /\ clicks = 0

Init ==
  \E t \in Tabs, l \in Lists, last \in Servers \cup {None},
     stars \in [Servers -> {None, << >>}] :
    Starts(t, l, FirstOf(<<last, l.first>>, l), stars)

-----------------------------------------------------------------------------
(***************************************************************************)
(* activateTab: a tab of another server than the selected one waits for    *)
(* the projects of its server before it is shown.  pg is the page its      *)
(* caller has made, rest the calls that stay.                              *)
(***************************************************************************)
Content(pg) == [server |-> pg.server, project |-> pg.project]

NeedsSwitch(s) == s # None /\ select.value # s

Offered(s) == IF s \in select.options THEN s ELSE None

SwitchServer(pg, t, s, p, rest) ==
  /\ NeedsSwitch(s)
  /\ select' = [select EXCEPT !.value = Offered(s)]
  /\ page' = [pg EXCEPT !.server = s, !.order = StarsOf(s)]
  /\ Visit(s)
  /\ astray' = FALSE
  /\ Wait(rest, Call("projects", s, "activate", t, p))

StayOnServer(pg, s, p, rest) ==
  LET now == IF s = None THEN pg.server ELSE s
  IN /\ ~NeedsSwitch(s)
     /\ page' = [AtServer(pg, now) EXCEPT !.project = p]
     /\ IF now = pg.server THEN Remember(now) ELSE Visit(now)
     /\ calls' = rest
     /\ UNCHANGED <<select, astray>>

ActivateTab(t) ==
  /\ IsOpen(t) /\ t # activeTabId /\ saved[t].project # None
  /\ activeTabId' = t
  /\ saved' = [saved EXCEPT ![activeTabId] = Content(page)]
  /\ \/ SwitchServer(page, t, saved[t].server, None, calls)
     \/ StayOnServer(page, saved[t].server, saved[t].project, calls)
  /\ UNCHANGED <<tabs, missed>>

-----------------------------------------------------------------------------
(***************************************************************************)
(* openProjectInTab up to loadFiles.                                       *)
(***************************************************************************)
FirstTabWith(s, p) ==
  SelectInSeq(tabs, LAMBDA t : saved[t] = [server |-> s, project |-> p])

ShowInActiveTab(pg, p, rest) ==
  /\ page' = [pg EXCEPT !.project = p]
  /\ saved' = [saved EXCEPT ![activeTabId] = Content(page')]
  /\ calls' = rest
  /\ UNCHANGED <<tabs, activeTabId, select, storage, astray>>

ShowInOtherTab(pg, t, p, rest) ==
  /\ activeTabId' = t
  /\ saved' = [saved EXCEPT ![activeTabId] = Content(pg),
                            ![t] = [server |-> pg.server, project |-> p]]
  /\ \/ SwitchServer(pg, t, pg.server, p, rest)
     \/ StayOnServer(pg, pg.server, p, rest)

OpenProjectInTab(pg, p, rest) ==
  LET i == FirstTabWith(pg.server, p)
      isEmpty == saved[activeTabId].project = None
  IN \/ /\ IF i = 0 THEN isEmpty ELSE tabs[i] = activeTabId
        /\ ShowInActiveTab(pg, p, rest)
     \/ /\ i # 0 /\ tabs[i] # activeTabId
        /\ ShowInOtherTab(pg, tabs[i], p, rest)
        /\ UNCHANGED tabs
     \/ /\ i = 0 /\ ~isEmpty
        /\ \E t \in Tabs :
             /\ IsNew(t)
             /\ tabs' = Append(tabs, t)
             /\ ShowInOtherTab(pg, t, p, rest)

Listed(s) == IF s = None THEN {} ELSE ProjectsOf[s]

OpenProject(p) ==
  /\ p \in Listed(page.listed)
  /\ OpenProjectInTab(page, p, calls)
  /\ UNCHANGED missed

-----------------------------------------------------------------------------
(***************************************************************************)
(* closeTab, for the tab at position i.                                    *)
(***************************************************************************)
CloseBackgroundTab(i) ==
  /\ tabs[i] # activeTabId
  /\ tabs' = RemoveAt(tabs, i)
  /\ UNCHANGED <<page, select, storage, activeTabId, saved, calls, astray>>

(* Mutant: the projects of the other server are not asked for. *)
ShowNeighbourOldList(u) ==
  LET s == IF saved'[u].server = None THEN page.server ELSE saved'[u].server
  IN /\ activeTabId' = u
     /\ page' = [AtServer(page, s) EXCEPT !.project = saved'[u].project]
     /\ select' = [select EXCEPT !.value = IF s = None \/ @ = s THEN @
                                           ELSE Offered(s)]
     /\ IF s = page.server THEN Remember(s) ELSE Visit(s)
     /\ UNCHANGED <<calls, astray>>

(* The page shows tab u of the tabs that are left. *)
ShowNeighbour(u) ==
  LET s == IF saved'[u].server = None THEN page.server ELSE saved'[u].server
  IN /\ activeTabId' = u
     /\ page' = [AtServer(page, s) EXCEPT !.project = saved'[u].project]
     /\ select' = [select EXCEPT !.value = IF s = None \/ @ = s THEN @
                                           ELSE Offered(s)]
     /\ IF s = page.server THEN Remember(s) /\ UNCHANGED calls
        ELSE Visit(s) /\ LoadProjects(calls, s, "nothing")
     /\ UNCHANGED astray

CloseActiveTab(i) ==
  /\ tabs[i] = activeTabId /\ Len(tabs) > 1
  /\ tabs' = RemoveAt(tabs, i)
  /\ saved' = saved
  /\ ShowNeighbour(tabs'[IF i > 1 THEN i - 1 ELSE 1])

CloseLastTab ==
  /\ Len(tabs) = 1
  /\ \E u \in Tabs :
       /\ IsNew(u)
       /\ tabs' = <<u>>
       /\ saved' = [saved EXCEPT ![u] = EmptyTab(page.server)]
       /\ ShowNeighbour(u)

CloseTab(t) ==
  /\ \E i \in DOMAIN tabs :
       /\ tabs[i] = t /\ saved[t].project # None
       /\ CloseBackgroundTab(i) \/ CloseActiveTab(i) \/ CloseLastTab
  /\ UNCHANGED missed

-----------------------------------------------------------------------------
(***************************************************************************)
(* The select and the refresh button.                                      *)
(***************************************************************************)
ChangeServer(s) ==
  /\ s \in select.options \ {select.value}
  /\ select' = [select EXCEPT !.value = s]
  /\ \E t \in Tabs :
       /\ IsNew(t)
       /\ tabs' = <<t>> /\ activeTabId' = t
       /\ saved' = [saved EXCEPT ![t] = EmptyTab(s)]
  /\ page' = [page EXCEPT !.server = s, !.order = StarsOf(s),
                          !.project = None]
  /\ Visit(s)
  /\ astray' = FALSE
  /\ LoadProjects(calls, s, "default")
  /\ UNCHANGED missed

RefreshProjects ==
  /\ page.server # None
  /\ LoadProjects(calls, page.server, "nothing")
  /\ UNCHANGED <<page, select, storage, tabs, activeTabId, saved, missed,
                 astray>>

-----------------------------------------------------------------------------
(***************************************************************************)
(* The stars: toggleProjectStar and, by drag and drop, reorderStarred-     *)
(* Project.  A list has each project once, so that its first occurrence is *)
(* all that the filter of toggleProjectStar takes out.                     *)
(***************************************************************************)
SetStars(order) ==
  /\ page' = [page EXCEPT !.order = order]
  /\ storage' = [storage EXCEPT !.stars[page.server] = order]
  /\ UNCHANGED <<select, tabs, activeTabId, saved, calls, missed, astray>>

IsStarred(p) == Contains(page.order, p)

ToggleProjectStar(p) ==
  /\ p \in Listed(page.listed) /\ page.server # None
  /\ SetStars(IF IsStarred(p) THEN RemoveFirst(page.order, p)
                              ELSE Append(page.order, p))

(* p is put before or after q. *)
Moved(order, p, q, after) ==
  LET rest == RemoveFirst(order, p)
      i == SelectInSeq(rest, LAMBDA x : x = q)
  IN InsertAt(rest, IF after THEN i + 1 ELSE i, p)

ReorderStarredProject(p, q, after) ==
  /\ {p, q} \subseteq Listed(page.listed) /\ page.server # None
  /\ p # q /\ IsStarred(p) /\ IsStarred(q)
  /\ SetStars(Moved(page.order, p, q, after))

-----------------------------------------------------------------------------
(***************************************************************************)
(* The list of projects has come, and its handler goes on.                 *)
(***************************************************************************)
WithList(c) == [page EXCEPT !.listed = c.server]

(* Mutant: openDefaultStarredProjectIfNeeded asks nothing. *)
StartsDefaultAlways(pg) == TRUE

(* openDefaultStarredProjectIfNeeded: once, and into an empty tab only. *)
StartsDefault(pg) == ~pg.done /\ saved[activeTabId].project = None

FirstStarred(pg) ==
  LET i == SelectInSeq(pg.order, LAMBDA p : p \in Listed(pg.listed))
  IN IF i = 0 THEN None ELSE pg.order[i]

ProjectsLoaded(c, rest) ==
  /\ c.kind = "projects" /\ c.then = "nothing"
  /\ page' = WithList(c)
  /\ calls' = rest
  /\ UNCHANGED <<select, storage, tabs, activeTabId, saved, astray>>

ProjectsLoadedOpenDefault(c, rest) ==
  /\ c.kind = "projects" /\ c.then = "default"
  /\ LET pg == [WithList(c) EXCEPT !.done = TRUE]
     IN IF StartsDefault(WithList(c)) /\ FirstStarred(pg) # None
        THEN OpenProjectInTab(pg, FirstStarred(pg), rest)
        ELSE /\ page' = pg
             /\ calls' = rest
             /\ UNCHANGED <<select, storage, tabs, activeTabId, saved, astray>>

(* activateTab loads its tab into the page, whichever tab is active by     *)
(* now, and openProjectInTab writes the page into that one.                *)
ProjectsLoadedShowTab(c, rest) ==
  /\ c.kind = "projects" /\ c.then = "activate"
  /\ LET s == saved[c.tab].server
         pg == [WithList(c) EXCEPT
                  !.server = IF s = None THEN @ ELSE s,
                  !.project = IF c.project = None THEN saved[c.tab].project
                                                  ELSE c.project]
     IN /\ page' = pg
        /\ saved' = IF c.project = None THEN saved
                    ELSE [saved EXCEPT ![activeTabId] = Content(pg)]
  /\ astray' = (astray \/ c.tab # activeTabId)
  /\ calls' = rest
  /\ UNCHANGED <<select, storage, tabs, activeTabId>>

-----------------------------------------------------------------------------
(***************************************************************************)
(* The configuration form is saved; the answer is the list that is stored  *)
(* then, which is never empty.                                             *)
(***************************************************************************)
SaveConfig ==
  /\ Wait(calls, Call("save", None, "nothing", None, None))
  /\ UNCHANGED <<page, select, storage, tabs, activeTabId, saved, missed,
                 astray>>

ConfigSaved(c, rest, l) ==
  /\ c.kind = "save" /\ l.servers # {}
  /\ RenderServerSelect(l)
  /\ LoadProjects(rest, page'.server, "default")
  /\ UNCHANGED <<tabs, activeTabId, missed>>

(* The rest of the handler is lost. *)
CallFails(c, rest) ==
  /\ calls' = rest
  /\ missed' = (missed \/ c.kind = "projects")
  /\ UNCHANGED <<page, select, storage, tabs, activeTabId, saved, astray>>

(* What comes from the log of the page, a frame that was pending or a key  *)
(* that is pressed copies the page to the active tab, also while           *)
(* activateTab still waits and the page shows the tab before.              *)
SyncStateToActiveTab ==
  /\ saved' = [saved EXCEPT ![activeTabId] = Content(page)]
  /\ UNCHANGED <<page, select, storage, tabs, activeTabId, calls, missed,
                 astray>>

-----------------------------------------------------------------------------
Click ==
  \/ \E t \in Tabs : ActivateTab(t) \/ CloseTab(t)
  \/ \E p \in Projects : OpenProject(p) \/ ToggleProjectStar(p)
  \/ \E p, q \in Projects, after \in BOOLEAN :
       ReorderStarredProject(p, q, after)
  \/ \E s \in Servers : ChangeServer(s)
  \/ RefreshProjects
  \/ SaveConfig

Loaded(c, rest) ==
  /\ \/ ProjectsLoaded(c, rest)
     \/ ProjectsLoadedOpenDefault(c, rest)
     \/ ProjectsLoadedShowTab(c, rest)
  /\ missed' = FALSE

Answer(c, rest) ==
  \/ Loaded(c, rest)
  \/ \E l \in Lists : ConfigSaved(c, rest, l)
  \/ CallFails(c, rest)

Next ==
  \/ /\ Click
     /\ overtaken' = (overtaken /\ ~AsksAnew)
     /\ clicks < MaxClicks /\ clicks' = clicks + 1
  \/ /\ \E i \in DOMAIN calls :
          /\ Answer(calls[i], RemoveAt(calls, i))
          /\ overtaken' = ((overtaken /\ ~AsksAnew) \/ Overtakes(i))
     /\ UNCHANGED clicks
  \/ SyncStateToActiveTab /\ UNCHANGED <<overtaken, clicks>>

Spec == Init /\ [][Next]_vars

-----------------------------------------------------------------------------
(* Types of the variables. *)
MaybeServer == Servers \cup {None}
MaybeProject == Projects \cup {None}
Stars == {s \in Seq(Projects) : IsInjective(s)}

TypeOK ==
  /\ page \in [server : MaybeServer, project : MaybeProject,
               order : Stars, listed : MaybeServer, done : BOOLEAN]
  /\ select.options \subseteq Servers /\ select.value \in MaybeServer
  /\ storage \in [server : MaybeServer, stars : [Servers -> Stars \cup {None}],
                  migratedTo : MaybeServer]
  /\ tabs \in Seq(Tabs) /\ IsInjective(tabs) /\ IsOpen(activeTabId)
  /\ saved \in [Tabs -> [server : MaybeServer, project : MaybeProject]]
  /\ calls \in Seq([kind : {"projects", "save"}, server : MaybeServer,
                    then : {"nothing", "default", "activate"},
                    tab : Tabs \cup {None}, project : MaybeProject])
  /\ {missed, overtaken, astray} \subseteq BOOLEAN
  /\ clicks \in 0..MaxClicks

(***************************************************************************)
(* The stars on the page are those that are stored for the server in use,  *)
(* or the next click on a star would replace the stored ones of one server *)
(* by those of another (persistStarredProjectPaths writes the whole list). *)
(* A switch that ends on a tab that was left meanwhile changes the server  *)
(* of the page and not its stars (app.js:749).                             *)
(***************************************************************************)
StarsAreOfTheServer ==
  ~astray => page.order =
               IF page.server = None \/ storage.stars[page.server] = None
               THEN << >> ELSE storage.stars[page.server]

(***************************************************************************)
(* The select shows the server in use, when it has an option for it, and   *)
(* the next visit starts with it (activateTab, closeTab and                *)
(* renderServerSelect keep the four places in step), until a switch ends   *)
(* on a tab that was left meanwhile.                                       *)
(***************************************************************************)
ServerIsTheSelected ==
  ~astray => /\ page.server \in select.options => select.value = page.server
             /\ storage.server = page.server
             /\ saved[activeTabId].server = page.server

(***************************************************************************)
(* The projects on the page are those of the server in use, unless a list  *)
(* is still waited for or the last one could not be had: whatever makes a  *)
(* server the current one asks for its list.  loadProjects does not look   *)
(* whether the server is still the one it asked (app.js:2153), so a list   *)
(* that has overtaken another is excepted, as is a page gone astray.       *)
(***************************************************************************)
ProjectsAreOfTheServer ==
  (~Waits("projects") /\ ~missed /\ ~overtaken /\ ~astray)
    => page.listed = page.server

(***************************************************************************)
(* A tab that has a project keeps it, though a tab of another server is    *)
(* active for as long as the page still shows the one before.  The code    *)
(* breaks it: SyncStateToActiveTab, or a click, in that time (app.js:557,  *)
(* 731, 741).  No run checks it.                                           *)
(***************************************************************************)
Stays(t) == IsOpen(t) /\ \E i \in DOMAIN tabs' : tabs'[i] = t

TabKeepsItsProject ==
  [][\A t \in Tabs :
       (Stays(t) /\ saved[t].project # None)
         => saved'[t].project = saved[t].project]_vars

(***************************************************************************)
(* No answer takes the user to another tab: the default project is opened  *)
(* once (startupDefaultProjectDone), and only while nothing is shown.      *)
(***************************************************************************)
AnswersLeaveTheUserAlone ==
  [][clicks' = clicks => activeTabId' = activeTabId /\ tabs' = tabs]_vars

(***************************************************************************)
(* The old list of stars goes to one server (app.js:1788 `Migrate the      *)
(* previous global starred list into the first accessed server bucket.`),  *)
(* and a click changes the stars of one project of one server: no list of  *)
(* stars is replaced by another, unless the page has gone astray.          *)
(***************************************************************************)
StarsIn(list) == IF list = None THEN {} ELSE ToSet(list)
Changed(a, b) == (a \ b) \cup (b \ a)

StarsChangeOneByOne ==
  [][~astray => \A s \in Servers :
       LET changed == Changed(StarsIn(storage.stars[s]),
                              StarsIn(storage'.stars[s]))
       IN \/ \A p, q \in changed : p = q
          \/ storage.migratedTo = None /\ storage'.migratedTo = s]_vars
=============================================================================
