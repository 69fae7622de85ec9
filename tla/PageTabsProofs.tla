--------------------------- MODULE PageTabsProofs ---------------------------
(***************************************************************************)
(* Proofs about PageTabs for any number of tabs, projects, files, waiting  *)
(* calls and searches, and for any user: what a tab shows is of its own    *)
(* project, whenever an answer comes and whichever tab is active by then,  *)
(* unless the tab is astray.                                               *)
(***************************************************************************)
EXTENDS PageTabs, TLAPS

(* A view of one project, with hits that its last search may have given;   *)
(* any view when b, that is, in a tab that is astray.                      *)
Sound(v) == OfOneProject(v) /\ (v.hits # None => v.hits.request <= v.request)

GoodViews(b) == {v \in Views : b \/ Sound(v)}

-----------------------------------------------------------------------------
(***************************************************************************)
(* What the server's answers make of a view.                               *)
(***************************************************************************)
IsRange(r) == r.lo \in Positions /\ r.hi \in Positions /\ r.lo <= r.hi

LEMMA RangeTypes ==
  ASSUME NEW at \in Positions
  PROVE  IsRange(TailRange) /\ IsRange(RangeAround(at))
           /\ IsRange(PrevRange(at))
<1>1. \A a, b \in Nat : Less(a, b) \in Nat /\ Less(a, b) <= a
  BY DEF Less
<1>2. \A a, b \in Nat : Smaller(a, b) \in Nat /\ Smaller(a, b) <= a
                         /\ Smaller(a, b) <= b
                         /\ (Smaller(a, b) = a \/ Smaller(a, b) = b)
  BY DEF Smaller
<1>3. Size \in Nat /\ Chunk \in Nat /\ at \in Nat /\ at <= Size
  BY PageTabsAssumption DEF Positions
<1>4. IsRange(TailRange)
  BY <1>1, <1>3 DEF IsRange, TailRange, Positions
<1>5. IsRange(RangeAround(at))
  <2>1. Chunk \div 2 \in Nat
    BY <1>3
  <2> DEFINE lo == Less(at, Chunk \div 2)
             hi == Smaller(Size, lo + Chunk)
  <2>2. lo \in Nat /\ lo <= Size
    BY <1>1, <1>3, <2>1
  <2>3. hi \in Nat /\ lo <= hi /\ hi <= Size
    <3> HIDE DEF lo
    <3>1. lo + Chunk \in Nat /\ lo <= lo + Chunk
      BY <1>3, <2>2
    <3>2. /\ hi \in Nat /\ hi <= Size
          /\ hi = Size \/ hi = lo + Chunk
      BY <1>2, <1>3, <3>1
    <3>3. QED
      BY <2>2, <3>1, <3>2
  <2>4. QED
    BY <1>3, <2>2, <2>3 DEF IsRange, RangeAround, RangeFrom, Positions
<1>6. IsRange(PrevRange(at))
  <2> DEFINE hi == Smaller(at, Size)
             lo == Less(hi, Chunk)
  <2>1. hi \in Nat /\ hi <= Size
    BY <1>2, <1>3
  <2>2. lo \in Nat /\ lo <= hi
    <3> HIDE DEF hi
    <3>1. QED
      BY <1>1, <1>3, <2>1
  <2>3. QED
    BY <1>3, <2>1, <2>2 DEF IsRange, PrevRange, Positions
<1>7. QED
  BY <1>4, <1>5, <1>6

LEMMA TextTypes ==
  ASSUME NEW p \in Projects, NEW f \in Files, NEW r, IsRange(r)
  PROVE  /\ TextOf(p, f, r) \in Seq(Units)
         /\ \A i \in DOMAIN TextOf(p, f, r) : TextOf(p, f, r)[i].project = p
<1>1. r.lo \in Nat /\ r.hi \in Nat /\ r.lo <= r.hi /\ r.hi <= Size
  BY PageTabsAssumption DEF IsRange, Positions
<1>2. \A i \in 1..(r.hi - r.lo) : r.lo + i - 1 \in Positions
  BY <1>1, PageTabsAssumption DEF Positions
<1>3. r.hi - r.lo \in Nat
  BY <1>1
<1>4. \A i \in 1..(r.hi - r.lo) :
        [project |-> p, file |-> f, pos |-> r.lo + i - 1] \in Units
  BY <1>2 DEF Units
<1> HIDE DEF Units
<1>5. TextOf(p, f, r) \in [1..(r.hi - r.lo) -> Units]
  BY <1>4 DEF TextOf
<1>6. TextOf(p, f, r) \in Seq(Units)
  BY <1>3, <1>5
<1>7. QED
  BY <1>6 DEF TextOf

(* A part of a file of its project replaces the text of a view. *)
LEMMA FilledGood ==
  ASSUME NEW b \in BOOLEAN, NEW v \in GoodViews(b), NEW c, NEW r, IsRange(r),
         c.project \in Projects, c.file \in Files, c.project = v.project
  PROVE  LET w == Filled(v, c, r) IN
         /\ w \in GoodViews(b)
         /\ w.project = v.project /\ w.loadingPrev = v.loadingPrev
         /\ w.hits = v.hits
<1>1. r.lo \in Positions /\ r.hi \in Positions
  BY DEF IsRange
<1>2. /\ TextOf(c.project, c.file, r) \in Seq(Units)
      /\ \A i \in DOMAIN TextOf(c.project, c.file, r) :
           TextOf(c.project, c.file, r)[i].project = v.project
  BY TextTypes
<1>3. v \in Views
  BY DEF GoodViews
<1>4. Filled(v, c, r) \in Views
  BY <1>1, <1>2, <1>3 DEF Filled, Views
<1>5. b \/ OfOneProject(Filled(v, c, r))
  BY <1>2, <1>3 DEF Filled, Views, GoodViews, Sound, OfOneProject
<1>6. QED
  BY <1>3, <1>4, <1>5 DEF Filled, Views, GoodViews, Sound

(* An earlier part comes before it. *)
LEMMA PrependedGood ==
  ASSUME NEW b \in BOOLEAN, NEW v \in GoodViews(b), NEW c, NEW r, IsRange(r),
         c.project \in Projects, c.file \in Files, c.project = v.project
  PROVE  LET w == Prepended(v, c, r) IN
         /\ w \in GoodViews(b)
         /\ w.project = v.project /\ w.hits = v.hits
<1> DEFINE new == TextOf(c.project, c.file, r)
           both == new \o v.text
           n == Smaller(Len(both), MaxText)
<1>1. r.lo \in Positions
  BY DEF IsRange
<1>2. /\ v.text \in Seq(Units)
      /\ b \/ \A i \in DOMAIN v.text : v.text[i].project = v.project
  BY DEF GoodViews, Sound, Views, OfOneProject
<1>3. new \in Seq(Units) /\ \A i \in DOMAIN new : new[i].project = v.project
  BY TextTypes
<1>4. /\ both \in Seq(Units)
      /\ b \/ \A i \in 1..Len(both) : both[i].project = v.project
  <2> HIDE DEF new
  <2>1. both \in Seq(Units) /\ Len(both) = Len(new) + Len(v.text)
    <3> HIDE DEF Units
    <3>1. QED
      BY <1>2, <1>3
  <2>2. ASSUME NEW i \in 1..Len(both), ~b
        PROVE  both[i].project = v.project
    <3>1. CASE i <= Len(new)
      <4> HIDE DEF Units
      <4>1. both[i] = new[i] /\ i \in DOMAIN new
        BY <1>2, <1>3, <3>1
      <4>2. QED
        BY <1>3, <4>1
    <3>2. CASE i > Len(new)
      <4> HIDE DEF Units
      <4>1. /\ both[i] = v.text[i - Len(new)]
            /\ i - Len(new) \in DOMAIN v.text
        BY <1>2, <1>3, <2>1, <3>2
      <4>2. QED
        BY <1>2, <2>2, <4>1
    <3>3. QED
      BY <1>3, <3>1, <3>2
  <2>3. QED
    BY <2>1, <2>2
<1>5. n \in Nat /\ n <= Len(both)
  <2>1. Len(both) \in Nat
    <3> HIDE DEF both, Units
    <3>1. QED
      BY <1>4
  <2> HIDE DEF both
  <2>2. QED
    BY <2>1, PageTabsAssumption DEF Smaller
<1>6. /\ SubSeq(both, 1, n) \in Seq(Units)
      /\ b \/ \A i \in DOMAIN SubSeq(both, 1, n) :
                 SubSeq(both, 1, n)[i].project = v.project
  <2> HIDE DEF both, n
  <2>1. QED
    BY <1>4, <1>5
<1>7. v \in Views
  BY DEF GoodViews
<1>8. Prepended(v, c, r) \in Views
  BY <1>1, <1>6, <1>7 DEF Prepended, Views, KeepHead
<1>9. b \/ OfOneProject(Prepended(v, c, r))
  BY <1>6, <1>7 DEF Prepended, Views, KeepHead, GoodViews, Sound, OfOneProject
<1>10. QED
  BY <1>7, <1>8, <1>9 DEF Prepended, Views, GoodViews, Sound

(* The hits of its last search. *)
LEMMA WithHitsGood ==
  ASSUME NEW b \in BOOLEAN, NEW v \in GoodViews(b), NEW c,
         c.project \in Projects,
         c.at \in 1..MaxSearches,
         b \/ (c.project = v.project /\ c.at = v.request)
  PROVE  LET w == WithHits(v, c) IN
         /\ w \in GoodViews(b)
         /\ w.project = v.project /\ w.loadingPrev = v.loadingPrev
         /\ w.text = v.text
         /\ b \/ NotOlder(w.hits, v.hits)
<1>1. c.at \in Nat
  OBVIOUS
<1>2. (v.hits # None /\ ~b) =>
        v.hits.request \in Nat /\ v.hits.request <= c.at
  BY DEF GoodViews, Sound, Views, Hits
<1> DEFINE w == WithHits(v, c)
<1>3. v \in Views
  BY DEF GoodViews
<1>4. /\ w \in Views /\ w.project = v.project /\ w.text = v.text
      /\ w.loadingPrev = v.loadingPrev /\ w.request = v.request
      /\ w.hits = [project |-> c.project, request |-> c.at]
  BY <1>3 DEF WithHits, Views, Hits
<1> HIDE DEF w
<1>5. b \/ Sound(w)
  BY <1>1, <1>4 DEF GoodViews, Sound, OfOneProject
<1>6. w \in GoodViews(b)
  BY <1>4, <1>5 DEF GoodViews
<1>7. b \/ NotOlder(w.hits, v.hits)
  BY <1>1, <1>2, <1>4 DEF NotOlder
<1>8. QED
  BY <1>4, <1>6, <1>7 DEF w

(* Changes of one field that bring in nothing foreign. *)
LEMMA FieldGood ==
  ASSUME NEW b \in BOOLEAN, NEW v \in GoodViews(b)
  PROVE  /\ \A f \in Files : [v EXCEPT !.file = f] \in GoodViews(b)
         /\ [v EXCEPT !.listed = TRUE] \in GoodViews(b)
         /\ \A l \in BOOLEAN : [v EXCEPT !.loadingPrev = l] \in GoodViews(b)
         /\ [v EXCEPT !.hits = None] \in GoodViews(b)
         /\ [v EXCEPT !.text = << >>, !.start = 0, !.end = 0] \in GoodViews(b)
<1>1. 0 \in Positions
  BY PageTabsAssumption DEF Positions
<1>2. \A f \in Files : [v EXCEPT !.file = f] \in GoodViews(b)
  BY DEF GoodViews, Sound, Views, OfOneProject
<1>3. [v EXCEPT !.listed = TRUE] \in GoodViews(b)
  BY DEF GoodViews, Sound, Views, OfOneProject
<1>4. \A l \in BOOLEAN : [v EXCEPT !.loadingPrev = l] \in GoodViews(b)
  BY DEF GoodViews, Sound, Views, OfOneProject
<1>5. [v EXCEPT !.hits = None] \in GoodViews(b)
  BY DEF GoodViews, Sound, Views, OfOneProject
<1>6. [v EXCEPT !.text = << >>, !.start = 0, !.end = 0] \in GoodViews(b)
  <2> DEFINE w == [v EXCEPT !.text = << >>, !.start = 0, !.end = 0]
  <2>1. << >> \in Seq(Units)
    OBVIOUS
  <2>2. w \in Views
    <3> HIDE DEF Units
    <3>1. QED
      BY <1>1, <2>1 DEF GoodViews, Sound, Views
  <2>3. /\ w.text = << >> /\ w.hits = v.hits
        /\ w.project = v.project /\ w.request = v.request
    BY DEF GoodViews, Sound, Views
  <2>4. DOMAIN w.text = {}
    BY <2>3
  <2>5. w \in GoodViews(b)
    <3> HIDE DEF w, Views
    <3>1. QED
      BY <2>2, <2>3, <2>4 DEF GoodViews, Sound, OfOneProject
  <2>6. QED
    BY <2>5
<1>7. QED
  BY <1>2, <1>3, <1>4, <1>5, <1>6

(* A view without a project has nothing to mix up. *)
LEMMA EmptyGood ==
  ASSUME NEW b \in BOOLEAN
  PROVE  /\ EmptyView \in GoodViews(b)
         /\ \A p \in Projects, v \in GoodViews(b) : v.project = None =>
              [v EXCEPT !.project = p] \in GoodViews(b)
<1>1. EmptyView \in GoodViews(b)
  BY PageTabsAssumption DEF EmptyView, GoodViews, Sound, Views, Positions,
     OfOneProject
<1>2. ASSUME NEW p \in Projects, NEW v \in GoodViews(b), v.project = None
      PROVE  [v EXCEPT !.project = p] \in GoodViews(b)
  <2>1. [v EXCEPT !.project = p] \in Views
    BY DEF GoodViews, Views
  <2>2. ASSUME ~b
        PROVE  Sound([v EXCEPT !.project = p])
    <3>1. v.hits = None
      BY <1>2, <2>2, PageTabsAssumption
      DEF GoodViews, Sound, Views, Hits, OfOneProject
    <3>2. ASSUME NEW i \in DOMAIN v.text
          PROVE  FALSE
      <4>1. v.text[i] \in Units /\ v.text[i].project = None
        BY <1>2, <2>2 DEF GoodViews, Sound, Views, OfOneProject
      <4>2. QED
        BY <4>1, PageTabsAssumption DEF Units
    <3>3. QED
      BY <3>1, <3>2 DEF GoodViews, Sound, Views, OfOneProject
  <2>3. QED
    BY <2>1, <2>2 DEF GoodViews
<1>3. QED
  BY <1>1, <1>2

(* loadStateFromTab keeps all but the choice of a file. *)
LEMMA LoadedGood ==
  ASSUME NEW b \in BOOLEAN, NEW v \in GoodViews(b)
  PROVE  LET w == Loaded(v) IN
         /\ w \in GoodViews(b) /\ Kept(w) = Kept(v)
         /\ w.project = v.project /\ w.loadingPrev = v.loadingPrev
         /\ w.hits = v.hits
<1>1. v \in Views
  BY DEF GoodViews
<1>2. CASE v.listed /\ v.file = None
  <2>1. Latest \in Files /\ Loaded(v) = [v EXCEPT !.file = Latest]
    BY <1>2, PageTabsAssumption DEF Loaded
  <2>2. Loaded(v) \in GoodViews(b)
    BY <2>1, FieldGood
  <2>3. QED
    BY <1>1, <2>1, <2>2 DEF Views, Kept
<1>3. CASE ~(v.listed /\ v.file = None)
  BY <1>3 DEF Loaded
<1>4. QED
  BY <1>2, <1>3

-----------------------------------------------------------------------------
(***************************************************************************)
(* The inductive invariant.                                                *)
(***************************************************************************)
(* Nothing is said of what such a tab shows. *)
Astray(t) == t \in stray \/ ~IsOpen(t)

PlaceInv ==
  /\ tabs \in Seq(Tabs)
  /\ \A i, j \in DOMAIN tabs : tabs[i] = tabs[j] => i = j
  /\ activeTabId \in Tabs /\ IsOpen(activeTabId)
  /\ \A t \in stray : t \in Tabs /\ IsOpen(t) /\ saved[t].project # None

ViewInv ==
  /\ page \in GoodViews(Astray(activeTabId))
  /\ page.project = saved[activeTabId].project
  /\ saved \in [Tabs -> Views]
  /\ \A t \in Tabs : saved[t] \in GoodViews(Astray(t))

(* Only a tab with a project wants to follow a file. *)
RealtimeInv ==
  /\ realtimeFile \in [Tabs -> Files \cup {None}]
  /\ \A t \in Tabs :
       realtimeFile[t] # None => IsOpen(t) /\ saved[t].project # None

(* A handler waits for the project that its tab has until it is closed or  *)
(* goes astray.                                                            *)
GoodCall(c) ==
  /\ c.tab \in Tabs /\ c.project \in Projects /\ c.file \in Files \cup {None}
  /\ c.kind \in {"open", "prev", "offset"} => c.file \in Files
  /\ c.kind = "search" => c.at \in 1..MaxSearches
  /\ c.kind # "search" => c.at \in Positions
  /\ c.kind # "files" => c.then \in Projects \cup {None}
  /\ c.then \in Projects => c.kind = "open" /\ c.project = c.then
  /\ Astray(c.tab) \/ saved[c.tab].project = c.project

CallInv == \A c \in calls : GoodCall(c)

(* The flag of a tab, which the page has when the tab is active, is up as  *)
(* long as an earlier part is on its way to it.                            *)
Loading(t) == IF t = activeTabId THEN page.loadingPrev
                                 ELSE saved[t].loadingPrev

PrevInv ==
  /\ \A c \in calls : (c.kind = "prev" /\ IsOpen(c.tab)) => Loading(c.tab)
  /\ OnePrevAtATime

StateInv == /\ PlaceInv /\ ViewInv /\ RealtimeInv
            /\ PageIsActiveTab /\ OneTabPerProject

IInv == StateInv /\ CallInv /\ PrevInv

(* What a step may do to a tab that stays. *)
StepOK ==
  \A t \in Tabs \ stray :
    Stays(t) => NotOlder(saved'[t].hits, saved[t].hits)

-----------------------------------------------------------------------------
(***************************************************************************)
(* Steps that leave the tabs as they are.                                  *)
(***************************************************************************)
SameTabs == tabs' = tabs /\ activeTabId' = activeTabId /\ stray' = stray

(* A view of the same tab, later. *)
Follows(b, w, v) == /\ w \in GoodViews(b)
                    /\ w.project = v.project
                    /\ b \/ NotOlder(w.hits, v.hits)

LEMMA FollowsItself ==
  ASSUME NEW b \in BOOLEAN, NEW v \in GoodViews(b)
  PROVE  Follows(b, v, v) /\ v \in Views /\ NotOlder(v.hits, v.hits)
BY DEF Follows, GoodViews, Views, Hits, NotOlder

LEMMA SavedFollows ==
  ASSUME ViewInv, NEW t \in Tabs
  PROVE  Follows(Astray(t), saved[t], saved[t])
<1>1. Astray(t) \in BOOLEAN /\ saved[t] \in GoodViews(Astray(t))
  BY DEF ViewInv, Astray
<1>2. QED
  BY <1>1, FollowsItself

LEMMA SameAstray ==
  ASSUME SameTabs
  PROVE  \A t : (IsOpen(t)' <=> IsOpen(t)) /\ (Astray(t)' <=> Astray(t))
BY DEF SameTabs, IsOpen, Astray

LEMMA SameTabsState ==
  ASSUME StateInv, SameTabs,
         page' \in GoodViews(Astray(activeTabId)),
         saved' \in [Tabs -> Views],
         page'.project = saved'[activeTabId].project,
         \A t \in Tabs : Follows(Astray(t), saved'[t], saved[t]),
         Astray(activeTabId) \/ Kept(page') = Kept(saved'[activeTabId]),
         RealtimeInv'
  PROVE  StateInv' /\ StepOK
<1> USE DEF StateInv
<1>1. \A t : (IsOpen(t)' <=> IsOpen(t)) /\ Astray(t)' = Astray(t)
  BY SameAstray DEF Astray
<1>2. PlaceInv'
  BY <1>1 DEF PlaceInv, SameTabs, Follows
<1>3. ViewInv'
  BY <1>1 DEF ViewInv, SameTabs, Follows
<1>4. PageIsActiveTab'
  BY DEF PageIsActiveTab, SameTabs, Astray, PlaceInv
<1>5. OneTabPerProject'
  BY <1>1 DEF OneTabPerProject, SameTabs, Follows
<1>6. StepOK
  BY <1>1 DEF StepOK, Stays, Follows, Astray
<1>7. QED
  BY <1>2, <1>3, <1>4, <1>5, <1>6

(* What the page has of its project while a handler waits. *)
LEMMA PageFacts ==
  ASSUME IInv
  PROVE  /\ page \in GoodViews(Astray(activeTabId)) /\ page \in Views
         /\ activeTabId \in Tabs /\ IsOpen(activeTabId)
         /\ page.project = saved[activeTabId].project
         /\ page.project # None => page.project \in Projects
         /\ saved \in [Tabs -> Views]
         /\ Astray(activeTabId) \in BOOLEAN
         /\ Follows(Astray(activeTabId), page, page)
         /\ Astray(activeTabId) \/ Kept(page) = Kept(saved[activeTabId])
<1>1. /\ page \in GoodViews(Astray(activeTabId))
      /\ Astray(activeTabId) \in BOOLEAN
  BY DEF IInv, StateInv, ViewInv, Astray
<1>2. Follows(Astray(activeTabId), page, page) /\ page \in Views
  BY <1>1, FollowsItself
<1>3. QED
  BY <1>1, <1>2
  DEF IInv, StateInv, PlaceInv, ViewInv, PageIsActiveTab, Astray, Views

(* The page is shown anew and its tab gets the copy. *)
LEMMA ShowState ==
  ASSUME StateInv, SameTabs, NEW v, Show(v),
         Follows(Astray(activeTabId), v, page)
  PROVE  /\ RealtimeInv' => StateInv' /\ StepOK
         /\ page' = v
         /\ \A t \in Tabs : /\ saved'[t].project = saved[t].project
                            /\ t # activeTabId => saved'[t] = saved[t]
<1> USE DEF StateInv
<1>1. page' = v /\ saved' = [saved EXCEPT ![activeTabId] = v]
  BY DEF Show, Sync
<1>2. v \in GoodViews(Astray(activeTabId)) /\ v \in Views
  BY DEF Follows, GoodViews
<1>3. activeTabId \in Tabs /\ saved \in [Tabs -> Views]
  BY DEF PlaceInv, ViewInv
<1>4. saved' \in [Tabs -> Views] /\ saved'[activeTabId] = v
  BY <1>1, <1>2, <1>3
<1>5. \A t \in Tabs : t # activeTabId => saved'[t] = saved[t]
  BY <1>1, <1>3
<1>6. /\ page.project = saved[activeTabId].project
      /\ Astray(activeTabId) \/ page.hits = saved[activeTabId].hits
  BY DEF PageIsActiveTab, Kept, ViewInv, Astray
<1>7. Follows(Astray(activeTabId), v, saved[activeTabId])
  BY <1>6 DEF Follows
<1>8. \A t \in Tabs : Follows(Astray(t), saved'[t], saved[t])
  BY <1>3, <1>4, <1>5, <1>7, SavedFollows
<1>9. RealtimeInv' => StateInv' /\ StepOK
  BY <1>1, <1>2, <1>4, <1>8, SameTabsState
<1>10. QED
  BY <1>1, <1>5, <1>8, <1>9 DEF Follows

(* The copy of a tab is changed that is in the background, or astray. *)
LEMMA CopyState ==
  ASSUME StateInv, SameTabs, page' = page,
         NEW t \in Tabs, t # activeTabId \/ Astray(t),
         NEW w, saved' = [saved EXCEPT ![t] = w],
         Follows(Astray(t), w, saved[t])
  PROVE  /\ RealtimeInv' => StateInv' /\ StepOK
         /\ \A u \in Tabs : saved'[u].project = saved[u].project
         /\ \A u \in Tabs : u # t => saved'[u] = saved[u]
         /\ saved'[t] = w
<1> USE DEF StateInv
<1>1. w \in Views
  BY DEF Follows, GoodViews
<1>2. /\ activeTabId \in Tabs /\ saved \in [Tabs -> Views]
      /\ page \in GoodViews(Astray(activeTabId))
      /\ page.project = saved[activeTabId].project
  BY DEF PlaceInv, ViewInv
<1>3. /\ saved' \in [Tabs -> Views] /\ saved'[t] = w
      /\ \A u \in Tabs : u # t => saved'[u] = saved[u]
  BY <1>1, <1>2
<1>4. \A u \in Tabs : Follows(Astray(u), saved'[u], saved[u])
  BY <1>2, <1>3, SavedFollows
<1>5. Astray(activeTabId) \/ Kept(page') = Kept(saved'[activeTabId])
  BY <1>2, <1>3 DEF PageIsActiveTab, Astray
<1>6. page'.project = saved'[activeTabId].project
  BY <1>2, <1>4 DEF Follows
<1>7. RealtimeInv' => StateInv' /\ StepOK
  BY <1>2, <1>3, <1>4, <1>5, <1>6, SameTabsState
<1>8. QED
  BY <1>3, <1>4, <1>7 DEF Follows

(* Nothing that is shown changes. *)
LEMMA QuietState ==
  ASSUME StateInv, SameTabs, page' = page, saved' = saved, RealtimeInv'
  PROVE  StateInv' /\ StepOK
<1> USE DEF StateInv
<1>1. \A t \in Tabs : Follows(Astray(t), saved'[t], saved[t])
  BY SavedFollows
<1>2. QED
  BY <1>1, SameTabsState DEF PageIsActiveTab, ViewInv, Astray

(* A tab wants a file only if it has a project. *)
RealtimeStep ==
  \/ UNCHANGED realtimeFile
  \/ \E t \in Tabs, f \in Files \cup {None} :
       /\ WantsRealtime(t, f)
       /\ f # None => IsOpen(t) /\ saved[t].project # None

ProjectsKept == \A t \in Tabs : saved'[t].project = saved[t].project

LEMMA RealtimeKept ==
  ASSUME StateInv, tabs' = tabs, RealtimeStep,
         \A t \in Tabs : saved[t].project # None => saved'[t].project # None
  PROVE  RealtimeInv'
<1>1. \A u \in Tabs : IsOpen(u)' <=> IsOpen(u)
  BY DEF IsOpen
<1>2. CASE UNCHANGED realtimeFile
  BY <1>1, <1>2 DEF StateInv, RealtimeInv
<1>3. ASSUME NEW t \in Tabs, NEW f \in Files \cup {None},
             WantsRealtime(t, f),
             f # None => IsOpen(t) /\ saved[t].project # None
      PROVE  RealtimeInv'
  <2>1. /\ realtimeFile \in [Tabs -> Files \cup {None}]
        /\ realtimeFile' = [realtimeFile EXCEPT ![t] = f]
    BY <1>3 DEF StateInv, RealtimeInv, WantsRealtime
  <2>2. /\ realtimeFile' \in [Tabs -> Files \cup {None}]
        /\ realtimeFile'[t] = f
        /\ \A u \in Tabs : u # t => realtimeFile'[u] = realtimeFile[u]
    BY <2>1
  <2>3. ASSUME NEW u \in Tabs, realtimeFile'[u] # None
        PROVE  IsOpen(u) /\ saved[u].project # None
    BY <1>3, <2>2, <2>3 DEF StateInv, RealtimeInv
  <2>4. QED
    BY <1>1, <2>2, <2>3 DEF RealtimeInv
<1>4. QED
  BY <1>2, <1>3 DEF RealtimeStep

-----------------------------------------------------------------------------
(***************************************************************************)
(* The handlers that wait.                                                 *)
(***************************************************************************)
CallRecords ==
  [kind : {"files", "open", "prev", "offset", "search"}, number : Nat,
   tab : Tabs, project : Projects, file : Files \cup {None}, at : Nat,
   then : Projects \cup {None, OpenNewest}]

(* No handler starts to wait that does not fit its tab, or for an earlier  *)
(* part.                                                                   *)
CallsGrow ==
  \A c \in calls' : c \in calls \/ (GoodCall(c) /\ c.kind # "prev")

LEMMA Numbering ==
  ASSUME NEW e \in CallRecords, NEW n
  PROVE  LET d == [e EXCEPT !.number = n] IN
         /\ d.kind = e.kind /\ d.tab = e.tab /\ d.project = e.project
         /\ d.file = e.file /\ d.at = e.at /\ d.then = e.then
BY DEF CallRecords

LEMMA WaitGrows ==
  ASSUME NEW e \in CallRecords, GoodCall(e), e.kind # "prev",
         Wait(e) \/ \E c \in calls : Continues(c, e)
  PROVE  CallsGrow
<1>1. \A n : /\ GoodCall([e EXCEPT !.number = n])
             /\ [e EXCEPT !.number = n].kind # "prev"
  <2> TAKE n
  <2> DEFINE d == [e EXCEPT !.number = n]
  <2>1. /\ d.kind = e.kind /\ d.tab = e.tab /\ d.project = e.project
        /\ d.file = e.file /\ d.at = e.at /\ d.then = e.then
    BY Numbering
  <2> HIDE DEF d
  <2>2. GoodCall(d) /\ d.kind # "prev"
    BY <2>1 DEF GoodCall
  <2>3. QED
    BY <2>2 DEF d
<1>2. \E n : calls' \subseteq calls \cup {[e EXCEPT !.number = n]}
  BY DEF Wait, Continues
<1>3. QED
  BY <1>1, <1>2 DEF CallsGrow

LEMMA FewerGrow ==
  ASSUME UNCHANGED calls \/ \E c \in calls : Returns(c)
  PROVE  CallsGrow
BY DEF Returns, CallsGrow

(* A handler that leaves the tabs and their flags as they are. *)
LEMMA HandlerCalls ==
  ASSUME SameTabs, ProjectsKept, CallInv, PrevInv, CallsGrow,
         \A c \in calls' :
           (c \in calls /\ c.kind = "prev" /\ IsOpen(c.tab) /\ Loading(c.tab))
             => Loading(c.tab)'
  PROVE  CallInv' /\ PrevInv'
<1>1. \A t : (IsOpen(t)' <=> IsOpen(t)) /\ (Astray(t)' <=> Astray(t))
  BY SameAstray
<1>2. \A c : GoodCall(c) => GoodCall(c)'
  BY <1>1 DEF GoodCall, ProjectsKept
<1>3. CallInv'
  BY <1>2 DEF CallInv, CallsGrow
<1>4. \A c \in calls' : c.kind = "prev" => c \in calls
  BY DEF CallsGrow
<1>5. OnePrevAtATime'
  BY <1>1, <1>4 DEF PrevInv, OnePrevAtATime
<1>6. \A c \in calls' : (c.kind = "prev" /\ IsOpen(c.tab)') => Loading(c.tab)'
  BY <1>1, <1>4 DEF PrevInv
<1>7. QED
  BY <1>3, <1>5, <1>6 DEF PrevInv

(* The handlers that show something in the active tab. *)
LEMMA ShowInv ==
  ASSUME IInv, SameTabs, NEW v, Show(v),
         Follows(Astray(activeTabId), v, page),
         v.loadingPrev = page.loadingPrev, RealtimeStep, CallsGrow
  PROVE  IInv' /\ StepOK
<1> USE DEF IInv
<1>1. /\ RealtimeInv' => StateInv' /\ StepOK
      /\ page' = v
      /\ \A t \in Tabs : /\ saved'[t].project = saved[t].project
                         /\ t # activeTabId => saved'[t] = saved[t]
  BY ShowState
<1>2. ProjectsKept
  BY <1>1 DEF ProjectsKept
<1>3. \A t \in Tabs : Loading(t)' = Loading(t)
  BY <1>1 DEF Loading, SameTabs
<1>4. \A c \in calls : c.tab \in Tabs
  BY DEF CallInv, GoodCall
<1>5. CallInv' /\ PrevInv'
  BY <1>2, <1>3, <1>4, HandlerCalls
<1>6. RealtimeInv'
  BY <1>2, RealtimeKept DEF ProjectsKept, SameTabs
<1>7. QED
  BY <1>1, <1>5, <1>6

(* Those that show nothing. *)
LEMMA QuietInv ==
  ASSUME IInv, SameTabs, page' = page, saved' = saved,
         RealtimeStep, CallsGrow
  PROVE  IInv' /\ StepOK
<1> USE DEF IInv
<1>1. ProjectsKept
  BY DEF ProjectsKept
<1>2. RealtimeInv'
  BY <1>1, RealtimeKept DEF ProjectsKept, SameTabs
<1>3. StateInv' /\ StepOK
  BY <1>2, QuietState
<1>4. \A t : Loading(t)' = Loading(t)
  BY DEF Loading, SameTabs
<1>5. CallInv' /\ PrevInv'
  BY <1>1, <1>4, HandlerCalls
<1>6. QED
  BY <1>3, <1>5

(* A tab that answers come to late is not the active one, or it is astray. *)
LEMMA LateTab ==
  ASSUME IInv, NEW c \in calls, ~InContext(c), IsOpen(c.tab)
  PROVE  /\ c.tab \in Tabs /\ Astray(c.tab) \in BOOLEAN
         /\ c.tab # activeTabId \/ Astray(c.tab)
         /\ saved[c.tab].project = c.project => c.tab # activeTabId
         /\ Astray(c.tab) \/ saved[c.tab].project = c.project
         /\ saved[c.tab] \in GoodViews(Astray(c.tab))
BY PageFacts DEF IInv, StateInv, ViewInv, CallInv, GoodCall, InContext, Astray

(* Fields that show nothing foreign. *)
LEMMA FieldFollows ==
  ASSUME NEW b \in BOOLEAN, NEW v \in GoodViews(b)
  PROVE  /\ \A f \in Files : LET w == [v EXCEPT !.file = f] IN
              Follows(b, w, v) /\ w.loadingPrev = v.loadingPrev
         /\ LET w == [v EXCEPT !.hits = None] IN
              Follows(b, w, v) /\ w.loadingPrev = v.loadingPrev
         /\ LET w == [v EXCEPT !.text = << >>, !.start = 0, !.end = 0] IN
              Follows(b, w, v) /\ w.loadingPrev = v.loadingPrev
         /\ LET w == [v EXCEPT !.loadingPrev = FALSE] IN Follows(b, w, v)
<1>1. v \in Views /\ NotOlder(v.hits, v.hits)
  BY FollowsItself
<1>2. ASSUME NEW f \in Files
      PROVE  LET w == [v EXCEPT !.file = f] IN
        /\ w \in GoodViews(b) /\ w.project = v.project /\ w.hits = v.hits
        /\ w.loadingPrev = v.loadingPrev
  <2>1. [v EXCEPT !.file = f] \in GoodViews(b)
    BY FieldGood
  <2>2. QED
    BY <1>1, <2>1 DEF Views
<1>3. LET w == [v EXCEPT !.hits = None] IN
        /\ w \in GoodViews(b) /\ w.project = v.project /\ w.hits = None
        /\ w.loadingPrev = v.loadingPrev
  <2>1. [v EXCEPT !.hits = None] \in GoodViews(b)
    BY FieldGood
  <2>2. QED
    BY <1>1, <2>1 DEF Views
<1>4. LET w == [v EXCEPT !.text = << >>, !.start = 0, !.end = 0] IN
        /\ w \in GoodViews(b) /\ w.project = v.project /\ w.hits = v.hits
        /\ w.loadingPrev = v.loadingPrev
  <2>1. [v EXCEPT !.text = << >>, !.start = 0, !.end = 0] \in GoodViews(b)
    BY FieldGood
  <2>2. QED
    BY <1>1, <2>1 DEF Views
<1>5. LET w == [v EXCEPT !.loadingPrev = FALSE] IN
        w \in GoodViews(b) /\ w.project = v.project /\ w.hits = v.hits
  <2>1. [v EXCEPT !.loadingPrev = FALSE] \in GoodViews(b)
    BY FieldGood
  <2>2. QED
    BY <1>1, <2>1 DEF Views
<1>6. QED
  BY <1>1, <1>2, <1>3, <1>4, <1>5 DEF Follows, NotOlder

(* openFile, openLatestRealtime and the like start to wait. *)
LEMMA StartsToWait ==
  ASSUME IInv, NEW t, NEW p, t = activeTabId, p = page.project, p # None,
         NEW k \in {"files", "open", "offset", "search"},
         NEW f \in Files \cup {None}, NEW at, NEW th \in {None, OpenNewest},
         k \in {"open", "offset"} => f \in Files,
         k = "search" => at \in 1..MaxSearches,
         k # "search" => at \in Positions,
         k # "files" => th = None,
         NEW e, e = [Call(k, t, p, f, at) EXCEPT !.then = th],
         Wait(e) \/ \E c \in calls : Continues(c, e)
  PROVE  CallsGrow
<1>1. t \in Tabs /\ p \in Projects /\ saved[t].project = p
  BY PageFacts
<1>2. at \in Nat
  BY PageTabsAssumption DEF Positions
<1>3. th \notin Projects /\ th \in Projects \cup {None, OpenNewest}
  BY PageTabsAssumption
<1>4. e = [kind |-> k, number |-> 0, tab |-> t, project |-> p, file |-> f,
           at |-> at, then |-> th]
  BY DEF Call
<1>5. e \in CallRecords
  BY <1>1, <1>2, <1>3, <1>4 DEF CallRecords
<1>6. /\ e.kind = k /\ e.tab = t /\ e.project = p /\ e.file = f
      /\ e.at = at /\ e.then = th
  BY <1>4
<1>7. GoodCall(e) /\ e.kind # "prev"
  BY <1>1, <1>3, <1>6 DEF GoodCall
<1>8. QED
  BY <1>5, <1>7, WaitGrows

(* Most go on with nothing. *)
LEMMA CallAlone ==
  ASSUME NEW k, NEW t, NEW p, NEW f, NEW at
  PROVE  Call(k, t, p, f, at) = [Call(k, t, p, f, at) EXCEPT !.then = None]
BY DEF Call

LEMMA OpenFileInv ==
  ASSUME IInv, UNCHANGED stray, NEW f \in Files, OpenFile(f)
  PROVE  IInv' /\ StepOK
<1>1. PICK v : v = [page EXCEPT !.file = f]
  OBVIOUS
<1>2. /\ Follows(Astray(activeTabId), v, page)
      /\ v.loadingPrev = page.loadingPrev
      /\ Show(v)
  BY <1>1, PageFacts, FieldFollows DEF OpenFile, Show, Sync
<1>3. PICK t, p, e : /\ t = activeTabId /\ p = page.project
                     /\ e = Call("open", t, p, f, 0)
                     /\ calls' = calls \cup {[e EXCEPT !.number = NextNumber]}
  BY DEF OpenFile, Wait
<1>4. Wait(e)
  BY <1>3 DEF OpenFile, Wait
<1>5. p # None /\ 0 \in Positions
  BY <1>3, PageTabsAssumption DEF OpenFile, Positions
<1>6. CallsGrow
  BY <1>3, <1>4, <1>5, CallAlone, StartsToWait
<1>7. QED
  BY <1>2, <1>6, ShowInv DEF OpenFile, SameTabs, RealtimeStep

LEMMA OpenLatestInv ==
  ASSUME IInv, UNCHANGED stray, OpenLatestRealtime
  PROVE  IInv' /\ StepOK
<1>1. Latest \in Files /\ 0 \in Positions
  BY PageTabsAssumption DEF Positions
<1>2. SameTabs /\ page.project # None
  BY DEF OpenLatestRealtime, SameTabs
<1>3. PICK t, p : t = activeTabId /\ p = page.project
  OBVIOUS
<1>4. CASE /\ Show([page EXCEPT !.file = Latest])
           /\ Wait(Call("open", activeTabId, page.project, Latest, 0))
           /\ WantsRealtime(activeTabId, Latest)
  <2>1. PICK v : v = [page EXCEPT !.file = Latest]
    OBVIOUS
  <2>2. /\ Follows(Astray(activeTabId), v, page)
        /\ v.loadingPrev = page.loadingPrev
        /\ Show(v)
    BY <1>1, <1>4, <2>1, PageFacts, FieldFollows DEF Show, Sync
  <2>3. PICK e : e = Call("open", t, p, Latest, 0)
    OBVIOUS
  <2>4. Wait(e)
    BY <1>3, <1>4, <2>3 DEF Wait
  <2>5. CallsGrow
    BY <1>1, <1>2, <1>3, <2>3, <2>4, CallAlone, StartsToWait
  <2>6. WantsRealtime(t, Latest)
    BY <1>3, <1>4 DEF WantsRealtime
  <2>7. RealtimeStep
    BY <1>1, <1>2, <1>3, <2>6, PageFacts DEF RealtimeStep
  <2>8. QED
    BY <1>2, <2>2, <2>5, <2>7, ShowInv
<1>5. CASE /\ Wait(LoadFiles(activeTabId, page.project, None))
           /\ UNCHANGED <<page, saved, realtimeFile, pausedByIdle>>
  <2>1. PICK e : e = [Call("files", t, p, None, 0) EXCEPT !.then = OpenNewest]
    OBVIOUS
  <2>2. Wait(e)
    BY <1>3, <1>5, <2>1 DEF Wait, LoadFiles
  <2>3. CallsGrow
    BY <1>1, <1>2, <1>3, <2>1, <2>2, StartsToWait
  <2>4. QED
    BY <1>2, <1>5, <2>3, QuietInv DEF RealtimeStep
<1>6. QED
  BY <1>4, <1>5 DEF OpenLatestRealtime

LEMMA RefreshFilesInv ==
  ASSUME IInv, UNCHANGED stray, RefreshFiles
  PROVE  IInv' /\ StepOK
<1>1. PICK t, p, f, e : /\ t = activeTabId /\ p = page.project /\ f = page.file
                        /\ e = Call("files", t, p, f, 0)
  OBVIOUS
<1>2. Wait(e)
  BY <1>1 DEF RefreshFiles, Wait
<1>3. p # None /\ f \in Files \cup {None} /\ 0 \in Positions
  BY <1>1, PageFacts, PageTabsAssumption DEF RefreshFiles, Positions, Views
<1>4. CallsGrow
  BY <1>1, <1>2, <1>3, CallAlone, StartsToWait
<1>5. QED
  BY <1>4, QuietInv DEF RefreshFiles, SameTabs, RealtimeStep

(* The list of files has come: one of them is selected. *)
LEMMA ListedFollows ==
  ASSUME NEW b \in BOOLEAN, NEW v \in GoodViews(b), NEW f \in Files
  PROVE  LET w == [v EXCEPT !.listed = TRUE, !.file = f] IN
         Follows(b, w, v) /\ w.loadingPrev = v.loadingPrev
<1>1. v \in Views
  BY DEF GoodViews
<1> DEFINE u == [v EXCEPT !.listed = TRUE]
<1>2. /\ u \in GoodViews(b) /\ u.project = v.project
      /\ u.loadingPrev = v.loadingPrev /\ u.hits = v.hits
  BY <1>1, FieldGood DEF Views
<1>3. [v EXCEPT !.listed = TRUE, !.file = f] = [u EXCEPT !.file = f]
  BY <1>1 DEF Views
<1>4. Follows(b, [u EXCEPT !.file = f], u)
      /\ [u EXCEPT !.file = f].loadingPrev = u.loadingPrev
  <2> HIDE DEF u
  <2>1. QED
    BY <1>2, FieldFollows
<1>5. QED
  BY <1>2, <1>3, <1>4 DEF Follows

LEMMA FilesLoadedInv ==
  ASSUME IInv, UNCHANGED stray, NEW c \in calls, FilesLoaded(c)
  PROVE  IInv' /\ StepOK
<1>1. /\ SameTabs /\ c.tab = activeTabId /\ page.project = c.project
      /\ GoodCall(c) /\ c.tab \in Tabs /\ c.project \in Projects
      /\ c.project # None /\ c.file \in Files \cup {None}
  BY PageTabsAssumption
  DEF FilesLoaded, InContext, SameTabs, IInv, CallInv, GoodCall
<1>2. Latest \in Files /\ 0 \in Positions
  BY PageTabsAssumption DEF Positions
<1>3. CASE /\ Show([page EXCEPT !.listed = TRUE, !.file = FileAfter(c)])
           /\ Returns(c) /\ UNCHANGED realtimeFile
  <2>1. PICK f \in Files : f = FileAfter(c)
    BY <1>1, <1>2, PageFacts DEF FileAfter, Views
  <2>2. PICK v : v = [page EXCEPT !.listed = TRUE, !.file = f]
    OBVIOUS
  <2>3. /\ Follows(Astray(activeTabId), v, page)
        /\ v.loadingPrev = page.loadingPrev
        /\ Show(v)
    BY <1>3, <2>1, <2>2, PageFacts, ListedFollows DEF Show, Sync
  <2>4. CallsGrow
    BY <1>3, FewerGrow
  <2>5. QED
    BY <1>1, <1>3, <2>3, <2>4, ShowInv DEF RealtimeStep
<1>4. CASE /\ Show([page EXCEPT !.listed = TRUE, !.file = Latest])
           /\ Continues(c, Call("open", c.tab, c.project, Latest, 0))
           /\ WantsRealtime(c.tab, Latest)
  <2>1. PICK v : v = [page EXCEPT !.listed = TRUE, !.file = Latest]
    OBVIOUS
  <2>2. /\ Follows(Astray(activeTabId), v, page)
        /\ v.loadingPrev = page.loadingPrev
        /\ Show(v)
    BY <1>2, <1>4, <2>1, PageFacts, ListedFollows DEF Show, Sync
  <2>3. PICK e : e = Call("open", c.tab, c.project, Latest, 0)
    OBVIOUS
  <2>4. Continues(c, e)
    BY <1>4, <2>3 DEF Continues
  <2>5. CallsGrow
    BY <1>1, <1>2, <2>3, <2>4, CallAlone, StartsToWait
  <2>6. RealtimeStep
    BY <1>1, <1>2, <1>4, PageFacts DEF RealtimeStep
  <2>7. QED
    BY <1>1, <2>2, <2>5, <2>6, ShowInv
<1>5. QED
  BY <1>3, <1>4 DEF FilesLoaded

LEMMA FileOpenedInv ==
  ASSUME IInv, UNCHANGED stray, NEW c \in calls, FileOpened(c)
  PROVE  IInv' /\ StepOK
<1>1. /\ SameTabs /\ c.tab = activeTabId /\ page.project = c.project
      /\ GoodCall(c) /\ c.tab \in Tabs /\ c.project \in Projects
      /\ c.project # None /\ c.file \in Files
      /\ c.then = None \/ c.then = c.project
  BY PageTabsAssumption
  DEF FileOpened, InContext, SameTabs, IInv, CallInv, GoodCall
<1>2. 0 \in Positions /\ IsRange(TailRange)
  BY PageTabsAssumption, RangeTypes DEF Positions
<1>3. PICK v : v = Filled(page, c, TailRange)
  OBVIOUS
<1>4. /\ v \in GoodViews(Astray(activeTabId)) /\ v.project = page.project
      /\ v.loadingPrev = page.loadingPrev /\ v.hits = page.hits
  BY <1>1, <1>2, <1>3, PageFacts, FilledGood
<1>5. Follows(Astray(activeTabId), v, page)
  BY <1>4, PageFacts DEF Follows
<1>6. [v EXCEPT !.project = v.project] = v
  BY <1>4 DEF GoodViews, Views
<1>7. GoOn(c, Filled(page, c, TailRange)) = v
  BY <1>1, <1>3, <1>4, <1>6 DEF GoOn
<1>8. Show(v)
  BY <1>7 DEF FileOpened, Show, Sync
<1>9. RealtimeStep
  BY <1>1, PageFacts DEF FileOpened, RealtimeStep
<1>10. CASE Returns(c)
  <2>1. CallsGrow
    BY <1>10, FewerGrow
  <2>2. QED
    BY <1>1, <1>4, <1>5, <1>8, <1>9, <2>1, ShowInv
<1>11. CASE Continues(c, Call("files", c.tab, c.project, None, 0))
  <2>1. PICK e : e = Call("files", c.tab, c.project, None, 0)
    OBVIOUS
  <2>2. Continues(c, e)
    BY <1>11, <2>1 DEF Continues
  <2>3. CallsGrow
    BY <1>1, <1>2, <2>1, <2>2, CallAlone, StartsToWait
  <2>4. QED
    BY <1>1, <1>4, <1>5, <1>8, <1>9, <2>3, ShowInv
<1>12. QED
  BY <1>10, <1>11 DEF FileOpened, NextCall

(* The handler that loads an earlier part has ended, whatever it shows.    *)
LEMMA PrevEnds ==
  ASSUME IInv, NEW c \in calls, c.kind = "prev", InContext(c), Returns(c),
         SameTabs, UNCHANGED realtimeFile,
         NEW v, Show(v), Follows(Astray(activeTabId), v, page)
  PROVE  IInv' /\ StepOK
<1> USE DEF IInv
<1>1. /\ RealtimeInv' => StateInv' /\ StepOK
      /\ \A t \in Tabs : /\ saved'[t].project = saved[t].project
                         /\ t # activeTabId => saved'[t] = saved[t]
  BY ShowState
<1>2. ProjectsKept
  BY <1>1 DEF ProjectsKept
<1>3. CallsGrow
  BY FewerGrow
<1>4. ASSUME NEW d \in calls', d.kind = "prev", d \in calls, IsOpen(d.tab),
             Loading(d.tab)
      PROVE  Loading(d.tab)'
  <2>1. d # c /\ d.tab # c.tab
    BY <1>4 DEF Returns, PrevInv, OnePrevAtATime
  <2>2. d.tab \in Tabs /\ d.tab # activeTabId
    BY <2>1, <1>4 DEF InContext, CallInv, GoodCall
  <2>3. QED
    BY <1>1, <1>4, <2>2 DEF Loading, SameTabs
<1>5. CallInv' /\ PrevInv'
  BY <1>2, <1>3, <1>4, HandlerCalls
<1>6. RealtimeInv'
  BY <1>2, RealtimeKept DEF ProjectsKept, SameTabs, RealtimeStep
<1>7. QED
  BY <1>1, <1>5, <1>6

LEMMA PrevChunkLoadedInv ==
  ASSUME IInv, UNCHANGED stray, NEW c \in calls, PrevChunkLoaded(c)
  PROVE  IInv' /\ StepOK
<1>1. /\ c.kind = "prev" /\ InContext(c) /\ Returns(c)
      /\ SameTabs /\ UNCHANGED realtimeFile
      /\ Show(Prepended(page, c, PrevRange(c.at)))
  BY DEF PrevChunkLoaded, SameTabs
<1>2. /\ c.file \in Files /\ c.at \in Positions /\ c.project \in Projects
      /\ c.project = page.project
  BY <1>1 DEF IInv, CallInv, GoodCall, InContext
<1>3. PICK v : v = Prepended(page, c, PrevRange(c.at))
  OBVIOUS
<1>4. IsRange(PrevRange(c.at))
  BY <1>2, RangeTypes
<1>5. /\ v \in GoodViews(Astray(activeTabId))
      /\ v.project = page.project
      /\ v.hits = page.hits
  BY <1>2, <1>3, <1>4, PageFacts, PrependedGood
<1>6. Follows(Astray(activeTabId), v, page)
  BY <1>5, PageFacts DEF Follows
<1>7. Show(v)
  BY <1>1, <1>3 DEF Show, Sync
<1>8. QED
  BY <1>1, <1>6, <1>7, PrevEnds

LEMMA CallFailsInv ==
  ASSUME IInv, UNCHANGED stray, NEW c \in calls, CallFails(c)
  PROVE  IInv' /\ StepOK
<1>1. SameTabs /\ UNCHANGED realtimeFile /\ Returns(c)
  BY DEF CallFails, SameTabs
<1>2. CASE c.kind = "prev" /\ InContext(c)
  <2>1. PICK v : v = [page EXCEPT !.loadingPrev = FALSE]
    OBVIOUS
  <2>2. Follows(Astray(activeTabId), v, page) /\ Show(v)
    BY <1>2, <2>1, PageFacts, FieldFollows DEF CallFails, Show, Sync
  <2>3. QED
    BY <1>1, <1>2, <2>2, PrevEnds
<1>3. CASE ~(c.kind = "prev" /\ InContext(c))
  <2>1. page' = page /\ saved' = saved
    BY <1>3 DEF CallFails
  <2>2. CallsGrow
    BY <1>1, FewerGrow
  <2>3. QED
    BY <1>1, <2>1, <2>2, QuietInv DEF RealtimeStep
<1>4. QED
  BY <1>2, <1>3

(* The switch is turned off, a tab is paused, the panel or the text        *)
(* cleared.                                                                *)
LEMMA SmallInv ==
  ASSUME IInv, UNCHANGED stray,
         \/ SetRealtimeFollowOff \/ ResetSearchPanel \/ ClearViewer
         \/ \E t \in Tabs : PauseIdleTab(t)
         \/ \E c \in calls : HitShownLate(c)
  PROVE  IInv' /\ StepOK
<1>1. CASE SetRealtimeFollowOff
  <2>1. PICK t, v : t = activeTabId /\ v = page
    OBVIOUS
  <2>2. WantsRealtime(t, None) /\ Show(v)
    BY <1>1, <2>1 DEF SetRealtimeFollowOff, WantsRealtime, Show, Sync
  <2>3. RealtimeStep /\ Follows(Astray(activeTabId), v, page)
    BY <2>1, <2>2, PageFacts DEF RealtimeStep
  <2>4. SameTabs /\ CallsGrow
    BY <1>1, FewerGrow DEF SetRealtimeFollowOff, SameTabs
  <2>5. QED
    BY <2>1, <2>2, <2>3, <2>4, ShowInv
<1>2. CASE ResetSearchPanel
  <2>1. PICK v : v = [page EXCEPT !.hits = None]
    OBVIOUS
  <2>2. /\ Follows(Astray(activeTabId), v, page)
        /\ v.loadingPrev = page.loadingPrev
        /\ Show(v)
    BY <1>2, <2>1, PageFacts, FieldFollows DEF ResetSearchPanel, Show, Sync
  <2>3. SameTabs /\ CallsGrow /\ RealtimeStep
    BY <1>2, FewerGrow DEF ResetSearchPanel, SameTabs, RealtimeStep
  <2>4. QED
    BY <2>2, <2>3, ShowInv
<1>3. CASE ClearViewer
  <2>1. PICK v : v = [page EXCEPT !.text = << >>, !.start = 0, !.end = 0]
    OBVIOUS
  <2>2. /\ Follows(Astray(activeTabId), v, page)
        /\ v.loadingPrev = page.loadingPrev
        /\ Show(v)
    BY <1>3, <2>1, PageFacts, FieldFollows DEF ClearViewer, Show, Sync
  <2>3. SameTabs /\ CallsGrow /\ RealtimeStep
    BY <1>3, FewerGrow DEF ClearViewer, SameTabs, RealtimeStep
  <2>4. QED
    BY <2>2, <2>3, ShowInv
<1>4. ASSUME NEW t \in Tabs, PauseIdleTab(t)
      PROVE  IInv' /\ StepOK
  <2>1. SameTabs /\ CallsGrow /\ RealtimeStep /\ page' = page /\ saved' = saved
    BY <1>4, FewerGrow DEF PauseIdleTab, SameTabs, RealtimeStep
  <2>2. QED
    BY <2>1, QuietInv
<1>5. ASSUME NEW c \in calls, HitShownLate(c)
      PROVE  IInv' /\ StepOK
  <2>1. PICK v : v = page
    OBVIOUS
  <2>2. Show(v) /\ Follows(Astray(activeTabId), v, page)
    BY <1>5, <2>1, PageFacts DEF HitShownLate, Show, Sync
  <2>3. SameTabs /\ CallsGrow /\ RealtimeStep
    BY <1>5, FewerGrow DEF HitShownLate, SameTabs, RealtimeStep
  <2>4. QED
    BY <2>1, <2>2, <2>3, ShowInv
<1>6. QED
  BY <1>1, <1>2, <1>3, <1>4, <1>5

LEMMA HitShownInv ==
  ASSUME IInv, UNCHANGED stray, NEW c \in calls, HitShown(c)
  PROVE  IInv' /\ StepOK
<1>1. /\ SameTabs /\ RealtimeStep /\ CallsGrow
      /\ Show(Filled(page, c, RangeAround(c.at)))
  BY FewerGrow DEF HitShown, SameTabs, RealtimeStep
<1>2. /\ c.file \in Files /\ c.at \in Positions /\ c.project \in Projects
      /\ c.project = page.project
  BY DEF IInv, CallInv, GoodCall, HitShown, InContext
<1>3. PICK v : v = Filled(page, c, RangeAround(c.at))
  OBVIOUS
<1>4. IsRange(RangeAround(c.at))
  BY <1>2, RangeTypes
<1>5. /\ v \in GoodViews(Astray(activeTabId)) /\ v.project = page.project
      /\ v.loadingPrev = page.loadingPrev /\ v.hits = page.hits
  BY <1>2, <1>3, <1>4, PageFacts, FilledGood
<1>6. Follows(Astray(activeTabId), v, page)
  BY <1>5, PageFacts DEF Follows
<1>7. Show(v)
  BY <1>1, <1>3 DEF Show, Sync
<1>8. QED
  BY <1>1, <1>5, <1>6, <1>7, ShowInv

(* A hit is of the project of the page, which therefore has one. *)
LEMMA OpenSearchHitInv ==
  ASSUME IInv, UNCHANGED stray, NEW f \in Files, NEW at \in 0..(Size - 1),
         OpenSearchHit(f, at)
  PROVE  IInv' /\ StepOK
<1>1. at \in Positions
  BY PageTabsAssumption DEF Positions
<1>2. SameTabs /\ page.hits # None
  BY DEF OpenSearchHit, SameTabs
<1>3. PICK t, p, v, e : /\ t = activeTabId /\ p = page.project
                        /\ v = [page EXCEPT !.file = f]
                        /\ e = Call("offset", t, p, f, at)
  OBVIOUS
<1>4. p \in Projects /\ p # None
  <2>1. CASE Astray(activeTabId)
    BY <1>3, <2>1, PageFacts DEF Astray, IInv, StateInv, PlaceInv
  <2>2. CASE ~Astray(activeTabId)
    BY <1>2, <1>3, <2>2, PageFacts, PageTabsAssumption
    DEF GoodViews, Sound, OfOneProject, Views, Hits
  <2>3. QED
    BY <2>1, <2>2
<1>5. /\ Follows(Astray(activeTabId), v, page)
      /\ v.loadingPrev = page.loadingPrev
      /\ Show(v)
  BY <1>3, PageFacts, FieldFollows DEF OpenSearchHit, Selected, Show, Sync
<1>6. UNCHANGED calls \/ Wait(e)
  BY <1>3 DEF OpenSearchHit, HitCall, Wait
<1>7. CallsGrow
  <2>1. CASE UNCHANGED calls
    BY <2>1, FewerGrow
  <2>2. CASE Wait(e)
    BY <1>1, <1>3, <1>4, <2>2, CallAlone, StartsToWait
  <2>3. QED
    BY <1>6, <2>1, <2>2
<1>8. WantsRealtime(t, None)
  BY <1>3 DEF OpenSearchHit, WantsRealtime
<1>9. RealtimeStep
  BY <1>3, <1>8, PageFacts DEF RealtimeStep
<1>10. QED
  BY <1>2, <1>5, <1>7, <1>9, ShowInv

(* The handlers that change the copy of a tab. *)
LEMMA CopyInv ==
  ASSUME IInv, UNCHANGED stray, SameTabs, page' = page,
         NEW t \in Tabs, t # activeTabId \/ Astray(t),
         NEW w, saved' = [saved EXCEPT ![t] = w],
         Follows(Astray(t), w, saved[t]),
         RealtimeStep, CallsGrow,
         \/ w.loadingPrev = saved[t].loadingPrev
         \/ \A d \in calls' : d.kind = "prev" /\ d \in calls => d.tab # t
  PROVE  IInv' /\ StepOK
<1> USE DEF IInv
<1>1. /\ RealtimeInv' => StateInv' /\ StepOK
      /\ \A u \in Tabs : saved'[u].project = saved[u].project
      /\ \A u \in Tabs : u # t => saved'[u] = saved[u]
      /\ saved'[t] = w
  BY CopyState
<1>2. ProjectsKept
  BY <1>1 DEF ProjectsKept
<1>3. ASSUME NEW d \in calls', d \in calls, d.kind = "prev", Loading(d.tab)
      PROVE  Loading(d.tab)'
  <2>1. d.tab \in Tabs
    BY <1>3 DEF CallInv, GoodCall
  <2>2. d.tab # t \/ w.loadingPrev = saved[t].loadingPrev
    BY <1>3
  <2>3. QED
    BY <1>1, <1>3, <2>1, <2>2 DEF Loading, SameTabs
<1>4. CallInv' /\ PrevInv'
  BY <1>2, <1>3, HandlerCalls
<1>5. RealtimeInv'
  BY <1>2, RealtimeKept DEF ProjectsKept, SameTabs
<1>6. QED
  BY <1>1, <1>4, <1>5

LEMMA FilesLoadedLateInv ==
  ASSUME IInv, UNCHANGED stray, NEW c \in calls, FilesLoadedLate(c)
  PROVE  IInv' /\ StepOK
<1>1. /\ SameTabs /\ CallsGrow /\ RealtimeStep /\ page' = page
      /\ ~InContext(c) /\ saved \in [Tabs -> Views]
  BY FewerGrow, PageFacts DEF FilesLoadedLate, SameTabs, RealtimeStep
<1>2. CASE TabOf(c)
  <2>1. PICK t : t = c.tab
    OBVIOUS
  <2>2. /\ t \in Tabs /\ t # activeTabId
        /\ saved[t] \in GoodViews(Astray(t)) /\ Astray(t) \in BOOLEAN
    BY <1>1, <1>2, <2>1, LateTab DEF TabOf
  <2>3. PICK b, v : b = Astray(t) /\ v = saved[t]
    OBVIOUS
  <2> HIDE DEF Astray
  <2>31. b \in BOOLEAN /\ v \in GoodViews(b) /\ v \in Views
    BY <2>2, <2>3 DEF GoodViews
  <2>4. PICK w : w = [v EXCEPT !.listed = TRUE,
                               !.file = IF c.file # None THEN c.file ELSE @]
    OBVIOUS
  <2>5. saved' = [saved EXCEPT ![t] = w]
    BY <1>1, <1>2, <2>1, <2>2, <2>3, <2>4 DEF FilesLoadedLate
  <2>6. Follows(b, w, v) /\ w.loadingPrev = v.loadingPrev
    <3>1. CASE c.file # None
      <4>1. c.file \in Files
        BY <3>1 DEF IInv, CallInv, GoodCall
      <4>2. QED
        BY <2>31, <2>4, <3>1, <4>1, ListedFollows
    <3>2. CASE c.file = None
      <4>1. w = [v EXCEPT !.listed = TRUE]
        BY <2>31, <2>4, <3>2 DEF Views
      <4>2. /\ w.project = v.project /\ w.hits = v.hits
            /\ w.loadingPrev = v.loadingPrev
        BY <2>31, <4>1 DEF Views
      <4>3. NotOlder(v.hits, v.hits) /\ w \in GoodViews(b)
        BY <2>31, <4>1, FollowsItself, FieldGood
      <4>4. QED
        BY <4>2, <4>3 DEF Follows
    <3>3. QED
      BY <3>1, <3>2
  <2>7. QED
    BY <1>1, <2>2, <2>3, <2>5, <2>6, CopyInv
<1>3. CASE ~TabOf(c)
  <2>1. saved' = saved
    BY <1>3 DEF FilesLoadedLate
  <2>2. QED
    BY <1>1, <2>1, QuietInv
<1>4. QED
  BY <1>2, <1>3

(* A tab that openProjectInTab gives its project to, which it may have, as *)
(* it does for the tab that it was called for.                             *)
LEMMA MisplacedInv ==
  ASSUME IInv, tabs' = tabs, activeTabId' = activeTabId,
         NEW w, w \in Views, page' = w, saved' \in [Tabs -> Views],
         saved'[activeTabId] = w, w.project # None,
         w.hits = page.hits, w.loadingPrev = page.loadingPrev,
         (w = page /\ stray' = stray) \/ stray' = stray \cup {activeTabId},
         \A u \in Tabs : u # activeTabId =>
           /\ Follows(Astray(u), saved'[u], saved[u])
           /\ saved'[u].loadingPrev = saved[u].loadingPrev,
         RealtimeStep,
         NEW c \in calls, NEW e, calls' \subseteq calls \cup {e},
         e.kind = "files", e.tab = c.tab, e.project = c.project,
         e.file = None, e.at = 0, e.then = None
  PROVE  IInv' /\ StepOK
<1> USE DEF IInv, StateInv
<1>1. PICK a : a = activeTabId
  OBVIOUS
<1>2. /\ a \in Tabs /\ IsOpen(a) /\ page.project = saved[a].project
      /\ Astray(a) \/ Kept(page) = Kept(saved[a])
      /\ page \in GoodViews(Astray(a)) /\ page \in Views
  BY <1>1, PageFacts
<1>3. /\ \A t : IsOpen(t)' <=> IsOpen(t)
      /\ \A t : t # a => (Astray(t)' <=> Astray(t))
      /\ \A t \in Tabs : t # a => saved'[t].project = saved[t].project
  BY <1>1 DEF IsOpen, Astray, Follows
<1>4. ~(stray' = stray /\ w = page) => Astray(a)'
  BY <1>1 DEF Astray
<1>5. \A t \in Tabs : Astray(t) => Astray(t)'
  BY <1>3 DEF Astray
<1>6. \A t \in Tabs : ~Astray(t)' =>
        ~Astray(t) /\ saved'[t].project = saved[t].project
  BY <1>1, <1>2, <1>3, <1>4, <1>5
<1>7. PlaceInv'
  BY <1>1, <1>2, <1>3 DEF PlaceInv
<1>8. w \in GoodViews(Astray(a)')
  BY <1>2, <1>4, <1>5 DEF GoodViews
<1>9. ViewInv'
  <2>1. ASSUME NEW t \in Tabs
        PROVE  saved'[t] \in GoodViews(Astray(t)')
    <3>1. CASE t = a
      BY <1>1, <1>8, <3>1
    <3>2. CASE t # a
      BY <1>1, <1>3, <3>2 DEF Follows, GoodViews
    <3>3. QED
      BY <3>1, <3>2
  <2>2. QED
    BY <1>1, <1>8, <2>1 DEF ViewInv
<1>10. RealtimeInv'
  BY <1>1, <1>3, RealtimeKept
<1>11. PageIsActiveTab' /\ OneTabPerProject'
  <2>1. \A t \in Tabs : t \notin stray' /\ IsOpen(t)' => ~Astray(t)'
    BY DEF Astray
  <2>2. \A t \in Tabs : t \notin stray' => t \notin stray
    OBVIOUS
  <2>3. QED
    BY <1>3, <1>6, <2>1, <2>2 DEF PageIsActiveTab, OneTabPerProject
<1>12. StepOK
  <2>1. ASSUME NEW t \in Tabs \ stray, Stays(t)
        PROVE  NotOlder(saved'[t].hits, saved[t].hits)
    <3>1. ~Astray(t)
      BY <2>1 DEF Stays, Astray
    <3>2. CASE t = a
      <4>1. saved'[t].hits = saved[t].hits
        BY <1>1, <1>2, <3>1, <3>2 DEF Kept
      <4>2. NotOlder(saved[t].hits, saved[t].hits)
        BY <3>1, SavedFollows DEF Follows
      <4>3. QED
        BY <4>1, <4>2
    <3>3. CASE t # a
      BY <1>1, <3>1, <3>3 DEF Follows
    <3>4. QED
      BY <3>2, <3>3
  <2>2. QED
    BY <2>1 DEF StepOK
<1>13. ASSUME NEW d, GoodCall(d)
       PROVE  GoodCall(d)'
  BY <1>6, <1>13 DEF GoodCall
<1>14. GoodCall(e)'
  <2>1. GoodCall(c)'
    BY <1>13 DEF CallInv
  <2>2. 0 \in Positions /\ None \notin Projects
    BY PageTabsAssumption DEF Positions
  <2>3. QED
    BY <2>1, <2>2 DEF GoodCall
<1>15. CallInv'
  BY <1>13, <1>14 DEF CallInv
<1>16. \A t \in Tabs : Loading(t)' = Loading(t)
  BY <1>1 DEF Loading
<1>17. \A d \in calls' : d.kind = "prev" => d \in calls /\ d.tab \in Tabs
  BY DEF CallInv, GoodCall
<1>18. PrevInv'
  BY <1>3, <1>16, <1>17 DEF PrevInv, OnePrevAtATime
<1>19. QED
  BY <1>7, <1>9, <1>10, <1>11, <1>12, <1>15, <1>18

(* A file that is opened late fills the copy of its tab. *)
LEMMA FilledCopyFollows ==
  ASSUME IInv, NEW c \in calls, ~InContext(c), c.kind = "open", TabOf(c)
  PROVE  /\ c.tab \in Tabs /\ c.tab # activeTabId
         /\ LET w == [Filled(saved[c.tab], c, TailRange)
                        EXCEPT !.file = c.file] IN
            /\ FilledCopy(c) = [saved EXCEPT ![c.tab] = w]
            /\ Follows(Astray(c.tab), w, saved[c.tab])
            /\ w.loadingPrev = saved[c.tab].loadingPrev
<1>1. PICK t, b, v : t = c.tab /\ b = Astray(t) /\ v = saved[t]
  OBVIOUS
<1>2. /\ t \in Tabs /\ t # activeTabId /\ c.project = v.project
      /\ b \in BOOLEAN /\ v \in GoodViews(b)
      /\ c.file \in Files /\ c.project \in Projects
  BY <1>1, LateTab DEF TabOf, IInv, CallInv, GoodCall
<1>3. v \in Views /\ NotOlder(v.hits, v.hits)
  BY <1>2, FollowsItself
<1>4. PICK u : u = Filled(v, c, TailRange)
  OBVIOUS
<1>5. 0 \in Positions
  BY PageTabsAssumption DEF Positions
<1>6. IsRange(TailRange)
  BY <1>5, RangeTypes
<1>7. /\ u \in GoodViews(b) /\ u.project = v.project
      /\ u.loadingPrev = v.loadingPrev /\ u.hits = v.hits
  BY <1>2, <1>4, <1>6, FilledGood
<1>8. PICK w : w = [u EXCEPT !.file = c.file]
  OBVIOUS
<1>9. Follows(b, w, u) /\ w.loadingPrev = u.loadingPrev
  BY <1>2, <1>7, <1>8, FieldFollows
<1>10. Follows(b, w, v) /\ w.loadingPrev = v.loadingPrev
  BY <1>7, <1>9 DEF Follows
<1>11. FilledCopy(c) = [saved EXCEPT ![t] = w]
  BY <1>1, <1>2, <1>4, <1>8, PageFacts DEF FilledCopy
<1>12. QED
  BY <1>1, <1>2, <1>4, <1>8, <1>10, <1>11

LEMMA FileOpenedLateInv ==
  ASSUME IInv, NEW c \in calls, FileOpenedLate(c)
  PROVE  IInv' /\ StepOK
<1>1. /\ ~InContext(c) /\ c.kind = "open" /\ GoodCall(c)
      /\ tabs' = tabs /\ activeTabId' = activeTabId
      /\ saved \in [Tabs -> Views] /\ page \in Views
      /\ activeTabId \in Tabs
  BY PageFacts DEF FileOpenedLate, IInv, CallInv
<1>2. RealtimeStep
  <2>1. CASE TabOf(c)
    BY <1>1, <2>1, FilledCopyFollows DEF FileOpenedLate, RealtimeStep
  <2>2. CASE ~TabOf(c)
    BY <2>2 DEF FileOpenedLate, RealtimeStep
  <2>3. QED
    BY <2>1, <2>2
<1>3. CASE c.then = None
  <2>1. /\ CallsGrow /\ page' = page /\ saved' = FilledCopy(c)
        /\ stray' = stray
    BY <1>3, FewerGrow DEF FileOpenedLate, NextCall, GoOn, Misplaced
  <2>2. SameTabs
    BY <1>1, <2>1 DEF SameTabs
  <2>3. CASE TabOf(c)
    <3>1. PICK t, w : t = c.tab /\ w = [Filled(saved[c.tab], c, TailRange)
                                           EXCEPT !.file = c.file]
      OBVIOUS
    <3>2. /\ t \in Tabs /\ t # activeTabId
          /\ saved' = [saved EXCEPT ![t] = w]
          /\ Follows(Astray(t), w, saved[t])
          /\ w.loadingPrev = saved[t].loadingPrev
      BY <1>1, <2>1, <2>3, <3>1, FilledCopyFollows
    <3>3. QED
      BY <1>2, <2>1, <2>2, <3>2, CopyInv
  <2>4. CASE ~TabOf(c)
    BY <1>2, <2>1, <2>2, <2>4, QuietInv DEF FilledCopy
  <2>5. QED
    BY <2>3, <2>4
<1>4. CASE c.then # None
  <2>1. PICK s, w, e :
          /\ s = FilledCopy(c) /\ w = [page EXCEPT !.project = c.then]
          /\ e = [Call("files", c.tab, c.project, None, 0)
                    EXCEPT !.number = c.number]
    OBVIOUS
  <2>2. /\ e.kind = "files" /\ e.tab = c.tab /\ e.project = c.project
        /\ e.file = None /\ e.at = 0 /\ e.then = None
    BY <2>1 DEF Call
  <2>3. calls' \subseteq calls \cup {e}
    BY <1>4, <2>1 DEF FileOpenedLate, NextCall, Continues
  <2>4. c.then \in Projects
    BY <1>1, <1>4 DEF GoodCall
  <2>5. /\ page' = w /\ saved' = [s EXCEPT ![activeTabId] = w]
    BY <1>4, <2>1 DEF FileOpenedLate, GoOn
  <2>6. /\ w \in Views /\ w.project # None /\ w.project = c.then
        /\ w.hits = page.hits /\ w.loadingPrev = page.loadingPrev
        /\ page.project = c.then => w = page
    <3>1. /\ w \in Views /\ w.project = c.then /\ c.then # None
          /\ w.hits = page.hits /\ w.loadingPrev = page.loadingPrev
      BY <1>1, <2>1, <2>4, PageTabsAssumption DEF Views
    <3>2. page.project = c.then => w = page
      BY <1>1, <2>1 DEF Views
    <3>3. QED
      BY <3>1, <3>2
  <2>7. (w = page /\ stray' = stray) \/ stray' = stray \cup {activeTabId}
    BY <1>4, <2>1, <2>6 DEF FileOpenedLate, Misplaced, GoOn
  <2>8. /\ s \in [Tabs -> Views]
        /\ \A u \in Tabs : u # activeTabId =>
             /\ Follows(Astray(u), s[u], saved[u])
             /\ s[u].loadingPrev = saved[u].loadingPrev
    <3>1. \A u \in Tabs : Follows(Astray(u), saved[u], saved[u])
      BY SavedFollows DEF IInv, StateInv
    <3>2. CASE TabOf(c)
      <4>1. PICK t, x : t = c.tab /\ x = [Filled(saved[c.tab], c, TailRange)
                                             EXCEPT !.file = c.file]
        OBVIOUS
      <4>2. /\ t \in Tabs /\ t # activeTabId
            /\ s = [saved EXCEPT ![t] = x]
            /\ Follows(Astray(t), x, saved[t])
            /\ x.loadingPrev = saved[t].loadingPrev
        BY <1>1, <2>1, <3>2, <4>1, FilledCopyFollows
      <4>3. x \in Views
        BY <4>2 DEF Follows, GoodViews
      <4>4. QED
        BY <1>1, <3>1, <4>2, <4>3
    <3>3. CASE ~TabOf(c)
      BY <1>1, <2>1, <3>1, <3>3 DEF FilledCopy
    <3>4. QED
      BY <3>2, <3>3
  <2>9. /\ saved' \in [Tabs -> Views] /\ saved'[activeTabId] = w
        /\ \A u \in Tabs : u # activeTabId => saved'[u] = s[u]
    BY <1>1, <2>5, <2>6, <2>8
  <2>10. QED
    BY <1>1, <1>2, <2>2, <2>3, <2>5, <2>6, <2>7, <2>8, <2>9, MisplacedInv
<1>5. QED
  BY <1>3, <1>4

LEMMA PrevChunkLoadedLateInv ==
  ASSUME IInv, UNCHANGED stray, NEW c \in calls, PrevChunkLoadedLate(c)
  PROVE  IInv' /\ StepOK
<1>1. /\ SameTabs /\ CallsGrow /\ RealtimeStep /\ page' = page
      /\ ~InContext(c) /\ saved \in [Tabs -> Views]
  BY FewerGrow, PageFacts DEF PrevChunkLoadedLate, SameTabs, RealtimeStep
<1>2. CASE IsOpen(c.tab)
  <2>1. PICK t : t = c.tab
    OBVIOUS
  <2>2. /\ t \in Tabs /\ (t # activeTabId \/ Astray(t))
        /\ saved[t] \in GoodViews(Astray(t)) /\ Astray(t) \in BOOLEAN
    BY <1>1, <1>2, <2>1, LateTab
  <2>3. PICK b, v : b = Astray(t) /\ v = saved[t]
    OBVIOUS
  <2>4. PICK w : w = [v EXCEPT !.loadingPrev = FALSE]
    OBVIOUS
  <2>5. saved' = [saved EXCEPT ![t] = w]
    BY <1>1, <1>2, <2>1, <2>2, <2>3, <2>4 DEF PrevChunkLoadedLate
  <2>6. Follows(b, w, v)
    BY <2>2, <2>3, <2>4, FieldFollows
  <2>7. \A d \in calls' : d.kind = "prev" /\ d \in calls => d.tab # t
    BY <1>2, <2>1 DEF IInv, PrevInv, OnePrevAtATime, PrevChunkLoadedLate,
       Returns
  <2>8. Follows(Astray(t), w, saved[t])
    BY <2>3, <2>6
  <2>9. t \in Tabs /\ (t # activeTabId \/ Astray(t))
    BY <2>2
  <2>10. QED
    BY <1>1, <2>5, <2>7, <2>8, <2>9, CopyInv
<1>3. CASE ~IsOpen(c.tab)
  <2>1. saved' = saved
    BY <1>3 DEF PrevChunkLoadedLate
  <2>2. QED
    BY <1>1, <2>1, QuietInv
<1>4. QED
  BY <1>2, <1>3

-----------------------------------------------------------------------------
(* The answer to the last search.                                          *)
LEMMA HitsFollow ==
  ASSUME IInv, NEW c \in calls, c.kind = "search",
         NEW b \in BOOLEAN, NEW v \in GoodViews(b),
         b \/ (c.project = v.project /\ c.at = v.request)
  PROVE  LET w == WithHits(v, c) IN
         Follows(b, w, v) /\ w.loadingPrev = v.loadingPrev
<1>1. c.project \in Projects /\ c.at \in 1..MaxSearches
  BY DEF IInv, CallInv, GoodCall
<1>2. QED
  BY <1>1, WithHitsGood DEF Follows

LEMMA SearchDoneInv ==
  ASSUME IInv, UNCHANGED stray, NEW c \in calls, SearchDone(c)
  PROVE  IInv' /\ StepOK
<1>1. /\ SameTabs /\ CallsGrow /\ RealtimeStep /\ c.kind = "search"
      /\ c.project = page.project
  BY FewerGrow DEF SearchDone, SameTabs, RealtimeStep, InContext
<1>2. Astray(activeTabId) \/ c.at = page.request
  BY DEF SearchDone, IsLastSearch, InContext, IInv, StateInv,
     PageIsActiveTab, Kept, Astray
<1>3. PICK v : v = WithHits(page, c)
  OBVIOUS
<1>4. Follows(Astray(activeTabId), v, page) /\ v.loadingPrev = page.loadingPrev
  BY <1>1, <1>2, <1>3, PageFacts, HitsFollow
<1>5. Show(v)
  BY <1>3 DEF SearchDone, Show, Sync
<1>6. QED
  BY <1>1, <1>4, <1>5, ShowInv

LEMMA SearchDoneOpensHitInv ==
  ASSUME IInv, UNCHANGED stray, NEW c \in calls, NEW f \in Files,
         NEW at \in 0..(Size - 1),
         SearchDoneOpensHit(c, f, at)
  PROVE  IInv' /\ StepOK
<1>1. /\ SameTabs /\ c.kind = "search" /\ c.project = page.project
      /\ at \in Positions
  BY PageTabsAssumption DEF SearchDoneOpensHit, SameTabs, InContext, Positions
<1>2. Astray(activeTabId) \/ c.at = page.request
  BY DEF SearchDoneOpensHit, IsLastSearch, InContext, IInv, StateInv,
     PageIsActiveTab, Kept, Astray
<1>3. PICK t, p, u, v, e :
        /\ t = activeTabId /\ p = page.project
        /\ u = WithHits(page, c) /\ v = [u EXCEPT !.file = f]
        /\ e = Call("offset", t, p, f, at)
  OBVIOUS
<1>4. Follows(Astray(activeTabId), u, page) /\ u.loadingPrev = page.loadingPrev
  BY <1>1, <1>2, <1>3, PageFacts, HitsFollow
<1>5. u \in GoodViews(Astray(activeTabId)) /\ u \in Views
  BY <1>4 DEF Follows, GoodViews
<1>6. Follows(Astray(activeTabId), v, page) /\ v.loadingPrev = page.loadingPrev
  <2>1. v \in GoodViews(Astray(activeTabId))
    BY <1>3, <1>5, FieldGood, PageFacts
  <2>2. /\ v.project = u.project
        /\ v.hits = u.hits /\ v.loadingPrev = u.loadingPrev
    BY <1>3, <1>5 DEF Views
  <2>3. QED
    BY <1>4, <2>1, <2>2 DEF Follows
<1>7. Show(v)
  BY <1>3 DEF SearchDoneOpensHit, Selected, Show, Sync
<1>8. p # None
  BY <1>1, <1>3, PageTabsAssumption DEF IInv, CallInv, GoodCall
<1>9. Returns(c) \/ Continues(c, e)
  BY <1>3 DEF SearchDoneOpensHit, HitCall, Continues
<1>10. CallsGrow
  <2>1. CASE Returns(c)
    BY <2>1, FewerGrow
  <2>2. CASE Continues(c, e)
    BY <1>1, <1>3, <1>8, <2>2, CallAlone, StartsToWait
  <2>3. QED
    BY <1>9, <2>1, <2>2
<1>11. WantsRealtime(t, None)
  BY <1>3 DEF SearchDoneOpensHit, WantsRealtime
<1>12. RealtimeStep
  BY <1>3, <1>11, PageFacts DEF RealtimeStep
<1>13. QED
  BY <1>1, <1>6, <1>7, <1>10, <1>12, ShowInv

LEMMA SearchDoneLateInv ==
  ASSUME IInv, UNCHANGED stray, NEW c \in calls, SearchDoneLate(c)
  PROVE  IInv' /\ StepOK
<1>1. /\ SameTabs /\ CallsGrow /\ RealtimeStep /\ page' = page
      /\ c.kind = "search" /\ saved \in [Tabs -> Views]
  BY FewerGrow, PageFacts DEF SearchDoneLate, SameTabs, RealtimeStep
<1>2. CASE IsOpen(c.tab) /\ IsLastSearch(c)
  <2>1. PICK t : t = c.tab
    OBVIOUS
  <2>2. /\ t \in Tabs /\ (t # activeTabId \/ Astray(t))
        /\ (Astray(t) \/ saved[t].project = c.project)
        /\ saved[t] \in GoodViews(Astray(t)) /\ Astray(t) \in BOOLEAN
    BY <1>1, <1>2, <2>1, LateTab DEF SearchDoneLate
  <2>3. PICK b, v, w : b = Astray(t) /\ v = saved[t] /\ w = WithHits(v, c)
    OBVIOUS
  <2>4. saved' = [saved EXCEPT ![t] = w]
    BY <1>1, <1>2, <2>1, <2>2, <2>3 DEF SearchDoneLate
  <2>5. c.at = v.request
    BY <1>2, <2>1, <2>3 DEF IsLastSearch
  <2>6. Follows(b, w, v) /\ w.loadingPrev = v.loadingPrev
    BY <1>1, <2>2, <2>3, <2>5, HitsFollow
  <2>7. Follows(Astray(t), w, saved[t]) /\ w.loadingPrev = saved[t].loadingPrev
    BY <2>3, <2>6
  <2>8. t \in Tabs /\ (t # activeTabId \/ Astray(t))
    BY <2>2
  <2>9. QED
    BY <1>1, <2>4, <2>7, <2>8, CopyInv
<1>3. CASE ~(IsOpen(c.tab) /\ IsLastSearch(c))
  <2>1. saved' = saved
    BY <1>3 DEF SearchDoneLate
  <2>2. QED
    BY <1>1, <2>1, QuietInv
<1>4. QED
  BY <1>2, <1>3

(* A new number for the next search.                                       *)
LEMMA NumberedGood ==
  ASSUME NEW b \in BOOLEAN, NEW v \in GoodViews(b),
         NEW n \in 1..MaxSearches, b \/ n = v.request + 1
  PROVE  LET w == Numbered(v, n) IN
         Follows(b, w, v) /\ w.loadingPrev = v.loadingPrev
<1>1. v \in Views /\ v.request \in Nat /\ MaxSearches \in Nat
  BY PageTabsAssumption DEF GoodViews, Views
<1>2. n \in 0..MaxSearches
  BY <1>1
<1> DEFINE w == Numbered(v, n)
<1>3. w \in Views
  BY <1>1, <1>2 DEF Numbered, Views
<1>4. /\ w.text = v.text /\ w.hits = v.hits /\ w.project = v.project
      /\ w.request = n /\ w.loadingPrev = v.loadingPrev
  BY <1>1 DEF Numbered, Views
<1>5. (v.hits # None /\ ~b) =>
        v.hits.request \in Nat /\ v.hits.request <= v.request
  BY <1>1 DEF GoodViews, Sound, Views, Hits
<1> HIDE DEF w
<1>6. (v.hits # None /\ ~b) => v.hits.request <= w.request
  BY <1>1, <1>4, <1>5
<1>7. b \/ OfOneProject(w)
  BY <1>4 DEF GoodViews, Sound, OfOneProject
<1>8. w \in GoodViews(b)
  <2> HIDE DEF Views
  <2>1. QED
    BY <1>3, <1>4, <1>6, <1>7 DEF GoodViews, Sound
<1>9. NotOlder(v.hits, v.hits)
  BY FollowsItself
<1>10. QED
  BY <1>4, <1>8, <1>9 DEF Follows, w

LEMMA SearchLogsInv ==
  ASSUME IInv, UNCHANGED stray, SearchLogs
  PROVE  IInv' /\ StepOK
<1> USE DEF IInv
<1>1. /\ SameTabs /\ page.project # None
      /\ saved[activeTabId].request < MaxSearches
  BY DEF SearchLogs, SameTabs
<1>2. PICK t, p, v, s, n :
        /\ t = activeTabId /\ p = page.project
        /\ v = page /\ s = saved[t] /\ n = saved[t].request + 1
  OBVIOUS
<1>3. PICK b : b = Astray(t)
  OBVIOUS
<1>4. /\ t \in Tabs /\ v \in GoodViews(b) /\ s \in GoodViews(b)
      /\ v \in Views /\ s \in Views /\ saved \in [Tabs -> Views]
      /\ b \in BOOLEAN /\ (b \/ Kept(v) = Kept(s))
      /\ v.project = s.project
      /\ n \in 1..MaxSearches /\ n = s.request + 1
      /\ b \/ n = v.request + 1
  <2>1. /\ t \in Tabs /\ v \in GoodViews(b) /\ s \in GoodViews(b)
        /\ v \in Views /\ s \in Views /\ saved \in [Tabs -> Views]
        /\ b \in BOOLEAN /\ (b \/ Kept(v) = Kept(s))
        /\ v.project = s.project
    BY <1>2, <1>3, PageFacts DEF StateInv, ViewInv
  <2>2. MaxSearches \in Nat /\ s.request \in Nat /\ s.request < MaxSearches
    BY <1>1, <1>2, <2>1, PageTabsAssumption DEF Views
  <2>3. QED
    BY <1>2, <2>1, <2>2 DEF Kept
<1>5. PICK w, r : w = Numbered(v, n) /\ r = Numbered(s, n)
  OBVIOUS
<1>6. /\ Follows(b, w, v) /\ w.loadingPrev = v.loadingPrev
      /\ Follows(b, r, s) /\ r.loadingPrev = s.loadingPrev
      /\ w \in GoodViews(b) /\ w \in Views /\ r \in Views
  BY <1>4, <1>5, NumberedGood DEF Follows, GoodViews
<1>7. page' = w /\ saved' = [saved EXCEPT ![t] = r]
  BY <1>2, <1>4, <1>5 DEF SearchLogs
<1>8. /\ saved' \in [Tabs -> Views] /\ saved'[t] = r
      /\ \A u \in Tabs : u # t => saved'[u] = saved[u]
  BY <1>4, <1>6, <1>7
<1>9. \A u \in Tabs : Follows(Astray(u), saved'[u], saved[u])
  <2>1. Follows(Astray(t), saved'[t], saved[t])
    BY <1>2, <1>3, <1>6, <1>8
  <2>2. \A u \in Tabs : Follows(Astray(u), saved[u], saved[u])
    BY SavedFollows DEF StateInv
  <2>3. QED
    BY <1>8, <2>1, <2>2
<1>10. (b \/ Kept(w) = Kept(r)) /\ w.project = r.project
  BY <1>4, <1>5 DEF Numbered, Kept, Views
<1>11. ProjectsKept
  BY <1>9 DEF ProjectsKept, Follows
<1>12. RealtimeInv'
  BY <1>11, RealtimeKept
  DEF ProjectsKept, SameTabs, RealtimeStep, SearchLogs
<1>13. StateInv' /\ StepOK
  BY <1>1, <1>2, <1>3, <1>6, <1>7, <1>8, <1>9, <1>10, <1>12, SameTabsState
<1>14. CallsGrow
  <2>1. PICK e : e = Call("search", t, p, None, n)
    OBVIOUS
  <2>2. UNCHANGED calls \/ Wait(e)
    BY <1>2, <2>1 DEF SearchLogs, Wait
  <2>3. CASE UNCHANGED calls
    BY <2>3, FewerGrow
  <2>4. CASE Wait(e)
    BY <1>1, <1>2, <1>4, <2>1, <2>4, CallAlone, StartsToWait
  <2>5. QED
    BY <2>2, <2>3, <2>4
<1>15. \A u \in Tabs : Loading(u)' = Loading(u)
  BY <1>1, <1>2, <1>6, <1>7, <1>8 DEF Loading, SameTabs
<1>16. \A c \in calls : c.tab \in Tabs
  BY DEF CallInv, GoodCall
<1>17. CallInv' /\ PrevInv'
  BY <1>1, <1>11, <1>14, <1>15, <1>16, HandlerCalls
<1>18. QED
  BY <1>13, <1>17

-----------------------------------------------------------------------------
(* No earlier part is on its way to the active tab when one is asked for.  *)
LEMMA LoadPrevInv ==
  ASSUME IInv, UNCHANGED stray, LoadPrevChunk
  PROVE  IInv' /\ StepOK
<1> USE DEF IInv
<1>1. /\ SameTabs /\ UNCHANGED realtimeFile /\ page.project # None
      /\ page.file # None /\ ~page.loadingPrev
  BY DEF LoadPrevChunk, SameTabs
<1>2. PICK t, p, v, f, a, w, e :
        /\ t = activeTabId /\ p = page.project /\ v = page
        /\ f = page.file /\ a = page.start
        /\ w = [v EXCEPT !.loadingPrev = TRUE]
        /\ e = Call("prev", t, p, f, a)
  OBVIOUS
<1>3. /\ t \in Tabs /\ IsOpen(t) /\ p \in Projects /\ f \in Files
      /\ a \in Positions /\ v \in GoodViews(Astray(t)) /\ v \in Views
      /\ p = saved[t].project /\ saved \in [Tabs -> Views]
      /\ Astray(t) \in BOOLEAN /\ (Astray(t) \/ Kept(v) = Kept(saved[t]))
      /\ Follows(Astray(t), v, v)
  BY <1>1, <1>2, PageFacts DEF Views
<1>4. /\ w \in GoodViews(Astray(t)) /\ Kept(w) = Kept(v)
      /\ w.loadingPrev = TRUE /\ w.project = v.project
  <2>1. [v EXCEPT !.loadingPrev = TRUE] \in GoodViews(Astray(t))
    <3>1. \A l \in BOOLEAN :
            [v EXCEPT !.loadingPrev = l] \in GoodViews(Astray(t))
      BY <1>3, FieldGood
    <3>2. QED
      BY <3>1
  <2>2. w \in GoodViews(Astray(t))
    BY <1>2, <2>1
  <2>3. QED
    BY <1>2, <1>3, <2>2 DEF Kept, Views
<1>5. page' = w /\ saved' = [saved EXCEPT ![t] = v]
  BY <1>2 DEF LoadPrevChunk, Sync
<1>6. /\ saved' \in [Tabs -> Views] /\ saved'[t] = v
      /\ \A u \in Tabs : u # t => saved'[u] = saved[u]
  BY <1>3, <1>5
<1>7. Follows(Astray(t), v, saved[t])
  BY <1>2, <1>3 DEF Follows, Kept
<1>8. \A u \in Tabs : Follows(Astray(u), saved'[u], saved[u])
  <2>1. \A u \in Tabs : Follows(Astray(u), saved[u], saved[u])
    BY SavedFollows DEF StateInv
  <2>2. QED
    BY <1>6, <1>7, <2>1
<1>9. ProjectsKept
  BY <1>8 DEF ProjectsKept, Follows
<1>10. RealtimeInv'
  BY <1>1, <1>9, RealtimeKept DEF ProjectsKept, SameTabs, RealtimeStep
<1>11. StateInv' /\ StepOK
  BY <1>1, <1>2, <1>4, <1>5, <1>6, <1>8, <1>10, SameTabsState
<1>12. PICK d : /\ calls' = calls \cup {d}
                /\ d = [e EXCEPT !.number = NextNumber]
  BY <1>2 DEF LoadPrevChunk, Wait
<1>13. /\ d.kind = "prev" /\ d.tab = t /\ d.project = p /\ d.file = f
       /\ d.at = a /\ d.then = None
  BY <1>2, <1>12 DEF Call
<1>14. \A u : (IsOpen(u)' <=> IsOpen(u)) /\ (Astray(u)' <=> Astray(u))
  BY <1>1, SameAstray
<1>15. GoodCall(d)'
  BY <1>1, <1>2, <1>3, <1>6, <1>13, PageTabsAssumption
  DEF GoodCall
<1>16. \A c \in calls : GoodCall(c)'
  BY <1>9, <1>14 DEF CallInv, GoodCall, ProjectsKept
<1>17. CallInv'
  BY <1>12, <1>15, <1>16 DEF CallInv
<1>18. \A c \in calls : c.kind = "prev" => c.tab # t
  BY <1>1, <1>2, <1>3 DEF PrevInv, Loading
<1>19. ASSUME NEW c \in calls', c.kind = "prev", IsOpen(c.tab)'
       PROVE  Loading(c.tab)'
  <2>1. CASE c = d
    BY <2>1, <1>1, <1>2, <1>4, <1>5, <1>13 DEF Loading, SameTabs
  <2>2. CASE c \in calls
    <3>1. c.tab # t /\ c.tab \in Tabs /\ Loading(c.tab)
      BY <2>2, <1>14, <1>18, <1>19 DEF PrevInv, CallInv, GoodCall
    <3>2. QED
      BY <3>1, <1>1, <1>2, <1>6 DEF Loading, SameTabs
  <2>3. QED
    BY <1>12, <2>1, <2>2
<1>20. OnePrevAtATime'
  BY <1>12, <1>13, <1>14, <1>18 DEF PrevInv, OnePrevAtATime
<1>21. QED
  BY <1>11, <1>17, <1>19, <1>20 DEF PrevInv

-----------------------------------------------------------------------------
(***************************************************************************)
(* Steps to another tab.  A handler that starts to wait in the tab that is *)
(* active then has the project of that tab.                                *)
(***************************************************************************)
CallsOfNew ==
  \A c \in calls' : c \in calls \/ (GoodCall(c)' /\ c.kind # "prev")

LEMMA WaitsInNew ==
  ASSUME NEW t \in Tabs, NEW p \in Projects, activeTabId' = t,
         saved'[t].project = p,
         NEW k \in {"files", "open"}, NEW f \in Files \cup {None},
         k = "open" => f \in Files,
         NEW th, k = "open" => th \in {None, p},
         k = "files" => th \in {None, OpenNewest},
         NEW e, e = [Call(k, t, p, f, 0) EXCEPT !.then = th],
         Wait(e)
  PROVE  CallsOfNew
<1>1. PICK d : calls' = calls \cup {d} /\ d = [e EXCEPT !.number = NextNumber]
  BY DEF Wait
<1>2. /\ d.kind = k /\ d.tab = t /\ d.project = p /\ d.file = f
      /\ d.at = 0 /\ d.then = th
  BY <1>1 DEF Call
<1>3. 0 \in Positions /\ OpenNewest \notin Projects /\ None \notin Projects
  BY PageTabsAssumption DEF Positions
<1>4. GoodCall(d)'
  BY <1>2, <1>3 DEF GoodCall
<1>5. QED
  BY <1>1, <1>2, <1>4 DEF CallsOfNew

LEMMA EnterInv ==
  ASSUME IInv, tabs' = tabs, UNCHANGED <<realtimeFile, stray>>,
         NEW t \in Tabs, IsOpen(t), NEW v, Enter(t, v),
         Follows(Astray(t), v, saved[t]), v.loadingPrev = Loading(t),
         CallsOfNew
  PROVE  IInv' /\ StepOK
<1> USE DEF IInv
<1>1. PICK o, w : o = activeTabId /\ w = page
  OBVIOUS
<1>2. /\ o \in Tabs /\ w \in Views /\ saved \in [Tabs -> Views]
      /\ Follows(Astray(o), w, saved[o])
  BY <1>1, PageFacts DEF Follows, Kept
<1>3. /\ activeTabId' = t /\ page' = v
      /\ saved' = [saved EXCEPT ![o] = w, ![t] = v]
      /\ v \in Views
  BY <1>1 DEF Enter, Follows, GoodViews
<1>4. /\ saved' \in [Tabs -> Views] /\ saved'[t] = v
      /\ o # t => saved'[o] = w
      /\ \A u \in Tabs : (u # o /\ u # t) => saved'[u] = saved[u]
  BY <1>2, <1>3
<1>5. ASSUME NEW u \in Tabs
      PROVE  Follows(Astray(u), saved'[u], saved[u])
  BY <1>2, <1>4, SavedFollows DEF StateInv
<1>6. /\ \A u : (IsOpen(u)' <=> IsOpen(u)) /\ Astray(u)' = Astray(u)
      /\ \A u \in Tabs : saved'[u].project = saved[u].project
  BY <1>5 DEF IsOpen, Astray, Follows
<1>7. PlaceInv'
  BY <1>3, <1>6 DEF StateInv, PlaceInv
<1>8. ViewInv' /\ PageIsActiveTab'
  BY <1>3, <1>4, <1>5, <1>6 DEF ViewInv, PageIsActiveTab, Follows
<1>9. RealtimeInv' /\ OneTabPerProject'
  BY <1>6 DEF StateInv, RealtimeInv, OneTabPerProject
<1>10. StepOK
  BY <1>5, <1>6 DEF StepOK, Stays, Astray, Follows
<1>11. \A c \in calls : GoodCall(c)'
  BY <1>6 DEF CallInv, GoodCall
<1>12. CallInv'
  BY <1>11 DEF CallInv, CallsOfNew
<1>13. \A u \in Tabs : Loading(u)' = Loading(u)
  BY <1>1, <1>3, <1>4 DEF Loading
<1>14. \A c \in calls' : c.kind = "prev" => c \in calls /\ c.tab \in Tabs
  BY DEF CallsOfNew, CallInv, GoodCall
<1>15. OnePrevAtATime'
  BY <1>6, <1>14 DEF PrevInv, OnePrevAtATime
<1>16. PrevInv'
  BY <1>6, <1>13, <1>14, <1>15 DEF PrevInv
<1>17. QED
  BY <1>7, <1>8, <1>9, <1>10, <1>12, <1>16 DEF StateInv

(* What a tab shows when it is entered is what it had.                     *)
LEMMA ViewGood ==
  ASSUME IInv, NEW t \in Tabs
  PROVE  /\ Astray(t) \in BOOLEAN
         /\ Follows(Astray(t), View(t), saved[t])
         /\ View(t).loadingPrev = Loading(t)
<1>1. /\ saved[t] \in GoodViews(Astray(t)) /\ Astray(t) \in BOOLEAN
      /\ Follows(Astray(t), saved[t], saved[t])
  BY SavedFollows DEF IInv, StateInv, ViewInv, Astray
<1>2. CASE t = activeTabId
  BY <1>1, <1>2, PageFacts DEF View, Loading, Follows, Kept
<1>3. CASE t # activeTabId
  <2>1. PICK v : v = saved[t]
    OBVIOUS
  <2>2. /\ Loaded(v) \in GoodViews(Astray(t)) /\ Loaded(v).project = v.project
        /\ Loaded(v).hits = v.hits /\ Loaded(v).loadingPrev = v.loadingPrev
    BY <1>1, <2>1, LoadedGood
  <2>3. View(t) = Loaded(v) /\ Loading(t) = v.loadingPrev
    BY <1>3, <2>1 DEF View, Loading
  <2>4. QED
    BY <1>1, <2>1, <2>2, <2>3 DEF Follows
<1>4. QED
  BY <1>2, <1>3

LEMMA EnterQuietlyInv ==
  ASSUME IInv, tabs' = tabs, UNCHANGED <<realtimeFile, stray>>,
         NEW t \in Tabs, IsOpen(t), EnterQuietly(t),
         saved'[t].project = saved[t].project => CallsOfNew
  PROVE  IInv' /\ StepOK
<1>1. PICK v : v = View(t)
  OBVIOUS
<1>2. Follows(Astray(t), v, saved[t]) /\ v.loadingPrev = Loading(t)
  BY <1>1, ViewGood
<1>3. Enter(t, v)
  BY <1>1 DEF EnterQuietly, Enter
<1>4. saved'[t] = v
  BY <1>3, PageFacts DEF Enter
<1>5. CallsOfNew
  BY <1>2, <1>4 DEF Follows
<1>6. QED
  BY <1>2, <1>3, <1>5, EnterInv

LEMMA EnterAndResumeInv ==
  ASSUME IInv, tabs' = tabs, UNCHANGED <<realtimeFile, stray>>,
         NEW t \in Tabs, IsOpen(t), NEW th, EnterAndResume(t, th),
         th = None \/ th = saved[t].project
  PROVE  IInv' /\ StepOK
<1>1. PICK u, f, p : u = View(t) /\ f = realtimeFile[t] /\ p = saved[t].project
  OBVIOUS
<1>2. /\ Follows(Astray(t), u, saved[t]) /\ u.loadingPrev = Loading(t)
      /\ Astray(t) \in BOOLEAN /\ u \in GoodViews(Astray(t)) /\ u \in Views
  BY <1>1, ViewGood DEF Follows, GoodViews
<1>3. f \in Files /\ p \in Projects
  BY <1>1, PageFacts
  DEF EnterAndResume, IsPaused, IInv, StateInv, RealtimeInv, Views
<1>4. PICK v : v = [u EXCEPT !.file = f]
  OBVIOUS
<1>5. /\ Follows(Astray(t), v, saved[t]) /\ v.project = p
      /\ v.loadingPrev = Loading(t)
  <2>1. Follows(Astray(t), v, u) /\ v.loadingPrev = u.loadingPrev
    BY <1>2, <1>3, <1>4, FieldFollows
  <2>2. v.hits = u.hits
    BY <1>2, <1>4 DEF Views
  <2>3. QED
    BY <1>1, <1>2, <2>1, <2>2 DEF Follows
<1>6. Enter(t, v)
  BY <1>1, <1>4 DEF EnterAndResume, Enter
<1>7. activeTabId' = t /\ saved'[t] = v
  BY <1>6, PageFacts DEF Enter
<1>8. PICK e : e = [Call("open", t, p, f, 0) EXCEPT !.then = th]
  OBVIOUS
<1>9. Wait(e)
  BY <1>1, <1>8 DEF EnterAndResume, Wait
<1>10. CallsOfNew
  BY <1>1, <1>3, <1>5, <1>7, <1>8, <1>9, WaitsInNew
<1>11. QED
  BY <1>5, <1>6, <1>10, EnterInv

LEMMA ActivateTabInv ==
  ASSUME IInv, UNCHANGED stray, NEW t \in Tabs, ActivateTab(t)
  PROVE  IInv' /\ StepOK
<1>1. IsOpen(t) /\ tabs' = tabs /\ UNCHANGED realtimeFile
  BY DEF ActivateTab
<1>2. CASE EnterQuietly(t) /\ UNCHANGED calls
  <2>1. CallsOfNew
    BY <1>2 DEF CallsOfNew, IInv, CallInv
  <2>2. QED
    BY <1>1, <1>2, EnterQuietlyInv, <2>1
<1>3. CASE EnterAndResume(t, None)
  <2>1. PICK th : th = None
    OBVIOUS
  <2>2. EnterAndResume(t, th)
    BY <1>3, <2>1
  <2>3. QED
    BY <1>1, <2>1, <2>2, EnterAndResumeInv
<1>4. QED
  BY <1>2, <1>3 DEF ActivateTab

LEMMA OpenProjectOfTabInv ==
  ASSUME IInv, NEW t \in Tabs, NEW p \in Projects,
         OpenProjectOfTab(p, t), UNCHANGED <<realtimeFile, stray>>
  PROVE  IInv' /\ StepOK
<1>1. IsOpen(t) /\ saved[t].project = p /\ tabs' = tabs
  BY DEF OpenProjectOfTab, FirstTabWith, IsOpen
<1>2. CASE EnterQuietly(t) /\ Wait(LoadFiles(t, p, saved[t].file))
  <2>1. PICK th, e : /\ th = IF saved[t].file = None THEN OpenNewest ELSE None
                     /\ e = [Call("files", t, p, None, 0) EXCEPT !.then = th]
    OBVIOUS
  <2>2. Wait(e)
    BY <1>2, <2>1 DEF Wait, LoadFiles
  <2>3. activeTabId' = t
    BY <1>2 DEF EnterQuietly, Enter
  <2>4. saved'[t].project = saved[t].project => CallsOfNew
    BY <1>1, <2>1, <2>2, <2>3, WaitsInNew
  <2>5. QED
    BY <1>1, <1>2, <2>4, EnterQuietlyInv
<1>3. CASE EnterAndResume(t, p)
  BY <1>1, <1>3, EnterAndResumeInv
<1>4. QED
  BY <1>2, <1>3 DEF OpenProjectOfTab

-----------------------------------------------------------------------------
(***************************************************************************)
(* Tabs that come and go.                                                  *)
(***************************************************************************)
Distinct(s) == \A j, k \in DOMAIN s : s[j] = s[k] => j = k

AllBut(r, s, i) ==
  /\ r \in Seq(Tabs) /\ Len(r) = Len(s) - 1
  /\ Distinct(r)
  /\ \A u : (\E j \in DOMAIN r : r[j] = u)
              <=> (\E j \in DOMAIN s : s[j] = u) /\ u # s[i]

LEMMA SecondPart ==
  ASSUME NEW a \in Seq(Tabs), NEW b \in Seq(Tabs),
         NEW j \in 1..(Len(a) + Len(b)), j > Len(a)
  PROVE  (a \o b)[j] = b[j - Len(a)]
OBVIOUS

LEMMA RemoveTab ==
  ASSUME NEW s \in Seq(Tabs), Distinct(s), NEW i \in DOMAIN s,
         NEW r, r = RemoveAt(s, i)
  PROVE  AllBut(r, s, i)
<1> DEFINE old(j) == IF j < i THEN j ELSE j + 1
<1>1. i \in 1..Len(s) /\ Len(s) \in Nat
  OBVIOUS
<1> DEFINE a == SubSeq(s, 1, i - 1)
           b == SubSeq(s, i + 1, Len(s))
<1>2. /\ a \in Seq(Tabs) /\ Len(a) = i - 1
      /\ \A j \in 1..(i - 1) : a[j] = s[j]
  BY <1>1
<1>3. /\ b \in Seq(Tabs) /\ Len(b) = Len(s) - i
      /\ \A j \in 1..(Len(s) - i) : b[j] = s[i + j]
  BY <1>1
<1>4. r = a \o b
  BY DEF RemoveAt
<1> HIDE DEF a, b
<1>5. /\ r \in Seq(Tabs) /\ Len(r) = Len(s) - 1
  BY <1>1, <1>2, <1>3, <1>4
<1>6. \A j \in 1..(Len(s) - 1) : old(j) \in 1..Len(s) /\ r[j] = s[old(j)]
  <2> TAKE j \in 1..(Len(s) - 1)
  <2>1. CASE j < i
    <3>1. r[j] = a[j]
      BY <1>1, <1>2, <1>3, <1>4, <2>1
    <3>2. QED
      BY <1>1, <1>2, <2>1, <3>1
  <2>2. CASE j >= i
    <3>1. j > Len(a) /\ j \in 1..(Len(a) + Len(b))
      BY <1>1, <1>2, <1>3, <2>2
    <3>2. (a \o b)[j] = b[j - Len(a)]
      BY <1>2, <1>3, <3>1, SecondPart
    <3>3. j - (i - 1) \in 1..(Len(s) - i) /\ i + (j - (i - 1)) = j + 1
      BY <1>1, <2>2
    <3>4. b[j - (i - 1)] = s[j + 1]
      BY <1>3, <3>3
    <3>5. r[j] = s[j + 1]
      BY <1>2, <1>4, <3>2, <3>4
    <3>6. QED
      BY <1>1, <2>2, <3>5
  <2>3. QED
    BY <1>1, <2>1, <2>2
<1>7. DOMAIN r = 1..(Len(s) - 1) /\ DOMAIN s = 1..Len(s)
  BY <1>1, <1>5
<1>8. ASSUME NEW j \in DOMAIN r, NEW k \in DOMAIN r, r[j] = r[k]
      PROVE  j = k
  <2>1. old(j) = old(k)
    BY <1>6, <1>7, <1>8 DEF Distinct
  <2>2. QED
    BY <1>1, <1>7, <2>1
<1>9. ASSUME NEW j \in DOMAIN r
      PROVE  r[j] # s[i]
  <2>1. old(j) # i
    BY <1>1, <1>7
  <2>2. QED
    BY <1>6, <1>7, <2>1 DEF Distinct
<1>10. ASSUME NEW j \in DOMAIN s, s[j] # s[i]
       PROVE  \E k \in DOMAIN r : r[k] = s[j]
  <2>1. CASE j < i
    <3>1. j \in DOMAIN r /\ old(j) = j
      BY <1>1, <1>7, <2>1
    <3>2. QED
      BY <1>6, <1>7, <3>1
  <2>2. CASE j > i
    <3>1. j - 1 \in DOMAIN r /\ old(j - 1) = j
      BY <1>1, <1>7, <2>2
    <3>2. QED
      BY <1>6, <1>7, <3>1
  <2>3. j # i
    BY <1>10
  <2>4. QED
    BY <1>1, <1>7, <2>1, <2>2, <2>3
<1>11. \A u : (\E j \in DOMAIN r : r[j] = u)
                <=> (\E j \in DOMAIN s : s[j] = u) /\ u # s[i]
  <2> TAKE u
  <2>1. ASSUME NEW j \in DOMAIN r, r[j] = u
        PROVE  (\E k \in DOMAIN s : s[k] = u) /\ u # s[i]
    <3>1. old(j) \in DOMAIN s /\ s[old(j)] = u
      BY <1>6, <1>7, <2>1
    <3>2. QED
      BY <1>9, <2>1, <3>1
  <2>2. ASSUME NEW j \in DOMAIN s, s[j] = u, u # s[i]
        PROVE  \E k \in DOMAIN r : r[k] = u
    BY <1>10, <2>2
  <2>3. QED
    BY <2>1, <2>2
<1>12. QED
  BY <1>5, <1>8, <1>11 DEF AllBut, Distinct

(* What the closing of a tab that is not the only one has to do.           *)
LEMMA ClosingInv ==
  ASSUME IInv, NEW t \in Tabs, NEW i \in DOMAIN tabs,
         tabs[i] = t, tabs' = RemoveAt(tabs, i), UNCHANGED calls,
         realtimeFile' = [realtimeFile EXCEPT ![t] = None],
         stray' = stray \ {t},
         activeTabId' \in Tabs, IsOpen(activeTabId)', activeTabId' # t,
         page' \in GoodViews(Astray(activeTabId')),
         saved' \in [Tabs -> Views],
         page'.project = saved'[activeTabId'].project,
         Astray(activeTabId') \/ Kept(page') = Kept(saved'[activeTabId']),
         \A u \in Tabs : Follows(Astray(u), saved'[u], saved[u]),
         \A u \in Tabs : u # t => (Loading(u)' <=> Loading(u))
  PROVE  IInv' /\ StepOK
<1> USE DEF IInv, StateInv
<1>1. /\ tabs' \in Seq(Tabs)
      /\ \A j, k \in DOMAIN tabs' : tabs'[j] = tabs'[k] => j = k
      /\ \A u : (\E j \in DOMAIN tabs' : tabs'[j] = u)
                  <=> (\E j \in DOMAIN tabs : tabs[j] = u) /\ u # t
  <2>1. PICK s, r : s = tabs /\ r = RemoveAt(s, i)
    OBVIOUS
  <2>2. s \in Seq(Tabs) /\ Distinct(s) /\ i \in DOMAIN s
    BY <2>1 DEF PlaceInv, Distinct
  <2>3. AllBut(r, s, i)
    BY <2>1, <2>2, RemoveTab
  <2>4. tabs' = r /\ s[i] = t
    BY <2>1
  <2>5. QED
    BY <2>1, <2>3, <2>4 DEF AllBut, Distinct
<1>2. /\ \A u : IsOpen(u)' <=> IsOpen(u) /\ u # t
      /\ \A u : u # t => (Astray(u)' <=> Astray(u))
      /\ \A u : Astray(u) => Astray(u)'
      /\ \A u \in Tabs : saved'[u].project = saved[u].project
  BY <1>1 DEF IsOpen, Astray, Follows
<1>3. PlaceInv'
  BY <1>1, <1>2 DEF PlaceInv
<1>4. ViewInv' /\ PageIsActiveTab'
  <2>1. \A u \in Tabs : saved'[u] \in GoodViews(Astray(u)')
    BY <1>2 DEF Follows, GoodViews
  <2>2. page' \in GoodViews(Astray(activeTabId)')
    BY <1>2 DEF GoodViews
  <2>3. activeTabId' \notin stray' => ~Astray(activeTabId')
    BY <1>2 DEF Astray
  <2>4. QED
    BY <2>1, <2>2, <2>3 DEF ViewInv, PageIsActiveTab
<1>5. RealtimeInv'
  <2>1. /\ realtimeFile' \in [Tabs -> Files \cup {None}]
        /\ realtimeFile'[t] = None
        /\ \A u \in Tabs : u # t => realtimeFile'[u] = realtimeFile[u]
    BY DEF RealtimeInv
  <2>2. QED
    BY <1>2, <2>1 DEF RealtimeInv
<1>6. OneTabPerProject'
  BY <1>2 DEF OneTabPerProject
<1>7. StepOK
  BY <1>2 DEF StepOK, Stays, IsOpen, Astray, Follows
<1>8. CallInv'
  BY <1>2 DEF CallInv, GoodCall
<1>9. OnePrevAtATime'
  BY <1>2 DEF PrevInv, OnePrevAtATime
<1>10. \A c \in calls : c.tab \in Tabs
  BY DEF CallInv, GoodCall
<1>11. PrevInv'
  BY <1>2, <1>9, <1>10 DEF PrevInv
<1>12. QED
  BY <1>3, <1>4, <1>5, <1>6, <1>7, <1>8, <1>11

LEMMA CloseBackgroundInv ==
  ASSUME IInv, NEW t \in Tabs, NEW i \in DOMAIN tabs,
         tabs[i] = t, CloseBackgroundTab(i), UNCHANGED calls,
         realtimeFile' = [realtimeFile EXCEPT ![t] = None],
         stray' = stray \ {t}
  PROVE  IInv' /\ StepOK
<1>1. /\ tabs' = RemoveAt(tabs, i) /\ activeTabId # t
      /\ activeTabId' = activeTabId /\ page' = page /\ saved' = saved
  BY DEF CloseBackgroundTab
<1>2. /\ activeTabId \in Tabs /\ IsOpen(activeTabId)
      /\ page \in GoodViews(Astray(activeTabId))
      /\ page.project = saved[activeTabId].project
      /\ saved \in [Tabs -> Views]
      /\ Astray(activeTabId) \/ Kept(page) = Kept(saved[activeTabId])
  BY PageFacts
<1>3. IsOpen(activeTabId)'
  <2>1. PICK s, r, a : s = tabs /\ r = RemoveAt(s, i) /\ a = activeTabId
    OBVIOUS
  <2>2. s \in Seq(Tabs) /\ Distinct(s) /\ i \in DOMAIN s
    BY <2>1 DEF IInv, StateInv, PlaceInv, Distinct
  <2>3. AllBut(r, s, i)
    BY <2>1, <2>2, RemoveTab
  <2>4. tabs' = r /\ s[i] = t
    BY <1>1, <2>1
  <2>5. a # s[i] /\ \E j \in DOMAIN s : s[j] = a
    BY <1>1, <1>2, <2>1, <2>4 DEF IsOpen
  <2>6. \E j \in DOMAIN r : r[j] = a
    BY <2>3, <2>5 DEF AllBut
  <2>7. QED
    BY <1>1, <2>1, <2>4, <2>6 DEF IsOpen
<1>4. \A u \in Tabs : Follows(Astray(u), saved'[u], saved[u])
  BY <1>1, SavedFollows DEF IInv, StateInv
<1>5. \A u \in Tabs : Loading(u)' = Loading(u)
  BY <1>1 DEF Loading
<1>6. QED
  BY <1>1, <1>2, <1>3, <1>4, <1>5, ClosingInv

(* The tab to its left, or the first, is loaded.                           *)
LEMMA CloseActiveInv ==
  ASSUME IInv, NEW t \in Tabs, NEW i \in DOMAIN tabs,
         tabs[i] = t, CloseActiveTab(i), UNCHANGED calls,
         realtimeFile' = [realtimeFile EXCEPT ![t] = None],
         stray' = stray \ {t}
  PROVE  IInv' /\ StepOK
<1>1. PICK s, r, a : s = tabs /\ r = RemoveAt(s, i) /\ a = LeftOf(i, r)
  OBVIOUS
<1>2. /\ tabs' = r /\ activeTabId = t /\ activeTabId' = a
      /\ Len(s) > 1 /\ s[i] = t
  BY <1>1 DEF CloseActiveTab
<1>3. s \in Seq(Tabs) /\ Distinct(s) /\ i \in DOMAIN s
  BY <1>1 DEF IInv, StateInv, PlaceInv, Distinct
<1>4. AllBut(r, s, i)
  BY <1>1, <1>3, RemoveTab
<1>5. PICK k \in DOMAIN r : a = r[k]
  <2>1. i \in Nat /\ 1 <= i /\ i <= Len(s) /\ Len(s) \in Nat
    BY <1>3
  <2>2. DOMAIN r = 1..(Len(s) - 1)
    BY <1>4 DEF AllBut
  <2>3. CASE i > 1
    <3>1. i - 1 \in DOMAIN r /\ a = r[i - 1]
      BY <1>1, <2>1, <2>2, <2>3 DEF LeftOf
    <3>2. QED
      BY <3>1
  <2>4. CASE ~(i > 1)
    <3>1. 1 \in DOMAIN r /\ a = r[1]
      BY <1>1, <1>2, <2>1, <2>2, <2>4 DEF LeftOf
    <3>2. QED
      BY <3>1
  <2>5. QED
    BY <2>3, <2>4
<1>6. a \in Tabs /\ a # t
  <2>1. r \in Seq(Tabs) /\ a # s[i]
    BY <1>4, <1>5 DEF AllBut
  <2>2. QED
    BY <1>2, <1>5, <2>1
<1>7. /\ activeTabId' \in Tabs /\ IsOpen(activeTabId)'
  BY <1>2, <1>5, <1>6 DEF IsOpen
<1>8. /\ saved \in [Tabs -> Views] /\ saved[a] \in GoodViews(Astray(a))
      /\ Astray(a) \in BOOLEAN
  BY <1>6 DEF IInv, StateInv, ViewInv, Astray
<1>9. PICK v, w : v = saved[a] /\ w = Loaded(v)
  OBVIOUS
<1>10. /\ w \in GoodViews(Astray(a)) /\ w \in Views /\ Kept(w) = Kept(v)
       /\ w.project = v.project /\ w.hits = v.hits
       /\ w.loadingPrev = v.loadingPrev
  BY <1>8, <1>9, LoadedGood DEF GoodViews
<1>11. Follows(Astray(a), w, saved[a])
  BY <1>6, <1>9, <1>10, SavedFollows DEF Follows, IInv, StateInv
<1>12. page' = w /\ saved' = [saved EXCEPT ![a] = w]
  BY <1>2, <1>6, <1>8, <1>9 DEF CloseActiveTab
<1>13. /\ saved' \in [Tabs -> Views] /\ saved'[a] = w
       /\ \A u \in Tabs : u # a => saved'[u] = saved[u]
  BY <1>6, <1>8, <1>10, <1>12
<1>14. \A u \in Tabs : Follows(Astray(u), saved'[u], saved[u])
  <2>1. \A u \in Tabs : Follows(Astray(u), saved[u], saved[u])
    BY SavedFollows DEF IInv, StateInv
  <2>2. QED
    BY <1>11, <1>13, <2>1
<1>15. \A u \in Tabs : u # t => (Loading(u)' <=> Loading(u))
  BY <1>2, <1>6, <1>9, <1>10, <1>12, <1>13 DEF Loading
<1>16. /\ Kept(page') = Kept(saved'[activeTabId'])
       /\ page'.project = saved'[activeTabId'].project
       /\ page' \in GoodViews(Astray(activeTabId'))
       /\ activeTabId' # t
  BY <1>2, <1>6, <1>10, <1>12, <1>13
<1>17. tabs' = RemoveAt(tabs, i)
  BY <1>1, <1>2
<1>18. QED
  BY <1>7, <1>13, <1>14, <1>15, <1>16, <1>17, ClosingInv

(* The only tab makes room for a new one, which nobody waits for.          *)
LEMMA CloseLastInv ==
  ASSUME IInv, NEW t \in Tabs, NEW i \in DOMAIN tabs,
         tabs[i] = t, CloseLastTab, UNCHANGED calls,
         realtimeFile' = [realtimeFile EXCEPT ![t] = None],
         stray' = stray \ {t}
  PROVE  IInv' /\ StepOK
<1> USE DEF IInv, StateInv
<1>1. PICK u \in Tabs :
        /\ IsNew(u) /\ tabs' = <<u>> /\ activeTabId' = u
        /\ saved' = [saved EXCEPT ![u] = EmptyView] /\ page' = EmptyView
  BY DEF CloseLastTab
<1>2. \A x : IsOpen(x) <=> x = t
  <2>1. tabs \in Seq(Tabs) /\ Len(tabs) = 1
    BY DEF CloseLastTab, PlaceInv
  <2>2. DOMAIN tabs = {1} /\ i = 1
    BY <2>1
  <2>3. QED
    BY <2>2 DEF IsOpen
<1>3. \A x : IsOpen(x)' <=> x = u
  BY <1>1 DEF IsOpen
<1>4. u # t
  BY <1>1, <1>2 DEF IsNew
<1>5. stray' = {}
  BY <1>2 DEF PlaceInv
<1>6. PlaceInv'
  BY <1>1, <1>3, <1>5 DEF PlaceInv
<1>7. /\ saved' \in [Tabs -> Views] /\ saved'[u] = EmptyView
      /\ \A x \in Tabs : x # u => saved'[x] = saved[x]
      /\ EmptyView \in GoodViews(FALSE)
  BY <1>1, PageFacts, EmptyGood DEF GoodViews
<1>8. ViewInv' /\ PageIsActiveTab'
  <2>1. \A x : Astray(x)' <=> x # u
    BY <1>3, <1>5 DEF Astray
  <2>2. \A x \in Tabs : saved'[x] \in GoodViews(Astray(x)')
    BY <1>7, <2>1 DEF GoodViews
  <2>3. QED
    BY <1>1, <1>7, <2>2 DEF ViewInv, PageIsActiveTab
<1>9. RealtimeInv'
  BY <1>2 DEF RealtimeInv
<1>10. OneTabPerProject'
  BY <1>3 DEF OneTabPerProject
<1>11. StepOK
  BY <1>2, <1>3, <1>4 DEF StepOK, Stays, IsOpen
<1>12. \A c \in calls : ~IsOpen(c.tab)' /\ Astray(c.tab)'
  BY <1>1, <1>3 DEF IsNew, Astray
<1>13. CallInv' /\ PrevInv'
  BY <1>12 DEF CallInv, GoodCall, PrevInv, OnePrevAtATime
<1>14. QED
  BY <1>6, <1>8, <1>9, <1>10, <1>11, <1>13

(* The active tab is empty, so that nobody waits in it.                    *)
LEMMA OpenInEmptyInv ==
  ASSUME IInv, NEW p \in Projects, OpenProjectInEmptyTab(p),
         UNCHANGED <<realtimeFile, stray>>
  PROVE  IInv' /\ StepOK
<1> USE DEF IInv, StateInv
<1>1. PICK t, v, w, th, e :
        /\ t = activeTabId /\ v = page /\ w = [v EXCEPT !.project = p]
        /\ th = OpenNewest
        /\ e = [Call("files", t, p, None, 0) EXCEPT !.then = th]
  OBVIOUS
<1>2. /\ t \in Tabs /\ IsOpen(t) /\ v \in Views /\ v.project = None
      /\ v \in GoodViews(FALSE)
      /\ saved[t].project = None /\ saved \in [Tabs -> Views]
      /\ v.hits = saved[t].hits /\ t \notin stray
  <2>1. /\ t \in Tabs /\ IsOpen(t) /\ v \in Views /\ v.project = None
        /\ saved[t].project = None /\ saved \in [Tabs -> Views]
    BY <1>1, PageFacts DEF OpenProjectInEmptyTab
  <2>2. t \notin stray /\ ~Astray(t)
    BY <2>1 DEF PlaceInv, Astray
  <2>3. QED
    BY <1>1, <2>1, <2>2, PageFacts DEF Kept, GoodViews
<1>3. SameTabs /\ page' = w /\ saved' = [saved EXCEPT ![t] = w] /\ Wait(e)
  BY <1>1 DEF OpenProjectInEmptyTab, SameTabs, Show, Sync, LoadFiles, Wait
<1>4. w \in GoodViews(FALSE) /\ w \in Views /\ w.project = p
  BY <1>1, <1>2, EmptyGood DEF GoodViews, Views
<1>5. w.hits = v.hits /\ w.loadingPrev = v.loadingPrev
  BY <1>1, <1>2 DEF Views
<1>6. /\ saved' \in [Tabs -> Views] /\ saved'[t] = w
      /\ \A u \in Tabs : u # t => saved'[u] = saved[u]
  BY <1>2, <1>3, <1>4
<1>7. \A u : (IsOpen(u)' <=> IsOpen(u)) /\ (Astray(u)' <=> Astray(u))
  BY <1>3, SameAstray
<1>8. PlaceInv' /\ ViewInv' /\ PageIsActiveTab'
  <2>1. PlaceInv'
    BY <1>1, <1>2, <1>3, <1>6, <1>7 DEF PlaceInv, SameTabs
  <2>2. \A u \in Tabs : saved'[u] \in GoodViews(Astray(u)')
    BY <1>4, <1>6, <1>7 DEF ViewInv, GoodViews
  <2>3. QED
    BY <1>1, <1>2, <1>3, <1>4, <1>6, <2>1, <2>2
    DEF ViewInv, PageIsActiveTab, SameTabs
<1>9. p # None
  BY PageTabsAssumption
<1>10. RealtimeInv'
  BY <1>2, <1>6, <1>7 DEF RealtimeInv
<1>11. \A u \in Tabs : IsOpen(u) => saved[u].project # p
  BY DEF OpenProjectInEmptyTab, HasTab, TabHas
<1>12. OneTabPerProject'
  BY <1>4, <1>6, <1>7, <1>11 DEF OneTabPerProject
<1>13. StepOK
  <2>1. ASSUME NEW u \in Tabs, ~Astray(u)
        PROVE  NotOlder(saved'[u].hits, saved[u].hits)
    <3>1. NotOlder(saved[u].hits, saved[u].hits)
      BY <2>1, SavedFollows DEF Follows
    <3>2. QED
      BY <1>2, <1>5, <1>6, <3>1
  <2>2. QED
    BY <2>1 DEF StepOK, Stays, Astray
<1>14. CallsOfNew
  <2>1. activeTabId' = t /\ saved'[t].project = p
    BY <1>1, <1>3, <1>4, <1>6 DEF SameTabs
  <2>2. QED
    BY <1>1, <1>2, <1>3, <2>1, WaitsInNew
<1>15. \A c \in calls : c.tab # t /\ GoodCall(c)'
  <2> TAKE c \in calls
  <2>1. GoodCall(c) /\ c.tab \in Tabs /\ c.project # None
    BY PageTabsAssumption DEF CallInv, GoodCall
  <2>2. c.tab # t
    BY <1>2, <2>1 DEF GoodCall, Astray
  <2>3. QED
    BY <1>6, <1>7, <2>1, <2>2 DEF GoodCall
<1>16. CallInv'
  BY <1>14, <1>15 DEF CallInv, CallsOfNew
<1>17. \A c \in calls' : c.kind = "prev" => c \in calls /\ c.tab \in Tabs
  BY <1>14 DEF CallsOfNew, CallInv, GoodCall
<1>18. OnePrevAtATime'
  BY <1>7, <1>17 DEF PrevInv, OnePrevAtATime
<1>19. PrevInv'
  BY <1>1, <1>3, <1>6, <1>7, <1>15, <1>17, <1>18
  DEF PrevInv, Loading, SameTabs
<1>20. QED
  BY <1>8, <1>10, <1>12, <1>13, <1>16, <1>19

LEMMA AppendTab ==
  ASSUME NEW s \in Seq(Tabs), Distinct(s), NEW t \in Tabs,
         \A i \in DOMAIN s : s[i] # t
  PROVE  LET r == Append(s, t) IN
         /\ r \in Seq(Tabs) /\ Distinct(r)
         /\ \A u : (\E j \in DOMAIN r : r[j] = u)
                     <=> (\E j \in DOMAIN s : s[j] = u) \/ u = t
<1> DEFINE r == Append(s, t)
<1>1. /\ r \in Seq(Tabs) /\ Len(s) \in Nat
      /\ DOMAIN s = 1..Len(s) /\ DOMAIN r = 1..(Len(s) + 1)
      /\ r[Len(s) + 1] = t
      /\ \A i \in 1..Len(s) : r[i] = s[i]
  OBVIOUS
<1> HIDE DEF r
<1>2. \A i \in DOMAIN r : i \in DOMAIN s \/ i = Len(s) + 1
  BY <1>1
<1>3. Len(s) + 1 \in DOMAIN r /\ \A i \in DOMAIN s : i \in DOMAIN r
  BY <1>1
<1>4. Distinct(r)
  BY <1>1, <1>2 DEF Distinct
<1>5. \A u : (\E j \in DOMAIN r : r[j] = u)
               <=> (\E j \in DOMAIN s : s[j] = u) \/ u = t
  BY <1>1, <1>2, <1>3
<1>6. QED
  BY <1>1, <1>4, <1>5 DEF r

(* A new tab is made for a project that none has.                          *)
LEMMA OpenInNewInv ==
  ASSUME IInv, NEW p \in Projects, NEW t \in Tabs,
         OpenProjectInNewTab(p, t), UNCHANGED <<realtimeFile, stray>>
  PROVE  IInv' /\ StepOK
<1> USE DEF IInv, StateInv
<1>1. PICK s, o, v, w, th, e :
        /\ s = tabs /\ o = activeTabId /\ v = page
        /\ w = [EmptyView EXCEPT !.project = p] /\ th = OpenNewest
        /\ e = [Call("files", t, p, None, 0) EXCEPT !.then = th]
  OBVIOUS
<1>2. /\ ~IsOpen(t) /\ \A c \in calls : c.tab # t
      /\ \A u \in Tabs : IsOpen(u) => saved[u].project # p
  BY DEF OpenProjectInNewTab, IsNew, HasTab, TabHas
<1>3. /\ o \in Tabs /\ IsOpen(o) /\ o # t
      /\ v \in Views /\ v.project = saved[o].project
      /\ v \in GoodViews(Astray(o)) /\ saved \in [Tabs -> Views]
      /\ Astray(o) \/ v.hits = saved[o].hits
      /\ t \notin stray
  BY <1>1, <1>2, PageFacts DEF Kept, PlaceInv
<1>4. /\ tabs' = Append(s, t) /\ activeTabId' = t /\ page' = w
      /\ saved' = [saved EXCEPT ![o] = v, ![t] = w] /\ Wait(e)
  BY <1>1 DEF OpenProjectInNewTab, LoadFiles, Wait
<1>5. /\ EmptyView \in GoodViews(FALSE) /\ EmptyView.project = None
  BY EmptyGood DEF EmptyView
<1>6. w \in GoodViews(FALSE) /\ w \in Views /\ w.project = p
  BY <1>1, <1>5, EmptyGood DEF EmptyView, GoodViews
<1>7. /\ saved' \in [Tabs -> Views] /\ saved'[t] = w /\ saved'[o] = v
      /\ \A u \in Tabs : (u # o /\ u # t) => saved'[u] = saved[u]
  BY <1>3, <1>4, <1>6
<1>8. /\ s \in Seq(Tabs) /\ Distinct(s) /\ \A i \in DOMAIN s : s[i] # t
  BY <1>1, <1>2 DEF PlaceInv, Distinct, IsOpen
<1>9. /\ tabs' \in Seq(Tabs) /\ Distinct(tabs')
      /\ \A u : (\E j \in DOMAIN tabs' : tabs'[j] = u)
                  <=> (\E j \in DOMAIN s : s[j] = u) \/ u = t
  BY <1>4, <1>8, AppendTab
<1>10. /\ \A u : IsOpen(u)' <=> IsOpen(u) \/ u = t
       /\ \A u : u # t => (Astray(u)' <=> Astray(u))
       /\ ~Astray(t)'
  BY <1>1, <1>3, <1>9 DEF IsOpen, Astray
<1>11. \A u \in Tabs : u # t =>
         /\ saved'[u].project = saved[u].project
         /\ Astray(u) \/ saved'[u].hits = saved[u].hits
  BY <1>3, <1>7
<1>12. PlaceInv'
  BY <1>3, <1>4, <1>9, <1>10, <1>11 DEF PlaceInv, Distinct
<1>13. ViewInv' /\ PageIsActiveTab'
  <2>1. \A u \in Tabs : saved'[u] \in GoodViews(Astray(u)')
    BY <1>3, <1>6, <1>7, <1>10 DEF ViewInv, GoodViews
  <2>2. QED
    BY <1>4, <1>6, <1>7, <1>10, <2>1 DEF ViewInv, PageIsActiveTab
<1>14. RealtimeInv'
  BY <1>2, <1>10, <1>11 DEF RealtimeInv
<1>15. OneTabPerProject'
  BY <1>2, <1>6, <1>7, <1>10, <1>11 DEF OneTabPerProject
<1>16. StepOK
  <2>1. ASSUME NEW u \in Tabs \ stray, Stays(u)
        PROVE  NotOlder(saved'[u].hits, saved[u].hits)
    <3>1. u # t /\ ~Astray(u)
      BY <1>2, <2>1 DEF Stays, Astray
    <3>2. NotOlder(saved[u].hits, saved[u].hits)
      BY <3>1, SavedFollows DEF Follows
    <3>3. QED
      BY <1>11, <3>1, <3>2
  <2>2. QED
    BY <2>1 DEF StepOK
<1>17. CallsOfNew
  BY <1>1, <1>4, <1>6, <1>7, WaitsInNew
<1>18. \A c \in calls : GoodCall(c)'
  <2> TAKE c \in calls
  <2>1. GoodCall(c) /\ c.tab \in Tabs /\ c.tab # t
    BY <1>2 DEF CallInv, GoodCall
  <2>2. QED
    BY <1>10, <1>11, <2>1 DEF GoodCall
<1>19. CallInv'
  BY <1>17, <1>18 DEF CallInv, CallsOfNew
<1>20. \A c \in calls' : c.kind = "prev" =>
         c \in calls /\ c.tab \in Tabs /\ c.tab # t
  BY <1>2, <1>17 DEF CallsOfNew, CallInv, GoodCall
<1>21. OnePrevAtATime'
  BY <1>10, <1>20 DEF PrevInv, OnePrevAtATime
<1>22. \A u \in Tabs : u # t => Loading(u)' = Loading(u)
  BY <1>1, <1>4, <1>7 DEF Loading
<1>23. PrevInv'
  BY <1>10, <1>20, <1>21, <1>22 DEF PrevInv
<1>24. QED
  BY <1>12, <1>13, <1>14, <1>15, <1>16, <1>19, <1>23

-----------------------------------------------------------------------------
LEMMA InitInv == Init => IInv
<1> SUFFICES ASSUME Init
             PROVE  IInv
  OBVIOUS
<1>1. PICK t \in Tabs : /\ tabs = <<t>> /\ activeTabId = t
                        /\ page = EmptyView
                        /\ saved = [u \in Tabs |-> EmptyView]
                        /\ realtimeFile = [u \in Tabs |-> None]
                        /\ calls = {} /\ stray = {}
  BY DEF Init
<1>2. \A u : IsOpen(u) <=> u = t
  BY <1>1 DEF IsOpen
<1>3. EmptyView \in GoodViews(FALSE) /\ EmptyView \in Views
  BY EmptyGood DEF GoodViews
<1>4. PlaceInv
  BY <1>1, <1>2 DEF PlaceInv
<1>5. ViewInv /\ RealtimeInv /\ PageIsActiveTab /\ OneTabPerProject
  BY <1>1, <1>2, <1>3
  DEF ViewInv, RealtimeInv, PageIsActiveTab, OneTabPerProject, GoodViews
<1>6. CallInv /\ PrevInv
  BY <1>1 DEF CallInv, PrevInv, OnePrevAtATime
<1>7. QED
  BY <1>4, <1>5, <1>6 DEF IInv, StateInv

LEMMA CloseTabInv ==
  ASSUME IInv, NEW t \in Tabs, CloseTab(t)
  PROVE  IInv' /\ StepOK
<1>1. PICK i \in DOMAIN tabs :
        /\ tabs[i] = t
        /\ CloseBackgroundTab(i) \/ CloseActiveTab(i) \/ CloseLastTab
  BY DEF CloseTab
<1>2. /\ UNCHANGED calls
      /\ realtimeFile' = [realtimeFile EXCEPT ![t] = None]
      /\ stray' = stray \ {t}
  BY DEF CloseTab
<1>3. QED
  BY <1>1, <1>2, CloseBackgroundInv, CloseActiveInv, CloseLastInv

LEMMA OpenProjectInv ==
  ASSUME IInv, UNCHANGED stray, NEW p \in Projects, OpenProject(p)
  PROVE  IInv' /\ StepOK
BY OpenInEmptyInv, OpenProjectOfTabInv, OpenInNewInv DEF OpenProject

LEMMA AnswerInv ==
  ASSUME IInv, NEW c \in calls, Answer(c)
  PROVE  IInv' /\ StepOK
<1>1. CASE FileOpenedLate(c)
  BY <1>1, FileOpenedLateInv
<1>2. CASE AnswerToItsTab(c) /\ UNCHANGED stray
  <2>1. ASSUME NEW f \in Files, NEW at \in 0..(Size - 1),
               SearchDoneOpensHit(c, f, at)
        PROVE  IInv' /\ StepOK
    BY <1>2, <2>1, SearchDoneOpensHitInv
  <2>2. HitShownLate(c) => IInv' /\ StepOK
    BY <1>2, SmallInv
  <2>3. QED
    BY <1>2, <2>1, <2>2, FilesLoadedInv, FilesLoadedLateInv, FileOpenedInv,
       PrevChunkLoadedInv, PrevChunkLoadedLateInv,
       HitShownInv, SearchDoneInv, SearchDoneLateInv, CallFailsInv
    DEF AnswerToItsTab
<1>3. QED
  BY <1>1, <1>2 DEF Answer

LEMMA ClickInv ==
  ASSUME IInv, Click
  PROVE  IInv' /\ StepOK
<1>1. ASSUME NEW t \in Tabs, CloseTab(t)
      PROVE  IInv' /\ StepOK
  BY <1>1, CloseTabInv
<1>2. CASE ClickInTab /\ UNCHANGED stray
  <2>1. ASSUME NEW t \in Tabs, ActivateTab(t)
        PROVE  IInv' /\ StepOK
    BY <1>2, <2>1, ActivateTabInv
  <2>2. ASSUME NEW p \in Projects, OpenProject(p)
        PROVE  IInv' /\ StepOK
    BY <1>2, <2>2, OpenProjectInv
  <2>3. ASSUME NEW f \in Files, OpenFile(f)
        PROVE  IInv' /\ StepOK
    BY <1>2, <2>3, OpenFileInv
  <2>4. ASSUME NEW f \in Files, NEW at \in 0..(Size - 1), OpenSearchHit(f, at)
        PROVE  IInv' /\ StepOK
    BY <1>2, <2>4, OpenSearchHitInv
  <2>5. (ClearViewer \/ SetRealtimeFollowOff \/ ResetSearchPanel)
          => IInv' /\ StepOK
    BY <1>2, SmallInv
  <2>6. QED
    BY <1>2, <2>1, <2>2, <2>3, <2>4, <2>5, OpenLatestInv, RefreshFilesInv,
       LoadPrevInv, SearchLogsInv
    DEF ClickInTab
<1>3. QED
  BY <1>1, <1>2 DEF Click

LEMMA NextInv ==
  ASSUME IInv, [Next]_vars
  PROVE  IInv' /\ (Next => StepOK)
<1>1. ASSUME Next
      PROVE  IInv' /\ StepOK
  <2>1. ASSUME NEW t \in Tabs, PauseIdleTab(t), UNCHANGED stray
        PROVE  IInv' /\ StepOK
    BY <2>1, SmallInv
  <2>2. QED
    BY <1>1, <2>1, AnswerInv, ClickInv DEF Next
<1>2. CASE UNCHANGED vars
  <2>1. IInv'
    BY <1>2 DEF vars, IInv, StateInv, PlaceInv, ViewInv, RealtimeInv,
       PageIsActiveTab, OneTabPerProject, IsOpen, Astray, CallInv, GoodCall,
       PrevInv, OnePrevAtATime, Loading
  <2>2. QED
    BY <1>1, <2>1
<1>3. QED
  BY <1>1, <1>2

LEMMA PageTabsInvariant == Spec => []IInv
<1>1. IInv /\ [Next]_vars => IInv'
  BY NextInv
<1>2. QED
  BY <1>1, InitInv, PTL DEF Spec

(* An open tab that has not been given the project of another shows        *)
(* nothing of another project, in the page and in its copy                 *)
(* (isActiveTabContext, app.js): the answers to what it asked for may come *)
(* in any order and while any tab is active.                               *)
THEOREM NoTabShowsAnother == Spec => []TabsDoNotMix
<1>1. IInv => TabsDoNotMix
  BY DEF IInv, StateInv, PlaceInv, ViewInv, GoodViews, Sound, Astray,
     TabsDoNotMix
<1>2. QED
  BY <1>1, PageTabsInvariant, PTL

(* What syncStateToActiveTab and loadStateFromTab have to keep together.   *)
THEOREM PageAndTabAgree == Spec => []PageIsActiveTab
<1>1. IInv => PageIsActiveTab
  BY DEF IInv, StateInv
<1>2. QED
  BY <1>1, PageTabsInvariant, PTL

(* openProjectInTab never makes a second tab for a project, and only one   *)
(* that goes on in another tab than its own can give two tabs the same.    *)
THEOREM OneTabForAProject == Spec => []OneTabPerProject
<1>1. IInv => OneTabPerProject
  BY DEF IInv, StateInv
<1>2. QED
  BY <1>1, PageTabsInvariant, PTL

(* The flag loadingPrev, which every tab has for itself, keeps loadPrev-   *)
(* Chunk from asking twice, though it waits while tabs are changed and     *)
(* whatever project a tab is given meanwhile.                              *)
THEOREM OnePrevForATab == Spec => []OnePrevAtATime
<1>1. IInv => OnePrevAtATime
  BY DEF IInv, PrevInv
<1>2. QED
  BY <1>1, PageTabsInvariant, PTL

(* The number that searchLogs compares lets no older answer replace the    *)
(* hits of a newer one, in whatever tab they arrive.                       *)
THEOREM NewerHitsStay == Spec => SearchNeverGoesBack
<1>1. IInv /\ [Next]_vars =>
        [\A t \in Tabs \ stray :
           Stays(t) => NotOlder(saved'[t].hits, saved[t].hits)]_vars
  BY NextInv DEF StepOK
<1>2. QED
  BY <1>1, PageTabsInvariant, PTL DEF Spec, SearchNeverGoesBack

==============================================================================
