------------------------------- MODULE LogSearch -------------------------------
(* RemoteCommandLogService.search: one search over the log files of a project.
   The files are listed, the ones in scope are chosen, and they are read one
   after the other by a remote command until a cap is reached. A search for a
   keyword runs grep; a search with a range of the clock runs an awk script of
   the service's own. Both print the selected lines with their context, and the
   service parses what they print.

   A line is what a search sees of it: whether the keyword occurs in it and the
   time of day its timestamp says. Printed text is a line number in its file.
   What a file holds is chosen when a command reads it: files grow between the
   listing and the scan, so the size that is charged to the byte cap is that of
   the listing and says nothing about the lines. *)
EXTENDS Integers, Sequences, FiniteSets, SequencesExt

CONSTANTS
  Names,                    \* the files of the directory
  Meta,                     \* Meta[f] = [type, date, index, mtime, size]
  NotDates,                 \* the dates among them that are no date, as 20261399
  Contents,                 \* the sequences of lines a file may hold
  Requests,                 \* the requests that may come
  MillisPerSecond,          \* the clock counts milliseconds,
  MillisPerDay,             \* and starts again every day
  MaxFilesPerSearch, MaxScannedBytesPerSearch, MaxHitsPerSearch, MaxContextLines,
  None                      \* a missing field of a request, a line without a timestamp

ASSUME ConstantsAssumption ==
  /\ MillisPerSecond \in Nat \ {0}
  /\ MillisPerDay \in Nat \ {0}
  /\ MaxFilesPerSearch \in Nat \ {0}
  /\ MaxScannedBytesPerSearch \in Nat
  /\ MaxHitsPerSearch \in Nat \ {0}
  /\ MaxContextLines \in Nat
  /\ \A r \in Requests : r.maxHits \in Int \cup {None}

Times == 0..(MillisPerDay - 1) \cup {None}

(* The service parses the times of a request and the timestamps of lines, a size
   below zero counts as zero, and a second does not go on into the next day. *)
ASSUME DataAssumption ==
  /\ None \notin Int \cup [start : Int, end : Int, wraps : BOOLEAN]
  /\ IsFiniteSet(Names)
  /\ \A f \in Names : Meta[f].size \in Nat
  /\ \A r \in Requests : /\ r.keyword \in BOOLEAN
                         /\ r.start \in Times /\ r.end \in Times
                         /\ r.contextLines \in Int \cup {None}
  /\ \A c \in Contents : c \in Seq([word : BOOLEAN, at : Times])
  /\ \A t \in 0..(MillisPerDay - 1) :
       t % MillisPerSecond = 0 => t + MillisPerSecond - 1 < MillisPerDay

VARIABLES
  request,       \* the arguments of the call
  phase,         \* "start", "scan", or how the call has ended
  todo,          \* the rest of targetFiles
  scannedFiles, scannedBytes, partial, hits,
  read           \* history: the files that were read, with what they held

vars == <<request, phase, todo, scannedFiles, scannedBytes, partial, hits, read>>

-------------------------------------------------------------------------------
(* What a request asks for.                                                    *)

(* A range in whole seconds ends with the last millisecond of its last second. *)
EndBound(t) == IF t % MillisPerSecond = 0 THEN t + MillisPerSecond - 1 ELSE t

TimeRange(r) ==
  LET start == IF r.start = None THEN r.end ELSE r.start
      end == IF r.end = None THEN r.start ELSE r.end
  IN  IF r.start = None /\ r.end = None
      THEN None
      ELSE [start |-> start, end |-> EndBound(end), wraps |-> end < start]

(* Mutant: a range over midnight is forgotten. *)
InTimeRangeOneDay(at, range) == at # None /\ at >= range.start /\ at <= range.end

InTimeRange(at, range) ==
  /\ at # None
  /\ IF range.wraps
     THEN at >= range.start \/ at <= range.end
     ELSE at >= range.start /\ at <= range.end

Bounded(low, x, high) == IF x > high THEN high ELSE IF x < low THEN low ELSE x

MaxHits(r) ==
  IF TimeRange(r) # None /\ ~r.keyword
  THEN 1
  ELSE Bounded(1, IF r.maxHits = None THEN MaxHitsPerSearch ELSE r.maxHits, MaxHitsPerSearch)

ContextLines(r) ==
  IF r.contextLines = None THEN 0 ELSE Bounded(0, r.contextLines, MaxContextLines)

-------------------------------------------------------------------------------
(* The files of a search.                                                      *)

LatestFirst(f, g) ==
  \/ Meta[f].date > Meta[g].date
  \/ Meta[f].date = Meta[g].date /\ Meta[f].index > Meta[g].index
  \/ Meta[f].date = Meta[g].date /\ Meta[f].index = Meta[g].index
       /\ Meta[f].mtime > Meta[g].mtime

(* Names that are no log of the type are left out. find prints in any order,
   and files that the order does not tell apart stay as find printed them. *)
Listings(type) ==
  LET files == {f \in Names : Meta[f].type = type}
  IN  {s \in [1..Cardinality(files) -> files] :
         \A i, j \in DOMAIN s : i < j => s[i] # s[j] /\ ~LatestFirst(s[j], s[i])}

(* The elements of s in S, in the order of s. *)
Only(s, S) ==
  FoldLeft(LAMBDA kept, x : IF x \in S THEN Append(kept, x) ELSE kept, <<>>, s)

FilterFilesByRecentDays(files, days) ==
  LET dated == {f \in ToSet(files) : Meta[f].date \notin NotDates}
      recent == {f \in dated : \A g \in dated : Meta[f].date > Meta[g].date - days}
  IN  IF dated = {} THEN files ELSE Only(files, recent)

SelectTargetFiles(files, r) ==
  CASE r.scope = "CURRENT_FILE" -> Only(files, {r.file})
    [] r.scope = "DAY"          -> Only(files, {f \in Names : Meta[f].date = r.date})
    [] r.scope = "LAST_3_DAYS"  -> FilterFilesByRecentDays(files, 3)
    [] r.scope = "LAST_7_DAYS"  -> FilterFilesByRecentDays(files, 7)
    [] OTHER                    -> files           \* DATE_RANGE and ALL

-------------------------------------------------------------------------------
(* A search for a keyword: what grep -C prints, and how it is parsed.           *)

(* The first limit lines with the keyword and their context. After the last of
   them grep stops before the next line with the keyword. Groups of lines that
   are not adjacent are parted by "--". *)
GrepOutput(content, ctx, limit) ==
  LET selected == {i \in DOMAIN content : content[i].word}
      isFirst(i) == Cardinality({j \in selected : j <= i}) <= limit
      matches == {i \in selected : isFirst(i)}
      printed(i) == \/ i \in matches
                    \/ /\ i \in DOMAIN content \ selected
                       /\ \E m \in matches : i \in (m - ctx)..(m + ctx)
                       /\ \A j \in selected \ matches : i < j
      line(i) == [kind |-> IF i \in matches THEN "match" ELSE "context", line |-> i]
      separated(i) == /\ ctx > 0
                      /\ ~printed(i - 1)
                      /\ \E j \in 1..(i - 1) : printed(j)
  IN  FoldLeftDomain(
        LAMBDA out, i : IF ~printed(i) THEN out
                        ELSE IF separated(i) THEN out \o << [kind |-> "--"], line(i) >>
                        ELSE Append(out, line(i)),
        <<>>, content)

Hit(f, i, before) == [file |-> f, line |-> i, before |-> before, after |-> <<>>]

GrepStart == [hits |-> <<>>, rolling |-> <<>>, current |-> FALSE]

(* Mutant: the context before a hit may reach behind the previous hit. *)
ParseGrepLineKeepsRolling(s, printed, f, ctx) ==
  LET last == Len(s.hits)
      line == printed.line
      full == Len(s.rolling) >= ctx
      grown == [s.hits EXCEPT ![last].after = Append(@, line)]
  IN  CASE printed.kind = "--" -> [s EXCEPT !.rolling = <<>>, !.current = FALSE]
        [] printed.kind = "match" ->
             [s EXCEPT !.hits = Append(@, Hit(f, line, s.rolling)), !.current = TRUE]
        [] printed.kind = "context" ->
             [s EXCEPT !.rolling = Append(IF full THEN Tail(@) ELSE @, line),
                       !.hits = IF s.current /\ Len(@[last].after) < ctx
                                THEN grown ELSE @]

(* rolling is rollingContext; current says whether currentHit, which is always
   the last hit, is set. *)
ParseGrepLine(s, printed, f, ctx) ==
  LET last == Len(s.hits)
      line == printed.line
      full == Len(s.rolling) >= ctx
      grown == [s.hits EXCEPT ![last].after = Append(@, line)]
  IN  CASE printed.kind = "--" -> [s EXCEPT !.rolling = <<>>, !.current = FALSE]
        [] printed.kind = "match" ->
             [hits |-> Append(s.hits, Hit(f, line, s.rolling)),
              rolling |-> <<>>, current |-> TRUE]
        [] printed.kind = "context" ->
             [s EXCEPT !.rolling = Append(IF full THEN Tail(@) ELSE @, line),
                       !.hits = IF s.current /\ Len(@[last].after) < ctx
                                THEN grown ELSE @]

GrepFile(f, content, r, limit) ==
  LET ctx == ContextLines(r)
      parsed == FoldLeft(LAMBDA s, printed : ParseGrepLine(s, printed, f, ctx),
                         GrepStart, GrepOutput(content, ctx, limit))
  IN  [hits |-> parsed.hits, partial |-> FALSE]

-------------------------------------------------------------------------------
(* A search in a range of the clock: the awk script, and how it is parsed.      *)

AwkStart == [before |-> <<>>, afterRemaining |-> <<>>, out |-> <<>>, exited |-> FALSE]

(* Every open hit gets the line as context after it, the earliest hit first. *)
FlushOpenHits(s, i) ==
  LET open == Only([k \in DOMAIN s.afterRemaining |-> k],
                   {k \in DOMAIN s.afterRemaining : s.afterRemaining[k] > 0})
  IN  [s EXCEPT !.out = @ \o [j \in DOMAIN open |->
                                [kind |-> "A", hit |-> open[j], line |-> i]],
                !.afterRemaining = [k \in DOMAIN @ |-> IF @[k] > 0 THEN @[k] - 1 ELSE 0]]

RememberBeforeContext(before, i, ctx) ==
  IF Len(before) < ctx THEN Append(before, i) ELSE Tail(Append(before, i))

AwkSelects(line, r) == InTimeRange(line.at, TimeRange(r)) /\ (r.keyword => line.word)

(* One line of the file. The script ends at the hit that reaches the limit:
   hits that are still open get no more context. *)
AwkLine(s, i, content, r, limit) ==
  LET ctx == ContextLines(r)
      flushed == FlushOpenHits(s, i)
      hit == Len(s.afterRemaining) + 1
      printed == << [kind |-> "H", hit |-> hit, line |-> i] >>
                   \o [j \in DOMAIN s.before |->
                         [kind |-> "B", hit |-> hit, line |-> s.before[j]]]
                   \o (IF hit >= limit THEN << [kind |-> "P"] >> ELSE <<>>)
      remembered == RememberBeforeContext(s.before, i, ctx)
  IN  IF s.exited THEN s
      ELSE IF AwkSelects(content[i], r)
      THEN [before |-> remembered,
            afterRemaining |-> Append(flushed.afterRemaining, ctx),
            out |-> flushed.out \o printed,
            exited |-> hit >= limit]
      ELSE [flushed EXCEPT !.before = remembered]

ParseAwkLine(s, printed, f) ==
  CASE printed.kind = "P" -> [s EXCEPT !.partial = TRUE]
    [] printed.kind = "H" -> [s EXCEPT !.hits = Append(@, Hit(f, printed.line, <<>>))]
    [] printed.kind = "B" -> [s EXCEPT !.hits[printed.hit].before = Append(@, printed.line)]
    [] printed.kind = "A" -> [s EXCEPT !.hits[printed.hit].after = Append(@, printed.line)]

SearchFileByLogTimestamp(f, content, r, limit) ==
  LET script == FoldLeftDomain(LAMBDA s, i : AwkLine(s, i, content, r, limit),
                               AwkStart, content)
  IN  FoldLeft(LAMBDA s, printed : ParseAwkLine(s, printed, f),
               [hits |-> <<>>, partial |-> FALSE], script.out)

-------------------------------------------------------------------------------
(* The search.                                                                 *)

Init ==
  /\ request \in Requests
  /\ phase = "start"
  /\ todo = <<>> /\ hits = <<>> /\ read = <<>>
  /\ scannedFiles = 0 /\ scannedBytes = 0
  /\ partial = FALSE

NothingToSearch == ~request.keyword /\ TimeRange(request) = None

(* 400: neither a keyword nor a range. *)
Reject ==
  /\ phase = "start"
  /\ NothingToSearch
  /\ phase' = "rejected"
  /\ UNCHANGED <<request, todo, scannedFiles, scannedBytes, partial, hits, read>>

List ==
  /\ phase = "start"
  /\ ~NothingToSearch
  /\ \E files \in Listings(request.type) :
       /\ todo' = SelectTargetFiles(files, request)
       /\ phase' = IF todo' = <<>> THEN "done" ELSE "scan"
  /\ UNCHANGED <<request, scannedFiles, scannedBytes, partial, hits, read>>

(* Mutant: the byte cap holds for the first file too. *)
WithinCapsFirstToo ==
  /\ scannedFiles < MaxFilesPerSearch
  /\ Len(hits) < MaxHits(request)
  /\ scannedBytes + Meta[Head(todo)].size <= MaxScannedBytesPerSearch

(* The next file may be read; the first is read however large it is. *)
WithinCaps ==
  /\ scannedFiles < MaxFilesPerSearch
  /\ Len(hits) < MaxHits(request)
  /\ \/ scannedFiles = 0
     \/ scannedBytes + Meta[Head(todo)].size <= MaxScannedBytesPerSearch

(* Mutant: the answer does not say that it ends at a cap. *)
StopAtCapSilently ==
  /\ phase = "scan"
  /\ todo # <<>>
  /\ ~WithinCaps
  /\ phase' = "done"
  /\ UNCHANGED <<request, todo, scannedFiles, scannedBytes, partial, hits, read>>

StopAtCap ==
  /\ phase = "scan"
  /\ todo # <<>>
  /\ ~WithinCaps
  /\ partial' = TRUE
  /\ phase' = "done"
  /\ UNCHANGED <<request, todo, scannedFiles, scannedBytes, hits, read>>

(* Mutant: every file may fill the answer. *)
LimitPerFile == MaxHits(request)

Limit == MaxHits(request) - Len(hits)

SearchFile(f, content) ==
  IF TimeRange(request) = None
  THEN GrepFile(f, content, request, Limit)
  ELSE SearchFileByLogTimestamp(f, content, request, Limit)

ScanFile ==
  /\ phase = "scan"
  /\ todo # <<>>
  /\ WithinCaps
  /\ \E content \in Contents :
       LET f == Head(todo)
           result == SearchFile(f, content)
       IN  /\ hits' = hits \o result.hits
           /\ partial' = (result.partial \/ Len(hits') >= MaxHits(request))
           /\ scannedBytes' = scannedBytes + Meta[f].size
           /\ read' = Append(read, [file |-> f, content |-> content])
  /\ scannedFiles' = scannedFiles + 1
  /\ todo' = Tail(todo)
  /\ phase' = IF partial' THEN "done" ELSE "scan"
  /\ UNCHANGED request

AllScanned ==
  /\ phase = "scan"
  /\ todo = <<>>
  /\ phase' = "done"
  /\ UNCHANGED <<request, todo, scannedFiles, scannedBytes, partial, hits, read>>

(* A command fails or takes too long: the call throws, its hits are lost. *)
CommandFails ==
  /\ \/ phase = "start" /\ ~NothingToSearch
     \/ phase = "scan" /\ todo # <<>> /\ WithinCaps
  /\ phase' = "failed"
  /\ UNCHANGED <<request, todo, scannedFiles, scannedBytes, partial, hits, read>>

Next == Reject \/ List \/ StopAtCap \/ ScanFile \/ AllScanned \/ CommandFails

Spec == Init /\ [][Next]_vars

-------------------------------------------------------------------------------
(* Properties.                                                                 *)

(* Types: a hit names a file of the directory and has no more context than the
   configuration allows, whatever the request asks for. *)
TypeOK ==
  /\ request \in Requests
  /\ phase \in {"start", "scan", "done", "rejected", "failed"}
  /\ ToSet(todo) \subseteq Names
  /\ scannedFiles \in Nat /\ scannedBytes \in Nat
  /\ partial \in BOOLEAN
  /\ \A h \in ToSet(hits) :
       /\ h.file \in Names
       /\ h.line \in Nat \ {0}
       /\ Len(h.before) <= MaxContextLines
       /\ Len(h.after) <= MaxContextLines

(* The files that were read, and their sizes unless the first alone is larger, are
   within the caps of the configuration. *)
FilesAndBytesCapped ==
  /\ scannedFiles <= MaxFilesPerSearch
  /\ scannedFiles > 1 => scannedBytes <= MaxScannedBytesPerSearch

(* The caps of the configuration and of the request hold for the search as a
   whole, not file by file, and no file is read twice. *)
CapsHold ==
  /\ FilesAndBytesCapped
  /\ Len(hits) <= MaxHits(request)
  /\ scannedFiles = Cardinality({scan.file : scan \in ToSet(read)})

(* The reference for what a line must be to be found. A range is walked from its
   start around the clock, and its last second to the end if it is a whole one. *)
AroundTheClock(at, r) ==
  LET from == IF r.start = None THEN r.end ELSE r.start
      to == IF r.end = None THEN from ELSE r.end
      rest == IF to % MillisPerSecond = 0 THEN MillisPerSecond - 1 ELSE 0
  IN  /\ at # None
      /\ (at - from) % MillisPerDay <= ((to - from) % MillisPerDay) + rest

Wanted(line, r) ==
  /\ r.keyword => line.word
  /\ r.start # None \/ r.end # None => AroundTheClock(line.at, r)

(* A place is a line of one of the files that were read. *)
Place(h) == <<CHOOSE k \in DOMAIN read : read[k].file = h.file, h.line>>

Earlier(p, q) == p[1] < q[1] \/ (p[1] = q[1] /\ p[2] < q[2])

WantedLines(content, r) == {i \in DOMAIN content : Wanted(content[i], r)}

AllWanted ==
  UNION {{k} \X WantedLines(read[k].content, request) : k \in DOMAIN read}

Found == {Place(hits[k]) : k \in DOMAIN hits}

(* The hits are the first wanted lines of the files that were read, in the order
   of the files and of their lines: none is skipped, doubled or out of place.
   The search goes on only when it has all of them. *)
HitsAreTheFirst ==
  /\ Found \subseteq AllWanted
  /\ \A j, k \in DOMAIN hits : j < k => Earlier(Place(hits[j]), Place(hits[k]))
  /\ \A p \in Found, q \in AllWanted \ Found : Earlier(p, q)
  /\ phase = "scan" => Found = AllWanted

(* An answer that is not marked as partial is complete: every file in scope was
   read and every wanted line in them is a hit. *)
NothingIsLeftOutUnsaid ==
  phase = "done" /\ ~partial =>
    /\ Found = AllWanted
    /\ todo = <<>>
    /\ \A files \in Listings(request.type) :
         ToSet(SelectTargetFiles(files, request)) = {scan.file : scan \in ToSet(read)}

Greatest(a, b) == IF a > b THEN a ELSE b

(* seq shows the lines of S, from the first to the last. *)
Shows(seq, S) ==
  ToSet(seq) = S /\ \A i \in 2..Len(seq) : seq[i - 1] < seq[i]

(* The context of a hit. grep prints a line once: the lines before a hit begin
   after the previous line with the keyword and those after it end before the
   next one. The script gives every hit its own full context, but reads no
   further than the hit that reaches the limit. *)
ContextIsExact ==
  \A k \in DOMAIN hits :
    LET h == hits[k]
        ctx == ContextLines(request)
        content == (CHOOSE scan \in ToSet(read) : scan.file = h.file).content
        words == {i \in DOMAIN content : content[i].word}
        grep == TimeRange(request) = None
        lastRead == IF Len(hits) = MaxHits(request) /\ h.file = Last(hits).file
                    THEN Last(hits).line ELSE Len(content)
        inReach(i) == IF grep THEN \A w \in words : i > h.line => w <= h.line \/ w > i
                              ELSE i <= lastRead
        behind(i) == grep => \A w \in words : w >= h.line \/ w < i
    IN  /\ Shows(h.before,
                 {i \in Greatest(1, h.line - ctx)..(h.line - 1) : behind(i)})
        /\ Shows(h.after, {i \in (h.line + 1)..(h.line + ctx) :
                             i \in DOMAIN content /\ inReach(i)})

(* One file is read however large it is, or a search in a large active log would
   always return nothing (the comment at line 273). *)
OneFileIsRead ==
  phase = "done" /\ partial => scannedFiles > 0
===============================================================================
