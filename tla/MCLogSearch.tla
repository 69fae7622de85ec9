----------------------------- MODULE MCLogSearch ------------------------------
(* A TLC instance of LogSearch: six files, a clock of three seconds of two
   milliseconds, lines before, in and after a range and one without a timestamp. *)
EXTENDS LogSearch

File(type, date, index, size) ==
  [type |-> type, date |-> date, index |-> index, mtime |-> 0, size |-> size]

(* error is of the other type and larger than the byte cap; old.a and old.b are
   not told apart by the order; odd has a date that is none, and stray has a name
   that is no log's. The caps let two files be read. *)
DirectoryMeta ==
  [f \in {"today.1", "today.0", "old.a", "old.b", "odd", "error", "stray"} |->
     CASE f = "today.1" -> File("NORMAL", 8, 1, 4)
       [] f = "today.0" -> File("NORMAL", 8, 0, 1)
       [] f = "old.a"   -> File("NORMAL", 5, 0, 1)
       [] f = "old.b"   -> File("NORMAL", 5, 0, 1)
       [] f = "odd"     -> File("NORMAL", 99, 0, 0)
       [] f = "error"   -> File("ERROR", 8, 0, 9)
       [] f = "stray"   -> File(None, None, 0, 1)]

Line(word, at) == [word |-> word, at |-> at]

(* Every content of up to two lines of three kinds, and of four and five lines
   of two kinds, so that contexts overlap, touch and stand apart. *)
SmallContents ==
  UNION {[1..n -> {Line(TRUE, 1), Line(FALSE, 4), Line(TRUE, None)}] : n \in 0..2}
    \cup UNION {[1..n -> {Line(TRUE, 5), Line(FALSE, 2)}] : n \in {4, 5}}

Ask(scope, keyword, start, end, contextLines, maxHits) ==
  [type |-> "NORMAL", scope |-> scope, file |-> "today.1", date |-> 8, keyword |-> keyword,
   start |-> start, end |-> end, contextLines |-> contextLines, maxHits |-> maxHits]

Questions ==
  {Ask("CURRENT_FILE", TRUE, None, None, ctx, 2) : ctx \in {None, 1, 9}}
  \cup {Ask("CURRENT_FILE", TRUE, 0, 4, ctx, 2) : ctx \in {None, 1, 9}}
  \cup {Ask("ALL", keyword, start, end, 1, 9) :
          keyword \in BOOLEAN, start \in {None, 4}, end \in {None, 0, 2}}
  \cup {Ask(scope, TRUE, 0, None, 1, 0) : scope \in {"DAY", "LAST_3_DAYS"}}
  \cup {Ask(scope, TRUE, None, None, 1, 2) :
          scope \in {"DAY", "DATE_RANGE", "LAST_3_DAYS", "LAST_7_DAYS"}}
  \cup {[Ask("LAST_3_DAYS", TRUE, None, None, 0, None) EXCEPT !.type = "ERROR"],
        [Ask("DAY", TRUE, None, None, 0, None) EXCEPT !.date = 5],
        [Ask("DAY", TRUE, None, None, 0, None) EXCEPT !.date = 7],
        Ask("CURRENT_FILE", TRUE, 3, 2, 1, 2)}
===============================================================================
