------------------------- MODULE RealtimeLineFilter -------------------------
(***************************************************************************)
(* The keyword filter a realtime stream puts between `tail -F` and the     *)
(* browser (LogFollowService.RealtimeLineFilter): accept is given one line *)
(* of the log after another and returns the lines to show now, which are   *)
(* the lines that contain the keyword with their context, as grep -C would *)
(* print them, except that a line is shown as soon as that is decided.     *)
(*                                                                         *)
(* A line is abstracted to its sequence number and to whether it contains  *)
(* the keyword.  The lines one accept returns are a set of sequence        *)
(* numbers: the code appends them in the order of recentLines, the oldest  *)
(* first.                                                                  *)
(***************************************************************************)
EXTENDS Integers, Sequences

CONSTANTS RequestedContexts,  \* the contextLines a client may ask for
          MaxLines            \* bound on the lines read between two resets

ASSUME FilterAssumption ==
  /\ RequestedContexts \subseteq Int
  /\ MaxLines \in Nat

VARIABLES options,           \* the TailFilterOptions of the stream, final
          recentLines,       \* the deque of the last lines, oldest first
          nextSeq,
          lastEmittedSeq,
          pendingAfterLines,
          accepted,          \* history: the number of lines read
          matches,           \* history: the lines so far with the keyword
          timesShown         \* history: how often each line was returned

filterVars == <<recentLines, nextSeq, lastEmittedSeq, pendingAfterLines>>
vars == <<options, filterVars, accepted, matches, timesShown>>

MaxContextLines == 20

Larger(a, b) == IF a >= b THEN a ELSE b
Smaller(a, b) == IF a <= b THEN a ELSE b

(* Mutant: the requested context is taken as it is. *)
ResolveTailFilterOptionsUnclamped(hasKeyword, requested) ==
  [hasKeyword   |-> hasKeyword,
   contextLines |-> IF hasKeyword THEN requested ELSE 0]

(***************************************************************************)
(* The options of a request: without a keyword there is no filter and no   *)
(* context, otherwise the context is forced into 0..20 (an absent one      *)
(* reads as 0).                                                            *)
(***************************************************************************)
ResolveTailFilterOptions(hasKeyword, requested) ==
  [hasKeyword   |-> hasKeyword,
   contextLines |-> IF hasKeyword
                    THEN Larger(0, Smaller(requested, MaxContextLines))
                    ELSE 0]

Init ==
  /\ \E hasKeyword \in BOOLEAN, requested \in RequestedContexts :
       options = ResolveTailFilterOptions(hasKeyword, requested)
  /\ recentLines = << >>
  /\ nextSeq = 1
  /\ lastEmittedSeq = 0
  /\ pendingAfterLines = 0
  /\ accepted = 0
  /\ matches = {}
  /\ timesShown = [s \in 1..MaxLines |-> 0]

(* Mutant: the loop forgets which of the remembered lines were shown. *)
UnshownContextAgain == {recentLines[i] : i \in DOMAIN recentLines}

(***************************************************************************)
(* The remembered lines a match shows: the loop over recentLines shows an  *)
(* entry that is newer than the last line shown, the ones it has just      *)
(* shown included.                                                         *)
(***************************************************************************)
UnshownContext ==
  {recentLines[i] : i \in {k \in DOMAIN recentLines :
      /\ recentLines[k] > lastEmittedSeq
      /\ \A j \in 1..(k - 1) : recentLines[j] < recentLines[k]}}

(* The lines accept returns for the line numbered seq. *)
ShownFor(seq, matched) ==
  IF matched
  THEN UnshownContext \cup (IF seq > lastEmittedSeq THEN {seq} ELSE {})
  ELSE IF pendingAfterLines > 0 /\ seq > lastEmittedSeq THEN {seq} ELSE {}

(* Mutant: the trim stops one entry early. *)
RememberOneTooMany(seq) ==
  LET longer == Append(recentLines, seq)
  IN  SubSeq(longer, Larger(1, Len(longer) - options.contextLines),
             Len(longer))

(* Append seq to the deque and drop the oldest while it is too long. *)
Remember(seq) ==
  IF options.contextLines = 0 THEN recentLines
  ELSE LET longer == Append(recentLines, seq)
       IN  SubSeq(longer, Larger(1, Len(longer) - options.contextLines + 1),
                  Len(longer))

(* Mutant: a match adds its context to the lines still owed. *)
PendingAfterAdded(matched, shown) ==
  IF matched THEN Smaller(pendingAfterLines + options.contextLines,
                          MaxContextLines)
  ELSE IF shown # {} THEN pendingAfterLines - 1
  ELSE pendingAfterLines

(* How many lines are still owed after this one. *)
PendingAfter(matched, shown) ==
  IF matched THEN Larger(pendingAfterLines, options.contextLines)
  ELSE IF shown # {} THEN pendingAfterLines - 1
  ELSE pendingAfterLines

CountShown(shown) ==
  [s \in 1..MaxLines |-> IF s \in shown THEN timesShown[s] + 1
                                        ELSE timesShown[s]]

(* The newest line of a nonempty set of lines. *)
Newest(lines) == CHOOSE s \in lines : \A t \in lines : t <= s

(* accept of a stream without a keyword: the line passes. *)
PassThrough ==
  /\ ~options.hasKeyword
  /\ accepted < MaxLines
  /\ accepted' = accepted + 1
  /\ timesShown' = CountShown({accepted + 1})
  /\ UNCHANGED <<options, filterVars, matches>>

(* accept of a stream with a keyword. *)
Accept(matched) ==
  /\ options.hasKeyword
  /\ accepted < MaxLines
  /\ LET seq   == nextSeq
         shown == ShownFor(seq, matched)
     IN  /\ nextSeq' = seq + 1
         /\ lastEmittedSeq' = IF shown = {} THEN lastEmittedSeq
                                            ELSE Newest(shown)
         /\ pendingAfterLines' = PendingAfter(matched, shown)
         /\ recentLines' = Remember(seq)
         /\ matches' = IF matched THEN matches \cup {seq} ELSE matches
         /\ timesShown' = CountShown(shown)
  /\ accepted' = accepted + 1
  /\ UNCHANGED options

(***************************************************************************)
(* reset, called by startTail when it has opened another tail: the         *)
(* numbering starts again, and so do the histories.                        *)
(***************************************************************************)
Reset ==
  /\ recentLines' = << >>
  /\ nextSeq' = 1
  /\ lastEmittedSeq' = 0
  /\ pendingAfterLines' = 0
  /\ accepted' = 0
  /\ matches' = {}
  /\ timesShown' = [s \in 1..MaxLines |-> 0]
  /\ UNCHANGED options

Next ==
  \/ PassThrough
  \/ \E matched \in BOOLEAN : Accept(matched)
  \/ Reset

Spec == Init /\ [][Next]_vars

-----------------------------------------------------------------------------
(* The lines within the requested context of a line with the keyword. *)
InContext ==
  {s \in 1..accepted : \E m \in matches : m - options.contextLines <= s
                                   /\ s <= m + options.contextLines}

(* Types of the variables. *)
TypeOK ==
  /\ options \in [hasKeyword : BOOLEAN, contextLines : 0..MaxContextLines]
  /\ recentLines \in Seq(1..MaxLines)
  /\ nextSeq \in 1..(MaxLines + 1)
  /\ lastEmittedSeq \in 0..MaxLines
  /\ pendingAfterLines \in 0..MaxContextLines
  /\ accepted \in 0..MaxLines
  /\ matches \subseteq 1..MaxLines
  /\ timesShown \in [1..MaxLines -> Nat]

(***************************************************************************)
(* What accept has returned since the reset is exactly what grep -C prints *)
(* of the lines read so far: every line in the context of a match once,    *)
(* however the contexts overlap, and no other line.  Without a keyword it  *)
(* is every line once.                                                     *)
(***************************************************************************)
ShowsExactlyTheContext ==
  LET due == IF options.hasKeyword THEN InContext ELSE 1..accepted
  IN  \A s \in 1..MaxLines : timesShown[s] = IF s \in due THEN 1 ELSE 0

(***************************************************************************)
(* The browser appends what it is sent, so the filter may not go back: a   *)
(* line accept returns is newer than every line returned before it.        *)
(***************************************************************************)
NeverGoesBack ==
  [][\A s, t \in 1..MaxLines :
       (timesShown'[s] > timesShown[s] /\ timesShown[t] > 0) => t < s]_vars

(***************************************************************************)
(* The memory of the filter is bounded by the context, not by the log: it  *)
(* keeps exactly the last lines that a match on the next line would show.  *)
(***************************************************************************)
RemembersTheContextOnly ==
  /\ Len(recentLines) = Smaller(options.contextLines, nextSeq - 1)
  /\ \A i \in DOMAIN recentLines :
       recentLines[i] = nextSeq - 1 - Len(recentLines) + i
=============================================================================
