------------------------------ MODULE Quickstart ------------------------------
(***************************************************************************)
(* The quickstart (crates/api/src/lib.rs): parse reads a text of cells row *)
(* by row, and place_and_route draws a box around them, in signed integers *)
(* that hold -Half to Half - 1 (Half is 2^63 in the code).                 *)
(***************************************************************************)
EXTENDS Integers, Sequences, FiniteSetsExt

CONSTANTS Half,   \* of the integers
          Texts   \* the inputs: sequences of rows

Integer == - Half .. Half - 1

\* A word that must be a coordinate: is it there and a number, and which?
Coordinate == [given : BOOLEAN, n : Int]

\* A row is skipped if it is blank or a comment; any other has a name, then
\* perhaps an x and a y; what follows them is not looked at.
Row == [skipped : BOOLEAN, x : Coordinate, y : Coordinate]

ASSUME QuickAssumption == Half \in Nat \ {0} /\ Texts \subseteq Seq(Row)

VARIABLES
  stage,    \* "idle", "parse", "box" or "done"
  checks,   \* the build stops on overflow (debug) or wraps (release)
  text,
  row,      \* the row, then the cell, that is next
  cells,
  box,      \* min_x, max_x, min_y, max_y
  answer

quickVars == <<stage, checks, text, row, cells, box, answer>>

NoBox    == [minX |-> 0, maxX |-> 0, minY |-> 0, maxY |-> 0]
NoAnswer == [kind |-> "none"]

QuickInit ==
  /\ stage = "idle" /\ checks \in BOOLEAN /\ text = <<>> /\ row = 1
  /\ cells = <<>> /\ box = NoBox /\ answer = NoAnswer

PlaceAndRoute(input) ==
  /\ stage = "idle"
  /\ stage' = "parse" /\ text' = input /\ row' = 1
  /\ cells' = <<>> /\ box' = NoBox /\ answer' = NoAnswer
  /\ UNCHANGED checks

\* str::parse::<i64>: a number of more than 64 bits is none.
Valid(coordinate) == coordinate.given /\ coordinate.n \in Integer

\* Mutant: the rows that were skipped are not counted.
MalformedUncounted(axis) ==
  /\ stage' = "done" /\ answer' = [kind |-> "error", row |-> Len(cells) + 1, axis |-> axis]
  /\ UNCHANGED <<checks, text, row, cells, box>>

Malformed(axis) ==
  /\ stage' = "done" /\ answer' = [kind |-> "error", row |-> row, axis |-> axis]
  /\ UNCHANGED <<checks, text, row, cells, box>>

ParseRow ==
  /\ stage = "parse" /\ row <= Len(text)
  /\ LET r == text[row] IN
     IF ~ r.skipped /\ ~ Valid(r.x) THEN Malformed("x")
     ELSE IF ~ r.skipped /\ ~ Valid(r.y) THEN Malformed("y")
     ELSE /\ cells' = IF r.skipped THEN cells ELSE Append(cells, [x |-> r.x.n, y |-> r.y.n])
          /\ row' = row + 1
          /\ UNCHANGED <<stage, checks, text, box, answer>>

EndOfRows ==
  /\ stage = "parse" /\ row > Len(text)
  /\ IF cells = <<>>
     THEN stage' = "done" /\ answer' = [kind |-> "nothing"] /\ UNCHANGED <<row, box>>
     ELSE /\ stage' = "box" /\ row' = 2 /\ UNCHANGED answer
          /\ box' = [ minX |-> cells[1].x, maxX |-> cells[1].x,
                      minY |-> cells[1].y, maxY |-> cells[1].y ]
  /\ UNCHANGED <<checks, text, cells>>

Least(m, n)    == IF m <= n THEN m ELSE n
Greatest(m, n) == IF m >= n THEN m ELSE n

GrowBox ==
  /\ stage = "box" /\ row <= Len(cells)
  /\ LET c == cells[row] IN
     box' = [ minX |-> Least(box.minX, c.x), maxX |-> Greatest(box.maxX, c.x),
              minY |-> Least(box.minY, c.y), maxY |-> Greatest(box.maxY, c.y) ]
  /\ row' = row + 1
  /\ UNCHANGED <<stage, checks, text, cells, answer>>

\* Mutant: sums stop at the greatest integer.
SaturatedSum(n) == IF n >= Half THEN Half - 1 ELSE IF n < - Half THEN - Half ELSE n

\* Of the sum or difference of two integers.
WrappedSum(n) == IF n >= Half THEN n - 2 * Half ELSE IF n < - Half THEN n + 2 * Half ELSE n

Summarize ==
  /\ stage = "box" /\ row > Len(cells)
  /\ stage' = "done"
  /\ LET w == WrappedSum(box.maxX - box.minX)
         h == WrappedSum(box.maxY - box.minY)
     IN  answer' =
           IF checks /\ ~ { box.maxX - box.minX, box.maxY - box.minY, w + h } \subseteq Integer
           THEN [kind |-> "panic"]
           ELSE [ kind |-> "placed", count |-> Len(cells),
                  w |-> w, h |-> h, hpwl |-> WrappedSum(w + h) ]
  /\ UNCHANGED <<checks, text, row, cells, box>>

\* The answer is taken; nothing is kept for the next call.
QuickReturn ==
  /\ stage = "done"
  /\ stage' = "idle" /\ text' = <<>> /\ row' = 1
  /\ cells' = <<>> /\ box' = NoBox /\ answer' = NoAnswer
  /\ UNCHANGED checks

QuickStep == ParseRow \/ EndOfRows \/ GrowBox \/ Summarize

QuickNext == (\E input \in Texts : PlaceAndRoute(input)) \/ QuickStep \/ QuickReturn

QuickSpec == QuickInit /\ [][QuickNext]_quickVars

----------------------------------------------------------------------------
(* What must hold of an answer, said of the text *)

CellRows == {k \in DOMAIN text : ~ text[k].skipped}
Faulty   == {k \in CellRows : ~ (Valid(text[k].x) /\ Valid(text[k].y))}

\* A text is refused exactly if it has a faulty row, and then for the first of
\* them, counted with the blank rows and the comments before it, and for the first
\* coordinate of that row that is no number.
FirstFaultReported ==
  stage = "done" =>
    /\ answer.kind = "error" <=> Faulty # {}
    /\ answer.kind = "error" =>
         /\ answer.row \in Faulty /\ \A k \in Faulty : answer.row <= k
         /\ answer.axis = "x" <=> ~ Valid(text[answer.row].x)

\* The greatest distance between two cells along an axis.
SpreadX == Max({text[j].x.n - text[k].x.n : j, k \in CellRows})
SpreadY == Max({text[j].y.n - text[k].y.n : j, k \in CellRows})

\* The summary is of all the cells and is right, or shows by a negative number that
\* it is not; a build with checks stops exactly where the summary would be wrong.
WrongSummaryShows ==
  /\ stage = "done" /\ answer.kind = "placed" =>
       /\ answer.count = Cardinality(CellRows)
       /\ \/ answer.w = SpreadX /\ answer.h = SpreadY /\ answer.hpwl = SpreadX + SpreadY
          \/ ~ checks /\ (answer.w < 0 \/ answer.h < 0 \/ answer.hpwl < 0)
  /\ stage = "done" /\ answer.kind = "panic" => checks /\ SpreadX + SpreadY >= Half
  /\ stage = "done" /\ answer.kind = "nothing" => CellRows = {}
=============================================================================
