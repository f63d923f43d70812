-------------------------- MODULE SpiceReaderProofs --------------------------
(***************************************************************************)
(* What TLAPS proves of SpiceReader, for every set of decks.               *)
(***************************************************************************)
EXTENDS SpiceReader, LibraryLemmas

\* What is cut from the end of a row leaves a row.
LEMMA PrefixProperties ==
  ASSUME NEW S, NEW s \in Seq(S), NEW n \in 0 .. Len(s)
  PROVE  /\ SubSeq(s, 1, n) \in Seq(S)
         /\ Len(SubSeq(s, 1, n)) = n
         /\ \A k \in 1 .. n : SubSeq(s, 1, n)[k] = s[k]
OBVIOUS

(* Cutting a comment off a row leaves words, none of which is a comment    *)
(* mark or, at the head, a `*` (strip_comment).                            *)
LEMMA StripCommentProperties ==
  ASSUME NEW raw \in Seq(Word)
  PROVE  /\ StripComment(raw) \in Seq(Word)
         /\ \A k \in DOMAIN StripComment(raw) : StripComment(raw)[k].lead # "mark"
         /\ StripComment(raw) # <<>> => Head(StripComment(raw)).lead # "star"
<1> DEFINE Marks == {i \in 1 .. Len(raw) : raw[i].lead = "mark"}
           cut   == IF Marks # {} THEN Min(Marks) ELSE 0
<1>1. StripComment(raw) = IF raw # <<>> /\ Head(raw).lead = "star" THEN <<>>
                          ELSE IF cut = 0 THEN raw ELSE SubSeq(raw, 1, cut - 1)
  BY DEF StripComment, SelectInSeq
<1>2. CASE raw # <<>> /\ Head(raw).lead = "star"
  BY <1>1, <1>2
<1>3. CASE ~ (raw # <<>> /\ Head(raw).lead = "star") /\ Marks = {}
  <2>1. StripComment(raw) = raw
    BY <1>1, <1>3
  <2>2. \A k \in DOMAIN raw : raw[k].lead # "mark"
    BY <1>3
  <2>. QED
    BY <1>3, <2>1, <2>2
<1>4. CASE ~ (raw # <<>> /\ Head(raw).lead = "star") /\ Marks # {}
  <2>1. /\ cut = Min(Marks) /\ cut \in Marks /\ cut \in 1 .. Len(raw)
        /\ \A y \in Marks : cut <= y
    <3>1. Marks \subseteq 1 .. Len(raw) /\ Marks \in SUBSET Nat
      OBVIOUS
    <3> HIDE DEF Marks
    <3>2. cut = Min(Marks)
      BY <1>4
    <3>3. Min(Marks) \in Marks /\ \A y \in Marks : Min(Marks) <= y
      BY <1>4, <3>1, MinOfNaturals
    <3>. QED
      BY <3>1, <3>2, <3>3
  <2> HIDE DEF cut
  <2>2. StripComment(raw) = SubSeq(raw, 1, cut - 1)
    <3>1. cut # 0
      BY <2>1
    <3>. QED
      BY <1>1, <1>4, <3>1, Zenon
  <2>3. /\ StripComment(raw) \in Seq(Word)
        /\ Len(StripComment(raw)) = cut - 1
        /\ \A k \in 1 .. cut - 1 : StripComment(raw)[k] = raw[k]
    <3>1. cut - 1 \in 0 .. Len(raw)
      BY <2>1
    <3>. QED
      BY <2>2, <3>1, PrefixProperties
  <2>4. \A k \in 1 .. cut - 1 : raw[k].lead # "mark"
    BY <2>1
  <2>5. StripComment(raw) # <<>> => Head(StripComment(raw)) = Head(raw) /\ raw # <<>>
    BY <2>1, <2>3
  <2>. QED
    BY <1>4, <2>3, <2>4, <2>5
<1>. QED
  BY <1>2, <1>3, <1>4

----------------------------------------------------------------------------
(* The inductive invariant.  TypeOK alone is not inductive: an error's row *)
(* is a row of the text because the logical lines' rows are, which the     *)
(* first pass establishes for the second.                                  *)

IInv == TypeOK /\ OrderListsDefs /\ OpenIsDefined /\ LogicalLinesClean

(* The row that the first pass reads.                                      *)
LEMMA CleanedProperties ==
  ASSUME TypeOK, row < Len(text)
  PROVE  /\ Cleaned \in Seq(Word)
         /\ \A k \in DOMAIN Cleaned : Cleaned[k].lead # "mark"
         /\ Cleaned # <<>> => /\ Cleaned \in Card
                              /\ Head(Cleaned).lead # "star"
                              /\ Tail(Cleaned) \in Seq(Word)
<1>1. text \in Seq(Seq(Word)) /\ row + 1 \in 1 .. Len(text)
  BY DecksAssumption DEF TypeOK
<1>2. text[row + 1] \in Seq(Word)
  BY <1>1
<1>. QED
  BY <1>2, StripCommentProperties DEF Cleaned, Card

(* The logical line that the second pass reads.                            *)
LEMMA LineProperties ==
  ASSUME TypeOK, LogicalLinesClean, pos < Len(logical)
  PROVE  /\ pos + 1 \in 0 .. Len(logical)
         /\ Line.words \in Card
         /\ Head(Line.words) \in Word
         /\ Tail(Line.words) \in Seq(Word)
         /\ Line.row \in 1 .. Len(text)
<1>1. pos + 1 \in DOMAIN logical /\ pos + 1 \in 0 .. Len(logical)
  BY DEF TypeOK
<1>2. Line \in LogicalLine
  BY <1>1 DEF TypeOK, Line
<1>3. Line.words \in Card
  BY <1>2 DEF LogicalLine
<1>4. Line.words \in Seq(Word) /\ Line.words # <<>>
  BY <1>3 DEF Card
<1>5. Head(Line.words) \in Word /\ Tail(Line.words) \in Seq(Word)
  BY <1>4
<1>6. Line.row \in 1 .. row
  BY <1>1 DEF LogicalLinesClean, Line
<1>7. row \in 0 .. Len(text) /\ Len(text) \in Nat
  BY DecksAssumption DEF TypeOK
<1>. QED
  BY <1>1, <1>3, <1>5, <1>6, <1>7

(* Adding an element at the end of a list of distinct names.               *)
LEMMA AppendNewName ==
  ASSUME NEW s \in Seq(Word), NEW n \in Word, IsInjective(s), n \notin ToSet(s)
  PROVE  /\ Append(s, n) \in Seq(Word)
         /\ IsInjective(Append(s, n))
         /\ ToSet(Append(s, n)) = ToSet(s) \cup {n}
<1>1. /\ Append(s, n) \in Seq(Word)
      /\ DOMAIN Append(s, n) = DOMAIN s \cup {Len(s) + 1}
      /\ \A i \in DOMAIN s : Append(s, n)[i] = s[i]
      /\ Append(s, n)[Len(s) + 1] = n
      /\ Len(s) + 1 \notin DOMAIN s
  OBVIOUS
<1>2. \A i \in DOMAIN s : s[i] # n
  BY DEF ToSet
<1>3. IsInjective(Append(s, n))
  BY <1>1, <1>2 DEF IsInjective
<1>4. ToSet(Append(s, n)) = ToSet(s) \cup {n}
  BY <1>1 DEF ToSet
<1>. QED
  BY <1>1, <1>3, <1>4

\* The empty netlist has no names to list and no subckt to be open.
LEMMA InitIInv == Init => IInv
<1>. SUFFICES ASSUME Init PROVE IInv
  OBVIOUS
<1>1. text \in Seq(Seq(Word)) /\ Len(text) \in Nat
  <2>1. text \in Seq(Seq(LineWord))
    BY DecksAssumption DEF Init
  <2>2. LineWord \in SUBSET Word
    BY DEF LineWord
  <2>3. \A r \in Seq(LineWord) : r \in Seq(Word)
    BY <2>2
  <2>. QED
    BY <2>1, <2>3
<1>2. IsDefs(EmptyDefs) /\ DOMAIN EmptyDefs = {}
  BY DEF IsDefs, EmptyDefs
<1>3. TypeOK
  BY <1>1, <1>2 DEF Init, TypeOK
<1>4. OrderListsDefs
  BY <1>2 DEF Init, OrderListsDefs, IsInjective, ToSet
<1>5. OpenIsDefined /\ LogicalLinesClean
  BY DEF Init, OpenIsDefined, LogicalLinesClean
<1>. QED
  BY <1>3, <1>4, <1>5 DEF IInv

(* The first pass: only the logical lines change.                          *)
LEMMA ReassembleStep == IInv /\ Reassemble => IInv'
<1>. SUFFICES ASSUME IInv, Reassemble PROVE IInv'
  OBVIOUS
<1>1. TypeOK /\ OrderListsDefs /\ OpenIsDefined /\ LogicalLinesClean
  BY DEF IInv
<1>2. UNCHANGED <<text, pos, open, top, defs, order, directives>>
  BY DEF Reassemble, SkipBlank, StartLogical, Continue, DanglingContinuation,
         EndOfText, netVars, lexVars
<1>3. OrderListsDefs' /\ OpenIsDefined'
  BY <1>1, <1>2 DEF OrderListsDefs, OpenIsDefined
<1>4. Len(text) \in Nat
  BY <1>1, DecksAssumption DEF TypeOK
<1>. SUFFICES /\ row' \in 0 .. Len(text)
              /\ logical' \in Seq(LogicalLine)
              /\ Len(logical') >= Len(logical)
              /\ status' \in {"lex", "parse", "ended", "ok"} \cup Errors
              /\ errorRow' \in 0 .. Len(text)
              /\ LogicalLinesClean'
  <2>1. pos' \in 0 .. Len(logical')
    BY <1>1, <1>2 DEF TypeOK
  <2>. QED
    BY <1>1, <1>2, <1>3, <2>1 DEF IInv, TypeOK, IsDefs
<1>5. CASE SkipBlank
  BY <1>1, <1>4, <1>5 DEF SkipBlank, ReadRow, TypeOK, LogicalLinesClean
<1>6. CASE StartLogical
  <2> DEFINE new == [words |-> Cleaned, row |-> row + 1]
  <2>1. /\ row < Len(text) /\ row' = row + 1 /\ Cleaned # <<>>
        /\ Head(Cleaned).lead # "plus" /\ logical' = Append(logical, new)
        /\ status' = status /\ errorRow' = errorRow
    BY <1>6 DEF StartLogical, ReadRow
  <2>2. /\ Cleaned \in Card /\ Head(Cleaned).lead # "star"
        /\ \A k \in DOMAIN Cleaned : Cleaned[k].lead # "mark"
    BY <1>1, <2>1, CleanedProperties
  <2>3. row + 1 \in Nat \ {0} /\ row' \in 0 .. Len(text)
    BY <1>1, <1>4, <2>1 DEF TypeOK
  <2>4. new \in LogicalLine
    BY <2>2, <2>3 DEF LogicalLine
  <2>5. logical \in Seq(LogicalLine)
    BY <1>1 DEF TypeOK
  <2>6. /\ logical' \in Seq(LogicalLine)
        /\ Len(logical') = Len(logical) + 1
        /\ DOMAIN logical' = DOMAIN logical \cup {Len(logical) + 1}
        /\ \A i \in DOMAIN logical : logical'[i] = logical[i]
        /\ logical'[Len(logical) + 1] = new
        /\ \A i \in DOMAIN logical : i < Len(logical) + 1
        /\ Len(logical) \in Nat
    <3> HIDE DEF new
    <3>. QED
      BY <2>1, <2>4, <2>5
  <2>7. \A i \in DOMAIN logical' :
          /\ logical'[i].row \in 1 .. row'
          /\ logical'[i].words # <<>>
          /\ Head(logical'[i].words).lead \notin {"star", "plus"}
          /\ \A k \in DOMAIN logical'[i].words : logical'[i].words[k].lead # "mark"
    <3>1. TAKE i \in DOMAIN logical'
    <3>2. CASE i = Len(logical) + 1
      BY <2>1, <2>2, <2>3, <2>6, <3>2 DEF Card
    <3>3. CASE i \in DOMAIN logical
      BY <1>1, <2>1, <2>3, <2>6, <3>3, SMTT(30) DEF LogicalLinesClean, TypeOK
    <3>. QED
      BY <2>6, <3>2, <3>3
  <2>8. \A i, j \in DOMAIN logical' : i < j => logical'[i].row < logical'[j].row
    <3>1. \A i \in DOMAIN logical : logical[i].row < row + 1
      BY <1>1 DEF LogicalLinesClean, TypeOK
    <3>2. \A i, j \in DOMAIN logical : i < j => logical[i].row < logical[j].row
      BY <1>1 DEF LogicalLinesClean
    <3>3. new.row = row + 1
      OBVIOUS
    <3> HIDE DEF new
    <3>. QED
      BY <2>6, <3>1, <3>2, <3>3
  <2>9. /\ status' \in {"lex", "parse", "ended", "ok"} \cup Errors
        /\ errorRow' \in 0 .. Len(text)
    BY <1>1, <2>1 DEF TypeOK
  <2> HIDE DEF new
  <2>10. LogicalLinesClean'
    BY <2>7, <2>8 DEF LogicalLinesClean
  <2>. QED
    BY <2>3, <2>6, <2>9, <2>10
<1>7. CASE Continue
  <2> DEFINE n     == Len(logical)
             words == logical[n].words \o Tail(Cleaned)
  <2>1. /\ row < Len(text) /\ row' = row + 1 /\ Cleaned # <<>> /\ logical # <<>>
        /\ logical' = [logical EXCEPT ![n].words = words]
        /\ status' = status /\ errorRow' = errorRow
    BY <1>7 DEF Continue, ReadRow
  <2>2. logical \in Seq(LogicalLine) /\ n \in DOMAIN logical
    BY <1>1, <2>1 DEF TypeOK
  <2>3. /\ logical[n].words \in Seq(Word) /\ logical[n].words # <<>>
        /\ logical[n].row \in Nat \ {0}
        /\ logical[n] \in LogicalLine
    <3>1. logical[n] \in LogicalLine
      BY <2>2
    <3>. QED
      BY <3>1 DEF LogicalLine, Card
  <2>4. /\ Tail(Cleaned) \in Seq(Word)
        /\ \A k \in DOMAIN Tail(Cleaned) : Tail(Cleaned)[k].lead # "mark"
    <3>1. Cleaned \in Seq(Word) /\ Cleaned # <<>>
      BY <1>1, <2>1, CleanedProperties
    <3>2. \A k \in DOMAIN Cleaned : Cleaned[k].lead # "mark"
      BY <1>1, <2>1, CleanedProperties
    <3>3. /\ Tail(Cleaned) \in Seq(Word)
          /\ \A k \in DOMAIN Tail(Cleaned) :
               k + 1 \in DOMAIN Cleaned /\ Tail(Cleaned)[k] = Cleaned[k + 1]
      BY <3>1
    <3>. QED
      BY <3>2, <3>3
  <2>5. /\ words \in Card /\ Head(words) = Head(logical[n].words)
        /\ \A k \in DOMAIN words :
             \/ k \in DOMAIN logical[n].words /\ words[k] = logical[n].words[k]
             \/ k - Len(logical[n].words) \in DOMAIN Tail(Cleaned)
                /\ words[k] = Tail(Cleaned)[k - Len(logical[n].words)]
    BY <2>3, <2>4 DEF Card
  <2>6. /\ DOMAIN logical' = DOMAIN logical /\ Len(logical') = Len(logical)
        /\ \A i \in DOMAIN logical : logical'[i].row = logical[i].row
        /\ \A i \in DOMAIN logical :
             logical'[i].words = IF i = n THEN words ELSE logical[i].words
    <3>1. \A i \in DOMAIN logical : logical[i] \in LogicalLine
      BY <2>2
    <3> HIDE DEF words
    <3>. QED
      BY <2>1, <2>2, <3>1 DEF LogicalLine
  <2>7. logical' \in Seq(LogicalLine)
    <3>1. [logical[n] EXCEPT !.words = words] \in LogicalLine
      BY <2>3, <2>5 DEF LogicalLine
    <3> HIDE DEF words
    <3>. QED
      BY <2>1, <2>2, <3>1
  <2>8. row' \in 0 .. Len(text) /\ \A i \in DOMAIN logical : logical[i].row \in 1 .. row'
    BY <1>1, <1>4, <2>1 DEF TypeOK, LogicalLinesClean
  <2>9. \A i \in DOMAIN logical' :
          /\ logical'[i].words # <<>>
          /\ Head(logical'[i].words).lead \notin {"star", "plus"}
          /\ \A k \in DOMAIN logical'[i].words : logical'[i].words[k].lead # "mark"
    <3>1. words # <<>> /\ Head(words).lead \notin {"star", "plus"}
      BY <1>1, <2>2, <2>5 DEF LogicalLinesClean, Card
    <3>2. \A k \in DOMAIN words : words[k].lead # "mark"
      BY <1>1, <2>2, <2>4, <2>5 DEF LogicalLinesClean
    <3>3. \A i \in DOMAIN logical :
            /\ logical[i].words # <<>>
            /\ Head(logical[i].words).lead \notin {"star", "plus"}
            /\ \A k \in DOMAIN logical[i].words : logical[i].words[k].lead # "mark"
      BY <1>1 DEF LogicalLinesClean
    <3> HIDE DEF words
    <3>. QED
      BY <2>6, <3>1, <3>2, <3>3
  <2>10. \A i, j \in DOMAIN logical' : i < j => logical'[i].row < logical'[j].row
    BY <1>1, <2>6 DEF LogicalLinesClean
  <2>11. LogicalLinesClean'
    BY <2>6, <2>8, <2>9, <2>10 DEF LogicalLinesClean
  <2>. QED
    BY <1>1, <2>1, <2>2, <2>6, <2>7, <2>8, <2>11 DEF TypeOK
<1>8. CASE DanglingContinuation
  BY <1>1, <1>4, <1>8
  DEF DanglingContinuation, ReadRow, TypeOK, LogicalLinesClean, Errors
<1>9. CASE EndOfText
  BY <1>1, <1>4, <1>9 DEF EndOfText, lexVars, TypeOK, LogicalLinesClean
<1>. QED
  BY <1>5, <1>6, <1>7, <1>8, <1>9 DEF Reassemble

(* The second pass: the logical lines stay, the netlist grows.             *)
LEMMA ParseLineStep == IInv /\ ParseLine => IInv'
<1>. SUFFICES ASSUME IInv, ParseLine PROVE IInv'
  OBVIOUS
<1>1. TypeOK /\ OrderListsDefs /\ OpenIsDefined /\ LogicalLinesClean
  BY DEF IInv
<1>2. ReadLine
  BY DEF ParseLine, OpenSubckt, MissingSubcktName, CloseSubckt, UnexpectedEnds,
         StopAtEnd, RecordDirective, AddToBody, AddToTop
<1>3. /\ pos < Len(logical) /\ pos' = pos + 1
      /\ UNCHANGED <<text, row, logical>>
  BY <1>2 DEF ReadLine, lexVars
<1>4. /\ pos' \in 0 .. Len(logical)
      /\ Line.words \in Card
      /\ Head(Line.words) \in Word
      /\ Tail(Line.words) \in Seq(Word)
      /\ Line.row \in 1 .. Len(text)
  BY <1>1, <1>3, LineProperties
<1>5. LogicalLinesClean'
  BY <1>1, <1>3 DEF LogicalLinesClean
<1>6. Len(text) \in Nat
  BY <1>1, DecksAssumption DEF TypeOK
<1>. SUFFICES /\ open' \in Word \cup {NoSubckt}
              /\ top' \in Seq(Card)
              /\ IsDefs(defs')
              /\ order' \in Seq(Word)
              /\ directives' \in Seq(Card)
              /\ status' \in {"lex", "parse", "ended", "ok"} \cup Errors
              /\ errorRow' \in 0 .. Len(text)
              /\ OrderListsDefs'
              /\ OpenIsDefined'
  BY <1>1, <1>3, <1>4, <1>5 DEF IInv, TypeOK, IsDefs
<1>7. CASE OpenSubckt
  <2> DEFINE header == Tail(Line.words)
             name   == Head(header)
             sub    == [header |-> header, body |-> <<>>]
  <2>1. /\ header # <<>> /\ open' = name
        /\ order' = IF name \in DOMAIN defs THEN order ELSE Append(order, name)
        /\ defs' = Insert(defs, name, sub)
        /\ UNCHANGED <<top, directives, status, errorRow>>
    BY <1>7 DEF OpenSubckt
  <2>2. name \in Word /\ header \in Card
    BY <1>4, <2>1 DEF Card
  <2>3. sub \in Subckt
    BY <2>2 DEF Subckt
  <2> HIDE DEF name, sub
  <2>4. IsDefs(defs') /\ DOMAIN defs' = DOMAIN defs \cup {name}
    BY <1>1, <2>1, <2>2, <2>3 DEF TypeOK, IsDefs, Insert
  <2>5. order' \in Seq(Word) /\ OrderListsDefs'
    <3>1. order \in Seq(Word) /\ IsInjective(order) /\ ToSet(order) = DOMAIN defs
      BY <1>1 DEF TypeOK, OrderListsDefs
    <3>2. CASE name \in DOMAIN defs
      BY <2>1, <2>4, <3>1, <3>2 DEF OrderListsDefs
    <3>3. CASE name \notin DOMAIN defs
      <4>1. order' = Append(order, name)
        BY <2>1, <3>3
      <4>2. /\ order' \in Seq(Word) /\ IsInjective(order')
            /\ ToSet(order') = ToSet(order) \cup {name}
        BY <2>2, <3>1, <3>3, <4>1, AppendNewName
      <4>. QED
        BY <2>4, <3>1, <4>2 DEF OrderListsDefs
    <3>. QED
      BY <3>2, <3>3
  <2>6. OpenIsDefined'
    BY <2>1, <2>4 DEF OpenIsDefined
  <2>. QED
    BY <1>1, <2>1, <2>2, <2>4, <2>5, <2>6 DEF TypeOK
<1>8. CASE MissingSubcktName
  BY <1>1, <1>4, <1>6, <1>8
  DEF MissingSubcktName, netVars, TypeOK, Errors, OrderListsDefs, OpenIsDefined
<1>9. CASE CloseSubckt
  BY <1>1, <1>9 DEF CloseSubckt, netVars, TypeOK, OrderListsDefs, OpenIsDefined
<1>10. CASE UnexpectedEnds
  BY <1>1, <1>4, <1>6, <1>10
  DEF UnexpectedEnds, netVars, TypeOK, Errors, OrderListsDefs, OpenIsDefined
<1>11. CASE StopAtEnd
  BY <1>1, <1>11 DEF StopAtEnd, netVars, TypeOK, OrderListsDefs, OpenIsDefined
<1>12. CASE RecordDirective
  BY <1>1, <1>4, <1>12 DEF RecordDirective, TypeOK, OrderListsDefs, OpenIsDefined
<1>13. CASE AddToBody
  <2>1. open \in DOMAIN defs
    BY <1>1, <1>13 DEF AddToBody, OpenIsDefined
  <2>2. /\ defs' = [defs EXCEPT ![open].body = Append(@, Line.words)]
        /\ UNCHANGED <<open, top, order, directives, status, errorRow>>
    BY <1>13, <2>1 DEF AddToBody
  <2>3. defs[open] \in Subckt
    BY <1>1, <2>1 DEF TypeOK, IsDefs
  <2>4. [defs[open] EXCEPT !.body = Append(@, Line.words)] \in Subckt
    <3>1. defs[open].body \in Seq(Card)
      BY <2>3 DEF Subckt
    <3>2. Append(defs[open].body, Line.words) \in Seq(Card)
      BY <1>4, <3>1
    <3>. QED
      BY <2>3, <3>2 DEF Subckt
  <2>5. DOMAIN defs' = DOMAIN defs
    BY <2>2
  <2>6. IsDefs(defs')
    BY <1>1, <2>1, <2>2, <2>4 DEF TypeOK, IsDefs
  <2>. QED
    BY <1>1, <2>2, <2>5, <2>6 DEF TypeOK, OrderListsDefs, OpenIsDefined
<1>14. CASE AddToTop
  BY <1>1, <1>4, <1>14 DEF AddToTop, TypeOK, OrderListsDefs, OpenIsDefined
<1>. QED
  BY <1>7, <1>8, <1>9, <1>10, <1>11, <1>12, <1>13, <1>14 DEF ParseLine

\* Each iteration of either pass keeps the invariant.
LEMMA NextStep == IInv /\ [Next]_vars => IInv'
<1>. SUFFICES ASSUME IInv, [Next]_vars PROVE IInv'
  OBVIOUS
<1>1. CASE Reassemble
  BY <1>1, ReassembleStep
<1>2. CASE ParseLine
  BY <1>2, ParseLineStep
<1>3. CASE Finish
  BY <1>3 DEF Finish, lexVars, netVars, IInv, TypeOK, IsDefs, Errors,
              OrderListsDefs, OpenIsDefined, LogicalLinesClean
<1>4. CASE UNCHANGED vars
  BY <1>4 DEF vars, netVars, IInv, TypeOK, IsDefs,
              OrderListsDefs, OpenIsDefined, LogicalLinesClean
<1>. QED
  BY <1>1, <1>2, <1>3, <1>4 DEF Next

\* The inductive invariant holds of every parse.
LEMMA Inductive == Spec => []IInv
  BY InitIInv, NextStep, PTL DEF Spec

----------------------------------------------------------------------------

(* The reader's state keeps its types: in particular every card and every  *)
(* header that the netlist holds is a non-empty line, so that parse_device *)
(* and the writer always find a name.                                      *)
THEOREM TypeCorrect == Spec => []TypeOK
  BY Inductive, PTL DEF IInv

(* subckts() is at every moment a list, without repetition, of exactly the *)
(* subckts that have a definition, however headers nest and repeat.        *)
THEOREM OrderCorrect == Spec => []OrderListsDefs
  BY Inductive, PTL DEF IInv

(* What was read so far is at every moment a netlist, as the flow and the  *)
(* writer expect of what from_spice_str returns.                           *)
THEOREM ReadsNetlists == Spec => []IsNetlist(netlist)
<1>1. TypeOK /\ OrderListsDefs => IsNetlist(netlist)
  BY DEF TypeOK, OrderListsDefs, IsNetlist, netlist
<1>. QED
  BY <1>1, Inductive, PTL DEF IInv

(* The comment of parse, "Safe: we inserted the def when we opened it":    *)
(* a card inside a subckt always finds the definition it belongs to.       *)
THEOREM OpenCorrect == Spec => []OpenIsDefined
  BY Inductive, PTL DEF IInv

(* The reassembly's promise to the second pass: clean lines, in row order. *)
THEOREM LinesCorrect == Spec => []LogicalLinesClean
  BY Inductive, PTL DEF IInv

(* No card is dropped as it is read: the step that reads one adds it at    *)
(* the end of the top level or of the body of a definition that exists.    *)
THEOREM CardsKept == Spec => NoCardDropped
<1>1. IInv /\ [Next]_vars => [CardKept]_vars
  <2>. SUFFICES ASSUME IInv, Next, pos' # pos, IsDevice PROVE CardKept
    BY DEF CardKept
  <2>1. ParseLine
    BY DEF Next, Reassemble, SkipBlank, StartLogical, Continue, Finish,
           DanglingContinuation, EndOfText
  <2>2. CASE AddToBody
    <3>1. open \in DOMAIN defs
      BY <2>2 DEF AddToBody, IInv, OpenIsDefined
    <3>2. /\ defs' = [defs EXCEPT ![open].body = Append(@, Line.words)]
          /\ "body" \in DOMAIN defs[open]
      BY <2>2, <3>1 DEF AddToBody, IInv, TypeOK, IsDefs, Subckt
    <3>. QED
      BY <3>1, <3>2 DEF CardKept
  <2>3. CASE AddToTop
    BY <2>3 DEF AddToTop, CardKept
  <2>. QED
    BY <2>1, <2>2, <2>3
    DEF ParseLine, IsDevice, OpenSubckt, MissingSubcktName, CloseSubckt,
        UnexpectedEnds, StopAtEnd, RecordDirective
<1>. QED
  BY <1>1, Inductive, PTL DEF Spec, NoCardDropped
----------------------------------------------------------------------------
(* Where the cards go.  The bodies of the definitions are told by their    *)
(* last headers, so that the invariant has to say that every definition    *)
(* has a header, and that `open` is the name of the block being read.      *)

LexFirst ==
  status = "lex" => /\ pos = 0 /\ open = NoSubckt
                    /\ top = <<>> /\ DOMAIN defs = {}

OpenIsBlock ==
  status \notin Errors =>
    IF open = NoSubckt THEN BlockOf(pos + 1) = 0
    ELSE BlockOf(pos + 1) # 0 /\ NameAt(BlockOf(pos + 1)) = open

DefsHaveHeaders == \A n \in DOMAIN defs : \E h \in Headers : NameAt(h) = n

\* A mark that does not match ends the parse.
MarksMatch ==
  status \notin Errors =>
    /\ \A i \in 1 .. pos : LeadOf(i) = "ends" => BlockOf(i) # 0
    /\ \A h \in Headers : Len(logical[h].words) > 1

BlockInv == LexFirst /\ OpenIsBlock /\ DefsHaveHeaders /\ MarksMatch
              /\ CardsGoToTheirBlock

\* Where each row's words are: a logical line begins with the words of its row,
\* and as long as there is none every row was blank.
LinesFromText ==
  \A i \in DOMAIN logical :
    LET first == StripComment(text[logical[i].row]) IN
    /\ first # <<>> /\ Len(first) <= Len(logical[i].words)
    /\ \A k \in DOMAIN first : logical[i].words[k] = first[k]

BlankSoFar ==
  status # "DanglingContinuation" /\ logical = <<>> =>
    \A r \in 1 .. row : StripComment(text[r]) = <<>>

TextInv == LinesFromText /\ BlankSoFar

(* The block of a line is a header before it, with no mark in between.     *)
LEMMA BlockProperties ==
  ASSUME NEW i \in Nat \ {0}
  PROVE  /\ BlockOf(i) \in 0 .. i - 1
         /\ BlockOf(i) # 0 =>
              /\ LeadOf(BlockOf(i)) = "subckt"
              /\ \A j \in BlockOf(i) + 1 .. i - 1 : LeadOf(j) \notin {"subckt", "ends"}
<1>. DEFINE marks == {j \in 1 .. i - 1 : LeadOf(j) \in {"subckt", "ends"}}
<1>1. BlockOf(i) = IF marks # {} /\ LeadOf(Max(marks)) = "subckt" THEN Max(marks) ELSE 0
  BY DEF BlockOf
<1>2. marks # {} => Max(marks) \in marks /\ \A j \in marks : j <= Max(marks)
  <2>1. marks \in SUBSET (0 .. i) /\ i \in Nat
    OBVIOUS
  <2>. HIDE DEF marks
  <2>. QED
    BY <2>1, MaxOfNaturals
<1>3. CASE marks # {} /\ LeadOf(Max(marks)) = "subckt"
  <2>1. /\ BlockOf(i) = Max(marks) /\ Max(marks) \in 1 .. i - 1
    BY <1>1, <1>2, <1>3
  <2>2. \A j \in Max(marks) + 1 .. i - 1 : j \notin marks /\ j \in 1 .. i - 1
    <3>1. Max(marks) \in Nat /\ \A j \in marks : j <= Max(marks)
      BY <1>2, <1>3, <2>1
    <3>. HIDE DEF marks
    <3>. QED
      BY <3>1
  <2>3. \A j \in Max(marks) + 1 .. i - 1 : LeadOf(j) \notin {"subckt", "ends"}
    BY <2>2
  <2>. HIDE DEF marks
  <2>. QED
    BY <1>3, <2>1, <2>3
<1>4. CASE ~ (marks # {} /\ LeadOf(Max(marks)) = "subckt")
  BY <1>1, <1>4
<1>. QED
  BY <1>3, <1>4

(* A header begins a block, `.ends` ends one, any other line is in the     *)
(* block that the line before it is in.                                    *)
LEMMA BlockOfNext ==
  ASSUME NEW i \in Nat \ {0}
  PROVE  BlockOf(i + 1) = IF LeadOf(i) = "subckt" THEN i
                          ELSE IF LeadOf(i) = "ends" THEN 0 ELSE BlockOf(i)
<1>. DEFINE marks(k) == {j \in 1 .. k - 1 : LeadOf(j) \in {"subckt", "ends"}}
<1>1. (i + 1) - 1 = i /\ i \in 1 .. i /\ 1 .. i = (1 .. i - 1) \cup {i}
  OBVIOUS
<1>2. BlockOf(i + 1) = IF marks(i + 1) # {} /\ LeadOf(Max(marks(i + 1))) = "subckt"
                       THEN Max(marks(i + 1)) ELSE 0
  BY DEF BlockOf
<1>3. CASE LeadOf(i) \in {"subckt", "ends"}
  <2>1. i \in marks(i + 1) /\ marks(i + 1) \in SUBSET Int /\ \A j \in marks(i + 1) : j <= i
    BY <1>1, <1>3
  <2>2. Max(marks(i + 1)) = i
    <3>. HIDE DEF marks
    <3>. QED
      BY <2>1, MaxIs
  <2>3. BlockOf(i + 1) = IF LeadOf(i) = "subckt" THEN i ELSE 0
    <3>. HIDE DEF marks
    <3>. QED
      BY <1>2, <2>1, <2>2
  <2>. QED
    BY <1>3, <2>3
<1>4. CASE LeadOf(i) \notin {"subckt", "ends"}
  <2>1. marks(i + 1) = marks(i)
    BY <1>1, <1>4
  <2>2. BlockOf(i) = IF marks(i) # {} /\ LeadOf(Max(marks(i))) = "subckt"
                     THEN Max(marks(i)) ELSE 0
    BY DEF BlockOf
  <2>. HIDE DEF marks
  <2>. QED
    BY <1>2, <1>4, <2>1, <2>2
<1>. QED
  BY <1>3, <1>4

(* No line is before the first.                                            *)
LEMMA FirstBlock == BlockOf(1) = 0
BY BlockProperties

(* The card lines of a block are finitely many, and come after its header. *)
LEMMA CardLinesProperties ==
  ASSUME NEW b, pos \in Nat
  PROVE  /\ CardLines(b) \in SUBSET Int /\ IsFiniteSet(CardLines(b))
         /\ \A i \in CardLines(b) : i \in 1 .. pos /\ b < i
<1>1. CardLines(b) \in SUBSET (1 .. pos) /\ IsFiniteSet(1 .. pos)
  BY FS_Interval DEF CardLines
<1>2. IsFiniteSet(CardLines(b))
  BY <1>1, FS_Subset
<1>3. ASSUME NEW i \in CardLines(b)
      PROVE  b < i
  <2>1. i \in Nat \ {0} /\ b = BlockOf(i)
    BY <1>3 DEF CardLines
  <2>. QED
    BY <2>1, BlockProperties
<1>. QED
  BY <1>1, <1>2, <1>3

(* A definition's last header is one of its headers.                       *)
LEMMA LastHeaderProperties ==
  ASSUME NEW n, pos \in Nat, \E h \in Headers : NameAt(h) = n
  PROVE  /\ LastHeader(n) \in Headers /\ NameAt(LastHeader(n)) = n
         /\ LastHeader(n) \in 1 .. pos
         /\ \A h \in Headers : NameAt(h) = n => h <= LastHeader(n)
<1>. DEFINE own == {h \in Headers : NameAt(h) = n}
<1>1. own \in SUBSET (0 .. pos) /\ own # {}
  BY DEF Headers
<1>2. Max(own) \in own /\ \A h \in own : h <= Max(own)
  <2>. HIDE DEF own
  <2>. QED
    BY <1>1, MaxOfNaturals
<1>. QED
  BY <1>2 DEF LastHeader, Headers

(* A header of the name with no other after it is the last one.            *)
LEMMA LastHeaderIs ==
  ASSUME pos \in Nat, NEW h \in Headers,
         \A k \in Headers : k > h => NameAt(k) # NameAt(h)
  PROVE  LastHeader(NameAt(h)) = h
<1>. DEFINE own == {k \in Headers : NameAt(k) = NameAt(h)}
<1>1. own \in SUBSET Int /\ h \in own /\ \A k \in own : k <= h
  BY DEF Headers
<1>2. Max(own) = h
  <2>. HIDE DEF own
  <2>. QED
    BY <1>1, MaxIs
<1>. QED
  BY <1>2 DEF LastHeader
(* What a step of the second pass leaves: the lines and their blocks.      *)
LEMMA LinesStay ==
  ASSUME logical' = logical, pos \in Nat, pos' = pos + 1
  PROVE  /\ \A i : /\ LeadOf(i)' = LeadOf(i) /\ NameAt(i)' = NameAt(i)
                   /\ IsCard(i)' = IsCard(i) /\ BlockOf(i)' = BlockOf(i)
         /\ Headers' = IF LeadOf(pos + 1) = "subckt" THEN Headers \cup {pos + 1}
                       ELSE Headers
         /\ \A b : CardLines(b)' = IF IsCard(pos + 1) /\ BlockOf(pos + 1) = b
                                   THEN CardLines(b) \cup {pos + 1}
                                   ELSE CardLines(b)
<1>1. \A i : LeadOf(i)' = LeadOf(i) /\ NameAt(i)' = NameAt(i)
  BY DEF LeadOf, NameAt
<1>2. \A i : IsCard(i)' = IsCard(i) /\ BlockOf(i)' = BlockOf(i)
  BY <1>1 DEF IsCard, BlockOf
<1>3. 1 .. pos' = (1 .. pos) \cup {pos + 1}
  OBVIOUS
<1>4. Headers' = {i \in 1 .. pos' : LeadOf(i) = "subckt"}
  BY <1>1 DEF Headers
<1>5. ASSUME NEW b
      PROVE  CardLines(b)' = {i \in 1 .. pos' : IsCard(i) /\ BlockOf(i) = b}
  BY <1>2 DEF CardLines
<1>6. Headers' = IF LeadOf(pos + 1) = "subckt" THEN Headers \cup {pos + 1} ELSE Headers
  BY <1>3, <1>4 DEF Headers
<1>7. ASSUME NEW b
      PROVE  CardLines(b)' = IF IsCard(pos + 1) /\ BlockOf(pos + 1) = b
                             THEN CardLines(b) \cup {pos + 1} ELSE CardLines(b)
  BY <1>3, <1>5 DEF CardLines
<1>. QED
  BY <1>1, <1>2, <1>6, <1>7

(* A block that the line is not a card of lists what it listed.            *)
LEMMA CardsStay ==
  ASSUME logical' = logical, pos \in Nat, pos' = pos + 1,
         NEW b, ~ (IsCard(pos + 1) /\ BlockOf(pos + 1) = b)
  PROVE  CardsIn(b)' = CardsIn(b)
<1>1. CardLines(b)' = CardLines(b)
  BY LinesStay
<1>. QED
  BY <1>1 DEF CardsIn

(* The block that it is a card of lists one more.                          *)
LEMMA CardsGrow ==
  ASSUME logical' = logical, pos \in Nat, pos' = pos + 1,
         NEW b, IsCard(pos + 1), BlockOf(pos + 1) = b, Line.words \in Card,
         NEW cards \in Seq(Card), Lists(cards, CardsIn(b))
  PROVE  Lists(Append(cards, Line.words), CardsIn(b)')
<1>. DEFINE S == CardLines(b)
            f == CardsIn(b)
            g == CardsIn(b)'
<1>1. /\ S \in SUBSET Int /\ IsFiniteSet(S)
      /\ pos + 1 \in Int /\ \A i \in S : i < pos + 1
  <2>1. S \in SUBSET Int /\ IsFiniteSet(S) /\ \A i \in S : i \in 1 .. pos
    BY CardLinesProperties
  <2>. QED
    BY <2>1
<1>2. DOMAIN f = S /\ \A i \in S : f[i] = logical[i].words
  BY DEF CardsIn
<1>3. CardLines(b)' = S \cup {pos + 1}
  BY LinesStay
<1>4. /\ DOMAIN g = S \cup {pos + 1} /\ g[pos + 1] = Line.words
      /\ \A i \in S : g[i] = f[i]
  BY <1>2, <1>3 DEF CardsIn, Line
<1>. HIDE DEF S, f, g
<1>5. /\ Lists(cards, f) /\ AddsPlace(f, g, pos + 1)
      /\ g[pos + 1] = Line.words /\ g[pos + 1] \in Card
  BY <1>1, <1>2, <1>4 DEF f, AddsPlace
<1>6. Lists(Append(cards, g[pos + 1]), g)
  BY <1>5, ListsMore, Zenon
<1>. QED
  BY <1>5, <1>6 DEF g

(* The blocks after a line of the second pass.                             *)
LEMMA NextBlock ==
  ASSUME logical' = logical, pos \in Nat, pos' = pos + 1
  PROVE  BlockOf(pos + 1)' = IF LeadOf(pos + 1) = "subckt" THEN pos + 1
                             ELSE IF LeadOf(pos + 1) = "ends" THEN 0
                             ELSE BlockOf(pos + 1)
<1>1. \A i : BlockOf(i)' = BlockOf(i)
  BY LinesStay
<1>2. pos' + 1 = (pos + 1) + 1 /\ pos + 1 \in Nat \ {0}
  OBVIOUS
<1>3. BlockOf(pos + 1)' = BlockOf((pos + 1) + 1)
  <2>1. \A i : i = pos' + 1 => BlockOf(pos + 1)' = BlockOf(i)'
    OBVIOUS
  <2>. QED
    BY <1>1, <1>2, <2>1
<1>. QED
  BY <1>2, <1>3, BlockOfNext
(* A line that is no header leaves the last headers as they are, and the   *)
(* lists of the blocks that it is no card of.                              *)
LEMMA BodyStays ==
  ASSUME logical' = logical, pos \in Nat, pos' = pos + 1,
         LeadOf(pos + 1) # "subckt", NEW n, NEW body,
         Lists(body, CardsIn(LastHeader(n))),
         ~ (IsCard(pos + 1) /\ BlockOf(pos + 1) = LastHeader(n))
  PROVE  Lists(body, CardsIn(LastHeader(n))')
<1>1. Headers' = Headers /\ \A h : NameAt(h)' = NameAt(h)
  BY LinesStay
<1>2. LastHeader(n)' = LastHeader(n)
  BY <1>1 DEF LastHeader
<1>3. ASSUME NEW b, b = LastHeader(n)
      PROVE  CardsIn(LastHeader(n))' = CardsIn(LastHeader(n))
  <2>1. CardsIn(b)' = CardsIn(b)
    BY <1>3, CardsStay
  <2>2. b = LastHeader(n)'
    BY <1>2, <1>3
  <2>. QED
    BY <1>3, <2>1, <2>2
<1>4. CardsIn(LastHeader(n))' = CardsIn(LastHeader(n))
  BY <1>3
<1>. QED
  BY <1>4

(* The card of a definition's block goes to the end of its body.           *)
LEMMA BodyGrows ==
  ASSUME logical' = logical, pos \in Nat, pos' = pos + 1,
         LeadOf(pos + 1) # "subckt", NEW n, NEW body \in Seq(Card),
         Lists(body, CardsIn(LastHeader(n))), Line.words \in Card,
         IsCard(pos + 1), BlockOf(pos + 1) = LastHeader(n)
  PROVE  Lists(Append(body, Line.words), CardsIn(LastHeader(n))')
<1>1. Headers' = Headers /\ \A h : NameAt(h)' = NameAt(h)
  BY LinesStay
<1>2. LastHeader(n)' = LastHeader(n)
  BY <1>1 DEF LastHeader
<1>3. ASSUME NEW b, b = LastHeader(n)
      PROVE  Lists(Append(body, Line.words), CardsIn(LastHeader(n))')
  <2>1. BlockOf(pos + 1) = b /\ Lists(body, CardsIn(b))
    BY <1>3
  <2>2. Lists(Append(body, Line.words), CardsIn(b)')
    BY <2>1, CardsGrow
  <2>3. b = LastHeader(n)'
    BY <1>2, <1>3
  <2>. QED
    BY <2>2, <2>3
<1>. QED
  BY <1>3

(* A header begins an empty body, and leaves the bodies of other names.    *)
LEMMA HeaderBegins ==
  ASSUME logical' = logical, pos \in Nat, pos' = pos + 1,
         LeadOf(pos + 1) = "subckt", NEW n
  PROVE  /\ n = NameAt(pos + 1) => Lists(<<>>, CardsIn(LastHeader(n))')
         /\ n # NameAt(pos + 1) => CardsIn(LastHeader(n))' = CardsIn(LastHeader(n))
<1>0. ~ IsCard(pos + 1) /\ pos + 1 \in Int
  BY DEF IsCard
<1>1. Headers' = Headers \cup {pos + 1} /\ \A h : NameAt(h)' = NameAt(h)
  BY LinesStay
<1>2. ASSUME n = NameAt(pos + 1)
      PROVE  Lists(<<>>, CardsIn(LastHeader(n))')
  <2>1. LastHeader(n)' = pos + 1
    <3>. DEFINE own == {h \in Headers \cup {pos + 1} : NameAt(h) = n}
    <3>1. Headers \in SUBSET (1 .. pos)
      BY DEF Headers
    <3>2. pos + 1 \in own
      BY <1>2
    <3>3. \A h \in own : h \in Int /\ h <= pos + 1
      BY <3>1
    <3>4. {h \in Headers' : NameAt(h)' = n} = own
      BY <1>1
    <3>. HIDE DEF own
    <3>5. own \in SUBSET Int
      BY <3>3
    <3>6. Max(own) = pos + 1
      BY <3>2, <3>3, <3>5, MaxIs
    <3>. QED
      BY <3>4, <3>6 DEF LastHeader
  <2>2. ASSUME NEW b, b = pos + 1
        PROVE  Lists(<<>>, CardsIn(LastHeader(n))')
    <3>1. CardsIn(b)' = CardsIn(b)
      BY <1>0, CardsStay
    <3>2. DOMAIN CardsIn(b) = {}
      <4>1. CardLines(b) = {}
        BY <2>2, CardLinesProperties
      <4>. QED
        BY <4>1 DEF CardsIn
    <3>3. Lists(<<>>, CardsIn(b)')
      BY <3>1, <3>2, ListsNone
    <3>4. b = LastHeader(n)'
      BY <2>1, <2>2
    <3>. QED
      BY <3>3, <3>4
  <2>. QED
    BY <2>2
<1>3. ASSUME n # NameAt(pos + 1)
      PROVE  CardsIn(LastHeader(n))' = CardsIn(LastHeader(n))
  <2>1. LastHeader(n)' = LastHeader(n)
    <3>1. {h \in Headers' : NameAt(h)' = n} = {h \in Headers : NameAt(h) = n}
      BY <1>1, <1>3
    <3>. QED
      BY <3>1 DEF LastHeader
  <2>2. ASSUME NEW b, b = LastHeader(n)
        PROVE  CardsIn(LastHeader(n))' = CardsIn(LastHeader(n))
    <3>1. CardsIn(b)' = CardsIn(b)
      BY <1>0, CardsStay
    <3>2. b = LastHeader(n)'
      BY <2>1, <2>2
    <3>. QED
      BY <2>2, <3>1, <3>2
  <2>. QED
    BY <2>2
<1>. QED
  BY <1>2, <1>3
(* Each line of the second pass keeps the account of the blocks.           *)
LEMMA BlockParse == IInv /\ BlockInv /\ ParseLine => BlockInv'
<1>. SUFFICES ASSUME IInv, BlockInv, ParseLine PROVE BlockInv'
  OBVIOUS
<1>1. TypeOK /\ LogicalLinesClean /\ OpenIsDefined
  BY DEF IInv
<1>2. ReadLine
  BY DEF ParseLine, OpenSubckt, MissingSubcktName, CloseSubckt, UnexpectedEnds,
         StopAtEnd, RecordDirective, AddToBody, AddToTop
<1>3. /\ pos < Len(logical) /\ pos' = pos + 1 /\ logical' = logical /\ status = "parse"
      /\ pos \in Nat
  BY <1>1, <1>2 DEF ReadLine, lexVars, TypeOK
<1>4. Line.words \in Card /\ Head(Line.words) \in Word /\ Tail(Line.words) \in Seq(Word)
  BY <1>1, <1>3, LineProperties
<1>5. LineLead = LeadOf(pos + 1) /\ (IsDevice <=> IsCard(pos + 1))
  BY DEF LineLead, LeadOf, IsDevice, IsCard, Line
<1>6. /\ \A i : LeadOf(i)' = LeadOf(i) /\ NameAt(i)' = NameAt(i) /\ BlockOf(i)' = BlockOf(i)
      /\ Headers' = IF LeadOf(pos + 1) = "subckt" THEN Headers \cup {pos + 1} ELSE Headers
  BY <1>3, LinesStay
<1>7. BlockOf(pos + 1)' = IF LeadOf(pos + 1) = "subckt" THEN pos + 1
                          ELSE IF LeadOf(pos + 1) = "ends" THEN 0 ELSE BlockOf(pos + 1)
  BY <1>3, NextBlock
<1>8. /\ status \notin Errors /\ 1 .. pos' = (1 .. pos) \cup {pos + 1}
      /\ IF open = NoSubckt THEN BlockOf(pos + 1) = 0
         ELSE BlockOf(pos + 1) # 0 /\ NameAt(BlockOf(pos + 1)) = open
      /\ \A i \in 1 .. pos : LeadOf(i) = "ends" => BlockOf(i) # 0
      /\ \A h \in Headers : Len(logical[h].words) > 1
      /\ Lists(top, CardsIn(0))
      /\ \A n \in DOMAIN defs : Lists(defs[n].body, CardsIn(LastHeader(n)))
      /\ \A n \in DOMAIN defs : \E h \in Headers : NameAt(h) = n
  <2>1. status \notin Errors
    BY <1>3 DEF Errors
  <2>2. 1 .. pos' = (1 .. pos) \cup {pos + 1}
    BY <1>3
  <2>. QED
    BY <2>1, <2>2 DEF BlockInv, OpenIsBlock, MarksMatch, CardsGoToTheirBlock, DefsHaveHeaders
<1>9. SUFFICES ASSUME TRUE PROVE
         /\ LexFirst' /\ OpenIsBlock' /\ DefsHaveHeaders' /\ MarksMatch'
         /\ CardsGoToTheirBlock'
  BY DEF BlockInv
<1>10. status' # "lex" /\ LexFirst'
  <2>1. status' # "lex"
    BY <1>3 DEF ParseLine, OpenSubckt, MissingSubcktName, CloseSubckt, UnexpectedEnds,
           StopAtEnd, RecordDirective, AddToBody, AddToTop
  <2>. QED
    BY <2>1 DEF LexFirst
<1>11. (\A n \in DOMAIN defs' : n \in DOMAIN defs
           \/ (LeadOf(pos + 1) = "subckt" /\ n = NameAt(pos + 1))) => DefsHaveHeaders'
  BY <1>6, <1>8 DEF DefsHaveHeaders
<1>12. CASE OpenSubckt
  <2>. DEFINE header == Tail(Line.words)
              name   == Head(header)
  <2>1. /\ LeadOf(pos + 1) = "subckt" /\ header # <<>> /\ open' = name
        /\ defs' = Insert(defs, name, [header |-> header, body |-> <<>>])
        /\ top' = top /\ status' = status
    BY <1>5, <1>12 DEF OpenSubckt
  <2>2. name = NameAt(pos + 1) /\ name \in Word /\ Len(logical[pos + 1].words) > 1
    <3>1. Line.words \in Seq(Word) /\ Line.words # <<>>
      BY <1>4 DEF Card
    <3>2. name = Line.words[2] /\ Len(Line.words) > 1 /\ name \in Word
      BY <2>1, <3>1
    <3>. QED
      BY <3>2 DEF NameAt, Line
  <2>. HIDE DEF name
  <2>3. OpenIsBlock'
    <3>1. open' # NoSubckt
      BY <2>1, <2>2, NoSubcktAssumption
    <3>2. BlockOf(pos + 1)' = pos + 1 /\ pos + 1 # 0
      BY <1>3, <1>7, <2>1
    <3>3. NameAt(BlockOf(pos + 1))' = NameAt(pos + 1)
      BY <1>6, <3>2
    <3>. QED
      BY <2>1, <2>2, <3>1, <3>2, <3>3 DEF OpenIsBlock
  <2>4. /\ DOMAIN defs' = DOMAIN defs \cup {name}
        /\ defs'[name].body = <<>>
        /\ \A n \in DOMAIN defs : n # name => defs'[n] = defs[n]
    BY <2>1 DEF Insert
  <2>5. DefsHaveHeaders'
    <3>1. \A n \in DOMAIN defs' : n \in DOMAIN defs
            \/ (LeadOf(pos + 1) = "subckt" /\ n = NameAt(pos + 1))
      BY <2>1, <2>2, <2>4
    <3>. QED
      BY <1>11, <3>1
  <2>6. MarksMatch'
    BY <1>3, <1>6, <1>8, <2>1, <2>2 DEF MarksMatch
  <2>7. Lists(top', CardsIn(0)')
    <3>1. ~ IsCard(pos + 1)
      BY <2>1 DEF IsCard
    <3>2. CardsIn(0)' = CardsIn(0)
      BY <1>3, <3>1, CardsStay
    <3>. QED
      BY <1>8, <2>1, <3>2
  <2>8. ASSUME NEW n \in DOMAIN defs'
        PROVE  Lists(defs'[n].body, CardsIn(LastHeader(n))')
    <3>1. /\ n = name => Lists(<<>>, CardsIn(LastHeader(n))')
          /\ n # name => CardsIn(LastHeader(n))' = CardsIn(LastHeader(n))
      BY <1>3, <2>1, <2>2, HeaderBegins
    <3>2. CASE n = name
      BY <2>4, <3>1, <3>2
    <3>3. CASE n # name
      BY <1>8, <2>4, <2>8, <3>1, <3>3
    <3>. QED
      BY <3>2, <3>3
  <2>9. CardsGoToTheirBlock'
    BY <2>7, <2>8 DEF CardsGoToTheirBlock
  <2>. QED
    BY <1>10, <2>3, <2>5, <2>6, <2>9
<1>13. CASE MissingSubcktName \/ UnexpectedEnds
  <2>1. status' \in Errors /\ defs' = defs
    BY <1>13 DEF MissingSubcktName, UnexpectedEnds, netVars, Errors
  <2>2. DefsHaveHeaders'
    <3>1. \A n \in DOMAIN defs' : n \in DOMAIN defs
      BY <2>1
    <3>. QED
      BY <1>11, <3>1
  <2>3. OpenIsBlock' /\ MarksMatch' /\ CardsGoToTheirBlock'
    BY <2>1 DEF OpenIsBlock, MarksMatch, CardsGoToTheirBlock
  <2>. QED
    BY <1>10, <2>2, <2>3
\* The lines that are not cards.
<1>14. ASSUME LeadOf(pos + 1) # "subckt", ~ IsCard(pos + 1), top' = top, defs' = defs
       PROVE  CardsGoToTheirBlock' /\ DefsHaveHeaders'
  <2>1. Lists(top', CardsIn(0)')
    <3>1. CardsIn(0)' = CardsIn(0)
      BY <1>3, <1>14, CardsStay
    <3>. QED
      BY <1>8, <1>14, <3>1
  <2>2. ASSUME NEW n \in DOMAIN defs
        PROVE  Lists(defs[n].body, CardsIn(LastHeader(n))')
    BY <1>3, <1>8, <1>14, BodyStays
  <2>3. DefsHaveHeaders'
    <3>1. \A n \in DOMAIN defs' : n \in DOMAIN defs
      BY <1>14
    <3>. QED
      BY <1>11, <3>1
  <2>4. CardsGoToTheirBlock'
    <3>1. \A n \in DOMAIN defs' : Lists(defs'[n].body, CardsIn(LastHeader(n))')
      BY <1>14, <2>2
    <3>. QED
      BY <2>1, <3>1 DEF CardsGoToTheirBlock
  <2>. QED
    BY <2>3, <2>4
<1>15. CASE CloseSubckt
  <2>1. /\ LeadOf(pos + 1) = "ends" /\ open # NoSubckt /\ open' = NoSubckt
        /\ top' = top /\ defs' = defs /\ status' = status
    BY <1>5, <1>15 DEF CloseSubckt, netVars
  <2>2. CardsGoToTheirBlock' /\ DefsHaveHeaders'
    BY <1>14, <2>1 DEF IsCard
  <2>3. OpenIsBlock'
    BY <1>7, <2>1 DEF OpenIsBlock
  <2>4. MarksMatch'
    BY <1>3, <1>6, <1>8, <2>1 DEF MarksMatch
  <2>. QED
    BY <1>10, <2>2, <2>3, <2>4
<1>16. CASE StopAtEnd \/ RecordDirective
  <2>1. /\ LeadOf(pos + 1) \in {"end", "directive"} /\ open' = open
        /\ top' = top /\ defs' = defs /\ status' \in {"parse", "ended"}
    BY <1>3, <1>5, <1>16 DEF StopAtEnd, RecordDirective, netVars
  <2>2. CardsGoToTheirBlock' /\ DefsHaveHeaders'
    BY <1>14, <2>1 DEF IsCard
  <2>3. BlockOf(pos + 1)' = BlockOf(pos + 1)
    BY <1>7, <2>1
  <2>4. NameAt(BlockOf(pos + 1))' = NameAt(BlockOf(pos + 1))
    BY <1>6, <2>3
  <2>5. OpenIsBlock'
    BY <1>8, <2>1, <2>3, <2>4 DEF OpenIsBlock
  <2>6. MarksMatch'
    BY <1>3, <1>6, <1>8, <2>1 DEF MarksMatch
  <2>. QED
    BY <1>10, <2>2, <2>5, <2>6
\* The lines that are.
<1>17. ASSUME IsCard(pos + 1), open' = open, status' = status
       PROVE  OpenIsBlock' /\ MarksMatch'
  <2>1. LeadOf(pos + 1) \notin {"subckt", "ends"}
    BY <1>17 DEF IsCard
  <2>2. BlockOf(pos + 1)' = BlockOf(pos + 1)
    BY <1>7, <2>1
  <2>3. NameAt(BlockOf(pos + 1))' = NameAt(BlockOf(pos + 1))
    BY <1>6, <2>2
  <2>4. OpenIsBlock'
    BY <1>8, <1>17, <2>2, <2>3 DEF OpenIsBlock
  <2>5. MarksMatch'
    BY <1>3, <1>6, <1>8, <1>17, <2>1 DEF MarksMatch
  <2>. QED
    BY <2>4, <2>5
<1>18. CASE AddToBody
  <2>1. /\ IsCard(pos + 1) /\ open # NoSubckt /\ open \in DOMAIN defs
        /\ defs' = [defs EXCEPT ![open].body = Append(@, Line.words)]
        /\ open' = open /\ top' = top /\ status' = status
    BY <1>1, <1>5, <1>18 DEF AddToBody, OpenIsDefined
  <2>2. LeadOf(pos + 1) \notin {"subckt", "ends"}
    BY <2>1 DEF IsCard
  <2>3. /\ BlockOf(pos + 1) \in Headers /\ NameAt(BlockOf(pos + 1)) = open
        /\ BlockOf(pos + 1) # 0
        /\ \A k \in Headers : ~ (k > BlockOf(pos + 1))
    <3>1. BlockOf(pos + 1) # 0 /\ NameAt(BlockOf(pos + 1)) = open
      BY <1>8, <2>1
    <3>2. pos + 1 \in Nat \ {0} /\ (pos + 1) - 1 = pos
      BY <1>3
    <3>3. /\ BlockOf(pos + 1) \in 0 .. pos /\ LeadOf(BlockOf(pos + 1)) = "subckt"
          /\ \A j \in BlockOf(pos + 1) + 1 .. pos : LeadOf(j) \notin {"subckt", "ends"}
      BY <3>1, <3>2, BlockProperties
    <3>. QED
      BY <3>1, <3>3 DEF Headers
  <2>4. LastHeader(open) = BlockOf(pos + 1)
    BY <1>3, <2>3, LastHeaderIs
  <2>5. /\ defs[open].body \in Seq(Card)
        /\ DOMAIN defs' = DOMAIN defs
        /\ defs'[open].body = Append(defs[open].body, Line.words)
        /\ \A n \in DOMAIN defs : n # open => defs'[n] = defs[n]
    BY <1>1, <2>1 DEF TypeOK, IsDefs, Subckt
  <2>6. Lists(top', CardsIn(0)')
    <3>1. CardsIn(0)' = CardsIn(0)
      BY <1>3, <2>3, CardsStay
    <3>. QED
      BY <1>8, <2>1, <3>1
  <2>7. ASSUME NEW n \in DOMAIN defs
        PROVE  Lists(defs'[n].body, CardsIn(LastHeader(n))')
    <3>1. CASE n = open
      <4>1. /\ defs[n].body \in Seq(Card) /\ LastHeader(n) = BlockOf(pos + 1)
            /\ defs'[n].body = Append(defs[n].body, Line.words)
            /\ Lists(defs[n].body, CardsIn(LastHeader(n)))
        BY <1>8, <2>4, <2>5, <3>1
      <4>2. Lists(Append(defs[n].body, Line.words), CardsIn(LastHeader(n))')
        BY <1>3, <1>4, <2>1, <2>2, <4>1, BodyGrows
      <4>. QED
        BY <4>1, <4>2
    <3>2. CASE n # open
      <4>1. NameAt(LastHeader(n)) = n
        BY <1>3, <1>8, LastHeaderProperties
      <4>2. BlockOf(pos + 1) # LastHeader(n)
        BY <2>3, <3>2, <4>1
      <4>3. Lists(defs[n].body, CardsIn(LastHeader(n))')
        BY <1>3, <1>8, <2>2, <4>2, BodyStays
      <4>. QED
        BY <2>5, <3>2, <4>3
    <3>. QED
      BY <3>1, <3>2
  <2>8. DefsHaveHeaders'
    <3>1. \A n \in DOMAIN defs' : n \in DOMAIN defs
      BY <2>5
    <3>. QED
      BY <1>11, <3>1
  <2>9. CardsGoToTheirBlock'
    <3>1. \A n \in DOMAIN defs' : Lists(defs'[n].body, CardsIn(LastHeader(n))')
      BY <2>5, <2>7
    <3>. QED
      BY <2>6, <3>1 DEF CardsGoToTheirBlock
  <2>. QED
    BY <1>10, <1>17, <2>1, <2>8, <2>9
<1>19. CASE AddToTop
  <2>1. /\ IsCard(pos + 1) /\ open = NoSubckt /\ top' = Append(top, Line.words)
        /\ defs' = defs /\ open' = open /\ status' = status
    BY <1>5, <1>19 DEF AddToTop
  <2>2. LeadOf(pos + 1) \notin {"subckt", "ends"}
    BY <2>1 DEF IsCard
  <2>3. BlockOf(pos + 1) = 0
    BY <1>8, <2>1
  <2>4. top \in Seq(Card)
    BY <1>1 DEF TypeOK
  <2>5. Lists(Append(top, Line.words), CardsIn(0)')
    BY <1>3, <1>4, <1>8, <2>1, <2>3, <2>4, CardsGrow
  <2>6. ASSUME NEW n \in DOMAIN defs
        PROVE  Lists(defs[n].body, CardsIn(LastHeader(n))')
    <3>1. LastHeader(n) # 0
      BY <1>3, <1>8, LastHeaderProperties
    <3>. QED
      BY <1>3, <1>8, <2>2, <2>3, <3>1, BodyStays
  <2>7. DefsHaveHeaders'
    <3>1. \A n \in DOMAIN defs' : n \in DOMAIN defs
      BY <2>1
    <3>. QED
      BY <1>11, <3>1
  <2>8. CardsGoToTheirBlock'
    <3>1. \A n \in DOMAIN defs' : Lists(defs'[n].body, CardsIn(LastHeader(n))')
      BY <2>1, <2>6
    <3>. QED
      BY <2>1, <2>5, <3>1 DEF CardsGoToTheirBlock
  <2>. QED
    BY <1>10, <1>17, <2>1, <2>7, <2>8
<1>. QED
  BY <1>12, <1>13, <1>15, <1>16, <1>18, <1>19 DEF ParseLine

(* Before the second pass no block has begun.                              *)
NothingParsed == pos = 0 /\ open = NoSubckt /\ top = <<>> /\ DOMAIN defs = {}

LEMMA BlocksBegin == NothingParsed => BlockInv
<1>. SUFFICES ASSUME NothingParsed PROVE BlockInv
  OBVIOUS
<1>1. pos = 0 /\ open = NoSubckt /\ top = <<>> /\ DOMAIN defs = {}
  BY DEF NothingParsed
<1>2. 1 .. pos = {} /\ pos + 1 = 1
  BY <1>1
<1>3. Headers = {}
  BY <1>2 DEF Headers
<1>4. CardsIn(0) = [i \in {} |-> logical[i].words]
  BY <1>2 DEF CardsIn, CardLines
<1>5. Lists(top, CardsIn(0))
  <2>1. DOMAIN CardsIn(0) = {}
    BY <1>4
  <2>. QED
    BY <1>1, <2>1, ListsNone
<1>6. CardsGoToTheirBlock
  BY <1>1, <1>5 DEF CardsGoToTheirBlock
<1>7. LexFirst /\ DefsHaveHeaders
  BY <1>1 DEF LexFirst, DefsHaveHeaders
<1>8. MarksMatch
  BY <1>2, <1>3 DEF MarksMatch
<1>9. OpenIsBlock
  <2>1. BlockOf(pos + 1) = 0
    BY <1>2, FirstBlock
  <2>. QED
    BY <1>1, <2>1 DEF OpenIsBlock
<1>. QED
  BY <1>6, <1>7, <1>8, <1>9 DEF BlockInv

(* A step that keeps the lines, the place and the netlist, and ends        *)
(* neither an error nor the first pass, keeps the account.                 *)
LEMMA BlocksStay ==
  ASSUME BlockInv, UNCHANGED <<logical, pos, open, top, defs>>,
         status \notin Errors \/ status' = status, status' # "lex" \/ status' = status
  PROVE  BlockInv'
<1>1. \A i : LeadOf(i)' = LeadOf(i) /\ NameAt(i)' = NameAt(i)
  BY DEF LeadOf, NameAt
<1>2. Headers' = Headers /\ \A i : IsCard(i)' = IsCard(i) /\ BlockOf(i)' = BlockOf(i)
  BY <1>1 DEF IsCard, BlockOf, Headers
<1>3. \A b : CardsIn(b)' = CardsIn(b)
  BY <1>2 DEF CardsIn, CardLines
<1>4. \A n : LastHeader(n)' = LastHeader(n)
  BY <1>1, <1>2 DEF LastHeader
<1>5. \A b : BlockOf(pos + 1)' = b <=> BlockOf(pos + 1) = b
  <2>1. BlockOf(pos + 1)' = BlockOf(pos + 1)
    BY <1>2
  <2>. QED
    BY <2>1
<1>6. NameAt(BlockOf(pos + 1))' = NameAt(BlockOf(pos + 1))
  BY <1>1, <1>5
<1>7. \A n : CardsIn(LastHeader(n))' = CardsIn(LastHeader(n))
  <2>1. ASSUME NEW n, NEW b, b = LastHeader(n)
        PROVE  CardsIn(LastHeader(n))' = CardsIn(LastHeader(n))
    <3>1. b = LastHeader(n)'
      BY <1>4, <2>1
    <3>. QED
      BY <1>3, <2>1, <3>1
  <2>. QED
    BY <2>1
<1>8. /\ LexFirst /\ OpenIsBlock /\ DefsHaveHeaders /\ MarksMatch
      /\ CardsGoToTheirBlock
  BY DEF BlockInv
<1>9. LexFirst' /\ DefsHaveHeaders'
  BY <1>1, <1>2, <1>8 DEF LexFirst, DefsHaveHeaders
<1>10. status' \notin Errors => status \notin Errors
  OBVIOUS
<1>11. OpenIsBlock'
  BY <1>5, <1>6, <1>8, <1>10 DEF OpenIsBlock
<1>12. MarksMatch'
  BY <1>1, <1>2, <1>8, <1>10 DEF MarksMatch
<1>13. CardsGoToTheirBlock'
  BY <1>3, <1>7, <1>8, <1>10 DEF CardsGoToTheirBlock
<1>. QED
  BY <1>9, <1>11, <1>12, <1>13 DEF BlockInv

(* Each iteration of either pass keeps the account of the blocks.          *)
LEMMA BlockNext == IInv /\ BlockInv /\ [Next]_vars => BlockInv'
<1>. SUFFICES ASSUME IInv, BlockInv, [Next]_vars PROVE BlockInv'
  OBVIOUS
<1>1. CASE Reassemble
  <2>1. status = "lex" /\ UNCHANGED <<pos, open, top, defs>>
    BY <1>1 DEF Reassemble, SkipBlank, StartLogical, Continue, DanglingContinuation,
                EndOfText, ReadRow, lexVars, netVars
  <2>2. NothingParsed'
    BY <2>1 DEF BlockInv, LexFirst, NothingParsed
  <2>. QED
    BY <2>2, BlocksBegin, PTL
<1>2. CASE ParseLine
  BY <1>2, BlockParse
<1>3. CASE Finish
  <2>1. /\ UNCHANGED <<logical, pos, open, top, defs>>
        /\ status \in {"parse", "ended"} /\ status' # "lex"
    BY <1>3 DEF Finish, LoopLeft, lexVars, netVars
  <2>2. status \notin Errors
    BY <2>1 DEF Errors
  <2>. QED
    BY <2>1, <2>2, BlocksStay
<1>4. CASE UNCHANGED vars
  <2>1. UNCHANGED <<logical, pos, open, top, defs>> /\ status' = status
    BY <1>4 DEF vars, netVars
  <2>. QED
    BY <2>1, BlocksStay
<1>. QED
  BY <1>1, <1>2, <1>3, <1>4 DEF Next

LEMMA BlockInductive == Spec => []BlockInv
<1>1. Init => BlockInv
  <2>1. Init => NothingParsed
    BY DEF Init, NothingParsed, EmptyDefs
  <2>. QED
    BY <2>1, BlocksBegin
<1>. QED
  BY <1>1, BlockNext, Inductive, PTL DEF Spec

(* Each card ends up in the block that it stands in, however the headers   *)
(* nest and repeat: a definition's body is what follows its last header,   *)
(* in order, and the top level is what no block holds.                     *)
THEOREM CardsCorrect == Spec => []CardsGoToTheirBlock
  BY BlockInductive, PTL DEF BlockInv

----------------------------------------------------------------------------
(* The lines and the text that they are made of.                           *)

(* A row of the first pass keeps the account of the text.                  *)
LEMMA TextReassemble == IInv /\ TextInv /\ Reassemble => TextInv'
<1>. SUFFICES ASSUME IInv, TextInv, Reassemble PROVE TextInv'
  OBVIOUS
<1>1. TypeOK /\ LinesFromText /\ BlankSoFar /\ status = "lex" /\ text' = text
  BY DEF IInv, TextInv, Reassemble, SkipBlank, StartLogical, Continue,
         DanglingContinuation, EndOfText, ReadRow, lexVars
<1>2. logical \in Seq(LogicalLine) /\ row \in Nat
  BY <1>1 DEF TypeOK
<1>3. logical = <<>> => \A r \in 1 .. row : StripComment(text[r]) = <<>>
  BY <1>1 DEF BlankSoFar
<1>4. CASE SkipBlank
  <2>1. logical' = logical /\ row' = row + 1 /\ StripComment(text[row + 1]) = <<>>
    BY <1>4 DEF SkipBlank, ReadRow, Cleaned
  <2>2. LinesFromText'
    BY <1>1, <2>1 DEF LinesFromText
  <2>3. \A r \in 1 .. row' : r \in 1 .. row \/ r = row + 1
    BY <1>2, <2>1
  <2>4. BlankSoFar'
    BY <1>1, <1>3, <2>1, <2>3 DEF BlankSoFar
  <2>. QED
    BY <2>2, <2>4 DEF TextInv
<1>5. CASE StartLogical
  <2>. DEFINE new == [words |-> Cleaned, row |-> row + 1]
  <2>1. logical' = Append(logical, new) /\ row < Len(text) /\ Cleaned # <<>>
    BY <1>5 DEF StartLogical, ReadRow
  <2>2. Cleaned \in Seq(Word) /\ new.row = row + 1 /\ new.words = Cleaned
    BY <1>1, <2>1, CleanedProperties
  <2>. HIDE DEF new
  <2>3. /\ logical' # <<>> /\ DOMAIN logical' = DOMAIN logical \cup {Len(logical) + 1}
        /\ logical'[Len(logical) + 1] = new
        /\ \A i \in DOMAIN logical : logical'[i] = logical[i]
    BY <1>2, <2>1
  <2>4. BlankSoFar'
    BY <2>3 DEF BlankSoFar
  <2>5. ASSUME NEW i \in DOMAIN logical', NEW first,
               first = StripComment(text[logical'[i].row])
        PROVE  /\ first # <<>> /\ Len(first) <= Len(logical'[i].words)
               /\ \A k \in DOMAIN first : logical'[i].words[k] = first[k]
    <3>1. CASE i \in DOMAIN logical
      <4>1. logical'[i] = logical[i]
        BY <2>3, <3>1
      <4>. QED
        BY <1>1, <2>5, <3>1, <4>1 DEF LinesFromText
    <3>2. CASE i = Len(logical) + 1
      <4>1. logical'[i] = new
        BY <2>3, <3>2
      <4>2. first = Cleaned
        BY <2>2, <2>5, <4>1 DEF Cleaned
      <4>. QED
        BY <2>1, <2>2, <4>1, <4>2
    <3>. QED
      BY <2>3, <2>5, <3>1, <3>2
  <2>6. LinesFromText'
    BY <1>1, <2>5 DEF LinesFromText
  <2>. QED
    BY <2>4, <2>6 DEF TextInv
<1>6. CASE Continue
  <2>. DEFINE n     == Len(logical)
              words == logical[n].words \o Tail(Cleaned)
  <2>1. /\ logical # <<>> /\ logical' = [logical EXCEPT ![n].words = words]
        /\ row < Len(text) /\ Cleaned # <<>>
    BY <1>6 DEF Continue, ReadRow
  <2>2. Tail(Cleaned) \in Seq(Word)
    BY <1>1, <2>1, CleanedProperties
  <2>3. \A i \in DOMAIN logical : logical[i] \in LogicalLine /\ logical[i].words \in Seq(Word)
    <3>1. \A i \in DOMAIN logical : logical[i] \in LogicalLine
      BY <1>2
    <3>. QED
      BY <3>1 DEF LogicalLine, Card
  <2>4. /\ n \in DOMAIN logical /\ Len(words) >= Len(logical[n].words)
        /\ \A k \in DOMAIN logical[n].words : words[k] = logical[n].words[k]
    <3>1. n \in DOMAIN logical
      BY <1>2, <2>1
    <3>2. logical[n].words \in Seq(Word)
      BY <2>3, <3>1
    <3>. QED
      BY <2>2, <3>1, <3>2
  <2>5. /\ DOMAIN logical' = DOMAIN logical /\ logical' # <<>>
        /\ \A i \in DOMAIN logical :
             /\ logical'[i].row = logical[i].row
             /\ logical'[i].words = IF i = n THEN words ELSE logical[i].words
    <3>. HIDE DEF words
    <3>. QED
      BY <1>2, <2>1, <2>3 DEF LogicalLine
  <2>. HIDE DEF n, words
  <2>6. BlankSoFar'
    BY <2>5 DEF BlankSoFar
  <2>7. ASSUME NEW i \in DOMAIN logical, NEW first,
               first = StripComment(text[logical[i].row])
        PROVE  /\ first # <<>> /\ Len(first) <= Len(logical'[i].words)
               /\ \A k \in DOMAIN first : logical'[i].words[k] = first[k]
    <3>1. /\ first # <<>> /\ Len(first) <= Len(logical[i].words)
          /\ \A k \in DOMAIN first : logical[i].words[k] = first[k]
      BY <1>1, <2>7 DEF LinesFromText
    <3>2. first \in Seq(Word) /\ logical[i].words \in Seq(Word)
      <4>1. logical[i].row \in DOMAIN text
        BY DecksAssumption DEF IInv, LogicalLinesClean, TypeOK
      <4>2. text[logical[i].row] \in Seq(Word)
        BY <1>1, <4>1 DEF TypeOK
      <4>. QED
        BY <2>3, <2>7, <4>2, StripCommentProperties
    <3>3. CASE i # n
      BY <2>5, <3>1, <3>3
    <3>4. CASE i = n
      <4>0. words = logical[i].words \o Tail(Cleaned)
        BY <3>4 DEF words
      <4>1. logical'[i].words = words /\ words \in Seq(Word)
        <5>1. words \in Seq(Word)
          BY <2>2, <3>2, <4>0
        <5>. QED
          BY <2>5, <3>4, <5>1
      <4>2. \A k \in DOMAIN first : k \in DOMAIN logical[i].words
        BY <3>1, <3>2
      <4>. QED
        BY <2>4, <3>1, <3>2, <3>4, <4>1, <4>2
    <3>. QED
      BY <3>3, <3>4
  <2>8. LinesFromText'
    BY <1>1, <2>5, <2>7 DEF LinesFromText
  <2>. QED
    BY <2>6, <2>8 DEF TextInv
<1>7. CASE DanglingContinuation
  BY <1>1, <1>7 DEF DanglingContinuation, TextInv, LinesFromText, BlankSoFar
<1>8. CASE EndOfText
  BY <1>1, <1>8 DEF EndOfText, lexVars, TextInv, LinesFromText, BlankSoFar
<1>. QED
  BY <1>4, <1>5, <1>6, <1>7, <1>8 DEF Reassemble

LEMMA TextInductive == Spec => []TextInv
<1>1. Init => TextInv
  BY DEF Init, TextInv, LinesFromText, BlankSoFar
<1>2. IInv /\ TextInv /\ [Next]_vars => TextInv'
  <2>. SUFFICES ASSUME IInv, TextInv, [Next]_vars PROVE TextInv'
    OBVIOUS
  <2>1. CASE Reassemble
    BY <2>1, TextReassemble
  <2>2. CASE ParseLine \/ Finish \/ UNCHANGED vars
    <3>1. /\ UNCHANGED <<text, row, logical>>
          /\ status # "DanglingContinuation" \/ status' = status
      BY <2>2 DEF ParseLine, OpenSubckt, MissingSubcktName, CloseSubckt, UnexpectedEnds,
           StopAtEnd, RecordDirective, AddToBody, AddToTop, Finish, LoopLeft, ReadLine,
           lexVars, vars
    <3>. QED
      BY <3>1 DEF TextInv, LinesFromText, BlankSoFar
  <2>. QED
    BY <2>1, <2>2 DEF Next
<1>. QED
  BY <1>1, <1>2, Inductive, PTL DEF Spec

(* How the lines and the rows of the text answer for the errors.           *)
LEMMA OutcomeParse ==
  IInv /\ BlockInv /\ TextInv /\ ParseLine => OutcomeJustified'
<1>. SUFFICES ASSUME IInv, BlockInv, TextInv, ParseLine PROVE OutcomeJustified'
  OBVIOUS
<1>1. TypeOK /\ LogicalLinesClean /\ LinesFromText /\ OpenIsBlock
  BY DEF IInv, TextInv, BlockInv
<1>2. ReadLine
  BY DEF ParseLine, OpenSubckt, MissingSubcktName, CloseSubckt, UnexpectedEnds,
         StopAtEnd, RecordDirective, AddToBody, AddToTop
<1>3. /\ pos < Len(logical) /\ pos' = pos + 1 /\ status = "parse" /\ pos \in Nat
      /\ logical' = logical /\ text' = text /\ pos + 1 \in DOMAIN logical
  BY <1>1, <1>2 DEF ReadLine, lexVars, TypeOK
<1>4. Line.words \in Card /\ Line.row \in DOMAIN text /\ Line = logical[pos + 1]
  BY <1>1, <1>3, LineProperties DEF Line, TypeOK
<1>5. \A i : LeadOf(i)' = LeadOf(i) /\ BlockOf(i)' = BlockOf(i)
  BY <1>3, LinesStay
<1>6. /\ LeadOf(pos)' = LeadOf(pos + 1) /\ BlockOf(pos)' = BlockOf(pos + 1)
      /\ LeadOf(pos + 1) = Head(Line.words).lead
  <2>1. \A i : i = pos' => LeadOf(pos)' = LeadOf(i)' /\ BlockOf(pos)' = BlockOf(i)'
    OBVIOUS
  <2>. QED
    BY <1>3, <1>5, <2>1 DEF LeadOf, Line
<1>7. PICK first \in Seq(Word) :
        /\ first = StripComment(text[Line.row]) /\ first # <<>>
        /\ Len(first) <= Len(Line.words)
        /\ \A k \in DOMAIN first : Line.words[k] = first[k]
  <2>1. text[Line.row] \in Seq(Word)
    BY <1>1, <1>4 DEF TypeOK
  <2>. QED
    BY <1>1, <1>3, <2>1, StripCommentProperties DEF LinesFromText, Line
<1>8. Line.words \in Seq(Word) /\ Line.words # <<>> /\ Head(first) = Head(Line.words)
  <2>1. Line.words \in Seq(Word) /\ Line.words # <<>>
    BY <1>4 DEF Card
  <2>2. 1 \in DOMAIN first /\ Head(first) = first[1] /\ Head(Line.words) = Line.words[1]
    BY <1>7, <2>1
  <2>. QED
    BY <1>7, <2>1, <2>2
<1>9. CASE MissingSubcktName
  <2>1. /\ status' = "MissingSubcktName" /\ errorRow' = Line.row
        /\ LineLead = "subckt" /\ Tail(Line.words) = <<>>
    BY <1>9 DEF MissingSubcktName
  <2>2. Len(Line.words) = 1
    <3>1. ASSUME NEW w \in Seq(Word), w # <<>>, Tail(w) = <<>>
          PROVE  Len(w) = 1
      <4>1. ASSUME NEW v, v = Tail(w)
            PROVE  Len(v) = Len(w) - 1 /\ Len(w) \in Nat
        BY <3>1, <4>1
      <4>2. ASSUME NEW v, v = <<>>
            PROVE  Len(v) = 0
        BY <4>2
      <4>3. ASSUME NEW v, v = Tail(w), v = <<>>
            PROVE  Len(w) = 1
        <5>1. Len(v) = Len(w) - 1 /\ Len(w) \in Nat
          BY <4>1, <4>3, Zenon
        <5>2. Len(v) = 0
          BY <4>2, <4>3, Zenon
        <5>. QED
          BY <5>1, <5>2
      <4>. QED
        BY <3>1, <4>3, Zenon
    <3>. QED
      BY <1>8, <2>1, <3>1
  <2>3. first = Line.words
    <3>1. Len(first) = 1 /\ first[1] = Line.words[1]
      BY <1>7, <1>8, <2>2
    <3>. QED
      BY <1>8, <2>2, <3>1
  <2>4. StripComment(text'[errorRow']) = logical'[pos'].words
    BY <1>3, <1>4, <1>7, <2>1, <2>3
  <2>5. LeadOf(pos)' = "subckt" /\ Len(logical'[pos'].words) = 1
    BY <1>3, <1>4, <1>6, <2>1, <2>2 DEF LineLead
  <2>. QED
    BY <2>1, <2>4, <2>5 DEF OutcomeJustified
<1>10. CASE UnexpectedEnds
  <2>1. /\ status' = "UnexpectedEnds" /\ errorRow' = Line.row
        /\ LineLead = "ends" /\ open = NoSubckt
    BY <1>10 DEF UnexpectedEnds
  <2>2. BlockOf(pos + 1) = 0
    BY <1>1, <1>3, <2>1 DEF OpenIsBlock, Errors
  <2>3. LeadOf(pos)' = "ends" /\ BlockOf(pos)' = 0
    BY <1>6, <2>1, <2>2 DEF LineLead
  <2>4. /\ errorRow' = logical'[pos'].row
        /\ Head(StripComment(text'[errorRow'])) = Head(logical'[pos'].words)
    BY <1>3, <1>4, <1>7, <1>8, <2>1
  <2>. QED
    BY <2>1, <2>3, <2>4 DEF OutcomeJustified
<1>11. CASE ~ MissingSubcktName /\ ~ UnexpectedEnds
  <2>1. status' \in {"parse", "ended"}
    BY <1>3, <1>11 DEF ParseLine, OpenSubckt, CloseSubckt, StopAtEnd, RecordDirective,
                       AddToBody, AddToTop, netVars
  <2>. QED
    BY <2>1 DEF OutcomeJustified
<1>. QED
  BY <1>9, <1>10, <1>11

LEMMA OutcomeNext ==
  IInv /\ BlockInv /\ TextInv /\ OutcomeJustified /\ [Next]_vars => OutcomeJustified'
<1>. SUFFICES ASSUME IInv, BlockInv, TextInv, OutcomeJustified, [Next]_vars
              PROVE  OutcomeJustified'
  OBVIOUS
<1>1. CASE DanglingContinuation
  <2>1. /\ status = "lex" /\ logical = <<>> /\ row' = row + 1 /\ text' = text
        /\ status' = "DanglingContinuation" /\ errorRow' = row + 1
    BY <1>1 DEF DanglingContinuation, ReadRow
  <2>2. \A r \in 1 .. row : StripComment(text[r]) = <<>>
    BY <2>1 DEF TextInv, BlankSoFar
  <2>3. row' - 1 = row
    BY <2>1 DEF IInv, TypeOK
  <2>4. \A r \in 1 .. row' - 1 : StripComment(text'[r]) = <<>>
    BY <2>1, <2>2, <2>3
  <2>. QED
    BY <2>1, <2>4 DEF OutcomeJustified
<1>2. CASE SkipBlank \/ StartLogical \/ Continue \/ EndOfText
  <2>1. status' \in {"lex", "parse"}
    BY <1>2 DEF SkipBlank, StartLogical, Continue, EndOfText, ReadRow
  <2>. QED
    BY <2>1 DEF OutcomeJustified
<1>3. CASE ParseLine
  BY <1>3, OutcomeParse
<1>4. CASE Finish
  <2>1. /\ UNCHANGED <<logical, pos, open, top, defs>> /\ status \in {"parse", "ended"}
        /\ status' = IF open = NoSubckt THEN "ok" ELSE "UnterminatedSubckt"
    BY <1>4 DEF Finish, LoopLeft, lexVars, netVars
  <2>2. status \notin Errors /\ status' # "lex"
    BY <2>1 DEF Errors
  <2>3. OpenIsBlock' /\ MarksMatch'
    BY <2>1, <2>2, BlocksStay DEF BlockInv
  <2>4. status' = "ok" => open' = NoSubckt /\ status' \notin Errors
    BY <2>1 DEF Errors
  <2>5. CASE status' = "ok"
    <3>1. BlockOf(pos + 1)' = 0
      BY <2>3, <2>4, <2>5 DEF OpenIsBlock
    <3>2. /\ \A i \in 1 .. pos' : LeadOf(i)' = "ends" => BlockOf(i)' # 0
          /\ \A h \in Headers' : Len(logical'[h].words) > 1
      BY <2>3, <2>4, <2>5 DEF MarksMatch
    <3>. QED
      BY <2>5, <3>1, <3>2 DEF OutcomeJustified
  <2>6. CASE status' # "ok"
    <3>1. BlockOf(pos + 1) # 0 /\ status' = "UnterminatedSubckt"
      BY <2>1, <2>2, <2>6 DEF BlockInv, OpenIsBlock
    <3>2. \A i : LeadOf(i)' = LeadOf(i)
      BY <2>1 DEF LeadOf
    <3>3. BlockOf(pos + 1)' = BlockOf(pos + 1)
      BY <2>1, <3>2 DEF BlockOf
    <3>. QED
      BY <3>1, <3>3 DEF OutcomeJustified
  <2>. QED
    BY <2>5, <2>6
<1>5. CASE UNCHANGED vars
  <2>1. UNCHANGED <<text, row, logical, pos, status, errorRow>>
    BY <1>5 DEF vars
  <2>2. \A i : LeadOf(i)' = LeadOf(i)
    BY <2>1 DEF LeadOf
  <2>3. Headers' = Headers /\ \A i : BlockOf(i)' = BlockOf(i)
    BY <2>1, <2>2 DEF BlockOf, Headers
  <2>4. BlockOf(pos)' = BlockOf(pos) /\ BlockOf(pos + 1)' = BlockOf(pos + 1)
        /\ LeadOf(pos)' = LeadOf(pos)
    BY <2>1, <2>2, <2>3 DEF BlockOf, LeadOf
  <2>. QED
    BY <2>1, <2>2, <2>3, <2>4 DEF OutcomeJustified
<1>. QED
  BY <1>1, <1>2, <1>3, <1>4, <1>5 DEF Next, Reassemble

(* Every outcome is the one that the text calls for: an error is at the    *)
(* row where the offending line began, a deck that is accepted has no      *)
(* unmatched `.ends`, no nameless header and no block left open.           *)
THEOREM OutcomeCorrect == Spec => []OutcomeJustified
<1>1. Init => OutcomeJustified
  BY DEF Init, OutcomeJustified
<1>. QED
  BY <1>1, OutcomeNext, Inductive, BlockInductive, TextInductive, PTL DEF Spec

----------------------------------------------------------------------------
(* What the first pass keeps of the text.                                  *)

\* The words of a row that are no comment and no continuation mark.
Content(r) ==
  LET line == StripComment(text[r])
  IN  IF line # <<>> /\ Head(line).lead = "plus" THEN Tail(line) ELSE line

WordsOfLines == [i \in DOMAIN logical |-> logical[i].words]
WordsOfRows  == [r \in 1 .. row |-> Content(r)]

\* Words put at the end of the last line come after all others.
LEMMA FlattenExtend ==
  ASSUME NEW S, NEW seqs \in Seq(Seq(S)), seqs # <<>>, NEW t \in Seq(S), NEW more,
         more = [seqs EXCEPT ![Len(seqs)] = @ \o t]
  PROVE  FlattenSeq(more) = FlattenSeq(seqs) \o t
<1>. DEFINE n     == Len(seqs) - 1
            front == SubSeq(seqs, 1, n)
            last  == seqs[n + 1]
            new   == last \o t
<1>1. n \in Nat /\ n + 1 = Len(seqs) /\ last \in Seq(S)
  OBVIOUS
<1>. HIDE DEF n
<1>2. front \in Seq(Seq(S)) /\ Len(front) = n /\ \A i \in 1 .. n : front[i] = seqs[i]
  BY <1>1
<1>3. new \in Seq(S)
  <2>. HIDE DEF last
  <2>. QED
    BY <1>1
<1>4. /\ more \in Seq(Seq(S)) /\ Len(more) = n + 1 /\ more[n + 1] = new
      /\ \A i \in 1 .. n : more[i] = seqs[i]
  <2>1. more = [seqs EXCEPT ![n + 1] = new]
    BY <1>1
  <2>. HIDE DEF new
  <2>. QED
    BY <1>1, <1>3, <2>1
<1>. HIDE DEF front, last, new
<1>5. ASSUME NEW x \in Seq(Seq(S)), Len(x) = n + 1, \A i \in 1 .. n : x[i] = seqs[i]
      PROVE  x = Append(front, x[n + 1])
  <2>1. /\ x[n + 1] \in Seq(S) /\ Append(front, x[n + 1]) \in Seq(Seq(S))
        /\ Len(Append(front, x[n + 1])) = n + 1
    BY <1>1, <1>2, <1>5
  <2>2. \A i \in 1 .. n + 1 : x[i] = Append(front, x[n + 1])[i]
    BY <1>1, <1>2, <1>5, <2>1
  <2>. QED
    BY <1>5, <2>1, <2>2
<1>6. more = Append(front, new)
  BY <1>4, <1>5
<1>7. seqs = Append(front, last)
  BY <1>1, <1>5 DEF last
<1>8. /\ FlattenSeq(seqs) = FlattenSeq(front) \o last
      /\ FlattenSeq(front) \in Seq(S)
  BY <1>1, <1>2, <1>7, FlattenAppend
<1>9. FlattenSeq(more) = FlattenSeq(front) \o new
  BY <1>2, <1>3, <1>6, FlattenAppend
<1>10. \A a, b, c \in Seq(S) : (a \o b) \o c = a \o (b \o c)
  BY SMTT(20)
<1>11. (FlattenSeq(front) \o last) \o t = FlattenSeq(front) \o new
  BY <1>1, <1>8, <1>10 DEF new
<1>. QED
  BY <1>8, <1>9, <1>11, Zenon

\* The words that the rows hold, when one more has been read.
LEMMA RowRead ==
  ASSUME IInv, row < Len(text), row' = row + 1, text' = text
  PROVE  /\ WordsOfRows \in Seq(Seq(Word)) /\ Content(row + 1) \in Seq(Word)
         /\ FlattenSeq(WordsOfRows)' = FlattenSeq(WordsOfRows) \o Content(row + 1)
         /\ FlattenSeq(WordsOfRows) \in Seq(Word)
<1>1. row \in Nat /\ \A r \in 1 .. row + 1 : text[r] \in Seq(Word)
  BY DecksAssumption DEF IInv, TypeOK
<1>2. ASSUME NEW r \in 1 .. row + 1
      PROVE  Content(r) \in Seq(Word)
  <2>1. StripComment(text[r]) \in Seq(Word)
    BY <1>1, StripCommentProperties
  <2>2. ASSUME NEW w \in Seq(Word), w # <<>>
        PROVE  Tail(w) \in Seq(Word)
    BY <2>2
  <2>. QED
    BY <2>1, <2>2 DEF Content
<1>3. \A r : Content(r)' = Content(r)
  BY DEF Content
<1>4. WordsOfRows \in Seq(Seq(Word))
  BY <1>1, <1>2 DEF WordsOfRows
<1>5. WordsOfRows' = Append(WordsOfRows, Content(row + 1))
  <2>1. WordsOfRows' = [r \in 1 .. row + 1 |-> Content(r)]
    BY <1>3 DEF WordsOfRows
  <2>2. Append([r \in 1 .. row |-> Content(r)], Content(row + 1))
          = [r \in 1 .. row + 1 |-> Content(r)]
    BY <1>1, <1>2
  <2>. QED
    BY <2>1, <2>2 DEF WordsOfRows
<1>6. FlattenSeq(WordsOfRows)' = FlattenSeq(Append(WordsOfRows, Content(row + 1)))
  BY <1>5
<1>7. Content(row + 1) \in Seq(Word)
  BY <1>1, <1>2
<1>. QED
  BY <1>4, <1>6, <1>7, FlattenAppend

LEMMA WordsNext == IInv /\ WordsKept /\ [Next]_vars => WordsKept'
<1>. SUFFICES ASSUME IInv, WordsKept, [Next]_vars PROVE WordsKept'
  OBVIOUS
<1>1. WordsKept <=> (status # "DanglingContinuation" =>
                       FlattenSeq(WordsOfLines) = FlattenSeq(WordsOfRows))
  BY DEF WordsKept, WordsOfLines, WordsOfRows, Content
<1>2. WordsKept' <=> (status' # "DanglingContinuation" =>
                       FlattenSeq(WordsOfLines)' = FlattenSeq(WordsOfRows)')
  BY DEF WordsKept, WordsOfLines, WordsOfRows, Content
<1>3. TypeOK /\ logical \in Seq(LogicalLine) /\ WordsOfLines \in Seq(Seq(Word))
  <2>1. TypeOK /\ logical \in Seq(LogicalLine)
    BY DEF IInv, TypeOK
  <2>2. \A i \in DOMAIN logical : logical[i] \in LogicalLine
    BY <2>1
  <2>3. \A i \in DOMAIN logical : logical[i].words \in Seq(Word)
    BY <2>2 DEF LogicalLine, Card
  <2>. QED
    BY <2>1, <2>3 DEF WordsOfLines
<1>4. CASE SkipBlank
  <2>1. /\ row < Len(text) /\ row' = row + 1 /\ text' = text /\ logical' = logical
        /\ status # "DanglingContinuation" /\ Cleaned = <<>>
    BY <1>4 DEF SkipBlank, ReadRow
  <2>2. Content(row + 1) = <<>>
    BY <2>1 DEF Content, Cleaned
  <2>3. FlattenSeq(WordsOfRows)' = FlattenSeq(WordsOfRows)
    BY <2>1, <2>2, RowRead
  <2>4. FlattenSeq(WordsOfLines)' = FlattenSeq(WordsOfLines)
    BY <2>1 DEF WordsOfLines
  <2>. QED
    BY <1>1, <1>2, <2>1, <2>3, <2>4
<1>5. CASE StartLogical
  <2>1. /\ row < Len(text) /\ row' = row + 1 /\ text' = text
        /\ logical' = Append(logical, [words |-> Cleaned, row |-> row + 1])
        /\ status # "DanglingContinuation"
        /\ Cleaned # <<>> /\ Head(Cleaned).lead # "plus"
    BY <1>5 DEF StartLogical, ReadRow
  <2>2. Content(row + 1) = Cleaned
    BY <2>1 DEF Content, Cleaned
  <2>3. /\ FlattenSeq(WordsOfRows)' = FlattenSeq(WordsOfRows) \o Cleaned
        /\ Cleaned \in Seq(Word)
    BY <2>1, <2>2, RowRead
  <2>4. WordsOfLines' = Append(WordsOfLines, Cleaned)
    <3>. DEFINE new == [words |-> Cleaned, row |-> row + 1]
    <3>1. new.words = Cleaned
      OBVIOUS
    <3>. HIDE DEF new
    <3>2. /\ DOMAIN logical' = 1 .. Len(logical) + 1 /\ logical'[Len(logical) + 1] = new
          /\ \A i \in 1 .. Len(logical) : logical'[i] = logical[i]
      BY <1>3, <2>1 DEF new
    <3>3. /\ Append(WordsOfLines, Cleaned) \in Seq(Seq(Word))
          /\ Len(Append(WordsOfLines, Cleaned)) = Len(logical) + 1
          /\ Append(WordsOfLines, Cleaned)[Len(logical) + 1] = Cleaned
          /\ \A i \in 1 .. Len(logical) :
               Append(WordsOfLines, Cleaned)[i] = logical[i].words
      BY <1>3, <2>3 DEF WordsOfLines
    <3>4. WordsOfLines' = [i \in 1 .. Len(logical) + 1 |-> logical'[i].words]
      BY <3>2 DEF WordsOfLines
    <3>5. \A i \in 1 .. Len(logical) + 1 :
            logical'[i].words = Append(WordsOfLines, Cleaned)[i]
      BY <3>1, <3>2, <3>3
    <3>6. ASSUME NEW w \in Seq(Seq(Word)), Len(w) = Len(logical) + 1
          PROVE  w = [i \in 1 .. Len(logical) + 1 |-> w[i]]
      BY <1>3, <3>6
    <3>. HIDE DEF new
    <3>. QED
      BY <3>3, <3>4, <3>5, <3>6
  <2>5. FlattenSeq(WordsOfLines)' = FlattenSeq(WordsOfLines) \o Cleaned
    <3>1. FlattenSeq(WordsOfLines)' = FlattenSeq(Append(WordsOfLines, Cleaned))
      BY <2>4
    <3>. QED
      BY <1>3, <2>3, <3>1, FlattenAppend
  <2>. QED
    BY <1>1, <1>2, <2>1, <2>3, <2>5
<1>6. CASE Continue
  <2>. DEFINE n == Len(logical)
              t == Tail(Cleaned)
  <2>1. /\ row < Len(text) /\ row' = row + 1 /\ text' = text /\ logical # <<>>
        /\ logical' = [logical EXCEPT ![n].words = @ \o t]
        /\ status # "DanglingContinuation"
        /\ Cleaned # <<>> /\ Head(Cleaned).lead = "plus"
    BY <1>6 DEF Continue, ReadRow
  <2>2. Content(row + 1) = t
    BY <2>1 DEF Content, Cleaned
  <2>3. /\ FlattenSeq(WordsOfRows)' = FlattenSeq(WordsOfRows) \o t
        /\ t \in Seq(Word)
    BY <2>1, <2>2, RowRead
  <2>. HIDE DEF t
  <2>4. /\ WordsOfLines' = [WordsOfLines EXCEPT ![Len(WordsOfLines)] = @ \o t]
        /\ WordsOfLines # <<>>
    <3>1. /\ DOMAIN logical' = DOMAIN logical /\ n \in DOMAIN logical
          /\ \A i \in DOMAIN logical :
               logical'[i].words = IF i = n THEN logical[i].words \o t
                                   ELSE logical[i].words
      BY <1>3, <2>1 DEF LogicalLine
    <3>2. Len(WordsOfLines) = n /\ DOMAIN WordsOfLines = DOMAIN logical
      BY <1>3 DEF WordsOfLines
    <3>3. WordsOfLines' = [i \in DOMAIN logical |-> IF i = n THEN logical[i].words \o t
                                                    ELSE logical[i].words]
      BY <3>1 DEF WordsOfLines
    <3>. HIDE DEF n
    <3>4. [WordsOfLines EXCEPT ![n] = @ \o t]
            = [i \in DOMAIN logical |-> IF i = n THEN logical[i].words \o t
                                        ELSE logical[i].words]
      BY DEF WordsOfLines
    <3>. QED
      BY <3>1, <3>2, <3>3, <3>4
  <2>5. FlattenSeq(WordsOfLines)' = FlattenSeq(WordsOfLines) \o t
    <3>1. ASSUME NEW more, more = [WordsOfLines EXCEPT ![Len(WordsOfLines)] = @ \o t]
          PROVE  FlattenSeq(more) = FlattenSeq(WordsOfLines) \o t
      BY <1>3, <2>3, <2>4, <3>1, FlattenExtend
    <3>. QED
      BY <2>4, <3>1
  <2>. QED
    BY <1>1, <1>2, <2>1, <2>3, <2>5
<1>7. CASE DanglingContinuation
  BY <1>2, <1>7 DEF DanglingContinuation
<1>8. CASE EndOfText \/ ParseLine \/ Finish \/ UNCHANGED vars
  <2>1. /\ UNCHANGED <<text, row, logical>>
        /\ status # "DanglingContinuation" \/ status' = status
    BY <1>8 DEF ParseLine, OpenSubckt, MissingSubcktName, CloseSubckt, UnexpectedEnds,
         StopAtEnd, RecordDirective, AddToBody, AddToTop, Finish, LoopLeft, ReadLine,
         EndOfText, lexVars, vars
  <2>2. /\ FlattenSeq(WordsOfLines)' = FlattenSeq(WordsOfLines)
        /\ FlattenSeq(WordsOfRows)' = FlattenSeq(WordsOfRows)
    BY <2>1 DEF WordsOfLines, WordsOfRows, Content
  <2>. QED
    BY <1>1, <1>2, <2>1, <2>2
<1>. QED
  BY <1>4, <1>5, <1>6, <1>7, <1>8 DEF Next, Reassemble

(* Reassembly keeps every word outside of the comments, in the order of    *)
(* the text, and drops nothing but the continuation marks.                 *)
THEOREM WordsCorrect == Spec => []WordsKept
<1>1. Init => WordsKept
  <2>. SUFFICES ASSUME Init PROVE WordsKept
    OBVIOUS
  <2>1. logical = <<>> /\ row = 0
    BY DEF Init
  <2>2. WordsOfLines = <<>>
    BY <2>1 DEF WordsOfLines
  <2>3. WordsOfRows = <<>>
    BY <2>1 DEF WordsOfRows
  <2>4. WordsKept <=> (status # "DanglingContinuation" =>
                         FlattenSeq(WordsOfLines) = FlattenSeq(WordsOfRows))
    BY DEF WordsKept, WordsOfLines, WordsOfRows, Content
  <2>. QED
    BY <2>2, <2>3, <2>4
<1>. QED
  BY <1>1, WordsNext, Inductive, PTL DEF Spec

----------------------------------------------------------------------------
(* Both passes run out *)

\* The steps that are left: rows to be reassembled, then lines to be parsed.
StepsLeft ==
  CASE status = "lex"   -> (2 * Len(text) + 3) - row
    [] status = "parse" -> (Len(logical) - pos) + 2
    [] status = "ended" -> 1
    [] OTHER -> 0

\* No row begins two lines.
LinesWithinRows == row <= Len(text) /\ Len(logical) <= row

LEMMA StepsCounted ==
  ASSUME IInv, LinesWithinRows
  PROVE  /\ StepsLeft \in 0 .. 2 * Len(text) + 3
         /\ Len(text) \in Nat /\ Len(logical) \in Nat /\ row \in Nat /\ pos \in 0 .. Len(logical)
<1>1. /\ Len(text) \in Nat /\ Len(logical) \in Nat /\ row \in 0 .. Len(text)
      /\ pos \in 0 .. Len(logical)
  BY LenProperties DEF IInv, TypeOK
<1>2. QED
  BY <1>1 DEF StepsLeft, LinesWithinRows

LEMMA StepsShrink ==
  ASSUME IInv, IInv', LinesWithinRows, Next
  PROVE  LinesWithinRows' /\ StepsLeft' < StepsLeft
<1>1. /\ Len(text) \in Nat /\ Len(logical) \in Nat /\ row \in Nat /\ pos \in 0 .. Len(logical)
      /\ row <= Len(text) /\ Len(logical) <= row
  BY StepsCounted DEF LinesWithinRows
<1>2. logical \in Seq(LogicalLine)
  BY DEF IInv, TypeOK
<1>3. CASE ReadRow /\ UNCHANGED <<text, status>> /\ Len(logical') \in {Len(logical), Len(logical) + 1}
  BY <1>1, <1>3 DEF ReadRow, LinesWithinRows, StepsLeft
<1>4. CASE SkipBlank
  BY <1>1, <1>3, <1>4 DEF SkipBlank
<1>5. CASE StartLogical
  <2>1. Len(logical') = Len(logical) + 1
    BY <1>2, <1>5 DEF StartLogical
  <2>2. QED
    BY <1>3, <1>5, <2>1 DEF StartLogical
<1>6. CASE Continue
  <2>1. Len(logical') = Len(logical)
    BY <1>2, <1>6 DEF Continue
  <2>2. QED
    BY <1>3, <1>6, <2>1 DEF Continue
<1>7. CASE DanglingContinuation
  <2>1. /\ status = "lex" /\ row < Len(text) /\ row' = row + 1
        /\ status' = "DanglingContinuation" /\ UNCHANGED <<text, logical>>
    BY <1>7 DEF DanglingContinuation, ReadRow
  <2>2. QED
    BY <1>1, <2>1 DEF LinesWithinRows, StepsLeft
<1>8. CASE EndOfText
  BY <1>1, <1>8 DEF EndOfText, lexVars, LinesWithinRows, StepsLeft
<1>9. CASE ParseLine
  <2>1. /\ status = "parse" /\ pos < Len(logical) /\ pos' = pos + 1
        /\ UNCHANGED <<text, row, logical>>
        /\ status' \in {"parse", "ended", "MissingSubcktName", "UnexpectedEnds"}
    BY <1>9 DEF ParseLine, OpenSubckt, MissingSubcktName, CloseSubckt, UnexpectedEnds, StopAtEnd,
         RecordDirective, AddToBody, AddToTop, ReadLine, lexVars
  <2>2. QED
    BY <1>1, <2>1 DEF LinesWithinRows, StepsLeft
<1>10. CASE Finish
  <2>1. /\ status \in {"parse", "ended"} /\ status' \in {"ok", "UnterminatedSubckt"}
        /\ UNCHANGED <<text, row, logical, pos>>
    BY <1>10 DEF Finish, LoopLeft, lexVars
  <2>2. QED
    BY <1>1, <2>1 DEF LinesWithinRows, StepsLeft
<1>11. QED
  BY <1>4, <1>5, <1>6, <1>7, <1>8, <1>9, <1>10 DEF Next, Reassemble

(* A text of n rows is read in at most 2 * n + 3 steps: each step of either *)
(* loop of reassemble and parse leaves fewer (spice.rs:163-222, 376-407).   *)
THEOREM PassesRunOut ==
  Spec => [](StepsLeft \in 0 .. 2 * Len(text) + 3) /\ [][StepsLeft' < StepsLeft]_vars
<1> DEFINE Bounded == StepsLeft \in 0 .. 2 * Len(text) + 3
           Shrinks == StepsLeft' < StepsLeft
<1>1. Init => LinesWithinRows
  <2>1. Init => Len(text) \in Nat
    BY InitIInv, LenProperties DEF IInv, TypeOK
  <2>2. QED
    BY <2>1 DEF Init, LinesWithinRows
<1>2. IInv /\ IInv' /\ LinesWithinRows /\ [Next]_vars => LinesWithinRows' /\ [Shrinks]_vars
  <2>1. CASE UNCHANGED vars
    BY <2>1 DEF vars, lexVars, LinesWithinRows
  <2>2. CASE Next
    BY <2>2, StepsShrink
  <2>3. QED
    BY <2>1, <2>2
<1>3. IInv /\ LinesWithinRows => Bounded
  BY StepsCounted
<1> HIDE DEF Bounded, Shrinks
<1>4. Spec => []Bounded /\ [][Shrinks]_vars
  BY <1>1, <1>2, <1>3, Inductive, PTL DEF Spec
<1>5. QED
  BY <1>4 DEF Bounded, Shrinks

====
