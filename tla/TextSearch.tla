------------------------------ MODULE TextSearch ------------------------------
(***************************************************************************)
(* hyprpilot-vision/src/ocr.rs: the words of tesseract's table (parse_tsv) *)
(* and the runs of them that spell a query (find_word_runs), with the      *)
(* boxes of capture.rs.  find_text_position answers with these boxes and   *)
(* click_text presses at the centre of one.                                *)
(*                                                                         *)
(* Coordinates are small numbers, far from where i32 saturates.            *)
(***************************************************************************)
EXTENDS Integers, Sequences, SequencesExt, FiniteSetsExt

CONSTANTS
    Confidence,  \* min_confidence
    Fold         \* words that differ in case only, each with its lower case

\* A line of the table: its number of columns and its fields, of which the
\* numbers may not parse (numeric) and the text may be blank.
Line(cols, level, conf, text, box) ==
    [cols |-> cols, level |-> level, conf |-> conf, text |-> text, box |-> box,
     numeric |-> TRUE]

BBox(x, y, w, h) == [x |-> x, y |-> y, w |-> w, h |-> h]
Right(b) == b.x + b.w
Bottom(b) == b.y + b.h

\* BBox::union and BBox::center.
UnionBox(a, b) ==
    LET x == Min({a.x, b.x})
        y == Min({a.y, b.y})
    IN  BBox(x, y, Max({Right(a), Right(b)}) - x, Max({Bottom(a), Bottom(b)}) - y)

Centre(b) == [x |-> b.x + b.w \div 2, y |-> b.y + b.h \div 2]

-----------------------------------------------------------------------------
\* The lines of parse_tsv that are words: -1 is dropped whatever the threshold.
IsWord(line) ==
    /\ line.cols >= 12
    /\ line.numeric
    /\ line.level = 5
    /\ line.conf >= 0 /\ line.conf >= Confidence
    /\ line.text # ""

ParseTsv(lines) ==
    FlattenSeq([i \in 1..Len(lines) |-> IF IsWord(lines[i]) THEN <<lines[i]>> ELSE <<>>])

SameRow(a, b) == a.y < Bottom(b) /\ b.y < Bottom(a)

Normalize(word, exact) == IF exact \/ word \notin DOMAIN Fold THEN word ELSE Fold[word]

\* Faulty variant: a run may cross rows.
SpellsAnywhere(words, i, query, exact) ==
    \A k \in 1..Len(query) :
        Normalize(words[i + k - 1].text, exact) = Normalize(query[k], exact)

\* The words from i on spell the query, each on the row of the one before it.
Spells(words, i, query, exact) ==
    \A k \in 1..Len(query) :
        /\ Normalize(words[i + k - 1].text, exact) = Normalize(query[k], exact)
        /\ k > 1 => SameRow(words[i + k - 2].box, words[i + k - 1].box)

\* A TextMatch: the box around the run, and the worst confidence in it.
Match(run) ==
    LET box[k \in 1..Len(run)] ==
            IF k = 1 THEN run[1].box ELSE UnionBox(box[k - 1], run[k].box)
    IN  [at   |-> run,
         box  |-> box[Len(run)],
         conf |-> Min({run[k].conf : k \in 1..Len(run)})]

\* find_word_runs, for the tokens of a query.
FindWordRuns(words, query, exact) ==
    IF query = <<>> \/ Len(words) < Len(query) THEN <<>>
    ELSE FlattenSeq([i \in 1..(Len(words) - Len(query) + 1) |->
             IF Spells(words, i, query, exact)
             THEN <<Match(SubSeq(words, i, i + Len(query) - 1))>> ELSE <<>>])

-----------------------------------------------------------------------------
(* Properties.                                                             *)

\* The place click_text presses for a match is at the height of one of its
\* words, never between two rows, and the box holds all of them
\* (ocr.rs:254-256 "one tall bbox whose centre clicks empty space between").
Clickable(match) ==
    /\ \E k \in DOMAIN match.at :
           /\ match.at[k].box.y <= Centre(match.box).y
           /\ Centre(match.box).y < Bottom(match.at[k].box)
    /\ \A k \in DOMAIN match.at :
           /\ match.box.x <= match.at[k].box.x /\ Right(match.at[k].box) <= Right(match.box)
           /\ match.box.y <= match.at[k].box.y /\ Bottom(match.at[k].box) <= Bottom(match.box)
           /\ match.at[k].conf >= match.conf

\* The lines of a table, whose words have a height.
Table(lines) ==
    /\ lines \in Seq([cols : Int, level : Int, conf : Int, text : STRING, numeric : BOOLEAN,
                      box : [x : Int, y : Int, w : Nat, h : Nat]])
    /\ \A i \in 1..Len(lines) : IsWord(lines[i]) => lines[i].box.h > 0

\* Lines a..b of a table spell the query, all of them read with confidence,
\* none left out.
SpelledOut(lines, a, query, exact) ==
    /\ a + Len(query) - 1 <= Len(lines)
    /\ \A k \in 1..Len(query) : IsWord(lines[a + k - 1])
    /\ Spells(lines, a, query, exact)
=============================================================================
