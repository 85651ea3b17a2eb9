------------------------------ MODULE LogOutput ------------------------------
(***************************************************************************)
(* How the page of a job renders the collection of its log: VxLib.LogOutput*)
(* keeps a position in the collection and hands what is new, fragment by   *)
(* fragment, to the callback of the directive appTaskOutput, which makes   *)
(* the lines.  JobLogs has the collection and the events that change it.   *)
(*                                                                         *)
(* A chunk is a sequence of characters: text, a newline (NL), a carriage   *)
(* return (CR).  A line of the screen is its text; colours, backspaces and *)
(* the escape sequences that normalize and ansiparse drop are left out.    *)
(***************************************************************************)
EXTENDS Naturals, SequencesExt

CONSTANTS
    Text,   \* characters
    NL, CR,
    None

ASSUME CharactersAssumption == NL # CR /\ {NL, CR} \cap Text = {}

Chars == Text \cup {NL, CR}

-----------------------------------------------------------------------------
(* VxLib.LogOutput: its fields, with the lines its callback has made.       *)

\* reset
Reset == [position |-> 0, replace |-> FALSE, begin |-> TRUE, lines |-> <<>>]

NewLine(out) == [out EXCEPT !.lines = Append(@, <<>>), !.replace = FALSE]

\* callback of "replace" and "append", on the last line.
Write(out, fragment) ==
    [out EXCEPT
        !.lines[Len(out.lines)] = IF out.replace THEN fragment ELSE @ \o fragment,
        !.replace = FALSE]

\* \r\n is a newline.
DropReturns(chars) ==
    FoldLeft(LAMBDA done, c : IF c = NL /\ done # <<>> /\ Last(done) = CR
                              THEN Append(Front(done), NL) ELSE Append(done, c),
             <<>>, chars)

\* \r\r is one carriage return, from left to right.
PairReturns(chars) ==
    FoldLeft(LAMBDA r, c : IF c = CR /\ r.odd THEN [r EXCEPT !.odd = FALSE]
                           ELSE [done |-> Append(r.done, c), odd |-> c = CR],
             [done |-> <<>>, odd |-> FALSE], chars).done

\* normalize
Normalize(chars) == PairReturns(DropReturns(chars))

\* extractFragments and processFragments.  What is between two separators is a
\* fragment; an empty one is dropped at the end of a line, not before a \r.
ProcessFragments(out, chars) ==
    LET flush(r) == IF r.text = <<>> THEN r.out ELSE Write(r.out, r.text)
        step(r, c) ==
            IF c = NL THEN [out |-> NewLine(flush(r)), text |-> <<>>]
            ELSE IF c = CR
            THEN [out |-> [Write(r.out, r.text) EXCEPT !.replace = TRUE], text |-> <<>>]
            ELSE [r EXCEPT !.text = Append(@, c)]
        begun == IF out.begin THEN [NewLine(out) EXCEPT !.begin = FALSE] ELSE out
    IN  flush(FoldLeft(step, [out |-> begun, text |-> <<>>], chars))

\* process: what was added to the collection since.
Process(out, log) ==
    IF log = <<>> \/ out.position = Len(log) THEN out
    ELSE LET added == Normalize(FlattenSeq(SubSeq(log, out.position + 1, Len(log))))
         IN  [ProcessFragments(out, added) EXCEPT !.position = Len(log)]

-----------------------------------------------------------------------------
(* appTaskOutput *)

\* Variant: the truncation is not noticed.
UpdateLinesOnly(shown, log) ==
    IF Len(log) = 0 /\ shown.seen = None THEN [shown EXCEPT !.seen = 0]
    ELSE [shown EXCEPT
            !.seen = Len(log),
            !.output = Process(IF @ = None THEN Reset ELSE @, log)]

\* updateLines, the listener of $watch.
UpdateLines(shown, log) ==
    IF Len(log) = 0 /\ shown.seen = None THEN [shown EXCEPT !.seen = 0]
    ELSE [shown EXCEPT
            !.seen = Len(log),
            !.output = Process(IF @ = None \/ @.position > Len(log) THEN Reset ELSE @, log)]

\* $watch('collection.length')
Digest(shown, log) ==
    IF shown.stage = "open" /\ shown.seen # Len(log) THEN UpdateLines(shown, log)
    ELSE shown

Closed == [stage |-> "closed", seen |-> None, output |-> None]

-----------------------------------------------------------------------------
\* What a terminal shows: a text after a carriage return takes the place of the
\* line.
Terminal(chars) ==
    LET step(t, c) ==
            IF c = NL THEN [lines |-> Append(t.lines, <<>>), returned |-> FALSE]
            ELSE IF c = CR THEN [t EXCEPT !.returned = TRUE]
            ELSE [lines |-> Append(Front(t.lines),
                                   IF t.returned THEN <<c>> ELSE Append(Last(t.lines), c)),
                  returned |-> FALSE]
    IN  IF chars = <<>> THEN <<>>
        ELSE FoldLeft(step, [lines |-> << <<>> >>, returned |-> FALSE], chars).lines

Returns(chars) == \E i \in 1..(Len(chars) - 1) : chars[i] = CR /\ chars[i + 1] = CR

\* What is on the screen is what a terminal would show.  Only after several
\* carriage returns in a row a line may be blank that a terminal leaves.
Renders(lines, chars) ==
    LET expected == Terminal(chars) IN
    IF Returns(chars)
    THEN /\ Len(lines) = Len(expected)
         /\ \A i \in 1..Len(expected) : lines[i] \in {expected[i], <<>>}
    ELSE lines = expected
=============================================================================
