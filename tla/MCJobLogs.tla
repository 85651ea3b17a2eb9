------------------------------ MODULE MCJobLogs ------------------------------
(***************************************************************************)
(* Instances of JobLogs for TLC, and VxLib.LogOutput on every short log.   *)
(***************************************************************************)
EXTENDS JobLogs

\* What is hard to cut: a text, a line and the return before its end, the text
\* that replaces it.
MCChunks == {<<"x", CR>>, <<NL, "y">>, <<CR, "z">>}

\* The logs of up to 4 characters, and the ways to cut one in two messages or three.
Logs == UNION {[1..n -> Chars] : n \in 0..4}

CutAt(chars, i, j) ==
    SelectSeq(<<SubSeq(chars, 1, i), SubSeq(chars, i + 1, j), SubSeq(chars, j + 1, Len(chars))>>,
              LAMBDA chunk : chunk # <<>>)

RECURSIVE Fed(_, _, _)
Fed(out, log, n) == IF n > Len(log) THEN out ELSE Fed(Process(out, SubSeq(log, 1, n)), log, n + 1)

\* Fed in any pieces, VxLib.LogOutput makes the lines a terminal would.
ASSUME CutsAssumption ==
    \A chars \in Logs : \A i \in 0..Len(chars) : \A j \in i..Len(chars) :
        Renders(Fed(Reset, CutAt(chars, i, j), 1).lines, chars)
=============================================================================
