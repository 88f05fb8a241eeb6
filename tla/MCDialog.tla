------------------------------ MODULE MCDialog ------------------------------
(***************************************************************************)
(* Every short line as an answer, and lines of three numbers.              *)
(***************************************************************************)
EXTENDS Dialog

CONSTANT AnswerLength

Characters == {1, Comma, Dash, Letter}

ThreeNumbers ==
    {<<a, s, b, t, c>> : a, b, c \in {1, 3}, s, t \in {Comma, Dash}}

SomeAnswers == UNION {[1..n -> Characters] : n \in 0..AnswerLength} \cup ThreeNumbers

\* A command of each kind, a number of two digits and no number at all.
SomeOptions == {<<0>>, <<1>>, <<4>>, <<7>>, <<9>>, <<1, 2>>, <<Letter>>}
=============================================================================
