-------------------------- MODULE MCEvaluation --------------------------
(***************************************************************************)
(* Constants of the instance of Evaluation.                                *)
(***************************************************************************)
EXTENDS Evaluation

Line(kind, id, category) == [kind |-> kind, id |-> id, category |-> category]
Blank == Line("blank", "", "")

\* Three samples in two categories of which two ids coincide, one sample beside a blank
\* line, and files that are refused by the agent (an id twice, no sample, no object, a sample or
\* a category too many) or by the container.
MCRequests ==
    {[a |-> <<Line("sample", "1", "x"), Line("sample", "2", "x")>>,
      b |-> <<Line("sample", "1", "x")>>],
     [a |-> <<Blank, Line("sample", "1", "x")>>],
     [a |-> <<Line("sample", "1", "x"), Line("sample", "1", "y")>>],
     [a |-> <<Line("sample", "1", "x")>>, b |-> <<Blank>>],
     [a |-> <<Line("sample", "1", "x"), Line("garbage", "2", "x")>>],
     [a |-> [i \in 1..4 |-> Line("sample", <<"1", "2", "3", "4">>[i], "x")]],
     [a |-> [i \in 1..3 |-> Line("sample", <<"1", "2", "3">>[i], <<"x", "y", "z">>[i])]],
     [a |-> <<Line("sample", "1", "x"), Line("unusable", "2", "x")>>]}

MCTemplate == [baseline |-> "base", candidate |-> "instruct"]
=========================================================================
