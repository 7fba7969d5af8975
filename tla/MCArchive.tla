----------------------------- MODULE MCArchive -----------------------------
(* TLC instances of Archive: deviations with one title, two of which share *)
(* the first eight characters of their id; and deviations that may change  *)
(* their titles, whose ids have no such prefix to try.                     *)
EXTENDS Archive, TLC

MCBase == [t \in Title |-> t]

MCSuffixes ==
    [t \in Title |-> [d \in Dev |-> CASE d = 1 -> <<"short", "one">>
                                      [] d = 2 -> <<"short", "two">>
                                      [] d = 3 -> <<"three">>]]

\* The folder of a whole id.
MCOwnNames == [t \in Title |-> [d \in Dev |-> <<d>>]]

\* Titles, ids and workers are told apart by nothing but what happens to them.
FullSymmetry == Permutations(Worker) \cup Permutations(Dev) \cup Permutations(Title)
=============================================================================
