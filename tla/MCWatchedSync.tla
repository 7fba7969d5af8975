--------------------------- MODULE MCWatchedSync ---------------------------
(* TLC instances of WatchedSync; the number of artists comes from the      *)
(* configurations.                                                         *)
EXTENDS WatchedSync

\* The first gallery does not fit into one run when pages are slow, and leaves
\* the second one less than it needs when they are not.
MCTwoGalleries == <<4, 2>>

MCThreeGalleries == <<1, 2, 3>>
=============================================================================
