---------------------------- MODULE MCTokenStore ----------------------------
(* TLC instances of TokenStore.  Where every process slot runs the same    *)
(* commands, the slots are interchangeable.                                *)
EXTENDS TokenStore, TLC

CONSTANTS p1, p2   \* the two slots of MCScheduledAndUser

Symmetry == Permutations(Proc)

MCRefreshers == [p \in Proc |-> {"api", "refresh"}]

MCApiAndSync == [p \in Proc |-> {"api", "sync"}]

\* A scheduled sync, and what a user types beside it.
MCScheduledAndUser ==
    [p \in Proc |-> IF p = p1 THEN {"sync"}
                    ELSE {"refresh", "auth", "logout"}]
=============================================================================
