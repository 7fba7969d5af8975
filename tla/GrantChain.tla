----------------------------- MODULE GrantChain -----------------------------
(***************************************************************************)
(* What the token life cycle of da-cli promises (src/dacli/auth.py:84-99): *)
(* a chain of single-use refresh tokens that several processes share.  One *)
(* of them has its turn at a time; it presents only the stored token, and  *)
(* only while the server accepts it; and its turn is not over before the   *)
(* stored token is again the one the server accepts.  How the file is read *)
(* and written, who waits, and what the requests do is TokenStore's.       *)
(***************************************************************************)
CONSTANT Client

VARIABLES
    stored,   \* the refresh token that the next process will present
    accepted, \* the refresh tokens that the server accepts
    turn      \* whose turn it is

chainVars == <<stored, accepted, turn>>

\* Nothing is lost: what is stored works, unless nothing does.
InStep == accepted = {} \/ stored \in accepted

GrantInit ==
    /\ stored = 1
    /\ accepted = {1}
    /\ turn = {}

TakeTurn(c) ==
    /\ turn = {}
    /\ turn' = {c}
    /\ UNCHANGED <<stored, accepted>>

\* The server consumes the stored token and issues a new one.
RotateStored(c) ==
    /\ turn = {c}
    /\ stored \in accepted
    /\ \E new \in accepted' \ accepted : accepted' = (accepted \ {stored}) \cup {new}
    /\ UNCHANGED <<stored, turn>>

\* Something is stored, or nothing needs to be.
EndTurn(c) ==
    /\ turn = {c}
    /\ turn' = {}
    /\ UNCHANGED accepted
    /\ InStep'

Withdraw ==
    /\ accepted' = {}
    /\ UNCHANGED <<stored, turn>>

GrantNext ==
    \/ \E c \in Client : TakeTurn(c) \/ RotateStored(c) \/ EndTurn(c)
    \/ Withdraw

GrantSpec == GrantInit /\ [][GrantNext]_chainVars
=============================================================================
