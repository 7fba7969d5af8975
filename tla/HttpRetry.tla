------------------------------ MODULE HttpRetry ------------------------------
(***************************************************************************)
(* One call of http_json, http_post_json or http_bytes at a time           *)
(* (src/dacli/net.py): attempts, the errors that are tried again, the      *)
(* pauses between them.  The three functions are the same loop.            *)
(*                                                                         *)
(* Abstractions.  What the server says is one of                           *)
(*   "ok"       2xx with a body that parses                                *)
(*   "refused"  any 4xx, 429 among them                                    *)
(*   "failed"   a 5xx outside RETRYABLE_HTTP_CODES: 501, 52x               *)
(*   "ill"      a 5xx of RETRYABLE_HTTP_CODES                              *)
(*   "odd"      2xx with a JSON body that lacks what was asked for         *)
(*   "lost"     URLError: no network, a connection that broke              *)
(*   "slow"     TimeoutError: the answer did not come in time              *)
(*   "garbled"  2xx with a body that does not parse                        *)
(*   "broken"   the connection breaks while the body is read               *)
(* The last two are not caught here; an odd body is returned like any      *)
(* other.  After any but "ok" the server may nevertheless have done what   *)
(* it was asked to.  Durations are left out.                               *)
(***************************************************************************)
EXTENDS Integers

CONSTANTS DefaultRetries \* HTTP_RETRY_DEFAULT

ASSUME DefaultRetriesAssumption == DefaultRetries \in Nat

Answers ==
    {"ok", "refused", "failed", "ill", "odd", "lost", "slow", "garbled", "broken"}

VARIABLES
    phase,    \* "off", "flying", "waiting" or "over"
    retries,  \* retries the caller allows
    attempt,  \* the loop's counter
    outcome,  \* what the call returned or raised
    sent      \* requests sent by this call (history)

httpVars == <<phase, retries, attempt, outcome, sent>>

HttpTypeOK ==
    /\ phase \in {"off", "flying", "waiting", "over"}
    /\ retries \in Nat
    /\ attempt \in Nat
    /\ outcome \in Answers \cup {"none"}
    /\ sent \in Nat

HttpInit ==
    /\ phase = "off"
    /\ retries = 0
    /\ attempt = 0
    /\ outcome = "none"
    /\ sent = 0

\* RETRYABLE_HTTP_CODES and the second except clause.
Retryable(answer) == answer \in {"ill", "lost", "slow"}

Request(allowedRetries) ==
    /\ phase = "off"
    /\ phase' = "flying"
    /\ retries' = allowedRetries
    /\ attempt' = 0
    /\ outcome' = "none"
    /\ sent' = 1

\* Seeded fault for MayRetry: one attempt too many.
MayRetryOnce(answer) == Retryable(answer) /\ attempt <= retries

MayRetry(answer) == Retryable(answer) /\ attempt < retries

Respond(answer) ==
    /\ phase = "flying"
    /\ IF MayRetry(answer)
       THEN phase' = "waiting" /\ outcome' = "none"
       ELSE phase' = "over" /\ outcome' = answer
    /\ UNCHANGED <<retries, attempt, sent>>

\* Seeded fault for Resend: the attempts are not counted.
ResendForever ==
    /\ phase = "waiting"
    /\ phase' = "flying"
    /\ UNCHANGED <<retries, attempt, sent, outcome>>

\* The pause of _retry_backoff is over.
Resend ==
    /\ phase = "waiting"
    /\ phase' = "flying"
    /\ attempt' = attempt + 1
    /\ sent' = sent + 1
    /\ UNCHANGED <<retries, outcome>>

\* The caller goes on with the outcome.
Consume(answer) ==
    /\ phase = "over"
    /\ outcome = answer
    /\ phase' = "off"
    /\ retries' = 0
    /\ attempt' = 0
    /\ outcome' = "none"
    /\ sent' = 0

-----------------------------------------------------------------------------
(* Properties *)

\* A call is sent at most once more than the caller allows retries, whatever goes
\* wrong: an exchange of a single-use token or code (retries = 0) is sent once.
SentWithinRetries == sent <= retries + 1
=============================================================================
