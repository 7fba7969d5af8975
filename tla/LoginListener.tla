---------------------------- MODULE LoginListener ----------------------------
(***************************************************************************)
(* One `da auth` run from the moment it asks for a code: the listener of   *)
(* _capture_code_via_listener with its accept loop, one thread per         *)
(* connection and the polling main thread, or _capture_code_via_paste, and *)
(* then the exchange in cmd_auth.  DeviantArt, the browser and whatever    *)
(* else reaches 127.0.0.1 are external.                                    *)
(*                                                                         *)
(* Abstractions.  A request is one of                                      *)
(*   "code"     DeviantArt's redirect of this run, with a code             *)
(*   "denied"   the same with an error: the user clicked Decline           *)
(*   "favicon"  any other path, whatever it carries                        *)
(*   "foreign"  our path with a code, or an error, and a state not ours    *)
(*   "silent"   a connection on which nothing is ever sent                 *)
(* A code is a number: OldCode was minted for an earlier run (DeviantArt   *)
(* wants that run's verifier for it), Planted by somebody else without a   *)
(* challenge, the rest for this run.  The error description is wording.    *)
(* The run's own tokens, once saved, are TokenStore's LoginSave.           *)
(***************************************************************************)
EXTENDS Integers, FiniteSets

CONSTANTS Conn,     \* connections the browser and others make
          MaxCodes  \* bound: times the user clicks Authorize

ASSUME MaxCodesAssumption == MaxCodes \in Nat

NoCode == 0
OldCode == 1
Planted == 2

Requests == {"code", "denied", "favicon", "foreign", "silent"}
NoRequest == [kind |-> "silent", code |-> NoCode]

VARIABLES
    main,      \* the main thread
    late,      \* the five minutes are over
    captured,  \* the dict that handlers write and the main thread polls
    stage,     \* where each connection is
    request,   \* what it asks
    issued,    \* DeviantArt: codes issued to this run
    declined,  \* DeviantArt: the user has declined
    answer,    \* what the wait returned
    intime,    \* connections that filled `captured` before the wait ended
    spent      \* DeviantArt: codes it has exchanged

listenerVars == <<main, late, captured, stage, request, issued, declined,
                  answer, intime, spent>>

Stages == {"free", "queued", "handshake", "request", "answering", "told", "gone"}
InThread == {"handshake", "request", "answering"}

NothingCaptured == [code |-> NoCode, error |-> "none"]
NoAnswer == [is |-> "none", code |-> NoCode]

ListenerTypeOK ==
    /\ main \in {"off", "polling", "closing", "pasting", "exchange", "save", "in", "out"}
    /\ late \in BOOLEAN
    /\ captured \in [code : Nat, error : {"none", "denied"}]
    /\ stage \in [Conn -> Stages]
    /\ request \in [Conn -> [kind : Requests, code : Nat]]
    /\ issued \subseteq Nat
    /\ declined \in BOOLEAN
    /\ answer \in [is : {"none", "code", "pasted", "denied", "timeout"}, code : Nat]
    /\ intime \subseteq Conn
    /\ spent \subseteq Nat

ListenerInit ==
    /\ main = "off"
    /\ late = FALSE
    /\ captured = NothingCaptured
    /\ stage = [c \in Conn |-> "free"]
    /\ request = [c \in Conn |-> NoRequest]
    /\ issued = {}
    /\ declined = FALSE
    /\ answer = NoAnswer
    /\ intime = {}
    /\ spent = {}

-----------------------------------------------------------------------------
(* The browser and others *)

\* A connection that the kernel completes while the socket is open.
Connect(c, r) ==
    /\ main \in {"polling", "closing"}
    /\ stage[c] = "free"
    /\ stage' = [stage EXCEPT ![c] = "queued"]
    /\ request' = [request EXCEPT ![c] = r]

\* The user clicks Authorize; the page may be opened more than once.
Authorize(c) ==
    /\ Cardinality(issued) < MaxCodes
    /\ \E n \in {Cardinality(issued) + 3} :
          /\ issued' = issued \cup {n}
          /\ Connect(c, [kind |-> "code", code |-> n])
    /\ UNCHANGED <<main, late, captured, declined, answer, intime, spent>>

Decline(c) ==
    /\ Connect(c, [kind |-> "denied", code |-> NoCode])
    /\ declined' = TRUE
    /\ UNCHANGED <<main, late, captured, issued, answer, intime, spent>>

\* The redirect is requested once more: after the warning about the certificate,
\* on a reload, from the history.
Reload(c) ==
    /\ \E n \in issued : Connect(c, [kind |-> "code", code |-> n])
    /\ UNCHANGED <<main, late, captured, issued, declined, answer, intime, spent>>

\* /favicon.ico, a preconnect, an <img> of any page, an old tab.
Stray(c) ==
    /\ \E r \in {[kind |-> "favicon", code |-> NoCode], [kind |-> "silent", code |-> NoCode],
                 [kind |-> "foreign", code |-> Planted], [kind |-> "foreign", code |-> OldCode],
                 [kind |-> "foreign", code |-> NoCode]} :
          Connect(c, r)
    /\ UNCHANGED <<main, late, captured, issued, declined, answer, intime, spent>>

\* AUTH_CONNECTION_TIMEOUT_S, a malformed handshake, a closed tab.
Abandon(c) ==
    /\ stage[c] \in {"handshake", "request"}
    /\ stage' = [stage EXCEPT ![c] = "gone"]
    /\ UNCHANGED <<main, late, captured, request, issued, declined, answer, intime, spent>>

-----------------------------------------------------------------------------
(* The server: serve_forever accepts, every connection gets a thread *)

\* Seeded fault for Accept: the handshake blocks the accept loop.
AcceptAfterHandshake(c) ==
    /\ main \in {"polling", "closing"}
    /\ stage[c] = "queued"
    /\ \A d \in Conn : stage[d] # "handshake"
    /\ stage' = [stage EXCEPT ![c] = "handshake"]
    /\ UNCHANGED <<main, late, captured, request, issued, declined, answer, intime, spent>>

\* get_request
Accept(c) ==
    /\ main \in {"polling", "closing"}
    /\ stage[c] = "queued"
    /\ stage' = [stage EXCEPT ![c] = "handshake"]
    /\ UNCHANGED <<main, late, captured, request, issued, declined, answer, intime, spent>>

\* finish_request: TLS in the thread.
Handshake(c) ==
    /\ stage[c] = "handshake"
    /\ request[c].kind # "silent"
    /\ stage' = [stage EXCEPT ![c] = "request"]
    /\ UNCHANGED <<main, late, captured, request, issued, declined, answer, intime, spent>>

\* Seeded fault for IsCallback: a code is a code.
IsCallbackAnyState(r) == r.kind \in {"code", "foreign"} /\ r.code # NoCode

\* path_ok and state_ok and "code" in q
IsCallback(r) == r.kind = "code"

IsDenial(r) == r.kind = "denied"

\* do_GET: `captured` first, the page after that.
Capture(c) ==
    /\ stage[c] = "request"
    /\ \/ IsCallback(request[c]) /\ captured' = [captured EXCEPT !.code = request[c].code]
       \/ IsDenial(request[c]) /\ captured' = [captured EXCEPT !.error = "denied"]
    /\ stage' = [stage EXCEPT ![c] = "answering"]
    /\ intime' = IF main = "polling" THEN intime \cup {c} ELSE intime
    /\ UNCHANGED <<main, late, request, issued, declined, answer, spent>>

\* 404, and the wait goes on.
NotFound(c) ==
    /\ stage[c] = "request"
    /\ ~IsCallback(request[c])
    /\ ~IsDenial(request[c])
    /\ stage' = [stage EXCEPT ![c] = "gone"]
    /\ UNCHANGED <<main, late, captured, request, issued, declined, answer, intime, spent>>

\* "Authorized." or "Not authorized." reaches the browser.
Answer(c) ==
    /\ stage[c] = "answering"
    /\ stage' = [stage EXCEPT ![c] = "told"]
    /\ UNCHANGED <<main, late, captured, request, issued, declined, answer, intime, spent>>

-----------------------------------------------------------------------------
(* The main thread *)

Open ==
    /\ main = "off"
    /\ main' = "polling"
    /\ UNCHANGED <<late, captured, stage, request, issued, declined, answer, intime, spent>>

TimeIsUp ==
    /\ main = "polling"
    /\ ~late
    /\ late' = TRUE
    /\ UNCHANGED <<main, captured, stage, request, issued, declined, answer, intime, spent>>

\* `while not captured and time.time() < deadline`
StopWaiting ==
    /\ main = "polling"
    /\ captured # NothingCaptured \/ late
    /\ main' = "closing"
    /\ UNCHANGED <<late, captured, stage, request, issued, declined, answer, intime, spent>>

\* Seeded fault for Heard: past the deadline nothing counts any more.
HeardUnlessLate ==
    IF ~late /\ captured.error # "none" THEN [is |-> "denied", code |-> NoCode]
    ELSE IF ~late /\ captured.code # NoCode THEN [is |-> "code", code |-> captured.code]
    ELSE [is |-> "timeout", code |-> NoCode]

\* What the wait returns: an error wins over a code.
Heard ==
    IF captured.error # "none" THEN [is |-> "denied", code |-> NoCode]
    ELSE IF captured.code # NoCode THEN [is |-> "code", code |-> captured.code]
    ELSE [is |-> "timeout", code |-> NoCode]

\* Seeded fault for CloseAndRead: server_close waits for the threads.
CloseJoinsThreads ==
    /\ main = "closing"
    /\ \A c \in Conn : stage[c] \notin InThread
    /\ answer' = Heard
    /\ main' = IF Heard.is = "code" THEN "exchange" ELSE "out"
    /\ stage' = [c \in Conn |-> IF stage[c] = "queued" THEN "gone" ELSE stage[c]]
    /\ UNCHANGED <<late, captured, request, issued, declined, intime, spent>>

\* shutdown and server_close: what was never accepted is reset, the threads stay;
\* only then is `captured` read.
CloseAndRead ==
    /\ main = "closing"
    /\ answer' = Heard
    /\ main' = IF Heard.is = "code" THEN "exchange" ELSE "out"
    /\ stage' = [c \in Conn |->
                   IF stage[c] = "queued" \/ (main' = "out" /\ stage[c] \in InThread)
                   THEN "gone" ELSE stage[c]]
    /\ UNCHANGED <<late, captured, request, issued, declined, intime, spent>>

\* Over SSH: the user pastes the address of this run's redirect, or of an earlier
\* one's, or of somebody else's, or nothing; the state is not looked at.
OpenPaste ==
    /\ main = "off"
    /\ main' = "pasting"
    /\ UNCHANGED <<late, captured, stage, request, issued, declined, answer, intime, spent>>

Paste ==
    /\ main = "pasting"
    /\ \/ /\ issued' = {3}
          /\ answer' = [is |-> "pasted", code |-> 3]
          /\ main' = "exchange"
       \/ /\ \E code \in {OldCode, Planted} : answer' = [is |-> "pasted", code |-> code]
          /\ main' = "exchange"
          /\ UNCHANGED issued
       \/ /\ answer' = [is |-> "timeout", code |-> NoCode]
          /\ main' = "out"
          /\ UNCHANGED issued
    /\ UNCHANGED <<late, captured, stage, request, declined, intime, spent>>

\* The process ends and takes its threads with it.
EndThreads ==
    stage' = [c \in Conn |-> IF stage[c] \in InThread THEN "gone" ELSE stage[c]]

\* DeviantArt wants the verifier that goes with the code, if it was challenged.
Accepts(code) == code \notin spent /\ code \in issued \cup {Planted}

\* One POST, never repeated.
Exchange ==
    /\ main = "exchange"
    /\ Accepts(answer.code)
    /\ spent' = spent \cup {answer.code}
    /\ main' = "save"
    /\ UNCHANGED <<late, captured, stage, request, issued, declined, answer, intime>>

\* Refused, unreachable, an answer without a token, or the answer is lost.
ExchangeFails ==
    /\ main = "exchange"
    /\ \/ UNCHANGED spent
       \/ Accepts(answer.code) /\ spent' = spent \cup {answer.code}
    /\ main' = "out"
    /\ EndThreads
    /\ UNCHANGED <<late, captured, request, issued, declined, answer, intime>>

\* load_state, the merge and save_state.
Save ==
    /\ main = "save"
    /\ main' = "in"
    /\ EndThreads
    /\ UNCHANGED <<late, captured, request, issued, declined, answer, intime, spent>>

Thread(c) == Accept(c) \/ Handshake(c) \/ Capture(c) \/ NotFound(c) \/ Answer(c)

Browser(c) == Authorize(c) \/ Decline(c) \/ Reload(c) \/ Stray(c) \/ Abandon(c)

MainThread == StopWaiting \/ CloseAndRead \/ Paste \/ Exchange \/ ExchangeFails \/ Save

ListenerNext ==
    \/ \E c \in Conn : Thread(c) \/ Browser(c)
    \/ MainThread \/ Open \/ OpenPaste \/ TimeIsUp

ListenerFairness ==
    /\ \A c \in Conn : WF_listenerVars(Thread(c))
    /\ WF_listenerVars(MainThread)

ListenerSpec == ListenerInit /\ [][ListenerNext]_listenerVars /\ ListenerFairness

-----------------------------------------------------------------------------
(* Properties *)

\* Only DeviantArt's own answer to this run ends the listener's wait with a code or
\* with a refusal, whoever else sends it codes and refusals (auth.py:434-446), and
\* the tokens that are saved are those of a code of this run.  A pasted code is not
\* looked at so closely (auth.py:592-610): DeviantArt refuses an old one for its
\* verifier, and takes one that was issued to somebody else without a challenge.
OnlyOurAnswer ==
    /\ answer.is = "code" => answer.code \in issued
    /\ answer.is = "denied" => declined
    /\ main \in {"save", "in"} =>
          answer.code \in issued \/ (answer.is = "pasted" /\ answer.code = Planted)

\* A redirect that reached its handler while the run was waiting is the run's
\* answer: no browser is told "Authorized." on the strength of it while the run
\* reports that it has received nothing.
HeardIsAnswered ==
    intime # {} /\ answer # NoAnswer => answer.is \in {"code", "denied"}

\* A redirect that has connected is heard, whatever else is connected and however
\* silent: unless its own connection breaks, the run gets its answer before any
\* deadline has to help (auth.py:507-513, 526-533).
RedirectHeard ==
    \A c \in Conn :
        main = "polling" /\ stage[c] = "queued" /\ request[c].kind \in {"code", "denied"}
            ~> stage[c] = "gone" \/ answer.is # "none"

\* Once the five minutes are over the run ends, whatever is still connected.
EveryLoginEnds == late ~> main \in {"in", "out"}
=============================================================================
