------------------------------- MODULE Monitor -------------------------------
(***************************************************************************)
(* The two commands that tell an operator how the credentials are:         *)
(* `da auth status` (_cmd_auth_status of src/dacli/auth.py) and            *)
(* `da diagnose` (src/dacli/commands/diagnose.py), with the exchange they  *)
(* may make (access_token) and the retries of their calls (HttpRetry).     *)
(* One run at a time is followed; other commands go on beside it.          *)
(*                                                                         *)
(* Abstractions.  state.json is a record: `at` and `rt` number the access  *)
(* and the refresh token (0: none), `fresh` is what the local clock says   *)
(* of `at`, `born` is the day of refresh_token_issued_at (Unknown: not     *)
(* recorded), `sync` the kind of last_sync; the rejection mark, which      *)
(* neither command reads, is TokenStore's.  A run takes less than a day,   *)
(* and logins, logouts and expiries fall between runs (TokenStore          *)
(* interleaves them).  client_id is set.  The findings of diagnose on the  *)
(* destination, the free space, the redirect, the index, the schedule and  *)
(* the certificate are the worst level among them.                         *)
(*                                                                         *)
(* Faults names what may go wrong:                                         *)
(*   "revoke"   the user withdraws the grant                               *)
(*   "network"  no answer, or none in time, or none that can be read; the  *)
(*              request may have reached DeviantArt all the same           *)
(*   "authill"  the token endpoint answers a retryable 5xx                 *)
(*   "apiill"   the API does                                               *)
(*   "odd"      either of them answers something that says nothing of the  *)
(*              token: 408, 429, a 5xx outside RETRYABLE_HTTP_CODES, or a  *)
(*              2xx without what was asked for                             *)
(***************************************************************************)
EXTENDS HttpRetry

CONSTANTS Faults,     \* see above
          Rotation,   \* whether an exchange returns a new refresh token
          TTL,        \* REFRESH_TOKEN_TTL_DAYS
          WarnDays,   \* REFRESH_TOKEN_WARN_DAYS
          CritDays,   \* REFRESH_TOKEN_CRIT_DAYS
          MaxDay,     \* bound: days that pass
          MaxTokens   \* bound: tokens issued

ASSUME MonitorFaultsAssumption ==
    Faults \subseteq {"revoke", "network", "authill", "apiill", "odd"}
ASSUME RotationAssumption == Rotation \in (SUBSET BOOLEAN) \ {{}}
ASSUME DaysAssumption ==
    /\ TTL \in Nat /\ WarnDays \in Nat /\ CritDays \in Nat
    /\ CritDays < WarnDays /\ WarnDays < TTL
ASSUME MonitorBoundsAssumption == MaxDay \in Nat /\ MaxTokens \in Nat

NoToken == 0
Unknown == -1
Syncs == {"none", "clean", "unclean"}
Dict == [at : Nat, fresh : {"yes", "no"}, rt : Nat, born : Nat \cup {Unknown}, sync : Syncs]
NoDict == [at |-> NoToken, fresh |-> "no", rt |-> NoToken, born |-> Unknown, sync |-> "none"]

VARIABLES
    disk,      \* state.json
    today,     \* the calendar
    grant,     \* DeviantArt: "live" or "gone"
    good,      \* DeviantArt: the refresh token it accepts
    since,     \* DeviantArt: the day it issued that one
    tokens,    \* number of the last token issued
    cmd,       \* the command that runs
    step,      \* where it is
    mem,       \* its `state`
    cur,       \* what it read under the token lock
    body,      \* the answer of its exchange
    secret,    \* whether the client secret it loaded is the right one
    auth,      \* what it has found out about the credentials
    days,      \* the days it has computed
    report,    \* what it has reported: verdict and exit code
    asked      \* what DeviantArt has said since it began (history): it accepted
               \* the access token or an exchange; its last answer refused the
               \* token, or was an error that says nothing of it

serverVars == <<grant, good, since, tokens>>
worldVars == <<disk, today, serverVars>>
runVars == <<cmd, step, mem, cur, body, secret, auth, days, report, asked>>
monitorVars == <<worldVars, runVars, httpVars>>

NoReport == [verdict |-> "none", code |-> 0]
NoBody == [at |-> NoToken, rt |-> NoToken]

Steps == {"idle", "config", "state", "token", "exchange", "call", "report"}
Verdicts == {"none", "ok", "warn", "crit", "unknown", "revoked", "unreachable",
             "OK", "WARN", "FAIL", "crashed"}

MonitorTypeOK ==
    /\ disk \in Dict
    /\ today \in Nat
    /\ grant \in {"live", "gone"}
    /\ good \in Nat /\ since \in Nat /\ tokens \in Nat
    /\ cmd \in {"none", "status", "diagnose"}
    /\ step \in Steps
    /\ mem \in Dict /\ cur \in Dict
    /\ body \in [at : Nat, rt : Nat]
    /\ secret \in {"right", "wrong"}
    /\ auth \in {"none", "missing", "fresh", "live", "rejected", "unverified"}
    /\ days \in Int
    /\ report \in [verdict : Verdicts, code : 0 .. 2]
    /\ asked \subseteq {"token", "grant", "refused", "error"}
    /\ HttpTypeOK

\* Logged in on day 1, by this version or by one that kept no issue date.
MonitorInit ==
    /\ disk \in [at : {1}, fresh : {"yes"}, rt : {1}, born : {1, Unknown}, sync : {"none"}]
    /\ today = 1
    /\ grant = "live" /\ good = 1 /\ since = 1 /\ tokens = 1
    /\ cmd = "none" /\ step = "idle"
    /\ mem = NoDict /\ cur = NoDict /\ body = NoBody
    /\ secret = "right" /\ auth = "none" /\ days = 0
    /\ report = NoReport /\ asked = {}
    /\ HttpInit

-----------------------------------------------------------------------------
(* Helpers *)

Goto(from, to) == step = from /\ step' = to

DaysLeft(born) == TTL - (today - born)

\* DeviantArt's answer to an exchange of rt.
RefreshAccepted(rt) ==
    grant = "live" /\ rt = good /\ DaysLeft(since) > 0 /\ secret = "right"

\* It consumes the refresh token, or leaves it as it is.
Issue(rotates) ==
    /\ tokens < MaxTokens
    /\ tokens' = tokens + 1
    /\ good' = IF rotates THEN tokens + 1 ELSE good
    /\ since' = IF rotates THEN today ELSE since
    /\ UNCHANGED grant

\* Seeded fault for Merge: the chain's clock restarts with every exchange.
MergeAlwaysDated(dict, answer) ==
    [dict EXCEPT !.at = answer.at, !.fresh = "yes",
                 !.rt = IF answer.rt # NoToken THEN answer.rt ELSE @,
                 !.born = today]

\* What a successful exchange writes: the clock follows the refresh token.
Merge(dict, answer) ==
    [dict EXCEPT !.at = answer.at, !.fresh = "yes",
                 !.rt = IF answer.rt # NoToken THEN answer.rt ELSE @,
                 !.born = IF answer.rt # NoToken THEN today ELSE @]

\* _adopt: the token fields, as far as the source has them.
Adopt(dict, source) ==
    [source EXCEPT !.sync = dict.sync,
                   !.rt = IF @ # NoToken THEN @ ELSE dict.rt,
                   !.born = IF @ # Unknown THEN @ ELSE dict.born]

Report(verdict, code) == report' = [verdict |-> verdict, code |-> code]

\* The process ends; what it reported stays on the screen.
Ends ==
    /\ step' = "idle"
    /\ cmd' = "none"
    /\ mem' = NoDict /\ cur' = NoDict /\ body' = NoBody
    /\ UNCHANGED <<secret, auth, days, asked>>

-----------------------------------------------------------------------------
(* Other commands, and time *)

DayPasses ==
    /\ step = "idle" /\ today < MaxDay
    /\ today' = today + 1
    /\ disk' = [disk EXCEPT !.fresh = "no"]
    /\ UNCHANGED <<serverVars, runVars, httpVars>>

Expires ==
    /\ step = "idle" /\ disk.fresh = "yes"
    /\ disk' = [disk EXCEPT !.fresh = "no"]
    /\ UNCHANGED <<today, serverVars, runVars, httpVars>>

Revoke ==
    /\ "revoke" \in Faults /\ grant = "live"
    /\ grant' = "gone"
    /\ UNCHANGED <<disk, today, good, since, tokens, runVars, httpVars>>

\* Another process exchanges the token, while this one is not inside the lock.
OtherRefresh ==
    /\ step # "exchange"
    /\ grant = "live" /\ disk.rt = good /\ DaysLeft(since) > 0
    /\ \E rotates \in Rotation :
          /\ Issue(rotates)
          /\ disk' = Merge(disk, [at |-> tokens + 1,
                                  rt |-> IF rotates THEN tokens + 1 ELSE NoToken])
    /\ asked' = IF step = "idle" THEN asked ELSE asked \cup {"grant"}
    /\ UNCHANGED <<today, cmd, step, mem, cur, body, secret, auth, days, report, httpVars>>

\* `da auth`: a new chain.
Login ==
    /\ step = "idle" /\ tokens < MaxTokens
    /\ tokens' = tokens + 1
    /\ grant' = "live" /\ good' = tokens + 1 /\ since' = today
    /\ disk' = [disk EXCEPT !.at = tokens + 1, !.fresh = "yes", !.rt = tokens + 1,
                            !.born = today]
    /\ UNCHANGED <<today, runVars, httpVars>>

Logout ==
    /\ step = "idle"
    /\ disk' = NoDict
    /\ UNCHANGED <<today, serverVars, runVars, httpVars>>

SyncEnds ==
    /\ step = "idle"
    /\ \E kind \in {"clean", "unclean"} : disk' = [disk EXCEPT !.sync = kind]
    /\ UNCHANGED <<today, serverVars, runVars, httpVars>>

-----------------------------------------------------------------------------
(* The two commands up to the credentials *)

\* status loads the state first, diagnose the configuration.
Begin(command) ==
    /\ step = "idle"
    /\ step' = IF command = "status" THEN "state" ELSE "config"
    /\ cmd' = command
    /\ auth' = "none" /\ days' = 0 /\ report' = NoReport /\ asked' = {}
    /\ UNCHANGED <<mem, cur, body, secret, worldVars, httpVars>>

LoadConfig(right) ==
    /\ Goto("config", IF cmd = "status" THEN "token" ELSE "state")
    /\ secret' = right
    /\ UNCHANGED <<cmd, mem, cur, body, auth, days, report, asked, worldVars, httpVars>>

\* status without an issue date reports at once; with one, it grades it here.
StatusUnknown ==
    /\ cmd = "status" /\ step = "state"
    /\ disk.born = Unknown
    /\ Report("unknown", 2)
    /\ Ends
    /\ UNCHANGED <<worldVars, httpVars>>

StatusGrade ==
    /\ cmd = "status" /\ Goto("state", "config")
    /\ disk.born # Unknown
    /\ mem' = disk
    /\ days' = DaysLeft(disk.born)
    /\ UNCHANGED <<cmd, cur, body, secret, auth, report, asked, worldVars, httpVars>>

\* diagnose asks DeviantArt only when the access token has expired.
DiagnoseState ==
    /\ cmd = "diagnose" /\ step = "state"
    /\ mem' = disk
    /\ \/ /\ disk.at = NoToken \/ (disk.fresh = "no" /\ disk.rt = NoToken)
          /\ auth' = "missing" /\ step' = "report"
       \/ /\ disk.at # NoToken /\ disk.fresh = "yes"
          /\ auth' = "fresh" /\ step' = "report"
       \/ /\ disk.at # NoToken /\ disk.fresh = "no" /\ disk.rt # NoToken
          /\ auth' = "none" /\ step' = "token"
    /\ UNCHANGED <<cmd, cur, body, secret, days, report, asked, worldVars, httpVars>>

-----------------------------------------------------------------------------
(* access_token *)

Forced == cmd = "diagnose"

\* Seeded fault for UseCached: a token that looks good needs no confirmation.
UseCachedUnasked ==
    /\ ~Forced /\ mem.fresh = "yes"
    /\ Goto("token", "report")
    /\ auth' = "live"
    /\ UNCHANGED <<cmd, mem, cur, body, secret, days, report, asked, worldVars, httpVars>>

UseCached ==
    /\ ~Forced /\ mem.fresh = "yes"
    /\ Goto("token", "call")
    /\ Request(DefaultRetries)
    /\ UNCHANGED <<cmd, mem, cur, body, secret, auth, days, report, asked, worldVars>>

\* Under the token lock: somebody else has just done it.
AdoptOther ==
    /\ step = "token" /\ (Forced \/ mem.fresh = "no")
    /\ disk.fresh = "yes" /\ disk.at # mem.at
    /\ mem' = Adopt(mem, disk)
    /\ IF cmd = "status"
       THEN step' = "call" /\ Request(DefaultRetries) /\ UNCHANGED auth
       ELSE step' = "report" /\ auth' = "live" /\ UNCHANGED httpVars
    /\ UNCHANGED <<cmd, cur, body, secret, days, report, asked, worldVars>>

Presented == IF cur.rt # NoToken THEN cur.rt ELSE mem.rt

\* Else ConfigError: not from here, a run that gets here has loaded a refresh token.
BeginExchange ==
    /\ (Forced \/ mem.fresh = "no")
    /\ ~(disk.fresh = "yes" /\ disk.at # mem.at)
    /\ disk.rt # NoToken \/ mem.rt # NoToken
    /\ Goto("token", "exchange")
    /\ cur' = disk
    /\ Request(0)
    /\ UNCHANGED <<cmd, mem, body, secret, auth, days, report, asked, worldVars>>

ExchangeOk ==
    /\ step = "exchange"
    /\ RefreshAccepted(Presented)
    /\ Respond("ok")
    /\ \E rotates \in Rotation :
          /\ Issue(rotates)
          /\ body' = [at |-> tokens + 1, rt |-> IF rotates THEN tokens + 1 ELSE NoToken]
    /\ asked' = asked \cup {"grant"}
    /\ UNCHANGED <<disk, today, cmd, step, mem, cur, secret, auth, days, report>>

ExchangeRefused ==
    /\ step = "exchange"
    /\ ~RefreshAccepted(Presented)
    /\ Respond("refused")
    /\ asked' = asked \cup {"refused"}
    /\ UNCHANGED <<cmd, step, mem, cur, body, secret, auth, days, report, worldVars>>

\* With or without an effect, like the next.
ExchangeOdd ==
    /\ "odd" \in Faults /\ step = "exchange"
    /\ \E a \in {"refused", "failed", "odd"} : Respond(a)
    /\ \/ UNCHANGED serverVars
       \/ RefreshAccepted(Presented) /\ \E rotates \in Rotation : Issue(rotates)
    /\ asked' = asked \cup {"error"}
    /\ UNCHANGED <<disk, today, cmd, step, mem, cur, body, secret, auth, days, report>>

ExchangeUnanswered ==
    /\ step = "exchange"
    /\ \/ "network" \in Faults /\ \E a \in {"lost", "slow", "garbled", "broken"} : Respond(a)
       \/ "authill" \in Faults /\ Respond("ill")
    /\ \/ UNCHANGED serverVars
       \/ RefreshAccepted(Presented) /\ \E rotates \in Rotation : Issue(rotates)
    /\ asked' = asked \ {"refused", "error"}
    /\ UNCHANGED <<disk, today, cmd, step, mem, cur, body, secret, auth, days, report>>

Exchanged ==
    /\ step = "exchange"
    /\ Consume("ok")
    /\ disk' = Merge(cur, body)
    /\ mem' = Adopt(mem, Merge(cur, body))
    /\ IF cmd = "status" THEN step' = "call" /\ UNCHANGED auth
                         ELSE step' = "report" /\ auth' = "live"
    /\ UNCHANGED <<today, serverVars, cmd, cur, body, secret, days, report, asked>>

\* Seeded fault for Cause: one exception for both, as sys.exit once was.
CauseRejected(answer) == "rejected"

\* AuthError is raised for every HTTP error that is not retryable, and for a body
\* without an access token; HttpError for the others and for the network.
Cause(answer) ==
    IF answer \in {"refused", "failed", "odd"} THEN "rejected" ELSE "unverified"

\* What the commands catch: status no OSError of another kind, none a bad body.
Caught(answer) ==
    \/ answer \in {"refused", "failed", "odd", "ill", "lost", "slow"}
    \/ (answer = "broken" /\ cmd = "diagnose")

NotExchanged ==
    /\ step = "exchange"
    /\ \E a \in Answers \ {"ok"} :
          /\ Consume(a)
          /\ Caught(a)
          /\ auth' = Cause(a)
    /\ step' = "report"
    /\ UNCHANGED <<cmd, mem, cur, body, secret, days, report, asked, worldVars>>

\* The exception goes up to main: exit 2 and no report.
ExchangeCrashes ==
    /\ step = "exchange"
    /\ \E a \in Answers \ {"ok"} : Consume(a) /\ ~Caught(a)
    /\ Report("crashed", 2)
    /\ Ends
    /\ UNCHANGED worldVars

-----------------------------------------------------------------------------
(* status: GET /placebo with the token *)

BeginPlacebo ==
    /\ step = "call"
    /\ Request(DefaultRetries)
    /\ UNCHANGED <<worldVars, runVars>>

PlaceboOk ==
    /\ step = "call" /\ grant = "live"
    /\ Respond("ok")
    /\ asked' = asked \cup {"token"}
    /\ UNCHANGED <<cmd, step, mem, cur, body, secret, auth, days, report, worldVars>>

PlaceboRefused ==
    /\ step = "call" /\ grant = "gone"
    /\ Respond("refused")
    /\ asked' = asked \cup {"refused"}
    /\ UNCHANGED <<cmd, step, mem, cur, body, secret, auth, days, report, worldVars>>

PlaceboOdd ==
    /\ step = "call"
    /\ \/ "odd" \in Faults /\ \E a \in {"refused", "failed", "odd"} : Respond(a)
       \/ "apiill" \in Faults /\ Respond("ill")
    /\ asked' = asked \cup {"error"}
    /\ UNCHANGED <<cmd, step, mem, cur, body, secret, auth, days, report, worldVars>>

PlaceboUnanswered ==
    /\ "network" \in Faults /\ step = "call"
    /\ \E a \in {"lost", "slow", "garbled", "broken"} : Respond(a)
    /\ asked' = asked \ {"refused", "error"}
    /\ UNCHANGED <<cmd, step, mem, cur, body, secret, auth, days, report, worldVars>>

\* Any HTTPError counts as a rejected token, a 5xx too, and so does a status that
\* is not "success".
PlaceboOver ==
    /\ step = "call"
    /\ \/ Consume("ok") /\ auth' = "live"
       \/ /\ \E a \in {"refused", "failed", "odd", "ill"} : Consume(a)
          /\ auth' = "rejected"
       \/ Consume("lost") /\ auth' = "unverified"
    /\ step' = "report"
    /\ UNCHANGED <<cmd, mem, cur, body, secret, days, report, asked, worldVars>>

\* TimeoutError is no URLError; nor is a body that is not JSON.
PlaceboCrashes ==
    /\ step = "call"
    /\ Consume("slow") \/ Consume("garbled") \/ Consume("broken")
    /\ Report("crashed", 2)
    /\ Ends
    /\ UNCHANGED worldVars

RetryCall == Resend /\ UNCHANGED <<worldVars, runVars>>

-----------------------------------------------------------------------------
(* The reports *)

StatusReport ==
    /\ cmd = "status" /\ step = "report"
    /\ \/ auth = "rejected" /\ Report("revoked", 2)
       \/ auth = "unverified" /\ Report("unreachable", 2)
       \/ /\ auth \notin {"rejected", "unverified"}
          /\ IF days > WarnDays THEN Report("ok", 0)
             ELSE IF days > CritDays THEN Report("warn", 1) ELSE Report("crit", 2)
    /\ Ends
    /\ UNCHANGED <<worldVars, httpVars>>

\* The levels of the findings: 0 ok, 1 warn, 2 fail.
AuthLevel ==
    CASE auth \in {"fresh", "live"} -> 0 [] auth = "unverified" -> 1 [] OTHER -> 2
ChainLevel ==
    IF mem.born = Unknown \/ DaysLeft(mem.born) > WarnDays THEN 0
    ELSE IF DaysLeft(mem.born) > CritDays THEN 1 ELSE 2
SyncLevel == IF mem.sync = "clean" THEN 0 ELSE 1

Worst(levels) == CHOOSE l \in levels : \A k \in levels : k <= l

DiagnoseReport ==
    /\ cmd = "diagnose" /\ step = "report"
    /\ \E machine \in 0 .. 2 :
          LET level == Worst({AuthLevel, ChainLevel, SyncLevel, machine})
          IN  Report(CASE level = 2 -> "FAIL" [] level = 1 -> "WARN" [] OTHER -> "OK", level)
    /\ days' = IF mem.born = Unknown THEN 0 ELSE DaysLeft(mem.born)
    /\ step' = "idle" /\ cmd' = "none"
    /\ mem' = NoDict /\ cur' = NoDict /\ body' = NoBody
    /\ UNCHANGED <<secret, auth, asked, worldVars, httpVars>>

-----------------------------------------------------------------------------
RunStep ==
    \/ StatusUnknown \/ StatusGrade \/ DiagnoseState
    \/ UseCached \/ AdoptOther \/ BeginExchange
    \/ ExchangeOk \/ ExchangeRefused \/ ExchangeOdd \/ ExchangeUnanswered
    \/ Exchanged \/ NotExchanged \/ ExchangeCrashes
    \/ BeginPlacebo \/ PlaceboOk \/ PlaceboRefused \/ PlaceboOdd \/ PlaceboUnanswered
    \/ PlaceboOver \/ PlaceboCrashes \/ RetryCall
    \/ StatusReport \/ DiagnoseReport

World ==
    \/ DayPasses \/ Expires \/ Revoke \/ OtherRefresh \/ Login \/ Logout \/ SyncEnds

MonitorNext ==
    \/ RunStep \/ World
    \/ \E right \in {"right", "wrong"} : LoadConfig(right)
    \/ \E command \in {"status", "diagnose"} : Begin(command)

MonitorFairness ==
    WF_monitorVars(RunStep \/ \E right \in {"right", "wrong"} : LoadConfig(right))

MonitorSpec == MonitorInit /\ [][MonitorNext]_monitorVars /\ MonitorFairness

-----------------------------------------------------------------------------
(* Properties *)

\* `da auth status` says ok, warn or crit only after DeviantArt has accepted the
\* token in this very run (auth.py:616-623), and diagnose calls the refresh token
\* live only if DeviantArt accepted it, from this process or another one, since
\* the run began (diagnose.py:128-136).
GreenMeansAccepted ==
    /\ report.verdict \in {"ok", "warn", "crit"} => "token" \in asked
    /\ auth = "live" /\ cmd = "diagnose" => "grant" \in asked

\* Nobody is sent to log in again because the network was down: "revoked", and
\* diagnose's finding that the grant was rejected, are only said when DeviantArt
\* answered the last request of the run, and answered with an error or without
\* what was asked for (auth.py:668-696, diagnose.py:149-175).
RevokedMeansAnswered ==
    report.verdict = "revoked" \/ auth = "rejected"
        => asked \cap {"refused", "error"} # {}

\* More: the answer was a refusal of the token ("revoked means DeviantArt rejected
\* it", auth.py:716).  The code does not tell it from an error of the server.
RevokedMeansRefused ==
    report.verdict = "revoked" \/ auth = "rejected" => "refused" \in asked

\* No run counts more days than DeviantArt gives the chain, however often and by
\* whom it was exchanged, with or without a rotation (auth.py:170-174).
DaysNotOverstated ==
    [][step = "report" /\ step' = "idle" /\ mem.born # Unknown
          => days' <= DaysLeft(since)]_monitorVars

\* A monitor never hangs: every run ends, with a report or a message.
EveryRunEnds == step # "idle" ~> step = "idle"
=============================================================================
