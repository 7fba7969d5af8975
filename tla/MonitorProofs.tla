--------------------------- MODULE MonitorProofs ---------------------------
(***************************************************************************)
(* Proofs about Monitor, for chains of any length, any limits and retries, *)
(* and however many days pass and tokens are issued.                       *)
(***************************************************************************)
EXTENDS Monitor, TLAPS

\* The call under way: the loop's counter, and what may have been sent.
CallInv ==
    /\ attempt <= retries
    /\ phase = "off" => sent = 0
    /\ phase # "off" => sent = attempt + 1
    /\ phase = "waiting" => attempt < retries

LEMMA CallInit == HttpInit => HttpTypeOK /\ CallInv
BY DEF HttpInit, HttpTypeOK, CallInv

LEMMA CallStep ==
    ASSUME HttpTypeOK, CallInv,
           \/ \E n \in Nat : Request(n)
           \/ \E a \in Answers : Respond(a)
           \/ Resend
           \/ \E a \in Answers : Consume(a)
           \/ UNCHANGED httpVars
    PROVE  HttpTypeOK' /\ CallInv'
<1> USE DEF HttpTypeOK, CallInv
<1>1. ASSUME NEW n \in Nat, Request(n) PROVE HttpTypeOK' /\ CallInv'
  BY <1>1 DEF Request
<1>2. ASSUME NEW a \in Answers, Respond(a) PROVE HttpTypeOK' /\ CallInv'
  BY <1>2 DEF Respond, MayRetry
<1>3. CASE Resend
  BY <1>3 DEF Resend
<1>4. ASSUME NEW a \in Answers, Consume(a) PROVE HttpTypeOK' /\ CallInv'
  BY <1>4 DEF Consume
<1>5. CASE UNCHANGED httpVars
  BY <1>5 DEF httpVars
<1> QED
  BY <1>1, <1>2, <1>3, <1>4, <1>5

LEMMA CallOfStep ==
    ASSUME [MonitorNext]_monitorVars
    PROVE  \/ \E n \in Nat : Request(n)
           \/ \E a \in Answers : Respond(a)
           \/ Resend
           \/ \E a \in Answers : Consume(a)
           \/ UNCHANGED httpVars
<1> USE DEF Answers
<1>1. DefaultRetries \in Nat /\ 0 \in Nat
  BY DefaultRetriesAssumption
<1>2. CASE UseCached \/ AdoptOther \/ BeginExchange \/ BeginPlacebo
  BY <1>1, <1>2 DEF UseCached, AdoptOther, BeginExchange, BeginPlacebo
<1>3. CASE \/ ExchangeOk \/ ExchangeRefused \/ ExchangeOdd \/ ExchangeUnanswered
           \/ PlaceboOk \/ PlaceboRefused \/ PlaceboOdd \/ PlaceboUnanswered
  BY <1>3 DEF ExchangeOk, ExchangeRefused, ExchangeOdd, ExchangeUnanswered, PlaceboOk,
     PlaceboRefused, PlaceboOdd, PlaceboUnanswered
<1>4. CASE Exchanged \/ NotExchanged \/ ExchangeCrashes \/ PlaceboOver \/ PlaceboCrashes
  BY <1>4 DEF Exchanged, NotExchanged, ExchangeCrashes, PlaceboOver, PlaceboCrashes
<1>5. CASE RetryCall
  BY <1>5 DEF RetryCall
<1>6. CASE \/ StatusUnknown \/ StatusGrade \/ DiagnoseState
           \/ StatusReport \/ DiagnoseReport \/ World
           \/ \E right \in {"right", "wrong"} : LoadConfig(right)
           \/ \E command \in {"status", "diagnose"} : Begin(command)
           \/ UNCHANGED monitorVars
  BY <1>6 DEF StatusUnknown, StatusGrade, DiagnoseState, StatusReport,
     DiagnoseReport, World, DayPasses, Expires, Revoke, OtherRefresh, Login, Logout,
     SyncEnds, LoadConfig, Begin, monitorVars, httpVars
<1> QED
  BY <1>2, <1>3, <1>4, <1>5, <1>6 DEF MonitorNext, RunStep

-----------------------------------------------------------------------------
(* Types *)

LEMMA DictTypes ==
    ASSUME NEW dict \in Dict, today \in Nat
    PROVE  /\ NoDict \in Dict
           /\ \A answer \in [at : Nat, rt : Nat] : Merge(dict, answer) \in Dict
           /\ \A source \in Dict : Adopt(dict, source) \in Dict
           /\ [dict EXCEPT !.fresh = "no"] \in Dict
           /\ \A kind \in Syncs : [dict EXCEPT !.sync = kind] \in Dict
<1> USE DEF Dict, Syncs, NoToken, Unknown
<1>1. NoDict \in Dict
  BY DEF NoDict
<1>2. \A answer \in [at : Nat, rt : Nat] : Merge(dict, answer) \in Dict
  BY DEF Merge
<1>3. \A source \in Dict : Adopt(dict, source) \in Dict
  BY DEF Adopt
<1> QED
  BY <1>1, <1>2, <1>3

LEMMA LoginTypes ==
    ASSUME disk \in Dict, tokens \in Nat, today \in Nat
    PROVE  [disk EXCEPT !.at = tokens + 1, !.fresh = "yes", !.rt = tokens + 1,
                        !.born = today] \in Dict
<1>1. tokens + 1 \in Nat
  OBVIOUS
<1>2. disk.sync \in Syncs
  BY DEF Dict
<1> QED
  BY <1>1, <1>2 DEF Dict

LEMMA LevelTypes ==
    ASSUME NEW levels \in SUBSET (0 .. 2), levels # {}
    PROVE  Worst(levels) \in 0 .. 2
<1>1. \E l \in levels : \A k \in levels : k <= l
  <2>1. CASE 2 \in levels
    BY <2>1
  <2>2. CASE 2 \notin levels /\ 1 \in levels
    BY <2>2
  <2>3. CASE 2 \notin levels /\ 1 \notin levels
    <3>1. \A k \in levels : k = 0
      <4>1. \A k \in 0 .. 2 : k = 0 \/ k = 1 \/ k = 2
        OBVIOUS
      <4> QED
        BY <2>3, <4>1
    <3>2. PICK l \in levels : TRUE
      OBVIOUS
    <3> QED
      BY <3>1, <3>2
  <2> QED
    BY <2>1, <2>2, <2>3
<1> QED
  BY <1>1 DEF Worst

\* All but the types of the call.
Types ==
    /\ disk \in Dict
    /\ today \in Nat
    /\ grant \in {"live", "gone"}
    /\ good \in Nat /\ since \in Nat /\ tokens \in Nat
    /\ cmd \in {"none", "status", "diagnose"}
    /\ step \in Steps
    /\ mem \in Dict /\ cur \in Dict
    /\ body \in [at : Nat, rt : Nat]
    /\ secret \in {"right", "wrong"}
    /\ auth \in {"none", "missing", "fresh", "live", "rejected", "unverified"}
    /\ days \in Int
    /\ report \in [verdict : Verdicts, code : 0 .. 2]
    /\ asked \subseteq {"token", "grant", "refused", "error"}

LEMMA InitTypes == MonitorInit => Types
BY DEF MonitorInit, Types, Dict, Syncs, NoDict, NoBody, NoReport, NoToken, Unknown, Steps,
   Verdicts

LEMMA IssueTypes ==
    ASSUME Types, NEW rotates \in BOOLEAN, Issue(rotates)
    PROVE  /\ grant' \in {"live", "gone"} /\ good' \in Nat /\ since' \in Nat
           /\ tokens' \in Nat /\ tokens + 1 \in Nat
BY DEF Types, Issue

LEMMA WorldTypes ==
    ASSUME Types, World
    PROVE  Types'
<1> USE DEF Types
<1>1. NoDict \in Dict /\ [disk EXCEPT !.fresh = "no"] \in Dict
      /\ \A kind \in Syncs : [disk EXCEPT !.sync = kind] \in Dict
  BY DictTypes
<1>2. CASE DayPasses \/ Expires \/ Revoke \/ Logout \/ SyncEnds
  BY <1>1, <1>2 DEF DayPasses, Expires, Revoke, Logout, SyncEnds, Syncs, runVars, serverVars
<1>3. CASE OtherRefresh
  <2>1. PICK rotates \in Rotation :
           /\ Issue(rotates)
           /\ disk' = Merge(disk, [at |-> tokens + 1,
                                   rt |-> IF rotates THEN tokens + 1 ELSE NoToken])
    BY <1>3 DEF OtherRefresh
  <2>2. rotates \in BOOLEAN
    BY RotationAssumption
  <2>3. /\ grant' \in {"live", "gone"} /\ good' \in Nat /\ since' \in Nat
        /\ tokens' \in Nat /\ tokens + 1 \in Nat
    BY <2>1, <2>2, IssueTypes
  <2>4. [at |-> tokens + 1, rt |-> IF rotates THEN tokens + 1 ELSE NoToken]
           \in [at : Nat, rt : Nat]
    BY <2>3 DEF NoToken
  <2>5. disk' \in Dict
    BY <2>1, <2>4, DictTypes
  <2> QED
    BY <1>3, <2>3, <2>5 DEF OtherRefresh
<1>4. CASE Login
  <2>1. disk' \in Dict /\ tokens + 1 \in Nat
    BY <1>4, LoginTypes DEF Login
  <2> QED
    BY <1>4, <2>1 DEF Login, runVars
<1> QED
  BY <1>2, <1>3, <1>4 DEF World

\* The end of a run, with what it reports.
LEMMA EndTypes ==
    ASSUME Types, NEW verdict \in Verdicts, NEW code \in 0 .. 2,
           Report(verdict, code), Ends, UNCHANGED worldVars
    PROVE  Types'
<1>1. NoDict \in Dict /\ NoBody \in [at : Nat, rt : Nat]
  BY DictTypes DEF Types, NoBody, NoToken
<1>2. report' \in [verdict : Verdicts, code : 0 .. 2]
  BY DEF Report
<1>3. step' \in Steps /\ cmd' \in {"none", "status", "diagnose"}
  BY DEF Ends, Steps
<1> QED
  BY <1>1, <1>2, <1>3 DEF Types, Ends, worldVars, serverVars

LEMMA BeginTypes ==
    ASSUME Types,
           \/ \E command \in {"status", "diagnose"} : Begin(command)
           \/ \E right \in {"right", "wrong"} : LoadConfig(right)
           \/ StatusUnknown \/ StatusGrade \/ DiagnoseState \/ UNCHANGED monitorVars
    PROVE  Types'
<1> USE DEF Types, worldVars, serverVars, Steps, Verdicts, Goto
<1>1. ASSUME NEW command \in {"status", "diagnose"}, Begin(command) PROVE Types'
  BY <1>1 DEF Begin, NoReport
<1>2. ASSUME NEW right \in {"right", "wrong"}, LoadConfig(right) PROVE Types'
  BY <1>2 DEF LoadConfig
<1>3. CASE StatusUnknown
  BY <1>3, EndTypes DEF StatusUnknown
<1>4. CASE StatusGrade
  <2>1. disk.born \in Int /\ TTL \in Int
    BY DaysAssumption DEF Dict, Unknown
  <2> QED
    BY <1>4, <2>1 DEF StatusGrade, DaysLeft
<1>5. CASE DiagnoseState
  BY <1>5 DEF DiagnoseState
<1>6. CASE UNCHANGED monitorVars
  BY <1>6 DEF monitorVars, runVars
<1> QED
  BY <1>1, <1>2, <1>3, <1>4, <1>5, <1>6

LEMMA TokenTypes ==
    ASSUME Types,
           \/ UseCached \/ AdoptOther \/ BeginExchange
           \/ ExchangeOk \/ ExchangeRefused \/ ExchangeOdd \/ ExchangeUnanswered
           \/ Exchanged \/ NotExchanged \/ ExchangeCrashes
    PROVE  Types'
<1> USE DEF Types, worldVars, serverVars, Steps, Verdicts, Goto
<1>1. CASE UseCached \/ BeginExchange
  BY <1>1 DEF UseCached, BeginExchange
<1>2. CASE AdoptOther
  <2>1. mem' \in Dict
    BY <1>2, DictTypes DEF AdoptOther
  <2> QED
    BY <1>2, <2>1 DEF AdoptOther
<1>3. CASE ExchangeCrashes
  BY <1>3, EndTypes DEF ExchangeCrashes
<1>4. CASE ExchangeOk
  <2>1. PICK rotates \in Rotation :
           /\ Issue(rotates)
           /\ body' = [at |-> tokens + 1, rt |-> IF rotates THEN tokens + 1 ELSE NoToken]
    BY <1>4 DEF ExchangeOk
  <2>2. rotates \in BOOLEAN
    BY RotationAssumption
  <2>3. /\ grant' \in {"live", "gone"} /\ good' \in Nat /\ since' \in Nat
        /\ tokens' \in Nat /\ tokens + 1 \in Nat
    BY <2>1, <2>2, IssueTypes
  <2>4. body' \in [at : Nat, rt : Nat]
    BY <2>1, <2>3 DEF NoToken
  <2> QED
    BY <1>4, <2>3, <2>4 DEF ExchangeOk
<1>5. CASE ExchangeRefused
  BY <1>5 DEF ExchangeRefused
<1>6. CASE ExchangeOdd \/ ExchangeUnanswered
  <2>1. /\ grant' \in {"live", "gone"} /\ good' \in Nat /\ since' \in Nat
        /\ tokens' \in Nat
    <3>1. CASE UNCHANGED serverVars
      BY <3>1
    <3>2. ASSUME NEW rotates \in Rotation, Issue(rotates)
          PROVE /\ grant' \in {"live", "gone"} /\ good' \in Nat /\ since' \in Nat
                /\ tokens' \in Nat
      BY <3>2, RotationAssumption, IssueTypes
    <3> QED
      BY <1>6, <3>1, <3>2 DEF ExchangeOdd, ExchangeUnanswered
  <2> QED
    BY <1>6, <2>1 DEF ExchangeOdd, ExchangeUnanswered
<1>7. CASE Exchanged
  <2>1. Merge(cur, body) \in Dict
    BY DictTypes
  <2>2. Adopt(mem, Merge(cur, body)) \in Dict
    BY <2>1, DictTypes
  <2> QED
    BY <1>7, <2>1, <2>2 DEF Exchanged
<1>8. CASE NotExchanged
  BY <1>8 DEF NotExchanged, Cause
<1> QED
  BY <1>1, <1>2, <1>3, <1>4, <1>5, <1>6, <1>7, <1>8

LEMMA PlaceboTypes ==
    ASSUME Types,
           \/ BeginPlacebo \/ PlaceboOk \/ PlaceboRefused \/ PlaceboOdd \/ PlaceboUnanswered
           \/ PlaceboOver \/ PlaceboCrashes \/ RetryCall
    PROVE  Types'
<1> USE DEF Types, worldVars, serverVars, Steps, Verdicts
<1>1. CASE BeginPlacebo \/ RetryCall
  <2>1. UNCHANGED <<worldVars, runVars>>
    BY <1>1 DEF BeginPlacebo, RetryCall
  <2> QED
    BY <2>1 DEF runVars
<1>2. CASE PlaceboOk \/ PlaceboRefused \/ PlaceboOdd \/ PlaceboUnanswered
  BY <1>2 DEF PlaceboOk, PlaceboRefused, PlaceboOdd, PlaceboUnanswered
<1>3. CASE PlaceboOver
  BY <1>3 DEF PlaceboOver
<1>4. CASE PlaceboCrashes
  BY <1>4, EndTypes DEF PlaceboCrashes
<1> QED
  BY <1>1, <1>2, <1>3, <1>4

LEMMA ReportTypes ==
    ASSUME Types, StatusReport \/ DiagnoseReport
    PROVE  Types'
<1> USE DEF Types, worldVars, serverVars, Steps, Verdicts
<1>1. NoDict \in Dict /\ NoBody \in [at : Nat, rt : Nat]
  BY DictTypes DEF NoBody, NoToken
<1>2. CASE StatusReport
  BY <1>2, EndTypes DEF StatusReport
<1>3. CASE DiagnoseReport
  <2>1. PICK machine \in 0 .. 2 :
           LET level == Worst({AuthLevel, ChainLevel, SyncLevel, machine})
           IN  Report(CASE level = 2 -> "FAIL" [] level = 1 -> "WARN" [] OTHER -> "OK", level)
    BY <1>3 DEF DiagnoseReport
  <2>2. AuthLevel \in 0 .. 2 /\ ChainLevel \in 0 .. 2 /\ SyncLevel \in 0 .. 2
    BY DEF AuthLevel, ChainLevel, SyncLevel
  <2>3. Worst({AuthLevel, ChainLevel, SyncLevel, machine}) \in 0 .. 2
    BY <2>2, LevelTypes
  <2>4. report' \in [verdict : Verdicts, code : 0 .. 2]
    BY <2>1, <2>3 DEF Report
  <2>5. days' \in Int
    <3>1. mem.born \in Int /\ TTL \in Int
      BY DaysAssumption DEF Dict, Unknown
    <3> QED
      BY <1>3, <3>1 DEF DiagnoseReport, DaysLeft
  <2> QED
    BY <1>1, <1>3, <2>4, <2>5 DEF DiagnoseReport
<1> QED
  BY <1>2, <1>3

LEMMA StepTypes ==
    ASSUME Types, [MonitorNext]_monitorVars
    PROVE  Types'
BY WorldTypes, BeginTypes, TokenTypes, PlaceboTypes, ReportTypes DEF MonitorNext, RunStep

LEMMA InvInit == MonitorInit => Types /\ HttpTypeOK /\ CallInv
BY InitTypes, CallInit DEF MonitorInit

LEMMA InvStep ==
    ASSUME Types, HttpTypeOK, CallInv, [MonitorNext]_monitorVars
    PROVE  Types' /\ HttpTypeOK' /\ CallInv'
BY StepTypes, CallOfStep, CallStep

\* The variables of both commands and of the call keep their types, however many
\* runs, days and tokens: in particular every exit code is 0, 1 or 2.
THEOREM MonitorTypeCorrect == MonitorSpec => []MonitorTypeOK
<1>1. Types /\ HttpTypeOK => MonitorTypeOK
  BY DEF Types, MonitorTypeOK
<1> QED
  BY <1>1, InvInit, InvStep, PTL DEF MonitorSpec

\* A call is sent at most once more than its caller allows retries: the exchange of
\* a single-use refresh token once, whatever the server or the network does.
THEOREM CallsAreBounded == MonitorSpec => []SentWithinRetries
<1>1. HttpTypeOK /\ CallInv => SentWithinRetries
  <2>1. ASSUME HttpTypeOK, CallInv PROVE SentWithinRetries
    BY <2>1 DEF HttpTypeOK, CallInv, SentWithinRetries
  <2> QED
    BY <2>1
<1> QED
  BY <1>1, InvInit, InvStep, PTL DEF MonitorSpec

-----------------------------------------------------------------------------
(* "revoked" is only said after an answer *)

\* DeviantArt has answered the last request, with an error or not what was asked for.
Answered == asked \cap {"refused", "error"} # {}

\* The run has not made up its mind before it asks, and what it is about to make of
\* an answer is what DeviantArt said.
AnsweredInv ==
    /\ report.verdict = "revoked" \/ auth = "rejected" => Answered
    /\ step \notin {"idle", "report"} => auth # "rejected" /\ report.verdict # "revoked"
    /\ step \in {"exchange", "call"} /\ outcome \in {"refused", "failed", "odd"} => Answered
    /\ step = "call" /\ outcome = "ill" => Answered

LEMMA AnsweredInit == MonitorInit => AnsweredInv
BY DEF MonitorInit, HttpInit, AnsweredInv, NoReport

\* Steps that leave the run as it is, but for what DeviantArt has said.
LEMMA AnsweredAside ==
    ASSUME AnsweredInv, UNCHANGED <<step, auth, report, outcome>>, asked \subseteq asked'
    PROVE  AnsweredInv'
BY DEF AnsweredInv, Answered

LEMMA AnsweredWorld ==
    ASSUME AnsweredInv, World \/ UNCHANGED monitorVars
    PROVE  AnsweredInv'
<1>1. UNCHANGED <<step, auth, report, outcome>> /\ asked \subseteq asked'
  <2>1. CASE OtherRefresh
    BY <2>1 DEF OtherRefresh, httpVars
  <2>2. CASE \/ DayPasses \/ Expires \/ Revoke \/ Login \/ Logout \/ SyncEnds
             \/ UNCHANGED monitorVars
    BY <2>2 DEF DayPasses, Expires, Revoke, Login, Logout, SyncEnds, monitorVars, runVars,
       httpVars
  <2> QED
    BY <2>1, <2>2 DEF World
<1> QED
  BY <1>1, AnsweredAside

LEMMA AnsweredBefore ==
    ASSUME AnsweredInv,
           \/ \E command \in {"status", "diagnose"} : Begin(command)
           \/ \E right \in {"right", "wrong"} : LoadConfig(right)
           \/ StatusUnknown \/ StatusGrade \/ DiagnoseState
    PROVE  AnsweredInv'
<1> USE DEF AnsweredInv, Answered, Goto
<1>1. ASSUME NEW command \in {"status", "diagnose"}, Begin(command) PROVE AnsweredInv'
  BY <1>1 DEF Begin, NoReport
<1>2. ASSUME NEW right \in {"right", "wrong"}, LoadConfig(right) PROVE AnsweredInv'
  BY <1>2 DEF LoadConfig
<1>3. CASE StatusUnknown
  BY <1>3 DEF StatusUnknown, Report, Ends
<1>4. CASE StatusGrade
  BY <1>4 DEF StatusGrade
<1>5. CASE DiagnoseState
  BY <1>5 DEF DiagnoseState
<1> QED
  BY <1>1, <1>2, <1>3, <1>4, <1>5

LEMMA AnsweredToken ==
    ASSUME AnsweredInv,
           \/ UseCached \/ AdoptOther \/ BeginExchange
           \/ Exchanged \/ NotExchanged \/ ExchangeCrashes
    PROVE  AnsweredInv'
<1> USE DEF AnsweredInv, Answered, Goto
<1>1. CASE UseCached \/ AdoptOther \/ BeginExchange
  BY <1>1 DEF UseCached, AdoptOther, BeginExchange, Request
<1>2. CASE Exchanged
  BY <1>2 DEF Exchanged, Consume
<1>3. CASE NotExchanged
  <2>1. PICK a \in Answers : Consume(a) /\ auth' = Cause(a)
    BY <1>3 DEF NotExchanged
  <2>2. auth' = "rejected" => outcome \in {"refused", "failed", "odd"}
    BY <2>1 DEF Cause, Consume
  <2>3. step = "exchange" /\ step' = "report" /\ UNCHANGED <<report, asked>>
    BY <1>3 DEF NotExchanged
  <2> QED
    BY <2>2, <2>3
<1>4. CASE ExchangeCrashes
  BY <1>4 DEF ExchangeCrashes, Report, Ends
<1> QED
  BY <1>1, <1>2, <1>3, <1>4

LEMMA AnsweredCall ==
    ASSUME AnsweredInv,
           \/ ExchangeOk \/ ExchangeRefused \/ ExchangeOdd \/ ExchangeUnanswered
           \/ BeginPlacebo \/ PlaceboOk \/ PlaceboRefused \/ PlaceboOdd \/ PlaceboUnanswered
           \/ RetryCall
    PROVE  AnsweredInv'
<1> USE DEF AnsweredInv, Answered
<1>1. CASE ExchangeOk \/ PlaceboOk
  BY <1>1 DEF ExchangeOk, PlaceboOk, Respond
<1>2. CASE ExchangeRefused \/ PlaceboRefused \/ ExchangeOdd \/ PlaceboOdd
  <2>1. Answered' /\ UNCHANGED <<step, auth, report>>
    BY <1>2 DEF ExchangeRefused, PlaceboRefused, ExchangeOdd, PlaceboOdd
  <2> QED
    BY <2>1
<1>3. CASE ExchangeUnanswered \/ PlaceboUnanswered
  <2>1. UNCHANGED <<step, auth, report>> /\ step \in {"exchange", "call"}
    BY <1>3 DEF ExchangeUnanswered, PlaceboUnanswered
  <2>2. outcome' \notin {"refused", "failed", "odd"} /\ (step = "call" => outcome' # "ill")
    BY <1>3 DEF ExchangeUnanswered, PlaceboUnanswered, Respond
  <2> QED
    BY <2>1, <2>2
<1>4. CASE BeginPlacebo \/ RetryCall
  BY <1>4 DEF BeginPlacebo, RetryCall, Request, Resend, runVars
<1> QED
  BY <1>1, <1>2, <1>3, <1>4

LEMMA AnsweredAfter ==
    ASSUME AnsweredInv, PlaceboOver \/ PlaceboCrashes \/ StatusReport \/ DiagnoseReport
    PROVE  AnsweredInv'
<1> USE DEF AnsweredInv, Answered
<1>1. CASE PlaceboOver
  BY <1>1 DEF PlaceboOver, Consume
<1>2. CASE PlaceboCrashes
  BY <1>2 DEF PlaceboCrashes, Report, Ends
<1>3. CASE StatusReport
  <2>1. report'.verdict = "revoked" => auth = "rejected"
    BY <1>3 DEF StatusReport, Report
  <2>2. step' = "idle" /\ UNCHANGED <<auth, asked>>
    BY <1>3 DEF StatusReport, Ends
  <2> QED
    BY <2>1, <2>2
<1>4. CASE DiagnoseReport
  <2>1. report'.verdict # "revoked"
    BY <1>4 DEF DiagnoseReport, Report
  <2>2. step' = "idle" /\ UNCHANGED <<auth, asked>>
    BY <1>4 DEF DiagnoseReport
  <2> QED
    BY <2>1, <2>2
<1> QED
  BY <1>1, <1>2, <1>3, <1>4

LEMMA AnsweredStep ==
    ASSUME AnsweredInv, [MonitorNext]_monitorVars
    PROVE  AnsweredInv'
BY AnsweredWorld, AnsweredBefore, AnsweredToken, AnsweredCall, AnsweredAfter
   DEF MonitorNext, RunStep

\* Under every fault, "revoked" is never said, and a run of diagnose never finds the
\* grant rejected, unless DeviantArt answered the last request of the run, with an
\* error or without what was asked for: silence, a broken connection and a retryable
\* 5xx of the token endpoint send nobody to log in again.
THEOREM RevokedIsAnswered == MonitorSpec => []RevokedMeansAnswered
<1>1. AnsweredInv => RevokedMeansAnswered
  BY DEF AnsweredInv, Answered, RevokedMeansAnswered
<1>2. AnsweredInv /\ [MonitorNext]_monitorVars => AnsweredInv'
  BY AnsweredStep
<1> QED
  BY <1>1, <1>2, AnsweredInit, PTL DEF MonitorSpec

-----------------------------------------------------------------------------
(* A good report follows an acceptance *)

GreenInv ==
    /\ GreenMeansAccepted
    /\ cmd = "status" /\ auth = "live" => "token" \in asked
    /\ step = "call" /\ outcome = "ok" => "token" \in asked
    /\ step = "exchange" /\ outcome = "ok" => "grant" \in asked
    /\ step = "call" => cmd = "status"
    /\ cmd = "status" /\ step = "report" => auth \in {"live", "rejected", "unverified"}
    /\ cmd = "diagnose" /\ step = "token" => disk.at = mem.at \/ "grant" \in asked
    /\ step # "idle" => cmd \in {"status", "diagnose"}

LEMMA GreenInit == MonitorInit => GreenInv
BY DEF MonitorInit, HttpInit, GreenInv, GreenMeansAccepted, NoReport

LEMMA GreenAside ==
    ASSUME GreenInv, UNCHANGED <<cmd, step, auth, report, outcome>>, asked \subseteq asked',
           step = "token" => UNCHANGED <<disk, mem>> \/ "grant" \in asked'
    PROVE  GreenInv'
BY DEF GreenInv, GreenMeansAccepted

LEMMA GreenWorld ==
    ASSUME GreenInv, World \/ UNCHANGED monitorVars
    PROVE  GreenInv'
<1>1. UNCHANGED <<cmd, step, auth, report, outcome>> /\ asked \subseteq asked'
      /\ (step = "token" => UNCHANGED <<disk, mem>> \/ "grant" \in asked')
  <2>1. CASE OtherRefresh
    BY <2>1 DEF OtherRefresh, httpVars
  <2>2. CASE Revoke \/ UNCHANGED monitorVars
    BY <2>2 DEF Revoke, monitorVars, worldVars, runVars, httpVars
  <2>3. CASE DayPasses \/ Expires \/ Login \/ Logout \/ SyncEnds
    BY <2>3 DEF DayPasses, Expires, Login, Logout, SyncEnds, runVars, httpVars
  <2> QED
    BY <2>1, <2>2, <2>3 DEF World
<1> QED
  BY <1>1, GreenAside

LEMMA GreenBefore ==
    ASSUME GreenInv,
           \/ \E command \in {"status", "diagnose"} : Begin(command)
           \/ \E right \in {"right", "wrong"} : LoadConfig(right)
           \/ StatusUnknown \/ StatusGrade \/ DiagnoseState
    PROVE  GreenInv'
<1> USE DEF GreenInv, GreenMeansAccepted, Goto
<1>1. ASSUME NEW command \in {"status", "diagnose"}, Begin(command) PROVE GreenInv'
  BY <1>1 DEF Begin, NoReport
<1>2. ASSUME NEW right \in {"right", "wrong"}, LoadConfig(right) PROVE GreenInv'
  <2>1. step = "config" /\ step' = IF cmd = "status" THEN "token" ELSE "state"
    BY <1>2 DEF LoadConfig
  <2>2. UNCHANGED <<cmd, auth, report, asked, outcome>>
    BY <1>2 DEF LoadConfig, httpVars
  <2> QED
    BY <2>1, <2>2
<1>3. CASE StatusUnknown
  BY <1>3 DEF StatusUnknown, Report, Ends
<1>4. CASE StatusGrade
  BY <1>4 DEF StatusGrade
<1>5. CASE DiagnoseState
  <2>1. UNCHANGED <<cmd, report, asked, disk>> /\ mem' = disk /\ cmd = "diagnose"
    BY <1>5 DEF DiagnoseState, worldVars
  <2>2. auth' \in {"missing", "fresh", "none"} /\ step' \in {"report", "token"}
    BY <1>5 DEF DiagnoseState
  <2> QED
    BY <2>1, <2>2
<1> QED
  BY <1>1, <1>2, <1>3, <1>4, <1>5

LEMMA GreenToken ==
    ASSUME GreenInv,
           \/ UseCached \/ AdoptOther \/ BeginExchange
           \/ Exchanged \/ NotExchanged \/ ExchangeCrashes
    PROVE  GreenInv'
<1> USE DEF GreenInv, GreenMeansAccepted, Goto
<1>1. CASE UseCached \/ BeginExchange
  BY <1>1 DEF UseCached, BeginExchange, Request, Forced
<1>2. CASE AdoptOther
  BY <1>2 DEF AdoptOther, Request
<1>3. CASE Exchanged
  BY <1>3 DEF Exchanged, Consume
<1>4. CASE NotExchanged
  <2>1. auth' \in {"rejected", "unverified"}
    BY <1>4 DEF NotExchanged, Cause
  <2>2. step = "exchange" /\ step' = "report" /\ UNCHANGED <<cmd, report, asked>>
    BY <1>4 DEF NotExchanged
  <2> QED
    BY <2>1, <2>2
<1>5. CASE ExchangeCrashes
  BY <1>5 DEF ExchangeCrashes, Report, Ends
<1> QED
  BY <1>1, <1>2, <1>3, <1>4, <1>5

LEMMA GreenAnswer ==
    ASSUME GreenInv,
           \/ ExchangeOk \/ ExchangeRefused \/ ExchangeOdd \/ ExchangeUnanswered
           \/ BeginPlacebo \/ PlaceboOk \/ PlaceboRefused \/ PlaceboOdd \/ PlaceboUnanswered
           \/ RetryCall
    PROVE  GreenInv'
<1> USE DEF GreenInv, GreenMeansAccepted
<1>1. CASE ExchangeOk
  BY <1>1 DEF ExchangeOk, Respond
<1>2. CASE PlaceboOk
  BY <1>2 DEF PlaceboOk, Respond
<1>3. CASE ExchangeRefused \/ PlaceboRefused \/ ExchangeOdd \/ PlaceboOdd
  <2>1. asked \subseteq asked' /\ UNCHANGED <<cmd, step, auth, report>>
    BY <1>3 DEF ExchangeRefused, PlaceboRefused, ExchangeOdd, PlaceboOdd
  <2>2. outcome' # "ok" /\ step \in {"exchange", "call"}
    BY <1>3 DEF ExchangeRefused, PlaceboRefused, ExchangeOdd, PlaceboOdd, Respond
  <2> QED
    BY <2>1, <2>2
<1>4. CASE ExchangeUnanswered \/ PlaceboUnanswered
  <2>1. /\ UNCHANGED <<cmd, step, auth, report>>
        /\ asked \cap {"token", "grant"} \subseteq asked'
    BY <1>4 DEF ExchangeUnanswered, PlaceboUnanswered
  <2>2. outcome' # "ok" /\ step \in {"exchange", "call"}
    BY <1>4 DEF ExchangeUnanswered, PlaceboUnanswered, Respond
  <2> QED
    BY <2>1, <2>2
<1>5. CASE BeginPlacebo \/ RetryCall
  BY <1>5 DEF BeginPlacebo, RetryCall, Request, Resend, runVars, worldVars
<1> QED
  BY <1>1, <1>2, <1>3, <1>4, <1>5

LEMMA GreenAfter ==
    ASSUME GreenInv, PlaceboOver \/ PlaceboCrashes \/ StatusReport \/ DiagnoseReport
    PROVE  GreenInv'
<1> USE DEF GreenInv, GreenMeansAccepted
<1>1. CASE PlaceboOver
  BY <1>1 DEF PlaceboOver, Consume
<1>2. CASE PlaceboCrashes
  BY <1>2 DEF PlaceboCrashes, Report, Ends
<1>3. CASE StatusReport
  <2>1. "token" \in asked \/ report'.verdict \notin {"ok", "warn", "crit"}
    <3>1. CASE auth = "live"
      BY <1>3, <3>1 DEF StatusReport
    <3>2. CASE auth \in {"rejected", "unverified"}
      BY <1>3, <3>2 DEF StatusReport, Report
    <3> QED
      BY <1>3, <3>1, <3>2 DEF StatusReport
  <2>2. step' = "idle" /\ cmd' = "none" /\ UNCHANGED <<auth, asked>>
    BY <1>3 DEF StatusReport, Ends
  <2> QED
    BY <2>1, <2>2
<1>4. CASE DiagnoseReport
  <2>1. report'.verdict \in {"OK", "WARN", "FAIL"}
    BY <1>4 DEF DiagnoseReport, Report
  <2>2. step' = "idle" /\ cmd' = "none" /\ UNCHANGED <<auth, asked>>
    BY <1>4 DEF DiagnoseReport
  <2> QED
    BY <2>1, <2>2
<1> QED
  BY <1>1, <1>2, <1>3, <1>4

LEMMA GreenStep ==
    ASSUME GreenInv, [MonitorNext]_monitorVars
    PROVE  GreenInv'
BY GreenWorld, GreenBefore, GreenToken, GreenAnswer, GreenAfter DEF MonitorNext, RunStep

\* Whatever fails and whoever else exchanges or revokes, `da auth status` reports
\* days only in a run in which DeviantArt accepted the token, and diagnose calls the
\* refresh token live only in one in which an exchange of it succeeded.
THEOREM GreenIsTrue == MonitorSpec => []GreenMeansAccepted
<1>1. GreenInv => GreenMeansAccepted
  BY DEF GreenInv
<1>2. GreenInv /\ [MonitorNext]_monitorVars => GreenInv'
  BY GreenStep
<1> QED
  BY <1>1, <1>2, GreenInit, PTL DEF MonitorSpec

-----------------------------------------------------------------------------
(* The days are not overstated *)

DaysInv ==
    /\ since <= today
    /\ disk.born <= since
    /\ mem.born <= since
    /\ cur.born <= since
    /\ step = "exchange" /\ outcome = "ok" /\ body.rt # NoToken => since = today
    /\ cmd = "status" /\ step \in {"config", "token", "exchange", "call", "report"}
          => days <= DaysLeft(since)

LEMMA DaysInit == MonitorInit => DaysInv
BY DEF MonitorInit, HttpInit, DaysInv, NoDict, NoBody, NoToken, Unknown

\* The integers the argument is about.
LEMMA DaysInts ==
    ASSUME Types
    PROVE  /\ today \in Int /\ since \in Int /\ days \in Int /\ TTL \in Int
           /\ disk.born \in Int /\ mem.born \in Int /\ cur.born \in Int
           /\ since >= 0 /\ today >= 0
<1>1. disk.born \in Int /\ mem.born \in Int /\ cur.born \in Int
  BY DEF Types, Dict, Unknown
<1> QED
  BY <1>1, DaysAssumption DEF Types

LEMMA MergeBorn ==
    ASSUME Types, NEW dict \in Dict, NEW answer \in [at : Nat, rt : Nat]
    PROVE  Merge(dict, answer).born = IF answer.rt # NoToken THEN today ELSE dict.born
BY DEF Merge, Dict

LEMMA AdoptBorn ==
    ASSUME NEW dict \in Dict, NEW source \in Dict
    PROVE  Adopt(dict, source).born = IF source.born # Unknown THEN source.born ELSE dict.born
BY DEF Adopt, Dict

\* The chain of DeviantArt only gets younger within a run.
LEMMA DaysIssue ==
    ASSUME Types, DaysInv, NEW rotates \in Rotation, Issue(rotates)
    PROVE  /\ since' = IF rotates THEN today ELSE since
           /\ since' \in Int /\ since <= since' /\ since' <= today
BY RotationAssumption, DaysInts DEF Issue, DaysInv

\* Steps after which the chain is no older, and the run's own data are as before.
LEMMA DaysAside ==
    ASSUME Types, DaysInv, UNCHANGED <<today, cmd, mem, cur, body, days>>,
           since' \in Int, since <= since', since' <= today,
           disk'.born \in Int, disk'.born <= since',
           step' \in {step, "report", "idle"},
           cmd = "status" => step' = step \/ step \in {"call", "exchange"},
           step' = "exchange" /\ outcome' = "ok" /\ body.rt # NoToken => since' = today
    PROVE  DaysInv'
<1>1. DaysLeft(since) <= DaysLeft(since)' /\ DaysLeft(since) \in Int /\ DaysLeft(since)' \in Int
  BY DaysInts, DaysAssumption DEF DaysLeft
<1>2. mem.born <= since' /\ cur.born <= since'
  BY DaysInts DEF DaysInv
<1>3. cmd' = "status" /\ step' \in {"config", "token", "exchange", "call", "report"}
         => days' <= DaysLeft(since)'
  BY <1>1, DaysInts DEF DaysInv
<1> QED
  BY <1>2, <1>3 DEF DaysInv

LEMMA DaysWorld ==
    ASSUME Types, DaysInv, World \/ UNCHANGED monitorVars
    PROVE  DaysInv'
<1> USE DaysInts DEF worldVars, serverVars, runVars, httpVars
<1>1. CASE DayPasses
  <2>1. step = "idle" /\ step' = "idle" /\ today' = today + 1
        /\ UNCHANGED <<since, mem, cur, body, days, cmd>>
    BY <1>1 DEF DayPasses
  <2>2. disk'.born = disk.born
    BY <1>1 DEF DayPasses, Types, Dict
  <2> QED
    BY <2>1, <2>2 DEF DaysInv
<1>2. CASE Expires \/ SyncEnds
  <2>1. UNCHANGED <<today, since, step, cmd, mem, cur, body, days>> /\ step = "idle"
    BY <1>2 DEF Expires, SyncEnds
  <2>2. disk'.born = disk.born
    BY <1>2 DEF Expires, SyncEnds, Types, Dict
  <2> QED
    BY <2>1, <2>2 DEF DaysInv
<1>3. CASE Revoke \/ UNCHANGED monitorVars
  <2>1. UNCHANGED <<today, since, step, cmd, mem, cur, body, days, disk, outcome>>
    BY <1>3 DEF Revoke, monitorVars
  <2> QED
    BY <2>1 DEF DaysInv, DaysLeft
<1>4. CASE OtherRefresh
  <2>1. PICK rotates \in Rotation :
           /\ Issue(rotates)
           /\ disk' = Merge(disk, [at |-> tokens + 1,
                                   rt |-> IF rotates THEN tokens + 1 ELSE NoToken])
    BY <1>4 DEF OtherRefresh
  <2>2. rotates \in BOOLEAN /\ tokens + 1 \in Nat /\ tokens + 1 # 0
    BY <2>1, RotationAssumption DEF Types
  <2>3. disk'.born = IF rotates THEN today ELSE disk.born
    BY <2>1, <2>2, MergeBorn DEF NoToken, Types
  <2>4. since' = (IF rotates THEN today ELSE since) /\ since' \in Int /\ since <= since'
        /\ since' <= today
    BY <2>1, DaysIssue
  <2>5. disk'.born \in Int /\ disk'.born <= since'
    BY <2>3, <2>4 DEF DaysInv
  <2>6. UNCHANGED <<today, cmd, mem, cur, body, days, step>> /\ step # "exchange"
    BY <1>4 DEF OtherRefresh
  <2> QED
    BY <2>4, <2>5, <2>6, DaysAside
<1>5. CASE Login
  <2>1. UNCHANGED <<today, step, cmd, mem, cur, body, days>> /\ step = "idle" /\ since' = today
    BY <1>5 DEF Login
  <2>2. disk'.born = today
    BY <1>5 DEF Login, Types, Dict
  <2> QED
    BY <2>1, <2>2 DEF DaysInv
<1>6. CASE Logout
  <2>1. UNCHANGED <<today, since, step, cmd, mem, cur, body, days>> /\ step = "idle"
    BY <1>6 DEF Logout
  <2>2. disk'.born = -1
    BY <1>6 DEF Logout, NoDict, Unknown
  <2> QED
    BY <2>1, <2>2 DEF DaysInv
<1> QED
  BY <1>1, <1>2, <1>3, <1>4, <1>5, <1>6 DEF World

LEMMA DaysEnd ==
    ASSUME Types, DaysInv, Ends, UNCHANGED worldVars
    PROVE  DaysInv'
<1>1. mem'.born = -1 /\ cur'.born = -1
  BY DEF Ends, NoDict, Unknown
<1>2. UNCHANGED <<today, since, disk>> /\ step' = "idle"
  BY DEF Ends, worldVars, serverVars
<1> QED
  BY <1>1, <1>2, DaysInts DEF DaysInv

LEMMA DaysBefore ==
    ASSUME Types, DaysInv,
           \/ \E command \in {"status", "diagnose"} : Begin(command)
           \/ \E right \in {"right", "wrong"} : LoadConfig(right)
           \/ StatusUnknown \/ StatusGrade \/ DiagnoseState
    PROVE  DaysInv'
<1> USE DEF worldVars, serverVars, Goto
<1>1. ASSUME NEW command \in {"status", "diagnose"}, Begin(command) PROVE DaysInv'
  <2>1. UNCHANGED <<today, since, disk, mem, cur>>
    BY <1>1 DEF Begin
  <2>2. step' = "state" \/ (step' = "config" /\ cmd' # "status")
    BY <1>1 DEF Begin
  <2> QED
    BY <2>1, <2>2 DEF DaysInv
<1>2. ASSUME NEW right \in {"right", "wrong"}, LoadConfig(right) PROVE DaysInv'
  <2>1. UNCHANGED <<today, since, disk, mem, cur, cmd, days>> /\ step = "config"
        /\ step' # "exchange"
    BY <1>2 DEF LoadConfig
  <2> QED
    BY <2>1 DEF DaysInv, DaysLeft
<1>3. CASE StatusUnknown
  BY <1>3, DaysEnd DEF StatusUnknown
<1>4. CASE StatusGrade
  <2>1. /\ UNCHANGED <<today, since, disk, cur>> /\ step' = "config"
        /\ mem' = disk /\ days' = DaysLeft(disk.born)
    BY <1>4 DEF StatusGrade
  <2>2. days' <= DaysLeft(since)'
    BY <2>1, DaysInts DEF DaysLeft, DaysInv
  <2> QED
    BY <2>1, <2>2 DEF DaysInv
<1>5. CASE DiagnoseState
  <2>1. /\ UNCHANGED <<today, since, disk, cur, cmd>> /\ cmd = "diagnose"
        /\ mem' = disk
    BY <1>5 DEF DiagnoseState
  <2>2. step' \in {"report", "token"}
    BY <1>5 DEF DiagnoseState
  <2> QED
    BY <2>1, <2>2 DEF DaysInv
<1> QED
  BY <1>1, <1>2, <1>3, <1>4, <1>5

LEMMA DaysToken ==
    ASSUME Types, DaysInv,
           \/ UseCached \/ AdoptOther \/ BeginExchange
           \/ Exchanged \/ NotExchanged \/ ExchangeCrashes
    PROVE  DaysInv'
<1> USE DEF worldVars, serverVars, Goto
<1>1. CASE UseCached
  <2>1. UNCHANGED <<today, since, disk, mem, cur, cmd, days>> /\ step = "token"
        /\ step' = "call"
    BY <1>1 DEF UseCached
  <2> QED
    BY <2>1 DEF DaysInv, DaysLeft
<1>2. CASE AdoptOther
  <2>1. UNCHANGED <<today, since, disk, cur, cmd, days>> /\ step = "token"
        /\ step' \in {"call", "report"} /\ mem' = Adopt(mem, disk)
    BY <1>2 DEF AdoptOther
  <2>2. mem'.born <= since
    BY <2>1, AdoptBorn DEF Types, DaysInv
  <2> QED
    BY <2>1, <2>2 DEF DaysInv, DaysLeft
<1>3. CASE BeginExchange
  <2>1. UNCHANGED <<today, since, disk, mem, cmd, days>> /\ step = "token" /\ cur' = disk
    BY <1>3 DEF BeginExchange
  <2>2. outcome' = "none"
    BY <1>3 DEF BeginExchange, Request
  <2> QED
    BY <2>1, <2>2 DEF DaysInv, DaysLeft
<1>4. CASE Exchanged
  <2>1. UNCHANGED <<today, since, cur, cmd, days>> /\ step = "exchange" /\ outcome = "ok"
        /\ step' \in {"call", "report"}
        /\ disk' = Merge(cur, body) /\ mem' = Adopt(mem, Merge(cur, body))
    BY <1>4 DEF Exchanged, Consume
  <2>2. cur \in Dict /\ body \in [at : Nat, rt : Nat] /\ mem \in Dict /\ disk' \in Dict
    BY <2>1, DictTypes DEF Types
  <2>3. disk'.born = IF body.rt # NoToken THEN today ELSE cur.born
    BY <2>1, <2>2, MergeBorn
  <2>4. disk'.born <= since
    BY <2>1, <2>3, DaysInts DEF DaysInv
  <2>5. mem'.born = IF disk'.born # Unknown THEN disk'.born ELSE mem.born
    BY <2>1, <2>2, AdoptBorn
  <2>6. mem'.born <= since
    BY <2>4, <2>5 DEF DaysInv
  <2> QED
    BY <2>1, <2>4, <2>6 DEF DaysInv, DaysLeft
<1>5. CASE NotExchanged
  <2>1. UNCHANGED <<today, since, disk, mem, cur, cmd, days>> /\ step = "exchange"
        /\ step' = "report"
    BY <1>5 DEF NotExchanged
  <2> QED
    BY <2>1 DEF DaysInv, DaysLeft
<1>6. CASE ExchangeCrashes
  BY <1>6, DaysEnd DEF ExchangeCrashes
<1> QED
  BY <1>1, <1>2, <1>3, <1>4, <1>5, <1>6

LEMMA DaysAnswer ==
    ASSUME Types, DaysInv,
           \/ ExchangeOk \/ ExchangeRefused \/ ExchangeOdd \/ ExchangeUnanswered
           \/ BeginPlacebo \/ PlaceboOk \/ PlaceboRefused \/ PlaceboOdd \/ PlaceboUnanswered
           \/ RetryCall
    PROVE  DaysInv'
<1> USE DEF worldVars, serverVars, runVars
<1>1. CASE ExchangeOk
  <2>1. PICK rotates \in Rotation :
           /\ Issue(rotates)
           /\ body' = [at |-> tokens + 1, rt |-> IF rotates THEN tokens + 1 ELSE NoToken]
    BY <1>1 DEF ExchangeOk
  <2>2. since' = (IF rotates THEN today ELSE since) /\ since' \in Int /\ since <= since'
        /\ since' <= today
    BY <2>1, DaysIssue
  <2>3. body'.rt # NoToken => since' = today
    BY <2>1, <2>2
  <2>4. UNCHANGED <<today, disk, mem, cur, cmd, days, step>>
    BY <1>1 DEF ExchangeOk
  <2>5. disk.born <= since' /\ mem.born <= since' /\ cur.born <= since'
    BY <2>2, DaysInts DEF DaysInv
  <2>6. DaysLeft(since) <= DaysLeft(since)' /\ DaysLeft(since) \in Int
        /\ DaysLeft(since)' \in Int
    BY <2>2, <2>4, DaysInts DEF DaysLeft
  <2>7. cmd' = "status" /\ step' \in {"config", "token", "exchange", "call", "report"}
           => days' <= DaysLeft(since)'
    BY <2>4, <2>6, DaysInts DEF DaysInv
  <2> QED
    BY <2>2, <2>3, <2>4, <2>5, <2>7 DEF DaysInv
<1>2. CASE ExchangeRefused \/ PlaceboOk \/ PlaceboRefused \/ PlaceboOdd \/ PlaceboUnanswered
  <2>1. UNCHANGED <<today, since, disk, mem, cur, body, cmd, days, step>>
        /\ (step = "exchange" => outcome' # "ok")
    BY <1>2 DEF ExchangeRefused, PlaceboOk, PlaceboRefused, PlaceboOdd, PlaceboUnanswered,
       Respond
  <2> QED
    BY <2>1 DEF DaysInv, DaysLeft
<1>3. CASE ExchangeOdd \/ ExchangeUnanswered
  <2>1. since' \in Int /\ since <= since' /\ since' <= today
    <3>1. CASE UNCHANGED serverVars
      BY <3>1, DaysInts DEF DaysInv
    <3>2. ASSUME NEW rotates \in Rotation, Issue(rotates)
          PROVE  since' \in Int /\ since <= since' /\ since' <= today
      BY <3>2, DaysIssue
    <3> QED
      BY <1>3, <3>1, <3>2 DEF ExchangeOdd, ExchangeUnanswered
  <2>2. outcome' # "ok"
    BY <1>3 DEF ExchangeOdd, ExchangeUnanswered, Respond
  <2>3. UNCHANGED <<disk, today, cmd, step, mem, cur, body, days>> /\ step = "exchange"
    BY <1>3 DEF ExchangeOdd, ExchangeUnanswered
  <2>4. disk'.born \in Int /\ disk'.born <= since'
    BY <2>1, <2>3, DaysInts DEF DaysInv
  <2> QED
    BY <2>1, <2>2, <2>3, <2>4, DaysAside
<1>4. CASE BeginPlacebo \/ RetryCall
  <2>1. UNCHANGED <<today, since, disk, mem, cur, body, cmd, days, step>>
        /\ (outcome' = "none" \/ outcome' = outcome)
    BY <1>4 DEF BeginPlacebo, RetryCall, Request, Resend
  <2> QED
    BY <2>1 DEF DaysInv, DaysLeft
<1> QED
  BY <1>1, <1>2, <1>3, <1>4

LEMMA DaysAfter ==
    ASSUME Types, DaysInv, PlaceboOver \/ PlaceboCrashes \/ StatusReport \/ DiagnoseReport
    PROVE  DaysInv'
<1> USE DEF worldVars, serverVars
<1>1. CASE PlaceboOver
  <2>1. UNCHANGED <<today, since, disk, mem, cur, cmd, days>> /\ step = "call"
        /\ step' = "report"
    BY <1>1 DEF PlaceboOver
  <2> QED
    BY <2>1 DEF DaysInv, DaysLeft
<1>2. CASE PlaceboCrashes \/ StatusReport
  BY <1>2, DaysEnd DEF PlaceboCrashes, StatusReport
<1>3. CASE DiagnoseReport
  <2>1. UNCHANGED <<today, since, disk>> /\ step' = "idle" /\ mem' = NoDict /\ cur' = NoDict
    BY <1>3 DEF DiagnoseReport
  <2>2. mem'.born = -1 /\ cur'.born = -1
    BY <2>1 DEF NoDict, Unknown
  <2> QED
    BY <2>1, <2>2, DaysInts DEF DaysInv
<1> QED
  BY <1>1, <1>2, <1>3

LEMMA DaysStep ==
    ASSUME Types, DaysInv, [MonitorNext]_monitorVars
    PROVE  DaysInv'
BY DaysWorld, DaysBefore, DaysToken, DaysAnswer, DaysAfter DEF MonitorNext, RunStep

\* What a report counts is what the run graded, or grades now, from the date it read.
LEMMA DaysReported ==
    ASSUME Types, DaysInv, [MonitorNext]_monitorVars,
           step = "report", step' = "idle", mem.born # Unknown
    PROVE  days' <= DaysLeft(since)
<1>1. StatusReport \/ DiagnoseReport
  <2>1. CASE World \/ UNCHANGED monitorVars
    BY <2>1 DEF World, DayPasses, Expires, Revoke, OtherRefresh, Login, Logout, SyncEnds,
       runVars, monitorVars
  <2>2. CASE \/ \E command \in {"status", "diagnose"} : Begin(command)
             \/ \E right \in {"right", "wrong"} : LoadConfig(right)
             \/ StatusUnknown \/ StatusGrade \/ DiagnoseState
             \/ UseCached \/ AdoptOther \/ BeginExchange
    BY <2>2 DEF Begin, LoadConfig, StatusUnknown, StatusGrade, DiagnoseState, UseCached,
       AdoptOther, BeginExchange, Goto
  <2>3. CASE \/ ExchangeOk \/ ExchangeRefused \/ ExchangeOdd \/ ExchangeUnanswered
             \/ Exchanged \/ NotExchanged \/ ExchangeCrashes
             \/ BeginPlacebo \/ PlaceboOk \/ PlaceboRefused \/ PlaceboOdd
             \/ PlaceboUnanswered \/ PlaceboOver \/ PlaceboCrashes \/ RetryCall
    BY <2>3 DEF ExchangeOk, ExchangeRefused, ExchangeOdd, ExchangeUnanswered, Exchanged,
       NotExchanged, ExchangeCrashes, BeginPlacebo, PlaceboOk, PlaceboRefused, PlaceboOdd,
       PlaceboUnanswered, PlaceboOver, PlaceboCrashes, RetryCall, runVars
  <2> QED
    BY <2>1, <2>2, <2>3 DEF MonitorNext, RunStep
<1>2. CASE StatusReport
  BY <1>2 DEF StatusReport, Ends, DaysInv
<1>3. CASE DiagnoseReport
  <2>1. days' = DaysLeft(mem.born)
    BY <1>3 DEF DiagnoseReport
  <2> QED
    BY <2>1, DaysInts DEF DaysLeft, DaysInv
<1> QED
  BY <1>1, <1>2, <1>3

\* However long the chain, whoever exchanges it and however many answers are lost,
\* no report counts more days than DeviantArt will honour the chain for.
THEOREM DaysAreHonest == MonitorSpec => DaysNotOverstated
<1> DEFINE IInv == Types /\ HttpTypeOK /\ CallInv /\ DaysInv
           NotOverstated == step = "report" /\ step' = "idle" /\ mem.born # Unknown
                              => days' <= DaysLeft(since)
<1>1. MonitorInit => IInv
  BY InvInit, DaysInit
<1>2. IInv /\ [MonitorNext]_monitorVars => IInv'
  BY InvStep, DaysStep
<1>3. IInv /\ [MonitorNext]_monitorVars => [NotOverstated]_monitorVars
  BY DaysReported
<1>4. MonitorSpec => [][NotOverstated]_monitorVars
  <2> HIDE DEF IInv, NotOverstated
  <2> QED
    BY <1>1, <1>2, <1>3, PTL DEF MonitorSpec
<1> QED
  BY <1>4 DEF DaysNotOverstated
=============================================================================
