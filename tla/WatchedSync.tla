----------------------------- MODULE WatchedSync -----------------------------
(***************************************************************************)
(* `da sync watched`: repeated runs that walk every watched artist's       *)
(* gallery under one shared time budget (src/dacli/sync.py,                *)
(* cmd_sync_watched and _cmd_sync_watched_impl), the ledger of artists     *)
(* done, failed and skipped, and the guard against a dead grant.           *)
(*                                                                         *)
(* Time is counted from the run's `started`, in one unit (ten seconds in   *)
(* the instances), and passes in the token check, in a page and in the     *)
(* discovery; how long each may take is bounded by constants.              *)
(*                                                                         *)
(* Abstractions.  The artists are 1..N in the order the API lists them,    *)
(* which is the same in every run; nobody posts or deletes, and no gallery *)
(* is empty, so that a walk of a complete gallery ends on its first page.  *)
(* What a page saves is module GallerySync's subject: here a gallery is    *)
(* its number of pages, and galleries[a] of state.json is the page to      *)
(* resume at, Pages[a] standing for {"complete": true}; it and the artist  *)
(* summary, two saves, are written in one step.  Both discovery strategies *)
(* find the same artists.                                                  *)
(*                                                                         *)
(* Faults names what may happen besides runs that end well:                *)
(*   "revoke"     the user withdraws the grant at DeviantArt               *)
(*   "http"       the gallery endpoint answers an HTTP error               *)
(*   "crash"      discovery or a walk raises (no network, token endpoint   *)
(*                down, an answer that is not JSON)                        *)
(*   "exit"       the run or a walk calls sys.exit (no destination and a   *)
(*                corrupt index, before its first page; still 401 after a  *)
(*                forced refresh)                                          *)
(*   "interrupt"  Ctrl-C                                                   *)
(*   "kill"       the process is killed                                    *)
(*   "nobody"     the discovery finds nobody                               *)
(***************************************************************************)
EXTENDS Integers

CONSTANTS N,           \* watched artists
          Pages,       \* pages of each artist's gallery
          Budget,      \* --time-budget
          Margin,      \* TIME_BUDGET_MARGIN_S
          MinLeft,     \* MIN_ARTIST_BUDGET_S
          MaxDiscover, \* the longest discovery
          MaxToken,    \* the longest token check: lock wait and exchange
          MaxPage,     \* the longest page: calls, downloads, delays
          Faults       \* see above

ASSUME NAssumption == N \in Nat \ {0} /\ Pages \in [1..N -> Nat \ {0}]
ASSUME TimeAssumption ==
    /\ Budget \in Nat /\ Margin \in Nat /\ MinLeft \in Nat
    /\ MaxDiscover \in Nat /\ MaxToken \in Nat /\ MaxPage \in Nat \ {0}
    /\ Margin < MinLeft
ASSUME FaultsAssumption ==
    Faults \subseteq {"revoke", "http", "crash", "exit", "interrupt", "kill",
                      "nobody"}

VARIABLES
    progress,   \* state.json: galleries, the page each walk resumes at
    lastSync,   \* state.json: last_sync
    mark,       \* state.json: whether refresh_token_rejected_at is there
    grant,      \* DeviantArt: whether the grant still lives
    pc,         \* where the run is
    now,        \* time since the run's `started`
    i,          \* the loop's artist
    walkBudget, \* the time_budget handed to the artist's walk
    walkStart,  \* the walk's own `started`
    page,       \* the page the walk is at
    done,       \* artists_done
    failed,     \* len(artists_failed)
    skipped,    \* remaining_artists
    doomed      \* history: exchanges of a dead refresh token in this run

disk == <<progress, lastSync, mark>>
ledger == <<done, failed, skipped>>
walk == <<walkBudget, walkStart, page>>
vars == <<progress, lastSync, mark, grant, pc, now, i, walkBudget, walkStart,
          page, done, failed, skipped, doomed>>

Artists == 1..N

Summary(kind, reason, d, f, s) ==
    [kind |-> kind, reason |-> reason, done |-> d, failed |-> f, skipped |-> s]

ArtistReasons == {"gallery complete", "caught up", "time budget exhausted", "http"}
WatchedReasons == {"time budget exhausted", "artists failed", "all artists complete"}

TypeOK ==
    /\ progress \in [Artists -> Nat]
    /\ \A a \in Artists : progress[a] <= Pages[a]
    /\ lastSync \in [kind : {"none", "artist", "watched"},
                     reason : ArtistReasons \cup WatchedReasons \cup {"failed"},
                     done : 0..N, failed : 0..N, skipped : 0..N]
    /\ mark \in {"none", "rejected"}
    /\ grant \in {"live", "dead"}
    /\ pc \in {"idle", "discover", "next", "token", "walk", "summary"}
    /\ now \in Nat
    /\ i \in 1..N + 1
    /\ pc \in {"next", "token", "walk"} => i \in Artists
    /\ walkBudget \in Int /\ walkStart \in Nat /\ page \in Nat
    /\ done \in Nat /\ failed \in Nat /\ skipped \in Nat
    /\ doomed \in Nat

Init ==
    /\ progress = [a \in Artists |-> 0]
    /\ lastSync = Summary("none", "failed", 0, 0, 0)
    /\ mark = "none"
    /\ grant = "live"
    /\ pc = "idle"
    /\ now = 0 /\ i = 1
    /\ walkBudget = 0 /\ walkStart = 0 /\ page = 0
    /\ done = 0 /\ failed = 0 /\ skipped = 0
    /\ doomed = 0

-----------------------------------------------------------------------------
(* The run *)

\* The run is over; its local variables are gone.
Stop ==
    /\ pc' = "idle"
    /\ now' = 0 /\ i' = 1
    /\ walkBudget' = 0 /\ walkStart' = 0 /\ page' = 0
    /\ done' = 0 /\ failed' = 0 /\ skipped' = 0
    /\ doomed' = 0

\* _record_crash: what cmd_sync_watched does with any exception but SystemExit.
RecordCrash == lastSync' = Summary("watched", "failed", 0, 0, 0)

\* The sync lock is free and the token check at the start succeeds, if only
\* because the cached access token is still fresh.
Start ==
    /\ pc = "idle"
    /\ pc' = "discover"
    /\ UNCHANGED <<disk, grant, now, i, walk, ledger, doomed>>

\* The token check at the start meets a dead grant: AuthError.
StartRejected ==
    /\ pc = "idle"
    /\ grant = "dead"
    /\ mark' = "rejected"
    /\ RecordCrash
    /\ Stop
    /\ UNCHANGED <<progress, grant>>

Discovered(d) ==
    /\ pc = "discover"
    /\ now' = now + d
    /\ pc' = "next"
    /\ UNCHANGED <<disk, grant, i, walk, ledger, doomed>>

\* No destination, or a corrupt index, before the discovery: SystemExit, which
\* records nothing.
StartExits ==
    /\ "exit" \in Faults
    /\ pc = "discover"
    /\ Stop
    /\ UNCHANGED <<disk, grant>>

\* Nobody is watched: the command returns and records nothing.
NobodyFound ==
    /\ "nobody" \in Faults
    /\ pc = "discover"
    /\ Stop
    /\ UNCHANGED <<disk, grant>>

\* An HTTP error other than 403, or any other exception of the discovery: it
\* has no refresh-and-retry, so a revoked access token ends here too.
DiscoveryFails ==
    /\ "crash" \in Faults \/ grant = "dead"
    /\ pc = "discover"
    /\ RecordCrash
    /\ Stop
    /\ UNCHANGED <<progress, mark, grant>>

Left == Budget - now

\* Seeded fault for OutOfTime: the artist that was not started is forgotten.
OutOfTimeOffByOne ==
    /\ pc = "next"
    /\ Left < MinLeft
    /\ skipped' = N - i
    /\ pc' = "summary"
    /\ UNCHANGED <<disk, grant, now, i, walk, done, failed, doomed>>

\* Too little is left for another artist: this one and the rest are skipped.
OutOfTime ==
    /\ pc = "next"
    /\ Left < MinLeft
    /\ skipped' = N - i + 1
    /\ pc' = "summary"
    /\ UNCHANGED <<disk, grant, now, i, walk, done, failed, doomed>>

\* Seeded fault for TakeArtist: every artist gets the whole budget.
TakeArtistFull ==
    /\ pc = "next"
    /\ Left >= MinLeft
    /\ walkBudget' = Budget
    /\ pc' = "token"
    /\ UNCHANGED <<disk, grant, now, i, walkStart, page, ledger, doomed>>

\* The artist's walk is handed what is left now, before its token check.
TakeArtist ==
    /\ pc = "next"
    /\ Left >= MinLeft
    /\ walkBudget' = Left
    /\ pc' = "token"
    /\ UNCHANGED <<disk, grant, now, i, walkStart, page, ledger, doomed>>

\* Seeded fault for ResumePage: every walk starts at the top.
ResumeAtTop(a) == 0

\* An unfinished gallery is resumed, a complete one looked at from the top.
ResumePage(a) == IF progress[a] = Pages[a] THEN 0 ELSE progress[a]

\* access_token returns, after an exchange or from the cache; the walk's clock
\* starts only now.
TokenOk(t) ==
    /\ pc = "token"
    /\ now' = now + t
    /\ walkStart' = now'
    /\ page' = ResumePage(i)
    /\ pc' = "walk"
    /\ UNCHANGED <<disk, grant, i, walkBudget, ledger, doomed>>

\* The loop goes on with the next artist; the walk's locals are gone.
Advance ==
    /\ i' = i + 1
    /\ walkBudget' = 0 /\ walkStart' = 0 /\ page' = 0
    /\ pc' = IF i = N THEN "summary" ELSE "next"

\* The loop's handler of exceptions that are not SystemExit.
CountFailed ==
    /\ failed' = failed + 1
    /\ Advance
    /\ UNCHANGED <<done, skipped>>

\* access_token presents a dead refresh token: it sets the mark and raises
\* AuthError, which the loop counts like any other exception.
TokenRejected(t) ==
    /\ pc = "token"
    /\ grant = "dead"
    /\ now' = now + t
    /\ mark' = "rejected"
    /\ doomed' = doomed + 1
    /\ CountFailed
    /\ UNCHANGED <<progress, lastSync, grant>>

\* The walk's while condition.
PageInBudget == pc = "walk" /\ now - walkStart < walkBudget - Margin

\* _record_gallery_progress and _record_sync_summary at the end of the walk.
EndWalk(p, reason) ==
    /\ progress' = [progress EXCEPT ![i] = p]
    /\ lastSync' = Summary("artist", reason, 0, 0, 0)
    /\ done' = done + 1
    /\ Advance
    /\ UNCHANGED <<mark, grant, failed, skipped, doomed>>

\* A page of a gallery that is known to be complete: caught up.
CaughtUp(d) ==
    /\ PageInBudget
    /\ progress[i] = Pages[i]
    /\ now' = now + d
    /\ EndWalk(Pages[i], "caught up")

LastPage(d) ==
    /\ PageInBudget
    /\ progress[i] # Pages[i]
    /\ page + 1 = Pages[i]
    /\ now' = now + d
    /\ EndWalk(Pages[i], "gallery complete")

NextPage(d) ==
    /\ PageInBudget
    /\ progress[i] # Pages[i]
    /\ page + 1 < Pages[i]
    /\ now' = now + d
    /\ page' = page + 1
    /\ UNCHANGED <<disk, grant, pc, i, walkBudget, walkStart, ledger, doomed>>

\* The walk's budget is used up. The loop counts the artist as done.
BudgetOut ==
    /\ pc = "walk" /\ ~PageInBudget
    /\ EndWalk(page, "time budget exhausted")
    /\ UNCHANGED now

\* An HTTP error ends the walk as well; the artist counts as done.
HttpError(d) ==
    /\ "http" \in Faults
    /\ PageInBudget
    /\ now' = now + d
    /\ EndWalk(page, "http")

\* A 401, and the forced exchange presents a dead refresh token: AuthError.
PageRejected(d) ==
    /\ PageInBudget
    /\ grant = "dead"
    /\ now' = now + d
    /\ mark' = "rejected"
    /\ doomed' = doomed + 1
    /\ CountFailed
    /\ UNCHANGED <<progress, lastSync, grant>>

\* Any other exception in the token check.
TokenCrashes(t) ==
    /\ "crash" \in Faults
    /\ pc = "token"
    /\ now' = now + t
    /\ CountFailed
    /\ UNCHANGED <<disk, grant, doomed>>

\* Any other exception in the walk.
WalkCrashes(d) ==
    /\ "crash" \in Faults
    /\ PageInBudget
    /\ now' = now + d
    /\ CountFailed
    /\ UNCHANGED <<disk, grant, doomed>>

\* The same before a walk's first page: skipped past, unless the grant is known to
\* be dead.
SetupExits(t) ==
    /\ "exit" \in Faults
    /\ pc = "token"
    /\ mark = "none"
    /\ now' = now + t
    /\ CountFailed
    /\ UNCHANGED <<disk, grant, doomed>>

\* SystemExit in a page: likewise.
WalkExits(d) ==
    /\ "exit" \in Faults
    /\ PageInBudget
    /\ mark = "none"
    /\ now' = now + d
    /\ CountFailed
    /\ UNCHANGED <<disk, grant, doomed>>

\* SystemExit with the mark set ends the run, which records nothing.
WalkExitsRun ==
    /\ "exit" \in Faults
    /\ pc = "token" \/ PageInBudget
    /\ mark = "rejected"
    /\ Stop
    /\ UNCHANGED <<disk, grant>>

StopReason ==
    CASE skipped > 0                -> "time budget exhausted"
      [] skipped = 0 /\ failed > 0  -> "artists failed"
      [] OTHER                      -> "all artists complete"

Finish ==
    /\ pc = "summary"
    /\ lastSync' = Summary("watched", StopReason, done, failed, skipped)
    /\ Stop
    /\ UNCHANGED <<progress, mark, grant>>

-----------------------------------------------------------------------------
(* Around it *)

\* Ctrl-C: KeyboardInterrupt is recorded like a crash, the walk's progress lost.
Interrupt ==
    /\ "interrupt" \in Faults
    /\ pc # "idle"
    /\ RecordCrash
    /\ Stop
    /\ UNCHANGED <<progress, mark, grant>>

Kill ==
    /\ "kill" \in Faults
    /\ pc # "idle"
    /\ Stop
    /\ UNCHANGED <<disk, grant>>

Revoke ==
    /\ "revoke" \in Faults
    /\ grant = "live"
    /\ grant' = "dead"
    /\ UNCHANGED <<disk, pc, now, i, walk, ledger, doomed>>

\* `da auth`: a new grant, and the mark is removed.
Login ==
    /\ grant = "dead"
    /\ grant' = "live"
    /\ mark' = "none"
    /\ UNCHANGED <<progress, lastSync, pc, now, i, walk, ledger, doomed>>

-----------------------------------------------------------------------------

\* What a run does by itself.
Run ==
    \/ Start \/ StartRejected
    \/ \E d \in 0..MaxDiscover : Discovered(d)
    \/ OutOfTime \/ TakeArtist
    \/ \E t \in 0..MaxToken : TokenOk(t) \/ TokenRejected(t)
    \/ \E d \in 1..MaxPage :
          CaughtUp(d) \/ LastPage(d) \/ NextPage(d) \/ PageRejected(d)
    \/ BudgetOut
    \/ Finish

Fault ==
    \/ StartExits \/ NobodyFound \/ DiscoveryFails
    \/ \E t \in 0..MaxToken : TokenCrashes(t) \/ SetupExits(t)
    \/ \E d \in 1..MaxPage : HttpError(d) \/ WalkCrashes(d) \/ WalkExits(d)
    \/ WalkExitsRun
    \/ Interrupt \/ Kill \/ Revoke

Next == Run \/ Login \/ Fault

Spec == Init /\ [][Next]_vars

\* The schedule keeps starting runs and a started run goes on; a user whose grant
\* is dead logs in; and from some time on nothing goes wrong.
FairSpec ==
    /\ Spec
    /\ WF_vars(Run) /\ WF_vars(Login)
    /\ <>[][Run \/ Login]_vars

-----------------------------------------------------------------------------
(* Properties *)

\* A run that walks to its summary accounts for every watched artist exactly once
\* (sync.py:1163-1174), whatever failed, exited or ran out of time.
LedgerAdds ==
    lastSync.kind = "watched" /\ lastSync.reason # "failed" =>
        lastSync.done + lastSync.failed + lastSync.skipped = N

\* --time-budget bounds the whole run (sync.py:1094-1099): it is overrun by less
\* than one token check and one page, however many artists there are, unless the
\* discovery, which no budget bounds, has used it up already.
RunBounded ==
    now <= MaxDiscover \/ now < Budget + MaxToken + MaxPage - Margin

\* "A backfill across many artists converges over successive scheduled runs": each
\* gallery is walked to its end, although a run may not even finish one of them,
\* when the budget leaves room for a look at the artists before.
Converges == \A a \in Artists : <>(progress[a] = Pages[a])

\* The guard's comment (sync.py:1138-1147): a dead grant must not cost a doomed
\* token POST per remaining artist.
OneDoomedPost == doomed <= 1

\* A truncated run is not a clean one (docs/commands/sync.md:671-672): what the
\* summary calls complete was walked to its end.
CleanMeansWalked ==
    lastSync.reason = "all artists complete" =>
        \A a \in Artists : progress[a] = Pages[a]

=============================================================================
