----------------------------- MODULE TokenStore -----------------------------
(***************************************************************************)
(* The OAuth token life cycle of da-cli: several `da` processes share one  *)
(* state.json, which holds the access token, the single-use refresh token, *)
(* the "this grant was rejected" mark and the progress records of          *)
(* `da sync`.  The module models src/dacli/auth.py (access_token,          *)
(* authed_http_json, the exchange of `da auth`, `da refresh`), lock.py     *)
(* (_token_lock, _cmd_lock, the read-modify-write of the sync records) and *)
(* `da auth logout`, against DeviantArt's token server (external).         *)
(*                                                                         *)
(* Abstractions.  A token is the number of the exchange that issued it; 0  *)
(* is "no token".  All progress records (last_sync, galleries,             *)
(* last_feed_deviationid) are one number, the number of the newest record  *)
(* in the file.  A corrupt state.json is left to another module.           *)
(* save_state is atomic (tmp file + rename), so a save is one step, and a  *)
(* save that raises is the same as a crash before it.                      *)
(*                                                                         *)
(* Commands names the commands each process slot may start; Faults what    *)
(* may go wrong:                                                           *)
(*   "timeout"   a waiter gives up on the token lock (lock.py:105)         *)
(*   "crash"     a process dies, the kernel releases its flocks            *)
(*   "stuck"     a process stops inside the token lock and keeps it        *)
(*   "lost"      DeviantArt rotates the token, the response is lost or     *)
(*               carries no access token                                   *)
(*   "refuse"    the token endpoint answers a good token with an error     *)
(*               outside RETRYABLE_HTTP_CODES: 401 for a wrong client      *)
(*               secret, 408, 429, 501, 52x                                *)
(*   "revoke"    the user withdraws the application's grant                *)
(***************************************************************************)
EXTENDS Integers, FiniteSets

CONSTANTS Proc,        \* process slots; each runs one command after another
          Commands,    \* what each may run: "api", "refresh", "sync", "auth", "logout"
          Faults,      \* see above
          Rotation,    \* whether an exchange returns a new refresh token
          MaxIssued,   \* bound: exchanges the server answers with success
          MaxRecords   \* bound: progress records written

ASSUME CommandsAssumption ==
    Commands \in [Proc -> SUBSET {"api", "refresh", "sync", "auth", "logout"}]
ASSUME FaultsAssumption ==
    Faults \subseteq {"timeout", "crash", "stuck", "lost", "refuse", "revoke"}
ASSUME RotationAssumption == Rotation \in (SUBSET BOOLEAN) \ {{}}
ASSUME BoundsAssumption == MaxIssued \in Nat \ {0} /\ MaxRecords \in Nat

NoToken == 0

State == [at : Nat, rt : Nat, rej : BOOLEAN, data : Nat]

\* What load_state returns when there is no file.
EmptyState == [at |-> NoToken, rt |-> NoToken, rej |-> FALSE, data |-> 0]

Body == [at : Nat, rt : Nat]
NoBody == [at |-> NoToken, rt |-> NoToken]

\* What a command uses of the dict it loaded at start.
Tokens(s) == [at |-> s.at, rt |-> s.rt]

VARIABLES
    disk,      \* state.json
    pc,        \* where each process is
    cmd,       \* the command it runs
    mem,       \* what it uses of the `state` dict it loaded at start: the tokens
    cur,       \* the dict it read last, to be written back (current / fresh)
    body,      \* the token server's answer
    retried,   \* authed_http_json is on its second and last attempt
    lock,      \* holder of .token.lock (at most one)
    synclock,  \* holder of .sync.lock (at most one)
    issued,    \* server: number of the last exchange that succeeded
    live,      \* server: refresh tokens it accepts
    dead,      \* server: access tokens it answers with 401
    refused,   \* history: refresh tokens it answered with such an error
    stale,     \* access tokens past expires_at - TOKEN_REFRESH_SKEW_S
    records    \* number of the last progress record a sync made

procVars == <<pc, cmd, mem, cur, body, retried>>
serverVars == <<issued, live, dead, refused>>
vars == <<disk, pc, cmd, mem, cur, body, retried, lock, synclock,
          issued, live, dead, refused, stale, records>>

Labels == {"idle", "token", "wait", "read", "post", "save", "reject", "call",
           "sync", "store", "login", "loginload", "loginsave", "stuck"}

\* Inside `with _token_lock()`.
Critical == {"read", "post", "save", "reject"}

TypeOK ==
    /\ disk \in State
    /\ pc \in [Proc -> Labels]
    /\ cmd \in [Proc -> {"none", "api", "refresh", "sync", "auth"}]
    /\ mem \in [Proc -> Body]
    /\ cur \in [Proc -> State]
    /\ body \in [Proc -> Body]
    /\ retried \in [Proc -> BOOLEAN]
    /\ lock \subseteq Proc
    /\ synclock \subseteq Proc
    /\ issued \in Nat
    /\ live \subseteq Nat
    /\ dead \subseteq Nat
    /\ refused \subseteq Nat
    /\ stale \subseteq Nat
    /\ records \in Nat

\* One login has happened; its tokens, the first exchange's, are on disk.
Init ==
    /\ disk = [at |-> 1, rt |-> 1, rej |-> FALSE, data |-> 0]
    /\ pc = [p \in Proc |-> "idle"]
    /\ cmd = [p \in Proc |-> "none"]
    /\ mem = [p \in Proc |-> NoBody]
    /\ cur = [p \in Proc |-> EmptyState]
    /\ body = [p \in Proc |-> NoBody]
    /\ retried = [p \in Proc |-> FALSE]
    /\ lock = {}
    /\ synclock = {}
    /\ issued = 1
    /\ live = {1}
    /\ dead = {}
    /\ refused = {}
    /\ stale = {}
    /\ records = 0

-----------------------------------------------------------------------------
(* Helpers *)

Fresh(s) == s.at # NoToken /\ s.at \notin stale

\* _adopt: only keys present in the source are copied.
Adopt(s, source) ==
    [s EXCEPT !.at = IF source.at # NoToken THEN source.at ELSE @,
              !.rt = IF source.rt # NoToken THEN source.rt ELSE @]

\* Seeded fault for Merge: a new grant does not clear the rejection of the old one.
MergeKeepsMark(s, b) ==
    [s EXCEPT !.at = b.at, !.rt = IF b.rt # NoToken THEN b.rt ELSE @]

\* What a successful exchange writes into a state dict.
Merge(s, b) ==
    [s EXCEPT !.at = b.at,
              !.rt = IF b.rt # NoToken THEN b.rt ELSE @,
              !.rej = FALSE]

\* Seeded fault for Presented: the snapshot of the command's start wins.
PresentedSnapshot(p) == IF mem[p].rt # NoToken THEN mem[p].rt ELSE cur[p].rt

\* The refresh token an exchange presents: the newest one wins.
Presented(p) == IF cur[p].rt # NoToken THEN cur[p].rt ELSE mem[p].rt

Goto(p, l) == pc' = [pc EXCEPT ![p] = l]

\* A process will not look at its variables again.
Leave(p, l) ==
    /\ Goto(p, l)
    /\ cmd' = [cmd EXCEPT ![p] = "none"]
    /\ mem' = [mem EXCEPT ![p] = NoBody]
    /\ cur' = [cur EXCEPT ![p] = EmptyState]
    /\ body' = [body EXCEPT ![p] = NoBody]
    /\ retried' = [retried EXCEPT ![p] = FALSE]

\* The command returns or dies: its variables and its flocks go with it.
Exit(p) ==
    /\ Leave(p, "idle")
    /\ lock' = lock \ {p}
    /\ synclock' = synclock \ {p}

\* access_token raised.  That ends the command; but a sync run still records how
\* it died, and a watched one goes on with its next artist.
Fail(p) ==
    IF cmd[p] = "sync"
    THEN /\ Goto(p, "sync")
         /\ lock' = lock \ {p}
         /\ cur' = [cur EXCEPT ![p] = EmptyState]
         /\ body' = [body EXCEPT ![p] = NoBody]
         /\ UNCHANGED <<cmd, mem, retried, synclock>>
    ELSE Exit(p)

\* access_token leaves _token_lock and returns to its caller, whose `state`
\* is now m; `da refresh` has nothing more to do.
Return(p, m) ==
    IF cmd[p] = "refresh" THEN Exit(p)
    ELSE /\ Goto(p, "call")
         /\ lock' = lock \ {p}
         /\ mem' = [mem EXCEPT ![p] = m]
         /\ cur' = [cur EXCEPT ![p] = EmptyState]
         /\ body' = [body EXCEPT ![p] = NoBody]
         /\ UNCHANGED <<cmd, retried, synclock>>

-----------------------------------------------------------------------------
(* Commands start.  Every one loads state.json first.                      *)

StartApi(p) ==
    /\ "api" \in Commands[p] /\ pc[p] = "idle"
    /\ cmd' = [cmd EXCEPT ![p] = "api"]
    /\ mem' = [mem EXCEPT ![p] = Tokens(disk)]
    /\ retried' = [retried EXCEPT ![p] = FALSE]
    /\ Goto(p, "token")
    /\ UNCHANGED <<disk, cur, body, lock, synclock, serverVars, stale, records>>

\* cmd_refresh forces the exchange: no look at the cached token.
StartRefresh(p) ==
    /\ "refresh" \in Commands[p] /\ pc[p] = "idle"
    /\ cmd' = [cmd EXCEPT ![p] = "refresh"]
    /\ mem' = [mem EXCEPT ![p] = Tokens(disk)]
    /\ Goto(p, "wait")
    /\ UNCHANGED <<disk, cur, body, retried, lock, synclock, serverVars, stale,
                   records>>

\* A sync that finds .sync.lock taken exits 0 at once: nothing changes.
StartSync(p) ==
    /\ "sync" \in Commands[p] /\ pc[p] = "idle" /\ synclock = {}
    /\ synclock' = {p}
    /\ cmd' = [cmd EXCEPT ![p] = "sync"]
    /\ mem' = [mem EXCEPT ![p] = Tokens(disk)]
    /\ retried' = [retried EXCEPT ![p] = FALSE]
    /\ Goto(p, "token")
    /\ UNCHANGED <<disk, cur, body, lock, serverVars, stale, records>>

StartAuth(p) ==
    /\ "auth" \in Commands[p] /\ pc[p] = "idle"
    /\ cmd' = [cmd EXCEPT ![p] = "auth"]
    /\ Goto(p, "login")
    /\ UNCHANGED <<disk, mem, cur, body, retried, lock, synclock, serverVars,
                   stale, records>>

Logout(p) ==
    /\ "logout" \in Commands[p] /\ pc[p] = "idle"
    /\ disk' = EmptyState
    /\ UNCHANGED <<procVars, lock, synclock, serverVars,
                   stale, records>>

-----------------------------------------------------------------------------
(* access_token *)

\* The cached token is still fresh; or the exchange is needed.
CheckCached(p) ==
    /\ pc[p] = "token"
    /\ Goto(p, IF Fresh(mem[p]) THEN "call" ELSE "wait")
    /\ UNCHANGED <<disk, cmd, mem, cur, body, retried, lock, synclock,
                   serverVars, stale, records>>

\* Seeded fault for AcquireTokenLock: a shared lock.
AcquireShared(p) ==
    /\ pc[p] = "wait"
    /\ lock' = lock \cup {p}
    /\ Goto(p, "read")
    /\ UNCHANGED <<disk, cmd, mem, cur, body, retried, synclock, serverVars,
                   stale, records>>

AcquireTokenLock(p) ==
    /\ pc[p] = "wait" /\ lock = {}
    /\ lock' = {p}
    /\ Goto(p, "read")
    /\ UNCHANGED <<disk, cmd, mem, cur, body, retried, synclock, serverVars,
                   stale, records>>

\* Seeded fault for TokenLockTimeout: the poll loop has no deadline.
TokenLockPolls(p) ==
    pc[p] = "wait" /\ lock # {} /\ UNCHANGED vars

\* TOKEN_LOCK_TIMEOUT_S passed: proceed without the lock.
TokenLockTimeout(p) ==
    /\ "timeout" \in Faults /\ pc[p] = "wait" /\ lock # {}
    /\ Goto(p, "read")
    /\ UNCHANGED <<disk, cmd, mem, cur, body, retried, lock, synclock,
                   serverVars, stale, records>>

\* Another process refreshed while this one waited: use its token.
ReadAdopt(p) ==
    /\ pc[p] = "read" /\ Fresh(disk) /\ disk.at # mem[p].at
    /\ Return(p, Adopt(mem[p], disk))
    /\ UNCHANGED <<disk, serverVars, stale, records>>

ReadNoToken(p) ==
    /\ pc[p] = "read" /\ ~(Fresh(disk) /\ disk.at # mem[p].at)
    /\ disk.rt = NoToken /\ mem[p].rt = NoToken
    /\ Fail(p)
    /\ UNCHANGED <<disk, serverVars, stale, records>>

\* Seeded fault for ReadPresent: the double-checked re-read never adopts.
ReadPresentAlways(p) ==
    /\ pc[p] = "read"
    /\ disk.rt # NoToken \/ mem[p].rt # NoToken
    /\ cur' = [cur EXCEPT ![p] = disk]
    /\ Goto(p, "post")
    /\ UNCHANGED <<disk, cmd, mem, body, retried, lock, synclock, serverVars,
                   stale, records>>

ReadPresent(p) ==
    /\ pc[p] = "read" /\ ~(Fresh(disk) /\ disk.at # mem[p].at)
    /\ disk.rt # NoToken \/ mem[p].rt # NoToken
    /\ cur' = [cur EXCEPT ![p] = disk]
    /\ Goto(p, "post")
    /\ UNCHANGED <<disk, cmd, mem, body, retried, lock, synclock, serverVars,
                   stale, records>>

\* The server rotates: the presented token is consumed, a new pair is issued.
Rotate(used, rotate) ==
    /\ issued < MaxIssued
    /\ issued' = issued + 1
    /\ live' = IF rotate THEN (live \ {used}) \cup {issued + 1} ELSE live
    /\ UNCHANGED dead

ExchangeOk(p) ==
    /\ pc[p] = "post" /\ Presented(p) \in live
    /\ \E rotate \in Rotation :
          /\ Rotate(Presented(p), rotate)
          /\ body' = [body EXCEPT ![p] =
                 [at |-> issued + 1, rt |-> IF rotate THEN issued + 1 ELSE NoToken]]
    /\ Goto(p, "save")
    /\ UNCHANGED <<disk, cmd, mem, cur, retried, lock, synclock, refused, stale,
                   records>>

\* The server rotated, but the answer never arrived (HttpError), or was a 200
\* without an access token (AuthError): nothing is saved, nothing marked.
ExchangeLost(p) ==
    /\ "lost" \in Faults /\ pc[p] = "post" /\ Presented(p) \in live
    /\ Rotate(Presented(p), TRUE)
    /\ Fail(p)
    /\ UNCHANGED <<disk, refused, stale, records>>

\* A retryable 5xx, an unreachable server, or a 200 without an access token:
\* nothing consumed, nothing marked.
ExchangeUnavailable(p) ==
    /\ pc[p] = "post"
    /\ Fail(p)
    /\ UNCHANGED <<disk, serverVars, stale, records>>

\* Seeded fault for ExchangeRejected: an outage counts as the grant being gone.
ExchangeRejectedAny(p) ==
    /\ pc[p] = "post"
    /\ Goto(p, "reject")
    /\ UNCHANGED <<disk, cmd, mem, cur, body, retried, lock, synclock,
                   serverVars, stale, records>>

\* Any other HTTP error counts as the grant being gone, whatever made the server
\* answer it: the token is consumed or withdrawn; or it is good, and refused; or
\* it was good, and the error is all that is left of the answer.
ExchangeRejected(p) ==
    /\ pc[p] = "post"
    /\ \/ /\ Presented(p) \notin live \/ "refuse" \in Faults
          /\ UNCHANGED <<issued, live, dead>>
       \/ /\ Presented(p) \in live /\ {"refuse", "lost"} \subseteq Faults
          /\ Rotate(Presented(p), TRUE)
    /\ refused' = refused \cup {Presented(p)}
    /\ Goto(p, "reject")
    /\ UNCHANGED <<disk, cmd, mem, cur, body, retried, lock, synclock, stale,
                   records>>

\* Seeded fault for SaveTokens: the answer is merged into the caller's snapshot.
SaveTokensSnapshot(p) ==
    /\ pc[p] = "save"
    /\ disk' = Merge([disk EXCEPT !.at = mem[p].at, !.rt = mem[p].rt], body[p])
    /\ Return(p, Adopt(mem[p], disk'))
    /\ UNCHANGED <<serverVars, stale, records>>

SaveTokens(p) ==
    /\ pc[p] = "save"
    /\ disk' = Merge(cur[p], body[p])
    /\ Return(p, Adopt(mem[p], disk'))
    /\ UNCHANGED <<serverVars, stale, records>>

SaveRejection(p) ==
    /\ pc[p] = "reject"
    /\ disk' = [cur[p] EXCEPT !.rej = TRUE]
    /\ Fail(p)
    /\ UNCHANGED <<serverVars, stale, records>>

-----------------------------------------------------------------------------
(* authed_http_json: the request itself *)

CallOk(p) ==
    /\ pc[p] = "call" /\ mem[p].at \notin dead
    /\ IF cmd[p] = "sync"
       THEN /\ Goto(p, "sync")
            /\ UNCHANGED <<cmd, mem, cur, body, retried, lock, synclock>>
       ELSE Exit(p)
    /\ UNCHANGED <<disk, serverVars, stale, records>>

\* First 401: force an exchange, past the fresh check.
Call401(p) ==
    /\ pc[p] = "call" /\ mem[p].at \in dead \cup stale /\ ~retried[p]
    /\ retried' = [retried EXCEPT ![p] = TRUE]
    /\ Goto(p, "wait")
    /\ UNCHANGED <<disk, cmd, mem, cur, body, lock, synclock, serverVars,
                   stale, records>>

\* Second 401: sys.exit(2), which a watched run survives.
Call401Again(p) ==
    /\ pc[p] = "call" /\ mem[p].at \in dead \cup stale /\ retried[p]
    /\ Fail(p)
    /\ UNCHANGED <<disk, serverVars, stale, records>>

-----------------------------------------------------------------------------
(* A sync run: more requests, records, and the end of the run.             *)

\* With the dict it has, or, for the next artist of a watched run, read anew.
SyncNextRequest(p) ==
    /\ pc[p] = "sync"
    /\ retried' = [retried EXCEPT ![p] = FALSE]
    /\ \E m \in {mem[p], Tokens(disk)} : mem' = [mem EXCEPT ![p] = m]
    /\ Goto(p, "token")
    /\ UNCHANGED <<disk, cmd, cur, body, lock, synclock, serverVars, stale,
                   records>>

\* load_state before a record of progress, or of a failure, is written ...
SyncLoad(p) ==
    /\ pc[p] = "sync" /\ records < MaxRecords
    /\ cur' = [cur EXCEPT ![p] = disk]
    /\ Goto(p, "store")
    /\ UNCHANGED <<disk, cmd, mem, body, retried, lock, synclock, serverVars,
                   stale, records>>

\* ... and save_state of the dict that was read.
SyncStore(p) ==
    /\ pc[p] = "store"
    /\ records' = records + 1
    /\ disk' = [cur[p] EXCEPT !.data = records + 1]
    /\ cur' = [cur EXCEPT ![p] = EmptyState]
    /\ Goto(p, "sync")
    /\ UNCHANGED <<cmd, mem, body, retried, lock, synclock, serverVars, stale>>

SyncEnd(p) ==
    /\ pc[p] = "sync"
    /\ Exit(p)
    /\ UNCHANGED <<disk, serverVars, stale, records>>

-----------------------------------------------------------------------------
(* `da auth`: the code is exchanged, then state.json is read and rewritten,*)
(* without the token lock.                                                 *)

\* A new login replaces the previous grant and its access tokens.
LoginExchange(p) ==
    /\ pc[p] = "login" /\ issued < MaxIssued
    /\ issued' = issued + 1
    /\ live' = {issued + 1}
    /\ dead' = 1..issued
    /\ body' = [body EXCEPT ![p] = [at |-> issued + 1, rt |-> issued + 1]]
    /\ Goto(p, "loginload")
    /\ UNCHANGED <<disk, cmd, mem, cur, retried, lock, synclock, refused, stale,
                   records>>

\* The browser round trip or the exchange failed: nothing is written.
LoginFailed(p) ==
    /\ pc[p] = "login"
    /\ Exit(p)
    /\ UNCHANGED <<disk, serverVars, stale, records>>

LoginLoad(p) ==
    /\ pc[p] = "loginload"
    /\ cur' = [cur EXCEPT ![p] = disk]
    /\ Goto(p, "loginsave")
    /\ UNCHANGED <<disk, cmd, mem, body, retried, lock, synclock, serverVars,
                   stale, records>>

LoginSave(p) ==
    /\ pc[p] = "loginsave"
    /\ disk' = Merge(cur[p], body[p])
    /\ Exit(p)
    /\ UNCHANGED <<serverVars, stale, records>>

-----------------------------------------------------------------------------
(* The environment *)

Crash(p) ==
    /\ "crash" \in Faults /\ pc[p] \notin {"idle", "stuck"}
    /\ Exit(p)
    /\ UNCHANGED <<disk, serverVars, stale, records>>

\* The process hangs for ever and keeps its flocks.
Stick(p) ==
    /\ "stuck" \in Faults /\ pc[p] \in Critical
    /\ Leave(p, "stuck")
    /\ UNCHANGED <<disk, lock, synclock, serverVars, stale, records>>

\* The clock passes expires_at - TOKEN_REFRESH_SKEW_S of an access token.
Expire(t) ==
    /\ t \notin stale
    /\ stale' = stale \cup {t}
    /\ UNCHANGED <<disk, procVars, lock, synclock, serverVars, records>>

Revoke ==
    /\ "revoke" \in Faults /\ live # {}
    /\ live' = {}
    /\ dead' = 1..issued
    /\ UNCHANGED <<disk, procVars, lock, synclock, issued, refused, stale, records>>

-----------------------------------------------------------------------------
Start(p) == StartApi(p) \/ StartRefresh(p) \/ StartSync(p) \/ StartAuth(p) \/ Logout(p)

AccessToken(p) ==
    \/ CheckCached(p) \/ AcquireTokenLock(p) \/ TokenLockTimeout(p)
    \/ ReadAdopt(p) \/ ReadNoToken(p) \/ ReadPresent(p)
    \/ ExchangeOk(p) \/ ExchangeLost(p) \/ ExchangeUnavailable(p)
    \/ ExchangeRejected(p) \/ SaveTokens(p) \/ SaveRejection(p)

Request(p) == CallOk(p) \/ Call401(p) \/ Call401Again(p)

Sync(p) == SyncNextRequest(p) \/ SyncLoad(p) \/ SyncStore(p) \/ SyncEnd(p)

Login(p) == LoginExchange(p) \/ LoginFailed(p) \/ LoginLoad(p) \/ LoginSave(p)

Step(p) == AccessToken(p) \/ Request(p) \/ Sync(p) \/ Login(p)

Next ==
    \/ \E p \in Proc : Start(p) \/ Step(p) \/ Crash(p) \/ Stick(p)
    \/ \E t \in 1..issued : Expire(t)
    \/ Revoke

Spec == Init /\ [][Next]_vars

\* A process that has started keeps running: the poll loop of _token_lock, the
\* HTTP timeouts and the code after them need nothing from other processes.  A
\* sync cannot ask for pages for ever: its loop ends with the time budget.
FairSpec == Spec /\ \A p \in Proc : WF_vars(Step(p)) /\ SF_vars(SyncEnd(p))

-----------------------------------------------------------------------------
(* Properties *)

\* Every process that is inside the token lock owns it: the exchange is
\* serialised as long as nobody times out (lock.py:76).
Exclusive == \A p \in Proc : pc[p] \in Critical => lock = {p}

\* A refresh token is never presented twice while the grant lives: the loser
\* of such a race gets invalid_grant and dies (auth.py:86-92).
NoReplay ==
    live # {} => \A p \in Proc : pc[p] = "post" => Presented(p) \in live

\* What DeviantArt issued last is what the next run will present: outside the
\* step between an answer and its save, state.json holds a token the server
\* accepts (tests/test_refresh_race.py:199).
GrantOnDisk ==
    live # {} /\ (\A p \in Proc : pc[p] # "save") => disk.rt \in live

\* No rotation that the re-read under the lock makes unnecessary: whoever posts
\* found no fresh token on disk but the one it was told to replace
\* (auth.py:94-99, "every extra rotation is another chance to strand a token").
NoNeedlessRotation ==
    \A p \in Proc : pc[p] = "post" => ~Fresh(disk) \/ disk.at = mem[p].at

\* The rejection mark means that nothing will work again: no grant of this
\* application is alive (auth.py:144-148).  Only when the token endpoint refuses
\* no good token: the code marks on every error it does not retry.
MarkMeansGone == disk.rej => live = {}

\* For every command and every fault: the mark in state.json stands beside the
\* token that was refused, never beside one that another process or a new login
\* has stored since, so `sync watched`, which gives up on the mark, never gives up
\* on a grant nobody has refused (auth.py:167-181, 868-874).  It rests on every
\* writer replacing the whole dict, mark and token together.
MarkJustified == disk.rej => disk.rt \in refused \cup {NoToken}

\* Every command comes to an end, even when the holder of the token lock hangs
\* for ever (lock.py:90-93).
EveryCommandEnds ==
    \A p \in Proc : pc[p] # "idle" ~> pc[p] \in {"idle", "stuck"}

-----------------------------------------------------------------------------
(* What it implements *)

Chain == INSTANCE GrantChain
         WITH Client <- Proc, stored <- disk.rt, accepted <- live, turn <- lock

\* Among commands that only refresh, the file and the lock are one chain of
\* single-use tokens, exchanged in turns: nobody rotates out of turn or with
\* anything but the stored token, and no turn ends with a token that exists only
\* in the memory of a process (auth.py:84-99, 167-177).
ImplementsGrantChain == Chain!GrantSpec
=============================================================================
