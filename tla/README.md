# da-cli in TLA+

da-cli (`da`) is a Python command line program that mirrors DeviantArt
galleries to disk. It runs unattended, several processes at a time: a nightly
`da sync`, a `da diagnose` every ten minutes, whatever the user types. The
processes share one `state.json`, one SQLite index, one archive directory, a
grant whose refresh token works once, and three kinds of locks that do not
cover all of it. These modules model that core, TLC checks them on small
instances, and TLAPS proves the most important invariants for all instances.

## 1. Inventory

| part | source | state it keeps | operations | what makes it correct | modelled in |
|---|---|---|---|---|---|
| OAuth token life cycle | `auth.py` | tokens, expiry and rejection mark in `state.json`; the caller's dict | `access_token`, `authed_http_json`, `da auth`, `da refresh`, `da auth logout` | the token issued last is the one the next run presents; a mark means what it says | `TokenStore`, which implements `GrantChain` |
| process locks | `lock.py` | flocks `.token.lock`, `.sync.lock` | wait with timeout; skip when taken | exclusion, and nobody hangs for ever | `TokenStore` |
| artist gallery walk | `sync.py` 727-944 | `galleries[artist]`: complete or offset | `da sync artist` with `--full`, `--offset`, `--dry-run` | the early stop strands nothing; repeated runs finish | `GallerySync` |
| feed walk | `sync.py` 515-724 | `last_feed_deviationid` | `da sync feed` | the checkpoint hides nothing that is not saved | `FeedSync` |
| watched sync | `sync.py` 947-1188 | ledger, deadline, `last_sync` | `da sync watched` | one budget for the run, an honest summary, no artist starves | `WatchedSync` |
| download workers, folders | `sync.py` 110-512 | archive directory, reservation lock | `_save_page_concurrent`, `_save_one`, `_resolve_folder` | nobody's folder is overwritten; what counts as done is on disk | `Archive`, which implements `Shelf` |
| synced index | `index.py` | SQLite table id -> folder | `index_add`, `index_filter_known`, bootstrap, rebuild | a row leads to its own, complete deviation | `Archive` |
| login certificate | `auth.py` 276-413 | two files in the state directory, staging directories | `_ensure_self_signed_cert` | the key is private at every moment; leftovers never block a login | `LoopbackCert` |
| OAuth login listener | `auth.py` 416-610, 702-876 | HTTPS server threads, captured code | `_capture_code_via_listener`, `_capture_code_via_paste`, `cmd_auth` | the right code, once; it ends | `LoginListener`, `AuthCommand` |
| configuration, secrets | `config.py`, `commands/config.py` | `config.json`, Keychain | `set_config_field`, `cmd_config_unset`, `load_config` | a load returns a secret that is in force; a rotation that the Keychain took leaves no readable copy behind | `ConfigStore` |
| `state.json` quarantine | `config.py` 248-281 | the moved file | `load_state` | | not modelled |
| HTTP client | `net.py` | a call's attempts | `http_json`, `http_post_json`, `http_bytes` | an exchange is never sent twice | `HttpRetry` |
| auth status, diagnose | `auth.py` 613-699, `commands/diagnose.py` | none, read the others' | ask, classify, report | no verdict that DeviantArt did not give | `Monitor` |
| search, user, bench | `commands/` | none | one authenticated request each | as any API command | `TokenStore` (`"api"`) |
| command line, installers, doc tools | `__init__.py`, `*.sh`, `tools/` | none | parsing, help, exit codes | | not modelled: sequential or without state |

How they interact. Every sync takes `.sync.lock` (a second one is skipped) and
reads `state.json` once into a dict it carries along. Each API call goes through
`authed_http_json` and `access_token`, which takes `.token.lock` for the
exchange, re-reads the file and writes it back whole. Syncs write their progress
into the same file by read-modify-write *without* `.token.lock`. A page goes to
a pool of threads, which share the reservation lock, the folders and the index;
`da index rebuild` works on the index from another process under neither lock.
`sync watched` calls the artist walk in a loop and writes a summary of its own.
`da auth` loads the configuration, makes or reuses a certificate, waits for the
browser's redirect on a local HTTPS server with a thread per connection, and
exchanges the code. `da auth status` and `da diagnose` read what the others wrote
and ask DeviantArt, which may itself be an exchange.

The hard behaviours are listed, each at its line, under `hazards` in
`PROJECT.json`, with the property that would catch it going wrong.

## 2. The modules

Each module's header comment lists its abstractions and its `Faults`: the set of
things that may happen besides runs that end well. A run chooses a subset, so a
property is checked under exactly the conditions under which the code promises
it. Definitions marked "Seeded fault" are never part of a specification: they
are bugs the code could have, and show that the properties notice them.

### TokenStore (`auth.py`, `lock.py`)

Processes `p \in Proc` run one command after another, of those `Commands[p]` names.
`disk` is `state.json`, `mem[p]` the tokens of the dict the command loaded at its
start (no more of it decides anything here), `cur[p]` the dict it read last and may
write back, `body[p]` the token endpoint's answer. A token is the number of the
exchange that issued it, `live` and `dead` are what the server accepts and rejects,
`refused` (history) the tokens it has answered with an error that the code does not
retry: a spent or withdrawn one, or, with the fault `"refuse"`, a good one (429, 408,
501, 52x, the 401 of a wrong client secret). `access_token` is `CheckCached`,
`AcquireTokenLock` / `TokenLockTimeout`, `ReadAdopt` / `ReadNoToken` / `ReadPresent`,
`Exchange...`, `SaveTokens` / `SaveRejection`; `authed_http_json` is `CallOk`,
`Call401`, `Call401Again` around it. A sync alternates requests with `SyncLoad` and
`SyncStore`, the two halves of its unlocked read-modify-write; a login is
`LoginExchange`, `LoginLoad`, `LoginSave`. Between any two steps another process may
run, crash, or hang with the lock held.

### GrantChain, and how TokenStore implements it

The abstract specification of the token life cycle: three variables, the `stored`
refresh token, the ones the server `accept`s, and whose `turn` it is. A client takes
the turn when nobody has it, may rotate the stored token only in its turn, and may end
the turn only when what is stored works (or nothing does any more).
`ImplementsGrantChain` maps `stored` to `disk.rt`, `accepted` to `live`, `turn` to the
token lock. The 40 steps of TokenStore become four: files, dicts in memory, re-reads,
waits and requests are stutters. It holds for commands that only refresh, while nobody
dies, gives up the wait or loses an answer (`Disciplined`); the syncs' unlocked writes
are what breaks it, and `token_lostupdate` shows that on `GrantOnDisk`.

### ConfigStore (`config.py`, `commands/config.py`)

The client secret in `config.json` and in the Keychain. One user runs
`config set` (`BeginSet`, `KeychainSet`, then the three steps of
`_drop_from_config_file`, or the fallback to the file) and `config unset`, which
delete and write in two places, and may be killed after each step; readers
load the file first (`LoadFile`) and ask the Keychain after it (`LoadKeychain`,
`LoadUnanswered`). Any single call of `security` may fail in a Keychain that answers
the others: the set then falls back to the file although the Keychain still holds an
older secret, the unset goes on although its delete did nothing (`KeychainKeeps`). A
file may be missing, a JSON object, "odd" (JSON of another kind, on which unset raises
TypeError: `UnsetCrashes`) or "broken" (does not parse), and the last two may hold the
text of a secret: `_drop_from_config_file` leaves such a file as it is. `inforce` is
history: the secrets that may be in force, given which commands were begun, completed,
refused or killed; `allowed[r]` collects it while `r` reads.

### LoopbackCert (`_ensure_self_signed_cert`)

Each `da auth` run goes through the function step by step: reuse and lock down,
or stage, openssl, check, chmod, move the key, move the certificate, clean,
verify, and the listener's `load_cert_chain`. Several runs interleave, each may
be killed between two steps, openssl may be missing, fail, write nothing or
rubbish, and mkdtemp, chmod and replace may raise. A chmod of a pair that was there
before may be refused, which `_lock_down` suppresses: `unlocked` (history) names the
runs that met this. A pair is the number of the openssl call that made it, so a key and a
certificate of two runs do not match. `cause` is history: what a run may blame.

### LoginListener (`_capture_code_via_listener`)

`stage[c]` leads a connection from the accept queue through its thread's
handshake and `do_GET` (`Capture`, `NotFound`, `Answer`); the main thread polls
`captured`, closes the server and only then reads it (`CloseAndRead`). The
browser sends the redirect, repeats it, declines, asks for a favicon, opens
silent connections; others send codes and refusals whose state is not ours. `Paste`
is the other way in: it takes any code that is pasted, an old or a planted one too, as
the code compares no state there. `Exchange`, `ExchangeFails` and `Save` are the rest
of `cmd_auth`.

### AuthCommand (`cmd_auth`)

Composes the three: `AuthSpec` conjoins their variables, and the certificate
race ends with one run that binds the port (`Listen`) and others that do not
(`PortTaken`). A run never looks back at a store it has passed, so the next part
starts with the earlier ones at rest (`ConfigAtRest`, `CertAtRest`): this keeps
the product of three independent state spaces out of the check and loses no
behaviour of any of them, as each one's invariants speak of its own variables.

### HttpRetry (`net.py`) and Monitor (`da auth status`, `da diagnose`)

HttpRetry is the loop of `http_json`, `http_post_json` and `http_bytes`: one call,
its attempts, what is tried again and what is raised. Monitor EXTENDS it and uses
its `Request`, `Respond` and `Consume` for the exchange (`retries=0`) and for
`/placebo`. A run of either command reads `state.json`, decides whether to ask,
exchanges or calls, maps the outcome to a verdict (`Cause`, `Caught`) and reports.
Days pass between runs, others refresh, log in and log out. The answers are the
classes that the code tells apart and those it does not: a refusal of the token, a
5xx that is retried, an odd one that is not (408, 429, 501, 52x), a 2xx without what
was asked for, silence. `asked` is history: what DeviantArt said since the run began.

### GallerySync (`_cmd_sync_artist_impl`)

Repeated runs over one gallery, newest first, by offset. `progress` is the entry
of `galleries`; `saved` is what the index calls known. `FetchKnown` is the fast
path of a page without unknowns, `FetchUnknown` and `SavePage` the other one,
`CaughtUp` the early stop, `Record` the code after the loop. The artist posts
and deletes, the user passes flags in any combination or removes folders, `sync feed`
saves items. A deviation without a downloadable image (`NoImage`) is counted and never
indexed, so it stays unknown for ever. `promised` is history: the images a `--full` run
owes; a deletion above the walk takes one of them past it (`NextUp`).

### FeedSync (`_cmd_sync_feed_impl`)

As above for the feed: `last` is the checkpoint, `newTop` the newest deviation
the run saw first, `Trimmed` the part of a page above the checkpoint, `Record`
the conditions under which the checkpoint moves.

### WatchedSync (`_cmd_sync_watched_impl`)

The loop over the artists, in time. `now` counts from the run's `started`.
`TakeArtist` computes the artist's budget *before* the token check, the walk's own
clock starts after it (`TokenOk`), and the page loop compares the two
(`PageInBudget`). An artist ends as done (`EndWalk`: finished, out of budget, or an
HTTP error, which the walk swallows) or failed (`CountFailed`: AuthError and other
exceptions, SystemExit without the mark, before its first page or later). A SystemExit
before the discovery ends the run and records nothing (`StartExits`). `Finish` writes
the summary. The gallery itself is a number of pages; its details are GallerySync's.

### Archive (`_save_page_concurrent`, `_save_one`, `index.py`)

Threads `w \in Worker` take the page's deviations. `Take` resolves and reserves
a folder, `IndexHas` and `Backfill` are the early returns, `Describe` writes
description.json, `Commit` renames the image into place, `IndexAdd` inserts the
row; failures may come at each of them, exceptions of the index included. A rebuild
scans, wipes and refills the index row by row in between, as every row is committed
by itself, and may be killed between any two; the bootstrap of a run goes through the
same steps. Titles are data of DeviantArt and may change (`Retitle`). Which pages the
pool is handed is left open: that is the walks' subject. `damaged` is history: folders
whose description was unreadable since their image was written. Two of three
deviations with one title share the id prefix of the first suffix.

### Shelf, and how Archive implements it

The abstract specification of one artist's archive, which says what the comments of
`_save_one` and `_folder_is_complete` promise: where each deviation stands
(`place`), what the `catalogue` says of it, what a run has `reported` as done. A
deviation is put as a whole in a place that is nobody else's, and stays; catalogue
and report may become anything that is true. `ImplementsShelf` maps `place` to the
folder that holds the deviation's own description and image (`Place`), `catalogue`
to the index, `reported` to the statuses `ok` and `dup`. The one step that puts is
`Commit`, and it stutters when a retry brings an image that is there already;
reservations, half-filled folders, workers, kills and rebuilds are invisible or
change only catalogue and report. Deleting folders and damaging descriptions is
tampering with the shelf and left out of it; so are new titles, with which a save
that failed half-way may be completed in a second folder.

### Proof modules

`TokenStoreProofs`, `GallerySyncProofs`, `FeedSyncProofs`, `WatchedSyncProofs`,
`ArchiveProofs`, `ConfigStoreProofs`, `AuthCommandProofs` and `MonitorProofs` extend the
module they are named after. `AuthCommandProofs` holds what is proved of LoopbackCert
and LoginListener by themselves, cites `ConfigStoreProofs`, and proves the composition
from the three. The models write recursion nowhere.
`MCTokenStore`, `MCGallerySync`, `MCArchive` and `MCWatchedSync` hold what a
cfg cannot write: symmetry sets, functions as constants.

The modules are separate on purpose: they meet in `state.json` and the index
through few facts, and each takes the other's effect as an action of its
environment (`FeedSaves`, `ArtistSaves`, `SyncStore`, `RemoveFolder`). "Saved" in
the walks is `index[d] # None` with a complete folder in Archive, which
`RowsTell` and `OkMeansSaved` justify.

## 3. What the runs check

| run | instance | shows |
|---|---|---|
| `token_locked` | 3 processes, 3 tokens issued, authenticated commands and `da refresh`, with and without rotation, revocation | `Exclusive`, `NoReplay`, `GrantOnDisk`, `NoNeedlessRotation`, `MarkMeansGone`: the lock does its job while nobody dies or gives up waiting; `ImplementsGrantChain`: the refinement |
| `token_ends` | a scheduled sync in one process, `da refresh`, logins and logouts in another, 2 tokens issued, 1 progress record; timeouts, crashes, hangs, lost answers, refusals of good tokens | `MarkJustified`: the mark stands beside the token that was refused, never beside a later one; `EveryCommandEnds` |
| `token_lostupdate` | 2 processes, API commands and a sync, no fault at all | finding: `GrantOnDisk` fails |
| `gallery_regular` | pages of 2, 4 to 8 deviations, two of them without an image, truncated and `--full` runs, posts between runs | `NothingStranded`, `CaughtUpIsTrue`; repeated runs finish walks and fetch every image |
| `gallery_full` | pages of 2, 3 or 4 deviations, one without an image, every fault | `FullRecovers`: `--full` from the top is a way back from anything |
| `feed` | pages of 2, 0 to 6 deviations, every fault | `CheckpointSound`, `NeverPastCheckpoint`, `EverythingFetched` |
| `watched` | 2 artists with 4 and 2 pages, budget of 7 units, every fault | `LedgerAdds`, `RunBounded`, `Converges` |
| `watched_deadgrant` | 3 artists with 1, 2, 3 pages, budget of 10 units, only revocation | finding: `OneDoomedPost` fails |
| `archive_recover` | 3 deviations of one title, one without an image, two with a common id prefix, 2 threads; failures, kills, Ctrl-C, bootstraps, rebuilds, dropped index | `RowsTell`, `OneFolderEach`, `OkMeansSaved`; `ImplementsShelf`: the refinement; `EverythingRecovers`: nothing that a failure leaves behind blocks a retry |
| `archive_any` | 2 deviations that take 2 titles in turn, 2 threads; failures, kills, removed folders, unreadable descriptions | `FoldersKept`: no readable description, and no image beside one, becomes another deviation's |
| `login` | the whole command: 2 rotations of the secret and another key beside 1 reader, from every state of file and Keychain, with kills and refused calls of `security`; 2 runs, 2 new pairs, every fault of the certificate; 2 connections, 2 codes | `ReadsAreCurrent`, `NoLeftover`, `OthersKept`; `FreshKeyPrivate`, `ServedKeyPrivate`, `CertFailureHasCause`; `OnlyOurAnswer`, `HeardIsAnswered`, `RedirectHeard`, `EveryLoginEnds` |
| `monitor` | 4 days with a chain of 3, 3 tokens, 2 retries; revocation, network, both endpoints down or answering oddly | `GreenMeansAccepted`, `RevokedMeansAnswered`, `DaysNotOverstated`, `SentWithinRetries`, `EveryRunEnds` |

Why the bounds are enough to be interesting. *Tokens:* three issued tokens (the first
and two exchanges) allow a token to be consumed, replaced and consumed again while a
process still holds the first one, two still let a waiter that gave up present what
the holder consumed; three processes allow one inside the lock, one waiting and one
between commands; one progress record is enough for a lost update. Where one slot runs
the scheduled sync and the other what a user types, two refreshes never meet: that is
what `token_locked` is for. *Walks:* a page size of 2 and more than two pages gives a
first, an inner and a last page, mixed pages, and a page shifted by half; up to four
posts move an unfinished offset by two pages. *Watched:* with slow pages the first
artist's gallery outlasts the run, with fast ones the second one's is cut in the
middle, so skipped, truncated and finished artists all occur; what a dead grant costs
needs a third. *Archive:* two threads are enough for every pair of steps to
interleave, three deviations for a name taken by one while another is retried; two
titles let two deviations meet, part and meet again, where symmetry of titles and ids
makes up for the third one that is missing. *Configuration:* two rotations let a
reader that began before the first end after the second. *Login:* two logins mix their
key and certificate, and two new pairs let each of them make one, or one of them start
over; two connections are a redirect and one that comes before, after or beside it,
and a third one would only repeat either. *Monitor:* a chain of three days with limits
at two and one reaches every grade and outlives it by a day; three tokens are a login
or refresh before, during and after a run.

Bounds are constants and occur only in guards that stop the environment
(`MaxIssued`, `MaxRecords`, `MaxPosted`, `MaxSecrets`, `MaxOthers`, `MaxPairs`,
`MaxCodes`, `MaxDay`, `MaxTokens`) or bound a duration (`MaxToken`,
`MaxPage`, `MaxDiscover`). Symmetry is used over processes and threads, and in
`archive_any` over titles and deviations, whose names differ in nothing there; only in
runs without liveness. Deadlock is checked everywhere but in `token_ends`, where
all processes may hang and the server's bound may be reached, and in `login`,
which is over when the tokens are saved or the run has given up.

### Fairness

- *Processes go on* (`WF` of a process's steps): the token lock is polled with a
  timeout, HTTP calls have timeouts, and none of the steps waits for another
  process for ever. In TokenStore a sync's end is `SF`, as the time budget ends its
  loop whatever its requests do.
- *A login's threads go on* (`WF` of each connection's thread and of the main
  thread): they are Python threads, scheduled by the system, and none holds a lock
  that another waits for. Nothing is assumed of the browser, of a silent
  connection's timeout or of the clock: `RedirectHeard` needs no deadline, and
  `EveryLoginEnds` speaks of a run whose deadline has passed.
- *A monitor's run goes on* (`WF` of its steps): each call has a timeout, the
  attempts are counted, the token lock is polled.
- *Runs keep being started* (`WF` of a plain start): `install_schedule.sh`
  installs a launchd or cron job. Nothing is assumed of the user, except in
  WatchedSync that somebody whose grant is dead logs in (`WF_vars(Login)`).
- *Things stop going wrong.* In FeedSync, WatchedSync and Archive the liveness
  properties are about what a fault leaves behind, so the specification says
  that from some time on only good steps happen (`<>[][Good]_vars`). This is
  weaker than assuming that faults never happen, and says nothing on when.
  GallerySync does not need it: pages and their saves get through infinitely
  often (`SF`), truncated runs may go on for ever.
- *Nothing is assumed of what a walk hands to the pool.* Archive's fairness is `WF` of
  a thread's and of a rebuild's steps only. That a deviation is offered again after a
  failed save is not certain: the early stop of a plain run may pass above it (section
  4). So `EverythingRecovers` speaks of those that are offered, or known, again and
  again: for them nothing that was left behind is in the way.
- `Converges` also needs a budget with room for a look at every earlier artist:
  `MaxDiscover + (N - 1) * (MaxToken + MaxPage) + MinLeft <= Budget`. The instance
  has equality: with 6 instead of 7 the property fails.

## 4. What the code does not keep

Two runs that must find a violation; each is a finding in `PROJECT.json`.

1. `token_lostupdate`. `_record_sync_summary`, `_record_gallery_progress` and the
   feed checkpoint load, change and save the whole `state.json` without the token
   lock. An exchange that saves in between is undone: the file holds a consumed
   refresh token and the grant is lost.
2. `watched_deadgrant`. The guard against a dead grant sits in
   `except SystemExit`, but the rejection is an `AuthError`: the loop makes one
   doomed exchange per artist.

Four more statements of the code do not hold either. Each is a definition of its
module, and the first rows of the table below say how to see it fail.

3. `MarkMeansGone` with refusals. Every HTTP error of the token endpoint outside
   `RETRYABLE_HTTP_CODES` marks the grant as rejected (`auth.py:131-153`), a 429, a 501
   or the 401 of a wrong client secret too, while the grant lives. The comment there
   takes it for "DA telling us the grant is gone". What remains true is
   `MarkJustified`: the mark stands beside the token that was answered so.
4. `PathsAreUnique`. A folder whose description cannot be read is given to the next
   deviation of its title (`sync.py:129-147`), which overwrites what image there is;
   the first one's row goes on leading to it and goes on counting as known, so that no
   walk fetches it again. `index.py:190-192` takes paths for unique.
5. `SetTakesEffect`. When the Keychain refuses the new secret while it holds an older
   one, `config set` writes the new one to the file, says so, and every load goes on
   with the old one: the Keychain wins (`config.py:152-166`, `205`). What remains true
   is `ReadsAreCurrent`, which counts the refused Keychain's secret as one in force.
6. `RevokedMeansRefused`. Every HTTPError of `/placebo` counts as a rejected token
   (`auth.py:680-686`), so a 503 that outlives the retries is reported as `revoked`,
   though `auth.py:716` says that `revoked` means DeviantArt rejected it. What remains
   true is `RevokedMeansAnswered`.

Seen with the same modules by changing a cfg, and the reason why
the passing runs (and the proofs) state their conditions:

| change | fails | in the code |
|---|---|---|
| `MCTokenStore_locked`: Faults `{"refuse"}` | `MarkMeansGone` | point 3 |
| `MCArchive_any`: Faults `{"corrupt"}`, `INVARIANT PathsAreUnique` | `PathsAreUnique` | point 4 |
| `MCAuthCommand`: `INVARIANT SetTakesEffect` | `SetTakesEffect` | point 5 |
| `MCMonitor`: Faults `{"revoke", "apiill"}`, `INVARIANT RevokedMeansRefused` | `RevokedMeansRefused` | point 6 |
| same, Faults `{"odd"}` | `RevokedMeansRefused` | a 429, a 501 or a 200 without an access token likewise (`auth.py:131-165`, `680-686`) |
| `MCTokenStore_locked`: Faults `{"timeout"}` | `Exclusive`, `NoReplay`, `GrantOnDisk` | a waiter that gives up exchanges beside the holder (`lock.py:105`, documented) |
| same, `{"lost"}` or `{"crash"}` | `GrantOnDisk` | the answer of an exchange exists nowhere: inherent in rotation |
| same, Faults `{}`, every slot may run `{"api", "auth"}` | `MarkMeansGone`, `GrantOnDisk` | a login replaces a file that an exchange of the old grant is about to mark, or is overtaken by its save |
| `MCGallerySync_regular`: add `"crash"` to Faults | `NothingStranded` | a run of a complete gallery dies after its first page of several new ones: the next one finds that page known and stops |
| same, add `"dry"` | `CaughtUpIsTrue` | a `--dry-run` that reaches the end records the gallery complete (`sync.py:903`), although `docs/commands/sync.md:240` says "Fetch and count, write nothing."; the next run stops above what was never saved |
| same, add `"fail"` | `CaughtUpIsTrue` | a failed save does not keep the walk from being complete |
| same, add `"feed"` | `NothingStranded` | `sync feed` saved the newest item, the artist's other new ones lie below it |
| same, add `"delete"` | `NothingStranded` | a deletion shifts an unseen item to the page just read |
| same, add `"livepost"`, `MaxPosted = 10` | `CaughtUpIsTrue` | items just saved are shifted to the next page and taken for known |
| same, add `"offset"` or `"remove"` | `CaughtUpIsTrue` | a walk from an explicit offset counts as a whole one; the early stop does not look below |
| `MCArchive_any`, Faults `{"fail", "remove"}` or `{"fail", "corrupt"}`: `RowsTell`, `OneFolderEach` | each | a folder that was emptied, or that does not say whose it is, can be taken by another deviation of the title while the old row still counts as known; its own deviation, retried, may then find another name free |
| same, `{"fail", "retitle"}` | `OneFolderEach` | a save that failed after its description leaves a folder of the old title behind when it is retried under the new one |
| `MCWatchedSync`: `Budget = 6` | `Converges` | artists are walked in the same order, and each complete one costs a page a night: the last ones starve although `docs/commands/sync.md` 466-468 says that it converges |
| `MCWatchedSync`: no Faults, `INVARIANT CleanMeansWalked` | `CleanMeansWalked` | a run whose last artist ran out of budget is recorded as "all artists complete" (`sync.py:1161`) and graded clean, although `docs/commands/sync.md:671-672` calls a truncated run a warning |

More, for which no property is stated because the code does not try:

- A pasted address is not checked for its state (`auth.py:592-610`): a code that
  somebody else was given is exchanged, and DeviantArt refuses it only for a verifier
  that does not fit. `OnlyOurAnswer` says so.
- A key whose chmod is refused is served as it is (`auth.py:297` suppresses the error).
- A `config.json` that does not parse keeps the text of the secret in it through set
  and unset; `unset` of one that is JSON but no object ends with a TypeError.
- `config unset` deletes the Keychain's copy first. An older copy in the file is
  in force until the second step, and for good if the command is killed there;
  `ReadsAreCurrent` counts it as possibly in force from the start of the unset.
- A redirect that its thread handles after the wait is over is told
  "Authorized." although the run reports that it received no code.
- `ExchangeCrashes` and `PlaceboCrashes` are exceptions that
  neither `auth status` nor `diagnose` catches: exit code 2 and no report, where
  `diagnose.py:150-152` says "it must report, not traceback out".

`--full` is the way back from the gallery cases, as `FullRecovers` shows, but
only when it starts at the top: it resumes a recorded offset (`sync.py:762`)
although `docs/commands/sync.md:275-276` says that it ignores it.

## 5. What is proved

All proofs are complete and rest only on the named assumptions on constants;
the numbers of processes, artists, deviations, pages and faults are arbitrary.
Each first proves type correctness, then an inductive strengthening. The types of
every component are theorems (`...TypeCorrect`), so that the runs need not check
them again. Every safety property and every refinement that a passing run checks is
also a theorem, under the same faults as in the run or more. What a run refutes
(section 4) is not, of course: the theorems are about the weaker property that holds.

- `MarkIsJustified` (any commands and faults, refusals of good tokens included).
  `MarkJustified` is not inductive, since the dict that becomes the file was read
  earlier. `JustifiedInv` says of every dict a process may yet write that the token
  beside its mark was refused, and of a process about to mark the file that the token
  it read there is the one it was refused.
- What the token lock gives, each under the weakest conditions we know. `LockExcludes`
  needs only that nobody gives up the wait, whatever runs, dies or hangs (`HeldInv`:
  who is inside, or hangs there, holds the lock). `NothingRotatedInVain` needs besides
  that no sync and no login writes the file between the re-read and the post; a logout
  may (`FileStays`). `NothingReplayed`, `LockKeepsTheGrant` and `MarkIsTrue` are about
  API commands and `da refresh`, of which nobody dies or loses an answer
  (`Disciplined`): `LockedInv` says that what a process read under the lock is still
  the file when it writes. A refusal of a good token and a revocation harm only the
  mark, and a process that hangs with an answer keeps the lock, so that nobody
  presents what it has spent: only `GrantOnDisk` is lost. The table in section 4 shows
  what each omitted fault breaks.
- `ChainRefinement` (`Disciplined`): TokenStore implements `GrantChain`. Its
  steps are one lemma per action: the acquisition maps to `TakeTurn`, `ExchangeOk` to
  `RotateStored`, a release to `EndTurn`, the rest to stutters. `LockedInv` gives
  what these need: who posts holds the lock and presents what is on disk, and the
  save puts the answer there before the lock goes.
- `LoadsWhatIsInForce`, `RotationLeavesNothing`, `OtherKeysSurvive` (every schedule of
  ConfigStore, kills and refused calls of `security` included). The first is about
  loads that the Keychain answers, the second about commands that it took and files
  that can be parsed: without these conditions section 4 has counterexamples.
  `ConfigInv` says what the two places hold at each step of the user's command
  (`StoreInv`, `UserInv`), and of a reader that what it would be given now was in force
  since it began (`ReaderOk`).
- `MadeKeysArePrivate`, `ServedKeysArePrivate`, `LeftoversNeverBlock` (any number of
  logins and pairs, every fault). `CertInv` says that a staged key is locked from its
  chmod on, and that a run whose files do not load has either just begun, or not
  yet moved its own, or has something to blame. `ServedKeysArePrivate` leaves out keys
  whose chmod was refused.
- `AnswersAreOurs`, `NothingHeardIsLost` (any number of connections and codes).
  `ListenerInv` ties the contents of `captured` to the requests that reached
  `Capture`, and the answer to what was captured when it was read. Of a paste it only
  says what the verifier excludes.
- `AuthRunsConfigStore`, `AuthRunsListener`, `AuthIsSafe` (any number of runs). A step of
  AuthCommand is a step of ConfigStore or leaves its variables alone, so the command
  implements ConfigStore; the same for the listener's steps. For the certificate it is
  not so: a run that finds the port taken stops where LoopbackCert knows no step
  (`PortTaken`), and `CertInv` is shown to survive that too. With the three invariants
  together, all eight safety properties hold of the command.
- `NoGapIsLeftBehind`, `EarlyStopIsSound` (truncated and `--full` runs, crashes of
  first walks, posts between runs). `GalleryInv` says that below the point a walk has
  reached nothing is missing under a saved item (`Closed`), and of a page under
  way how its unknown part fills the gap (`PageOK`).
- `FullWalkOwesNothing` (every fault of GallerySync, deletions, failures and removed
  folders included). `FullInv` says of a `--full` walk from the top where each promised
  image is: saved, on the page under way, or at an offset not yet fetched. A post
  only moves it further down. A deletion at or below the next page takes nothing from
  the walk but what it deletes; one above moves exactly one deviation, the next one to be
  fetched, past it, and only that one is no longer promised (`NextUp`).
- `NothingOverwritten` (every fault of Archive: removed folders, unreadable
  descriptions and new titles too). It does not deny the loss of point 4 of section 4:
  an image may go where its description is, or has been since it was written,
  unreadable. `PoolInv` says what a worker may count on from the moment it resolved
  its folder: while it holds the reservation lock the folder is free for its
  deviation, afterwards the description names it. The last name tried holds the whole
  id (`LastNameIsOwn`), so it is free without being looked at (`HomeIsFree`): this
  needs that a folder is only ever described by a deviation that may have its name
  (`Named`).
- `IndexTellsTheTruth`, `NoSecondFolder`, `DoneIsOnDisk` (Archive while nobody deletes
  folders, damages descriptions or changes titles; failures, kills, Ctrl-C, rebuilds and a dropped
  index at any time). `KeptInv` says that every described folder is the first name that
  is free for its deviation (`FilesOk`), and so is every folder a worker was given
  (`Placed`). Such a folder is unique (`HomeIsUnique`), and it stays the first as long as
  no taken name becomes free (`HomeIsKept`): a retry therefore finds it again. The rows
  that a rebuild has collected but not written belong to the invariant (`RowsOk`).
- `ArchiveIsAShelf` (the same conditions): Archive implements `Shelf`. Only `Commit`
  completes a folder (`OnlyCommitPuts`), nobody else is there and nothing of the
  deviation is elsewhere (`CommitPuts`); what any step writes into the index or the
  statuses was true before the step (`WritesAreTrue`). `SavedIsKept` says it of the
  disk itself: what is saved stays.
- `CheckpointHidesNothing`, `WalkStopsAtCheckpoint` (every fault of FeedSync).
  `FeedInv` says of a clean, real run that it has covered everything from its new
  top down to where it is, and that the checkpoint lies below that.
- `LedgerIsComplete`, `BudgetBoundsTheRun` (every fault of WatchedSync).
  `IInv` counts the artists before `i` (`Counted`) and keeps the end of the walk's
  budget at the deadline, plus at most its token check (`Timely`).
- `GreenIsTrue`, `RevokedIsAnswered`, `DaysAreHonest`, `CallsAreBounded` (Monitor with
  any limits, retries, days and tokens, under every fault). `GreenInv` and `AnsweredInv`
  tie what a call has returned, before it is consumed, to what DeviantArt said. That an
  answered error is a refusal is not provable, as point 6 of section 4 shows. `DaysInv` says
  that no date on disk or in the run is younger than DeviantArt's own, also after an
  answer that was lost, and that a chain only gets younger while a run lasts.

Only model-checked is liveness, which is out of the prover's reach: `EveryCommandEnds`,
`WalkFinishes`, `EverythingFetched`, `EverythingRecovers`, `Converges`, `RedirectHeard`,
`EveryLoginEnds` and `EveryRunEnds`. That AuthCommand keeps the listener's fairness is
for the same reason not part of `AuthRunsListener`.

## 6. Not modelled

`load_state`'s quarantine of an unparsable file; environment variables, the
numeric check and the display of the configuration; two config commands at a
time; a corrupt index database, which ends the command; `.part` files, image
formats and file names (`safe_filename` is "two titles give one name"); deletions
and unwatching in the feed; posts during a watched run; the exit codes but those of
the two monitoring commands. In diagnose, the findings that only look at the machine
(destination, free space, redirect, index, schedule, certificate) are one
arbitrary level. `--dry-run` in Archive writes nothing. Each part left out is
listed in `PROJECT.json` with its reason.

## 7. Plan

Done, in this order: TokenStore, GallerySync, Archive, FeedSync, WatchedSync,
LoopbackCert, LoginListener, ConfigStore, AuthCommand, HttpRetry, Monitor,
GrantChain, Shelf, with the proofs named above. To do:

1. One more abstract specification: a fetch-everything service, which the walks
   implement.
2. FeedSync with deletions and unwatched artists; WatchedSync with posts;
   `load_state`'s quarantine beside TokenStore's writers.
