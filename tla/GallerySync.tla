---------------------------- MODULE GallerySync ----------------------------
(***************************************************************************)
(* `da sync artist`: repeated runs that walk one artist's gallery, newest  *)
(* deviation first, page by page, by offset (src/dacli/sync.py,            *)
(* _cmd_sync_artist_impl), and the record in state.json that lets the next *)
(* run stop early or resume (_gallery_progress, _record_gallery_progress). *)
(*                                                                         *)
(* Abstractions.  `saved` is what the index calls known after self-healing:*)
(* a row whose folder holds a description and an image.  A page's worker   *)
(* pool is one step that saves any part of the page a fault allows; the    *)
(* workers themselves are another module's subject.  A deviation without a *)
(* downloadable image is counted and never indexed, so every walk that     *)
(* fetches its page finds it unknown again.  The sync lock leaves          *)
(* at most one run at a time.  A run's HTTP 4xx/5xx answers and its time   *)
(* budget both just stop it at a page boundary ("truncated").              *)
(*                                                                         *)
(* Faults names what may happen besides plain runs that end well:          *)
(*   "truncate"   a stop by time budget or HTTP error                      *)
(*   "earlycrash" a run dies (signal, URLError, AuthError...) before the   *)
(*                gallery was ever recorded complete                       *)
(*   "crash"      a run dies at any time                                   *)
(*   "fail"       a save fails (download, disk)                            *)
(*   "full", "dry", "offset"   the user passes --full, --dry-run, --offset *)
(*   "post"       the artist posts, but not while a run that trusts the    *)
(*                early stop is under way                                  *)
(*   "livepost"   the artist posts at any time                             *)
(*   "delete"     the artist deletes                                       *)
(*   "feed"       `sync feed` saves an item of this artist                 *)
(*   "remove"     the user removes a deviation's folder                    *)
(***************************************************************************)
EXTENDS Integers, Sequences, FiniteSets

CONSTANTS Limit,      \* page size (--limit)
          Posted,     \* deviations in the gallery at first
          MaxPosted,  \* bound: deviations ever posted
          NoImage,    \* deviations without a downloadable image
          Faults      \* see above

ASSUME LimitAssumption == Limit \in Nat \ {0}
ASSUME PostedAssumption == Posted \in Nat /\ MaxPosted \in Nat
ASSUME NoImageAssumption == NoImage \subseteq Nat
ASSUME FaultsAssumption ==
    Faults \subseteq {"truncate", "earlycrash", "crash", "fail", "full", "dry",
                      "offset", "post", "livepost", "delete", "feed", "remove"}

VARIABLES
    gallery,   \* DeviantArt: the artist's deviations, OLDEST first
    posted,    \* DeviantArt: number of the last deviation posted
    saved,     \* deviations the index and the disk hold
    progress,  \* state.json: galleries[artist]
    pc,        \* where the run is
    full,      \* the run's --full
    dry,       \* the run's --dry-run
    trusted,   \* gallery_known_complete: read from progress at the start
    from,      \* the offset the run started at
    offset,    \* the offset of the page it is at
    todo,      \* the page's unknown deviations
    hasMore,   \* the page's has_more
    reason,    \* stop_reason
    promised   \* history: what a --full run still owes its user

external == <<gallery, posted>>
runVars == <<full, dry, trusted, from>>
vars == <<gallery, posted, saved, progress, pc, full, dry, trusted, from,
          offset, todo, hasMore, reason, promised>>

Terminal == {"gallery complete", "caught up"}
Reasons == Terminal \cup {"running", "empty page", "truncated"}

Items(s) == {s[k] : k \in DOMAIN s}

\* results of gallery/all: gallery[Len(gallery)] is the newest.
Page(o) == {gallery[k] : k \in {k \in DOMAIN gallery :
                /\ k <= Len(gallery) - o
                /\ k > Len(gallery) - o - Limit}}
MoreAfter(o) == o + Limit < Len(gallery)

TypeOK ==
    /\ gallery \in Seq(Nat)
    /\ posted \in Nat
    /\ saved \subseteq Nat
    /\ progress \in [complete : BOOLEAN, offset : Nat]
    /\ pc \in {"idle", "loop", "page", "end"}
    /\ full \in BOOLEAN /\ dry \in BOOLEAN /\ trusted \in BOOLEAN
    /\ from \in Nat /\ offset \in Nat
    /\ todo \subseteq Nat
    /\ hasMore \in BOOLEAN
    /\ reason \in Reasons
    /\ promised \subseteq Nat

\* The gallery was never walked; earlier `sync feed` runs or the bootstrap of the
\* index left an arbitrary part of it on disk.
Init ==
    /\ gallery = [k \in 1..Posted |-> k]
    /\ posted = Posted
    /\ saved \in SUBSET (1..Posted \ NoImage)
    /\ progress = [complete |-> FALSE, offset |-> 0]
    /\ pc = "idle"
    /\ full = FALSE /\ dry = FALSE /\ trusted = FALSE
    /\ from = 0 /\ offset = 0
    /\ todo = {}
    /\ hasMore = FALSE
    /\ reason = "running"
    /\ promised = {}

-----------------------------------------------------------------------------
(* A run *)

\* The run's flags, what it trusts, and the offset it starts at.
Begin(isFull, isDry, start) ==
    /\ pc = "idle"
    /\ pc' = "loop"
    /\ full' = isFull
    /\ dry' = isDry
    /\ trusted' = progress.complete
    /\ from' = start
    /\ offset' = start
    /\ reason' = "running"
    /\ UNCHANGED <<external, saved, progress, todo, hasMore>>

\* Seeded fault for ResumeOffset: every walk starts at the top.
ResumeAtTop == 0

\* Without --offset a run resumes where the last unfinished walk stopped; a
\* complete entry has no offset.
ResumeOffset == progress.offset

\* The flags go together in any way; a --full run that saves owes what there is.
StartWith(isFull, isDry, start) ==
    /\ isFull => "full" \in Faults
    /\ isDry => "dry" \in Faults
    /\ start # ResumeOffset => "offset" \in Faults
    /\ Begin(isFull, isDry, start)
    /\ promised' = IF isFull /\ ~isDry THEN Items(gallery) \ NoImage ELSE {}

StartPlain == StartWith(FALSE, FALSE, ResumeOffset)

Start ==
    \E isFull, isDry \in BOOLEAN, start \in {ResumeOffset} \cup 0..MaxPosted :
        StartWith(isFull, isDry, start)

\* The budget is spent, or gallery/all answered with an HTTP error.
Truncate ==
    /\ "truncate" \in Faults /\ pc = "loop"
    /\ reason' = "truncated"
    /\ pc' = "end"
    /\ UNCHANGED <<external, saved, progress, runVars, offset, todo, hasMore, promised>>

FetchEmpty ==
    /\ pc = "loop" /\ Page(offset) = {}
    /\ reason' = "empty page"
    /\ pc' = "end"
    /\ UNCHANGED <<external, saved, progress, runVars, offset, todo, hasMore, promised>>

\* Seeded fault for CaughtUp: the early stop of a gallery never walked to its end.
CaughtUpUntrusted(page) == page \cap saved # {} /\ ~full

\* The early stop, and where the loop goes when a page is done with.
CaughtUp(page) == page \cap saved # {} /\ ~full /\ trusted

NextPage(why, more) ==
    IF why = "caught up" THEN pc' = "end" /\ reason' = why /\ offset' = offset
    ELSE IF ~more THEN pc' = "end" /\ reason' = "gallery complete" /\ offset' = offset
    ELSE pc' = "loop" /\ reason' = "running" /\ offset' = offset + Limit

\* Seeded fault for FetchKnown: one known deviation stands for its page.
FetchKnownAny ==
    /\ pc = "loop" /\ Page(offset) \cap saved # {}
    /\ NextPage(IF CaughtUp(Page(offset)) THEN "caught up" ELSE "running",
                MoreAfter(offset))
    /\ UNCHANGED <<external, saved, progress, runVars, todo, hasMore, promised>>

\* Every deviation of the page is known: no metadata call, no save.
FetchKnown ==
    /\ pc = "loop" /\ Page(offset) # {} /\ Page(offset) \subseteq saved
    /\ NextPage(IF CaughtUp(Page(offset)) THEN "caught up" ELSE "running",
                MoreAfter(offset))
    /\ UNCHANGED <<external, saved, progress, runVars, todo, hasMore, promised>>

FetchUnknown ==
    /\ pc = "loop" /\ ~(Page(offset) \subseteq saved)
    /\ reason' = IF CaughtUp(Page(offset)) THEN "caught up" ELSE "running"
    /\ todo' = Page(offset) \ saved
    /\ hasMore' = MoreAfter(offset)
    /\ pc' = "page"
    /\ UNCHANGED <<external, saved, progress, runVars, offset, promised>>

\* deviation/metadata answered with an HTTP error.
MetadataError ==
    /\ "truncate" \in Faults /\ pc = "page"
    /\ reason' = "truncated"
    /\ pc' = "end"
    /\ todo' = {}
    /\ UNCHANGED <<external, saved, progress, runVars, offset, hasMore, promised>>

\* The page's saves; a failed save, and one with nothing to save, is counted and
\* logged, nothing else.
SavePage(failed) ==
    /\ pc = "page"
    /\ failed \subseteq todo
    /\ failed = {} \/ "fail" \in Faults
    /\ saved' = IF dry THEN saved ELSE saved \cup (todo \ (failed \cup NoImage))
    /\ promised' = promised \ failed
    /\ NextPage(reason, hasMore)
    /\ todo' = {}
    /\ UNCHANGED <<external, progress, runVars, hasMore>>

\* Seeded fault for Record: a walk cut short counts as complete.
RecordAlways ==
    /\ pc = "end"
    /\ progress' = [complete |-> TRUE, offset |-> 0]
    /\ pc' = "idle"
    /\ UNCHANGED <<external, saved, runVars, offset, todo, hasMore, reason, promised>>

\* _record_gallery_progress.
Record ==
    /\ pc = "end"
    /\ progress' = IF reason \in Terminal
                   THEN [complete |-> TRUE, offset |-> 0]
                   ELSE [complete |-> FALSE, offset |-> offset]
    /\ pc' = "idle"
    /\ UNCHANGED <<external, saved, runVars, offset, todo, hasMore, reason, promised>>

\* Any exception but HTTPError, or a signal: part of the page may be saved, and
\* the gallery's record stays as it was.
Crash(done) ==
    /\ "crash" \in Faults \/ ("earlycrash" \in Faults /\ ~progress.complete)
    /\ pc # "idle"
    /\ done \subseteq todo
    /\ saved' = IF dry THEN saved ELSE saved \cup (done \ NoImage)
    /\ pc' = "idle"
    /\ todo' = {}
    /\ promised' = {}
    /\ UNCHANGED <<external, progress, runVars, offset, hasMore, reason>>

-----------------------------------------------------------------------------
(* The world around it *)

Post ==
    /\ "livepost" \in Faults \/ ("post" \in Faults /\ (pc = "idle" \/ ~trusted))
    /\ posted < MaxPosted
    /\ posted' = posted + 1
    /\ gallery' = Append(gallery, posted + 1)
    /\ UNCHANGED <<saved, progress, pc, runVars, offset, todo, hasMore, reason, promised>>

\* The place of the newest deviation that the walk has not fetched yet.
NextUp == Len(gallery) - (IF pc = "page" THEN offset + Limit ELSE offset)

\* The gallery closes up: everything older moves one offset towards the top, and the
\* next one to be fetched moves past the walk.
Delete(k) ==
    /\ "delete" \in Faults /\ k \in DOMAIN gallery
    /\ gallery' = SubSeq(gallery, 1, k - 1) \o SubSeq(gallery, k + 1, Len(gallery))
    /\ promised' = promised \ {gallery[j] : j \in {k} \cup ({NextUp} \cap 1..(k - 1))}
    /\ UNCHANGED <<posted, saved, progress, pc, runVars, offset, todo, hasMore, reason>>

\* Another sync command; it runs only when this one does not.
FeedSaves(i) ==
    /\ "feed" \in Faults /\ pc = "idle"
    /\ i \in Items(gallery) \ (saved \cup NoImage)
    /\ saved' = saved \cup {i}
    /\ UNCHANGED <<external, progress, pc, runVars, offset, todo, hasMore, reason, promised>>

RemoveFolder(i) ==
    /\ "remove" \in Faults /\ i \in saved
    /\ saved' = saved \ {i}
    /\ promised' = promised \ {i}
    /\ UNCHANGED <<external, progress, pc, runVars, offset, todo, hasMore, reason>>

-----------------------------------------------------------------------------
Fetch == FetchEmpty \/ FetchKnown \/ FetchUnknown
Save == \E failed \in SUBSET todo : SavePage(failed)

Next ==
    \/ Start \/ Truncate \/ Fetch \/ MetadataError \/ Save \/ Record
    \/ \E done \in SUBSET todo : Crash(done)
    \/ Post
    \/ \E k \in DOMAIN gallery : Delete(k)
    \/ \E i \in Items(gallery) : FeedSaves(i)
    \/ \E i \in saved : RemoveFolder(i)

Spec == Init /\ [][Next]_vars

\* Plain runs are scheduled for ever (launchd, cron).  A run that is started goes
\* on, and one whose pages are cut short again and again gets a page through now
\* and then: the budget is checked before a page, never inside it.
FairSpec ==
    /\ Spec
    /\ WF_vars(StartPlain) /\ WF_vars(Record)
    /\ SF_vars(Fetch) /\ SF_vars(SavePage({}))

-----------------------------------------------------------------------------
(* Properties *)

\* The early stop tells the truth: when a page holds something known and the walk
\* declares itself caught up, every image on the pages below is saved
\* (sync.py:796-799, 811-818).
CaughtUpIsTrue ==
    [][reason # "caught up" /\ reason' = "caught up" =>
          \A k \in 1..(Len(gallery) - offset - Limit) :
              gallery[k] \in saved \cup NoImage]_vars

\* Between runs, a gallery recorded complete has no gap: what is missing is newer
\* than everything that is saved, so the next walk from the top meets it before
\* its first known item (sync.py:811-818).
NothingStranded ==
    pc = "idle" /\ progress.complete =>
        \A k, l \in DOMAIN gallery :
            k < l /\ gallery[l] \in saved => gallery[k] \in saved \cup NoImage

\* `--full` started at the top is the way back: when it reaches the end it has
\* saved all images that were there when it started (docs/commands/sync.md:281-289),
\* but what failed, was removed from the disk again or was deleted by the artist, and,
\* for each deletion above the walk, the one deviation that was next and moved past it.
FullRecovers ==
    pc = "end" /\ reason = "gallery complete" /\ full /\ from = 0 =>
        promised \subseteq saved

\* Scheduled runs finish a walk that stopped part-way (sync.md:261-264, 277-279).
WalkFinishes ==
    ~progress.complete /\ progress.offset > 0 ~> progress.complete

\* Scheduled plain runs fetch every image that stays in the gallery.
EverythingFetched ==
    \A i \in 1..MaxPosted \ NoImage : i \in Items(gallery) ~> i \in saved

=============================================================================
