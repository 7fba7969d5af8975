------------------------------ MODULE FeedSync ------------------------------
(***************************************************************************)
(* `da sync feed`: repeated runs that walk the feed of the watched artists *)
(* from its top, page by page, down to a checkpoint in state.json, the     *)
(* newest deviation of the last clean run (src/dacli/sync.py,              *)
(* _cmd_sync_feed_impl).                                                   *)
(*                                                                         *)
(* Abstractions.  A deviation is its place in the order of posting.  As in *)
(* GallerySync, `saved` is what the index calls known, a page's worker     *)
(* pool is one step, the sync lock leaves one run at a time.  A 429, an    *)
(* HTTP error of the metadata call and a spent budget are one "truncated"; *)
(* every other exception is a crash.  Nothing leaves the feed: neither is  *)
(* a deviation deleted nor an artist (un)watched; and everything in it has *)
(* an image.                                                               *)
(*                                                                         *)
(* Faults: "truncate", "crash", "fail" (a save), "dry" (--dry-run), "post" *)
(* (at any time), "artist" (`sync artist` saves something between runs).   *)
(***************************************************************************)
EXTENDS Integers

CONSTANTS Limit,      \* page size (--limit)
          Posted,     \* deviations in the feed at first
          MaxPosted,  \* bound: deviations ever posted
          Faults      \* see above

ASSUME LimitAssumption == Limit \in Nat \ {0}
ASSUME PostedAssumption == Posted \in Nat /\ MaxPosted \in Nat
ASSUME FaultsAssumption ==
    Faults \subseteq {"truncate", "crash", "fail", "dry", "post", "artist"}

VARIABLES
    posted,  \* DeviantArt: the feed holds 1..posted, posted is the newest
    saved,   \* deviations the index and the disk hold
    last,    \* state.json: last_feed_deviationid, 0 if there is none
    pc,      \* where the run is
    dry,     \* the run's --dry-run
    offset,  \* the offset of the page it is at
    newTop,  \* new_top_id, 0 if there is none
    todo,    \* the page's unknown deviations
    hasMore, \* the page's has_more
    reason,  \* stop_reason
    failed   \* totals["fail"] > 0

vars == <<posted, saved, last, pc, dry, offset, newTop, todo, hasMore, reason, failed>>

CheckpointReached == {"caught up", "feed exhausted", "feed empty"}
Reasons == CheckpointReached \cup {"complete", "truncated"}

\* results of browse/deviantsyouwatch.
Page(o) == {k \in 1..posted : k <= posted - o /\ k > posted - o - Limit}
MoreAfter(o) == o + Limit < posted

\* Trim to last_seen when caught up.
CaughtUp(page) == last # 0 /\ last \in page
Trimmed(page) == IF CaughtUp(page) THEN {k \in page : k > last} ELSE page

TypeOK ==
    /\ posted \in Nat
    /\ saved \subseteq 1..posted
    /\ last \in 0..posted
    /\ pc \in {"idle", "loop", "page", "end"}
    /\ dry \in BOOLEAN
    /\ offset \in Nat
    /\ newTop \in 0..posted
    /\ todo \subseteq 1..posted
    /\ hasMore \in BOOLEAN
    /\ reason \in Reasons
    /\ pc = "end" => reason # "complete"
    /\ failed \in BOOLEAN

\* No feed run yet; the index may hold anything `sync artist` saved.
Init ==
    /\ posted = Posted
    /\ saved \in SUBSET (1..Posted)
    /\ last = 0
    /\ pc = "idle"
    /\ dry = FALSE
    /\ offset = 0
    /\ newTop = 0
    /\ todo = {}
    /\ hasMore = FALSE
    /\ reason = "complete"
    /\ failed = FALSE

-----------------------------------------------------------------------------
(* A run *)

Start(isDry) ==
    /\ pc = "idle"
    /\ isDry => "dry" \in Faults
    /\ pc' = "loop"
    /\ dry' = isDry
    /\ offset' = 0
    /\ newTop' = 0
    /\ reason' = "complete"
    /\ failed' = FALSE
    /\ UNCHANGED <<posted, saved, last, todo, hasMore>>

\* The budget is spent, or the feed answered 429.
Truncate ==
    /\ "truncate" \in Faults /\ pc = "loop"
    /\ reason' = "truncated"
    /\ pc' = "end"
    /\ UNCHANGED <<posted, saved, last, dry, offset, newTop, todo, hasMore, failed>>

FetchEmpty ==
    /\ pc = "loop" /\ Page(offset) = {}
    /\ reason' = "feed empty"
    /\ pc' = "end"
    /\ UNCHANGED <<posted, saved, last, dry, offset, newTop, todo, hasMore, failed>>

\* The newest deviation of the first page.
NewTop == IF offset = 0 THEN posted ELSE newTop

\* Where the loop goes when a page is done with.
NextPage(why, more) ==
    IF why # "complete" THEN pc' = "end" /\ reason' = why /\ offset' = offset
    ELSE IF ~more THEN pc' = "end" /\ reason' = "feed exhausted" /\ offset' = offset
    ELSE pc' = "loop" /\ reason' = why /\ offset' = offset + Limit

PageReason == IF CaughtUp(Page(offset)) THEN "caught up" ELSE "complete"

\* Seeded fault for FetchKnown: the fast path forgets that it is caught up.
FetchKnownOn ==
    /\ pc = "loop"
    /\ Trimmed(Page(offset)) # {} /\ Trimmed(Page(offset)) \subseteq saved
    /\ newTop' = NewTop
    /\ NextPage("complete", MoreAfter(offset))
    /\ UNCHANGED <<posted, saved, last, dry, todo, hasMore, failed>>

\* Every deviation newer than the checkpoint is known: no metadata, no save.
FetchKnown ==
    /\ pc = "loop"
    /\ Trimmed(Page(offset)) # {} /\ Trimmed(Page(offset)) \subseteq saved
    /\ newTop' = NewTop
    /\ NextPage(PageReason, MoreAfter(offset))
    /\ UNCHANGED <<posted, saved, last, dry, todo, hasMore, failed>>

\* Some are not, or there are none and the page is just the checkpoint's.
FetchUnknown ==
    /\ pc = "loop" /\ Page(offset) # {}
    /\ Trimmed(Page(offset)) = {} \/ ~(Trimmed(Page(offset)) \subseteq saved)
    /\ newTop' = NewTop
    /\ reason' = PageReason
    /\ todo' = Trimmed(Page(offset)) \ saved
    /\ hasMore' = MoreAfter(offset)
    /\ pc' = "page"
    /\ UNCHANGED <<posted, saved, last, dry, offset, failed>>

MetadataError ==
    /\ "truncate" \in Faults /\ pc = "page" /\ todo # {}
    /\ reason' = "truncated"
    /\ pc' = "end"
    /\ todo' = {}
    /\ UNCHANGED <<posted, saved, last, dry, offset, newTop, hasMore, failed>>

\* Seeded fault for SavePage: failures are logged and not counted.
SavePageUncounted(bad) ==
    /\ pc = "page"
    /\ bad \subseteq todo
    /\ bad = {} \/ "fail" \in Faults
    /\ saved' = IF dry THEN saved ELSE saved \cup (todo \ bad)
    /\ NextPage(reason, hasMore)
    /\ todo' = {}
    /\ UNCHANGED <<posted, last, dry, newTop, hasMore, failed>>

\* A failed save is counted.
SavePage(bad) ==
    /\ pc = "page"
    /\ bad \subseteq todo
    /\ bad = {} \/ "fail" \in Faults
    /\ saved' = IF dry THEN saved ELSE saved \cup (todo \ bad)
    /\ failed' = (failed \/ bad # {})
    /\ NextPage(reason, hasMore)
    /\ todo' = {}
    /\ UNCHANGED <<posted, last, dry, newTop, hasMore>>

\* Seeded fault for Record: whatever ended the walk, its top is the checkpoint.
RecordAlways ==
    /\ pc = "end"
    /\ last' = IF newTop # 0 THEN newTop ELSE last
    /\ pc' = "idle"
    /\ UNCHANGED <<posted, saved, dry, offset, newTop, todo, hasMore, reason, failed>>

\* The checkpoint advances only on a clean, complete pass.
Record ==
    /\ pc = "end"
    /\ last' = IF newTop # 0 /\ reason \in CheckpointReached /\ ~dry /\ ~failed
               THEN newTop ELSE last
    /\ pc' = "idle"
    /\ UNCHANGED <<posted, saved, dry, offset, newTop, todo, hasMore, reason, failed>>

\* _record_crash leaves the checkpoint alone; part of a page may be saved.
Crash(done) ==
    /\ "crash" \in Faults /\ pc # "idle"
    /\ done \subseteq todo
    /\ saved' = IF dry THEN saved ELSE saved \cup done
    /\ pc' = "idle"
    /\ todo' = {}
    /\ UNCHANGED <<posted, last, dry, offset, newTop, hasMore, reason, failed>>

-----------------------------------------------------------------------------
(* The world around it *)

Post ==
    /\ "post" \in Faults /\ posted < MaxPosted
    /\ posted' = posted + 1
    /\ UNCHANGED <<saved, last, pc, dry, offset, newTop, todo, hasMore, reason, failed>>

ArtistSaves(i) ==
    /\ "artist" \in Faults /\ pc = "idle"
    /\ saved' = saved \cup {i}
    /\ UNCHANGED <<posted, last, pc, dry, offset, newTop, todo, hasMore, reason, failed>>

-----------------------------------------------------------------------------
Fetch == FetchEmpty \/ FetchKnown \/ FetchUnknown

Next ==
    \/ \E isDry \in BOOLEAN : Start(isDry)
    \/ Truncate \/ Fetch \/ MetadataError
    \/ \E bad \in SUBSET todo : SavePage(bad)
    \/ Record
    \/ \E done \in SUBSET todo : Crash(done)
    \/ Post
    \/ \E i \in 1..posted : ArtistSaves(i)

Spec == Init /\ [][Next]_vars

\* What happens when nothing goes wrong.
Good == Start(FALSE) \/ Fetch \/ SavePage({}) \/ Record \/ Post

\* Runs are scheduled for ever and go on once they are started; and at some time
\* they stop going wrong.
FairSpec ==
    /\ Spec
    /\ WF_vars(Start(FALSE)) /\ WF_vars(Fetch) /\ WF_vars(SavePage({})) /\ WF_vars(Record)
    /\ <>[][Good]_vars

-----------------------------------------------------------------------------
(* Properties *)

\* The checkpoint never hides anything: it and all that is older is saved.  The
\* next run stops at it and the feed sync never looks below (sync.py:686-695).
CheckpointSound == \A k \in 1..last : k \in saved

\* A run never asks for a page that lies entirely below its checkpoint, even when
\* pages above are all known (sync.py:621-625).
NeverPastCheckpoint == pc = "loop" /\ last # 0 => last <= posted - offset

\* "Genuinely self-resuming" (docs/commands/sync.md:662): whatever was cut short,
\* killed, failed or dry, once that stops all of the feed is fetched.
EverythingFetched ==
    \A i \in 1..MaxPosted : i <= posted ~> i \in saved

=============================================================================
