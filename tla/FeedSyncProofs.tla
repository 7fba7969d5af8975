--------------------------- MODULE FeedSyncProofs ---------------------------
(***************************************************************************)
(* The checkpoint of `sync feed` hides nothing and is never walked past:   *)
(* for every page size, every feed and every fault of FeedSync.            *)
(***************************************************************************)
EXTENDS FeedSync, TLAPS

\* All of the feed from new_top_id down to, but without, b is saved, or is in s.
Covered(b, s) == \A k \in 1..newTop : k > b => k \in saved \cup s

\* As Covered, of the next state, with b of this one.
CoveredNext(b) == \A k \in 1..newTop' : k > b => k \in saved'

\* What a clean, real run has done so far.
Walked ==
    /\ pc = "loop" => Covered(posted - offset, {})
    /\ pc = "page" =>
          /\ reason = "complete" => Covered(posted - offset - Limit, todo)
          /\ reason = "complete" /\ ~hasMore => Covered(0, todo)
          /\ reason = "caught up" => Covered(last, todo)
    /\ pc = "end" /\ reason \in CheckpointReached => Covered(0, {})

\* The checkpoint lies below what the walk still has to look at.
Ahead ==
    /\ NeverPastCheckpoint
    /\ pc = "page" /\ reason = "complete" /\ last # 0 => last <= posted - offset - Limit

FeedInv ==
    /\ TypeOK
    /\ CheckpointSound
    /\ pc = "loop" => reason = "complete"
    /\ pc = "page" => reason \in {"complete", "caught up"}
    /\ ~dry /\ ~failed => Walked
    /\ Ahead

-----------------------------------------------------------------------------
LEMMA FeedConstants == Limit \in Nat /\ Limit > 0 /\ Posted \in Nat /\ MaxPosted \in Nat
BY LimitAssumption, PostedAssumption

LEMMA AboveOrNot ==
    ASSUME NEW n \in Nat, NEW b \in 0..n, NEW t \in 0..n, NEW k \in 1..t
    PROVE  k > b \/ k \in 1..b
OBVIOUS

LEMMA FeedInit == Init => FeedInv
<1> SUFFICES ASSUME Init PROVE FeedInv
  OBVIOUS
<1>1. /\ posted \in Nat /\ saved \subseteq 1..posted /\ last \in 0..posted /\ newTop \in 0..posted
      /\ offset \in Nat /\ todo \subseteq 1..posted
  BY FeedConstants DEF Init
<1>2. dry \in BOOLEAN /\ hasMore \in BOOLEAN /\ failed \in BOOLEAN /\ reason \in Reasons
      /\ pc \in {"idle", "loop", "page", "end"} /\ (pc = "end" => reason # "complete")
  BY Zenon DEF Init, Reasons
<1>3. TypeOK
  BY <1>1, <1>2, Zenon DEF TypeOK
<1> QED
  BY <1>3 DEF Init, FeedInv, CheckpointSound, Walked, Ahead, NeverPastCheckpoint

LEMMA PageType ==
    ASSUME TypeOK
    PROVE  /\ Page(offset) \subseteq 1..posted /\ Trimmed(Page(offset)) \subseteq Page(offset)
           /\ MoreAfter(offset) \in BOOLEAN /\ NewTop \in 0..posted
           /\ PageReason \in {"complete", "caught up"}
           /\ offset + Limit \in Nat
<1>1. Page(offset) \subseteq 1..posted
  BY DEF Page
<1>2. Trimmed(Page(offset)) \subseteq Page(offset)
  BY DEF Trimmed
<1>3. MoreAfter(offset) \in BOOLEAN
  BY FeedConstants DEF TypeOK, MoreAfter
<1>4. NewTop \in 0..posted /\ offset + Limit \in Nat
  BY FeedConstants DEF TypeOK, NewTop
<1>5. PageReason \in {"complete", "caught up"}
  BY DEF PageReason
<1> QED
  BY <1>1, <1>2, <1>3, <1>4, <1>5

LEMMA NextPageType ==
    ASSUME TypeOK, NEW why \in {"complete", "caught up"}, NEW more, NextPage(why, more)
    PROVE  /\ pc' \in {"loop", "end"} /\ reason' \in Reasons /\ offset' \in Nat
           /\ pc' = "end" => reason' # "complete"
           /\ pc' = "loop" => reason' = "complete"
<1>1. offset \in Nat /\ offset + Limit \in Nat
  BY PageType DEF TypeOK
<1>2. CASE why # "complete"
  BY <1>1, <1>2 DEF NextPage, Reasons, CheckpointReached
<1>3. CASE why = "complete" /\ ~more
  BY <1>1, <1>3 DEF NextPage, Reasons, CheckpointReached
<1>4. CASE why = "complete" /\ more
  BY <1>1, <1>4 DEF NextPage, Reasons, CheckpointReached
<1> QED
  BY <1>2, <1>3, <1>4

LEMMA FeedTypeStep ==
    ASSUME FeedInv, [Next]_vars
    PROVE  /\ TypeOK'
           /\ (pc = "loop" => reason = "complete")'
           /\ (pc = "page" => reason \in {"complete", "caught up"})'
<1>0. TypeOK /\ (pc = "loop" => reason = "complete")
      /\ (pc = "page" => reason \in {"complete", "caught up"})
  BY DEF FeedInv
<1>1. ASSUME NEW d \in BOOLEAN, Start(d)
      PROVE  TypeOK' /\ pc' = "loop" /\ reason' = "complete"
  <2>1. dry' \in BOOLEAN /\ failed' \in BOOLEAN /\ reason' \in Reasons /\ reason' = "complete"
        /\ pc' = "loop" /\ offset' = 0 /\ newTop' = 0
        /\ UNCHANGED <<posted, saved, last, todo, hasMore>>
    BY <1>1, Zenon DEF Start, Reasons
  <2>2. posted \in Nat /\ posted' = posted /\ offset' = 0 /\ newTop' = 0
    BY <1>0, <2>1, Zenon DEF TypeOK
  <2>3. newTop' \in 0..posted' /\ offset' \in Nat
    BY <2>2
  <2>4. pc' \in {"idle", "loop", "page", "end"} /\ (pc' = "end" => reason' # "complete")
    BY <2>1
  <2> QED
    BY <1>0, <2>1, <2>2, <2>3, <2>4, Zenon DEF TypeOK
<1>2. ASSUME Truncate \/ MetadataError
      PROVE  TypeOK' /\ pc' = "end"
  BY <1>0, <1>2 DEF Truncate, MetadataError, TypeOK, Reasons
<1>3. ASSUME FetchEmpty PROVE TypeOK' /\ pc' = "end"
  BY <1>0, <1>3 DEF FetchEmpty, TypeOK, Reasons, CheckpointReached
<1>4. ASSUME FetchKnown
      PROVE  TypeOK' /\ pc' \in {"loop", "end"} /\ (pc' = "loop" => reason' = "complete")
  <2>1. NextPage(PageReason, MoreAfter(offset)) /\ newTop' = NewTop
    BY <1>4 DEF FetchKnown
  <2>2. /\ pc' \in {"loop", "end"} /\ reason' \in Reasons /\ offset' \in Nat
        /\ pc' = "end" => reason' # "complete"
        /\ pc' = "loop" => reason' = "complete"
        /\ newTop' \in 0..posted
    BY <1>0, <2>1, PageType, NextPageType
  <2> QED
    BY <1>0, <1>4, <2>2 DEF FetchKnown, TypeOK
<1>5. ASSUME FetchUnknown
      PROVE  TypeOK' /\ pc' = "page" /\ reason' \in {"complete", "caught up"}
  <2>1. /\ newTop' \in 0..posted /\ reason' \in {"complete", "caught up"}
        /\ todo' \subseteq 1..posted /\ hasMore' \in BOOLEAN /\ pc' = "page"
    BY <1>0, <1>5, PageType, Zenon DEF FetchUnknown
  <2>2. reason' \in Reasons
    BY <2>1 DEF Reasons, CheckpointReached
  <2> QED
    BY <1>0, <1>5, <2>1, <2>2 DEF FetchUnknown, TypeOK
<1>6. ASSUME NEW bad \in SUBSET todo, SavePage(bad)
      PROVE  TypeOK' /\ pc' \in {"loop", "end"} /\ (pc' = "loop" => reason' = "complete")
  <2>1. NextPage(reason, hasMore) /\ reason \in {"complete", "caught up"}
    BY <1>0, <1>6 DEF SavePage
  <2>2. /\ pc' \in {"loop", "end"} /\ reason' \in Reasons /\ offset' \in Nat
        /\ pc' = "end" => reason' # "complete"
        /\ pc' = "loop" => reason' = "complete"
    BY <1>0, <2>1, NextPageType
  <2>3. failed' \in BOOLEAN /\ saved' \subseteq 1..posted /\ todo' = {}
    BY <1>0, <1>6 DEF SavePage, TypeOK
  <2> QED
    BY <1>0, <1>6, <2>2, <2>3 DEF SavePage, TypeOK
<1>7. ASSUME Record PROVE TypeOK' /\ pc' = "idle"
  BY <1>0, <1>7 DEF Record, TypeOK
<1>8. ASSUME NEW done \in SUBSET todo, Crash(done) PROVE TypeOK' /\ pc' = "idle"
  BY <1>0, <1>8 DEF Crash, TypeOK
<1>9. ASSUME Post PROVE TypeOK' /\ UNCHANGED <<pc, reason>>
  <2>1. UNCHANGED <<saved, last, pc, dry, offset, newTop, todo, hasMore, reason, failed>>
    BY <1>9, Zenon DEF Post
  <2>2. posted \in Nat /\ posted' = posted + 1
    BY <1>0, <1>9, Zenon DEF Post, TypeOK
  <2>3. posted' \in Nat /\ 1..posted \subseteq 1..posted' /\ 0..posted \subseteq 0..posted'
    BY <2>2
  <2>4. /\ last \in 0..posted /\ newTop \in 0..posted /\ saved \subseteq 1..posted
        /\ todo \subseteq 1..posted
    BY <1>0, Zenon DEF TypeOK
  <2>5. last \in 0..posted' /\ newTop \in 0..posted' /\ saved \subseteq 1..posted'
        /\ todo \subseteq 1..posted'
    BY <2>3, <2>4
  <2> QED
    BY <1>0, <2>1, <2>3, <2>5, Zenon DEF TypeOK
<1>10. ASSUME NEW i \in 1..posted, ArtistSaves(i) PROVE TypeOK' /\ UNCHANGED <<pc, reason>>
  BY <1>0, <1>10 DEF ArtistSaves, TypeOK
<1>11. ASSUME UNCHANGED vars PROVE TypeOK' /\ UNCHANGED <<pc, reason>>
  BY <1>0, <1>11 DEF vars, TypeOK
<1> QED
  BY <1>0, <1>1, <1>2, <1>3, <1>4, <1>5, <1>6, <1>7, <1>8, <1>9, <1>10, <1>11 DEF Next, Fetch

-----------------------------------------------------------------------------
(* One page *)

\* When a page is fetched, what is newer than its end has been seen.
LEMMA PageCovers ==
    ASSUME FeedInv, pc = "loop", ~dry, ~failed,
           NEW k \in 1..NewTop, k > posted - offset - Limit
    PROVE  k \in saved \cup Page(offset)
<1>1. posted \in Nat /\ offset \in Nat /\ newTop \in 0..posted /\ Limit \in Nat
  BY FeedConstants DEF FeedInv, TypeOK
<1>2. NewTop \in 0..posted /\ k \in 1..posted
  BY <1>1 DEF NewTop
<1>3. CASE k <= posted - offset
  BY <1>1, <1>2, <1>3 DEF Page
<1>4. CASE k > posted - offset
  <2>1. offset # 0 /\ NewTop = newTop
    BY <1>1, <1>2, <1>4 DEF NewTop
  <2>2. Covered(posted - offset, {})
    BY DEF FeedInv, Walked
  <2> QED
    BY <1>4, <2>1, <2>2 DEF Covered
<1> QED
  BY <1>1, <1>2, <1>3, <1>4

\* A page that the checkpoint is not on leaves it below.
LEMMA PageAhead ==
    ASSUME FeedInv, pc = "loop", last # 0, PageReason = "complete"
    PROVE  last <= posted - offset - Limit
<1>1. /\ posted \in Nat /\ offset \in Nat /\ last \in 0..posted /\ Limit \in Nat
      /\ last <= posted - offset
  BY FeedConstants DEF FeedInv, TypeOK, Ahead, NeverPastCheckpoint
<1>2. last \notin Page(offset)
  BY DEF PageReason, CaughtUp
<1> QED
  BY <1>1, <1>2 DEF Page

\* What a fetched page still lacks, and what saving it achieves.
LEMMA PageFetched ==
    ASSUME FeedInv, pc = "loop", ~dry, ~failed
    PROVE  LET lacks == Trimmed(Page(offset)) \ saved
               done(b) == \A k \in 1..NewTop : k > b => k \in saved \cup lacks
           IN  /\ PageReason = "complete" => done(posted - offset - Limit)
               /\ PageReason = "complete" /\ ~MoreAfter(offset) => done(0)
               /\ PageReason = "caught up" => done(last)
<1>1. /\ posted \in Nat /\ offset \in Nat /\ last \in 0..posted /\ Limit \in Nat
      /\ NewTop \in 0..posted
  BY FeedConstants, PageType DEF FeedInv, TypeOK
<1>2. ASSUME PageReason = "complete", NEW k \in 1..NewTop, k > posted - offset - Limit
      PROVE  k \in saved \cup (Trimmed(Page(offset)) \ saved)
  BY <1>2, PageCovers DEF Trimmed, PageReason
<1>3. ASSUME PageReason = "complete", ~MoreAfter(offset), NEW k \in 1..NewTop
      PROVE  k \in saved \cup (Trimmed(Page(offset)) \ saved)
  <2>1. k > posted - offset - Limit
    BY <1>1, <1>3 DEF MoreAfter
  <2> QED
    BY <1>2, <1>3, <2>1
<1>4. ASSUME PageReason = "caught up", NEW k \in 1..NewTop, k > last
      PROVE  k \in saved \cup (Trimmed(Page(offset)) \ saved)
  <2>1. CaughtUp(Page(offset)) /\ last > posted - offset - Limit
    BY <1>4 DEF PageReason, CaughtUp, Page
  <2>2. k \in 1..NewTop /\ k > posted - offset - Limit
    <3>1. k \in 1..NewTop /\ k > last
      BY <1>4
    <3>2. k \in Int
      BY <1>1, <3>1
    <3>3. k > posted - offset - Limit
      BY <1>1, <2>1, <3>1, <3>2
    <3> QED
      BY <3>1, <3>3
  <2>3. k \in saved \cup Page(offset)
    BY <1>4, <2>2, PageCovers
  <2> QED
    BY <1>4, <2>1, <2>3 DEF Trimmed
<1> QED
  BY <1>2, <1>3, <1>4

\* The walk goes on from a page, or ends at it.
LEMMA PageLeft ==
    ASSUME FeedInv, NEW why \in {"complete", "caught up"}, NEW more,
           NextPage(why, more), posted' = posted, last' = last, newTop' \in 0..posted,
           why = "complete" => CoveredNext(posted - offset - Limit),
           why = "complete" /\ ~more => CoveredNext(0),
           why = "caught up" => CoveredNext(last),
           saved \subseteq saved'
    PROVE  /\ pc' = "loop" => Covered(posted - offset, {})'
           /\ pc' = "end" => Covered(0, {})'
<1>1. /\ posted \in Nat /\ offset \in Nat /\ Limit \in Nat /\ last \in 0..posted
      /\ newTop' \in 0..posted
  BY FeedConstants DEF FeedInv, TypeOK
<1>2. ASSUME pc' = "loop" PROVE Covered(posted - offset, {})'
  <2>1. why = "complete" /\ offset' = offset + Limit /\ posted' = posted
    BY <1>2, Zenon DEF NextPage
  <2>2. posted' - offset' = posted - offset - Limit
    BY <1>1, <2>1
  <2> QED
    BY <2>1, <2>2, Zenon DEF Covered, CoveredNext
<1>3. ASSUME pc' = "end" PROVE Covered(0, {})'
  <2>1. why = "caught up" \/ (why = "complete" /\ ~more)
    BY <1>3 DEF NextPage
  <2>2. CASE why = "caught up"
    <3>1. \A k \in 1..newTop' : k > last => k \in saved'
      BY <2>2, Zenon DEF CoveredNext
    <3>2. \A k \in 1..last : k \in saved'
      BY Zenon DEF FeedInv, CheckpointSound
    <3>3. ASSUME NEW k, k \in 1..newTop' PROVE k \in saved'
      <4>2. k > last \/ k \in 1..last
        BY <1>1, <3>3, AboveOrNot, Zenon
      <4> QED
        BY <3>1, <3>2, <3>3, <4>2
    <3> QED
      BY <3>3 DEF Covered
  <2> QED
    BY <2>1, <2>2, Zenon DEF Covered, CoveredNext
<1> QED
  BY <1>2, <1>3

-----------------------------------------------------------------------------
(* The steps *)

LEMMA StartSound ==
    ASSUME FeedInv, NEW d \in BOOLEAN, Start(d)
    PROVE  CheckpointSound' /\ Walked' /\ Ahead'
<1>1. /\ UNCHANGED <<posted, saved, last>> /\ pc' = "loop" /\ offset' = 0 /\ newTop' = 0
      /\ posted \in Nat /\ last \in 0..posted /\ CheckpointSound
  BY Zenon DEF FeedInv, TypeOK, Start
<1>2. CheckpointSound'
  BY <1>1, Zenon DEF CheckpointSound
<1>3. Walked'
  BY <1>1 DEF Walked, Covered
<1>4. Ahead'
  BY <1>1 DEF Ahead, NeverPastCheckpoint
<1> QED
  BY <1>2, <1>3, <1>4

LEMMA EmptySound ==
    ASSUME FeedInv, FetchEmpty, ~dry, ~failed
    PROVE  Covered(0, {})'
<1>1. /\ posted \in Nat /\ offset \in Nat /\ newTop \in 0..posted /\ Limit \in Nat /\ Limit > 0
      /\ UNCHANGED <<posted, saved, newTop>> /\ Page(offset) = {}
      /\ Covered(posted - offset, {})
  BY FeedConstants, Zenon DEF FeedInv, TypeOK, FetchEmpty, Walked
<1>2. posted <= offset
  <2> SUFFICES ASSUME posted > offset PROVE FALSE
    BY <1>1
  <2>1. posted - offset \in Page(offset)
    BY <1>1 DEF Page
  <2> QED
    BY <1>1, <2>1
<1>3. ASSUME NEW k, k \in 1..newTop PROVE k \in saved
  <2>1. k > posted - offset
    BY <1>1, <1>2, <1>3
  <2> QED
    BY <1>1, <1>3, <2>1, Zenon DEF Covered
<1> QED
  BY <1>1, <1>3, Zenon DEF Covered

\* The walk reaches the next page only with the checkpoint still below it.
LEMMA NextPageAhead ==
    ASSUME FeedInv, NEW why, NEW more, NextPage(why, more), UNCHANGED <<posted, last>>,
           why = "complete" /\ last # 0 => last <= posted - offset - Limit
    PROVE  Ahead'
<1>1. posted \in Nat /\ offset \in Nat /\ last \in 0..posted /\ Limit \in Nat
  BY FeedConstants, Zenon DEF FeedInv, TypeOK
<1>2. pc' # "page"
  BY Zenon DEF NextPage
<1>3. ASSUME pc' = "loop", last # 0 PROVE last' <= posted' - offset'
  <2>1. why = "complete" /\ offset' = offset + Limit /\ posted' = posted /\ last' = last
    BY <1>3, Zenon DEF NextPage
  <2>2. last <= posted - offset - Limit
    BY <1>3, <2>1, Zenon
  <2> QED
    BY <1>1, <2>1, <2>2
<1> QED
  BY <1>2, <1>3 DEF Ahead, NeverPastCheckpoint

LEMMA KnownSound ==
    ASSUME FeedInv, FetchKnown
    PROVE  CheckpointSound' /\ (~dry' /\ ~failed' => Walked') /\ Ahead'
<1>1. /\ UNCHANGED <<posted, saved, last, dry, failed>> /\ newTop' = NewTop /\ pc = "loop"
      /\ NextPage(PageReason, MoreAfter(offset)) /\ Trimmed(Page(offset)) \subseteq saved
      /\ TypeOK /\ CheckpointSound
  BY Zenon DEF FeedInv, FetchKnown
<1>2. PageReason \in {"complete", "caught up"} /\ newTop' \in 0..posted
  BY <1>1, PageType, Zenon
<1>3. CheckpointSound'
  BY <1>1, Zenon DEF CheckpointSound
<1>4. Ahead'
  <2>1. PageReason = "complete" /\ last # 0 => last <= posted - offset - Limit
    BY <1>1, PageAhead, Zenon
  <2> QED
    BY <1>1, <2>1, NextPageAhead, Zenon
<1>5. ASSUME ~dry', ~failed' PROVE Walked'
  <2>1. Trimmed(Page(offset)) \ saved = {}
    BY <1>1
  <2>2. /\ PageReason = "complete" => CoveredNext(posted - offset - Limit)
        /\ PageReason = "complete" /\ ~MoreAfter(offset) => CoveredNext(0)
        /\ PageReason = "caught up" => CoveredNext(last)
    <3> DEFINE lacks == Trimmed(Page(offset)) \ saved
               done(b) == \A k \in 1..NewTop : k > b => k \in saved \cup lacks
    <3>1. /\ PageReason = "complete" => done(posted - offset - Limit)
          /\ PageReason = "complete" /\ ~MoreAfter(offset) => done(0)
          /\ PageReason = "caught up" => done(last)
      BY <1>1, <1>5, PageFetched, Zenon
    <3>2. \A k : k \in saved \cup lacks => k \in saved'
      BY <1>1, <2>1
    <3>3. ASSUME NEW b, done(b) PROVE CoveredNext(b)
      BY <1>1, <3>2, <3>3, Zenon DEF CoveredNext
    <3> HIDE DEF done, lacks
    <3> QED
      BY <1>1, <3>1, <3>3, Zenon
  <2>3. /\ pc' = "loop" => Covered(posted - offset, {})'
        /\ pc' = "end" => Covered(0, {})'
    BY <1>1, <1>2, <2>2, PageLeft, Zenon
  <2>4. pc' # "page"
    BY <1>1, Zenon DEF NextPage
  <2> QED
    BY <2>3, <2>4, Zenon DEF Walked
<1> QED
  BY <1>3, <1>4, <1>5

LEMMA UnknownSound ==
    ASSUME FeedInv, FetchUnknown
    PROVE  CheckpointSound' /\ (~dry' /\ ~failed' => Walked') /\ Ahead'
<1>1. /\ UNCHANGED <<posted, saved, last, dry, offset, failed>> /\ newTop' = NewTop
      /\ pc = "loop" /\ pc' = "page" /\ reason' = PageReason
      /\ todo' = Trimmed(Page(offset)) \ saved /\ hasMore' = MoreAfter(offset)
      /\ CheckpointSound
  BY Zenon DEF FeedInv, FetchUnknown
<1>2. CheckpointSound'
  BY <1>1, Zenon DEF CheckpointSound
<1>3. Ahead'
  <2>1. PageReason = "complete" /\ last # 0 => last <= posted - offset - Limit
    BY <1>1, PageAhead, Zenon
  <2> QED
    BY <1>1, <2>1, Zenon DEF Ahead, NeverPastCheckpoint
<1>4. ASSUME ~dry', ~failed' PROVE Walked'
  <2>1. /\ PageReason = "complete" => Covered(posted - offset - Limit, todo)'
        /\ PageReason = "complete" /\ ~MoreAfter(offset) => Covered(0, todo)'
        /\ PageReason = "caught up" => Covered(last, todo)'
    BY <1>1, <1>4, PageFetched, Zenon DEF Covered
  <2> QED
    BY <1>1, <2>1, Zenon DEF Walked
<1> QED
  BY <1>2, <1>3, <1>4

LEMMA SaveSound ==
    ASSUME FeedInv, NEW bad \in SUBSET todo, SavePage(bad)
    PROVE  CheckpointSound' /\ (~dry' /\ ~failed' => Walked') /\ Ahead'
<1>1. /\ UNCHANGED <<posted, last, dry, newTop>> /\ pc = "page" /\ NextPage(reason, hasMore)
      /\ TypeOK /\ CheckpointSound /\ reason \in {"complete", "caught up"} /\ newTop \in 0..posted
  BY Zenon DEF FeedInv, SavePage, TypeOK
<1>2. saved \subseteq saved'
  BY DEF SavePage
<1>3. CheckpointSound'
  BY <1>1, <1>2, Zenon DEF CheckpointSound
<1>4. Ahead'
  BY <1>1, NextPageAhead, Zenon DEF FeedInv, Ahead
<1>5. ASSUME ~dry', ~failed' PROVE Walked'
  <2>1. ~dry /\ ~failed /\ bad = {}
    <3>1. failed' = (failed \/ bad # {})
      BY DEF SavePage
    <3>2. ~(failed \/ bad # {})
      BY <1>5, <3>1
    <3>3. ~dry
      BY <1>1, <1>5, Zenon
    <3> QED
      BY <3>2, <3>3, Zenon
  <2>2. saved' = saved \cup todo
    BY <2>1 DEF SavePage
  <2>3. Walked
    BY <2>1, Zenon DEF FeedInv
  <2>4. /\ reason = "complete" => CoveredNext(posted - offset - Limit)
        /\ reason = "complete" /\ ~hasMore => CoveredNext(0)
        /\ reason = "caught up" => CoveredNext(last)
    <3>1. \A k : k \in saved \cup todo => k \in saved'
      BY <2>2
    <3>2. ASSUME NEW b, Covered(b, todo) PROVE CoveredNext(b)
      BY <1>1, <3>1, <3>2, Zenon DEF Covered, CoveredNext
    <3>3. /\ reason = "complete" => Covered(posted - offset - Limit, todo)
          /\ reason = "complete" /\ ~hasMore => Covered(0, todo)
          /\ reason = "caught up" => Covered(last, todo)
      BY <1>1, <2>3, Zenon DEF Walked
    <3> QED
      BY <1>1, <3>2, <3>3, Zenon
  <2>5. /\ pc' = "loop" => Covered(posted - offset, {})'
        /\ pc' = "end" => Covered(0, {})'
    BY <1>1, <1>2, <2>4, PageLeft, Zenon
  <2>6. pc' # "page"
    BY <1>1, Zenon DEF NextPage
  <2> QED
    BY <2>5, <2>6, Zenon DEF Walked
<1> QED
  BY <1>3, <1>4, <1>5

LEMMA RecordSound ==
    ASSUME FeedInv, Record
    PROVE  CheckpointSound' /\ Walked' /\ Ahead'
<1>1. pc' = "idle" /\ saved' = saved /\ CheckpointSound /\ newTop' = newTop /\ pc = "end"
  BY Zenon DEF FeedInv, Record
<1>2. CASE last' = last
  BY <1>1, <1>2, Zenon DEF CheckpointSound, Walked, Ahead, NeverPastCheckpoint
<1>3. CASE last' # last
  <2>1. reason \in CheckpointReached /\ ~dry /\ ~failed /\ last' = newTop
    BY <1>3, Zenon DEF Record
  <2>2. Covered(0, {})
    BY <1>1, <2>1, Zenon DEF FeedInv, Walked
  <2>3. \A k \in 1..newTop : k \in saved
    <3>1. newTop \in 0..posted /\ posted \in Nat
      BY Zenon DEF FeedInv, TypeOK
    <3> QED
      BY <2>2, <3>1 DEF Covered
  <2> QED
    BY <1>1, <2>1, <2>3, Zenon DEF CheckpointSound, Walked, Ahead, NeverPastCheckpoint
<1> QED
  BY <1>2, <1>3

LEMMA PostSound ==
    ASSUME FeedInv, Post
    PROVE  CheckpointSound' /\ (~dry' /\ ~failed' => Walked') /\ Ahead'
<1>1. /\ UNCHANGED <<saved, last, pc, dry, offset, newTop, todo, hasMore, reason, failed>>
      /\ posted' = posted + 1
  BY Zenon DEF Post
<1>2. /\ posted \in Nat /\ offset \in Nat /\ newTop \in 0..posted /\ last \in 0..posted
      /\ Limit \in Nat
  BY FeedConstants, Zenon DEF FeedInv, TypeOK
<1>3. posted' = posted + 1 /\ offset' = offset /\ last' = last
  BY <1>1, Zenon
<1>4. ASSUME NEW s, Covered(posted - offset, s) PROVE Covered(posted' - offset', s)
  BY <1>2, <1>4, <1>3 DEF Covered
<1>5. ASSUME NEW s, Covered(posted - offset - Limit, s)
      PROVE  Covered(posted' - offset' - Limit, s)
  BY <1>2, <1>5, <1>3 DEF Covered
<1>6. ASSUME Walked PROVE Walked'
  <2>1. pc = "loop" => Covered(posted' - offset', {})
    BY <1>4, <1>6, Zenon DEF Walked
  <2>2. pc = "page" =>
          /\ reason = "complete" => Covered(posted' - offset' - Limit, todo)
          /\ reason = "complete" /\ ~hasMore => Covered(0, todo)
          /\ reason = "caught up" => Covered(last, todo)
    BY <1>5, <1>6, Zenon DEF Walked
  <2>3. pc = "end" /\ reason \in CheckpointReached => Covered(0, {})
    BY <1>6, Zenon DEF Walked
  <2>4. pc' = "loop" => Covered(posted - offset, {})'
    BY <1>1, <2>1, Zenon DEF Covered
  <2>5. pc' = "page" => (reason' = "complete" => Covered(posted - offset - Limit, todo)')
    BY <1>1, <2>2, Zenon DEF Covered
  <2>6. pc' = "page" => (reason' = "complete" /\ ~hasMore' => Covered(0, todo)')
    BY <1>1, <2>2, Zenon DEF Covered
  <2>7. pc' = "page" => (reason' = "caught up" => Covered(last, todo)')
    BY <1>1, <2>2, Zenon DEF Covered
  <2>8. pc' = "end" /\ reason' \in CheckpointReached => Covered(0, {})'
    BY <1>1, <2>3, Zenon DEF Covered
  <2> QED
    BY <2>4, <2>5, <2>6, <2>7, <2>8, Zenon DEF Walked
<1>7. /\ last <= posted - offset => last' <= posted' - offset'
      /\ last <= posted - offset - Limit => last' <= posted' - offset' - Limit
  BY <1>2, <1>3
<1>8. Ahead'
  BY <1>1, <1>7, Zenon DEF FeedInv, Ahead, NeverPastCheckpoint
<1> QED
  BY <1>1, <1>6, <1>8, Zenon DEF FeedInv, CheckpointSound

\* Saving more, in a run that goes nowhere, harms nothing.
LEMMA MoreSaved ==
    ASSUME FeedInv, saved \subseteq saved', pc' = "idle", last' = last
    PROVE  CheckpointSound' /\ Walked' /\ Ahead'
BY Zenon DEF FeedInv, CheckpointSound, Walked, Ahead, NeverPastCheckpoint

LEMMA FeedStep == ASSUME FeedInv, [Next]_vars PROVE FeedInv'
<1> DEFINE Kept == CheckpointSound /\ (~dry /\ ~failed => Walked) /\ Ahead
<1>1. ASSUME NEW d \in BOOLEAN, Start(d) PROVE Kept'
  BY <1>1, StartSound, Zenon
<1>2. ASSUME Truncate \/ MetadataError PROVE Kept'
  <2>1. pc' = "end" /\ reason' = "truncated" /\ UNCHANGED <<saved, last>> /\ CheckpointSound
    BY <1>2, Zenon DEF FeedInv, Truncate, MetadataError
  <2>2. reason' \notin CheckpointReached
    BY <2>1 DEF CheckpointReached
  <2> QED
    BY <2>1, <2>2, Zenon DEF CheckpointSound, Walked, Ahead, NeverPastCheckpoint
<1>3. ASSUME FetchEmpty PROVE Kept'
  <2>1. pc' = "end" /\ UNCHANGED <<saved, last, dry, failed>> /\ CheckpointSound
    BY <1>3, Zenon DEF FeedInv, FetchEmpty
  <2> QED
    BY <1>3, <2>1, EmptySound, Zenon DEF CheckpointSound, Walked, Ahead, NeverPastCheckpoint
<1>4. ASSUME FetchKnown PROVE Kept'
  BY <1>4, KnownSound, Zenon
<1>5. ASSUME FetchUnknown PROVE Kept'
  BY <1>5, UnknownSound, Zenon
<1>6. ASSUME NEW bad \in SUBSET todo, SavePage(bad) PROVE Kept'
  BY <1>6, SaveSound, Zenon
<1>7. ASSUME Record PROVE Kept'
  BY <1>7, RecordSound, Zenon
<1>8. ASSUME NEW done \in SUBSET todo, Crash(done) PROVE Kept'
  <2>1. saved \subseteq saved' /\ pc' = "idle" /\ last' = last
    BY <1>8 DEF Crash
  <2> QED
    BY <2>1, MoreSaved, Zenon
<1>9. ASSUME Post PROVE Kept'
  BY <1>9, PostSound, Zenon
<1>10. ASSUME NEW i \in 1..posted, ArtistSaves(i) PROVE Kept'
  <2>1. saved \subseteq saved' /\ pc' = "idle" /\ last' = last
    BY <1>10 DEF ArtistSaves
  <2> QED
    BY <2>1, MoreSaved, Zenon
<1>11. ASSUME UNCHANGED vars PROVE Kept'
  BY <1>11, Zenon DEF vars, FeedInv, CheckpointSound, Walked, Ahead, NeverPastCheckpoint, Covered
<1>12. Kept'
  BY <1>1, <1>2, <1>3, <1>4, <1>5, <1>6, <1>7, <1>8, <1>9, <1>10, <1>11, Zenon DEF Next, Fetch
<1> QED
  BY <1>12, FeedTypeStep, Zenon DEF FeedInv

-----------------------------------------------------------------------------
(* The theorems *)

LEMMA FeedAlways == Spec => []FeedInv
<1>1. FeedInv /\ [Next]_vars => FeedInv'
  BY FeedStep
<1> QED
  BY <1>1, FeedInit, PTL DEF Spec

\* Every variable keeps its type, and a run that ended has a reason
\* (_cmd_sync_feed_impl).
THEOREM FeedTypeCorrect == Spec => []TypeOK
<1>1. FeedInv => TypeOK
  BY DEF FeedInv
<1> QED
  BY <1>1, FeedAlways, PTL

\* However runs are cut short, killed, fail, are dry, and whatever is posted
\* meanwhile: the checkpoint in state.json never hides a deviation that is not
\* saved (sync.py:686-719).
THEOREM CheckpointHidesNothing == Spec => []CheckpointSound
<1>1. FeedInv => CheckpointSound
  BY DEF FeedInv
<1> QED
  BY <1>1, FeedAlways, PTL

\* A run never asks for a page below its checkpoint (sync.py:607-637).
THEOREM WalkStopsAtCheckpoint == Spec => []NeverPastCheckpoint
<1>1. FeedInv => NeverPastCheckpoint
  BY DEF FeedInv, Ahead
<1> QED
  BY <1>1, FeedAlways, PTL

=============================================================================
