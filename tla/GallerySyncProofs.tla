-------------------------- MODULE GallerySyncProofs -------------------------
(***************************************************************************)
(* The early stop of `sync artist` is sound when nothing goes wrong but    *)
(* truncation and crashes of first walks: for every page size and every    *)
(* gallery.  A completed --full walk owes nothing under any fault.         *)
(***************************************************************************)
EXTENDS GallerySync, SequenceTheorems, TLAPS

Regular == Faults \subseteq {"truncate", "earlycrash", "full", "post"}

\* Without deletions a deviation's number is its place in the gallery.
Numbered == gallery = [k \in 1..posted |-> k]

\* Among the deviations newer than b, none is missing under a saved one.
Closed(b) == \A l \in saved : \A k \in 1..l : k > b => k \in saved \cup NoImage

\* The same of those not newer than t.
Below(t) == \A l \in saved : l <= t => \A k \in 1..l : k \in saved \cup NoImage

Walked(t) == Closed(t) /\ (trusted => Below(t))

\* A page fetched when the newest deviation not yet walked was t: td is what it
\* lacks, more its has_more, why the stop reason so far.
PageOK(t, td, more, why) ==
    /\ t <= posted - offset
    /\ trusted => t = posted - offset
    /\ Walked(t)
    /\ \A k \in 1..posted : t - Limit < k /\ k <= t => k \in saved \cup NoImage \cup td
    /\ \A k \in td : t - Limit < k /\ k <= t
    /\ ~more => t <= Limit
    /\ why \in {"running", "caught up"}
    /\ why = "caught up" => \A k \in 1..posted : k <= t - Limit => k \in saved \cup NoImage

PageAt(t) == PageOK(t, todo, hasMore, reason)

Between ==
    /\ progress.complete => progress.offset = 0 /\ (pc = "idle" => Closed(0))
    /\ ~progress.complete => Closed(posted - progress.offset)

During ==
    /\ pc # "idle" => trusted = progress.complete
    /\ pc # "idle" /\ ~trusted => progress.offset <= offset
    /\ pc = "loop" => reason = "running" /\ Walked(posted - offset)
    /\ pc = "page" => \E t \in Int : PageAt(t)
    /\ pc = "end" => Closed(IF reason \in Terminal THEN 0 ELSE posted - offset)

GalleryInv ==
    /\ TypeOK
    /\ Numbered
    /\ saved \subseteq 1..posted
    /\ pc = "page" \/ todo = {}
    /\ todo \subseteq 1..posted
    /\ ~dry
    /\ Between
    /\ During

-----------------------------------------------------------------------------
(* The gallery as a sequence *)

LEMMA SameInterval ==
    ASSUME NEW m \in Nat, NEW n \in Nat, 1..m = 1..n
    PROVE  m = n
<1>1. CASE m < n
  <2>1. n \in 1..n /\ n \notin 1..m
    BY <1>1
  <2> QED
    BY <2>1
<1>2. CASE n < m
  <2>1. m \in 1..m /\ m \notin 1..n
    BY <1>2
  <2> QED
    BY <2>1
<1> QED
  BY <1>1, <1>2

LEMMA GalleryLength ==
    ASSUME TypeOK, Numbered
    PROVE  /\ posted \in Nat /\ Len(gallery) = posted
           /\ DOMAIN gallery = 1..posted
           /\ Items(gallery) = 1..posted
<1>1. posted \in Nat /\ Len(gallery) \in Nat /\ DOMAIN gallery = 1..Len(gallery)
  BY LenProperties DEF TypeOK
<1>2. DOMAIN gallery = 1..posted
  BY DEF Numbered
<1>3. Len(gallery) = posted
  BY <1>1, <1>2, SameInterval
<1>4. Items(gallery) = 1..posted
  BY <1>2 DEF Numbered, Items
<1> QED
  BY <1>1, <1>2, <1>3, <1>4

LEMMA PageIs ==
    ASSUME TypeOK, Numbered, NEW o \in Nat
    PROVE  /\ Page(o) \subseteq 1..posted
           /\ \A k \in 1..posted :
                 k \in Page(o) <=> k <= posted - o /\ k > posted - o - Limit
<1>1. /\ Len(gallery) = posted /\ DOMAIN gallery = 1..posted
      /\ \A k \in 1..posted : gallery[k] = k
  BY GalleryLength DEF Numbered
<1> QED
  BY <1>1 DEF Page

LEMMA NumberedAppend ==
    ASSUME TypeOK, Numbered, gallery' = Append(gallery, posted + 1),
           posted' = posted + 1
    PROVE  gallery' \in Seq(Nat) /\ Numbered'
<1>1. posted \in Nat /\ Len(gallery) = posted /\ gallery \in Seq(Nat)
  BY GalleryLength DEF TypeOK
<1>2. /\ gallery' \in Seq(Nat) /\ Len(gallery') = posted + 1
      /\ \A i \in 1..posted : gallery'[i] = gallery[i]
      /\ gallery'[posted + 1] = posted + 1
  BY <1>1, AppendProperties
<1>3. gallery' \in [1..(posted + 1) -> Nat]
  BY <1>1, <1>2, LenProperties
<1>4. \A i \in 1..(posted + 1) : gallery'[i] = i
  BY <1>1, <1>2 DEF Numbered
<1> QED
  BY <1>1, <1>2, <1>3, <1>4 DEF Numbered

LEMMA GalleryInit == Init => GalleryInv
<1> SUFFICES ASSUME Init PROVE GalleryInv
  OBVIOUS
<1>1. gallery \in Seq(Nat)
  BY PostedAssumption DEF Init
<1>2. saved \subseteq 1..posted /\ 1..posted \subseteq Nat
  BY PostedAssumption DEF Init
<1>3. TypeOK
  BY <1>1, <1>2, PostedAssumption DEF Init, TypeOK, Reasons
<1>4. Closed(posted - progress.offset)
  BY <1>2, PostedAssumption DEF Init, Closed
<1> QED
  BY <1>2, <1>3, <1>4 DEF Init, GalleryInv, Numbered, Between, During

-----------------------------------------------------------------------------
(* Type correctness *)

LEMMA PageType ==
    ASSUME TypeOK, NEW o
    PROVE  Page(o) \subseteq Nat
BY LenProperties DEF TypeOK, Page

LEMMA ItemsType ==
    ASSUME TypeOK
    PROVE  Items(gallery) \subseteq Nat
BY LenProperties DEF TypeOK, Items

LEMMA NextPageType ==
    ASSUME TypeOK, NEW why, NEW more, NextPage(why, more)
    PROVE  pc' \in {"loop", "end"} /\ reason' \in Reasons /\ offset' \in Nat
<1>1. offset \in Nat /\ offset + Limit \in Nat
  BY LimitAssumption DEF TypeOK
<1> QED
  BY <1>1 DEF NextPage, Reasons, Terminal

LEMMA DeleteType ==
    ASSUME TypeOK, NEW k, Delete(k)
    PROVE  gallery' \in Seq(Nat)
<1>1. gallery \in Seq(Nat) /\ k \in 1..Len(gallery) /\ Len(gallery) \in Nat
  BY LenProperties DEF TypeOK, Delete
<1>2. SubSeq(gallery, 1, k - 1) \in Seq(Nat)
  BY <1>1
<1>3. SubSeq(gallery, k + 1, Len(gallery)) \in Seq(Nat)
  BY <1>1
<1> QED
  BY <1>2, <1>3, ConcatProperties DEF Delete

LEMMA DeleteLength ==
    ASSUME gallery \in Seq(Nat), NEW k \in 1..Len(gallery), Delete(k)
    PROVE  Len(gallery') = Len(gallery) - 1
<1> DEFINE before == SubSeq(gallery, 1, k - 1)
           after == SubSeq(gallery, k + 1, Len(gallery))
<1>1. before \in Seq(Nat) /\ Len(before) = k - 1
  OBVIOUS
<1>2. after \in Seq(Nat) /\ Len(after) = Len(gallery) - k
  OBVIOUS
<1>3. gallery' = before \o after
  BY DEF Delete
<1> HIDE DEF before, after
<1>4. Len(gallery') = Len(before) + Len(after)
  BY <1>1, <1>2, <1>3, ConcatProperties
<1> QED
  BY <1>1, <1>2, <1>4

LEMMA GalleryTypeStep ==
    ASSUME TypeOK, [Next]_vars
    PROVE  TypeOK'
<1> USE DEF external, runVars
<1>1. CASE Start
  <2>1. ASSUME NEW f \in BOOLEAN, NEW d \in BOOLEAN, NEW o \in Nat, Begin(f, d, o),
               promised' \in {{}, Items(gallery) \ NoImage}
        PROVE  TypeOK'
    BY <2>1, ItemsType DEF Begin, TypeOK, Reasons
  <2>2. ResumeOffset \in Nat /\ 0..MaxPosted \subseteq Nat
    BY PostedAssumption DEF TypeOK, ResumeOffset
  <2> QED
    BY <1>1, <2>1, <2>2 DEF Start, StartWith
<1>2. CASE Truncate \/ MetadataError
  BY <1>2 DEF Truncate, MetadataError, TypeOK, Reasons
<1>3. CASE Fetch
  <2>1. CASE FetchEmpty
    BY <2>1 DEF FetchEmpty, TypeOK, Reasons
  <2>2. CASE FetchKnown
    BY <2>2, NextPageType DEF FetchKnown, TypeOK
  <2>3. CASE FetchUnknown
    <3>1. reason' \in Reasons /\ hasMore' \in BOOLEAN /\ pc' = "page"
      <4>1. hasMore' \in BOOLEAN
        <5>1. hasMore' = (offset + Limit < Len(gallery))
          BY <2>3, Zenon DEF FetchUnknown, MoreAfter
        <5> QED
          BY <5>1, LimitAssumption, LenProperties DEF TypeOK
      <4> QED
        BY <2>3, <4>1 DEF FetchUnknown, Reasons, Terminal
    <3>2. todo' \subseteq Nat
      BY <2>3, PageType DEF FetchUnknown
    <3> QED
      BY <2>3, <3>1, <3>2 DEF FetchUnknown, TypeOK
  <2> QED
    BY <1>3, <2>1, <2>2, <2>3 DEF Fetch
<1>4. ASSUME NEW failed \in SUBSET todo, SavePage(failed) PROVE TypeOK'
  BY <1>4, NextPageType DEF SavePage, TypeOK
<1>5. CASE Record
  BY <1>5 DEF Record, TypeOK
<1>6. ASSUME NEW done \in SUBSET todo, Crash(done) PROVE TypeOK'
  BY <1>6 DEF Crash, TypeOK
<1>7. CASE Post
  BY <1>7, AppendProperties DEF Post, TypeOK
<1>8. ASSUME NEW k \in DOMAIN gallery, Delete(k) PROVE TypeOK'
  BY <1>8, DeleteType DEF Delete, TypeOK
<1>9. ASSUME NEW i \in Items(gallery), FeedSaves(i) PROVE TypeOK'
  BY <1>9, ItemsType DEF FeedSaves, TypeOK
<1>10. ASSUME NEW i \in saved, RemoveFolder(i) PROVE TypeOK'
  BY <1>10 DEF RemoveFolder, TypeOK
<1>11. CASE UNCHANGED vars
  BY <1>11 DEF vars, TypeOK
<1> QED
  BY <1>1, <1>2, <1>3, <1>4, <1>5, <1>6, <1>7, <1>8, <1>9, <1>10, <1>11
  DEF Next, Save

\* Every variable keeps its type, whatever goes wrong.
THEOREM GalleryTypeCorrect == Spec => []TypeOK
<1>1. Init => TypeOK
  BY GalleryInit DEF GalleryInv
<1> QED
  BY <1>1, GalleryTypeStep, PTL DEF Spec

-----------------------------------------------------------------------------
(* The walk *)

LEMMA ClosedWeakens ==
    ASSUME NEW a \in Int, NEW b \in Int, a <= b, saved \subseteq Nat, Closed(a)
    PROVE  Closed(b)
BY DEF Closed

\* What PageAt says, piece by piece.
LEMMA PageFacts ==
    ASSUME NEW t, NEW td, NEW more, NEW why, PageOK(t, td, more, why)
    PROVE  /\ t <= posted - offset
           /\ trusted => t = posted - offset /\ Below(t)
           /\ Closed(t)
           /\ \A k \in 1..posted : t - Limit < k /\ k <= t => k \in saved \cup NoImage \cup td
           /\ \A k \in td : t - Limit < k /\ k <= t
           /\ ~more => t <= Limit
           /\ why \in {"running", "caught up"}
           /\ why = "caught up" => \A k \in 1..posted : k <= t - Limit => k \in saved \cup NoImage
BY Zenon DEF PageOK, Walked

\* Saving what a page lacks moves the boundary below the page.
LEMMA PageSaved ==
    ASSUME GalleryInv, NEW t \in Int, NEW td \in SUBSET (1..posted), NEW more, NEW why,
           PageOK(t, td, more, why), saved' = saved \cup (td \ NoImage)
    PROVE  /\ \A l \in saved' : \A k \in 1..l : k > t - Limit => k \in saved' \cup NoImage
           /\ trusted => \A l \in saved' :
                 l <= t - Limit => \A k \in 1..l : k \in saved' \cup NoImage
           /\ ~more \/ why = "caught up" =>
                 \A l \in saved' : \A k \in 1..l : k \in saved' \cup NoImage
<1>1. /\ Limit \in Nat /\ posted \in Nat /\ offset \in Nat
      /\ saved \subseteq 1..posted /\ td \subseteq 1..posted
  BY LimitAssumption DEF GalleryInv, TypeOK
<1>2. ASSUME NEW l \in saved', NEW k \in 1..l, k > t - Limit
      PROVE  k \in saved' \cup NoImage
  <2>1. k \in 1..posted /\ l \in 1..posted
    BY <1>1
  <2>2. CASE k <= t
    BY <1>1, <2>1, <2>2, <1>2, PageFacts
  <2>3. CASE k > t
    <3>1. l \in saved
      <4>1. k < l \/ k = l
        BY <1>1, <2>1
      <4>2. t < l
        BY <1>1, <2>1, <2>3, <4>1
      <4>3. ASSUME l \in td PROVE FALSE
        <5>1. l <= t
          BY <4>3, PageFacts
        <5> QED
          BY <2>1, <4>2, <5>1
      <4> QED
        BY <1>2, <4>3
    <3>2. Closed(t)
      BY PageFacts
    <3> QED
      BY <1>1, <2>1, <2>3, <3>1, <3>2 DEF Closed
  <2> QED
    BY <1>1, <2>1, <2>2, <2>3
<1>3. ASSUME trusted, NEW l \in saved', l <= t - Limit, NEW k \in 1..l
      PROVE  k \in saved' \cup NoImage
  <2>1. l \in saved /\ l <= t
    <3>1. ASSUME l \in td PROVE FALSE
      <4>1. t - Limit < l /\ l \in 1..posted
        BY <1>1, <3>1, PageFacts
      <4> QED
        BY <1>1, <1>3, <4>1
    <3> QED
      BY <1>1, <1>3, <3>1
  <2>2. Below(t)
    BY <1>3, PageFacts
  <2> QED
    BY <1>3, <2>1, <2>2 DEF Below
<1>4. ASSUME ~more \/ why = "caught up", NEW l \in saved', NEW k \in 1..l
      PROVE  k \in saved' \cup NoImage
  <2>1. k \in 1..posted
    BY <1>1
  <2>2. CASE k > t - Limit
    BY <1>2, <2>2
  <2>3. CASE k <= t - Limit
    <3>1. CASE ~more
      <4>1. t <= Limit
        BY <3>1, Zenon DEF PageOK
      <4> QED
        BY <1>1, <2>1, <2>3, <4>1
    <3>2. CASE why = "caught up"
      BY <2>1, <2>3, <3>2, PageFacts
    <3> QED
      BY <1>4, <3>1, <3>2
  <2> QED
    BY <1>1, <2>1, <2>2, <2>3
<1> QED
  BY <1>2, <1>3, <1>4

\* Saving parts of a page disturbs nothing among the newer deviations, so an
\* unfinished first walk can still be resumed where it was recorded.
LEMMA ResumePointKept ==
    ASSUME GalleryInv, pc = "page", ~progress.complete,
           NEW done \in SUBSET todo, saved' = saved \cup (done \ NoImage)
    PROVE  \A l \in saved' : \A k \in 1..l :
              k > posted - progress.offset => k \in saved' \cup NoImage
<1>1. /\ posted \in Nat /\ offset \in Nat /\ progress.offset \in Nat
      /\ saved \subseteq 1..posted /\ todo \subseteq 1..posted
  BY DEF GalleryInv, TypeOK
<1>2. PICK t \in Int : PageOK(t, todo, hasMore, reason)
  BY DEF GalleryInv, During, PageAt
<1>3. t <= posted - progress.offset
  <2>1. progress.offset <= offset
    BY DEF GalleryInv, During
  <2>2. t <= posted - offset
    BY <1>2, PageFacts
  <2> QED
    BY <1>1, <1>2, <2>1, <2>2
<1>4. ASSUME NEW l \in saved', NEW k \in 1..l, k > posted - progress.offset
      PROVE  k \in saved' \cup NoImage
  <2>1. l \in saved
    <3>1. l > t
      BY <1>1, <1>2, <1>3, <1>4
    <3>2. ASSUME l \in todo PROVE FALSE
      <4>1. l <= t /\ l \in 1..posted
        BY <1>1, <1>2, <3>2, PageFacts
      <4> QED
        BY <3>1, <4>1
    <3> QED
      BY <1>4, <3>2
  <2> QED
    BY <1>4, <2>1 DEF GalleryInv, Between, Closed
<1> QED
  BY <1>4

LEMMA PageFresh ==
    ASSUME GalleryInv, pc = "loop"
    PROVE  PageOK(posted - offset, Page(offset) \ saved, MoreAfter(offset),
                  IF CaughtUp(Page(offset)) THEN "caught up" ELSE "running")
<1>1. /\ Limit \in Nat \ {0} /\ posted \in Nat /\ offset \in Nat
      /\ saved \subseteq 1..posted /\ Len(gallery) = posted
      /\ Walked(posted - offset)
  BY LimitAssumption, GalleryLength DEF GalleryInv, TypeOK, During
<1>2. /\ Page(offset) \subseteq 1..posted
      /\ \A k \in 1..posted :
            k \in Page(offset) <=> k <= posted - offset /\ k > posted - offset - Limit
  BY <1>1, PageIs DEF GalleryInv
<1>3. ~MoreAfter(offset) => posted - offset <= Limit
  BY <1>1 DEF MoreAfter
<1>4. ASSUME CaughtUp(Page(offset)), NEW k \in 1..posted, k <= (posted - offset) - Limit
      PROVE  k \in saved \cup NoImage
  <2>1. PICK m \in 1..posted : m \in Page(offset) /\ m \in saved
    BY <1>2, <1>4 DEF CaughtUp
  <2>2. m <= posted - offset /\ k \in 1..m
    BY <1>1, <1>2, <1>4, <2>1
  <2>3. Below(posted - offset)
    BY <1>1, <1>4 DEF CaughtUp, Walked
  <2> QED
    BY <2>1, <2>2, <2>3 DEF Below
<1>5. \A k \in 1..posted : (posted - offset) - Limit < k /\ k <= posted - offset
                            => k \in saved \cup NoImage \cup (Page(offset) \ saved)
  BY <1>1, <1>2
<1>6. \A k \in Page(offset) \ saved :
         (posted - offset) - Limit < k /\ k <= posted - offset
  BY <1>1, <1>2
<1> DEFINE why == IF CaughtUp(Page(offset)) THEN "caught up" ELSE "running"
<1>7. /\ why \in {"running", "caught up"}
      /\ why = "caught up" => CaughtUp(Page(offset))
  OBVIOUS
<1>8. posted - offset <= posted - offset
  BY <1>1
<1> HIDE DEF why
<1>9. PageOK(posted - offset, Page(offset) \ saved, MoreAfter(offset), why)
  BY <1>1, <1>3, <1>4, <1>5, <1>6, <1>7, <1>8, Zenon DEF PageOK
<1> QED
  BY <1>9 DEF why

\* A page is done with: what the walk knows at the next page, or at its end.
LEMMA PageDone ==
    ASSUME GalleryInv, NEW t \in Int, NEW td \in SUBSET (1..posted), NEW more, NEW why,
           PageOK(t, td, more, why), saved' = saved \cup (td \ NoImage),
           NextPage(why, more), posted' = posted, trusted' = trusted
    PROVE  /\ pc' = "loop" => /\ reason' = "running" /\ offset' = offset + Limit
                              /\ Walked(posted - offset)'
           /\ pc' = "end" => /\ Closed(IF reason \in Terminal THEN 0 ELSE posted - offset)'
                             /\ offset' = offset
           /\ pc' \in {"loop", "end"}
<1>1. /\ Limit \in Nat /\ posted \in Nat /\ offset \in Nat /\ saved \subseteq 1..posted
      /\ t <= posted - offset /\ (trusted => t = posted - offset)
  BY LimitAssumption, PageFacts DEF GalleryInv, TypeOK
<1>2. pc' \in {"loop", "end"}
  BY DEF NextPage
<1>3. ASSUME pc' = "loop"
      PROVE  reason' = "running" /\ offset' = offset + Limit /\ Walked(posted - offset)'
  <2>1. reason' = "running" /\ offset' = offset + Limit
    BY <1>3 DEF NextPage
  <2>2. Closed(posted - offset)'
    <3>1. ASSUME NEW l \in saved', NEW k \in 1..l, k > posted - (offset + Limit)
          PROVE  k \in saved' \cup NoImage
      <4>1. k \in Int /\ k > t - Limit
        BY <1>1, <3>1
      <4> QED
        BY <3>1, <4>1, PageSaved
    <3> QED
      BY <2>1, <3>1 DEF Closed
  <2>3. trusted' => Below(posted - offset)'
    <3>1. ASSUME trusted, NEW l \in saved', l <= posted - (offset + Limit), NEW k \in 1..l
          PROVE  k \in saved' \cup NoImage
      <4>1. l <= t - Limit
        <5>1. l \in 1..posted
          BY <1>1
        <5> QED
          BY <1>1, <3>1, <5>1
      <4> QED
        BY <3>1, <4>1, PageSaved
    <3> QED
      BY <2>1, <3>1 DEF Below
  <2> QED
    BY <2>1, <2>2, <2>3 DEF Walked
<1>4. ASSUME pc' = "end"
      PROVE  /\ Closed(IF reason \in Terminal THEN 0 ELSE posted - offset)'
             /\ offset' = offset
  <2>1. /\ reason' \in Terminal /\ offset' = offset
        /\ ~more \/ why = "caught up"
    BY <1>4 DEF NextPage, Terminal
  <2>2. \A l \in saved' : \A k \in 1..l : k \in saved' \cup NoImage
    BY <2>1, PageSaved
  <2> QED
    BY <2>1, <2>2 DEF Closed
<1> QED
  BY <1>2, <1>3, <1>4

LEMMA GalleryStart ==
    ASSUME Regular, GalleryInv, TypeOK', Start
    PROVE  GalleryInv'
<1>1. PICK f \in BOOLEAN : Begin(f, FALSE, ResumeOffset)
  BY DEF Regular, Start, StartWith
<1>2. /\ pc = "idle" /\ pc' = "loop" /\ dry' = FALSE /\ trusted' = progress.complete
      /\ offset' = progress.offset /\ reason' = "running" /\ todo = {}
      /\ UNCHANGED <<gallery, posted, saved, progress, todo>>
  BY <1>1 DEF Begin, ResumeOffset, external, GalleryInv
<1>3. posted \in Nat /\ progress.offset \in Nat /\ saved \subseteq 1..posted
  BY DEF GalleryInv, TypeOK
<1>4. Closed(posted - progress.offset)
  <2>1. CASE progress.complete
    <3>1. progress.offset = 0 /\ Closed(0)
      BY <1>2, <2>1 DEF GalleryInv, Between
    <3>2. saved \subseteq Nat
      BY <1>3
    <3> QED
      BY <1>3, <3>1, <3>2, ClosedWeakens
  <2>2. CASE ~progress.complete
    BY <2>2 DEF GalleryInv, Between
  <2> QED
    BY <2>1, <2>2
<1>5. progress.complete => Below(posted - progress.offset)
  BY <1>2, <1>3 DEF GalleryInv, Between, Closed, Below
<1>6. Walked(posted - offset)'
  BY <1>2, <1>4, <1>5 DEF Walked, Closed, Below
<1>7. Between'
  BY <1>2 DEF GalleryInv, Between, Closed
<1>8. During'
  BY <1>2, <1>3, <1>6 DEF During
<1> QED
  BY <1>2, <1>7, <1>8 DEF GalleryInv, Numbered

\* A run stops at a page boundary, or between a page and its metadata.
LEMMA GalleryStop ==
    ASSUME GalleryInv, TypeOK', pc \in {"loop", "page"}, pc' = "end",
           reason' \notin Terminal, todo' = {},
           UNCHANGED <<external, saved, progress, runVars, offset>>
    PROVE  GalleryInv'
<1>1. /\ posted \in Nat /\ offset \in Nat /\ saved \subseteq 1..posted
  BY DEF GalleryInv, TypeOK
<1>2. Closed(posted - offset)
  <2>1. CASE pc = "loop"
    BY <2>1 DEF GalleryInv, During, Walked
  <2>2. CASE pc = "page"
    <3>1. PICK t \in Int : PageOK(t, todo, hasMore, reason)
      BY <2>2 DEF GalleryInv, During, PageAt
    <3>2. t <= posted - offset /\ Closed(t)
      BY <3>1, Zenon DEF PageOK, Walked
    <3>3. saved \subseteq Nat
      BY <1>1
    <3> QED
      BY <1>1, <3>2, <3>3, ClosedWeakens
  <2> QED
    BY <2>1, <2>2
<1>3. UNCHANGED <<gallery, posted, saved, progress, dry, trusted, offset>>
  BY DEF external, runVars
<1>4. Between'
  BY <1>3 DEF GalleryInv, Between, Closed
<1>5. During'
  <2>1. Closed(IF reason \in Terminal THEN 0 ELSE posted - offset)'
    BY <1>2, <1>3 DEF Closed, Terminal
  <2>2. trusted' = progress'.complete /\ (~trusted' => progress'.offset <= offset')
    BY <1>3 DEF GalleryInv, During
  <2> QED
    BY <2>1, <2>2 DEF During
<1> QED
  BY <1>3, <1>4, <1>5 DEF GalleryInv, Numbered

\* A page is done with: everything on it was known, or has been saved.
LEMMA GalleryAdvance ==
    ASSUME GalleryInv, TypeOK', pc \in {"loop", "page"},
           NEW t \in Int, NEW td \in SUBSET (1..posted), NEW more, NEW why,
           PageOK(t, td, more, why), NextPage(why, more),
           saved' = saved \cup (td \ NoImage), td \subseteq todo, todo' = {},
           UNCHANGED <<external, progress, runVars>>
    PROVE  GalleryInv'
<1>1. UNCHANGED <<gallery, posted, progress, dry, trusted>>
  BY DEF external, runVars
<1>2. /\ posted \in Nat /\ offset \in Nat /\ Limit \in Nat
      /\ progress.offset \in Nat /\ saved' \subseteq 1..posted
  BY LimitAssumption DEF GalleryInv, TypeOK
<1>3. /\ pc' \in {"loop", "end"}
      /\ pc' = "loop" => /\ reason' = "running" /\ offset' = offset + Limit
                         /\ Walked(posted - offset)'
      /\ pc' = "end" => /\ Closed(IF reason \in Terminal THEN 0 ELSE posted - offset)'
                        /\ offset' = offset
  BY <1>1, PageDone
<1>4. Between'
  <2>1. CASE progress.complete
    BY <1>1, <1>3, <2>1 DEF GalleryInv, Between
  <2>2. CASE ~progress.complete
    <3>1. \A l \in saved' : \A k \in 1..l :
             k > posted - progress.offset => k \in saved' \cup NoImage
      <4>1. CASE pc = "page"
        BY <2>2, <4>1, ResumePointKept
      <4>2. CASE pc = "loop"
        <5>1. todo = {} /\ saved' = saved
          BY <4>2 DEF GalleryInv
        <5> QED
          BY <2>2, <5>1 DEF GalleryInv, Between, Closed
      <4> QED
        BY <4>1, <4>2
    <3> QED
      BY <1>1, <2>2, <3>1 DEF Between, Closed
  <2> QED
    BY <2>1, <2>2
<1>5. During'
  <2>1. trusted' = progress'.complete
    BY <1>1 DEF GalleryInv, During
  <2>2. ~trusted' => progress'.offset <= offset'
    <3>1. ~trusted => progress.offset <= offset
      BY DEF GalleryInv, During
    <3> QED
      BY <1>1, <1>2, <1>3, <3>1
  <2> QED
    BY <1>3, <2>1, <2>2 DEF During
<1> QED
  BY <1>1, <1>2, <1>4, <1>5 DEF GalleryInv, Numbered

LEMMA GalleryFetch ==
    ASSUME GalleryInv, TypeOK', Fetch
    PROVE  GalleryInv'
<1>1. /\ pc = "loop" /\ todo = {} /\ posted \in Nat /\ offset \in Nat
      /\ Page(offset) \subseteq 1..posted
      /\ UNCHANGED <<external, saved, progress, runVars>>
  BY PageIs DEF GalleryInv, TypeOK, Fetch, FetchEmpty, FetchKnown, FetchUnknown
<1> DEFINE why == IF CaughtUp(Page(offset)) THEN "caught up" ELSE "running"
<1>2. PageOK(posted - offset, Page(offset) \ saved, MoreAfter(offset), why)
  BY <1>1, PageFresh
<1> HIDE DEF why
<1>3. CASE FetchEmpty
  BY <1>1, <1>3, GalleryStop DEF FetchEmpty, Terminal
<1>4. CASE FetchKnown
  <2>1. Page(offset) \ saved = {}
    BY <1>4 DEF FetchKnown
  <2>2. NextPage(why, MoreAfter(offset)) /\ todo' = todo
    BY <1>4 DEF FetchKnown, why
  <2>3. PageOK(posted - offset, {}, MoreAfter(offset), why)
    BY <1>2, <2>1
  <2>4. saved' = saved \cup ({} \ NoImage) /\ posted - offset \in Int
    BY <1>1
  <2> QED
    BY <1>1, <2>2, <2>3, <2>4, GalleryAdvance
<1>5. CASE FetchUnknown
  <2>1. /\ todo' = Page(offset) \ saved /\ hasMore' = MoreAfter(offset)
        /\ reason' = why /\ pc' = "page" /\ offset' = offset
    BY <1>5 DEF FetchUnknown, why
  <2>2. UNCHANGED <<gallery, posted, saved, progress, dry, trusted>>
    BY <1>1 DEF external, runVars
  <2>5. During'
    <3>1. \E t \in Int : PageAt(t)'
      <4>1. PICK t \in Int : t = posted - offset
        BY <1>1
      <4>2. PageOK(t, Page(offset) \ saved, MoreAfter(offset), why)
        BY <1>2, <4>1
      <4>3. PageAt(t)'
        BY <2>1, <2>2, <4>2 DEF PageAt, PageOK, Walked, Closed, Below
      <4> QED
        BY <4>3
    <3>2. trusted' = progress'.complete /\ (~trusted' => progress'.offset <= offset')
      BY <1>1, <2>1, <2>2 DEF GalleryInv, During
    <3> QED
      BY <2>1, <3>1, <3>2 DEF During
  <2>6. Between'
    BY <1>1, <2>1, <2>2 DEF GalleryInv, Between, Closed
  <2> QED
    BY <1>1, <2>1, <2>2, <2>5, <2>6 DEF GalleryInv, Numbered
<1> QED
  BY <1>3, <1>4, <1>5 DEF Fetch

LEMMA GallerySave ==
    ASSUME Regular, GalleryInv, TypeOK', NEW failed \in SUBSET todo, SavePage(failed)
    PROVE  GalleryInv'
<1>1. /\ failed = {} /\ ~dry /\ pc = "page" /\ todo \in SUBSET (1..posted)
      /\ UNCHANGED <<external, progress, runVars>>
      /\ NextPage(reason, hasMore) /\ todo' = {}
  BY DEF Regular, GalleryInv, SavePage
<1>2. saved' = saved \cup (todo \ NoImage)
  BY <1>1 DEF SavePage
<1>3. PICK t \in Int : PageOK(t, todo, hasMore, reason)
  BY <1>1 DEF GalleryInv, During, PageAt
<1> QED
  BY <1>1, <1>2, <1>3, GalleryAdvance

LEMMA GalleryRecord ==
    ASSUME GalleryInv, TypeOK', Record
    PROVE  GalleryInv'
<1>1. /\ pc = "end" /\ pc' = "idle"
      /\ UNCHANGED <<gallery, posted, saved, dry, trusted, offset, todo, reason>>
  BY DEF Record, external, runVars
<1>2. Closed(IF reason \in Terminal THEN 0 ELSE posted - offset)
  BY <1>1 DEF GalleryInv, During
<1>3. Between'
  <2>1. CASE reason \in Terminal
    <3>1. progress' = [complete |-> TRUE, offset |-> 0]
      BY <2>1 DEF Record
    <3> QED
      BY <1>1, <1>2, <2>1, <3>1 DEF Between, Closed
  <2>2. CASE reason \notin Terminal
    <3>1. progress' = [complete |-> FALSE, offset |-> offset]
      BY <2>2 DEF Record
    <3> QED
      BY <1>1, <1>2, <2>2, <3>1 DEF Between, Closed
  <2> QED
    BY <2>1, <2>2
<1>4. During'
  BY <1>1 DEF During
<1> QED
  BY <1>1, <1>3, <1>4 DEF GalleryInv, Numbered

\* A run that dies leaves a gallery unfinished that was unfinished before.
LEMMA GalleryCrash ==
    ASSUME Regular, GalleryInv, TypeOK', NEW done \in SUBSET todo, Crash(done)
    PROVE  GalleryInv'
<1>1. /\ ~progress.complete /\ ~dry /\ pc' = "idle" /\ todo' = {}
      /\ saved' = saved \cup (done \ NoImage)
      /\ UNCHANGED <<gallery, posted, progress, dry, trusted>>
  BY DEF Regular, GalleryInv, Crash, external, runVars
<1>2. saved' \subseteq 1..posted
  BY <1>1 DEF GalleryInv
<1>3. Between'
  <2>1. \A l \in saved' : \A k \in 1..l :
           k > posted - progress.offset => k \in saved' \cup NoImage
    <3>1. CASE pc = "page"
      BY <1>1, <3>1, ResumePointKept
    <3>2. CASE pc # "page"
      <4>1. saved' = saved
        BY <1>1, <3>2 DEF GalleryInv
      <4> QED
        BY <1>1, <4>1 DEF GalleryInv, Between, Closed
    <3> QED
      BY <3>1, <3>2
  <2> QED
    BY <1>1, <2>1 DEF Between, Closed
<1>4. During'
  BY <1>1 DEF During
<1> QED
  BY <1>1, <1>2, <1>3, <1>4 DEF GalleryInv, Numbered

\* A new deviation moves every other one an offset down, which an untrusting walk
\* meets as deviations it has already saved.
LEMMA GalleryPost ==
    ASSUME Regular, GalleryInv, TypeOK', Post
    PROVE  GalleryInv'
<1>1. /\ pc = "idle" \/ ~trusted
      /\ posted' = posted + 1 /\ gallery' = Append(gallery, posted + 1)
      /\ UNCHANGED <<saved, progress, pc, dry, trusted, offset, todo, hasMore, reason>>
  BY DEF Regular, Post, runVars
<1>2. /\ posted \in Nat /\ offset \in Nat /\ Limit \in Nat
      /\ progress.offset \in Nat /\ saved \subseteq 1..posted /\ saved \subseteq Nat
  BY LimitAssumption DEF GalleryInv, TypeOK
<1>3. Numbered'
  BY <1>1, NumberedAppend DEF GalleryInv
<1>4. \A o \in Nat : Closed(posted - o) => \A l \in saved : \A k \in 1..l :
                         k > posted + 1 - o => k \in saved \cup NoImage
  BY <1>2 DEF Closed
<1>5. Between'
  <2>1. CASE progress.complete
    BY <1>1, <2>1 DEF GalleryInv, Between, Closed
  <2>2. CASE ~progress.complete
    BY <1>1, <1>2, <1>4, <2>2 DEF GalleryInv, Between, Closed
  <2> QED
    BY <2>1, <2>2
<1>6. During'
  <2>1. CASE pc = "idle"
    BY <1>1, <2>1 DEF During
  <2>2. CASE pc = "loop"
    <3>1. ~trusted /\ Closed(posted - offset) /\ reason = "running"
      BY <1>1, <2>2 DEF GalleryInv, During, Walked
    <3>2. Walked(posted - offset)'
      BY <1>1, <1>2, <1>4, <3>1 DEF Walked, Closed
    <3>3. trusted' = progress'.complete /\ (~trusted' => progress'.offset <= offset')
      BY <1>1, <2>2 DEF GalleryInv, During
    <3> QED
      BY <1>1, <2>2, <3>1, <3>2, <3>3 DEF During
  <2>3. CASE pc = "page"
    <3>1. PICK t \in Int : PageOK(t, todo, hasMore, reason)
      BY <2>3 DEF GalleryInv, During, PageAt
    <3>2. ~trusted /\ t <= posted - offset
      BY <1>1, <2>3, <3>1, PageFacts
    <3>3. t <= posted' - offset'
      BY <1>1, <1>2, <3>2
    <3>4. /\ \A k \in 1..posted' : t - Limit < k /\ k <= t => k \in saved \cup NoImage \cup todo
          /\ reason = "caught up" =>
                \A k \in 1..posted' : k <= t - Limit => k \in saved \cup NoImage
      <4>1. \A k \in 1..posted' : k <= t => k \in 1..posted
        BY <1>1, <1>2, <3>2
      <4>2. \A k \in 1..posted' : k <= t - Limit => k <= t
        BY <1>1, <1>2
      <4> QED
        BY <3>1, <4>1, <4>2, PageFacts
    <3>5. /\ \A k \in todo : t - Limit < k /\ k <= t
          /\ ~hasMore => t <= Limit
          /\ reason \in {"running", "caught up"}
          /\ Closed(t)
      BY <3>1, Zenon DEF PageOK, Walked
    <3>6. PageAt(t)'
      <4>1. Closed(t)' /\ ~trusted'
        BY <1>1, <3>2, <3>5 DEF Closed
      <4> QED
        BY <1>1, <3>3, <3>4, <3>5, <4>1 DEF PageAt, PageOK, Walked
    <3>7. trusted' = progress'.complete /\ (~trusted' => progress'.offset <= offset')
      BY <1>1, <2>3 DEF GalleryInv, During
    <3> QED
      BY <1>1, <2>3, <3>6, <3>7 DEF During
  <2>4. CASE pc = "end"
    <3>1. Closed(IF reason \in Terminal THEN 0 ELSE posted - offset)
      BY <2>4 DEF GalleryInv, During
    <3>2. Closed(IF reason \in Terminal THEN 0 ELSE posted - offset)'
      BY <1>1, <1>2, <1>4, <3>1 DEF Closed
    <3>3. trusted' = progress'.complete /\ (~trusted' => progress'.offset <= offset')
      BY <1>1, <2>4 DEF GalleryInv, During
    <3> QED
      BY <1>1, <2>4, <3>2, <3>3 DEF During
  <2> QED
    BY <2>1, <2>2, <2>3, <2>4 DEF GalleryInv, TypeOK
<1>7. saved' \subseteq 1..posted' /\ todo' \subseteq 1..posted'
  BY <1>1, <1>2 DEF GalleryInv
<1> QED
  BY <1>1, <1>3, <1>5, <1>6, <1>7 DEF GalleryInv

LEMMA GalleryStep ==
    ASSUME Regular, GalleryInv, [Next]_vars
    PROVE  GalleryInv'
<1>1. TypeOK'
  BY GalleryTypeStep DEF GalleryInv
<1>2. CASE Start
  BY <1>1, <1>2, GalleryStart
<1>3. CASE Truncate
  <2>1. todo = {}
    BY <1>3 DEF Truncate, GalleryInv
  <2> QED
    BY <1>1, <1>3, <2>1, GalleryStop DEF Truncate, Terminal
<1>4. CASE Fetch
  BY <1>1, <1>4, GalleryFetch
<1>5. CASE MetadataError
  BY <1>1, <1>5, GalleryStop DEF MetadataError, Terminal
<1>6. CASE Save
  BY <1>1, <1>6, GallerySave DEF Save
<1>7. CASE Record
  BY <1>1, <1>7, GalleryRecord
<1>8. ASSUME NEW done \in SUBSET todo, Crash(done) PROVE GalleryInv'
  BY <1>1, <1>8, GalleryCrash
<1>9. CASE Post
  BY <1>1, <1>9, GalleryPost
<1>10. CASE \/ \E k \in DOMAIN gallery : Delete(k)
            \/ \E i \in Items(gallery) : FeedSaves(i)
            \/ \E i \in saved : RemoveFolder(i)
  BY <1>10 DEF Regular, Delete, FeedSaves, RemoveFolder
<1>11. CASE UNCHANGED vars
  <2>1. /\ Numbered' /\ Between' /\ saved' \subseteq 1..posted'
        /\ (pc' = "page" \/ todo' = {}) /\ todo' \subseteq 1..posted' /\ ~dry'
    BY <1>11 DEF vars, external, runVars, GalleryInv, Numbered, Between, Closed
  <2>2. During'
    BY <1>11 DEF vars, external, runVars, GalleryInv, During, PageAt, PageOK, Walked,
                 Closed, Below
  <2> QED
    BY <1>1, <2>1, <2>2 DEF GalleryInv
<1> QED
  BY <1>2, <1>3, <1>4, <1>5, <1>6, <1>7, <1>8, <1>9, <1>10, <1>11 DEF Next

LEMMA GalleryInvariant == ASSUME Regular PROVE Spec => []GalleryInv
<1>1. Regular
  OBVIOUS
<1>2. GalleryInv /\ [Next]_vars => GalleryInv'
  BY <1>1, GalleryStep
<1> QED
  BY <1>2, GalleryInit, PTL DEF Spec

-----------------------------------------------------------------------------
(* What a user relies on *)

\* Whatever page size and gallery, and however often walks are cut short or first
\* walks crash: a gallery recorded complete has no gap, so the early stop of the
\* next run from the top hides nothing (sync.py:811-818).
THEOREM NoGapIsLeftBehind == ASSUME Regular PROVE Spec => []NothingStranded
<1>1. ASSUME GalleryInv PROVE NothingStranded
  <2>1. SUFFICES ASSUME pc = "idle", progress.complete,
                        NEW k \in 1..posted, NEW l \in 1..posted, k < l, l \in saved
                 PROVE  k \in saved \cup NoImage
    <3>1. /\ DOMAIN gallery = 1..posted
          /\ \A k \in 1..posted : gallery[k] = k
      BY <1>1, GalleryLength DEF GalleryInv, Numbered
    <3> QED
      BY <3>1 DEF NothingStranded
  <2>2. k \in 1..l /\ k > 0
    BY <2>1
  <2>3. Closed(0)
    BY <1>1, <2>1 DEF GalleryInv, Between
  <2> QED
    BY <2>1, <2>2, <2>3 DEF Closed
<1> QED
  BY <1>1, GalleryInvariant, PTL

\* Under the same conditions a walk that declares itself caught up is: all that
\* lies on the pages below is saved (sync.py:796-799).
THEOREM EarlyStopIsSound == ASSUME Regular PROVE Spec => CaughtUpIsTrue
<1>1. ASSUME GalleryInv, [Next]_vars, reason # "caught up", reason' = "caught up",
             NEW k \in 1..(Len(gallery) - offset - Limit)
      PROVE  gallery[k] \in saved \cup NoImage
  <2>1. FetchKnown \/ FetchUnknown \/ \E f \in SUBSET todo : SavePage(f)
    BY <1>1 DEF Next, Start, StartWith, Begin, Truncate,
                Fetch, FetchEmpty, MetadataError, Save, Record, Crash, Post, Delete,
                FeedSaves, RemoveFolder, vars, Reasons
  <2>2. ASSUME NEW f \in SUBSET todo, SavePage(f) PROVE FALSE
    <3>1. NextPage(reason, hasMore)
      BY <2>2 DEF SavePage
    <3> QED
      BY <1>1, <3>1 DEF NextPage
  <2>3. pc = "loop"
    BY <2>1, <2>2 DEF FetchKnown, FetchUnknown
  <2>4. CaughtUp(Page(offset))
    <3>1. CASE FetchKnown
      BY <1>1, <3>1 DEF FetchKnown, NextPage
    <3>2. CASE FetchUnknown
      BY <1>1, <3>2 DEF FetchUnknown
    <3> QED
      BY <2>1, <2>2, <3>1, <3>2
  <2>5. /\ posted \in Nat /\ offset \in Nat /\ Limit \in Nat /\ Len(gallery) = posted
        /\ \A i \in 1..posted : gallery[i] = i
    BY <1>1, GalleryLength, LimitAssumption DEF GalleryInv, TypeOK, Numbered
  <2>6. k \in 1..posted /\ k <= (posted - offset) - Limit
    <3>1. k \in 1..(posted - offset - Limit)
      BY <1>1, <2>5
    <3> QED
      BY <2>5, <3>1
  <2>7. k \in saved \cup NoImage
    BY <1>1, <2>3, <2>4, <2>6, PageFresh, PageFacts
  <2> QED
    BY <2>5, <2>6, <2>7
<1>2. ASSUME GalleryInv, [Next]_vars
      PROVE  [reason # "caught up" /\ reason' = "caught up" =>
                \A k \in 1..(Len(gallery) - offset - Limit) :
                   gallery[k] \in saved \cup NoImage]_vars
  BY <1>1, <1>2
<1> QED
  BY <1>2, GalleryInvariant, PTL DEF Spec, CaughtUpIsTrue

-----------------------------------------------------------------------------
(* `--full` under every fault: what it still owes lies ahead of it *)

\* The deviation is in the gallery at last or older.
Ahead(i, last) == \E k \in DOMAIN gallery : gallery[k] = i /\ k <= last

FullLoop == \A i \in promised \ saved : Ahead(i, Len(gallery) - offset)

FullPage ==
    /\ reason = "running"
    /\ \A i \in promised \ saved :
          i \in todo \/ (hasMore /\ Ahead(i, Len(gallery) - offset - Limit))

FullInv ==
    /\ TypeOK
    /\ promised \cap NoImage = {}
    /\ dry => promised = {}
    /\ full /\ from = 0 =>
          /\ pc = "loop" => FullLoop
          /\ pc = "page" => FullPage
          /\ pc = "end" /\ reason = "gallery complete" => promised \subseteq saved

LEMMA FullInit == Init => FullInv
<1>1. Init => TypeOK
  BY GalleryInit DEF GalleryInv
<1> QED
  BY <1>1 DEF Init, FullInv

\* A page holds what lies ahead but not below it.
LEMMA PageAhead ==
    ASSUME TypeOK, NEW i, Ahead(i, Len(gallery) - offset)
    PROVE  /\ i \in Page(offset) \/ Ahead(i, Len(gallery) - offset - Limit)
           /\ ~MoreAfter(offset) => i \in Page(offset)
<1>1. /\ Len(gallery) \in Nat /\ offset \in Nat /\ Limit \in Nat
      /\ DOMAIN gallery = 1..Len(gallery)
  BY LimitAssumption, LenProperties DEF TypeOK
<1>2. PICK k \in DOMAIN gallery : gallery[k] = i /\ k <= Len(gallery) - offset
  BY DEF Ahead
<1>3. k \in Int /\ k >= 1
  BY <1>1
<1>4. CASE k > Len(gallery) - offset - Limit
  BY <1>2, <1>4 DEF Page
<1>5. CASE k <= Len(gallery) - offset - Limit
  <2>1. Ahead(i, Len(gallery) - offset - Limit)
    BY <1>2, <1>5 DEF Ahead
  <2>2. MoreAfter(offset)
    BY <1>1, <1>3, <1>5 DEF MoreAfter
  <2> QED
    BY <2>1, <2>2
<1> QED
  BY <1>1, <1>3, <1>4, <1>5

\* A new deviation takes nothing out of sight.
LEMMA AheadKept ==
    ASSUME TypeOK, NEW i, NEW last \in Int, Ahead(i, last), Post
    PROVE  /\ Len(gallery)' = Len(gallery) + 1
           /\ \E k \in DOMAIN gallery' : gallery'[k] = i /\ k <= last + 1
<1>1. PICK k \in DOMAIN gallery : gallery[k] = i /\ k <= last
  BY DEF Ahead
<1>2. /\ gallery \in Seq(Nat) /\ Len(gallery) \in Nat /\ k \in 1..Len(gallery)
      /\ posted + 1 \in Nat /\ gallery' = Append(gallery, posted + 1)
  BY LenProperties DEF TypeOK, Post
<1>3. /\ Len(gallery') = Len(gallery) + 1 /\ gallery'[k] = gallery[k]
      /\ DOMAIN gallery' = 1..(Len(gallery) + 1)
  BY <1>2
<1>4. k \in DOMAIN gallery' /\ k <= last + 1
  BY <1>1, <1>2, <1>3
<1> QED
  BY <1>1, <1>3, <1>4

LEMMA FullStart ==
    ASSUME FullInv, TypeOK', Start
    PROVE  FullInv'
<1> USE DEF external
<1>1. PICK isFull \in BOOLEAN, isDry \in BOOLEAN, start \in {ResumeOffset} \cup 0..MaxPosted :
          StartWith(isFull, isDry, start)
  BY DEF Start
<1>2. /\ gallery' = gallery /\ full' = isFull /\ from' = start /\ offset' = start
      /\ pc' = "loop"
      /\ promised' = IF isFull /\ ~isDry THEN Items(gallery) \ NoImage ELSE {}
  BY <1>1 DEF StartWith, Begin
<1>3. ASSUME from' = 0 PROVE FullLoop'
  <2>1. DOMAIN gallery = 1..Len(gallery) /\ Len(gallery) \in Nat /\ offset' = 0
    BY <1>2, <1>3, LenProperties DEF FullInv, TypeOK
  <2>2. \A k \in DOMAIN gallery : k <= Len(gallery) - offset'
    BY <2>1
  <2>3. \A i \in Items(gallery) : Ahead(i, Len(gallery) - offset')
    BY <2>2 DEF Ahead, Items
  <2>4. promised' \subseteq Items(gallery)
    BY <1>2
  <2> QED
    BY <1>2, <2>3, <2>4 DEF FullLoop, Ahead
<1>4. dry' = isDry
  BY <1>1 DEF StartWith, Begin
<1> QED
  BY <1>2, <1>3, <1>4 DEF FullInv

\* The walk stops before its end, or the run is over.
LEMMA FullStop ==
    ASSUME FullInv, TypeOK', Truncate \/ FetchEmpty \/ MetadataError \/ Record
    PROVE  FullInv'
<1>1. UNCHANGED <<full, dry, promised>>
  BY DEF Truncate, FetchEmpty, MetadataError, Record, runVars
<1>2. pc' = "idle" \/ (pc' = "end" /\ reason' # "gallery complete")
  BY DEF Truncate, FetchEmpty, MetadataError, Record
<1> QED
  BY <1>1, <1>2 DEF FullInv

\* What a finished page leaves owed is on the pages below, or there are none.
LEMMA FullNext ==
    ASSUME FullInv, TypeOK',
           NEW more \in BOOLEAN, NextPage("running", more),
           UNCHANGED <<gallery, full, dry, from>>, promised' \subseteq promised,
           full /\ from = 0 =>
              \A i \in promised' \ saved' :
                 more /\ Ahead(i, Len(gallery) - offset - Limit)
    PROVE  FullInv'
<1>1. CASE more
  <2>1. pc' = "loop" /\ offset' = offset + Limit
    BY <1>1 DEF NextPage
  <2>2. Len(gallery) - offset' = Len(gallery) - offset - Limit
    <3>1. Len(gallery) \in Nat /\ offset \in Nat /\ Limit \in Nat
      BY LimitAssumption, LenProperties DEF FullInv, TypeOK
    <3> QED
      BY <2>1, <3>1
  <2>3. full /\ from = 0 => FullLoop'
    BY <2>2 DEF FullLoop, Ahead
  <2> QED
    BY <2>1, <2>3 DEF FullInv
<1>2. CASE ~more
  <2>1. pc' = "end"
    BY <1>2 DEF NextPage
  <2>2. full /\ from = 0 => promised' \subseteq saved'
    BY <1>2
  <2> QED
    BY <2>1, <2>2 DEF FullInv
<1> QED
  BY <1>1, <1>2

LEMMA FullFetch ==
    ASSUME FullInv, TypeOK', FetchKnown \/ FetchUnknown
    PROVE  FullInv'
<1>1. /\ pc = "loop"
      /\ UNCHANGED <<gallery, full, dry, from, saved, promised>>
  BY DEF FetchKnown, FetchUnknown, external, runVars
<1>2. MoreAfter(offset) \in BOOLEAN
  <2>1. Len(gallery) \in Nat /\ offset \in Nat /\ Limit \in Nat
    BY LimitAssumption, LenProperties DEF FullInv, TypeOK
  <2> QED
    BY <2>1 DEF MoreAfter
<1>3. ASSUME full, from = 0, NEW i \in promised \ saved
      PROVE  /\ i \in Page(offset) \/ Ahead(i, Len(gallery) - offset - Limit)
             /\ ~MoreAfter(offset) => i \in Page(offset)
  BY <1>1, <1>3, PageAhead DEF FullInv, FullLoop
<1>4. CASE FetchKnown
  <2>1. CASE full
    <3>1. NextPage("running", MoreAfter(offset)) /\ Page(offset) \subseteq saved
      BY <1>4, <2>1 DEF FetchKnown, CaughtUp
    <3>2. from = 0 => \A i \in promised' \ saved' :
             MoreAfter(offset) /\ Ahead(i, Len(gallery) - offset - Limit)
      BY <1>1, <1>3, <2>1, <3>1
    <3> QED
      BY <1>1, <1>2, <3>1, <3>2, FullNext
  <2>2. CASE ~full
    BY <1>1, <2>2 DEF FullInv
  <2> QED
    BY <2>1, <2>2
<1>5. CASE FetchUnknown
  <2>1. /\ pc' = "page" /\ todo' = Page(offset) \ saved /\ offset' = offset
        /\ (hasMore' <=> MoreAfter(offset)) /\ (full => reason' = "running")
    BY <1>2, <1>5 DEF FetchUnknown, CaughtUp
  <2>2. ASSUME full, from = 0 PROVE FullPage'
    <3>1. ASSUME NEW i \in promised \ saved
          PROVE  \/ i \in todo'
                 \/ hasMore' /\ Ahead(i, Len(gallery) - offset - Limit)
      BY <1>3, <2>1, <2>2, <3>1
    <3> QED
      BY <1>1, <2>1, <2>2, <3>1 DEF FullPage, Ahead
  <2> QED
    BY <1>1, <2>1, <2>2 DEF FullInv
<1> QED
  BY <1>4, <1>5

LEMMA FullSave ==
    ASSUME FullInv, TypeOK', NEW failed \in SUBSET todo, SavePage(failed)
    PROVE  FullInv'
<1>1. /\ pc = "page" /\ NextPage(reason, hasMore) /\ promised' = promised \ failed
      /\ UNCHANGED <<gallery, full, dry, from>>
  BY DEF SavePage, external, runVars
<1>2. CASE full /\ from = 0
  <2>1. FullPage /\ hasMore \in BOOLEAN /\ promised \cap NoImage = {}
    BY <1>1, <1>2 DEF FullInv, TypeOK
  <2>2. dry => promised = {}
    BY DEF FullInv
  <2>3. NextPage("running", hasMore)
    BY <1>1, <2>1 DEF FullPage
  <2>4. \A i \in promised' \ saved' :
           hasMore /\ Ahead(i, Len(gallery) - offset - Limit)
    <3>1. CASE dry
      BY <1>1, <2>2, <3>1
    <3>2. CASE ~dry
      <4>1. saved' = saved \cup (todo \ (failed \cup NoImage))
        BY <3>2 DEF SavePage
      <4> QED
        BY <1>1, <2>1, <4>1 DEF FullPage
    <3> QED
      BY <3>1, <3>2
  <2> QED
    BY <1>1, <2>1, <2>3, <2>4, FullNext
<1>3. CASE ~(full /\ from = 0)
  BY <1>1, <1>3 DEF FullInv, SavePage
<1> QED
  BY <1>2, <1>3

LEMMA FullPost ==
    ASSUME FullInv, TypeOK', Post
    PROVE  FullInv'
<1>1. UNCHANGED <<pc, full, dry, from, saved, promised, offset, todo, hasMore, reason>>
  BY DEF Post, runVars
<1>2. /\ Len(gallery) \in Nat /\ Len(gallery') = Len(gallery) + 1
      /\ offset \in Nat /\ Limit \in Nat
  <2>1. /\ gallery \in Seq(Nat) /\ posted + 1 \in Nat
        /\ gallery' = Append(gallery, posted + 1)
    BY DEF FullInv, TypeOK, Post
  <2>2. Len(gallery) \in Nat /\ Len(gallery') = Len(gallery) + 1
    BY <2>1
  <2> QED
    BY <2>2, LimitAssumption DEF FullInv, TypeOK
<1>3. ASSUME NEW i, NEW d \in Nat, Ahead(i, Len(gallery) - d)
      PROVE  \E k \in DOMAIN gallery' : gallery'[k] = i /\ k <= Len(gallery') - d
  <2>1. /\ Len(gallery) - d \in Int
        /\ (Len(gallery) - d) + 1 = Len(gallery') - d
    BY <1>2
  <2> QED
    BY <1>3, <2>1, AheadKept DEF FullInv
<1>4. ASSUME FullLoop PROVE FullLoop'
  BY <1>1, <1>2, <1>3, <1>4 DEF FullLoop, Ahead
<1>5. ASSUME FullPage PROVE FullPage'
  <2>1. /\ offset + Limit \in Nat
        /\ Len(gallery) - offset - Limit = Len(gallery) - (offset + Limit)
        /\ Len(gallery') - offset - Limit = Len(gallery') - (offset + Limit)
    BY <1>2
  <2>2. ASSUME NEW i \in promised \ saved, i \notin todo
        PROVE  /\ hasMore
               /\ \E k \in DOMAIN gallery' :
                     gallery'[k] = i /\ k <= Len(gallery') - offset - Limit
    <3>1. hasMore /\ Ahead(i, Len(gallery) - (offset + Limit))
      BY <1>5, <2>1, <2>2 DEF FullPage
    <3> QED
      BY <1>3, <2>1, <3>1
  <2> QED
    BY <1>1, <1>5, <2>2 DEF FullPage, Ahead
<1> QED
  BY <1>1, <1>4, <1>5 DEF FullInv

\* A deletion takes out of sight what is deleted and what was next.
LEMMA AheadUnlessPassed ==
    ASSUME TypeOK, NEW d \in DOMAIN gallery, Delete(d),
           NEW i, i # gallery[d], NEW last \in Int, Ahead(i, last),
           last < d => i # gallery[last]
    PROVE  \E k \in DOMAIN gallery' : gallery'[k] = i /\ k <= last - 1
<1> DEFINE before == SubSeq(gallery, 1, d - 1)
           after == SubSeq(gallery, d + 1, Len(gallery))
<1>1. PICK k \in DOMAIN gallery : gallery[k] = i /\ k <= last
  BY DEF Ahead
<1>2. /\ gallery \in Seq(Nat) /\ Len(gallery) \in Nat
      /\ k \in 1..Len(gallery) /\ d \in 1..Len(gallery) /\ k # d
  <2>1. gallery \in Seq(Nat) /\ k # d
    BY <1>1 DEF TypeOK
  <2> QED
    BY <2>1, LenProperties
<1>3. /\ before \in Seq(Nat) /\ Len(before) = d - 1
      /\ \A j \in 1..(d - 1) : before[j] = gallery[j]
  BY <1>2
<1>4. /\ after \in Seq(Nat) /\ Len(after) = Len(gallery) - d
      /\ \A j \in 1..(Len(gallery) - d) : after[j] = gallery[d + j]
  <2>1. \A j \in (d + 1)..Len(gallery) : gallery[j] \in Nat
    BY <1>2, ElementOfSeq
  <2>2. /\ after \in Seq(Nat)
        /\ Len(after) = IF d + 1 <= Len(gallery) THEN Len(gallery) - (d + 1) + 1 ELSE 0
        /\ \A j \in 1..(Len(gallery) - (d + 1) + 1) : after[j] = gallery[(d + 1) + j - 1]
    <3>1. d + 1 \in Int /\ Len(gallery) \in Int
      BY <1>2
    <3> QED
      BY <2>1, <3>1, SubSeqProperties
  <2>3. /\ Len(gallery) - (d + 1) + 1 = Len(gallery) - d
        /\ (IF d + 1 <= Len(gallery) THEN Len(gallery) - (d + 1) + 1 ELSE 0)
              = Len(gallery) - d
        /\ \A j \in 1..(Len(gallery) - d) : (d + 1) + j - 1 = d + j
    <3>1. Len(gallery) \in Nat /\ d \in 1..Len(gallery)
      BY <1>2
    <3> QED
      BY <3>1
  <2>4. ASSUME NEW j \in 1..(Len(gallery) - d) PROVE after[j] = gallery[d + j]
    <3>1. after[j] = gallery[(d + 1) + j - 1] /\ (d + 1) + j - 1 = d + j
      BY <2>2, <2>3
    <3> QED
      BY <3>1
  <2> QED
    BY <2>2, <2>3, <2>4
<1>5. gallery' = before \o after
  BY DEF Delete
<1> HIDE DEF before, after
<1>6. /\ Len(gallery') = Len(gallery) - 1 /\ DOMAIN gallery' = 1..(Len(gallery) - 1)
      /\ \A j \in 1..(d - 1) : gallery'[j] = gallery[j]
      /\ \A j \in (d + 1)..Len(gallery) : gallery'[j - 1] = gallery[j]
  <2>1. /\ Len(gallery') = Len(before) + Len(after)
        /\ DOMAIN gallery' = 1..(Len(before) + Len(after))
        /\ \A j \in 1..Len(before) : gallery'[j] = before[j]
        /\ \A j \in (Len(before) + 1)..(Len(before) + Len(after)) :
              gallery'[j] = after[j - Len(before)]
    <3>1. /\ gallery' \in Seq(Nat) /\ Len(gallery') = Len(before) + Len(after)
          /\ \A j \in 1..(Len(before) + Len(after)) :
                gallery'[j] = IF j <= Len(before) THEN before[j] ELSE after[j - Len(before)]
      BY <1>3, <1>4, <1>5, ConcatProperties
    <3>2. DOMAIN gallery' = 1..Len(gallery')
      BY <3>1, LenProperties
    <3>3. Len(before) \in Nat /\ Len(after) \in Nat
      BY <1>3, <1>4, LenProperties
    <3>4. ASSUME NEW j \in 1..Len(before) PROVE gallery'[j] = before[j]
      <4>1. j \in 1..(Len(before) + Len(after)) /\ j <= Len(before)
        BY <3>3
      <4> QED
        BY <3>1, <4>1
    <3>5. ASSUME NEW j \in (Len(before) + 1)..(Len(before) + Len(after))
          PROVE  gallery'[j] = after[j - Len(before)]
      <4>1. j \in 1..(Len(before) + Len(after)) /\ ~(j <= Len(before))
        BY <3>3
      <4> QED
        BY <3>1, <4>1
    <3> QED
      BY <3>1, <3>2, <3>4, <3>5
  <2>2. ASSUME NEW j \in (d + 1)..Len(gallery) PROVE gallery'[j - 1] = gallery[j]
    <3>1. /\ j - 1 \in (Len(before) + 1)..(Len(before) + Len(after))
          /\ (j - 1) - Len(before) = j - d /\ j - d \in 1..(Len(gallery) - d)
          /\ d + (j - d) = j
      <4>1. Len(before) = d - 1 /\ Len(after) = Len(gallery) - d
        BY <1>3, <1>4
      <4>2. Len(gallery) \in Nat /\ d \in 1..Len(gallery) /\ j \in (d + 1)..Len(gallery)
        BY <1>2, <2>2
      <4>3. /\ j - 1 \in ((d - 1) + 1)..((d - 1) + (Len(gallery) - d))
            /\ (j - 1) - (d - 1) = j - d /\ j - d \in 1..(Len(gallery) - d)
            /\ d + (j - d) = j
        BY <4>2
      <4> QED
        BY <4>1, <4>3
    <3> QED
      BY <1>4, <2>1, <3>1
  <2>3. /\ Len(before) = d - 1
        /\ Len(before) + Len(after) = Len(gallery) - 1
    <3>1. Len(before) = d - 1 /\ Len(after) = Len(gallery) - d
      BY <1>3, <1>4
    <3>2. Len(gallery) \in Nat /\ d \in 1..Len(gallery)
      BY <1>2
    <3> QED
      BY <3>1, <3>2
  <2>4. \A j \in 1..(d - 1) : gallery'[j] = gallery[j]
    BY <1>3, <2>1, <2>3
  <2> QED
    BY <2>1, <2>2, <2>3, <2>4
<1>7. CASE k > d
  <2>1. k \in (d + 1)..Len(gallery) /\ k - 1 \in 1..(Len(gallery) - 1) /\ k - 1 <= last - 1
    BY <1>1, <1>2, <1>7
  <2> QED
    BY <1>1, <1>6, <2>1
<1>8. CASE k < d
  <2>1. k \in 1..(d - 1) /\ k \in 1..(Len(gallery) - 1)
    BY <1>2, <1>8
  <2>2. k # last
    BY <1>1, <1>8
  <2>3. k <= last - 1
    BY <1>1, <1>2, <2>2
  <2> QED
    BY <1>1, <1>6, <2>1, <2>3
<1> QED
  BY <1>2, <1>7, <1>8

LEMMA FullDelete ==
    ASSUME FullInv, TypeOK', NEW d \in DOMAIN gallery, Delete(d)
    PROVE  FullInv'
<1>1. /\ UNCHANGED <<pc, full, dry, from, saved, offset, todo, hasMore, reason>>
      /\ promised' = promised \ {gallery[j] : j \in {d} \cup ({NextUp} \cap 1..(d - 1))}
  BY DEF Delete, runVars
<1>2. /\ Len(gallery) \in Nat /\ offset \in Nat /\ Limit \in Nat /\ d \in 1..Len(gallery)
      /\ Len(gallery') = Len(gallery) - 1
  <2>1. gallery \in Seq(Nat) /\ d \in 1..Len(gallery) /\ Len(gallery) \in Nat
    BY LenProperties DEF FullInv, TypeOK
  <2>2. Len(gallery') = Len(gallery) - 1
    BY <2>1, DeleteLength
  <2> QED
    BY <2>1, <2>2, LimitAssumption DEF FullInv, TypeOK
<1>3. ASSUME NEW i \in promised', NextUp \in Int, Ahead(i, NextUp)
      PROVE  \E k \in DOMAIN gallery' : gallery'[k] = i /\ k <= NextUp - 1
  <2>1. i # gallery[d]
    BY <1>1, <1>3
  <2>2. NextUp >= 1
    <3>1. PICK k \in DOMAIN gallery : k <= NextUp
      BY <1>3 DEF Ahead
    <3>2. k \in 1..Len(gallery)
      BY <3>1, LenProperties DEF FullInv, TypeOK
    <3> QED
      BY <1>3, <3>1, <3>2
  <2>3. NextUp < d => i # gallery[NextUp]
    <3>1. NextUp < d => NextUp \in 1..(d - 1)
      BY <1>2, <1>3, <2>2
    <3> QED
      BY <1>1, <1>3, <3>1
  <2> QED
    BY <1>3, <2>1, <2>3, AheadUnlessPassed DEF FullInv
<1>4. ASSUME pc = "loop", FullLoop PROVE FullLoop'
  <2>1. NextUp = Len(gallery) - offset /\ NextUp \in Int
        /\ NextUp - 1 = Len(gallery') - offset
    BY <1>2, <1>4 DEF NextUp
  <2> QED
    BY <1>1, <1>3, <1>4, <2>1 DEF FullLoop, Ahead
<1>5. ASSUME pc = "page", FullPage PROVE FullPage'
  <2>1. /\ NextUp = Len(gallery) - offset - Limit /\ NextUp \in Int
        /\ NextUp - 1 = Len(gallery') - offset - Limit
    BY <1>2, <1>5 DEF NextUp
  <2>2. ASSUME NEW i \in promised' \ saved, i \notin todo
        PROVE  /\ hasMore
               /\ \E k \in DOMAIN gallery' :
                     gallery'[k] = i /\ k <= Len(gallery') - offset - Limit
    <3>1. hasMore /\ Ahead(i, NextUp)
      BY <1>1, <1>5, <2>1, <2>2 DEF FullPage
    <3> QED
      BY <1>3, <2>1, <2>2, <3>1
  <2> QED
    BY <1>1, <1>5, <2>2 DEF FullPage, Ahead
<1> QED
  BY <1>1, <1>4, <1>5 DEF FullInv

LEMMA FullStep ==
    ASSUME FullInv, [Next]_vars
    PROVE  FullInv'
<1>1. TypeOK'
  BY GalleryTypeStep DEF FullInv
<1>2. ASSUME NEW done \in SUBSET todo, Crash(done) PROVE FullInv'
  BY <1>1, <1>2 DEF Crash, runVars, FullInv
<1>3. ASSUME NEW k \in DOMAIN gallery, Delete(k) PROVE FullInv'
  BY <1>1, <1>3, FullDelete
<1>4. ASSUME \/ \E i \in Items(gallery) : FeedSaves(i)
             \/ \E i \in saved : RemoveFolder(i)
             \/ UNCHANGED vars
      PROVE  FullInv'
  <2>1. /\ promised' \ saved' \subseteq promised \ saved
        /\ promised' \subseteq promised
        /\ UNCHANGED <<gallery, full, dry, from, pc, offset, todo, hasMore, reason>>
    BY <1>4 DEF FeedSaves, RemoveFolder, vars, external, runVars
  <2>2. (FullLoop => FullLoop') /\ (FullPage => FullPage')
    BY <2>1 DEF FullLoop, FullPage, Ahead
  <2>3. promised \subseteq saved => promised' \subseteq saved'
    BY <2>1
  <2> QED
    BY <1>1, <2>1, <2>2, <2>3 DEF FullInv
<1> QED
  BY <1>1, <1>2, <1>3, <1>4, FullStart, FullStop, FullFetch, FullSave, FullPost
  DEF Next, Fetch, Save

\* Whatever goes wrong around it - posts, deletions, failures, crashes, other
\* commands, removed folders - a `--full` walk from the top that reports the gallery
\* complete has saved every image that was there when it began, but what failed, was
\* removed again or was deleted, and, for each deletion above the walk, the one
\* deviation that was next and moved past it (sync.py:754-756, 771, 880-883).
THEOREM FullWalkOwesNothing == Spec => []FullRecovers
<1>1. FullInv => FullRecovers
  BY DEF FullInv, FullRecovers
<1> QED
  BY <1>1, FullInit, FullStep, PTL DEF Spec
=============================================================================
