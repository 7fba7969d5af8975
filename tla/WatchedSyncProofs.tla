-------------------------- MODULE WatchedSyncProofs --------------------------
(* Proofs about WatchedSync, for any number of artists, any galleries and any  *)
(* lengths of the budget, the margins and the steps.                           *)
EXTENDS WatchedSync, TLAPS

\* The loop has accounted for the artists before i, and at its end for all.
Counted ==
    /\ pc \in {"idle", "discover"} =>
          i = 1 /\ done = 0 /\ failed = 0 /\ skipped = 0
    /\ pc \in {"next", "token", "walk"} => done + failed = i - 1 /\ skipped = 0
    /\ pc = "summary" => done + failed + skipped = N

\* The walk's budget ends at the run's deadline, later at most by its token check.
Timely ==
    /\ pc \in {"idle", "discover"} => now = 0
    /\ pc = "token" => now + walkBudget = Budget /\ walkBudget >= MinLeft
    /\ pc = "walk" => walkStart + walkBudget <= Budget + MaxToken

\* A walk is never past the gallery's last page.
OnPage == pc = "walk" => page < Pages[i]

IInv == TypeOK /\ Counted /\ Timely /\ OnPage /\ LedgerAdds /\ RunBounded

-----------------------------------------------------------------------------

LEMMA InitIInv == Init => IInv
<1> SUFFICES ASSUME Init PROVE IInv
  OBVIOUS
<1> USE NAssumption, TimeAssumption DEF Init
<1>1. progress \in [Artists -> Nat] /\ \A a \in Artists : progress[a] <= Pages[a]
  BY DEF Artists
<1>2. TypeOK
  BY <1>1 DEF TypeOK, Summary, Artists
<1>3. Counted /\ Timely /\ OnPage /\ RunBounded
  BY DEF Counted, Timely, OnPage, RunBounded
<1>4. LedgerAdds
  BY DEF LedgerAdds, Summary
<1> QED
  BY <1>2, <1>3, <1>4 DEF IInv

\* A run that ends leaves nothing behind but the disk.
LEMMA StopKeeps ==
    ASSUME IInv, Stop, progress' = progress, grant' = grant,
           mark' \in {"none", "rejected"},
           \/ lastSync' = lastSync
           \/ RecordCrash
           \/ pc = "summary" /\ lastSync' = Summary("watched", StopReason, done, failed, skipped)
    PROVE  IInv'
<1> USE NAssumption, TimeAssumption
<1>1. pc = "summary" => done \in 0..N /\ failed \in 0..N /\ skipped \in 0..N
  BY DEF IInv, TypeOK, Counted
<1>2. StopReason \in WatchedReasons
  BY DEF StopReason, WatchedReasons
<1>3. lastSync' \in [kind : {"none", "artist", "watched"},
                     reason : ArtistReasons \cup WatchedReasons \cup {"failed"},
                     done : 0..N, failed : 0..N, skipped : 0..N]
  BY <1>1, <1>2 DEF RecordCrash, Summary, IInv, TypeOK
<1>4. TypeOK'
  BY <1>3 DEF Stop, IInv, TypeOK, Artists
<1>5. Counted' /\ Timely' /\ OnPage' /\ RunBounded'
  BY DEF Stop, Counted, Timely, OnPage, RunBounded
<1>6. LedgerAdds'
  BY DEF LedgerAdds, RecordCrash, Summary, IInv, TypeOK, Counted
<1> QED
  BY <1>4, <1>5, <1>6 DEF IInv

\* An artist that failed is counted, and the loop goes on.
LEMMA CountFailedKeeps ==
    ASSUME IInv, CountFailed, pc \in {"token", "walk"},
           progress' = progress, lastSync' = lastSync,
           grant' = grant, mark' \in {"none", "rejected"}, doomed' \in Nat,
           now' \in Nat, RunBounded'
    PROVE  IInv'
<1> USE NAssumption, TimeAssumption
<1>1. TypeOK'
  BY DEF IInv, TypeOK, CountFailed, Advance, Artists
<1>2. Counted'
  BY DEF IInv, TypeOK, Counted, CountFailed, Advance, Artists
<1>3. Timely' /\ OnPage'
  BY DEF Timely, OnPage, CountFailed, Advance
<1>4. LedgerAdds'
  BY DEF IInv, LedgerAdds
<1> QED
  BY <1>1, <1>2, <1>3, <1>4 DEF IInv

\* A walk that ends is counted as done, whatever its reason.
LEMMA EndWalkKeeps ==
    ASSUME IInv, pc = "walk", NEW p \in Nat, p <= Pages[i],
           NEW reason \in ArtistReasons, EndWalk(p, reason),
           now' \in Nat, RunBounded'
    PROVE  IInv'
<1> USE NAssumption, TimeAssumption
<1>1. /\ progress' \in [Artists -> Nat]
      /\ \A a \in Artists : progress'[a] <= Pages[a]
  BY DEF IInv, TypeOK, EndWalk, Artists
<1>2. lastSync' \in [kind : {"none", "artist", "watched"},
                     reason : ArtistReasons \cup WatchedReasons \cup {"failed"},
                     done : 0..N, failed : 0..N, skipped : 0..N]
  BY DEF EndWalk, Summary
<1>3. TypeOK'
  BY <1>1, <1>2 DEF IInv, TypeOK, EndWalk, Advance, Artists
<1>4. Counted'
  BY DEF IInv, TypeOK, Counted, EndWalk, Advance, Artists
<1>5. Timely' /\ OnPage'
  BY DEF Timely, OnPage, EndWalk, Advance
<1>6. LedgerAdds'
  BY DEF LedgerAdds, EndWalk, Summary
<1> QED
  BY <1>3, <1>4, <1>5, <1>6 DEF IInv

\* A page that was begun within the walk's budget ends within the run's bound.
LEMMA PageBounded ==
    ASSUME IInv, PageInBudget, NEW d \in 1..MaxPage, now' = now + d
    PROVE  now' \in Nat /\ RunBounded'
BY NAssumption, TimeAssumption DEF IInv, TypeOK, Timely, PageInBudget, RunBounded

\* So does a token check.
LEMMA TokenBounded ==
    ASSUME IInv, pc = "token", NEW t \in 0..MaxToken, now' = now + t
    PROVE  now' \in Nat /\ RunBounded'
BY NAssumption, TimeAssumption DEF IInv, TypeOK, Timely, RunBounded

LEMMA PageType ==
    ASSUME IInv, pc = "walk"
    PROVE  i \in Artists /\ page \in Nat /\ Pages[i] \in Nat /\ page < Pages[i]
BY NAssumption DEF IInv, TypeOK, OnPage, Artists

-----------------------------------------------------------------------------

LEMMA RunKeeps == ASSUME IInv, Run PROVE IInv'
<1> USE NAssumption, TimeAssumption
<1>1. CASE Start
  <2>1. TypeOK'
    BY <1>1 DEF Start, IInv, TypeOK, disk, walk, ledger, Artists
  <2>2. Counted' /\ Timely' /\ OnPage'
    BY <1>1 DEF Start, IInv, Counted, Timely, OnPage, walk, ledger
  <2>3. LedgerAdds' /\ RunBounded'
    BY <1>1 DEF Start, IInv, LedgerAdds, RunBounded, disk
  <2> QED
    BY <2>1, <2>2, <2>3 DEF IInv
<1>2. CASE StartRejected
  BY <1>2, StopKeeps DEF StartRejected
<1>3. ASSUME NEW d \in 0..MaxDiscover, Discovered(d) PROVE IInv'
  <2>1. TypeOK'
    BY <1>3 DEF Discovered, IInv, TypeOK, Counted, disk, walk, ledger, Artists
  <2>2. Counted' /\ Timely' /\ OnPage'
    BY <1>3 DEF Discovered, IInv, TypeOK, Counted, Timely, OnPage, walk, ledger
  <2>3. LedgerAdds' /\ RunBounded'
    BY <1>3 DEF Discovered, IInv, TypeOK, Timely, LedgerAdds, RunBounded, disk
  <2> QED
    BY <2>1, <2>2, <2>3 DEF IInv
<1>4. CASE OutOfTime
  <2>1. TypeOK'
    BY <1>4 DEF OutOfTime, IInv, TypeOK, disk, walk, Artists
  <2>2. Counted' /\ Timely' /\ OnPage'
    BY <1>4 DEF OutOfTime, IInv, TypeOK, Counted, Timely, OnPage, walk, Artists
  <2>3. LedgerAdds' /\ RunBounded'
    BY <1>4 DEF OutOfTime, IInv, LedgerAdds, RunBounded, disk
  <2> QED
    BY <2>1, <2>2, <2>3 DEF IInv
<1>5. CASE TakeArtist
  <2>1. TypeOK'
    BY <1>5 DEF TakeArtist, Left, IInv, TypeOK, disk, ledger, Artists
  <2>2. Counted' /\ Timely' /\ OnPage'
    BY <1>5 DEF TakeArtist, Left, IInv, TypeOK, Counted, Timely, OnPage, ledger
  <2>3. LedgerAdds' /\ RunBounded'
    BY <1>5 DEF TakeArtist, IInv, LedgerAdds, RunBounded, disk
  <2> QED
    BY <2>1, <2>2, <2>3 DEF IInv
<1>6. ASSUME NEW t \in 0..MaxToken, TokenOk(t) PROVE IInv'
  <2>1. now' \in Nat /\ RunBounded'
    BY <1>6, TokenBounded DEF TokenOk
  <2>2. i \in Artists
    BY <1>6 DEF TokenOk, IInv, TypeOK
  <2>3. page' \in Nat /\ page' < Pages[i]
    BY <1>6, <2>2 DEF TokenOk, ResumePage, IInv, TypeOK, Artists
  <2>4. TypeOK'
    BY <1>6, <2>1, <2>2, <2>3 DEF TokenOk, IInv, TypeOK, disk, ledger, Artists
  <2>5. Counted' /\ Timely' /\ OnPage'
    BY <1>6, <2>3 DEF TokenOk, IInv, TypeOK, Counted, Timely, OnPage, ledger
  <2>6. LedgerAdds'
    BY <1>6 DEF TokenOk, IInv, LedgerAdds, disk
  <2> QED
    BY <2>1, <2>4, <2>5, <2>6 DEF IInv
<1>7. ASSUME NEW t \in 0..MaxToken, TokenRejected(t) PROVE IInv'
  <2>1. now' \in Nat /\ RunBounded'
    BY <1>7, TokenBounded DEF TokenRejected
  <2>2. doomed' \in Nat
    BY <1>7 DEF TokenRejected, IInv, TypeOK
  <2> QED
    BY <1>7, <2>1, <2>2, CountFailedKeeps DEF TokenRejected
<1>8. ASSUME NEW d \in 1..MaxPage, CaughtUp(d) PROVE IInv'
  <2>1. pc = "walk" /\ now' \in Nat /\ RunBounded'
    BY <1>8, PageBounded DEF CaughtUp, PageInBudget
  <2>2. Pages[i] \in Nat /\ Pages[i] <= Pages[i]
    BY <2>1, PageType
  <2>3. EndWalk(Pages[i], "caught up") /\ "caught up" \in ArtistReasons
    BY <1>8 DEF CaughtUp, ArtistReasons
  <2> QED
    BY <2>1, <2>2, <2>3, EndWalkKeeps, Zenon
<1>9. ASSUME NEW d \in 1..MaxPage, LastPage(d) PROVE IInv'
  <2>1. pc = "walk" /\ now' \in Nat /\ RunBounded'
    BY <1>9, PageBounded DEF LastPage, PageInBudget
  <2>2. Pages[i] \in Nat /\ Pages[i] <= Pages[i]
    BY <2>1, PageType
  <2>3. EndWalk(Pages[i], "gallery complete") /\ "gallery complete" \in ArtistReasons
    BY <1>9 DEF LastPage, ArtistReasons
  <2> QED
    BY <2>1, <2>2, <2>3, EndWalkKeeps, Zenon
<1>10. ASSUME NEW d \in 1..MaxPage, NextPage(d) PROVE IInv'
  <2>1. pc = "walk" /\ now' \in Nat /\ RunBounded'
    BY <1>10, PageBounded DEF NextPage, PageInBudget
  <2>2. TypeOK'
    BY <1>10, <2>1 DEF NextPage, IInv, TypeOK, disk, ledger, Artists
  <2>3. Counted' /\ Timely' /\ OnPage'
    BY <1>10, <2>1, PageType DEF NextPage, IInv, TypeOK, Counted, Timely, OnPage, ledger
  <2>4. LedgerAdds'
    BY <1>10 DEF NextPage, IInv, LedgerAdds, disk
  <2> QED
    BY <2>1, <2>2, <2>3, <2>4 DEF IInv
<1>11. ASSUME NEW d \in 1..MaxPage, PageRejected(d) PROVE IInv'
  <2>1. pc = "walk" /\ now' \in Nat /\ RunBounded'
    BY <1>11, PageBounded DEF PageRejected, PageInBudget
  <2>2. doomed' \in Nat
    BY <1>11 DEF PageRejected, IInv, TypeOK
  <2> QED
    BY <1>11, <2>1, <2>2, CountFailedKeeps DEF PageRejected
<1>12. CASE BudgetOut
  <2>1. pc = "walk" /\ now' \in Nat /\ RunBounded'
    BY <1>12 DEF BudgetOut, IInv, TypeOK, RunBounded
  <2>2. page \in Nat /\ page <= Pages[i]
    BY <2>1, PageType
  <2>3. EndWalk(page, "time budget exhausted") /\ "time budget exhausted" \in ArtistReasons
    BY <1>12 DEF BudgetOut, ArtistReasons
  <2> QED
    BY <2>1, <2>2, <2>3, EndWalkKeeps, Zenon
<1>13. CASE Finish
  BY <1>13, StopKeeps DEF Finish, IInv, TypeOK
<1> QED
  BY <1>1, <1>2, <1>3, <1>4, <1>5, <1>6, <1>7, <1>8, <1>9, <1>10, <1>11, <1>12,
     <1>13 DEF Run

LEMMA FaultKeeps == ASSUME IInv, Fault PROVE IInv'
<1> USE NAssumption, TimeAssumption
<1>1. mark \in {"none", "rejected"} /\ doomed \in Nat
  BY DEF IInv, TypeOK
<1>2. CASE NobodyFound
  BY <1>1, <1>2, StopKeeps DEF NobodyFound, disk
<1>3. CASE DiscoveryFails
  BY <1>1, <1>3, StopKeeps DEF DiscoveryFails
<1>4. ASSUME NEW t \in 0..MaxToken, TokenCrashes(t) \/ SetupExits(t) PROVE IInv'
  <2>1. now' \in Nat /\ RunBounded'
    BY <1>4, TokenBounded DEF TokenCrashes, SetupExits
  <2> QED
    BY <1>1, <1>4, <2>1, CountFailedKeeps DEF TokenCrashes, SetupExits, disk
<1>5. ASSUME NEW d \in 1..MaxPage, HttpError(d) PROVE IInv'
  <2>1. pc = "walk" /\ now' \in Nat /\ RunBounded'
    BY <1>5, PageBounded DEF HttpError, PageInBudget
  <2>2. page \in Nat /\ page <= Pages[i]
    BY <2>1, PageType
  <2>3. EndWalk(page, "http") /\ "http" \in ArtistReasons
    BY <1>5 DEF HttpError, ArtistReasons
  <2> QED
    BY <2>1, <2>2, <2>3, EndWalkKeeps, Zenon
<1>6. ASSUME NEW d \in 1..MaxPage, WalkCrashes(d) \/ WalkExits(d) PROVE IInv'
  <2>1. pc = "walk" /\ now' \in Nat /\ RunBounded'
    BY <1>6, PageBounded DEF WalkCrashes, WalkExits, PageInBudget
  <2> QED
    BY <1>1, <1>6, <2>1, CountFailedKeeps DEF WalkCrashes, WalkExits, disk
<1>7. CASE WalkExitsRun
  BY <1>1, <1>7, StopKeeps DEF WalkExitsRun, disk
<1>8. CASE Interrupt
  BY <1>1, <1>8, StopKeeps DEF Interrupt
<1>9. CASE Kill
  BY <1>1, <1>9, StopKeeps DEF Kill, disk
<1>10. CASE Revoke
  BY <1>10 DEF Revoke, IInv, TypeOK, Counted, Timely, OnPage, LedgerAdds,
               RunBounded, disk, walk, ledger
<1>11. CASE StartExits
  BY <1>1, <1>11, StopKeeps DEF StartExits, disk
<1> QED
  BY <1>2, <1>3, <1>4, <1>5, <1>6, <1>7, <1>8, <1>9, <1>10, <1>11 DEF Fault

LEMMA NextKeeps == ASSUME IInv, [Next]_vars PROVE IInv'
<1>1. CASE Run
  BY <1>1, RunKeeps
<1>2. CASE Fault
  BY <1>2, FaultKeeps
<1>3. CASE Login
  BY <1>3 DEF Login, IInv, TypeOK, Counted, Timely, OnPage, LedgerAdds,
              RunBounded, walk, ledger
<1>4. CASE UNCHANGED vars
  BY <1>4 DEF vars, IInv, TypeOK, Counted, Timely, OnPage, LedgerAdds, RunBounded
<1> QED
  BY <1>1, <1>2, <1>3, <1>4 DEF Next

LEMMA Inductive == Spec => []IInv
BY InitIInv, NextKeeps, PTL DEF Spec

-----------------------------------------------------------------------------

\* Every variable keeps its type: no walk leaves its gallery, the ledger's counts
\* stay within the number of artists, and the loop within its list.
THEOREM WatchedTypeCorrect == Spec => []TypeOK
<1>1. IInv => TypeOK
  BY DEF IInv
<1> QED
  BY <1>1, Inductive, PTL

\* The summary of a finished run accounts for every artist once (sync.py:1163-1174).
THEOREM LedgerIsComplete == Spec => []LedgerAdds
<1>1. IInv => LedgerAdds
  BY DEF IInv
<1> QED
  BY <1>1, Inductive, PTL

\* The shared budget bounds the whole run (sync.py:1094-1099), for any number of
\* artists: it is overrun by less than one token check and one page.
THEOREM BudgetBoundsTheRun == Spec => []RunBounded
<1>1. IInv => RunBounded
  BY DEF IInv
<1> QED
  BY <1>1, Inductive, PTL

=============================================================================
