---------------------------- MODULE ArchiveProofs ----------------------------
(***************************************************************************)
(* Proofs about Archive, for any deviations, names, folders and workers.   *)
(*                                                                         *)
(* PoolInv holds under every fault: what a worker may count on from the    *)
(* moment it resolved its folder.  KeptInv is what becomes of the disk and *)
(* the index as long as nobody deletes folders, damages descriptions or    *)
(* gives a deviation another title.                                        *)
(***************************************************************************)
EXTENDS Archive, SequenceTheorems, TLAPS

\* Every name that d's folder may have, whatever its title is or was.
Names(d) == UNION {{Base[t]} \cup {Suffixes[t][d][i] : i \in DOMAIN Suffixes[t][d]} :
                      t \in Title}

\* A folder is named after the deviation it describes.
Named == \A f \in Folder : folder[f].desc \in Dev => f \in Names(folder[f].desc)

\* Who works on a deviation does so in a page; its folder is free for it as long
\* as it alone holds the lock, and described as its own from then on.
WorkerOk(w) ==
    /\ pc[w] # "free" =>
          /\ phase \in {"page", "drain"}
          /\ job[w] \in Dev /\ at[w] \in Folder /\ at[w] \in Names(job[w])
    /\ pc[w] = "reserved" => reserve = {w} /\ Free(at[w], job[w])
    /\ pc[w] \in {"image", "row"} => w \notin reserve /\ folder[at[w]].desc = job[w]

PoolInv ==
    /\ TypeOK
    /\ Named
    /\ phase # "page" => todo = {}
    /\ \A w \in Worker : WorkerOk(w)

-----------------------------------------------------------------------------
(* Names *)

LEMMA SuffixFacts ==
    ASSUME NEW t \in Title, NEW d \in Dev
    PROVE  /\ Base[t] \in Folder
           /\ Len(Suffixes[t][d]) \in Nat \ {0}
           /\ DOMAIN Suffixes[t][d] = 1 .. Len(Suffixes[t][d])
           /\ \A i \in DOMAIN Suffixes[t][d] : Suffixes[t][d][i] \in Folder
<1>1. Base[t] \in Folder /\ Suffixes[t][d] \in Seq(Folder) /\ Suffixes[t][d] # <<>>
  BY NamesAssumption
<1>2. Len(Suffixes[t][d]) \in Nat /\ Len(Suffixes[t][d]) # 0
  BY <1>1, EmptySeq, LenProperties
<1> QED
  BY <1>1, <1>2, LenProperties, ElementOfSeq

LEMMA HomeIsNamed ==
    ASSUME TypeOK, NEW f \in Folder, NEW d \in Dev, IsHome(f, d)
    PROVE  f \in Names(d)
<1>1. title[d] \in Title
  BY DEF TypeOK
<1> QED
  BY <1>1 DEF IsHome, Names

\* The folder that _resolve_folder returns may be used, the last name too.
LEMMA HomeIsFree ==
    ASSUME TypeOK, Named, NEW f \in Folder, NEW d \in Dev, IsHome(f, d)
    PROVE  Free(f, d)
<1> DEFINE t == title[d]
<1>1. CASE Free(Base[t], d)
  BY <1>1 DEF IsHome
<1>2. CASE ~Free(Base[t], d) /\ ~Free(f, d)
  <2>1. PICK i \in DOMAIN Suffixes[t][d] :
           f = Suffixes[t][d][i] /\ i = Len(Suffixes[t][d])
    BY <1>2 DEF IsHome
  <2>2. folder[f].desc \in Dev /\ folder[f].desc # d
    BY <1>2 DEF TypeOK, Free
  <2>3. f \in Names(folder[f].desc)
    BY <2>2 DEF Named
  <2>4. ASSUME NEW u \in Title
        PROVE  /\ f # Base[u]
               /\ \A j \in DOMAIN Suffixes[u][folder[f].desc] :
                     f # Suffixes[u][folder[f].desc][j]
    <3>1. t \in Title
      BY DEF TypeOK
    <3> HIDE DEF t
    <3>2. ASSUME NEW e \in Dev, e # d
          PROVE  /\ Suffixes[t][d][Len(Suffixes[t][d])] # Base[u]
                 /\ \A j \in DOMAIN Suffixes[u][e] :
                       Suffixes[t][d][Len(Suffixes[t][d])] # Suffixes[u][e][j]
      BY <3>1, <3>2, LastNameIsOwn
    <3> QED
      BY <2>1, <2>2, <3>2
  <2> QED
    BY <2>3, <2>4 DEF Names
<1> QED
  BY <1>1, <1>2

\* There is only one such folder.
LEMMA HomeIsUnique ==
    ASSUME TypeOK, NEW f \in Folder, NEW g \in Folder, NEW d \in Dev,
           IsHome(f, d), IsHome(g, d), Free(f, d), Free(g, d)
    PROVE  f = g
<1> DEFINE t == title[d]
<1>1. CASE Free(Base[t], d)
  BY <1>1 DEF IsHome
<1>2. CASE ~Free(Base[t], d)
  <2>1. PICK i \in DOMAIN Suffixes[t][d] :
           f = Suffixes[t][d][i] /\ \A k \in 1..(i - 1) : ~Free(Suffixes[t][d][k], d)
    BY <1>2 DEF IsHome
  <2>2. PICK j \in DOMAIN Suffixes[t][d] :
           g = Suffixes[t][d][j] /\ \A k \in 1..(j - 1) : ~Free(Suffixes[t][d][k], d)
    BY <1>2 DEF IsHome
  <2>3. i \in Nat \ {0} /\ j \in Nat \ {0}
    <3>1. t \in Title
      BY DEF TypeOK
    <3> QED
      BY <3>1, SuffixFacts
  <2>4. ~(i < j) /\ ~(j < i)
    <3>1. ASSUME i < j PROVE FALSE
      <4>1. i \in 1..(j - 1)
        BY <2>3, <3>1
      <4> QED
        BY <2>1, <2>2, <4>1
    <3>2. ASSUME j < i PROVE FALSE
      <4>1. j \in 1..(i - 1)
        BY <2>3, <3>2
      <4> QED
        BY <2>1, <2>2, <4>1
    <3> QED
      BY <3>1, <3>2
  <2>5. i = j
    BY <2>3, <2>4
  <2> QED
    BY <2>1, <2>2, <2>5
<1> QED
  BY <1>1, <1>2

\* It stays d's home as long as no other name becomes free for d.
LEMMA HomeIsKept ==
    ASSUME TypeOK, UNCHANGED title,
           NEW f \in Folder, NEW d \in Dev, IsHome(f, d), Free(f, d), Free(f, d)',
           \A g \in Folder : ~Free(g, d) => ~Free(g, d)'
    PROVE  IsHome(f, d)'
<1> DEFINE t == title[d]
<1>1. CASE Free(Base[t], d)
  BY <1>1 DEF IsHome
<1>2. CASE ~Free(Base[t], d)
  <2>1. PICK i \in DOMAIN Suffixes[t][d] :
           f = Suffixes[t][d][i] /\ \A k \in 1..(i - 1) : ~Free(Suffixes[t][d][k], d)
    BY <1>2 DEF IsHome
  <2> t \in Title /\ title'[d] = t
    BY DEF TypeOK
  <2>2. folder'[Base[t]].desc \notin {None, Bad, d}
    BY <1>2, SuffixFacts DEF Free
  <2>3. \A k \in 1..(i - 1) : Suffixes[t][d][k] \in Folder
    <3>1. i \in 1 .. Len(Suffixes[t][d]) /\ Len(Suffixes[t][d]) \in Nat
      BY SuffixFacts
    <3>2. \A k \in 1..(i - 1) : k \in DOMAIN Suffixes[t][d]
      BY <3>1, SuffixFacts
    <3> QED
      BY <3>2, SuffixFacts
  <2>4. \A k \in 1..(i - 1) : folder'[Suffixes[t][d][k]].desc \notin {None, Bad, d}
    BY <2>1, <2>3 DEF Free
  <2>5. folder'[f].desc \in {None, Bad, d}
    BY DEF Free
  <2> HIDE DEF t
  <2> QED
    BY <2>1, <2>2, <2>4, <2>5 DEF IsHome, Free
<1> QED
  BY <1>1, <1>2

-----------------------------------------------------------------------------
(* Types *)

LEMMA InitTypes == Init => TypeOK
BY DEF Init, TypeOK, Empty, NoRows, Rebuilder

LEMMA FinishTypes ==
    ASSUME TypeOK, NEW w \in Worker,
           NEW status \in {"none", "ok", "dup", "noimg", "fail"}, Finish(w, status)
    PROVE  /\ result' \in [Dev -> {"none", "ok", "dup", "noimg", "fail"}]
           /\ pc' = [pc EXCEPT ![w] = "free"]
           /\ pc' \in [Worker -> {"free", "reserved", "image", "row"}]
           /\ job' \in [Worker -> Dev \cup {None}]
           /\ at' \in [Worker -> Folder \cup {None}]
           /\ reserve' = reserve \ {w} /\ reserve' \subseteq Worker
           /\ todo' = todo
BY DEF TypeOK, Finish

LEMMA HealedTypes ==
    ASSUME TypeOK, NEW ds
    PROVE  Healed(ds) \in [Dev -> Folder \cup {None}]
BY DEF TypeOK, Healed

LEMMA RunTypes ==
    ASSUME TypeOK,
           \/ StartRun \/ (\E page \in SUBSET Dev : Page(page) \/ PageFails(page))
           \/ PageDone \/ EndRun \/ Interrupt \/ Crash \/ UNCHANGED vars
    PROVE  TypeOK'
<1> USE DEF TypeOK, poolVars, rebVars
<1>1. CASE StartRun
  BY <1>1 DEF StartRun, Scans, Rebuilder
<1>2. ASSUME NEW page \in SUBSET Dev, Page(page) \/ PageFails(page) PROVE TypeOK'
  <2>1. Healed(page) \in [Dev -> Folder \cup {None}]
    BY HealedTypes
  <2>2. CASE Page(page)
    BY <2>1, <2>2 DEF Page
  <2>3. CASE PageFails(page)
    BY <2>1, <2>3 DEF PageFails
  <2> QED
    BY <1>2, <2>2, <2>3
<1>3. CASE PageDone \/ EndRun \/ Interrupt
  BY <1>3 DEF PageDone, EndRun, Interrupt
<1>4. CASE Crash
  BY <1>4 DEF Crash, Rebuilder, NoRows
<1>5. CASE UNCHANGED vars
  BY <1>5 DEF vars
<1> QED
  BY <1>1, <1>2, <1>3, <1>4, <1>5

LEMMA WorkTypes ==
    ASSUME TypeOK, NEW w \in Worker, WorkerOk(w), Work(w) \/ ReservedFails(w) \/ SaveFails(w)
    PROVE  TypeOK'
<1> USE DEF TypeOK, rebVars
<1>1. ASSUME NEW d \in Dev, Take(w, d) PROVE TypeOK'
  BY <1>1 DEF Take
<1>2. CASE IndexHas(w) \/ SaveFails(w)
  BY <1>2, FinishTypes DEF IndexHas, SaveFails
<1>3. CASE Backfill(w) \/ IndexAdd(w)
  <2>1. at[w] \in Folder /\ job[w] \in Dev
    BY <1>3 DEF WorkerOk, Backfill, IndexAdd
  <2>2. index' \in [Dev -> Folder \cup {None}]
    BY <1>3, <2>1 DEF Backfill, IndexAdd
  <2> QED
    BY <1>3, <2>2, FinishTypes DEF Backfill, IndexAdd
<1>4. CASE Describe(w)
  <2>1. at[w] \in Folder /\ job[w] \in Dev
    BY <1>4 DEF WorkerOk, Describe
  <2>2. folder' \in [Folder -> [desc : Dev \cup {None, Bad}, img : Dev \cup {None}]]
    BY <1>4, <2>1 DEF Describe
  <2>3. index' \in [Dev -> Folder \cup {None}]
    BY <1>4, HealedTypes DEF Describe
  <2>4. CASE job[w] \in NoImage
    BY <1>4, <2>2, <2>3, <2>4, FinishTypes DEF Describe
  <2>5. CASE job[w] \notin NoImage
    BY <1>4, <2>2, <2>3, <2>5 DEF Describe
  <2> QED
    BY <2>4, <2>5
<1>5. CASE ReservedFails(w)
  BY <1>5, HealedTypes, FinishTypes DEF ReservedFails
<1>6. CASE Commit(w)
  <2>1. at[w] \in Folder /\ job[w] \in Dev
    BY <1>6 DEF WorkerOk, Commit
  <2> QED
    BY <1>6, <2>1 DEF Commit
<1> QED
  BY <1>1, <1>2, <1>3, <1>4, <1>5, <1>6 DEF Work

LEMMA OtherTypes ==
    ASSUME TypeOK,
           \/ RebuildScan \/ (\E p \in Rebuilder : Rebuild(p)) \/ RebuildKilled
           \/ DropIndex \/ (\E f \in Folder : Remove(f) \/ Corrupt(f))
           \/ \E d \in Dev, t \in Title : Retitle(d, t)
    PROVE  TypeOK'
<1> USE DEF TypeOK, poolVars, rebVars
<1>1. CASE RebuildScan
  BY <1>1 DEF RebuildScan, Scans, Rebuilder
<1>2. CASE RebuildKilled \/ DropIndex
  BY <1>2 DEF RebuildKilled, DropIndex, NoRows, Rebuilder
<1>3. ASSUME NEW p \in Rebuilder, Rebuild(p) PROVE TypeOK'
  <2>1. CASE RebuildWipe(p)
    BY <2>1 DEF RebuildWipe, NoRows
  <2>2. ASSUME NEW d \in Dev, RebuildRow(p, d) PROVE TypeOK'
    <3>1. rows[p] \in [Dev -> Folder \cup {None}] /\ rows[p][d] \in Folder \cup {None}
      OBVIOUS
    <3>2. index' \in [Dev -> Folder \cup {None}]
      BY <2>2, <3>1 DEF RebuildRow
    <3>3. rows' \in [Rebuilder -> [Dev -> Folder \cup {None}]]
      BY <2>2, <3>1 DEF RebuildRow
    <3>4. reb' \in [Rebuilder -> {"off", "wipe", "fill"}]
      BY <2>2 DEF RebuildRow
    <3>5. UNCHANGED <<title, folder, phase, todo, result, pc, job, at, reserve, damaged>>
      BY <2>2 DEF RebuildRow
    <3> QED
      BY <3>2, <3>3, <3>4, <3>5
  <2> QED
    BY <1>3, <2>1, <2>2 DEF Rebuild
<1>4. ASSUME NEW f \in Folder, Remove(f) \/ Corrupt(f) PROVE TypeOK'
  <2>1. CASE Remove(f)
    BY <2>1 DEF Remove, Empty
  <2>2. CASE Corrupt(f)
    BY <2>2 DEF Corrupt
  <2> QED
    BY <1>4, <2>1, <2>2
<1>5. ASSUME NEW d \in Dev, NEW t \in Title, Retitle(d, t) PROVE TypeOK'
  BY <1>5 DEF Retitle
<1> QED
  BY <1>1, <1>2, <1>3, <1>4, <1>5

-----------------------------------------------------------------------------
(* What a worker may count on *)

LEMMA PoolInit == Init => PoolInv
<1> SUFFICES ASSUME Init PROVE PoolInv
  OBVIOUS
<1>1. TypeOK
  BY InitTypes
<1>2. Named
  BY NamesAssumption DEF Init, Named, Empty
<1>3. \A w \in Worker : WorkerOk(w)
  BY DEF Init, WorkerOk
<1> QED
  BY <1>1, <1>2, <1>3 DEF PoolInv, Init

\* A worker that a step leaves alone keeps what it counts on.
LEMMA WorkerFrame ==
    ASSUME NEW w \in Worker, WorkerOk(w),
           pc'[w] = pc[w], job'[w] = job[w], at'[w] = at[w],
           pc[w] # "free" => phase' \in {"page", "drain"},
           pc[w] = "reserved" => reserve' = {w},
           pc[w] = "reserved" => folder'[at[w]].desc \in {None, Bad, job[w]},
           pc[w] \in {"image", "row"} =>
              w \notin reserve' /\ folder'[at[w]].desc = folder[at[w]].desc
    PROVE  WorkerOk(w)'
BY DEF WorkerOk, Free

\* Steps that touch neither the workers nor the folders.
LEMMA FolderFrame ==
    ASSUME PoolInv, TypeOK', UNCHANGED <<folder, pc, job, at, reserve>>,
           phase' # "page" => todo' = {},
           \/ phase' = phase
           \/ phase' \in {"page", "drain"}
           \/ \A w \in Worker : pc[w] = "free"
    PROVE  PoolInv'
<1>1. Named'
  BY DEF PoolInv, Named
<1>2. ASSUME NEW w \in Worker PROVE WorkerOk(w)'
  BY DEF PoolInv, WorkerOk, Free
<1> QED
  BY <1>1, <1>2 DEF PoolInv

LEMMA IdlePool ==
    ASSUME PoolInv, phase \notin {"page", "drain"}
    PROVE  \A w \in Worker : pc[w] = "free"
BY DEF PoolInv, WorkerOk

LEMMA RunPool ==
    ASSUME PoolInv,
           \/ StartRun \/ (\E page \in SUBSET Dev : Page(page) \/ PageFails(page))
           \/ PageDone \/ EndRun \/ Interrupt \/ Crash \/ UNCHANGED vars
    PROVE  PoolInv'
<1> USE DEF poolVars, rebVars
<1>1. TypeOK'
  BY RunTypes DEF PoolInv
<1>2. CASE StartRun \/ EndRun \/ (\E page \in SUBSET Dev : Page(page) \/ PageFails(page))
  <2>1. \A w \in Worker : pc[w] = "free"
    BY <1>2, IdlePool DEF StartRun, EndRun, Page, PageFails, Walking
  <2>2. phase' # "page" => todo' = {}
    BY <1>2 DEF StartRun, EndRun, Page, PageFails, Walking, PoolInv
  <2>3. UNCHANGED <<folder, pc, job, at, reserve>>
    BY <1>2 DEF StartRun, EndRun, Page, PageFails
  <2> QED
    BY <1>1, <2>1, <2>2, <2>3, FolderFrame
<1>3. CASE PageDone \/ Interrupt \/ UNCHANGED vars
  BY <1>1, <1>3, FolderFrame DEF PageDone, Interrupt, vars, PoolInv
<1>4. CASE Crash
  <2>1. Named'
    BY <1>4 DEF Crash, PoolInv, Named
  <2>2. \A w \in Worker : pc'[w] = "free"
    BY <1>4 DEF Crash
  <2> QED
    BY <1>1, <1>4, <2>1, <2>2 DEF Crash, PoolInv, WorkerOk
<1> QED
  BY <1>2, <1>3, <1>4

LEMMA TakePool ==
    ASSUME PoolInv, NEW w \in Worker, NEW d \in Dev, Take(w, d)
    PROVE  PoolInv'
<1>1. TypeOK'
  BY WorkTypes DEF PoolInv, Work
<1>2. PICK f \in Folder : IsHome(f, d) /\ at' = [at EXCEPT ![w] = f]
  BY DEF Take
<1>3. /\ at'[w] = f /\ job'[w] = d /\ pc'[w] = "reserved" /\ pc[w] = "free"
      /\ reserve = {} /\ reserve' = {w} /\ UNCHANGED <<folder, phase>>
      /\ \A u \in Worker \ {w} : at'[u] = at[u] /\ job'[u] = job[u] /\ pc'[u] = pc[u]
  BY <1>2 DEF Take, PoolInv, TypeOK
<1>4. f \in Names(d) /\ Free(f, d)
  BY <1>2, HomeIsNamed, HomeIsFree DEF PoolInv
<1>5. phase = "page" /\ todo' \subseteq todo
  BY DEF Take, PoolInv
<1>6. WorkerOk(w)'
  BY <1>3, <1>4, <1>5 DEF WorkerOk, Free
<1>7. ASSUME NEW u \in Worker, u # w PROVE WorkerOk(u)'
  <2>1. WorkerOk(u)
    BY DEF PoolInv
  <2>2. pc[u] # "reserved"
    BY <1>3, <2>1 DEF WorkerOk
  <2> QED
    BY <1>3, <1>5, <1>7, <2>1, <2>2, WorkerFrame
<1>8. Named'
  BY <1>3 DEF Named, PoolInv
<1> QED
  BY <1>1, <1>3, <1>5, <1>6, <1>7, <1>8 DEF PoolInv

\* A worker ends its deviation.
LEMMA FinishPool ==
    ASSUME PoolInv, TypeOK', NEW w \in Worker, NEW status, Finish(w, status),
           UNCHANGED phase, Named',
           \A u \in Worker \ {w} : pc[u] = "reserved" =>
              folder'[at[u]].desc \in {None, Bad, job[u]},
           \A u \in Worker \ {w} : pc[u] \in {"image", "row"} =>
              folder'[at[u]].desc = folder[at[u]].desc
    PROVE  PoolInv'
<1>1. /\ pc'[w] = "free" /\ reserve' = reserve \ {w} /\ todo' = todo
      /\ \A u \in Worker \ {w} : at'[u] = at[u] /\ job'[u] = job[u] /\ pc'[u] = pc[u]
  BY DEF Finish, PoolInv, TypeOK
<1>2. WorkerOk(w)'
  BY <1>1 DEF WorkerOk
<1>3. ASSUME NEW u \in Worker, u # w PROVE WorkerOk(u)'
  <2>1. WorkerOk(u)
    BY DEF PoolInv
  <2>2. pc[u] = "reserved" => reserve' = {u}
    BY <1>1, <1>3, <2>1 DEF WorkerOk
  <2>3. pc[u] \in {"image", "row"} => u \notin reserve'
    BY <1>1, <2>1 DEF WorkerOk
  <2>4. pc[u] # "free" => phase' \in {"page", "drain"}
    BY <2>1 DEF WorkerOk
  <2> QED
    BY <1>1, <1>3, <2>1, <2>2, <2>3, <2>4, WorkerFrame
<1> QED
  BY <1>1, <1>2, <1>3 DEF PoolInv

\* What a description changes, and for whom: only a free folder, under the lock.
LEMMA DescribeFacts ==
    ASSUME PoolInv, NEW w \in Worker, Describe(w)
    PROVE  /\ at[w] \in Folder /\ job[w] \in Dev /\ at[w] \in Names(job[w])
           /\ folder[at[w]].desc \in {None, Bad, job[w]}
           /\ folder'[at[w]].desc = job[w] /\ folder'[at[w]].img = folder[at[w]].img
           /\ \A f \in Folder \ {at[w]} : folder'[f] = folder[f]
           /\ \A u \in Worker \ {w} : pc[u] # "reserved"
<1>1. WorkerOk(w) /\ pc[w] = "reserved"
  BY DEF PoolInv, Describe
<1>2. at[w] \in Folder /\ job[w] \in Dev /\ at[w] \in Names(job[w])
  BY <1>1 DEF WorkerOk
<1>3. folder[at[w]].desc \in {None, Bad, job[w]} /\ reserve = {w}
  BY <1>1 DEF WorkerOk, Free
<1>4. \A u \in Worker \ {w} : pc[u] # "reserved"
  BY <1>3 DEF PoolInv, WorkerOk
<1>5. folder' = [folder EXCEPT ![at[w]].desc = job[w]]
  BY DEF Describe
<1>6. /\ folder'[at[w]].desc = job[w] /\ folder'[at[w]].img = folder[at[w]].img
      /\ \A f \in Folder \ {at[w]} : folder'[f] = folder[f]
  BY <1>2, <1>5 DEF PoolInv, TypeOK
<1> QED
  BY <1>2, <1>3, <1>4, <1>6

LEMMA CommitFacts ==
    ASSUME PoolInv, NEW w \in Worker, Commit(w)
    PROVE  /\ at[w] \in Folder /\ job[w] \in Dev
           /\ folder[at[w]].desc = job[w]
           /\ folder'[at[w]] = [desc |-> job[w], img |-> job[w]]
           /\ \A f \in Folder \ {at[w]} : folder'[f] = folder[f]
           /\ \A f \in Folder : folder'[f].desc = folder[f].desc
<1>1. WorkerOk(w) /\ pc[w] = "image"
  BY DEF PoolInv, Commit
<1>2. at[w] \in Folder /\ job[w] \in Dev /\ folder[at[w]].desc = job[w]
  BY <1>1 DEF WorkerOk
<1>3. folder' = [folder EXCEPT ![at[w]].img = job[w]]
  BY DEF Commit
<1>4. folder[at[w]] \in [desc : Dev \cup {None, Bad}, img : Dev \cup {None}]
  BY <1>2 DEF PoolInv, TypeOK
<1>5. folder'[at[w]] = [desc |-> job[w], img |-> job[w]]
  BY <1>2, <1>3, <1>4 DEF PoolInv, TypeOK
<1>6. \A f \in Folder \ {at[w]} : folder'[f] = folder[f]
  BY <1>3 DEF PoolInv, TypeOK
<1>7. \A f \in Folder : folder'[f].desc = folder[f].desc
  BY <1>2, <1>5, <1>6
<1> QED
  BY <1>2, <1>5, <1>6, <1>7

LEMMA DescribePool ==
    ASSUME PoolInv, NEW w \in Worker, Describe(w)
    PROVE  PoolInv'
<1>1. TypeOK'
  BY WorkTypes DEF PoolInv, Work
<1>2. Named'
  BY DescribeFacts DEF PoolInv, Named
<1>3. \A u \in Worker : pc[u] \in {"image", "row"} =>
         folder'[at[u]].desc = folder[at[u]].desc
  <2>1. ASSUME NEW u \in Worker, pc[u] \in {"image", "row"}
        PROVE  folder'[at[u]].desc = folder[at[u]].desc
    <3>1. at[u] \in Folder /\ folder[at[u]].desc = job[u] /\ job[u] \in Dev
      BY <2>1 DEF PoolInv, WorkerOk
    <3>2. CASE at[u] = at[w]
      BY <3>1, <3>2, DescribeFacts, NamesAssumption
    <3>3. CASE at[u] # at[w]
      BY <3>1, <3>3, DescribeFacts
    <3> QED
      BY <3>2, <3>3
  <2> QED
    BY <2>1
<1>4. CASE job[w] \in NoImage
  BY <1>1, <1>2, <1>3, <1>4, DescribeFacts, FinishPool DEF Describe
<1>5. CASE job[w] \notin NoImage
  <2>1. /\ pc' = [pc EXCEPT ![w] = "image"] /\ reserve' = reserve \ {w}
        /\ UNCHANGED <<todo, job, at, phase>> /\ pc[w] = "reserved"
    BY <1>5 DEF Describe
  <2>2. pc'[w] = "image" /\ \A u \in Worker \ {w} : pc'[u] = pc[u]
    BY <2>1 DEF PoolInv, TypeOK
  <2>3. WorkerOk(w)'
    BY <2>1, <2>2, DescribeFacts DEF WorkerOk, PoolInv
  <2>4. ASSUME NEW u \in Worker, u # w PROVE WorkerOk(u)'
    <3>1. WorkerOk(u) /\ pc[u] # "reserved"
      BY <2>4, DescribeFacts DEF PoolInv
    <3>2. pc[u] \in {"image", "row"} => u \notin reserve'
      BY <2>1, <3>1 DEF WorkerOk
    <3>3. pc[u] # "free" => phase' \in {"page", "drain"}
      BY <2>1, <3>1 DEF WorkerOk
    <3> QED
      BY <1>3, <2>1, <2>2, <2>4, <3>1, <3>2, <3>3, WorkerFrame
  <2> QED
    BY <1>1, <1>2, <2>1, <2>3, <2>4 DEF PoolInv
<1> QED
  BY <1>4, <1>5

LEMMA CommitPool ==
    ASSUME PoolInv, NEW w \in Worker, Commit(w)
    PROVE  PoolInv'
<1>1. TypeOK'
  BY WorkTypes DEF PoolInv, Work
<1>2. \A f \in Folder : folder'[f].desc = folder[f].desc
  BY CommitFacts
<1>3. Named'
  BY <1>2 DEF PoolInv, Named
<1>4. /\ pc'[w] = "row" /\ pc[w] = "image" /\ UNCHANGED <<todo, job, at, phase, reserve>>
      /\ \A u \in Worker \ {w} : pc'[u] = pc[u]
  BY DEF Commit, PoolInv, TypeOK
<1>5. ASSUME NEW u \in Worker PROVE WorkerOk(u)'
  <2>1. WorkerOk(u)
    BY DEF PoolInv
  <2>2. pc'[u] \in {"image", "row"} <=> pc[u] \in {"image", "row"}
    BY <1>4
  <2>3. pc'[u] = "reserved" <=> pc[u] = "reserved"
    BY <1>4
  <2>4. pc'[u] # "free" => pc[u] # "free"
    BY <1>4
  <2>5. pc[u] # "free" => folder'[at[u]].desc = folder[at[u]].desc
    BY <1>2, <2>1 DEF WorkerOk
  <2> QED
    BY <1>4, <2>1, <2>2, <2>3, <2>4, <2>5 DEF WorkerOk, Free
<1> QED
  BY <1>1, <1>3, <1>4, <1>5 DEF PoolInv

LEMMA WorkPool ==
    ASSUME PoolInv, NEW w \in Worker, Work(w) \/ ReservedFails(w) \/ SaveFails(w)
    PROVE  PoolInv'
<1>1. TypeOK'
  BY WorkTypes DEF PoolInv
<1>2. ASSUME NEW status, Finish(w, status), UNCHANGED <<folder, phase>> PROVE PoolInv'
  <2>1. Named'
    BY <1>2 DEF PoolInv, Named
  <2>2. \A u \in Worker : pc[u] = "reserved" => folder[at[u]].desc \in {None, Bad, job[u]}
    BY DEF PoolInv, WorkerOk, Free
  <2> QED
    BY <1>1, <1>2, <2>1, <2>2, FinishPool
<1>3. CASE \/ IndexHas(w) \/ Backfill(w) \/ IndexAdd(w) \/ ReservedFails(w) \/ SaveFails(w)
  BY <1>2, <1>3 DEF IndexHas, Backfill, IndexAdd, ReservedFails, SaveFails
<1> QED
  BY <1>3, TakePool, DescribePool, CommitPool DEF Work

LEMMA OtherPool ==
    ASSUME PoolInv,
           \/ RebuildScan \/ (\E p \in Rebuilder : Rebuild(p)) \/ RebuildKilled
           \/ DropIndex \/ (\E f \in Folder : Remove(f) \/ Corrupt(f))
           \/ \E d \in Dev, t \in Title : Retitle(d, t)
    PROVE  PoolInv'
<1> USE DEF poolVars, rebVars
<1>1. TypeOK'
  BY OtherTypes DEF PoolInv
<1>2. CASE \/ RebuildScan \/ (\E p \in Rebuilder : Rebuild(p)) \/ RebuildKilled
           \/ DropIndex \/ \E d \in Dev, t \in Title : Retitle(d, t)
  <2>1. UNCHANGED <<folder, phase, poolVars>>
    BY <1>2 DEF RebuildScan, Rebuild, RebuildWipe, RebuildRow, RebuildKilled, DropIndex,
                Retitle
  <2> QED
    BY <1>1, <2>1, FolderFrame DEF PoolInv
<1>3. ASSUME NEW f \in Folder, Remove(f) \/ Corrupt(f) PROVE PoolInv'
  <2>1. \A w \in Worker : pc[w] = "free"
    BY <1>3, IdlePool DEF Remove, Corrupt
  <2>2. UNCHANGED <<phase, poolVars>>
    BY <1>3 DEF Remove, Corrupt
  <2>3. \A g \in Folder : folder'[g].desc \in {None, Bad, folder[g].desc}
    BY <1>3 DEF Remove, Corrupt, Empty, PoolInv, TypeOK
  <2>4. Named'
    BY <2>3, NamesAssumption DEF PoolInv, Named
  <2> QED
    BY <1>1, <2>1, <2>2, <2>4 DEF PoolInv, WorkerOk
<1> QED
  BY <1>2, <1>3

LEMMA PoolStep ==
    ASSUME PoolInv, [Next]_vars
    PROVE  PoolInv'
BY RunPool, WorkPool, OtherPool DEF Next

-----------------------------------------------------------------------------
(* What holds under every fault *)

LEMMA PoolAlways == Spec => []PoolInv
<1>1. PoolInv /\ [Next]_vars => PoolInv'
  BY PoolStep
<1> QED
  BY PoolInit, <1>1, PTL DEF Spec

\* Every variable keeps its type, whatever fails, crashes, or is tampered with.
THEOREM ArchiveTypeCorrect == Spec => []TypeOK
<1>1. PoolInv => TypeOK
  BY DEF PoolInv
<1> QED
  BY PoolAlways, <1>1, PTL

\* One step of one folder, for FoldersKept.
FolderKept(f, d) ==
    /\ folder[f].desc = d => folder'[f].desc \in {None, Bad, d}
    /\ folder[f].img = d => folder'[f].img \in {None, d} \/ f \in damaged

\* An image lies in a folder that says it is its own, unless that was damaged.
ImagesOk ==
    \A f \in Folder :
        /\ folder[f].desc = None => folder[f].img = None
        /\ f \notin damaged => folder[f].desc # Bad
                              /\ folder[f].img \in {None, folder[f].desc}

\* Every step but four leaves the folders alone.
LEMMA DiskChanges ==
    ASSUME [Next]_vars
    PROVE  \/ UNCHANGED <<folder, damaged>>
           \/ \E w \in Worker : Describe(w) \/ Commit(w)
           \/ \E f \in Folder : Remove(f) \/ Corrupt(f)
<1>1. ASSUME NEW w \in Worker, Work(w) \/ ReservedFails(w) \/ SaveFails(w)
      PROVE  UNCHANGED <<folder, damaged>> \/ Describe(w) \/ Commit(w)
  BY <1>1 DEF Work, Take, IndexHas, Backfill, IndexAdd, ReservedFails, SaveFails
<1>2. CASE \/ StartRun \/ (\E page \in SUBSET Dev : Page(page) \/ PageFails(page))
           \/ PageDone \/ EndRun \/ Interrupt \/ Crash \/ UNCHANGED vars
           \/ RebuildScan \/ (\E p \in Rebuilder : Rebuild(p)) \/ RebuildKilled
           \/ DropIndex \/ \E d \in Dev, t \in Title : Retitle(d, t)
  BY <1>2 DEF StartRun, Page, PageFails, PageDone, EndRun, Interrupt, Crash, vars,
              RebuildScan, Rebuild, RebuildWipe, RebuildRow, RebuildKilled, DropIndex,
              Retitle
<1> QED
  BY <1>1, <1>2 DEF Next

LEMMA ImagesInit == Init => ImagesOk
BY NamesAssumption DEF Init, Empty, ImagesOk

LEMMA ImagesStep ==
    ASSUME PoolInv, ImagesOk, [Next]_vars
    PROVE  ImagesOk'
<1> DEFINE Fine(f) == /\ folder'[f].desc = None => folder'[f].img = None
                      /\ f \notin damaged' => folder'[f].desc # Bad
                                       /\ folder'[f].img \in {None, folder'[f].desc}
<1>1. CASE UNCHANGED <<folder, damaged>>
  BY <1>1 DEF ImagesOk
<1>2. ASSUME NEW w \in Worker, Describe(w) PROVE ImagesOk'
  <2>1. damaged' = damaged
    BY <1>2 DEF Describe, Finish
  <2>2. ASSUME NEW f \in Folder PROVE Fine(f)
    <3>1. CASE f = at[w]
      BY <1>2, <2>1, <3>1, DescribeFacts, NamesAssumption DEF ImagesOk
    <3>2. CASE f # at[w]
      BY <1>2, <2>1, <3>2, DescribeFacts DEF ImagesOk
    <3> QED
      BY <3>1, <3>2
  <2> QED
    BY <2>2 DEF ImagesOk
<1>3. ASSUME NEW w \in Worker, Commit(w) PROVE ImagesOk'
  <2>1. damaged' = damaged \ {at[w]}
    BY <1>3 DEF Commit
  <2>2. ASSUME NEW f \in Folder PROVE Fine(f)
    <3>1. CASE f = at[w]
      <4>1. folder'[f] = [desc |-> job[w], img |-> job[w]] /\ job[w] \in Dev
        BY <1>3, <3>1, CommitFacts
      <4>2. folder'[f].desc = job[w] /\ folder'[f].img = job[w]
        BY <4>1
      <4> QED
        BY <4>1, <4>2, NamesAssumption
    <3>2. CASE f # at[w]
      <4>1. folder'[f] = folder[f] /\ (f \in damaged' <=> f \in damaged)
        BY <1>3, <2>1, <3>2, CommitFacts
      <4> QED
        BY <4>1 DEF ImagesOk
    <3> QED
      BY <3>1, <3>2
  <2> QED
    BY <2>2 DEF ImagesOk
<1>4. ASSUME NEW g \in Folder, Remove(g) PROVE ImagesOk'
  <2>1. folder' = [folder EXCEPT ![g] = Empty] /\ damaged' = damaged \ {g}
    BY <1>4 DEF Remove
  <2>2. ASSUME NEW f \in Folder PROVE Fine(f)
    <3>1. CASE f = g
      <4>1. folder'[f] = [desc |-> None, img |-> None]
        BY <2>1, <3>1 DEF PoolInv, TypeOK, Empty
      <4>2. folder'[f].desc = None /\ folder'[f].img = None
        BY <4>1
      <4> QED
        BY <4>2, NamesAssumption
    <3>2. CASE f # g
      BY <2>1, <3>2 DEF PoolInv, TypeOK, ImagesOk
    <3> QED
      BY <3>1, <3>2
  <2> QED
    BY <2>2 DEF ImagesOk
<1>5. ASSUME NEW g \in Folder, Corrupt(g) PROVE ImagesOk'
  <2>1. folder' = [folder EXCEPT ![g].desc = Bad] /\ damaged' = damaged \cup {g}
    BY <1>5 DEF Corrupt
  <2>2. ASSUME NEW f \in Folder PROVE Fine(f)
    <3>1. CASE f = g
      <4>1. folder'[f].desc = Bad /\ f \in damaged'
        BY <2>1, <3>1 DEF PoolInv, TypeOK
      <4> QED
        BY <4>1, NamesAssumption
    <3>2. CASE f # g
      BY <2>1, <3>2 DEF PoolInv, TypeOK, ImagesOk
    <3> QED
      BY <3>1, <3>2
  <2> QED
    BY <2>2 DEF ImagesOk
<1> QED
  BY <1>1, <1>2, <1>3, <1>4, <1>5, DiskChanges

LEMMA StepKeeps ==
    ASSUME PoolInv, ImagesOk, [Next]_vars, NEW f \in Folder, NEW d \in Dev
    PROVE  FolderKept(f, d)
<1>1. CASE folder' = folder
  BY <1>1 DEF FolderKept
<1>2. ASSUME NEW w \in Worker, Describe(w) PROVE FolderKept(f, d)
  BY <1>2, DescribeFacts, NamesAssumption DEF FolderKept
<1>3. ASSUME NEW w \in Worker, Commit(w) PROVE FolderKept(f, d)
  <2>1. CASE f = at[w]
    <3>1. folder'[f] = [desc |-> job[w], img |-> job[w]] /\ folder[f].desc = job[w]
      BY <1>3, <2>1, CommitFacts
    <3>2. folder'[f].desc = job[w] /\ folder'[f].img = job[w]
      BY <3>1
    <3>3. folder[f].img = d /\ f \notin damaged => d = job[w]
      BY <3>1, NamesAssumption DEF ImagesOk
    <3> QED
      BY <3>1, <3>2, <3>3 DEF FolderKept
  <2>2. CASE f # at[w]
    BY <1>3, <2>2, CommitFacts DEF FolderKept
  <2> QED
    BY <2>1, <2>2
<1>4. ASSUME NEW g \in Folder, Remove(g) \/ Corrupt(g) PROVE FolderKept(f, d)
  <2>1. folder \in [Folder -> [desc : Dev \cup {None, Bad}, img : Dev \cup {None}]]
    BY DEF PoolInv, TypeOK
  <2>2. CASE Remove(g)
    BY <2>1, <2>2 DEF Remove, Empty, FolderKept
  <2>3. CASE Corrupt(g)
    BY <2>1, <2>3 DEF Corrupt, FolderKept
  <2> QED
    BY <1>4, <2>2, <2>3
<1> QED
  BY <1>1, <1>2, <1>3, <1>4, DiskChanges

\* Under every fault, in every interleaving of workers, a readable description is
\* never replaced by another deviation's, and an image only where the description
\* beside it has been unreadable since that image was written.
THEOREM NothingOverwritten == Spec => FoldersKept
<1>1. Init => PoolInv /\ ImagesOk
  BY PoolInit, ImagesInit
<1>2. PoolInv /\ ImagesOk /\ [Next]_vars => PoolInv' /\ ImagesOk'
  BY PoolStep, ImagesStep
<1>3. PoolInv /\ ImagesOk /\ [Next]_vars =>
        \A f \in Folder, d \in Dev : FolderKept(f, d)
  BY StepKeeps
<1>4. PoolInv /\ ImagesOk /\ [Next]_vars =>
        [\A f \in Folder, d \in Dev :
          /\ folder[f].desc = d => folder'[f].desc \in {None, Bad, d}
          /\ folder[f].img = d => \/ folder'[f].img \in {None, d}
                                 \/ f \in damaged]_vars
  BY <1>3 DEF FolderKept
<1> QED
  BY <1>1, <1>2, <1>4, PTL DEF Spec, FoldersKept

-----------------------------------------------------------------------------
(* What holds while nobody deletes folders, damages descriptions or retitles *)

Untouched == Faults \cap {"remove", "corrupt", "retitle"} = {}

\* A folder holds its own deviation's image or none, under the first name that is
\* free for it.
FilesOk ==
    \A f \in Folder :
        /\ folder[f].desc # Bad
        /\ folder[f].img # None => folder[f].img = folder[f].desc
        /\ \A d \in Dev : folder[f].desc = d => IsHome(f, d)

\* Where a worker saves is where its deviation belongs.
Placed(w) ==
    /\ \A f \in Folder, d \in Dev : pc[w] # "free" /\ at[w] = f /\ job[w] = d
                                        => IsHome(f, d)
    /\ pc[w] = "row" => folder[at[w]].img = job[w]

\* What a rebuild collected does not become false before it is written.
RowsOk ==
    \A p \in Rebuilder, d \in Dev : rows[p][d] # None => Holds(rows[p][d], d)

KeptInv ==
    /\ FilesOk
    /\ \A w \in Worker : Placed(w)
    /\ RowsTell
    /\ RowsOk
    /\ OkMeansSaved

\* A step of the disk: what is saved stays, and no taken name becomes free.
DiskGrows ==
    \A f \in Folder, d \in Dev :
        /\ Holds(f, d) => Holds(f, d)'
        /\ ~Free(f, d) => ~Free(f, d)'

LEMMA KeptInit == Init => KeptInv
<1> SUFFICES ASSUME Init PROVE KeptInv
  OBVIOUS
<1>1. FilesOk
  BY NamesAssumption DEF Init, Empty, FilesOk
<1>2. (\A w \in Worker : Placed(w)) /\ RowsTell /\ RowsOk /\ OkMeansSaved
  BY DEF Init, Placed, RowsTell, RowsOk, OkMeansSaved, NoRows
<1> QED
  BY <1>1, <1>2 DEF KeptInv

LEMMA SyncedHolds ==
    ASSUME TypeOK, FilesOk, NEW f \in Folder, NEW d \in Dev, Synced(f, d)
    PROVE  Holds(f, d)
<1>1. folder[f] \in [desc : Dev \cup {None, Bad}, img : Dev \cup {None}]
  BY DEF TypeOK
<1>2. folder[f].desc = d /\ folder[f].img = d
  BY DEF Synced, FilesOk
<1> QED
  BY <1>1, <1>2 DEF Holds

LEMMA DiskFrame ==
    ASSUME folder' = folder, title' = title
    PROVE  /\ DiskGrows
           /\ FilesOk => FilesOk'
           /\ \A f \in Folder, d \in Dev : IsHome(f, d)' <=> IsHome(f, d)
<1>1. DiskGrows
  BY DEF DiskGrows, Holds, Free
<1>2. \A f \in Folder, d \in Dev : IsHome(f, d)' <=> IsHome(f, d)
  BY DEF IsHome, Free
<1>3. FilesOk => FilesOk'
  BY <1>2 DEF FilesOk
<1> QED
  BY <1>1, <1>2, <1>3

LEMMA DescribeGrows ==
    ASSUME PoolInv, NEW w \in Worker, Describe(w)
    PROVE  DiskGrows
<1> SUFFICES ASSUME NEW f \in Folder, NEW d \in Dev
             PROVE  /\ Holds(f, d) => Holds(f, d)'
                    /\ ~Free(f, d) => ~Free(f, d)'
  BY DEF DiskGrows
<1>1. CASE f # at[w]
  BY <1>1, DescribeFacts DEF Holds, Free
<1>2. CASE f = at[w]
  <2>1. /\ folder[f].desc \in {None, Bad, job[w]} /\ job[w] \in Dev
        /\ folder'[f].desc = job[w] /\ folder'[f].img = folder[f].img
    BY <1>2, DescribeFacts
  <2>2. ~Free(f, d) => ~Free(f, d)'
    BY <2>1 DEF Free
  <2>3. folder'[f] \in [desc : Dev \cup {None, Bad}, img : Dev \cup {None}]
    BY PoolStep, RunTypes, DescribePool DEF PoolInv, TypeOK
  <2>4. ASSUME Holds(f, d) PROVE Holds(f, d)'
    <3>1. folder[f].desc = d /\ folder[f].img = d
      BY <2>4 DEF Holds
    <3>2. folder'[f].desc = d /\ folder'[f].img = d
      BY <2>1, <3>1, NamesAssumption
    <3> QED
      BY <2>3, <3>2 DEF Holds
  <2> QED
    BY <2>2, <2>4
<1> QED
  BY <1>1, <1>2

LEMMA CommitGrows ==
    ASSUME PoolInv, NEW w \in Worker, Commit(w)
    PROVE  DiskGrows
<1> SUFFICES ASSUME NEW f \in Folder, NEW d \in Dev
             PROVE  /\ Holds(f, d) => Holds(f, d)'
                    /\ ~Free(f, d) => ~Free(f, d)'
  BY DEF DiskGrows
<1>1. ~Free(f, d) => ~Free(f, d)'
  BY CommitFacts DEF Free
<1>2. CASE f # at[w]
  <2>1. folder'[f] = folder[f]
    BY <1>2, CommitFacts
  <2> QED
    BY <1>1, <2>1 DEF Holds
<1>3. CASE f = at[w]
  <2>1. folder'[f] = [desc |-> job[w], img |-> job[w]] /\ folder[f].desc = job[w]
    BY <1>3, CommitFacts
  <2>2. Holds(f, d) => d = job[w]
    BY <2>1 DEF Holds
  <2>3. Holds(f, d) => Holds(f, d)'
    BY <2>1, <2>2 DEF Holds
  <2> QED
    BY <1>1, <2>3
<1> QED
  BY <1>1, <1>2, <1>3

\* A home stays one when the disk grows and it is still free for its deviation.
LEMMA HomesKept ==
    ASSUME TypeOK, UNCHANGED title, DiskGrows, NEW f \in Folder, NEW d \in Dev,
           IsHome(f, d), Free(f, d), Free(f, d)'
    PROVE  IsHome(f, d)'
<1>1. \A g \in Folder : ~Free(g, d) => ~Free(g, d)'
  BY DEF DiskGrows
<1> QED
  BY <1>1, HomeIsKept

LEMMA DescribeFiles ==
    ASSUME PoolInv, FilesOk, NEW w \in Worker, Placed(w), Describe(w)
    PROVE  FilesOk'
<1> SUFFICES ASSUME NEW f \in Folder
             PROVE  /\ folder'[f].desc # Bad
                    /\ folder'[f].img # None => folder'[f].img = folder'[f].desc
                    /\ \A d \in Dev : folder'[f].desc = d => IsHome(f, d)'
  BY DEF FilesOk
<1>1. CASE f # at[w]
  <2>1. folder'[f] = folder[f]
    BY <1>1, DescribeFacts
  <2>2. ASSUME NEW d \in Dev, folder'[f].desc = d PROVE IsHome(f, d)'
    <3>1. IsHome(f, d) /\ Free(f, d) /\ Free(f, d)'
      BY <2>1, <2>2 DEF FilesOk, Free
    <3> QED
      BY <3>1, DescribeGrows, HomesKept DEF PoolInv, Describe
  <2> QED
    BY <2>1, <2>2 DEF FilesOk
<1>2. CASE f = at[w]
  <2>1. /\ folder[f].desc \in {None, Bad, job[w]} /\ job[w] \in Dev
        /\ folder'[f].desc = job[w] /\ folder'[f].img = folder[f].img
    BY <1>2, DescribeFacts
  <2>2. folder'[f].desc # Bad
    BY <2>1, NamesAssumption
  <2>3. folder'[f].img # None => folder'[f].img = folder'[f].desc
    BY <2>1 DEF FilesOk
  <2>4. ASSUME NEW d \in Dev, folder'[f].desc = d PROVE IsHome(f, d)'
    <3>1. d = job[w] /\ pc[w] = "reserved"
      BY <2>1, <2>4 DEF Describe
    <3>2. IsHome(f, d)
      BY <1>2, <3>1 DEF Placed
    <3>3. Free(f, d) /\ Free(f, d)'
      BY <2>1, <3>1 DEF Free
    <3> QED
      BY <3>2, <3>3, DescribeGrows, HomesKept DEF PoolInv, Describe
  <2> QED
    BY <2>2, <2>3, <2>4
<1> QED
  BY <1>1, <1>2

LEMMA CommitFiles ==
    ASSUME PoolInv, FilesOk, NEW w \in Worker, Commit(w)
    PROVE  FilesOk'
<1> SUFFICES ASSUME NEW f \in Folder
             PROVE  /\ folder'[f].desc # Bad
                    /\ folder'[f].img # None => folder'[f].img = folder'[f].desc
                    /\ \A d \in Dev : folder'[f].desc = d => IsHome(f, d)'
  BY DEF FilesOk
<1>1. folder'[f].desc = folder[f].desc
  BY CommitFacts
<1>2. folder'[f].img # None => folder'[f].img = folder'[f].desc
  <2>1. CASE f = at[w]
    <3>1. folder'[f] = [desc |-> job[w], img |-> job[w]]
      BY <2>1, CommitFacts
    <3> QED
      BY <3>1
  <2>2. CASE f # at[w]
    <3>1. folder'[f] = folder[f]
      BY <2>2, CommitFacts
    <3> QED
      BY <3>1 DEF FilesOk
  <2> QED
    BY <2>1, <2>2
<1>3. ASSUME NEW d \in Dev, folder'[f].desc = d PROVE IsHome(f, d)'
  <2>1. IsHome(f, d) /\ Free(f, d) /\ Free(f, d)'
    BY <1>1, <1>3 DEF FilesOk, Free
  <2> QED
    BY <2>1, CommitGrows, HomesKept DEF PoolInv, Commit
<1> QED
  BY <1>1, <1>2, <1>3 DEF FilesOk

LEMMA FreeAtWork ==
    ASSUME PoolInv, NEW w \in Worker, pc[w] # "free"
    PROVE  at[w] \in Folder /\ job[w] \in Dev /\ Free(at[w], job[w])
<1>1. pc[w] \in {"reserved", "image", "row"}
  BY DEF PoolInv, TypeOK
<1> QED
  BY <1>1 DEF PoolInv, WorkerOk, Free

LEMMA FreeAtWorkNext ==
    ASSUME PoolInv', NEW w \in Worker, pc'[w] # "free"
    PROVE  folder'[at'[w]].desc \in {None, Bad, job'[w]}
<1>1. pc'[w] \in {"reserved", "image", "row"}
  BY DEF PoolInv, TypeOK
<1> QED
  BY <1>1 DEF PoolInv, WorkerOk, Free

\* A worker that a step leaves alone stays where its deviation belongs.
LEMMA PlacedFrame ==
    ASSUME PoolInv, PoolInv', UNCHANGED title, DiskGrows, NEW w \in Worker, Placed(w),
           at'[w] = at[w], job'[w] = job[w], pc'[w] # "free" => pc[w] # "free",
           pc'[w] = "row" => folder'[at[w]].img = job[w]
    PROVE  Placed(w)'
<1>1. ASSUME NEW f \in Folder, NEW d \in Dev, pc'[w] # "free", at'[w] = f, job'[w] = d
      PROVE  IsHome(f, d)'
  <2>1. IsHome(f, d)
    BY <1>1 DEF Placed
  <2>2. Free(f, d)
    BY <1>1, FreeAtWork
  <2>3. Free(f, d)'
    BY <1>1, FreeAtWorkNext DEF Free
  <2> QED
    BY <2>1, <2>2, <2>3, HomesKept DEF PoolInv
<1>2. pc'[w] = "row" => folder'[at'[w]].img = job'[w]
  OBVIOUS
<1> QED
  BY <1>1, <1>2 DEF Placed

LEMMA FinishPlaced ==
    ASSUME PoolInv, PoolInv', FilesOk, \A u \in Worker : Placed(u), DiskGrows,
           NEW w \in Worker, NEW status, Finish(w, status), UNCHANGED title,
           \A f \in Folder : folder'[f].img = folder[f].img
    PROVE  \A u \in Worker : Placed(u)'
<1>1. /\ pc'[w] = "free"
      /\ \A u \in Worker \ {w} : at'[u] = at[u] /\ job'[u] = job[u] /\ pc'[u] = pc[u]
  BY DEF Finish, PoolInv, TypeOK
<1>2. Placed(w)'
  BY <1>1 DEF Placed
<1>3. ASSUME NEW u \in Worker, u # w PROVE Placed(u)'
  <2>1. pc[u] = "row" => folder'[at[u]].img = job[u]
    BY FreeAtWork DEF Placed
  <2> QED
    BY <1>1, <1>3, <2>1, PlacedFrame
<1> QED
  BY <1>2, <1>3

LEMMA TakePlaced ==
    ASSUME PoolInv, PoolInv', \A u \in Worker : Placed(u),
           NEW w \in Worker, NEW d \in Dev, Take(w, d)
    PROVE  \A u \in Worker : Placed(u)'
<1>1. PICK f \in Folder : IsHome(f, d) /\ at' = [at EXCEPT ![w] = f]
  BY DEF Take
<1>2. /\ at'[w] = f /\ job'[w] = d /\ pc'[w] = "reserved"
      /\ folder' = folder /\ title' = title
      /\ \A u \in Worker \ {w} : at'[u] = at[u] /\ job'[u] = job[u] /\ pc'[u] = pc[u]
  BY <1>1 DEF Take, PoolInv, TypeOK
<1>3. IsHome(f, d)'
  BY <1>1, <1>2, DiskFrame
<1>4. Placed(w)'
  BY <1>2, <1>3 DEF Placed
<1>5. ASSUME NEW u \in Worker, u # w PROVE Placed(u)'
  <2>1. pc'[u] = "row" => folder'[at[u]].img = job[u]
    BY <1>2, <1>5 DEF Placed
  <2> QED
    BY <1>2, <1>5, <2>1, DiskFrame, PlacedFrame
<1> QED
  BY <1>4, <1>5

LEMMA DescribePlaced ==
    ASSUME PoolInv, PoolInv', FilesOk, \A u \in Worker : Placed(u),
           NEW w \in Worker, Describe(w)
    PROVE  \A u \in Worker : Placed(u)'
<1>1. \A f \in Folder : folder'[f].img = folder[f].img
  BY DescribeFacts
<1>2. DiskGrows
  BY DescribeGrows
<1>3. CASE job[w] \in NoImage
  BY <1>1, <1>2, <1>3, FinishPlaced DEF Describe
<1>4. CASE job[w] \notin NoImage
  <2>1. /\ pc' = [pc EXCEPT ![w] = "image"] /\ UNCHANGED <<job, at, title>>
        /\ pc[w] = "reserved"
    BY <1>4 DEF Describe
  <2>2. pc'[w] = "image" /\ \A u \in Worker \ {w} : pc'[u] = pc[u]
    BY <2>1 DEF PoolInv, TypeOK
  <2>3. ASSUME NEW u \in Worker PROVE Placed(u)'
    <3>1. pc'[u] # "free" => pc[u] # "free"
      BY <2>1, <2>2
    <3>2. pc'[u] = "row" => folder'[at[u]].img = job[u]
      BY <1>1, <2>2, FreeAtWork DEF Placed
    <3> QED
      BY <1>2, <2>1, <3>1, <3>2, PlacedFrame
  <2> QED
    BY <2>3
<1> QED
  BY <1>3, <1>4

LEMMA CommitPlaced ==
    ASSUME PoolInv, PoolInv', FilesOk, \A u \in Worker : Placed(u),
           NEW w \in Worker, Commit(w)
    PROVE  \A u \in Worker : Placed(u)'
<1>1. /\ pc'[w] = "row" /\ pc[w] = "image" /\ UNCHANGED <<job, at, title>>
      /\ \A u \in Worker \ {w} : pc'[u] = pc[u]
  BY DEF Commit, PoolInv, TypeOK
<1>2. DiskGrows
  BY CommitGrows
<1>3. ASSUME NEW u \in Worker PROVE Placed(u)'
  <2>1. pc'[u] # "free" => pc[u] # "free"
    BY <1>1
  <2>2. ASSUME pc'[u] = "row" PROVE folder'[at[u]].img = job[u]
    <3>1. pc[u] \in {"image", "row"}
      BY <1>1, <2>2
    <3>2. at[u] \in Folder /\ folder[at[u]].desc = job[u]
      BY <3>1 DEF PoolInv, WorkerOk
    <3>3. CASE at[u] = at[w]
      <4>1. job[u] = job[w] /\ folder'[at[u]] = [desc |-> job[w], img |-> job[w]]
        BY <3>2, <3>3, CommitFacts
      <4> QED
        BY <4>1
    <3>4. CASE at[u] # at[w]
      <4>1. folder'[at[u]] = folder[at[u]] /\ u # w
        BY <3>2, <3>4, CommitFacts
      <4>2. pc[u] = "row"
        BY <1>1, <2>2, <4>1
      <4> QED
        BY <4>1, <4>2 DEF Placed
    <3> QED
      BY <3>3, <3>4
  <2> QED
    BY <1>1, <1>2, <2>1, <2>2, PlacedFrame
<1> QED
  BY <1>3

\* The whole disk under one step.
LEMMA DiskStep ==
    ASSUME PoolInv, PoolInv', FilesOk, \A u \in Worker : Placed(u), Untouched, [Next]_vars
    PROVE  DiskGrows /\ FilesOk' /\ (\A u \in Worker : Placed(u)') /\ title' = title
<1> USE DEF poolVars, rebVars
<1>1. CASE \/ StartRun \/ (\E page \in SUBSET Dev : Page(page) \/ PageFails(page))
           \/ PageDone \/ EndRun \/ Interrupt \/ UNCHANGED vars
           \/ RebuildScan \/ (\E p \in Rebuilder : Rebuild(p)) \/ RebuildKilled \/ DropIndex
  <2>1. UNCHANGED <<title, folder, pc, job, at>>
    BY <1>1 DEF StartRun, Page, PageFails, PageDone, EndRun, Interrupt, vars,
                RebuildScan, Rebuild, RebuildWipe, RebuildRow, RebuildKilled, DropIndex
  <2>2. \A u \in Worker : Placed(u)'
    BY <2>1, DiskFrame, PlacedFrame DEF Placed
  <2> QED
    BY <2>1, <2>2, DiskFrame
<1>2. CASE Crash
  <2>1. folder' = folder /\ title' = title /\ \A u \in Worker : pc'[u] = "free"
    BY <1>2 DEF Crash
  <2>2. \A u \in Worker : Placed(u)'
    BY <2>1 DEF Placed
  <2> QED
    BY <2>1, <2>2, DiskFrame
<1>3. ASSUME NEW w \in Worker, Work(w) \/ ReservedFails(w) \/ SaveFails(w)
      PROVE  DiskGrows /\ FilesOk' /\ (\A u \in Worker : Placed(u)') /\ title' = title
  <2>1. CASE Describe(w)
    BY <2>1, DescribeGrows, DescribeFiles, DescribePlaced DEF Describe
  <2>2. CASE Commit(w)
    BY <2>2, CommitGrows, CommitFiles, CommitPlaced DEF Commit
  <2>3. CASE \E d \in Dev : Take(w, d)
    BY <2>3, TakePlaced, DiskFrame DEF Take
  <2>4. CASE \/ IndexHas(w) \/ Backfill(w) \/ IndexAdd(w) \/ ReservedFails(w) \/ SaveFails(w)
    <3>1. folder' = folder /\ title' = title /\ \E status : Finish(w, status)
      BY <2>4 DEF IndexHas, Backfill, IndexAdd, ReservedFails, SaveFails
    <3> QED
      BY <3>1, FinishPlaced, DiskFrame
  <2> QED
    BY <1>3, <2>1, <2>2, <2>3, <2>4 DEF Work
<1>4. /\ ~\E f \in Folder : Remove(f) \/ Corrupt(f)
      /\ ~\E d \in Dev, t \in Title : Retitle(d, t)
  BY DEF Untouched, Remove, Corrupt, Retitle
<1> QED
  BY <1>1, <1>2, <1>3, <1>4 DEF Next

-----------------------------------------------------------------------------
(* The index and the statuses *)

\* Every row of r leads to a folder that holds its deviation now.
RowsTrue(r) == \A d \in Dev : r[d] # None => r[d] \in Folder /\ Holds(r[d], d)

LEMMA ScansTrue ==
    ASSUME TypeOK, FilesOk, NEW r, r \in Scans
    PROVE  RowsTrue(r)
<1> SUFFICES ASSUME NEW d \in Dev, r[d] # None
             PROVE  r[d] \in Folder /\ Holds(r[d], d)
  BY DEF RowsTrue
<1>1. r[d] \in Folder /\ Synced(r[d], d)
  BY DEF Scans
<1> QED
  BY <1>1, SyncedHolds

LEMMA HealedTrue ==
    ASSUME RowsTrue(index), NEW ds
    PROVE  RowsTrue(Healed(ds))
BY DEF RowsTrue, Healed

LEMMA PutTrue ==
    ASSUME TypeOK, RowsTrue(index), NEW d \in Dev, NEW f \in Folder, Holds(f, d)
    PROVE  RowsTrue([index EXCEPT ![d] = f])
BY DEF RowsTrue, TypeOK

\* Rows that tell the truth before a step tell it after the step.
LEMMA RowsMove ==
    ASSUME DiskGrows, NEW r, RowsTrue(r), NEW d \in Dev, r[d] # None
    PROVE  folder'[r[d]] = [desc |-> d, img |-> d]
<1>1. r[d] \in Folder /\ Holds(r[d], d)
  BY DEF RowsTrue
<1>2. \A f \in Folder : Holds(f, d) => folder'[f] = [desc |-> d, img |-> d]
  BY DEF DiskGrows, Holds
<1> QED
  BY <1>1, <1>2

\* What the row of a worker's deviation would say when it writes one.
LEMMA RowReady ==
    ASSUME PoolInv, FilesOk, NEW w \in Worker, Placed(w),
           Backfill(w) \/ IndexAdd(w)
    PROVE  at[w] \in Folder /\ job[w] \in Dev /\ Holds(at[w], job[w])
<1>1. at[w] \in Folder /\ job[w] \in Dev
  BY FreeAtWork DEF Backfill, IndexAdd
<1>2. CASE Backfill(w)
  BY <1>1, <1>2, SyncedHolds DEF Backfill, PoolInv
<1>3. CASE IndexAdd(w)
  <2>1. folder[at[w]].desc = job[w] /\ folder[at[w]].img = job[w]
    BY <1>3 DEF IndexAdd, PoolInv, WorkerOk, Placed
  <2>2. folder[at[w]] \in [desc : Dev \cup {None, Bad}, img : Dev \cup {None}]
    BY <1>1 DEF PoolInv, TypeOK
  <2> QED
    BY <1>1, <2>1, <2>2 DEF Holds
<1> QED
  BY <1>1, <1>2, <1>3

LEMMA IndexStep ==
    ASSUME PoolInv, KeptInv, [Next]_vars
    PROVE  RowsTrue(index')
<1> USE DEF poolVars, rebVars
<1>1. RowsTrue(index) /\ TypeOK /\ FilesOk
  BY DEF PoolInv, TypeOK, KeptInv, RowsTell, RowsTrue
<1>2. CASE index' = index
  BY <1>1, <1>2
<1>3. CASE index' \in Scans
  BY <1>1, <1>3, ScansTrue
<1>4. CASE \E ds : index' = Healed(ds)
  BY <1>1, <1>4, HealedTrue
<1>5. CASE index' = NoRows
  BY <1>5 DEF NoRows, RowsTrue
<1>6. ASSUME NEW w \in Worker, Backfill(w) \/ IndexAdd(w) PROVE RowsTrue(index')
  <2>1. index' = [index EXCEPT ![job[w]] = at[w]]
    BY <1>6 DEF Backfill, IndexAdd
  <2> QED
    BY <1>1, <1>6, <2>1, RowReady, PutTrue DEF KeptInv
<1>7. ASSUME NEW p \in Rebuilder, NEW d \in Dev, RebuildRow(p, d) PROVE RowsTrue(index')
  <2>1. index' = [index EXCEPT ![d] = rows[p][d]]
    BY <1>7 DEF RebuildRow
  <2>2. rows[p][d] \in Folder /\ Holds(rows[p][d], d)
    BY <1>7 DEF RebuildRow, PoolInv, TypeOK, KeptInv, RowsOk
  <2> QED
    BY <1>1, <2>1, <2>2, PutTrue
<1>8. ASSUME NEW w \in Worker, Work(w) \/ ReservedFails(w) \/ SaveFails(w)
      PROVE  RowsTrue(index')
  <2>1. CASE \/ (\E d \in Dev : Take(w, d)) \/ IndexHas(w) \/ Commit(w) \/ SaveFails(w)
    BY <1>2, <2>1 DEF Take, IndexHas, Commit, SaveFails
  <2>2. CASE Describe(w) \/ ReservedFails(w)
    <3>1. index' = index \/ index' = Healed({job[w]})
      BY <2>2 DEF Describe, ReservedFails
    <3> QED
      BY <1>2, <1>4, <3>1
  <2> QED
    BY <1>6, <1>8, <2>1, <2>2 DEF Work
<1>9. ASSUME NEW page \in SUBSET Dev, Page(page) \/ PageFails(page) PROVE RowsTrue(index')
  BY <1>4, <1>9 DEF Page, PageFails
<1>10. CASE \/ StartRun \/ PageDone \/ EndRun \/ Interrupt \/ Crash \/ UNCHANGED vars
            \/ RebuildScan \/ RebuildKilled \/ (\E f \in Folder : Remove(f) \/ Corrupt(f))
            \/ \E d \in Dev, t \in Title : Retitle(d, t)
  BY <1>2, <1>10 DEF StartRun, PageDone, EndRun, Interrupt, Crash, vars, RebuildScan,
                     RebuildKilled, Remove, Corrupt, Retitle
<1>11. CASE (\E p \in Rebuilder : RebuildWipe(p)) \/ DropIndex
  BY <1>5, <1>11 DEF RebuildWipe, DropIndex
<1> QED
  BY <1>7, <1>8, <1>9, <1>10, <1>11 DEF Next, Rebuild

LEMMA RowsStep ==
    ASSUME PoolInv, KeptInv, [Next]_vars, NEW p \in Rebuilder
    PROVE  RowsTrue(rows'[p])
<1> USE DEF poolVars, rebVars
<1>1. RowsTrue(rows[p]) /\ TypeOK /\ FilesOk
  BY DEF PoolInv, TypeOK, KeptInv, RowsOk, RowsTrue
<1>2. CASE rows' = rows
  BY <1>1, <1>2
<1>3. ASSUME NEW q \in Rebuilder, NEW found \in Scans, rows' = [rows EXCEPT ![q] = found]
      PROVE  RowsTrue(rows'[p])
  <2>1. rows'[p] = IF p = q THEN found ELSE rows[p]
    BY <1>1, <1>3 DEF TypeOK
  <2> QED
    BY <1>1, <2>1, ScansTrue
<1>4. CASE StartRun \/ RebuildScan
  BY <1>2, <1>3, <1>4 DEF StartRun, RebuildScan, Rebuilder
<1>5. CASE RebuildKilled \/ Crash
  <2>1. rows'[p] \in {rows[p], NoRows}
    BY <1>1, <1>5 DEF RebuildKilled, Crash, TypeOK
  <2>2. RowsTrue(NoRows)
    BY DEF NoRows, RowsTrue
  <2> QED
    BY <1>1, <2>1, <2>2
<1>6. ASSUME NEW q \in Rebuilder, NEW d \in Dev, RebuildRow(q, d)
      PROVE  RowsTrue(rows'[p])
  <2>1. rows' = [rows EXCEPT ![q][d] = None]
    BY <1>6 DEF RebuildRow
  <2>2. \A e \in Dev : rows'[p][e] \in {rows[p][e], None}
    BY <1>1, <2>1 DEF TypeOK
  <2> QED
    BY <1>1, <2>2 DEF RowsTrue
<1>7. ASSUME NEW w \in Worker, Work(w) \/ ReservedFails(w) \/ SaveFails(w)
      PROVE  rows' = rows
  BY <1>7 DEF Work, Take, IndexHas, Backfill, Describe, Commit, IndexAdd,
              ReservedFails, SaveFails
<1>8. CASE \/ (\E page \in SUBSET Dev : Page(page) \/ PageFails(page))
           \/ PageDone \/ EndRun \/ Interrupt \/ UNCHANGED vars
           \/ (\E q \in Rebuilder : RebuildWipe(q)) \/ DropIndex
           \/ (\E f \in Folder : Remove(f) \/ Corrupt(f))
           \/ \E d \in Dev, t \in Title : Retitle(d, t)
  <2>1. rows' = rows
    BY <1>8 DEF Page, PageFails, PageDone, EndRun, Interrupt, vars,
                RebuildWipe, DropIndex, Remove, Corrupt, Retitle
  <2> QED
    BY <1>2, <2>1
<1> QED
  BY <1>2, <1>4, <1>5, <1>6, <1>7, <1>8 DEF Next, Rebuild

\* Every deviation with a good status is in a folder.
DoneTrue(res) == \A d \in Dev : res[d] \in {"ok", "dup"} => \E f \in Folder : Holds(f, d)

LEMMA FinishDone ==
    ASSUME PoolInv, DoneTrue(result), NEW w \in Worker, NEW status, Finish(w, status),
           status \in {"ok", "dup"} => \E f \in Folder : Holds(f, job[w])
    PROVE  DoneTrue(result')
BY DEF Finish, DoneTrue, PoolInv, TypeOK

LEMMA DoneStep ==
    ASSUME PoolInv, KeptInv, [Next]_vars
    PROVE  DoneTrue(result')
<1> USE DEF poolVars, rebVars
<1>1. DoneTrue(result) /\ FilesOk /\ \A w \in Worker : Placed(w)
  BY DEF KeptInv, OkMeansSaved, DoneTrue
<1>2. CASE result' = result
  BY <1>1, <1>2
<1>3. CASE Crash \/ PageDone
  BY <1>3 DEF Crash, PageDone, DoneTrue
<1>4. ASSUME NEW w \in Worker, Work(w) \/ ReservedFails(w) \/ SaveFails(w)
      PROVE  DoneTrue(result')
  <2>1. CASE Backfill(w) \/ IndexAdd(w)
    BY <1>1, <2>1, RowReady, FinishDone DEF Backfill, IndexAdd
  <2>2. CASE IndexHas(w)
    <3>1. job[w] \in Dev /\ index[job[w]] # None
      BY <2>2, FreeAtWork DEF IndexHas, Known
    <3>2. index[job[w]] \in Folder /\ Holds(index[job[w]], job[w])
      BY <3>1 DEF PoolInv, TypeOK, KeptInv, RowsTell
    <3> QED
      BY <1>1, <2>2, <3>2, FinishDone DEF IndexHas
  <2>3. CASE ReservedFails(w) \/ SaveFails(w)
    BY <1>1, <2>3, FinishDone DEF ReservedFails, SaveFails
  <2>4. CASE Describe(w)
    <3>1. CASE job[w] \in NoImage
      BY <1>1, <2>4, <3>1, FinishDone DEF Describe
    <3>2. CASE job[w] \notin NoImage
      BY <1>2, <2>4, <3>2 DEF Describe
    <3> QED
      BY <3>1, <3>2
  <2>5. CASE Commit(w) \/ \E d \in Dev : Take(w, d)
    BY <1>2, <2>5 DEF Commit, Take
  <2> QED
    BY <1>4, <2>1, <2>2, <2>3, <2>4, <2>5 DEF Work
<1>5. CASE \/ StartRun \/ (\E page \in SUBSET Dev : Page(page) \/ PageFails(page))
           \/ EndRun \/ Interrupt \/ UNCHANGED vars
           \/ RebuildScan \/ (\E p \in Rebuilder : Rebuild(p)) \/ RebuildKilled
           \/ DropIndex \/ (\E f \in Folder : Remove(f) \/ Corrupt(f))
           \/ \E d \in Dev, t \in Title : Retitle(d, t)
  <2>1. result' = result
    BY <1>5 DEF StartRun, Page, PageFails, Retitle, EndRun, Interrupt, vars, RebuildScan,
                Rebuild, RebuildWipe, RebuildRow, RebuildKilled, DropIndex, Remove, Corrupt
  <2> QED
    BY <1>2, <2>1
<1> QED
  BY <1>3, <1>4, <1>5 DEF Next

LEMMA KeptStep ==
    ASSUME PoolInv, KeptInv, Untouched, [Next]_vars
    PROVE  KeptInv'
<1>1. PoolInv'
  BY PoolStep
<1>2. DiskGrows /\ FilesOk' /\ \A u \in Worker : Placed(u)'
  BY <1>1, DiskStep DEF KeptInv
<1>3. RowsTell'
  BY <1>2, IndexStep, RowsMove DEF RowsTell, Holds
<1>4. RowsOk'
  BY <1>2, RowsStep, RowsMove DEF RowsOk, Holds
<1>5. OkMeansSaved'
  BY <1>2, DoneStep DEF DoneTrue, DiskGrows, OkMeansSaved
<1> QED
  BY <1>2, <1>3, <1>4, <1>5 DEF KeptInv

LEMMA KeptAlways == ASSUME Untouched PROVE Spec => [](PoolInv /\ KeptInv)
<1>1. Init => PoolInv /\ KeptInv
  BY PoolInit, KeptInit
<1>2. PoolInv /\ KeptInv /\ [Next]_vars => PoolInv' /\ KeptInv'
  BY PoolStep, KeptStep
<1> QED
  BY <1>1, <1>2, PTL DEF Spec

LEMMA HomesApart == PoolInv /\ KeptInv => OneFolderEach
<1> SUFFICES ASSUME PoolInv, KeptInv, NEW f \in Folder, NEW g \in Folder,
                    folder[f].desc \in Dev, folder[f].desc = folder[g].desc
             PROVE  f = g
  BY DEF OneFolderEach
<1> DEFINE d == folder[f].desc
<1>1. IsHome(f, d) /\ IsHome(g, d)
  BY DEF KeptInv, FilesOk
<1>2. Free(f, d) /\ Free(g, d)
  BY DEF Free
<1>3. d \in Dev
  OBVIOUS
<1> HIDE DEF d
<1> QED
  BY <1>1, <1>2, <1>3, HomeIsUnique DEF PoolInv

-----------------------------------------------------------------------------
\* As long as nobody deletes folders, damages descriptions or changes titles, a row
\* of the index leads to a folder that holds its own deviation, complete, through
\* failures, kills and rebuilds.
THEOREM IndexTellsTheTruth == ASSUME Untouched PROVE Spec => []RowsTell
<1>1. KeptInv => RowsTell
  BY DEF KeptInv
<1> QED
  BY KeptAlways, <1>1, PTL

\* Under the same condition no deviation ever gets a second folder, however often
\* it is tried again.
THEOREM NoSecondFolder == ASSUME Untouched PROVE Spec => []OneFolderEach
<1>1. PoolInv /\ KeptInv => OneFolderEach
  BY HomesApart
<1> QED
  BY KeptAlways, <1>1, PTL

\* Under the same condition a status that the totals count as done is done: the
\* deviation's image and description are on disk.
THEOREM DoneIsOnDisk == ASSUME Untouched PROVE Spec => []OkMeansSaved
<1>1. KeptInv => OkMeansSaved
  BY DEF KeptInv
<1> QED
  BY KeptAlways, <1>1, PTL

-----------------------------------------------------------------------------
(* The archive is a shelf *)

LEMMA HomesApartNext == PoolInv' /\ KeptInv' => OneFolderEach'
BY HomesApart, PTL

\* A deviation's place is the folder that holds it.
PlacesTold ==
    \A d \in Dev :
        /\ \A f \in Folder : Holds(f, d) => Place[d] = f
        /\ (\A f \in Folder : ~Holds(f, d)) => Place[d] = None

LEMMA PlaceFacts == OneFolderEach => PlacesTold
<1> SUFFICES ASSUME OneFolderEach, NEW d \in Dev
             PROVE  /\ \A f \in Folder : Holds(f, d) => Place[d] = f
                    /\ (\A f \in Folder : ~Holds(f, d)) => Place[d] = None
  BY DEF PlacesTold
<1>1. (\A f \in Folder : ~Holds(f, d)) => Place[d] = None
  BY DEF Place
<1>2. ASSUME NEW f \in Folder, Holds(f, d) PROVE Place[d] = f
  <2>1. Place[d] = CHOOSE g \in Folder : Holds(g, d)
    BY <1>2 DEF Place
  <2>2. Place[d] \in Folder /\ Holds(Place[d], d)
    BY <1>2, <2>1
  <2>3. folder[f].desc = d /\ folder[Place[d]].desc = d
    BY <1>2, <2>2 DEF Holds
  <2> QED
    BY <2>2, <2>3 DEF OneFolderEach
<1> QED
  BY <1>1, <1>2

LEMMA PlaceFactsNext == OneFolderEach' => PlacesTold'
BY PlaceFacts, PTL

\* A step that completes no folder moves no deviation.
LEMMA PlaceFrame ==
    ASSUME OneFolderEach, OneFolderEach', DiskGrows,
           \A f \in Folder, d \in Dev : Holds(f, d)' => Holds(f, d)
    PROVE  Place' = Place
<1>1. ASSUME NEW d \in Dev PROVE Place'[d] = Place[d]
  <2>1. CASE \A f \in Folder : ~Holds(f, d)
    BY <2>1, PlaceFacts, PlaceFactsNext DEF PlacesTold
  <2>2. CASE \E f \in Folder : Holds(f, d)
    <3>1. PICK f \in Folder : Holds(f, d)
      BY <2>2
    <3>2. Holds(f, d)'
      BY <3>1 DEF DiskGrows
    <3> QED
      BY <3>1, <3>2, PlaceFacts, PlaceFactsNext DEF PlacesTold
  <2> QED
    BY <2>1, <2>2
<1>2. Place = [d \in Dev |-> Place[d]] /\ Place' = [d \in Dev |-> Place'[d]]
  BY DEF Place
<1> QED
  BY <1>1, <1>2

\* Only the arrival of an image completes a folder.
LEMMA OnlyCommitPuts ==
    ASSUME PoolInv, KeptInv, Untouched, [Next]_vars,
           ~\E w \in Worker : Commit(w), NEW f \in Folder, NEW d \in Dev, Holds(f, d)'
    PROVE  Holds(f, d)
<1> USE DEF poolVars, rebVars
<1>1. CASE folder' = folder
  BY <1>1 DEF Holds
<1>2. ASSUME NEW w \in Worker, Describe(w) PROVE Holds(f, d)
  <2>1. CASE f # at[w]
    BY <1>2, <2>1, DescribeFacts DEF Holds
  <2>2. CASE f = at[w]
    <3>1. folder'[f].desc = d /\ folder'[f].img = d
      BY DEF Holds
    <3>2. folder[f].img = d
      BY <1>2, <3>1, DescribeFacts
    <3>3. folder[f].desc = d /\ folder[f] \in [desc : Dev \cup {None, Bad}, img : Dev \cup {None}]
      BY <3>2, NamesAssumption DEF KeptInv, FilesOk, PoolInv, TypeOK
    <3> QED
      BY <3>2, <3>3 DEF Holds
  <2> QED
    BY <2>1, <2>2
<1>3. ~\E g \in Folder : Remove(g) \/ Corrupt(g)
  BY DEF Untouched, Remove, Corrupt
<1> QED
  BY <1>1, <1>2, <1>3, DiskChanges

\* What a step writes into the index or the totals is true before the step.
LEMMA WritesAreTrue ==
    ASSUME PoolInv, PoolInv', KeptInv, [Next]_vars, Place' = Place
    PROVE  Kept!Write
<1>1. index' \in [Dev -> Folder \cup {None}]
  BY DEF PoolInv, TypeOK
<1>2. ASSUME NEW d \in Dev PROVE index'[d] \in {None, Place[d]}
  <2>1. CASE index'[d] # None
    <3>1. index'[d] \in Folder /\ Holds(index'[d], d)
      BY <2>1, IndexStep DEF RowsTrue
    <3> QED
      BY <3>1, HomesApart, PlaceFacts DEF PlacesTold
  <2> QED
    BY <2>1
<1>3. ASSUME NEW d \in Reported' PROVE d \in Dev /\ Place[d] # None
  <2>1. d \in Dev /\ result'[d] \in {"ok", "dup"}
    BY <1>3 DEF Reported
  <2>2. PICK f \in Folder : Holds(f, d)
    BY <2>1, DoneStep DEF DoneTrue
  <2>3. Place[d] = f
    BY <2>1, <2>2, HomesApart, PlaceFacts DEF PlacesTold
  <2> QED
    BY <2>1, <2>3, NamesAssumption
<1> QED
  BY <1>1, <1>2, <1>3 DEF Kept!Write

\* An image that arrives puts its deviation, or replaces an image by itself.
LEMMA CommitPuts ==
    ASSUME PoolInv, PoolInv', KeptInv, KeptInv', Untouched, [Next]_vars,
           NEW w \in Worker, Commit(w), ~Holds(at[w], job[w])
    PROVE  Kept!Put(job[w], at[w])
<1> DEFINE d == job[w]
           f == at[w]
<1>1. d \in Dev /\ f \in Folder /\ folder[f].desc = d
  BY CommitFacts DEF Commit, PoolInv, WorkerOk
<1>2. OneFolderEach /\ OneFolderEach'
  BY HomesApart, HomesApartNext
<1>3. \A g \in Folder : ~Holds(g, d)
  <2> SUFFICES ASSUME NEW g \in Folder, Holds(g, d) PROVE FALSE
    OBVIOUS
  <2>1. folder[g].desc = d
    BY DEF Holds
  <2> QED
    BY <1>1, <1>2, <2>1 DEF OneFolderEach
<1>4. Place[d] = None
  BY <1>1, <1>2, <1>3, PlaceFacts DEF PlacesTold
<1>5. ASSUME NEW e \in Dev PROVE Place[e] # f
  <2>1. CASE \A g \in Folder : ~Holds(g, e)
    BY <1>1, <1>2, <2>1, PlaceFacts, NamesAssumption DEF PlacesTold
  <2>2. CASE \E g \in Folder : Holds(g, e)
    <3>1. PICK g \in Folder : Holds(g, e)
      BY <2>2
    <3>2. folder[g].desc = e /\ Place[e] = g
      BY <1>2, <3>1, PlaceFacts DEF PlacesTold, Holds
    <3>3. g # f
      BY <1>1, <1>3, <3>1, <3>2
    <3> QED
      BY <3>2, <3>3
  <2> QED
    BY <2>1, <2>2
<1>6. ASSUME NEW e \in Dev PROVE Place'[e] = IF e = d THEN f ELSE Place[e]
  <2>1. CASE e = d
    <3>1. folder'[f] = [desc |-> d, img |-> d]
      BY CommitFacts
    <3>2. \A g \in Folder : g = f => Holds(g, e)'
      BY <2>1, <3>1 DEF Holds
    <3>3. \A g \in Folder : g = f => Place'[e] = g
      BY <1>2, <3>2, PlaceFactsNext DEF PlacesTold
    <3> QED
      BY <1>1, <2>1, <3>3
  <2>2. CASE e # d
    <3>1. ASSUME NEW g \in Folder PROVE Holds(g, e)' <=> Holds(g, e)
      <4>1. CASE g = f
        <5>1. folder'[g].desc = d
          BY <4>1, CommitFacts
        <5>2. ~Holds(g, e)'
          BY <2>2, <5>1 DEF Holds
        <5>3. ~Holds(g, e)
          BY <1>1, <2>2, <4>1 DEF Holds
        <5> QED
          BY <5>2, <5>3
      <4>2. CASE g # f
        <5>1. folder'[g] = folder[g]
          BY <4>2, CommitFacts
        <5> QED
          BY <5>1 DEF Holds
      <4> QED
        BY <4>1, <4>2
    <3>2. CASE \A g \in Folder : ~Holds(g, e)
      BY <1>2, <2>2, <3>1, <3>2, PlaceFacts, PlaceFactsNext DEF PlacesTold
    <3>3. CASE \E g \in Folder : Holds(g, e)
      <4>1. PICK g \in Folder : Holds(g, e)
        BY <3>3
      <4> QED
        BY <1>2, <2>2, <3>1, <4>1, PlaceFacts, PlaceFactsNext DEF PlacesTold
    <3> QED
      BY <3>2, <3>3
  <2> QED
    BY <2>1, <2>2
<1>7. Place' = [Place EXCEPT ![d] = f]
  <2>1. Place = [e \in Dev |-> Place[e]] /\ Place' = [e \in Dev |-> Place'[e]]
    BY DEF Place
  <2> HIDE DEF d, f
  <2> QED
    BY <1>6, <2>1
<1>8. UNCHANGED <<index, Reported>>
  BY DEF Commit, Reported
<1> QED
  BY <1>4, <1>5, <1>7, <1>8 DEF Kept!Put

\* An image that arrives where it already is changes nothing.
LEMMA CommitAgain ==
    ASSUME PoolInv, NEW w \in Worker, Commit(w), Holds(at[w], job[w]),
           NEW f \in Folder, NEW d \in Dev, Holds(f, d)'
    PROVE  Holds(f, d)
<1>1. CASE f # at[w]
  BY <1>1, CommitFacts DEF Holds
<1>2. CASE f = at[w]
  <2>1. folder'[f] = [desc |-> job[w], img |-> job[w]]
    BY <1>2, CommitFacts
  <2>2. folder'[f] = folder[f]
    BY <1>2, <2>1 DEF Holds
  <2> QED
    BY <2>2 DEF Holds
<1> QED
  BY <1>1, <1>2

LEMMA ShelfStep ==
    ASSUME PoolInv, PoolInv', KeptInv, KeptInv', Untouched, [Next]_vars
    PROVE  Kept!ShelfNext
<1>1. OneFolderEach /\ OneFolderEach' /\ DiskGrows
  BY HomesApart, HomesApartNext, DiskStep DEF KeptInv
<1>2. CASE ~\E w \in Worker : Commit(w)
  <2>1. Place' = Place
    BY <1>1, <1>2, OnlyCommitPuts, PlaceFrame
  <2> QED
    BY <2>1, WritesAreTrue DEF Kept!ShelfNext
<1>3. ASSUME NEW w \in Worker, Commit(w), Holds(at[w], job[w]) PROVE Kept!ShelfNext
  <2>1. Place' = Place
    BY <1>1, <1>3, CommitAgain, PlaceFrame
  <2> QED
    BY <2>1, WritesAreTrue DEF Kept!ShelfNext
<1>4. ASSUME NEW w \in Worker, Commit(w), ~Holds(at[w], job[w]) PROVE Kept!ShelfNext
  <2>1. at[w] \in Folder /\ job[w] \in Dev
    BY <1>4, CommitFacts
  <2> QED
    BY <1>4, <2>1, CommitPuts DEF Kept!ShelfNext
<1> QED
  BY <1>2, <1>3, <1>4

LEMMA ShelfStart == Init => Kept!ShelfInit
<1> SUFFICES ASSUME Init PROVE Kept!ShelfInit
  OBVIOUS
<1>1. \A f \in Folder, d \in Dev : ~Holds(f, d)
  BY NamesAssumption DEF Init, Empty, Holds
<1>2. Place = [d \in Dev |-> None]
  BY <1>1 DEF Place
<1>3. index = [d \in Dev |-> None] /\ Reported = {}
  BY DEF Init, NoRows, Reported
<1> QED
  BY <1>2, <1>3 DEF Kept!ShelfInit

\* As long as nobody deletes folders, damages descriptions or changes titles the
\* archive is a shelf: a deviation appears as a whole in a folder that is nobody
\* else's and never moves or goes; the index and the totals speak of nothing else.
THEOREM ArchiveIsAShelf == ASSUME Untouched PROVE Spec => ImplementsShelf
<1>1. Init => Kept!ShelfInit
  BY ShelfStart
<1>2. /\ PoolInv /\ KeptInv /\ (PoolInv /\ KeptInv)' /\ [Next]_vars
      => [Kept!ShelfNext]_(Kept!shelfVars)
  BY ShelfStep
<1> QED
  BY <1>1, <1>2, KeptAlways, PTL DEF Spec, ImplementsShelf, Kept!ShelfSpec

\* Under the same condition what is saved is never lost: a folder that holds its
\* deviation holds it after every step.
THEOREM SavedIsKept ==
    ASSUME Untouched
    PROVE  Spec => [][\A f \in Folder, d \in Dev : Holds(f, d) => Holds(f, d)']_vars
<1>1. PoolInv /\ KeptInv /\ (PoolInv /\ KeptInv)' /\ [Next]_vars
         => [\A f \in Folder, d \in Dev : Holds(f, d) => Holds(f, d)']_vars
  BY DiskStep DEF DiskGrows, KeptInv
<1> QED
  BY KeptAlways, <1>1, PTL DEF Spec
=============================================================================
