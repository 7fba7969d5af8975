------------------------------ MODULE Archive ------------------------------
(***************************************************************************)
(* How a page of deviations gets on disk: the pool of download workers of  *)
(* `da sync` (src/dacli/sync.py, _save_page_concurrent, _save_one,         *)
(* _resolve_folder), the folders of one artist, and the SQLite index of    *)
(* what is synced (src/dacli/index.py), with `da index rebuild` in another *)
(* process.  A walk hands the pool what it found unknown; which pages it   *)
(* fetches, and so whether it comes back to a deviation, is the subject of *)
(* GallerySync and FeedSync.                                               *)
(*                                                                         *)
(* Abstractions.  A folder is what its description.json names and whose    *)
(* image it holds; .part and .tmp files, which no reader looks at, and the *)
(* image's extension are left out, and a 0-byte image is no image.  The    *)
(* steps of _save_one that only its own deviation can notice are one step, *)
(* and so is the scan of a rebuild.  --dry-run writes nothing here.  The   *)
(* sync lock leaves at most one run at a time.  With one worker an         *)
(* exception of the index ends the run: a kill, here.  Other artists' rows *)
(* and folders decide, with these, whether a run bootstraps the index and  *)
(* whether a rebuild declines: either may happen, whatever is here.        *)
(*                                                                         *)
(* Faults names what may go wrong:                                         *)
(*   "fail"       metadata, a download, a write or an index insert fails   *)
(*   "crash"      the run is killed, in its bootstrap or later             *)
(*   "interrupt"  Ctrl-C: what has not started is cancelled                *)
(*   "rebuild"    `da index rebuild` runs, at any time, and may be killed  *)
(*   "dropindex"  the user deletes index.db between runs                   *)
(*   "remove"     the user deletes a folder between runs                   *)
(*   "corrupt"    a description.json becomes unreadable (power cut)        *)
(*   "retitle"    the artist gives a deviation another title               *)
(***************************************************************************)
EXTENDS Integers, Sequences, FiniteSets

CONSTANTS Dev,       \* deviations of one artist
          NoImage,   \* those without a downloadable image
          Worker,    \* the pool's threads (--concurrency)
          Folder,    \* folder names
          None, Bad, \* no folder, deviation or file; an unreadable description
          Title,     \* titles
          Base,      \* Base[t]: the folder named after title t
          Suffixes,  \* Suffixes[t][d]: the names tried when that one is taken
          Faults     \* see above

ASSUME NamesAssumption ==
    /\ NoImage \subseteq Dev
    /\ None \notin Dev /\ None \notin Folder
    /\ Bad \notin Dev /\ Bad # None
    /\ Base \in [Title -> Folder]
    /\ Suffixes \in [Title -> [Dev -> Seq(Folder) \ {<<>>}]]

\* The last name tried holds the whole id: no title and no other deviation has it.
ASSUME LastNameIsOwn ==
    \A d, e \in Dev, t, u \in Title : d # e =>
        LET own == Suffixes[t][d][Len(Suffixes[t][d])]
        IN  own # Base[u] /\ \A i \in DOMAIN Suffixes[u][e] : own # Suffixes[u][e][i]

ASSUME FaultsAssumption ==
    Faults \subseteq {"fail", "crash", "interrupt", "rebuild", "dropindex",
                      "remove", "corrupt", "retitle"}

VARIABLES
    title,    \* DeviantArt: the deviations' titles
    folder,   \* the disk
    index,    \* the table `synced`: deviationid -> path
    phase,    \* the run: "off", between pages, in a page, interrupted in one
    todo,     \* deviations of the page no worker has taken
    result,   \* statuses of the page
    pc,       \* where each worker is
    job,      \* its deviation
    at,       \* the folder _resolve_folder gave it
    reserve,  \* holder of _FOLDER_RESERVE_LOCK (at most one)
    reb,      \* where a rebuild is: the run's own bootstrap, or the command
    rows,     \* the rows it collected and has not inserted
    damaged   \* history: folders whose description was unreadable since the
              \* image was last written

poolVars == <<todo, result, pc, job, at, reserve>>
rebVars == <<reb, rows>>
vars == <<title, folder, index, phase, poolVars, rebVars, damaged>>

Rebuilder == {"run", "command"}

Empty == [desc |-> None, img |-> None]
NoRows == [d \in Dev |-> None]

TypeOK ==
    /\ title \in [Dev -> Title]
    /\ folder \in [Folder -> [desc : Dev \cup {None, Bad}, img : Dev \cup {None}]]
    /\ index \in [Dev -> Folder \cup {None}]
    /\ phase \in {"off", "between", "page", "drain"}
    /\ todo \subseteq Dev
    /\ result \in [Dev -> {"none", "ok", "dup", "noimg", "fail"}]
    /\ pc \in [Worker -> {"free", "reserved", "image", "row"}]
    /\ job \in [Worker -> Dev \cup {None}]
    /\ at \in [Worker -> Folder \cup {None}]
    /\ reserve \subseteq Worker
    /\ reb \in [Rebuilder -> {"off", "wipe", "fill"}]
    /\ rows \in [Rebuilder -> [Dev -> Folder \cup {None}]]
    /\ damaged \subseteq Folder

Init ==
    /\ title \in [Dev -> Title]
    /\ folder = [f \in Folder |-> Empty]
    /\ index = NoRows
    /\ phase = "off"
    /\ todo = {}
    /\ result = [d \in Dev |-> "none"]
    /\ pc = [w \in Worker |-> "free"]
    /\ job = [w \in Worker |-> None]
    /\ at = [w \in Worker |-> None]
    /\ reserve = {}
    /\ reb = [p \in Rebuilder |-> "off"]
    /\ rows = [p \in Rebuilder |-> NoRows]
    /\ damaged = {}

-----------------------------------------------------------------------------
(* Reading the disk and the index *)

\* _folder_is_complete: both files exist, whatever they say.
Complete(f) == folder[f].desc # None /\ folder[f].img # None

\* read_synced_folder: the description parses and names d.
Synced(f, d) == folder[f].desc = d /\ folder[f].img # None

Known(d) == index[d] # None /\ Complete(index[d])

\* The index without the rows of ds whose content is gone.
Healed(ds) == [d \in Dev |-> IF d \in ds /\ ~Known(d) THEN None ELSE index[d]]

\* What a rebuild may find: for every deviation one of the folders that hold it.
Scans ==
    {r \in [Dev -> Folder \cup {None}] : \A d \in Dev :
        /\ r[d] # None => Synced(r[d], d)
        /\ r[d] = None => \A f \in Folder : ~Synced(f, d)}

\* Seeded fault for Free: a retry does not recognise its own folder.
FreeNotOwn(f, d) == folder[f].desc \in {None, Bad}

\* A folder d may use: it is free, unreadable, or d's already.
Free(f, d) == folder[f].desc \in {None, Bad, d}

\* _resolve_folder: d's title, or the first suffix that tells it apart.
IsHome(f, d) ==
    IF Free(Base[title[d]], d) THEN f = Base[title[d]]
    ELSE LET names == Suffixes[title[d]][d]
         IN  \E i \in DOMAIN names :
                /\ f = names[i]
                /\ \A j \in 1..(i - 1) : ~Free(names[j], d)
                /\ Free(f, d) \/ i = Len(names)

-----------------------------------------------------------------------------
(* The run *)

\* index_bootstrap_if_empty: rebuilds an empty index before the walk.
StartRun ==
    /\ phase = "off"
    /\ phase' = "between"
    /\ \/ UNCHANGED rebVars
       \/ /\ index = NoRows
          /\ \E found \in Scans : rows' = [rows EXCEPT !["run"] = found]
          /\ reb' = [reb EXCEPT !["run"] = "wipe"]
    /\ UNCHANGED <<title, folder, index, poolVars, damaged>>

Walking == phase = "between" /\ reb["run"] = "off"

\* A page came: stale rows go, and the pool gets the unknown deviations (the
\* gallery walk), or the whole page unless it is all known (the feed walk).
Page(page) ==
    /\ Walking
    /\ index' = Healed(page)
    /\ LET known == {d \in page : Known(d)}
       IN  todo' \in {page \ known, IF page = known THEN {} ELSE page}
    /\ phase' = "page"
    /\ UNCHANGED <<title, folder, result, pc, job, at, reserve, rebVars, damaged>>

\* The metadata call answers with an HTTP error: stale rows are gone, nothing is
\* saved, the walk ends.
PageFails(page) ==
    /\ "fail" \in Faults /\ Walking
    /\ index' = Healed(page)
    /\ phase' = "off"
    /\ UNCHANGED <<title, folder, poolVars, rebVars, damaged>>

\* The statuses are counted.
PageDone ==
    /\ phase \in {"page", "drain"} /\ todo = {}
    /\ \A w \in Worker : pc[w] = "free"
    /\ result' = [d \in Dev |-> "none"]
    /\ phase' = IF phase = "page" THEN "between" ELSE "off"
    /\ UNCHANGED <<title, folder, index, todo, pc, job, at, reserve, rebVars, damaged>>

EndRun ==
    /\ Walking
    /\ phase' = "off"
    /\ UNCHANGED <<title, folder, index, poolVars, rebVars, damaged>>

\* Futures that have not started are cancelled; the others are waited for.
Interrupt ==
    /\ "interrupt" \in Faults /\ phase = "page"
    /\ phase' = "drain"
    /\ todo' = {}
    /\ UNCHANGED <<title, folder, index, result, pc, job, at, reserve, rebVars, damaged>>

Crash ==
    /\ "crash" \in Faults /\ phase # "off"
    /\ phase' = "off"
    /\ todo' = {}
    /\ result' = [d \in Dev |-> "none"]
    /\ pc' = [w \in Worker |-> "free"]
    /\ job' = [w \in Worker |-> None]
    /\ at' = [w \in Worker |-> None]
    /\ reserve' = {}
    /\ reb' = [reb EXCEPT !["run"] = "off"]
    /\ rows' = [rows EXCEPT !["run"] = NoRows]
    /\ UNCHANGED <<title, folder, index, damaged>>

-----------------------------------------------------------------------------
(* _save_one *)

\* Seeded fault for Finish: the lock is not released.
FinishKeepsLock(w, status) ==
    /\ result' = [result EXCEPT ![job[w]] = status]
    /\ pc' = [pc EXCEPT ![w] = "free"]
    /\ job' = [job EXCEPT ![w] = None]
    /\ at' = [at EXCEPT ![w] = None]
    /\ UNCHANGED <<todo, reserve>>

Finish(w, status) ==
    /\ result' = [result EXCEPT ![job[w]] = status]
    /\ pc' = [pc EXCEPT ![w] = "free"]
    /\ job' = [job EXCEPT ![w] = None]
    /\ at' = [at EXCEPT ![w] = None]
    /\ reserve' = reserve \ {w}
    /\ UNCHANGED todo

\* Seeded fault for Take: it does not wait for the lock.
TakeUnlocked(w, d) ==
    /\ pc[w] = "free" /\ d \in todo
    /\ todo' = todo \ {d}
    /\ reserve' = reserve \cup {w}
    /\ pc' = [pc EXCEPT ![w] = "reserved"]
    /\ job' = [job EXCEPT ![w] = d]
    /\ \E f \in Folder : IsHome(f, d) /\ at' = [at EXCEPT ![w] = f]
    /\ UNCHANGED <<title, folder, index, phase, result, rebVars, damaged>>

\* A worker takes a deviation and, holding the lock, resolves its folder.
Take(w, d) ==
    /\ pc[w] = "free" /\ d \in todo /\ reserve = {}
    /\ todo' = todo \ {d}
    /\ reserve' = {w}
    /\ pc' = [pc EXCEPT ![w] = "reserved"]
    /\ job' = [job EXCEPT ![w] = d]
    /\ \E f \in Folder : IsHome(f, d) /\ at' = [at EXCEPT ![w] = f]
    /\ UNCHANGED <<title, folder, index, phase, result, rebVars, damaged>>

IndexHas(w) ==
    /\ pc[w] = "reserved" /\ Known(job[w])
    /\ Finish(w, "dup")
    /\ UNCHANGED <<title, folder, index, phase, rebVars, damaged>>

\* Seeded fault for Backfill: the folder's name is enough.
BackfillNamed(w) ==
    /\ pc[w] = "reserved" /\ ~Known(job[w]) /\ folder[at[w]].desc = job[w]
    /\ index' = [index EXCEPT ![job[w]] = at[w]]
    /\ Finish(w, "dup")
    /\ UNCHANGED <<title, folder, phase, rebVars, damaged>>

\* The folder holds the deviation already and the index does not know.
Backfill(w) ==
    /\ pc[w] = "reserved" /\ ~Known(job[w]) /\ Synced(at[w], job[w])
    /\ index' = [index EXCEPT ![job[w]] = at[w]]
    /\ Finish(w, "dup")
    /\ UNCHANGED <<title, folder, phase, rebVars, damaged>>

\* description.json first: it reserves the folder.
Describe(w) ==
    /\ pc[w] = "reserved" /\ ~Known(job[w]) /\ ~Synced(at[w], job[w])
    /\ index' = Healed({job[w]})
    /\ folder' = [folder EXCEPT ![at[w]].desc = job[w]]
    /\ IF job[w] \in NoImage THEN Finish(w, "noimg")
       ELSE /\ pc' = [pc EXCEPT ![w] = "image"]
            /\ reserve' = reserve \ {w}
            /\ UNCHANGED <<todo, result, job, at>>
    /\ UNCHANGED <<title, phase, rebVars, damaged>>

\* The index cannot be read or written, or the description not be written; either
\* way the lock is released, and the pool counts a failure.
ReservedFails(w) ==
    /\ "fail" \in Faults /\ pc[w] = "reserved"
    /\ index' \in {index, Healed({job[w]})}
    /\ Finish(w, "fail")
    /\ UNCHANGED <<title, folder, phase, rebVars, damaged>>

\* The image is downloaded, staged and renamed, outside the lock.
Commit(w) ==
    /\ pc[w] = "image"
    /\ folder' = [folder EXCEPT ![at[w]].img = job[w]]
    /\ damaged' = damaged \ {at[w]}
    /\ pc' = [pc EXCEPT ![w] = "row"]
    /\ UNCHANGED <<title, index, phase, todo, result, job, at, reserve, rebVars>>

\* Seeded fault for IndexAdd: the row is written before the image is there.
IndexAddEarly(w) ==
    /\ pc[w] \in {"image", "row"}
    /\ index' = [index EXCEPT ![job[w]] = at[w]]
    /\ Finish(w, "ok")
    /\ UNCHANGED <<title, folder, phase, rebVars, damaged>>

IndexAdd(w) ==
    /\ pc[w] = "row"
    /\ index' = [index EXCEPT ![job[w]] = at[w]]
    /\ Finish(w, "ok")
    /\ UNCHANGED <<title, folder, phase, rebVars, damaged>>

\* The download fails or is empty; or the insert raises.
SaveFails(w) ==
    /\ "fail" \in Faults /\ pc[w] \in {"image", "row"}
    /\ Finish(w, "fail")
    /\ UNCHANGED <<title, folder, index, phase, rebVars, damaged>>

-----------------------------------------------------------------------------
(* index_rebuild_from_disk, by the command or by a run that bootstraps *)

RebuildScan ==
    /\ "rebuild" \in Faults /\ reb["command"] = "off"
    /\ \E found \in Scans : rows' = [rows EXCEPT !["command"] = found]
    /\ reb' = [reb EXCEPT !["command"] = "wipe"]
    /\ UNCHANGED <<title, folder, index, phase, poolVars, damaged>>

RebuildWipe(p) ==
    /\ reb[p] = "wipe"
    /\ index' = NoRows
    /\ reb' = [reb EXCEPT ![p] = IF rows[p] = NoRows THEN "off" ELSE "fill"]
    /\ UNCHANGED <<title, folder, phase, poolVars, rows, damaged>>

\* One row of the executemany: each is committed by itself, and the lock that is
\* held keeps out this process's workers only.
RebuildRow(p, d) ==
    /\ reb[p] = "fill" /\ rows[p][d] # None
    /\ index' = [index EXCEPT ![d] = rows[p][d]]
    /\ rows' = [rows EXCEPT ![p][d] = None]
    /\ reb' = [reb EXCEPT ![p] = IF rows'[p] = NoRows THEN "off" ELSE "fill"]
    /\ UNCHANGED <<title, folder, phase, poolVars, damaged>>

\* Rows that were not inserted yet are lost.
RebuildKilled ==
    /\ reb["command"] # "off"
    /\ reb' = [reb EXCEPT !["command"] = "off"]
    /\ rows' = [rows EXCEPT !["command"] = NoRows]
    /\ UNCHANGED <<title, folder, index, phase, poolVars, damaged>>

-----------------------------------------------------------------------------
(* The user and the machine *)

DropIndex ==
    /\ "dropindex" \in Faults /\ phase = "off" /\ reb["command"] = "off"
    /\ index' = NoRows
    /\ UNCHANGED <<title, folder, phase, poolVars, rebVars, damaged>>

Remove(f) ==
    /\ "remove" \in Faults /\ phase = "off" /\ folder[f] # Empty
    /\ folder' = [folder EXCEPT ![f] = Empty]
    /\ damaged' = damaged \ {f}
    /\ UNCHANGED <<title, index, phase, poolVars, rebVars>>

Corrupt(f) ==
    /\ "corrupt" \in Faults /\ phase = "off" /\ folder[f].desc \in Dev
    /\ folder' = [folder EXCEPT ![f].desc = Bad]
    /\ damaged' = damaged \cup {f}
    /\ UNCHANGED <<title, index, phase, poolVars, rebVars>>

\* A page shows the titles of the time it was fetched.
Retitle(d, t) ==
    /\ "retitle" \in Faults /\ phase \in {"off", "between"}
    /\ title' = [title EXCEPT ![d] = t]
    /\ UNCHANGED <<folder, index, phase, poolVars, rebVars, damaged>>

-----------------------------------------------------------------------------
Work(w) ==
    \/ \E d \in Dev : Take(w, d)
    \/ IndexHas(w) \/ Backfill(w) \/ Describe(w) \/ Commit(w) \/ IndexAdd(w)

Rebuild(p) == RebuildWipe(p) \/ \E d \in Dev : RebuildRow(p, d)

Next ==
    \/ StartRun \/ (\E page \in SUBSET Dev : Page(page) \/ PageFails(page))
    \/ PageDone \/ EndRun \/ Interrupt \/ Crash
    \/ \E w \in Worker : Work(w) \/ ReservedFails(w) \/ SaveFails(w)
    \/ RebuildScan \/ (\E p \in Rebuilder : Rebuild(p)) \/ RebuildKilled
    \/ DropIndex \/ \E f \in Folder : Remove(f) \/ Corrupt(f)
    \/ \E d \in Dev, t \in Title : Retitle(d, t)

Spec == Init /\ [][Next]_vars

\* What happens when nothing goes wrong; a rebuild that has started may finish.
Good ==
    \/ StartRun \/ (\E page \in SUBSET Dev : Page(page)) \/ PageDone \/ EndRun
    \/ (\E w \in Worker : Work(w))
    \/ \E p \in Rebuilder : Rebuild(p)

\* Workers and rebuilds that have started go on, and at some time things stop going
\* wrong.  Whether there are runs, and what they walk to, is left open.
FairSpec ==
    /\ Spec
    /\ \A w \in Worker : WF_vars(Work(w))
    /\ \A p \in Rebuilder : WF_vars(Rebuild(p))
    /\ <>[][Good]_vars

-----------------------------------------------------------------------------
(* Properties *)

Holds(f, d) == folder[f] = [desc |-> d, img |-> d]

\* A row leads to its own deviation, complete: the row is written last, and a
\* folder in use is given to nobody else (index.py:188-194, sync.py:224-230).
RowsTell == \A d \in Dev : index[d] # None => Holds(index[d], d)

\* A deviation never ends up in two folders: a retry finds the folder that an
\* earlier attempt reserved (sync.py:168-183).
OneFolderEach ==
    \A f, g \in Folder : folder[f].desc \in Dev /\ folder[f].desc = folder[g].desc
                              => f = g

\* A status the totals count as done is done: the image is on disk.
OkMeansSaved ==
    \A d \in Dev : result[d] \in {"ok", "dup"} => \E f \in Folder : Holds(f, d)

\* Whatever happens, a description that can be read is never replaced by another
\* deviation's, and an image is replaced by another deviation's only where the
\* description beside it has been unreadable since the image was written: two
\* deviations with one title do not overwrite each other, whatever their titles
\* become (sync.py:138-142, 224-230); a folder that does not say whose it is may be
\* taken, with all that is in it (sync.py:129-136).
FoldersKept ==
    [][\A f \in Folder, d \in Dev :
          /\ folder[f].desc = d => folder'[f].desc \in {None, Bad, d}
          /\ folder[f].img = d => \/ folder'[f].img \in {None, d}
                                 \/ f \in damaged]_vars

\* index.py:190-192: "paths are unique per deviation, so a row pointing at a folder
\* that belongs to someone else needs a corrupt index, not a corrupt folder".
PathsAreUnique ==
    \A d, e \in Dev : d # e /\ index[d] # None => index[d] # index[e]

Place == [d \in Dev |-> IF \E f \in Folder : Holds(f, d)
                        THEN CHOOSE f \in Folder : Holds(f, d) ELSE None]

Reported == {d \in Dev : result[d] \in {"ok", "dup"}}

Kept == INSTANCE Shelf WITH place <- Place, catalogue <- index, reported <- Reported

\* Through interruptions, failures, kills and rebuilds the archive is a shelf: a
\* deviation appears as a whole, in a folder of its own, and never moves; the index
\* and the totals speak only of what stands there (sync.py:224-230, 305-308).
ImplementsShelf == Kept!ShelfSpec

\* Whatever was interrupted, killed, failed, rebuilt or dropped before: an image
\* that the walks hand to the pool until the index knows it gets on disk and into
\* the index, and stays there.  No lock, folder, row or half-saved deviation that a
\* failure left behind is in its way (sync.py:224-230, index.py:215-238).
EverythingRecovers ==
    \A d \in Dev \ NoImage :
        []<>(d \in todo \/ Known(d)) => <>[](index[d] # None /\ Holds(index[d], d))

=============================================================================
