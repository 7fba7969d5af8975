------------------------------- MODULE Shelf -------------------------------
(***************************************************************************)
(* What the archive of one artist promises (src/dacli/sync.py:224-230,     *)
(* 305-308, src/dacli/index.py:188-194) as long as titles stay the same    *)
(* and folders untouched.  A deviation is put on the shelf as a whole, in a*)
(* place that is nobody else's, and stays there; the catalogue says        *)
(* nothing of a deviation but where it stands; what a run reports as done  *)
(* stands there. Folders that are reserved or half filled, retries,        *)
(* rebuilds, crashes and the workers are Archive's.                        *)
(***************************************************************************)
CONSTANTS Dev, Folder, None

VARIABLES
    place,     \* place[d]: where d stands, or None
    catalogue, \* catalogue[d]: where the catalogue says that d stands, or None
    reported   \* deviations that the page under way reports as done

shelfVars == <<place, catalogue, reported>>

ShelfInit ==
    /\ place = [d \in Dev |-> None]
    /\ catalogue = [d \in Dev |-> None]
    /\ reported = {}

Put(d, f) ==
    /\ place[d] = None
    /\ \A e \in Dev : place[e] # f
    /\ place' = [place EXCEPT ![d] = f]
    /\ UNCHANGED <<catalogue, reported>>

\* Whatever the catalogue and the report become, they are true.
Write ==
    /\ catalogue' \in [Dev -> Folder \cup {None}]
    /\ \A d \in Dev : catalogue'[d] \in {None, place[d]}
    /\ reported' \subseteq {d \in Dev : place[d] # None}
    /\ UNCHANGED place

ShelfNext ==
    \/ \E d \in Dev, f \in Folder : Put(d, f)
    \/ Write

ShelfSpec == ShelfInit /\ [][ShelfNext]_shelfVars
=============================================================================
