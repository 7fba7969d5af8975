---------------------------- MODULE LoopbackCert ----------------------------
(***************************************************************************)
(* The self-signed certificate of the login listener: _cert_pair_loads,    *)
(* _lock_down and _ensure_self_signed_cert of src/dacli/auth.py, and the   *)
(* load_cert_chain that follows.  Several `da auth` runs may be under way  *)
(* at once, no lock keeps them apart, and each may be killed between any   *)
(* two of its file operations; the next run finds what the last one left.  *)
(*                                                                         *)
(* Abstractions.  A key pair is the number of the openssl call that made   *)
(* it; 0 is "no file", OldPair what was there before.  A pair loads if     *)
(* both files are of one pair and that pair is usable.  A file's mode is   *)
(* "open" (other users can read it) or "locked" (0600).  STATE_DIR is      *)
(* searchable by everybody, a staging directory by nobody else.            *)
(*                                                                         *)
(* CertFaults names what may go wrong:                                     *)
(*   "missing"  there is no openssl on the PATH                            *)
(*   "fails"    openssl exits with an error                                *)
(*   "empty"    openssl exits 0 and writes nothing                         *)
(*   "garbage"  openssl exits 0 and writes what cannot be loaded           *)
(*   "killed"   a run is killed, wherever it is                            *)
(*   "disk"     mkdtemp, a chmod in the staging directory or a replace     *)
(*              raises OSError                                             *)
(*   "foreign"  the two files are not this user's: chmod is refused        *)
(*   "user"     somebody deletes the two files                             *)
(***************************************************************************)
EXTENDS Integers, FiniteSets

CONSTANTS Run,        \* slots for `da auth` runs
          CertFaults, \* see above
          MaxPairs    \* bound: openssl calls that write something

ASSUME CertFaultsAssumption ==
    CertFaults \subseteq {"missing", "fails", "empty", "garbage", "killed", "disk",
                          "foreign", "user"}
ASSUME MaxPairsAssumption == MaxPairs \in Nat

None == 0
OldPair == 1
Pairs == 0 .. MaxPairs + 1

File == [pair : Pairs, mode : {"open", "locked"}]
NoFile == [pair |-> None, mode |-> "locked"]

VARIABLES
    key,       \* loopback-key.pem
    cert,      \* loopback-cert.pem
    unusable,  \* pairs that load_cert_chain rejects
    pairs,     \* number of the last pair made
    at,        \* where each run is
    staged,    \* the pair in its staging directory
    stagedKey, \* the mode of the key in there
    cause,     \* per run: why it may fail (history)
    unlocked   \* runs whose chmod of the pair was refused (history)

certVars == <<key, cert, unusable, pairs, at, staged, stagedKey, cause, unlocked>>

Steps == {"start", "lockdown", "stage", "openssl", "check", "chmod", "movekey",
          "movecert", "clean", "verify", "load", "loaded", "nocert", "noport",
          "killed"}

\* Steps between which a kill leaves something behind.
Working == Steps \ {"start", "loaded", "nocert", "noport", "killed"}

CertTypeOK ==
    /\ key \in File
    /\ cert \in File
    /\ unusable \subseteq Pairs
    /\ pairs \in Pairs
    /\ at \in [Run -> Steps]
    /\ staged \in [Run -> Pairs]
    /\ stagedKey \in [Run -> {"open", "locked"}]
    /\ cause \in [Run -> SUBSET {"openssl", "disk", "race", "user"}]
    /\ unlocked \subseteq Run

\* A first login; a pair of an older version of the program, which chmods after
\* the move and was interrupted; the same pair half-written or half-restored.
CertInit ==
    /\ \/ key = NoFile /\ cert = NoFile
       \/ key \in File /\ key.pair = OldPair /\ cert \in {key, NoFile}
    /\ unusable \in {{}, {OldPair}}
    /\ pairs = OldPair
    /\ at = [p \in Run |-> "start"]
    /\ staged = [p \in Run |-> None]
    /\ stagedKey = [p \in Run |-> "locked"]
    /\ cause = [p \in Run |-> {}]
    /\ unlocked = {}

-----------------------------------------------------------------------------
(* Helpers *)

\* Can this pair terminate TLS?
CertPairLoads ==
    key.pair # None /\ key.pair = cert.pair /\ key.pair \notin unusable

Step(p, from, to) == at[p] = from /\ at' = [at EXCEPT ![p] = to]

Blame(p, what) == cause' = [cause EXCEPT ![p] = @ \cup {what}]

\* Every run that is under way sees another run's files from now on.
BlameOthers(p) ==
    cause' = [q \in Run |->
                IF q # p /\ at[q] \in Working THEN cause[q] \cup {"race"} ELSE cause[q]]

\* chmod 0600
Locked(f) == [f EXCEPT !.mode = "locked"]

-----------------------------------------------------------------------------
(* One run of _ensure_self_signed_cert *)

\* Seeded fault for Reuse: that both files exist is enough.
ReuseExisting(p) ==
    /\ key.pair # None /\ cert.pair # None
    /\ Step(p, "start", "lockdown")
    /\ UNCHANGED <<key, cert, unusable, pairs, staged, stagedKey, cause, unlocked>>

\* Seeded fault for Reuse: the pair is served without a look at its mode.
ReuseAsItIs(p) ==
    /\ CertPairLoads
    /\ Step(p, "start", "load")
    /\ UNCHANGED <<key, cert, unusable, pairs, staged, stagedKey, cause, unlocked>>

\* The pair is there and loads.
Reuse(p) ==
    /\ CertPairLoads
    /\ Step(p, "start", "lockdown")
    /\ UNCHANGED <<key, cert, unusable, pairs, staged, stagedKey, cause, unlocked>>

\* _lock_down: a missing file is tolerated.
LockDown(p) ==
    /\ Step(p, "lockdown", "load")
    /\ key' = Locked(key)
    /\ cert' = Locked(cert)
    /\ UNCHANGED <<unusable, pairs, staged, stagedKey, cause, unlocked>>

\* It suppresses every other OSError too: the key is served as it is.
LockDownFails(p) ==
    /\ "foreign" \in CertFaults
    /\ Step(p, "lockdown", "load")
    /\ unlocked' = unlocked \cup {p}
    /\ UNCHANGED <<key, cert, unusable, pairs, staged, stagedKey, cause>>

\* There is no pair, or one that does not load.
Regenerate(p) ==
    /\ ~CertPairLoads
    /\ Step(p, "start", "stage")
    /\ UNCHANGED <<key, cert, unusable, pairs, staged, stagedKey, cause, unlocked>>

\* mkdtemp and its chmod.
MakeStaging(p) ==
    /\ Step(p, "stage", "openssl")
    /\ UNCHANGED <<key, cert, unusable, pairs, staged, stagedKey, cause, unlocked>>

\* The exception goes up to main, the staging directory is removed; a key that has
\* been moved stays without its certificate.
StagingFails(p) ==
    /\ "disk" \in CertFaults
    /\ \E step \in {"stage", "chmod", "movekey", "movecert"} : Step(p, step, "nocert")
    /\ staged' = [staged EXCEPT ![p] = None]
    /\ Blame(p, "disk")
    /\ UNCHANGED <<key, cert, unusable, pairs, stagedKey, unlocked>>

\* The mode of the key is the whim of the openssl that is installed.
OpensslWrites(p) ==
    /\ pairs <= MaxPairs
    /\ Step(p, "openssl", "check")
    /\ pairs' = pairs + 1
    /\ staged' = [staged EXCEPT ![p] = pairs + 1]
    /\ \E mode \in {"open", "locked"} : stagedKey' = [stagedKey EXCEPT ![p] = mode]
    /\ \/ UNCHANGED <<unusable, cause>>
       \/ /\ "garbage" \in CertFaults
          /\ unusable' = unusable \cup {pairs + 1}
          /\ Blame(p, "openssl")
    /\ UNCHANGED <<key, cert, unlocked>>

\* Not on the PATH, or it fails: the staging directory goes, the run ends.
OpensslFails(p) ==
    /\ CertFaults \cap {"missing", "fails"} # {}
    /\ Step(p, "openssl", "nocert")
    /\ Blame(p, "openssl")
    /\ UNCHANGED <<key, cert, unusable, pairs, staged, stagedKey, unlocked>>

\* "openssl reported success but produced no cert/key"
OpensslWritesNothing(p) ==
    /\ "empty" \in CertFaults
    /\ Step(p, "openssl", "nocert")
    /\ Blame(p, "openssl")
    /\ UNCHANGED <<key, cert, unusable, pairs, staged, stagedKey, unlocked>>

StagedExist(p) ==
    /\ staged[p] # None
    /\ Step(p, "check", "chmod")
    /\ UNCHANGED <<key, cert, unusable, pairs, staged, stagedKey, cause, unlocked>>

\* Seeded fault for ChmodStaged: the chmod is left to the next login.
ChmodLater(p) ==
    /\ Step(p, "chmod", "movekey")
    /\ UNCHANGED <<key, cert, unusable, pairs, staged, stagedKey, cause, unlocked>>

\* Both chmods, before either file has a name that others can reach.
ChmodStaged(p) ==
    /\ Step(p, "chmod", "movekey")
    /\ stagedKey' = [stagedKey EXCEPT ![p] = "locked"]
    /\ UNCHANGED <<key, cert, unusable, pairs, staged, cause, unlocked>>

MoveKey(p) ==
    /\ Step(p, "movekey", "movecert")
    /\ key' = [pair |-> staged[p], mode |-> stagedKey[p]]
    /\ BlameOthers(p)
    /\ UNCHANGED <<cert, unusable, pairs, staged, stagedKey, unlocked>>

MoveCert(p) ==
    /\ Step(p, "movecert", "clean")
    /\ cert' = [pair |-> staged[p], mode |-> "locked"]
    /\ BlameOthers(p)
    /\ UNCHANGED <<key, unusable, pairs, staged, stagedKey, unlocked>>

\* rmtree(staging)
RemoveStaging(p) ==
    /\ Step(p, "clean", "verify")
    /\ staged' = [staged EXCEPT ![p] = None]
    /\ UNCHANGED <<key, cert, unusable, pairs, stagedKey, cause, unlocked>>

Verify(p) ==
    /\ Step(p, "verify", IF CertPairLoads THEN "load" ELSE "nocert")
    /\ UNCHANGED <<key, cert, unusable, pairs, staged, stagedKey, cause, unlocked>>

\* The listener's own load_cert_chain, with nothing around it that catches.
LoadCertChain(p) ==
    /\ Step(p, "load", IF CertPairLoads THEN "loaded" ELSE "nocert")
    /\ UNCHANGED <<key, cert, unusable, pairs, staged, stagedKey, cause, unlocked>>

-----------------------------------------------------------------------------
(* The environment *)

\* The staging directory, if any, stays behind.
Kill(p) ==
    /\ "killed" \in CertFaults
    /\ at[p] \in Working
    /\ at' = [at EXCEPT ![p] = "killed"]
    /\ UNCHANGED <<key, cert, unusable, pairs, staged, stagedKey, cause, unlocked>>

\* The user tries again.
Retry(p) ==
    /\ at[p] \in {"nocert", "noport", "killed"}
    /\ pairs <= MaxPairs
    /\ at' = [at EXCEPT ![p] = "start"]
    /\ staged' = [staged EXCEPT ![p] = None]
    /\ cause' = [cause EXCEPT ![p] = {}]
    /\ unlocked' = unlocked \ {p}
    /\ UNCHANGED <<key, cert, unusable, pairs, stagedKey>>

RemovePair ==
    /\ "user" \in CertFaults
    /\ key.pair # None \/ cert.pair # None
    /\ key' = NoFile
    /\ cert' = NoFile
    /\ cause' = [p \in Run |->
                   IF at[p] \in Working THEN cause[p] \cup {"user"} ELSE cause[p]]
    /\ UNCHANGED <<unusable, pairs, at, staged, stagedKey, unlocked>>

EnsureSelfSignedCert(p) ==
    \/ Reuse(p) \/ LockDown(p) \/ LockDownFails(p)
    \/ Regenerate(p) \/ MakeStaging(p) \/ StagingFails(p)
    \/ OpensslWrites(p) \/ OpensslFails(p) \/ OpensslWritesNothing(p)
    \/ StagedExist(p) \/ ChmodStaged(p)
    \/ MoveKey(p) \/ MoveCert(p) \/ RemoveStaging(p)
    \/ Verify(p) \/ LoadCertChain(p)

CertNext ==
    \/ \E p \in Run : EnsureSelfSignedCert(p) \/ Kill(p) \/ Retry(p)
    \/ RemovePair

CertSpec == CertInit /\ [][CertNext]_certVars

-----------------------------------------------------------------------------
(* Properties *)

\* No local user can ever read a private key that this program made, whatever
\* mode openssl gave it and wherever a run is killed (auth.py:333-340).
FreshKeyPrivate == key.pair > OldPair => key.mode = "locked"

\* A key that a listener goes on to serve is private, even if an interrupted run
\* of an older version left it readable (auth.py:314-318), unless this user may not
\* chmod it, which nobody is told (auth.py:297).
ServedKeyPrivate ==
    \A p \in Run :
        at[p] \in {"load", "loaded"} /\ p \notin unlocked => key.mode = "locked"

\* A login gives up for want of a certificate only if openssl or the disk let it
\* down, if another login replaced the files under it, or if the user removed them:
\* what an earlier run left behind, half-moved pairs too, never keeps a later one
\* from working (auth.py:320-323).
CertFailureHasCause == \A p \in Run : at[p] = "nocert" => cause[p] # {}
=============================================================================
