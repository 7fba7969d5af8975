-------------------------- MODULE AuthCommandProofs --------------------------
(***************************************************************************)
(* Proofs about `da auth`: its certificate (LoopbackCert), its listener    *)
(* (LoginListener), and the whole command, which runs these two and        *)
(* ConfigStore, whose proofs are a module of their own.                    *)
(***************************************************************************)
EXTENDS AuthCommand, ConfigStoreProofs, FiniteSetTheorems, TLAPS

-----------------------------------------------------------------------------
(***************************************************************************)
(* The certificate, for any number of runs and of pairs and for every      *)
(* fault.                                                                  *)
(*                                                                         *)
(* What the properties lack to be inductive is where a run's own pair is   *)
(* at each of its steps: locked before it is moved, then the key's, then   *)
(* both files', as long as nobody else has touched them.                   *)
(***************************************************************************)

\* A run that nobody has disturbed finds its own pair where it put it.
OwnPair(p) ==
    /\ at[p] = "movecert" => key.pair = staged[p]
    /\ at[p] = "clean" => key.pair = staged[p] /\ cert.pair = staged[p]
    /\ at[p] \in {"lockdown", "verify", "load"} => CertPairLoads
    /\ at[p] \in {"check", "chmod", "movekey", "movecert", "clean"} =>
          staged[p] \notin unusable
    /\ at[p] # "nocert"

RunOk(p) ==
    /\ at[p] = "movekey" => stagedKey[p] = "locked"
    /\ at[p] \in {"movecert", "clean", "verify"} => key.mode = "locked"
    /\ at[p] \in {"load", "loaded"} => key.mode = "locked" \/ p \in unlocked
    /\ at[p] \in {"check", "chmod", "movekey", "movecert", "clean"} =>
          staged[p] \in 1..pairs
    /\ cause[p] = {} => OwnPair(p)

CertInv ==
    /\ CertTypeOK
    /\ unusable \subseteq 0..pairs
    /\ key.pair \in 0..pairs
    /\ FreshKeyPrivate
    /\ \A p \in Run : RunOk(p)

-----------------------------------------------------------------------------
LEMMA CertInitInv == CertInit => CertInv
<1> SUFFICES ASSUME CertInit PROVE CertInv
  OBVIOUS
<1>1. 0 \in Pairs /\ 1 \in Pairs
  BY MaxPairsAssumption DEF Pairs
<1>2. CertTypeOK
  BY <1>1 DEF CertInit, CertTypeOK, File, NoFile, None, OldPair, Steps
<1>3. unusable \subseteq 0..pairs /\ key.pair \in 0..pairs /\ FreshKeyPrivate
  BY DEF CertInit, FreshKeyPrivate, NoFile, None, OldPair
<1>4. \A p \in Run : RunOk(p)
  BY DEF CertInit, RunOk, OwnPair
<1> QED
  BY <1>2, <1>3, <1>4 DEF CertInv

\* A run's own step keeps the types of what all steps share.
LEMMA StepTypes ==
    ASSUME CertTypeOK, NEW p \in Run, NEW from, NEW to \in Steps, Step(p, from, to)
    PROVE  /\ at' \in [Run -> Steps]
           /\ at[p] = from /\ at'[p] = to
           /\ \A q \in Run \ {p} : at'[q] = at[q]
BY DEF CertTypeOK, Step

LEMMA BlameTypes ==
    ASSUME CertTypeOK, NEW p \in Run, NEW what \in {"openssl", "disk", "race", "user"},
           Blame(p, what)
    PROVE  /\ cause' \in [Run -> SUBSET {"openssl", "disk", "race", "user"}]
           /\ cause'[p] # {}
           /\ \A q \in Run \ {p} : cause'[q] = cause[q]
BY DEF CertTypeOK, Blame

LEMMA BlameOthersTypes ==
    ASSUME CertTypeOK, NEW p \in Run, BlameOthers(p)
    PROVE  /\ cause' \in [Run -> SUBSET {"openssl", "disk", "race", "user"}]
           /\ cause'[p] = cause[p]
           /\ \A q \in Run \ {p} : at[q] \in Working => cause'[q] # {}
           /\ \A q \in Run \ {p} : at[q] \notin Working => cause'[q] = cause[q]
BY DEF CertTypeOK, BlameOthers

\* The other runs: their variables stay, and whoever touches the files blames
\* them.
LEMMA OtherRun ==
    ASSUME CertInv, CertTypeOK', NEW q \in Run, RunOk(q),
           at'[q] = at[q], staged'[q] = staged[q], stagedKey'[q] = stagedKey[q],
           q \in unlocked => q \in unlocked',
           key'.mode = key.mode \/ key'.mode = "locked",
           \/ unusable' = unusable /\ pairs' = pairs
           \/ unusable' \subseteq unusable \cup {pairs + 1} /\ pairs' = pairs + 1,
           \/ cause'[q] = cause[q] /\ key'.pair = key.pair /\ cert'.pair = cert.pair
           \/ cause'[q] = cause[q] /\ at[q] \notin Working
           \/ cause'[q] # {}
    PROVE  RunOk(q)'
<1>1. pairs \in Nat /\ unusable \subseteq 0..pairs
  BY MaxPairsAssumption DEF CertInv, CertTypeOK, Pairs
<1>2. /\ at'[q] = "movekey" => stagedKey'[q] = "locked"
      /\ at'[q] \in {"movecert", "clean", "verify"} => key'.mode = "locked"
      /\ at'[q] \in {"load", "loaded"} => key'.mode = "locked" \/ q \in unlocked'
  BY DEF RunOk
<1>3. at'[q] \in {"check", "chmod", "movekey", "movecert", "clean"} =>
         staged'[q] \in 1..pairs'
  BY <1>1 DEF RunOk
<1>4. ASSUME cause'[q] = {} PROVE OwnPair(q)'
  <2>1. cause[q] = {} /\ OwnPair(q)
    BY <1>4 DEF RunOk
  <2>2. CASE key'.pair = key.pair /\ cert'.pair = cert.pair
    <3>1. CertPairLoads => CertPairLoads'
      <4>1. key.pair \in 0..pairs /\ pairs + 1 \notin 0..pairs
        BY <1>1 DEF CertInv
      <4> QED
        BY <2>2, <4>1 DEF CertPairLoads
    <3>2. at[q] \in {"check", "chmod", "movekey", "movecert", "clean"} =>
             staged'[q] \notin unusable'
      BY <1>1, <2>1 DEF RunOk, OwnPair
    <3> QED
      BY <2>1, <2>2, <3>1, <3>2 DEF OwnPair
  <2>3. CASE cause'[q] = cause[q] /\ at[q] \notin Working
    BY <2>1, <2>3 DEF OwnPair, Working, Steps, CertInv, CertTypeOK
  <2> QED
    BY <1>4, <2>2, <2>3
<1> QED
  BY <1>2, <1>3, <1>4 DEF RunOk

\* Steps of a run on its own: neither the files nor the pairs change.
LEMMA LocalStep ==
    ASSUME CertInv, CertTypeOK', NEW p \in Run,
           UNCHANGED <<key, cert, unusable, pairs>>,
           \A q \in Run \ {p} :
              /\ at'[q] = at[q] /\ staged'[q] = staged[q]
              /\ stagedKey'[q] = stagedKey[q] /\ cause'[q] = cause[q]
              /\ q \in unlocked => q \in unlocked',
           RunOk(p)'
    PROVE  CertInv'
<1>1. ASSUME NEW q \in Run, q # p PROVE RunOk(q)'
  BY <1>1, OtherRun DEF CertInv
<1> QED
  BY <1>1 DEF CertInv, FreshKeyPrivate

LEMMA LocalInv ==
    ASSUME CertInv, NEW p \in Run,
           \/ Reuse(p) \/ LockDownFails(p)
           \/ Regenerate(p) \/ MakeStaging(p) \/ StagingFails(p)
           \/ OpensslFails(p) \/ OpensslWritesNothing(p) \/ StagedExist(p)
           \/ ChmodStaged(p) \/ RemoveStaging(p) \/ Verify(p) \/ LoadCertChain(p)
           \/ Kill(p) \/ Retry(p)
    PROVE  CertInv'
<1>1. CertTypeOK /\ RunOk(p)
  BY DEF CertInv
<1>2. CASE Reuse(p) \/ Regenerate(p) \/ MakeStaging(p) \/ StagedExist(p)
  <2>1. UNCHANGED <<key, cert, unusable, pairs, staged, stagedKey, cause, unlocked>>
    BY <1>2 DEF Reuse, Regenerate, MakeStaging, StagedExist
  <2>2. /\ at' \in [Run -> Steps] /\ \A q \in Run \ {p} : at'[q] = at[q]
        /\ \/ at'[p] = "lockdown" /\ CertPairLoads
           \/ at'[p] \in {"stage", "openssl"}
           \/ at[p] = "check" /\ at'[p] = "chmod"
    BY <1>1, <1>2 DEF Reuse, Regenerate, MakeStaging, StagedExist, Step, Steps, CertTypeOK
  <2>3. RunOk(p)'
    BY <1>1, <2>1, <2>2 DEF RunOk, OwnPair, CertPairLoads
  <2> QED
    BY <1>1, <2>1, <2>2, <2>3, LocalStep DEF CertTypeOK
<1>3. CASE OpensslFails(p) \/ OpensslWritesNothing(p)
  <2>1. /\ UNCHANGED <<key, cert, unusable, pairs, staged, stagedKey, unlocked>>
        /\ Step(p, "openssl", "nocert") /\ Blame(p, "openssl")
    BY <1>3 DEF OpensslFails, OpensslWritesNothing
  <2>2. /\ at' \in [Run -> Steps] /\ at'[p] = "nocert" /\ cause'[p] # {}
        /\ cause' \in [Run -> SUBSET {"openssl", "disk", "race", "user"}]
        /\ \A q \in Run \ {p} : at'[q] = at[q] /\ cause'[q] = cause[q]
    BY <1>1, <2>1, StepTypes, BlameTypes DEF Steps
  <2>3. RunOk(p)'
    BY <2>2 DEF RunOk
  <2> QED
    BY <1>1, <2>1, <2>2, <2>3, LocalStep DEF CertTypeOK
<1>4. CASE ChmodStaged(p)
  <2>1. /\ UNCHANGED <<key, cert, unusable, pairs, staged, cause, unlocked>>
        /\ at' \in [Run -> Steps] /\ at[p] = "chmod" /\ at'[p] = "movekey"
        /\ stagedKey' \in [Run -> {"open", "locked"}] /\ stagedKey'[p] = "locked"
        /\ \A q \in Run \ {p} : at'[q] = at[q] /\ stagedKey'[q] = stagedKey[q]
    BY <1>1, <1>4 DEF ChmodStaged, Step, Steps, CertTypeOK
  <2>2. RunOk(p)'
    BY <1>1, <2>1 DEF RunOk, OwnPair
  <2> QED
    BY <1>1, <2>1, <2>2, LocalStep DEF CertTypeOK
<1>5. CASE RemoveStaging(p)
  <2>1. /\ UNCHANGED <<key, cert, unusable, pairs, stagedKey, cause, unlocked>>
        /\ at' \in [Run -> Steps] /\ at[p] = "clean" /\ at'[p] = "verify"
        /\ staged' = [staged EXCEPT ![p] = None]
        /\ \A q \in Run \ {p} : at'[q] = at[q] /\ staged'[q] = staged[q]
    BY <1>1, <1>5 DEF RemoveStaging, Step, Steps, CertTypeOK
  <2>2. None \in Pairs /\ staged' \in [Run -> Pairs]
    BY <1>1, <2>1, MaxPairsAssumption DEF CertTypeOK, Pairs, None
  <2>3. RunOk(p)'
    <3>1. key.mode = "locked"
      BY <1>1, <2>1 DEF RunOk
    <3>2. cause[p] = {} => CertPairLoads
      BY <1>1, <2>1 DEF RunOk, OwnPair, CertPairLoads, None, CertInv, CertTypeOK
    <3> QED
      BY <2>1, <3>1, <3>2 DEF RunOk, OwnPair, CertPairLoads
  <2> QED
    BY <1>1, <2>1, <2>2, <2>3, LocalStep DEF CertTypeOK
<1>6. CASE Verify(p) \/ LoadCertChain(p)
  <2>1. UNCHANGED <<key, cert, unusable, pairs, staged, stagedKey, cause, unlocked>>
    BY <1>6 DEF Verify, LoadCertChain
  <2>2. /\ at' \in [Run -> Steps] /\ \A q \in Run \ {p} : at'[q] = at[q]
        /\ at[p] \in {"verify", "load"}
        /\ at'[p] \in {"load", "loaded", "nocert"}
        /\ CertPairLoads <=> at'[p] # "nocert"
    BY <1>1, <1>6 DEF Verify, LoadCertChain, Step, Steps, CertTypeOK
  <2>3. RunOk(p)'
    BY <1>1, <2>1, <2>2 DEF RunOk, OwnPair, CertPairLoads
  <2> QED
    BY <1>1, <2>1, <2>2, <2>3, LocalStep DEF CertTypeOK
<1>7. CASE Kill(p)
  <2>1. /\ UNCHANGED <<key, cert, unusable, pairs, staged, stagedKey, cause, unlocked>>
        /\ at' \in [Run -> Steps] /\ at'[p] = "killed"
        /\ \A q \in Run \ {p} : at'[q] = at[q]
    BY <1>1, <1>7 DEF Kill, Steps, CertTypeOK
  <2> QED
    BY <1>1, <2>1, LocalStep DEF CertTypeOK, RunOk, OwnPair
<1>8. CASE Retry(p)
  <2>1. None \in Pairs
    BY MaxPairsAssumption DEF Pairs, None
  <2>2. /\ UNCHANGED <<key, cert, unusable, pairs, stagedKey>>
        /\ at' \in [Run -> Steps] /\ at'[p] = "start" /\ staged' \in [Run -> Pairs]
        /\ cause' \in [Run -> SUBSET {"openssl", "disk", "race", "user"}]
        /\ unlocked' = unlocked \ {p}
        /\ \A q \in Run \ {p} :
              at'[q] = at[q] /\ staged'[q] = staged[q] /\ cause'[q] = cause[q]
    BY <1>1, <1>8, <2>1 DEF Retry, Steps, CertTypeOK
  <2> QED
    BY <1>1, <2>2, LocalStep DEF CertTypeOK, RunOk, OwnPair
<1>9. CASE LockDownFails(p)
  <2>1. /\ UNCHANGED <<key, cert, unusable, pairs, staged, stagedKey, cause>>
        /\ at' \in [Run -> Steps] /\ at[p] = "lockdown" /\ at'[p] = "load"
        /\ \A q \in Run \ {p} : at'[q] = at[q]
        /\ unlocked' = unlocked \cup {p}
    BY <1>1, <1>9 DEF LockDownFails, Step, Steps, CertTypeOK
  <2>2. RunOk(p)'
    BY <1>1, <2>1 DEF RunOk, OwnPair, CertPairLoads
  <2> QED
    BY <1>1, <2>1, <2>2, LocalStep DEF CertTypeOK
<1>10. CASE StagingFails(p)
  <2>1. None \in Pairs
    BY MaxPairsAssumption DEF Pairs, None
  <2>2. PICK step : Step(p, step, "nocert")
    BY <1>10 DEF StagingFails
  <2>3. /\ at' \in [Run -> Steps] /\ at'[p] = "nocert"
        /\ \A q \in Run \ {p} : at'[q] = at[q]
    BY <1>1, <2>2, StepTypes DEF Steps
  <2>4. /\ UNCHANGED <<key, cert, unusable, pairs, stagedKey, unlocked>>
        /\ staged' \in [Run -> Pairs]
        /\ \A q \in Run \ {p} : staged'[q] = staged[q]
    BY <1>1, <1>10, <2>1 DEF StagingFails, CertTypeOK
  <2>5. /\ cause' \in [Run -> SUBSET {"openssl", "disk", "race", "user"}]
        /\ cause'[p] # {}
        /\ \A q \in Run \ {p} : cause'[q] = cause[q]
    BY <1>1, <1>10, BlameTypes DEF StagingFails
  <2>6. RunOk(p)'
    BY <2>3, <2>5 DEF RunOk
  <2> QED
    BY <1>1, <2>3, <2>4, <2>5, <2>6, LocalStep DEF CertTypeOK
<1> QED
  BY <1>2, <1>3, <1>4, <1>5, <1>6, <1>7, <1>8, <1>9, <1>10

LEMMA OpensslWritesInv ==
    ASSUME CertInv, NEW p \in Run, OpensslWrites(p)
    PROVE  CertInv'
<1>1. /\ CertTypeOK /\ pairs \in Nat /\ unusable \subseteq 0..pairs
      /\ pairs <= MaxPairs /\ MaxPairs \in Nat
  BY MaxPairsAssumption DEF CertInv, CertTypeOK, Pairs, OpensslWrites
<1>2. /\ UNCHANGED <<key, cert, unlocked>> /\ pairs' = pairs + 1
      /\ at' \in [Run -> Steps] /\ at'[p] = "check"
      /\ staged' = [staged EXCEPT ![p] = pairs + 1]
      /\ \A q \in Run \ {p} : at'[q] = at[q] /\ staged'[q] = staged[q]
  BY <1>1 DEF OpensslWrites, Step, Steps, CertTypeOK
<1>3. pairs + 1 \in Pairs /\ staged' \in [Run -> Pairs] /\ staged'[p] = pairs + 1
  BY <1>1, <1>2 DEF CertTypeOK, Pairs
<1>4. /\ stagedKey' \in [Run -> {"open", "locked"}]
      /\ \A q \in Run \ {p} : stagedKey'[q] = stagedKey[q]
  BY <1>1 DEF OpensslWrites, CertTypeOK
<1>5. /\ cause' \in [Run -> SUBSET {"openssl", "disk", "race", "user"}]
      /\ \A q \in Run \ {p} : cause'[q] = cause[q]
      /\ \/ unusable' = unusable
         \/ unusable' = unusable \cup {pairs + 1} /\ cause'[p] # {}
  <2>1. CASE UNCHANGED <<unusable, cause>>
    BY <1>1, <2>1 DEF CertTypeOK
  <2>2. CASE unusable' = unusable \cup {pairs + 1} /\ Blame(p, "openssl")
    BY <1>1, <2>2, BlameTypes
  <2> QED
    BY <2>1, <2>2 DEF OpensslWrites
<1>6. CertTypeOK'
  BY <1>1, <1>2, <1>3, <1>4, <1>5 DEF CertTypeOK
<1>7. RunOk(p)'
  <2>1. staged'[p] \in 1..pairs'
    BY <1>1, <1>2, <1>3
  <2>2. cause'[p] = {} => staged'[p] \notin unusable'
    BY <1>1, <1>3, <1>5
  <2> QED
    BY <1>2, <2>1, <2>2 DEF RunOk, OwnPair
<1>8. ASSUME NEW q \in Run, q # p PROVE RunOk(q)'
  BY <1>2, <1>4, <1>5, <1>6, <1>8, OtherRun DEF CertInv
<1>9. unusable' \subseteq 0..pairs' /\ key'.pair \in 0..pairs' /\ FreshKeyPrivate'
  <2>1. (0..pairs) \cup {pairs + 1} \subseteq 0..pairs'
    BY <1>1, <1>2
  <2>2. unusable' \subseteq (0..pairs) \cup {pairs + 1} /\ key.pair \in 0..pairs
    BY <1>1, <1>5 DEF CertInv
  <2> QED
    BY <1>2, <2>1, <2>2 DEF CertInv, FreshKeyPrivate
<1> QED
  BY <1>6, <1>7, <1>8, <1>9 DEF CertInv

LEMMA FilesInv ==
    ASSUME CertInv, NEW p \in Run, LockDown(p) \/ MoveKey(p) \/ MoveCert(p)
    PROVE  CertInv'
<1>1. CertTypeOK /\ RunOk(p) /\ pairs \in Nat
  BY MaxPairsAssumption DEF CertInv, CertTypeOK, Pairs
<1>2. CASE LockDown(p)
  <2>1. /\ UNCHANGED <<unusable, pairs, staged, stagedKey, cause, unlocked>>
        /\ at' \in [Run -> Steps] /\ at[p] = "lockdown" /\ at'[p] = "load"
        /\ \A q \in Run \ {p} : at'[q] = at[q]
    BY <1>1, <1>2 DEF LockDown, Step, Steps, CertTypeOK
  <2>2. /\ key' \in File /\ key'.pair = key.pair /\ key'.mode = "locked"
        /\ cert' \in File /\ cert'.pair = cert.pair
    BY <1>1, <1>2 DEF LockDown, Locked, CertTypeOK, File
  <2>3. CertTypeOK'
    BY <1>1, <2>1, <2>2 DEF CertTypeOK
  <2>4. RunOk(p)'
    BY <1>1, <2>1, <2>2 DEF RunOk, OwnPair, CertPairLoads
  <2>5. ASSUME NEW q \in Run, q # p PROVE RunOk(q)'
    BY <2>1, <2>2, <2>3, <2>5, OtherRun DEF CertInv
  <2> QED
    BY <2>1, <2>2, <2>3, <2>4, <2>5 DEF CertInv, FreshKeyPrivate
<1>3. CASE MoveKey(p)
  <2>1. /\ UNCHANGED <<cert, unusable, pairs, staged, stagedKey, unlocked>>
        /\ at' \in [Run -> Steps] /\ at[p] = "movekey" /\ at'[p] = "movecert"
        /\ BlameOthers(p) /\ \A q \in Run \ {p} : at'[q] = at[q]
    BY <1>1, <1>3 DEF MoveKey, Step, Steps, CertTypeOK
  <2>2. /\ key' \in File /\ key'.pair = staged[p] /\ key'.mode = "locked"
        /\ staged[p] \in 1..pairs
    BY <1>1, <1>3, <2>1 DEF MoveKey, RunOk, CertTypeOK, File
  <2>3. CertTypeOK'
    BY <1>1, <2>1, <2>2, BlameOthersTypes DEF CertTypeOK
  <2>4. RunOk(p)'
    BY <1>1, <2>1, <2>2, BlameOthersTypes DEF RunOk, OwnPair
  <2>5. ASSUME NEW q \in Run, q # p PROVE RunOk(q)'
    <3>1. cause'[q] # {} \/ (cause'[q] = cause[q] /\ at[q] \notin Working)
      BY <1>1, <2>1, <2>5, BlameOthersTypes
    <3> QED
      BY <2>1, <2>2, <2>3, <2>5, <3>1, OtherRun DEF CertInv
  <2>6. key'.pair \in 0..pairs
    BY <1>1, <2>2
  <2> QED
    BY <2>1, <2>2, <2>3, <2>4, <2>5, <2>6 DEF CertInv, FreshKeyPrivate
<1>4. CASE MoveCert(p)
  <2>1. /\ UNCHANGED <<key, unusable, pairs, staged, stagedKey, unlocked>>
        /\ at' \in [Run -> Steps] /\ at[p] = "movecert" /\ at'[p] = "clean"
        /\ BlameOthers(p) /\ \A q \in Run \ {p} : at'[q] = at[q]
    BY <1>1, <1>4 DEF MoveCert, Step, Steps, CertTypeOK
  <2>2. cert' \in File /\ cert'.pair = staged[p]
    BY <1>1, <1>4 DEF MoveCert, CertTypeOK, File
  <2>3. CertTypeOK'
    BY <1>1, <2>1, <2>2, BlameOthersTypes DEF CertTypeOK
  <2>4. RunOk(p)'
    BY <1>1, <2>1, <2>2, BlameOthersTypes DEF RunOk, OwnPair
  <2>5. ASSUME NEW q \in Run, q # p PROVE RunOk(q)'
    <3>1. cause'[q] # {} \/ (cause'[q] = cause[q] /\ at[q] \notin Working)
      BY <1>1, <2>1, <2>5, BlameOthersTypes
    <3> QED
      BY <2>1, <2>3, <2>5, <3>1, OtherRun DEF CertInv
  <2> QED
    BY <2>1, <2>3, <2>4, <2>5 DEF CertInv, FreshKeyPrivate
<1> QED
  BY <1>2, <1>3, <1>4

LEMMA RemovePairInv ==
    ASSUME CertInv, RemovePair
    PROVE  CertInv'
<1>1. CertTypeOK /\ 0 \in Pairs /\ pairs \in Nat
  BY MaxPairsAssumption DEF CertInv, CertTypeOK, Pairs
<1>2. /\ key' = NoFile /\ cert' = NoFile
      /\ UNCHANGED <<unusable, pairs, at, staged, stagedKey, unlocked>>
  BY DEF RemovePair
<1>3. /\ cause' \in [Run -> SUBSET {"openssl", "disk", "race", "user"}]
      /\ \A q \in Run : \/ cause'[q] # {}
                        \/ cause'[q] = cause[q] /\ at[q] \notin Working
  BY <1>1 DEF RemovePair, CertTypeOK
<1>4. key' \in File /\ cert' \in File /\ key'.mode = "locked" /\ key'.pair = 0
  BY <1>1, <1>2 DEF File, NoFile, None
<1>5. CertTypeOK'
  BY <1>1, <1>2, <1>3, <1>4 DEF CertTypeOK
<1>6. ASSUME NEW q \in Run PROVE RunOk(q)'
  BY <1>2, <1>3, <1>4, <1>5, OtherRun DEF CertInv
<1>7. key'.pair \in 0..pairs'
  BY <1>1, <1>2, <1>4
<1> QED
  BY <1>2, <1>4, <1>5, <1>6, <1>7 DEF CertInv, FreshKeyPrivate

LEMMA CertStepInv == CertInv /\ [CertNext]_certVars => CertInv'
<1> SUFFICES ASSUME CertInv, [CertNext]_certVars PROVE CertInv'
  OBVIOUS
<1>1. CASE UNCHANGED certVars
  BY <1>1 DEF certVars, CertInv, CertTypeOK, FreshKeyPrivate, RunOk, OwnPair, CertPairLoads
<1> QED
  BY <1>1, LocalInv, OpensslWritesInv, FilesInv, RemovePairInv
  DEF CertNext, EnsureSelfSignedCert

-----------------------------------------------------------------------------
(* What the certificate promises *)

\* Every variable keeps its type, and pairs their bound.
THEOREM CertTypeCorrect == CertSpec => []CertTypeOK
<1>1. CertInv => CertTypeOK
  BY DEF CertInv
<1> QED
  BY <1>1, CertInitInv, CertStepInv, PTL DEF CertSpec

\* A key that this program makes is never readable by others, whatever openssl
\* does and wherever a run is killed.
THEOREM MadeKeysArePrivate == CertSpec => []FreshKeyPrivate
<1>1. CertInv => FreshKeyPrivate
  BY DEF CertInv
<1> QED
  BY <1>1, CertInitInv, CertStepInv, PTL DEF CertSpec

\* Nor is a key that a listener serves, whoever made it, unless its chmod was refused.
THEOREM ServedKeysArePrivate == CertSpec => []ServedKeyPrivate
<1>1. CertInv => ServedKeyPrivate
  BY DEF CertInv, RunOk, ServedKeyPrivate
<1> QED
  BY <1>1, CertInitInv, CertStepInv, PTL DEF CertSpec

\* What an interrupted run left behind keeps no later run from working: one that gives
\* up has met openssl, the disk, another run or the user.
THEOREM LeftoversNeverBlock == CertSpec => []CertFailureHasCause
<1>1. CertInv => CertFailureHasCause
  BY DEF CertInv, RunOk, OwnPair, CertFailureHasCause
<1> QED
  BY <1>1, CertInitInv, CertStepInv, PTL DEF CertSpec

-----------------------------------------------------------------------------
(***************************************************************************)
(* The listener, for any number of connections and however often the user  *)
(* authorizes.  The safety properties follow the code from the redirect to *)
(* the dict that the handlers fill, and from there to what the wait        *)
(* returns; the invariant says at each station what has been heard, and    *)
(* from whom.                                                              *)
(***************************************************************************)

Mains == {"off", "polling", "closing", "pasting", "exchange", "save", "in", "out"}

\* What the proofs need of the types.
Shapes ==
    /\ main \in Mains
    /\ stage \in [Conn -> Stages]
    /\ request \in [Conn -> [kind : Requests, code : Nat]]
    /\ captured \in [code : Nat, error : {"none", "denied"}]
    /\ answer \in [is : {"none", "code", "pasted", "denied", "timeout"}, code : Nat]
    /\ declined \in BOOLEAN

\* DeviantArt numbers its codes; over SSH it gives one at most.
CodesOk ==
    /\ IsFiniteSet(issued)
    /\ issued \subseteq Nat \ {NoCode, OldCode, Planted}
    /\ main \in {"off", "pasting"} => issued = {}

\* Where an answer of DeviantArt's is, it was given.
Heirs ==
    /\ \A c \in Conn : /\ request[c].kind = "code" => request[c].code \in issued
                       /\ request[c].kind = "denied" => declined
    /\ captured.code # NoCode => captured.code \in issued
    /\ captured.error = "denied" => declined

\* Who was heard in time has filled the dict; the answer comes after the wait.
WaitOk ==
    /\ main \in {"off", "pasting", "polling", "closing"} => answer = NoAnswer
    /\ main \in {"off", "pasting"} => intime = {}
    /\ intime # {} => captured.code # NoCode \/ captured.error = "denied"
    /\ main = "exchange" => answer.is \in {"code", "pasted"}
    /\ answer.is = "pasted" => answer.code \in issued \cup {OldCode, Planted}

ListenerInv ==
    /\ Shapes /\ CodesOk /\ Heirs /\ WaitOk
    /\ OnlyOurAnswer /\ HeardIsAnswered

-----------------------------------------------------------------------------
LEMMA ListenerInitInv == ListenerInit => ListenerInv
<1> SUFFICES ASSUME ListenerInit PROVE ListenerInv
  OBVIOUS
<1> USE DEF ListenerInit, NoCode, NoAnswer, NothingCaptured, NoRequest
<1>1. Shapes
  BY DEF Shapes, Mains, Stages, Requests
<1>2. CodesOk
  BY FS_EmptySet DEF CodesOk
<1>3. Heirs /\ WaitOk /\ OnlyOurAnswer /\ HeardIsAnswered
  BY DEF Heirs, WaitOk, OnlyOurAnswer, HeardIsAnswered
<1> QED
  BY <1>1, <1>2, <1>3 DEF ListenerInv

\* What a connection that is made has to bring.
LEMMA ConnectInv ==
    ASSUME ListenerInv, NEW c \in Conn, NEW r \in [kind : Requests, code : Nat],
           Connect(c, r),
           UNCHANGED <<main, late, captured, answer, intime, spent>>,
           IsFiniteSet(issued'), issued \subseteq issued',
           issued' \subseteq Nat \ {NoCode, OldCode, Planted},
           declined' \in BOOLEAN, declined => declined',
           r.kind = "code" => r.code \in issued',
           r.kind = "denied" => declined'
    PROVE  ListenerInv'
<1>1. /\ main = "polling" \/ main = "closing"
      /\ stage' \in [Conn -> Stages]
      /\ request' \in [Conn -> [kind : Requests, code : Nat]]
      /\ \A d \in Conn : request'[d] = request[d] \/ request'[d] = r
  BY DEF Connect, ListenerInv, Shapes, Stages
<1>2. Shapes' /\ CodesOk'
  BY <1>1 DEF ListenerInv, Shapes, CodesOk
<1>3. Heirs'
  BY <1>1 DEF ListenerInv, Heirs
<1>4. WaitOk' /\ OnlyOurAnswer' /\ HeardIsAnswered'
  BY DEF ListenerInv, WaitOk, OnlyOurAnswer, HeardIsAnswered
<1> QED
  BY <1>2, <1>3, <1>4 DEF ListenerInv

LEMMA BrowserInv ==
    ASSUME ListenerInv, NEW c \in Conn,
           Authorize(c) \/ Decline(c) \/ Reload(c) \/ Stray(c)
    PROVE  ListenerInv'
<1>1. /\ IsFiniteSet(issued) /\ issued \subseteq Nat \ {NoCode, OldCode, Planted}
      /\ declined \in BOOLEAN
  BY DEF ListenerInv, CodesOk, Shapes
<1>2. CASE Authorize(c)
  <2> DEFINE n == Cardinality(issued) + 3
  <2>1. n \in Nat \ {NoCode, OldCode, Planted}
    BY <1>1, FS_CardinalityType DEF NoCode, OldCode, Planted
  <2>2. /\ issued' = issued \cup {n} /\ Connect(c, [kind |-> "code", code |-> n])
        /\ UNCHANGED <<main, late, captured, declined, answer, intime, spent>>
    BY <1>2 DEF Authorize
  <2>3. IsFiniteSet(issued')
    BY <1>1, <2>2, FS_AddElement
  <2>4. [kind |-> "code", code |-> n] \in [kind : Requests, code : Nat]
    BY <2>1 DEF Requests
  <2> HIDE DEF n
  <2> QED
    BY <1>1, <2>1, <2>2, <2>3, <2>4, ConnectInv
<1>3. CASE Decline(c)
  <2>1. [kind |-> "denied", code |-> NoCode] \in [kind : Requests, code : Nat]
    BY DEF Requests, NoCode
  <2> QED
    BY <1>1, <1>3, <2>1, ConnectInv DEF Decline
<1>4. CASE Reload(c)
  <2>1. PICK n \in issued : Connect(c, [kind |-> "code", code |-> n])
    BY <1>4 DEF Reload
  <2>2. [kind |-> "code", code |-> n] \in [kind : Requests, code : Nat]
    BY <1>1 DEF Requests
  <2> QED
    BY <1>1, <1>4, <2>1, <2>2, ConnectInv DEF Reload
<1>5. CASE Stray(c)
  <2>1. PICK r \in {[kind |-> "favicon", code |-> NoCode],
                    [kind |-> "silent", code |-> NoCode],
                    [kind |-> "foreign", code |-> Planted],
                    [kind |-> "foreign", code |-> OldCode],
                    [kind |-> "foreign", code |-> NoCode]} : Connect(c, r)
    BY <1>5 DEF Stray
  <2>2. /\ r \in [kind : Requests, code : Nat]
        /\ r.kind # "code" /\ r.kind # "denied"
    BY DEF Requests, NoCode, Planted, OldCode
  <2> QED
    BY <1>1, <1>5, <2>1, <2>2, ConnectInv DEF Stray
<1> QED
  BY <1>2, <1>3, <1>4, <1>5

\* Steps that hear nothing and answer nothing.
LEMMA QuietInv ==
    ASSUME ListenerInv, stage' \in [Conn -> Stages],
           UNCHANGED <<captured, request, issued, declined, answer, intime>>,
           \/ main' = main
           \/ main = "off" /\ main' \in {"polling", "pasting"}
           \/ main = "polling" /\ main' = "closing"
           \/ main' = "out"
           \/ main = "save" /\ main' = "in"
    PROVE  ListenerInv'
<1>1. Shapes' /\ CodesOk' /\ Heirs' /\ WaitOk'
  BY DEF ListenerInv, Shapes, Mains, CodesOk, Heirs, WaitOk
<1>2. OnlyOurAnswer' /\ HeardIsAnswered'
  BY DEF ListenerInv, OnlyOurAnswer, HeardIsAnswered
<1> QED
  BY <1>1, <1>2 DEF ListenerInv

LEMMA CaptureInv ==
    ASSUME ListenerInv, NEW c \in Conn, Capture(c)
    PROVE  ListenerInv'
<1>1. Shapes /\ CodesOk /\ Heirs /\ WaitOk /\ OnlyOurAnswer /\ HeardIsAnswered
  BY DEF ListenerInv
<1>2. UNCHANGED <<main, request, issued, declined, answer>>
  BY DEF Capture
<1>3. /\ captured' \in [code : Nat, error : {"none", "denied"}]
      /\ captured'.code # NoCode \/ captured'.error = "denied"
      /\ captured'.code # NoCode => captured'.code \in issued
      /\ captured'.error = "denied" => declined
  <2>1. CASE IsCallback(request[c])
             /\ captured' = [captured EXCEPT !.code = request[c].code]
    BY <1>1, <2>1 DEF IsCallback, Shapes, CodesOk, Heirs
  <2>2. CASE IsDenial(request[c]) /\ captured' = [captured EXCEPT !.error = "denied"]
    BY <1>1, <2>2 DEF IsDenial, Shapes, Heirs
  <2> QED
    BY <2>1, <2>2 DEF Capture
<1>4. stage' \in [Conn -> Stages]
  BY <1>1 DEF Capture, Shapes, Stages
<1>5. intime' = intime \/ main = "polling"
  BY DEF Capture
<1>6. Shapes' /\ CodesOk' /\ Heirs'
  BY <1>1, <1>2, <1>3, <1>4 DEF Shapes, CodesOk, Heirs
<1>7. WaitOk'
  BY <1>1, <1>2, <1>3, <1>5 DEF WaitOk
<1>8. OnlyOurAnswer' /\ HeardIsAnswered'
  BY <1>1, <1>2, <1>5 DEF OnlyOurAnswer, HeardIsAnswered, WaitOk
<1> QED
  BY <1>6, <1>7, <1>8 DEF ListenerInv

LEMMA CloseAndReadInv ==
    ASSUME ListenerInv, CloseAndRead
    PROVE  ListenerInv'
<1>1. Shapes /\ CodesOk /\ Heirs /\ WaitOk
  BY DEF ListenerInv
<1>2. UNCHANGED <<captured, request, issued, declined, intime>> /\ answer' = Heard
      /\ main' = IF Heard.is = "code" THEN "exchange" ELSE "out"
  BY DEF CloseAndRead
<1>3. /\ Heard \in [is : {"code", "denied", "timeout"}, code : Nat]
      /\ Heard.is = "code" => Heard.code \in issued
      /\ Heard.is = "denied" => declined
      /\ captured.code # NoCode \/ captured.error = "denied" => Heard.is # "timeout"
  BY <1>1 DEF Heard, Shapes, Heirs, NoCode
<1>4. stage' \in [Conn -> Stages]
  BY <1>1 DEF CloseAndRead, Shapes, Stages
<1>5. Shapes' /\ CodesOk' /\ Heirs'
  BY <1>1, <1>2, <1>3, <1>4 DEF Shapes, Mains, CodesOk, Heirs
<1>6. WaitOk'
  BY <1>1, <1>2, <1>3 DEF WaitOk
<1>7. OnlyOurAnswer' /\ HeardIsAnswered'
  BY <1>1, <1>2, <1>3 DEF OnlyOurAnswer, HeardIsAnswered, WaitOk
<1> QED
  BY <1>5, <1>6, <1>7 DEF ListenerInv

LEMMA PasteInv ==
    ASSUME ListenerInv, Paste
    PROVE  ListenerInv'
<1>1. Shapes /\ CodesOk /\ Heirs /\ WaitOk /\ issued = {} /\ intime = {}
  BY DEF ListenerInv, Paste, CodesOk, WaitOk
<1>2. UNCHANGED <<captured, stage, request, declined, intime>>
  BY DEF Paste
<1>3. /\ issued' = {} \/ issued' = {3}
      /\ answer' \in [is : {"pasted", "timeout"}, code : Nat]
      /\ answer'.is = "pasted" => answer'.code \in issued' \cup {OldCode, Planted}
      /\ \/ main' = "exchange" /\ answer'.is = "pasted"
         \/ main' = "out"
  BY <1>1 DEF Paste, NoCode, OldCode, Planted
<1>4. IsFiniteSet(issued') /\ issued' \subseteq Nat \ {NoCode, OldCode, Planted}
  <2>1. IsFiniteSet({}) /\ IsFiniteSet({3})
    BY FS_EmptySet, FS_Singleton
  <2> QED
    BY <1>3, <2>1 DEF NoCode, OldCode, Planted
<1>5. Shapes' /\ CodesOk' /\ Heirs'
  BY <1>1, <1>2, <1>3, <1>4 DEF Shapes, Mains, CodesOk, Heirs
<1>6. WaitOk' /\ OnlyOurAnswer' /\ HeardIsAnswered'
  BY <1>1, <1>2, <1>3 DEF WaitOk, OnlyOurAnswer, HeardIsAnswered
<1> QED
  BY <1>5, <1>6 DEF ListenerInv

LEMMA ExchangeInv ==
    ASSUME ListenerInv, Exchange
    PROVE  ListenerInv'
<1>1. UNCHANGED <<captured, stage, request, issued, declined, answer, intime>>
      /\ main = "exchange" /\ main' = "save"
  BY DEF Exchange
<1>2. answer.code \in issued \/ (answer.is = "pasted" /\ answer.code = Planted)
  BY DEF Exchange, Accepts, ListenerInv, WaitOk, OnlyOurAnswer, OldCode, Planted
<1>3. Shapes' /\ CodesOk' /\ Heirs' /\ WaitOk'
  BY <1>1 DEF ListenerInv, Shapes, Mains, CodesOk, Heirs, WaitOk
<1>4. OnlyOurAnswer' /\ HeardIsAnswered'
  BY <1>1, <1>2 DEF ListenerInv, OnlyOurAnswer, HeardIsAnswered
<1> QED
  BY <1>3, <1>4 DEF ListenerInv

LEMMA ListenerStepInv ==
    ListenerInv /\ [ListenerNext]_listenerVars => ListenerInv'
<1> SUFFICES ASSUME ListenerInv, [ListenerNext]_listenerVars PROVE ListenerInv'
  OBVIOUS
<1>1. stage \in [Conn -> Stages]
  BY DEF ListenerInv, Shapes
<1>2. ASSUME NEW c \in Conn, Thread(c) \/ Abandon(c) PROVE ListenerInv'
  <2>1. CASE Capture(c)
    BY <2>1, CaptureInv
  <2>2. CASE Accept(c) \/ Handshake(c) \/ NotFound(c) \/ Answer(c) \/ Abandon(c)
    BY <1>1, <2>2, QuietInv DEF Accept, Handshake, NotFound, Answer, Abandon, Stages
  <2> QED
    BY <1>2, <2>1, <2>2 DEF Thread
<1>3. ASSUME NEW c \in Conn, Browser(c) PROVE ListenerInv'
  BY <1>2, <1>3, BrowserInv DEF Browser
<1>4. CASE Open \/ OpenPaste \/ TimeIsUp \/ StopWaiting
  BY <1>1, <1>4, QuietInv DEF Open, OpenPaste, TimeIsUp, StopWaiting
<1>5. CASE ExchangeFails \/ Save
  <2>1. stage' \in [Conn -> Stages]
    BY <1>1, <1>5 DEF ExchangeFails, Save, EndThreads, Stages
  <2> QED
    BY <1>5, <2>1, QuietInv DEF ExchangeFails, Save
<1>6. CASE UNCHANGED listenerVars
  BY <1>1, <1>6, QuietInv DEF listenerVars
<1> QED
  BY <1>2, <1>3, <1>4, <1>5, <1>6, CloseAndReadInv, PasteInv, ExchangeInv
  DEF ListenerNext, MainThread

-----------------------------------------------------------------------------
(* Types of what the other proofs do not need *)

Rest == late \in BOOLEAN /\ intime \subseteq Conn /\ spent \subseteq Nat

LEMMA RestInv == ListenerInv /\ Rest /\ [ListenerNext]_listenerVars => Rest'
<1> SUFFICES ASSUME ListenerInv, Rest, [ListenerNext]_listenerVars PROVE Rest'
  OBVIOUS
<1> USE DEF Rest
<1>1. answer.code \in Nat
  BY DEF ListenerInv, Shapes
<1>2. ASSUME NEW c \in Conn, Thread(c) PROVE Rest'
  BY <1>2 DEF Thread, Accept, Handshake, Capture, NotFound, Answer
<1>3. ASSUME NEW c \in Conn, Browser(c) PROVE Rest'
  BY <1>3 DEF Browser, Authorize, Decline, Reload, Stray, Abandon
<1>4. CASE Exchange \/ ExchangeFails
  BY <1>1, <1>4 DEF Exchange, ExchangeFails
<1>5. CASE StopWaiting \/ CloseAndRead \/ Paste \/ Save \/ Open \/ OpenPaste \/ TimeIsUp
  BY <1>5 DEF StopWaiting, CloseAndRead, Paste, Save, Open, OpenPaste, TimeIsUp
<1>6. CASE UNCHANGED listenerVars
  BY <1>6 DEF listenerVars
<1> QED
  BY <1>2, <1>3, <1>4, <1>5, <1>6 DEF ListenerNext, MainThread

-----------------------------------------------------------------------------
(* What the listener promises *)

\* Every variable keeps its type.
THEOREM ListenerTypeCorrect == ListenerSpec => []ListenerTypeOK
<1>1. ListenerInit => Rest
  BY DEF ListenerInit, Rest
<1>2. ListenerInv /\ Rest => ListenerTypeOK
  BY DEF ListenerInv, Shapes, Mains, CodesOk, Rest, ListenerTypeOK
<1> QED
  BY <1>1, <1>2, ListenerInitInv, ListenerStepInv, RestInv, PTL DEF ListenerSpec

\* Whatever else connects and whatever it brings: a code or a refusal that ends the
\* listener's wait is DeviantArt's answer to this run, and tokens that are saved after
\* it belong to a code of this run.  After a paste they may belong to a code that was
\* issued to somebody else.
THEOREM AnswersAreOurs == ListenerSpec => []OnlyOurAnswer
<1>1. ListenerInv => OnlyOurAnswer
  BY DEF ListenerInv
<1> QED
  BY <1>1, ListenerInitInv, ListenerStepInv, PTL DEF ListenerSpec

\* A redirect that was heard while the run waited is its answer, even if the
\* deadline passed in the same moment.
THEOREM NothingHeardIsLost == ListenerSpec => []HeardIsAnswered
<1>1. ListenerInv => HeardIsAnswered
  BY DEF ListenerInv
<1> QED
  BY <1>1, ListenerInitInv, ListenerStepInv, PTL DEF ListenerSpec

-----------------------------------------------------------------------------
(***************************************************************************)
(* The whole command.  Each component goes through what it could go        *)
(* through alone, and one step more: a run whose port is taken gives up    *)
(* with a pair it has loaded.                                              *)
(***************************************************************************)

\* A step of the command as the certificate's part of it sees it.
CertPart == CertNext \/ \E p \in Run : PortTaken(p)

LEMMA AuthParts ==
    ASSUME [AuthNext]_authVars
    PROVE  /\ [ConfigNext]_configVars
           /\ [CertPart]_certVars
           /\ [ListenerNext]_listenerVars
<1>1. CASE ConfigStep
  BY <1>1 DEF ConfigStep
<1>2. CASE CertificateStep
  BY <1>2 DEF CertificateStep, CertPart
<1>3. ASSUME NEW p \in Run, PortTaken(p)
      PROVE  CertPart /\ UNCHANGED <<configVars, listenerVars>>
  <2>1. UNCHANGED <<configVars, listenerVars>>
    BY <1>3 DEF PortTaken
  <2> QED
    BY <1>3, <2>1 DEF CertPart
<1>4. CASE Listen \/ ListenNot
  BY <1>4 DEF Listen, ListenNot, ListenerNext
<1>5. CASE ListenerStep
  BY <1>5 DEF ListenerStep
<1>6. CASE UNCHANGED authVars
  BY <1>6 DEF authVars
<1> QED
  BY <1>1, <1>2, <1>3, <1>4, <1>5, <1>6 DEF AuthNext

LEMMA PortTakenInv ==
    ASSUME CertInv, NEW p \in Run, PortTaken(p)
    PROVE  CertInv'
<1>1. /\ UNCHANGED <<key, cert, unusable, pairs, staged, stagedKey, cause, unlocked>>
      /\ at' = [at EXCEPT ![p] = "noport"] /\ CertTypeOK
  BY DEF PortTaken, CertInv
<1>2. /\ at' \in [Run -> Steps] /\ at'[p] = "noport"
      /\ \A q \in Run \ {p} : at'[q] = at[q]
  BY <1>1 DEF CertTypeOK, Steps
<1>3. RunOk(p)'
  BY <1>2 DEF RunOk, OwnPair
<1> QED
  BY <1>1, <1>2, <1>3, LocalStep DEF CertTypeOK

LEMMA CertPartInv ==
    ASSUME CertInv, [CertPart]_certVars
    PROVE  CertInv'
<1>1. CASE \E p \in Run : PortTaken(p)
  BY <1>1, PortTakenInv
<1>2. CASE [CertNext]_certVars
  BY <1>2, CertStepInv
<1> QED
  BY <1>1, <1>2 DEF CertPart

\* Within the command the configuration goes through what its own specification
\* allows, so what is proved of ConfigStore holds of the command too.
THEOREM AuthRunsConfigStore == AuthSpec => ConfigSpec
<1>1. AuthInit => ConfigInit
  BY DEF AuthInit
<1>2. [AuthNext]_authVars => [ConfigNext]_configVars
  BY AuthParts
<1> QED
  BY <1>1, <1>2, PTL DEF AuthSpec, ConfigSpec

\* The same of the listener, but for its fairness, which is not a matter of steps.
THEOREM AuthRunsListener ==
    AuthSpec => ListenerInit /\ [][ListenerNext]_listenerVars
<1>1. AuthInit => ListenerInit
  BY DEF AuthInit
<1>2. [AuthNext]_authVars => [ListenerNext]_listenerVars
  BY AuthParts
<1> QED
  BY <1>1, <1>2, PTL DEF AuthSpec

LEMMA AuthInvariant == AuthSpec => [](ConfigInv /\ CertInv /\ ListenerInv)
<1>1. AuthInit => ConfigInv /\ CertInv /\ ListenerInv
  BY ConfigInitInv, CertInitInv, ListenerInitInv DEF AuthInit
<1>2. ConfigInv /\ CertInv /\ ListenerInv /\ [AuthNext]_authVars
         => ConfigInv' /\ CertInv' /\ ListenerInv'
  BY AuthParts, ConfigStepInv, CertPartInv, ListenerStepInv
<1> QED
  BY <1>1, <1>2, PTL DEF AuthSpec

\* All that its parts promise holds of the command under the conditions they state, for
\* any number of runs that race for the certificate and the port: what the Keychain
\* answers a load with was in force, a set that it took leaves no readable copy, keys
\* that may be chmodded are private, no login fails for what another left behind, only
\* DeviantArt's answer ends the listener's wait, and what was heard in time is it.
THEOREM AuthIsSafe ==
    AuthSpec => []( /\ ReadsAreCurrent /\ NoLeftover /\ OthersKept
                    /\ FreshKeyPrivate /\ ServedKeyPrivate /\ CertFailureHasCause
                    /\ OnlyOurAnswer /\ HeardIsAnswered )
<1>1. ConfigInv => ReadsAreCurrent /\ NoLeftover /\ OthersKept
  BY DEF ConfigInv, StoreInv, ReaderOk, ReadsAreCurrent, NoLeftover, OthersKept
<1>2. CertInv => FreshKeyPrivate /\ ServedKeyPrivate /\ CertFailureHasCause
  BY DEF CertInv, RunOk, OwnPair, ServedKeyPrivate, CertFailureHasCause
<1>3. ListenerInv => OnlyOurAnswer /\ HeardIsAnswered
  BY DEF ListenerInv
<1> QED
  BY <1>1, <1>2, <1>3, AuthInvariant, PTL
=============================================================================
