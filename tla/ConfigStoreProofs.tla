-------------------------- MODULE ConfigStoreProofs --------------------------
(***************************************************************************)
(* Proofs about ConfigStore, for any number of readers, any number of      *)
(* secrets, with or without kills and with or without a Keychain that      *)
(* refuses.                                                                *)
(*                                                                         *)
(* The three properties are not inductive.  What is missing is what a      *)
(* command knows between its steps: that the dict it read is still the     *)
(* file, that the Keychain already has the new secret while the file's     *)
(* copy is being dropped; that what would be loaded now is in force,       *)
(* whichever place it is in, and therefore so is what a refusing Keychain  *)
(* holds; and what a reader may still be given: whatever the Keychain      *)
(* would answer now.                                                       *)
(***************************************************************************)
EXTENDS ConfigStore, TLAPS

Setting == {"set", "drop", "dropwrite", "fallback", "write"}
Unsetting == {"delete", "unset", "unsetwrite"}

\* The two places, and what is in force.
StoreInv ==
    /\ ~reachable => keychain = NoSecret
    /\ file.kind # "object" => file.other = 0
    /\ file.other = writes
    /\ Parsed.secret \in 0..latest
    /\ inforce \subseteq 0..latest
    /\ Winner(Parsed.secret) \in inforce
    /\ over /\ reachable /\ ~refused =>
          keychain = target /\ Parsed.secret = NoSecret

\* The user's command, between its steps.
UserInv ==
    /\ ustep \in Setting \cup Unsetting => ~over /\ target \in inforce
    /\ ustep \in Setting => target # NoSecret
    /\ ustep \in {"set", "drop", "dropwrite"} => ~refused
    /\ ustep \in {"drop", "dropwrite"} => reachable /\ keychain = target
    /\ ustep \in {"fallback", "write"} => ~reachable \/ refused
    /\ ustep \in Unsetting => target = NoSecret /\ Parsed.secret \in inforce
    /\ ustep \in {"unset", "unsetwrite"} =>
          keychain = NoSecret \/ (reachable /\ refused)
    /\ ustep \in {"dropwrite", "unsetwrite"} => read = file /\ file.kind = "object"
    /\ ustep \in {"write", "otherwrite"} => read = Parsed

\* A reader: whatever is in force now was in force since it began, and so was
\* what it would be given now.
ReaderOk(r) ==
    /\ rstep[r] \in {"file", "keychain"} => inforce \subseteq allowed[r]
    /\ rstep[r] = "keychain" =>
          /\ Winner(rfile[r]) \in allowed[r]
          /\ ustep \in Unsetting => rfile[r] \in allowed[r]
    /\ rstep[r] = "done" => got[r] \in allowed[r]

ConfigInv ==
    ConfigTypeOK /\ StoreInv /\ UserInv /\ \A r \in Reader : ReaderOk(r)

-----------------------------------------------------------------------------
LEMMA ConfigInitInv == ConfigInit => ConfigInv
<1> SUFFICES ASSUME ConfigInit PROVE ConfigInv
  OBVIOUS
<1>1. ConfigTypeOK
  <2>1. file \in ConfigFile /\ keychain \in Nat
    BY DEF ConfigInit, ConfigFile, NoSecret, Older, Newer
  <2>2. Winner(Parsed.secret) \in Nat
    BY <2>1 DEF Winner, Parsed, Empty, ConfigFile, NoSecret
  <2>3. inforce \subseteq Nat
    BY <2>2 DEF ConfigInit
  <2>4. read \in ConfigFile
    BY DEF ConfigInit, Empty, ConfigFile, NoSecret
  <2> QED
    BY <2>1, <2>3, <2>4 DEF ConfigInit, ConfigTypeOK, UserSteps, NoSecret, Newer
<1>2. StoreInv
  BY DEF ConfigInit, StoreInv, NoSecret, Older, Newer, Winner, Parsed, Empty
<1>3. UserInv /\ \A r \in Reader : ReaderOk(r)
  BY DEF ConfigInit, UserInv, ReaderOk, Setting, Unsetting
<1> QED
  BY <1>1, <1>2, <1>3 DEF ConfigInv

\* Types of the history variables when a secret may come into force.
LEMMA MayBeType ==
    ASSUME ConfigTypeOK, NEW new \in Nat, MayBe(new)
    PROVE  inforce' \subseteq Nat /\ allowed' \in [Reader -> SUBSET Nat]
BY DEF ConfigTypeOK, MayBe

\* A command that ends leaves in force its secret and what the Keychain has kept.
LEMMA CompletesType ==
    ASSUME ConfigTypeOK, NEW from, Completes(from)
    PROVE  /\ ustep' = "idle" /\ inforce' \subseteq Nat
           /\ over' = TRUE /\ UNCHANGED <<refused, allowed>>
BY DEF ConfigTypeOK, Completes, UserGoes

\* What is made of the file is a dict.
LEMMA ParsedType ==
    ASSUME ConfigTypeOK
    PROVE  Parsed \in ConfigFile /\ Parsed.kind = "object" /\ Parsed.secret \in Nat
BY DEF ConfigTypeOK, Parsed, Empty, ConfigFile, NoSecret

LEMMA SetType ==
    ASSUME ConfigTypeOK,
           \/ BeginSet \/ KeychainSet \/ NothingToDrop \/ DropRead \/ DropWrite
           \/ KeychainRefuses \/ FallbackRead \/ FallbackWrite
    PROVE  ConfigTypeOK'
<1> USE DEF ConfigTypeOK, UserSteps, UserGoes, historyVars, readerVars
<1>1. CASE BeginSet
  <2>1. latest + 1 \in Nat /\ MayBe(latest + 1)
    BY <1>1 DEF BeginSet
  <2>2. inforce' \subseteq Nat /\ allowed' \in [Reader -> SUBSET Nat]
    BY <2>1, MayBeType
  <2> QED
    BY <1>1, <2>1, <2>2 DEF BeginSet, Starts
<1>2. CASE KeychainSet \/ DropRead \/ KeychainRefuses
  BY <1>2 DEF KeychainSet, DropRead, KeychainRefuses
<1>3. CASE NothingToDrop
  BY <1>3, CompletesType DEF NothingToDrop
<1>4. CASE DropWrite
  BY <1>4, CompletesType DEF DropWrite, ConfigFile, NoSecret
<1>5. CASE FallbackRead
  BY <1>5, ParsedType DEF FallbackRead
<1>6. CASE FallbackWrite
  BY <1>6, CompletesType DEF FallbackWrite, ConfigFile
<1> QED
  BY <1>1, <1>2, <1>3, <1>4, <1>5, <1>6

LEMMA OtherType ==
    ASSUME ConfigTypeOK,
           \/ BeginOther \/ OtherRead \/ OtherWrite
           \/ BeginUnset \/ KeychainDelete \/ KeychainKeeps \/ UnsetCrashes
           \/ NothingToUnset \/ UnsetRead \/ UnsetWrite
           \/ KillUser
    PROVE  ConfigTypeOK'
<1> USE DEF ConfigTypeOK, UserSteps, UserGoes, historyVars, readerVars
<1>1. CASE BeginOther \/ UnsetRead \/ UnsetCrashes \/ KillUser
  BY <1>1 DEF BeginOther, UnsetRead, UnsetCrashes, KillUser
<1>2. CASE OtherRead
  BY <1>2, ParsedType DEF OtherRead
<1>3. CASE OtherWrite
  BY <1>3 DEF OtherWrite, ConfigFile
<1>4. CASE BeginUnset
  <2>1. NoSecret \in Nat /\ Parsed.secret \in Nat
    BY ParsedType DEF NoSecret
  <2>2. ASSUME NEW r \in Reader
        PROVE  (IF rstep[r] \in {"file", "keychain"}
                THEN allowed[r] \cup {NoSecret, Parsed.secret, rfile[r]}
                ELSE allowed[r]) \in SUBSET Nat
    BY <2>1
  <2>3. allowed' \in [Reader -> SUBSET Nat]
    BY <1>4, <2>2 DEF BeginUnset
  <2> QED
    <3>1. inforce' \subseteq Nat
      BY <1>4, <2>1 DEF BeginUnset
    <3> QED
      BY <1>4, <2>1, <2>3, <3>1 DEF BeginUnset, Starts
<1>5. CASE KeychainDelete
  BY <1>5 DEF KeychainDelete, NoSecret
<1>6. CASE KeychainKeeps
  BY <1>6 DEF KeychainKeeps
<1>7. CASE NothingToUnset
  BY <1>7, CompletesType DEF NothingToUnset
<1>8. CASE UnsetWrite
  BY <1>8, CompletesType DEF UnsetWrite, ConfigFile, NoSecret
<1> QED
  BY <1>1, <1>2, <1>3, <1>4, <1>5, <1>6, <1>7, <1>8

LEMMA ReaderType ==
    ASSUME ConfigTypeOK, NEW r \in Reader,
           BeginLoad(r) \/ LoadFile(r) \/ LoadKeychain(r) \/ LoadUnanswered(r) \/ Forget(r)
    PROVE  ConfigTypeOK'
<1> USE DEF ConfigTypeOK, userVars, historyVars
<1>1. CASE BeginLoad(r)
  BY <1>1 DEF BeginLoad
<1>2. CASE LoadFile(r)
  BY <1>2, ParsedType DEF LoadFile
<1>3. CASE LoadKeychain(r) \/ LoadUnanswered(r)
  BY <1>3 DEF LoadKeychain, LoadUnanswered, Secret, Winner
<1>4. CASE Forget(r)
  BY <1>4 DEF Forget, NoSecret
<1> QED
  BY <1>1, <1>2, <1>3, <1>4

\* Every variable keeps its type.
LEMMA ConfigStepType ==
    ASSUME ConfigTypeOK, [ConfigNext]_configVars
    PROVE  ConfigTypeOK'
<1>1. CASE UNCHANGED configVars
  BY <1>1 DEF configVars, userVars, historyVars, readerVars, ConfigTypeOK
<1> QED
  BY <1>1, SetType, OtherType, ReaderType DEF ConfigNext, UserStep

-----------------------------------------------------------------------------
(* One lemma per command *)

\* A step of the user that leaves the readers' variables but `allowed` alone.
ReadersWait == UNCHANGED <<rstep, rfile, got>>

\* What the readers need of it: what they would be given, and what is in force,
\* stays within what they may be given.
LEMMA ReadersFrame ==
    ASSUME ReadersWait, NEW r \in Reader, ReaderOk(r),
           allowed[r] \subseteq allowed'[r],
           rstep[r] \in {"file", "keychain"} => inforce' \subseteq allowed'[r],
           rstep[r] = "keychain" =>
              \/ Winner(rfile[r])' = Winner(rfile[r])
              \/ Winner(rfile[r])' \in inforce'
              \/ Winner(rfile[r])' = rfile[r] /\ ustep \in Unsetting,
           rstep[r] = "keychain" /\ ustep' \in Unsetting =>
              ustep \in Unsetting \/ rfile[r] \in allowed'[r]
    PROVE  ReaderOk(r)'
BY DEF ReaderOk, ReadersWait

\* ... when only the user's step changes.
LEMMA ReadersIdle ==
    ASSUME ReadersWait, \A r \in Reader : ReaderOk(r),
           UNCHANGED <<reachable, keychain, inforce, allowed>>,
           ustep' \in Unsetting => ustep \in Unsetting
    PROVE  \A r \in Reader : ReaderOk(r)'
BY DEF ReaderOk, ReadersWait, Winner

\* ... when a command completes.
LEMMA ReadersComplete ==
    ASSUME ReadersWait, \A r \in Reader : ReaderOk(r),
           UNCHANGED <<reachable, keychain, allowed>>,
           inforce' \subseteq inforce, ustep' = "idle"
    PROVE  \A r \in Reader : ReaderOk(r)'
BY DEF ReaderOk, ReadersWait, Winner, Unsetting

\* A command that completes: what is in force then was so before, and has what would
\* be loaded in it.
LEMMA CompletesInv ==
    ASSUME ConfigInv, NEW from, Completes(from), ReadersWait,
           UNCHANGED <<keychain, reachable, target, latest, writes>>,
           target \in inforce, Parsed'.secret \in {target, NoSecret},
           file'.kind # "object" => file'.other = 0, file'.other = writes,
           reachable /\ ~refused => keychain = target /\ Parsed'.secret = NoSecret,
           (reachable /\ keychain # NoSecret) \/ Parsed'.secret = target
    PROVE  StoreInv' /\ UserInv' /\ \A r \in Reader : ReaderOk(r)'
<1>1. ConfigTypeOK /\ StoreInv /\ UserInv /\ \A r \in Reader : ReaderOk(r)
  BY DEF ConfigInv
<1>2. /\ inforce' = {target} \cup (IF refused /\ reachable THEN {keychain} \ {NoSecret} ELSE {})
      /\ ustep' = "idle" /\ UNCHANGED <<refused, allowed>>
  BY DEF Completes, UserGoes
<1>3. reachable /\ keychain # NoSecret => keychain \in inforce
  BY <1>1 DEF StoreInv, Winner
<1>4. inforce' \subseteq inforce
  BY <1>2, <1>3
<1>5. Winner(Parsed.secret)' \in inforce'
  <2>1. CASE reachable /\ keychain # NoSecret
    BY <1>2, <2>1 DEF Winner
  <2>2. CASE ~(reachable /\ keychain # NoSecret)
    BY <1>2, <2>2 DEF Winner
  <2> QED
    BY <2>1, <2>2
<1>6. Parsed'.secret \in 0..latest
  BY <1>1 DEF StoreInv, ConfigTypeOK, NoSecret
<1>7. StoreInv'
  BY <1>1, <1>2, <1>4, <1>5, <1>6 DEF StoreInv
<1>8. UserInv'
  BY <1>2 DEF UserInv, Setting, Unsetting
<1> QED
  BY <1>1, <1>2, <1>4, <1>7, <1>8, ReadersComplete

LEMMA SetInv ==
    ASSUME ConfigInv, ConfigTypeOK',
           \/ BeginSet \/ KeychainSet \/ NothingToDrop \/ DropRead \/ DropWrite
           \/ KeychainRefuses \/ FallbackRead \/ FallbackWrite
    PROVE  ConfigInv'
<1>1. ConfigTypeOK /\ StoreInv /\ UserInv /\ \A r \in Reader : ReaderOk(r)
  BY DEF ConfigInv
<1> USE DEF UserGoes, Setting, Unsetting
<1>2. CASE BeginSet
  <2>1. latest \in Nat /\ inforce \subseteq 0..latest
    BY <1>1 DEF ConfigTypeOK, StoreInv
  <2>2. /\ inforce' = inforce \cup {latest + 1} /\ inforce' \subseteq 0..latest'
        /\ target' = latest + 1 /\ latest + 1 # NoSecret
    <3>1. /\ inforce' = inforce \cup {latest + 1}
          /\ latest' = latest + 1 /\ target' = latest + 1
      BY <1>2 DEF BeginSet, MayBe
    <3> QED
      BY <2>1, <3>1 DEF NoSecret
  <2>3. StoreInv'
    <3>1. /\ UNCHANGED <<file, Parsed, keychain, reachable, writes>>
          /\ latest' = latest + 1 /\ Parsed.secret \in 0..latest /\ ~over'
      BY <1>1, <1>2 DEF BeginSet, Starts, StoreInv, Parsed
    <3>2. Parsed.secret \in 0..latest'
      BY <2>1, <3>1
    <3> QED
      BY <1>1, <2>2, <3>1, <3>2 DEF StoreInv, Winner
  <2>4. UserInv'
    BY <1>2, <2>2 DEF BeginSet, Starts, UserInv
  <2>5. ASSUME NEW r \in Reader PROVE ReaderOk(r)'
    <3>1. ReaderOk(r) /\ allowed \in [Reader -> SUBSET Nat]
      BY <1>1 DEF ConfigTypeOK
    <3>2. allowed'[r] = IF rstep[r] \in {"file", "keychain"}
                        THEN allowed[r] \cup {latest + 1} ELSE allowed[r]
      BY <1>2, <3>1 DEF BeginSet, MayBe
    <3> QED
      BY <1>2, <2>2, <3>1, <3>2, ReadersFrame
      DEF BeginSet, Starts, ReadersWait, ReaderOk, Winner
  <2> QED
    BY <2>3, <2>4, <2>5 DEF ConfigInv
<1>3. CASE KeychainSet
  <2> USE DEF historyVars
  <2>1. StoreInv'
    BY <1>1, <1>3 DEF KeychainSet, StoreInv, UserInv, Winner, Parsed
  <2>2. UserInv'
    BY <1>1, <1>3 DEF KeychainSet, UserInv
  <2>3. \A v : Winner(v)' = target
    BY <1>1, <1>3 DEF KeychainSet, Winner, UserInv
  <2>4. \A r \in Reader : ReaderOk(r)'
    BY <1>1, <1>3, <2>3 DEF KeychainSet, ReaderOk, readerVars, UserInv
  <2> QED
    BY <2>1, <2>2, <2>4 DEF ConfigInv
<1>4. CASE DropRead \/ KeychainRefuses \/ FallbackRead
  <2>1. UNCHANGED <<file, keychain, reachable, target, latest, writes, over, inforce,
                    readerVars>>
    BY <1>4 DEF DropRead, KeychainRefuses, FallbackRead, historyVars
  <2>2. ustep \in Setting /\ ustep' \in Setting
    BY <1>4 DEF DropRead, KeychainRefuses, FallbackRead
  <2>3. StoreInv'
    BY <1>1, <2>1, <2>2 DEF StoreInv, Winner, Parsed, UserInv
  <2>4. UserInv'
    BY <1>1, <1>4, <2>1
    DEF DropRead, KeychainRefuses, FallbackRead, UserInv, Parsed, historyVars
  <2> QED
    BY <1>1, <2>1, <2>2, <2>3, <2>4, ReadersIdle DEF ConfigInv, readerVars, ReadersWait
<1>5. CASE NothingToDrop
  <2>1. Completes("drop") /\ ReadersWait
        /\ UNCHANGED <<file, keychain, reachable, target, latest, writes>>
    BY <1>5 DEF NothingToDrop, ReadersWait
  <2>2. Parsed'.secret = NoSecret
    BY <1>5 DEF NothingToDrop, Parsed, Empty
  <2>3. target \in inforce /\ target # NoSecret /\ reachable /\ keychain = target
    BY <1>1, <2>1 DEF UserInv, Completes
  <2> QED
    BY <1>1, <2>1, <2>2, <2>3, CompletesInv DEF ConfigInv, StoreInv
<1>6. CASE DropWrite
  <2>1. Completes("dropwrite") /\ ReadersWait
        /\ UNCHANGED <<keychain, reachable, target, latest, writes>>
    BY <1>6 DEF DropWrite, ReadersWait
  <2>2. target \in inforce /\ target # NoSecret /\ reachable /\ keychain = target
    BY <1>1, <2>1 DEF UserInv, Completes
  <2>3. /\ file'.kind = "object" /\ file'.other = writes /\ file'.secret = NoSecret
    BY <1>1, <1>6, <2>1 DEF DropWrite, Completes, UserInv, StoreInv, ConfigTypeOK, ConfigFile
  <2>4. Parsed'.secret = NoSecret
    BY <2>3 DEF Parsed
  <2> QED
    BY <2>1, <2>2, <2>3, <2>4, CompletesInv DEF ConfigInv
<1>7. CASE FallbackWrite
  <2>1. Completes("write") /\ ReadersWait
        /\ UNCHANGED <<keychain, reachable, target, latest, writes>>
    BY <1>7 DEF FallbackWrite, ReadersWait
  <2>2. target \in inforce /\ (~reachable \/ refused) /\ read = Parsed
    BY <1>1, <2>1 DEF UserInv, Completes
  <2>3. Parsed.other = writes
    BY <1>1 DEF StoreInv, Parsed, Empty
  <2>4. file'.kind = "object" /\ file'.other = writes /\ file'.secret = target
    BY <1>1, <1>7, <2>2, <2>3, ParsedType DEF FallbackWrite, ConfigFile
  <2>5. Parsed'.secret = target
    BY <2>4 DEF Parsed
  <2> QED
    BY <2>1, <2>2, <2>4, <2>5, CompletesInv DEF ConfigInv
<1> QED
  BY <1>2, <1>3, <1>4, <1>5, <1>6, <1>7

LEMMA OtherInv ==
    ASSUME ConfigInv, ConfigTypeOK',
           BeginOther \/ OtherRead \/ OtherWrite \/ UnsetCrashes \/ KillUser
    PROVE  ConfigInv'
<1>1. ConfigTypeOK /\ StoreInv /\ UserInv /\ \A r \in Reader : ReaderOk(r)
  BY DEF ConfigInv
<1>2. /\ UNCHANGED <<keychain, reachable, target, latest, historyVars, allowed>>
      /\ ReadersWait /\ ustep' \in {"idle", "other", "otherwrite"}
  BY DEF BeginOther, OtherRead, OtherWrite, UnsetCrashes, KillUser, UserGoes, readerVars,
     ReadersWait
<1>3. /\ Parsed'.secret = Parsed.secret /\ file'.other = writes'
      /\ file'.kind # "object" => file'.other = 0
  <2>1. CASE OtherWrite
    <3>1. read = Parsed
      BY <1>1, <2>1 DEF OtherWrite, UserGoes, UserInv
    <3>2. /\ file'.kind = "object" /\ file'.secret = Parsed.secret
          /\ file'.other = writes + 1 /\ writes' = writes + 1
      BY <1>1, <2>1, <3>1, ParsedType DEF OtherWrite, ConfigFile
    <3> QED
      BY <3>2 DEF Parsed
  <2>2. CASE BeginOther \/ OtherRead \/ UnsetCrashes \/ KillUser
    BY <1>1, <2>2 DEF BeginOther, OtherRead, UnsetCrashes, KillUser, StoreInv, Parsed
  <2> QED
    BY <2>1, <2>2
<1>4. StoreInv'
  BY <1>1, <1>2, <1>3 DEF StoreInv, Winner, historyVars
<1>5. UserInv'
  BY <1>1, <1>2 DEF BeginOther, OtherRead, OtherWrite, UnsetCrashes, KillUser, UserGoes,
     UserInv, Parsed, Setting, Unsetting
<1> QED
  BY <1>1, <1>2, <1>4, <1>5, ReadersIdle DEF ConfigInv, Unsetting, historyVars

LEMMA UnsetInv ==
    ASSUME ConfigInv, ConfigTypeOK',
           \/ BeginUnset \/ KeychainDelete \/ KeychainKeeps
           \/ NothingToUnset \/ UnsetRead \/ UnsetWrite
    PROVE  ConfigInv'
<1>1. ConfigTypeOK /\ StoreInv /\ UserInv /\ \A r \in Reader : ReaderOk(r)
  BY DEF ConfigInv
<1> USE DEF UserGoes, Setting, Unsetting
<1>2. CASE BeginUnset
  <2>1. /\ UNCHANGED <<file, Parsed, keychain, reachable, latest, writes>> /\ ReadersWait
        /\ inforce' = inforce \cup {NoSecret, Parsed.secret} /\ target' = NoSecret
        /\ ustep' = "delete" /\ ~over'
    BY <1>2 DEF BeginUnset, Starts, ReadersWait, Parsed
  <2>2. StoreInv'
    BY <1>1, <2>1 DEF StoreInv, Winner, ConfigTypeOK, NoSecret
  <2>3. UserInv'
    BY <2>1 DEF UserInv
  <2>4. ASSUME NEW r \in Reader PROVE ReaderOk(r)'
    <3>1. ReaderOk(r) /\ Winner(rfile[r])' = Winner(rfile[r])
      BY <1>1, <2>1 DEF Winner, ReadersWait
    <3>2. allowed'[r] = IF rstep[r] \in {"file", "keychain"}
                        THEN allowed[r] \cup {NoSecret, Parsed.secret, rfile[r]}
                        ELSE allowed[r]
      BY <1>2 DEF BeginUnset
    <3>3. rstep[r] \in {"file", "keychain"} => inforce' \subseteq allowed'[r]
      BY <2>1, <3>1, <3>2 DEF ReaderOk
    <3> QED
      BY <2>1, <3>1, <3>2, <3>3, ReadersFrame
  <2> QED
    BY <2>2, <2>3, <2>4 DEF ConfigInv
<1>3. CASE KeychainDelete
  <2> USE DEF historyVars
  <2>1. keychain' = NoSecret /\ \A v : Winner(v)' = v
    BY <1>1, <1>3 DEF KeychainDelete, StoreInv, Winner
  <2>2. StoreInv'
    BY <1>1, <1>3, <2>1 DEF KeychainDelete, StoreInv, UserInv, Winner, Parsed
  <2>3. UserInv'
    BY <1>1, <1>3, <2>1 DEF KeychainDelete, UserInv, Parsed
  <2>4. \A r \in Reader : ReaderOk(r)'
    BY <1>1, <1>3, <2>1 DEF KeychainDelete, ReaderOk, readerVars
  <2> QED
    BY <2>2, <2>3, <2>4 DEF ConfigInv
<1>4. CASE UnsetRead \/ KeychainKeeps
  <2>1. /\ UNCHANGED <<file, keychain, reachable, target, latest, writes, over, inforce,
                       readerVars>>
        /\ ustep \in Unsetting /\ ustep' \in Unsetting
    BY <1>4 DEF UnsetRead, KeychainKeeps, historyVars
  <2>2. StoreInv'
    BY <1>1, <2>1 DEF StoreInv, Winner, Parsed, UserInv
  <2>3. UserInv'
    BY <1>1, <1>4, <2>1 DEF UnsetRead, KeychainKeeps, UserInv, Parsed, historyVars
  <2> QED
    BY <1>1, <2>1, <2>2, <2>3, ReadersIdle DEF ConfigInv, readerVars, ReadersWait
<1>5. CASE NothingToUnset \/ UnsetWrite
  <2>1. PICK from \in {"unset", "unsetwrite"} : Completes(from)
    BY <1>5 DEF NothingToUnset, UnsetWrite
  <2>2. UNCHANGED <<keychain, reachable, target, latest, writes>> /\ ReadersWait
    BY <1>5 DEF NothingToUnset, UnsetWrite, ReadersWait
  <2>3. /\ target \in inforce /\ target = NoSecret
        /\ keychain = NoSecret \/ (reachable /\ refused)
    BY <1>1, <2>1 DEF UserInv, Completes
  <2>4. /\ file'.kind # "object" => file'.other = 0
        /\ file'.other = writes /\ Parsed'.secret = NoSecret
    <3>1. CASE NothingToUnset
      BY <1>1, <3>1 DEF NothingToUnset, StoreInv, Parsed, Empty
    <3>2. CASE UnsetWrite
      <4>1. file'.kind = "object" /\ file'.other = writes /\ file'.secret = NoSecret
        BY <1>1, <3>2 DEF UnsetWrite, Completes, StoreInv, UserInv, ConfigTypeOK, ConfigFile
      <4> QED
        BY <4>1 DEF Parsed
    <3> QED
      BY <1>5, <3>1, <3>2
  <2> QED
    BY <2>1, <2>2, <2>3, <2>4, CompletesInv DEF ConfigInv
<1> QED
  BY <1>2, <1>3, <1>4, <1>5

LEMMA ReaderInv ==
    ASSUME ConfigInv, ConfigTypeOK', NEW r \in Reader,
           BeginLoad(r) \/ LoadFile(r) \/ LoadKeychain(r) \/ LoadUnanswered(r) \/ Forget(r)
    PROVE  ConfigInv'
<1>1. ConfigTypeOK /\ StoreInv /\ UserInv /\ \A q \in Reader : ReaderOk(q)
  BY DEF ConfigInv
<1>2. UNCHANGED <<file, keychain, reachable, userVars, historyVars>>
  BY DEF BeginLoad, LoadFile, LoadKeychain, LoadUnanswered, Forget
<1>3. StoreInv' /\ UserInv'
  BY <1>1, <1>2 DEF StoreInv, UserInv, Winner, Parsed, userVars, historyVars
<1>4. ASSUME NEW q \in Reader, q # r PROVE ReaderOk(q)'
  BY <1>1, <1>2, <1>4 DEF ConfigTypeOK, BeginLoad, LoadFile, LoadKeychain, LoadUnanswered,
     Forget, ReaderOk, Winner, userVars, historyVars
<1>5. ReaderOk(r)'
  <2>1. CASE BeginLoad(r)
    BY <1>1, <2>1 DEF ConfigTypeOK, BeginLoad, ReaderOk, historyVars
  <2>2. CASE LoadFile(r)
    <3>1. rstep[r] = "file" /\ rstep'[r] = "keychain" /\ rfile'[r] = Parsed.secret
          /\ allowed' = allowed
      BY <1>1, <2>2 DEF ConfigTypeOK, LoadFile
    <3>2. inforce \subseteq allowed[r]
      BY <1>1, <3>1 DEF ReaderOk
    <3> QED
      BY <1>1, <1>2, <3>1, <3>2
      DEF StoreInv, UserInv, ReaderOk, Winner, userVars, historyVars
  <2>3. CASE LoadKeychain(r)
    BY <1>1, <2>3 DEF ConfigTypeOK, LoadKeychain, Secret, ReaderOk
  <2>4. CASE LoadUnanswered(r) \/ Forget(r)
    BY <1>1, <2>4 DEF ConfigTypeOK, LoadUnanswered, Forget, ReaderOk
  <2> QED
    BY <2>1, <2>2, <2>3, <2>4
<1> QED
  BY <1>3, <1>4, <1>5 DEF ConfigInv

LEMMA ConfigStepInv == ConfigInv /\ [ConfigNext]_configVars => ConfigInv'
<1> SUFFICES ASSUME ConfigInv, [ConfigNext]_configVars PROVE ConfigInv'
  OBVIOUS
<1>1. ConfigTypeOK'
  BY ConfigStepType DEF ConfigInv
<1>2. CASE UNCHANGED configVars
  BY <1>1, <1>2 DEF configVars, userVars, historyVars, readerVars, ConfigInv, StoreInv,
     UserInv, ReaderOk, Winner, Parsed
<1> QED
  BY <1>1, <1>2, SetInv, OtherInv, UnsetInv, ReaderInv DEF ConfigNext, UserStep

-----------------------------------------------------------------------------
(* The theorems *)

\* Every variable keeps its type.
THEOREM ConfigTypeCorrect == ConfigSpec => []ConfigTypeOK
<1>1. ConfigInv => ConfigTypeOK
  BY DEF ConfigInv
<1> QED
  BY <1>1, ConfigInitInv, ConfigStepInv, PTL DEF ConfigSpec

\* Whatever is loaded with the Keychain's answer, at any moment of a rotation and
\* although single calls of `security` may fail, is a secret that was in force while
\* it was loaded.
THEOREM LoadsWhatIsInForce == ConfigSpec => []ReadsAreCurrent
<1>1. ConfigInv => ReadsAreCurrent
  BY DEF ConfigInv, ReaderOk, ReadsAreCurrent
<1> QED
  BY <1>1, ConfigInitInv, ConfigStepInv, PTL DEF ConfigSpec

\* After a completed command that a Keychain took, or removed, the secret with, a
\* config.json that can be read has no copy.
THEOREM RotationLeavesNothing == ConfigSpec => []NoLeftover
<1>1. ConfigInv => NoLeftover
  BY DEF ConfigInv, StoreInv, NoLeftover
<1> QED
  BY <1>1, ConfigInitInv, ConfigStepInv, PTL DEF ConfigSpec

\* The other keys survive whatever is done to the secret.
THEOREM OtherKeysSurvive == ConfigSpec => []OthersKept
<1>1. ConfigInv => OthersKept
  BY DEF ConfigInv, StoreInv, OthersKept
<1> QED
  BY <1>1, ConfigInitInv, ConfigStepInv, PTL DEF ConfigSpec
=============================================================================
