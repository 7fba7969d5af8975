----------------------------- MODULE ConfigStore -----------------------------
(***************************************************************************)
(* Where da-cli keeps the client secret: config.json and the macOS         *)
(* Keychain (src/dacli/config.py: _keychain_get, _keychain_set,            *)
(* load_config, _drop_from_config_file, set_config_field; `da config set`  *)
(* and `da config unset` in commands/config.py).  The user runs one        *)
(* command at a time, it may be killed between any two of its steps, and   *)
(* scheduled commands load the configuration at any moment.                *)
(*                                                                         *)
(* Abstractions.  A secret is a number, 0 is "none"; each `config set` of  *)
(* the secret brings the next one.  All other keys are one number.         *)
(* _atomic_write replaces the file in one step.  The environment, which    *)
(* wins over both places, the check of numeric keys, masking and printing  *)
(* are left out.                                                           *)
(*                                                                         *)
(* ConfigFaults names what may go wrong:                                   *)
(*   "killed"   a command is killed, wherever it is; a file that cannot be *)
(*              written ends it as abruptly                                *)
(*   "refuses"  one call of `security` fails where others succeed, because *)
(*              the Keychain is locked or its prompt is denied             *)
(***************************************************************************)
EXTENDS Integers

CONSTANTS Reader,       \* commands that load the configuration
          ConfigFaults, \* see above
          MaxSecrets,   \* bound: secrets that are ever set
          MaxOthers     \* bound: times another key is set

ASSUME ConfigFaultsAssumption == ConfigFaults \subseteq {"killed", "refuses"}
ASSUME ConfigBoundsAssumption == MaxSecrets \in Nat /\ MaxOthers \in Nat

NoSecret == 0

\* What may be there at the start: two secrets, the second one newer.
Older == 1
Newer == 2

\* A "broken" file does not parse, JSON of an "odd" one is no object; either may have
\* the text of a secret in it.
ConfigFile == [kind : {"missing", "object", "broken", "odd"}, secret : Nat, other : Nat]
Empty == [kind |-> "object", secret |-> NoSecret, other |-> 0]

VARIABLES
    file,      \* config.json
    keychain,  \* the Keychain's secret
    reachable, \* whether there is a Keychain; not, except on macOS
    ustep,     \* where the user's command is
    target,    \* the value it wants to be in force
    read,      \* the dict it has read
    latest,    \* number of the newest secret
    writes,    \* times another key was set
    refused,   \* whether its call of `security` has failed
    over,      \* whether the last command for the secret has completed (history)
    inforce,   \* secrets that may be in force, from the commands' outcomes (history)
    rstep,     \* where each reader is
    rfile,     \* the secret it found in the file
    got,       \* the secret it goes on with
    allowed    \* the secrets that were in force since it began (history)

userVars == <<ustep, target, read, latest, writes>>
historyVars == <<refused, over, inforce>>
readerVars == <<rstep, rfile, got, allowed>>
configVars == <<file, keychain, reachable, userVars, historyVars, readerVars>>

UserSteps == {"idle", "set", "drop", "dropwrite", "fallback", "write",
          "delete", "unset", "unsetwrite", "other", "otherwrite"}

ConfigTypeOK ==
    /\ file \in ConfigFile
    /\ keychain \in Nat
    /\ reachable \in BOOLEAN
    /\ ustep \in UserSteps
    /\ target \in Nat
    /\ read \in ConfigFile
    /\ latest \in Nat
    /\ writes \in Nat
    /\ refused \in BOOLEAN /\ over \in BOOLEAN
    /\ inforce \subseteq Nat
    /\ rstep \in [Reader -> {"idle", "file", "keychain", "done", "unanswered"}]
    /\ rfile \in [Reader -> Nat]
    /\ got \in [Reader -> Nat]
    /\ allowed \in [Reader -> SUBSET Nat]

\* What a read of both places returns: the Keychain wins.
Winner(fileSecret) ==
    IF reachable /\ keychain # NoSecret THEN keychain ELSE fileSecret

\* What a command makes of the file: one that is no JSON object is an empty one.
Parsed == IF file.kind = "object" THEN file ELSE Empty

\* Nothing, a secret in one place, or an older one that a version of the program
\* that did not drop it, or an editor, has left in the file.
ConfigInit ==
    /\ \/ file = [kind |-> "missing", secret |-> NoSecret, other |-> 0]
       \/ \E kind \in {"object", "broken", "odd"}, secret \in {NoSecret, Older} :
             file = [kind |-> kind, secret |-> secret, other |-> 0]
    /\ reachable \in BOOLEAN
    /\ keychain \in IF reachable THEN {NoSecret, Newer} ELSE {NoSecret}
    /\ ustep = "idle"
    /\ target = NoSecret
    /\ read = Empty
    /\ latest = Newer
    /\ writes = 0
    /\ refused = FALSE /\ over = FALSE
    /\ inforce = {Winner(Parsed.secret)}
    /\ rstep = [r \in Reader |-> "idle"]
    /\ rfile = [r \in Reader |-> NoSecret]
    /\ got = [r \in Reader |-> NoSecret]
    /\ allowed = [r \in Reader |-> {}]

-----------------------------------------------------------------------------
(* Helpers *)

\* From now on this secret may be in force.
MayBe(new) ==
    /\ inforce' = inforce \cup {new}
    /\ allowed' = [r \in Reader |-> IF rstep[r] \in {"file", "keychain"}
                                    THEN allowed[r] \cup {new} ELSE allowed[r]]

UserGoes(from, to) == ustep = from /\ ustep' = to

\* A command for the secret begins.
Starts(to) ==
    /\ UserGoes("idle", to)
    /\ refused' = FALSE
    /\ over' = FALSE

\* It is over: its secret is the one in force, but for what a Keychain that has
\* refused the command still holds and goes on answering.
Completes(from) ==
    /\ UserGoes(from, "idle")
    /\ over' = TRUE
    /\ inforce' = {target} \cup (IF refused /\ reachable THEN {keychain} \ {NoSecret} ELSE {})
    /\ UNCHANGED <<refused, allowed>>

-----------------------------------------------------------------------------
(* da config set client_secret *)

BeginSet ==
    /\ latest - Newer < MaxSecrets
    /\ Starts("set")
    /\ latest' = latest + 1
    /\ target' = latest + 1
    /\ MayBe(latest + 1)
    /\ UNCHANGED <<file, keychain, reachable, read, writes, rstep, rfile, got>>

\* Seeded fault for KeychainSet: the copy in the file is left where it is.
KeychainSetOnly ==
    /\ reachable
    /\ keychain' = target
    /\ Completes("set")
    /\ UNCHANGED <<file, reachable, target, read, latest, writes, rstep, rfile, got>>

KeychainSet ==
    /\ reachable
    /\ UserGoes("set", "drop")
    /\ keychain' = target
    /\ UNCHANGED <<file, reachable, target, read, latest, writes, historyVars, readerVars>>

\* _drop_from_config_file: no file, an unreadable one, or no copy in it.
NothingToDrop ==
    /\ file.kind # "object" \/ file.secret = NoSecret
    /\ Completes("drop")
    /\ UNCHANGED <<file, keychain, reachable, target, read, latest, writes, rstep, rfile, got>>

DropRead ==
    /\ file.kind = "object" /\ file.secret # NoSecret
    /\ UserGoes("drop", "dropwrite")
    /\ read' = file
    /\ UNCHANGED <<file, keychain, reachable, target, latest, writes, historyVars, readerVars>>

DropWrite ==
    /\ Completes("dropwrite")
    /\ file' = [read EXCEPT !.secret = NoSecret]
    /\ UNCHANGED <<keychain, reachable, target, read, latest, writes, rstep, rfile, got>>

\* There is no Keychain, or it does not take it: the file.
KeychainRefuses ==
    /\ ~reachable \/ "refuses" \in ConfigFaults
    /\ UserGoes("set", "fallback")
    /\ refused' = TRUE
    /\ UNCHANGED <<file, keychain, reachable, target, read, latest, writes, over, inforce,
                   readerVars>>

\* Seeded fault for FallbackRead: the file is not read before it is replaced.
FallbackFresh ==
    /\ UserGoes("fallback", "write")
    /\ read' = Empty
    /\ UNCHANGED <<file, keychain, reachable, target, latest, writes, historyVars, readerVars>>

FallbackRead ==
    /\ UserGoes("fallback", "write")
    /\ read' = Parsed
    /\ UNCHANGED <<file, keychain, reachable, target, latest, writes, historyVars, readerVars>>

FallbackWrite ==
    /\ Completes("write")
    /\ file' = [read EXCEPT !.secret = target]
    /\ UNCHANGED <<keychain, reachable, target, read, latest, writes, rstep, rfile, got>>

-----------------------------------------------------------------------------
(* da config set of any other key *)

BeginOther ==
    /\ writes < MaxOthers
    /\ UserGoes("idle", "other")
    /\ UNCHANGED <<file, keychain, reachable, target, read, latest, writes, historyVars,
                   readerVars>>

OtherRead ==
    /\ UserGoes("other", "otherwrite")
    /\ read' = Parsed
    /\ UNCHANGED <<file, keychain, reachable, target, latest, writes, historyVars, readerVars>>

OtherWrite ==
    /\ UserGoes("otherwrite", "idle")
    /\ file' = [read EXCEPT !.other = writes + 1]
    /\ writes' = writes + 1
    /\ UNCHANGED <<keychain, reachable, target, read, latest, historyVars, readerVars>>

-----------------------------------------------------------------------------
(* da config unset client_secret *)

\* The Keychain's copy goes first: until the file's is gone too, that one is in
\* force, and a reader may go on with a copy that it saw in there before.
BeginUnset ==
    /\ Starts("delete")
    /\ target' = NoSecret
    /\ inforce' = inforce \cup {NoSecret, Parsed.secret}
    /\ allowed' = [r \in Reader |->
                     IF rstep[r] \in {"file", "keychain"}
                     THEN allowed[r] \cup {NoSecret, Parsed.secret, rfile[r]} ELSE allowed[r]]
    /\ UNCHANGED <<file, keychain, reachable, read, latest, writes, rstep, rfile, got>>

KeychainDelete ==
    /\ UserGoes("delete", "unset")
    /\ keychain' = NoSecret
    /\ UNCHANGED <<file, reachable, target, read, latest, writes, historyVars, readerVars>>

\* Its exit status is looked at for the message only.
KeychainKeeps ==
    /\ "refuses" \in ConfigFaults /\ reachable
    /\ UserGoes("delete", "unset")
    /\ refused' = TRUE
    /\ UNCHANGED <<file, keychain, reachable, target, read, latest, writes, over, inforce,
                   readerVars>>

\* TypeError: 42 has no members, and a list no key to delete.
UnsetCrashes ==
    /\ file.kind = "odd"
    /\ UserGoes("unset", "idle")
    /\ UNCHANGED <<file, keychain, reachable, target, read, latest, writes, historyVars,
                   readerVars>>

NothingToUnset ==
    /\ file.kind # "object" \/ file.secret = NoSecret
    /\ Completes("unset")
    /\ UNCHANGED <<file, keychain, reachable, target, read, latest, writes, rstep, rfile, got>>

UnsetRead ==
    /\ file.kind = "object" /\ file.secret # NoSecret
    /\ UserGoes("unset", "unsetwrite")
    /\ read' = file
    /\ UNCHANGED <<file, keychain, reachable, target, latest, writes, historyVars, readerVars>>

UnsetWrite ==
    /\ Completes("unsetwrite")
    /\ file' = [read EXCEPT !.secret = NoSecret]
    /\ UNCHANGED <<keychain, reachable, target, read, latest, writes, rstep, rfile, got>>

-----------------------------------------------------------------------------
(* load_config, in any other process *)

BeginLoad(r) ==
    /\ rstep[r] = "idle"
    /\ rstep' = [rstep EXCEPT ![r] = "file"]
    /\ allowed' = [allowed EXCEPT ![r] = inforce]
    /\ UNCHANGED <<file, keychain, reachable, userVars, historyVars, rfile, got>>

LoadFile(r) ==
    /\ rstep[r] = "file"
    /\ rstep' = [rstep EXCEPT ![r] = "keychain"]
    /\ rfile' = [rfile EXCEPT ![r] = Parsed.secret]
    /\ UNCHANGED <<file, keychain, reachable, userVars, historyVars, got, allowed>>

\* Seeded fault for Secret: a value in the file makes the Keychain superfluous.
SecretFileFirst(r) == IF rfile[r] # NoSecret THEN rfile[r] ELSE Winner(NoSecret)

Secret(r) == Winner(rfile[r])

LoadKeychain(r) ==
    /\ rstep[r] = "keychain"
    /\ rstep' = [rstep EXCEPT ![r] = "done"]
    /\ got' = [got EXCEPT ![r] = Secret(r)]
    /\ UNCHANGED <<file, keychain, reachable, userVars, historyVars, rfile, allowed>>

\* None from a Keychain that does not open: what the file has, if anything.
LoadUnanswered(r) ==
    /\ "refuses" \in ConfigFaults /\ reachable
    /\ rstep[r] = "keychain"
    /\ rstep' = [rstep EXCEPT ![r] = "unanswered"]
    /\ got' = [got EXCEPT ![r] = rfile[r]]
    /\ UNCHANGED <<file, keychain, reachable, userVars, historyVars, rfile, allowed>>

\* The command is over, and with it what it knew.
Forget(r) ==
    /\ rstep[r] \in {"done", "unanswered"}
    /\ rstep' = [rstep EXCEPT ![r] = "idle"]
    /\ rfile' = [rfile EXCEPT ![r] = NoSecret]
    /\ got' = [got EXCEPT ![r] = NoSecret]
    /\ allowed' = [allowed EXCEPT ![r] = {}]
    /\ UNCHANGED <<file, keychain, reachable, userVars, historyVars>>

-----------------------------------------------------------------------------
(* The environment *)

KillUser ==
    /\ "killed" \in ConfigFaults
    /\ ustep # "idle"
    /\ ustep' = "idle"
    /\ UNCHANGED <<file, keychain, reachable, target, read, latest, writes, historyVars,
                   readerVars>>

UserStep ==
    \/ BeginSet \/ KeychainSet \/ NothingToDrop \/ DropRead \/ DropWrite
    \/ KeychainRefuses \/ FallbackRead \/ FallbackWrite
    \/ BeginOther \/ OtherRead \/ OtherWrite
    \/ BeginUnset \/ KeychainDelete \/ KeychainKeeps
    \/ UnsetCrashes \/ NothingToUnset \/ UnsetRead \/ UnsetWrite

ConfigNext ==
    \/ UserStep
    \/ \E r \in Reader :
          BeginLoad(r) \/ LoadFile(r) \/ LoadKeychain(r) \/ LoadUnanswered(r) \/ Forget(r)
    \/ KillUser

ConfigSpec == ConfigInit /\ [][ConfigNext]_configVars

-----------------------------------------------------------------------------
(* Properties *)

\* Whatever a command is given by the Keychain and the file, while secrets are set,
\* replaced and removed, was in force while it loaded: the last one set, or the one
\* being set, or what a Keychain that refused the last command still holds; never one
\* that a completed command replaced in both places (config.py:152-166), and never
\* none in the middle of a rotation.  Nothing is said of a load that the Keychain
\* does not answer.
ReadsAreCurrent == \A r \in Reader : rstep[r] = "done" => got[r] \in allowed[r]

\* Once a set or an unset has completed that the Keychain did not refuse, the Keychain
\* holds what was asked for and a config.json that can be read has no copy
\* (config.py:207-210).  A file that cannot be read keeps whatever text is in it
\* (config.py:174-177, commands/config.py:79-81).
NoLeftover ==
    over /\ reachable /\ ~refused
        => keychain = target /\ Parsed.secret = NoSecret

\* More: wherever a completed set has put the secret, it is the one that is loaded from
\* then on (config.py:156-160).  Not so when the Keychain has an older one and refuses
\* the new one: the file that the fallback writes stands behind it.
SetTakesEffect == over /\ target # NoSecret => Winner(Parsed.secret) = target

\* What was stored under another key of a JSON object stays stored, whatever is done to
\* the secret and wherever it is killed.
OthersKept == file.other = writes
=============================================================================
