----------------------------- MODULE AuthCommand -----------------------------
(***************************************************************************)
(* `da auth` as a whole (cmd_auth of src/dacli/auth.py): load_config       *)
(* (ConfigStore), the certificate (LoopbackCert), the port, the listener   *)
(* or the paste, and the exchange (LoginListener).  Several runs race for  *)
(* the certificate; the one that gets the port is followed to its end.     *)
(*                                                                         *)
(* A run goes through these in sequence, and none of them looks at what an *)
(* earlier one looked at: the listener has the pair in memory, the exchange*)
(* its copy of the configuration.  So what the earlier stores go through   *)
(* meanwhile makes no difference to it, and all that each of them can go   *)
(* through is explored before the next one begins.  The next one then      *)
(* begins in a state where the earlier ones are at rest (ConfigAtRest,     *)
(* CertAtRest).                                                            *)
(***************************************************************************)
EXTENDS ConfigStore, LoopbackCert, LoginListener

authVars == <<configVars, certVars, listenerVars>>

AuthInit == ConfigInit /\ CertInit /\ ListenerInit

\* The one secret is in the Keychain, and nobody is at it.
ConfigAtRest ==
    /\ file.kind = "missing" /\ reachable /\ keychain = Newer
    /\ latest = Newer /\ inforce = {Newer} /\ ~over /\ ustep = "idle"
    /\ \A r \in Reader : rstep[r] = "idle"

\* Nothing has gone wrong, and every run has got as far as this.
CertAtRest(step) ==
    /\ pairs = OldPair /\ unusable = {} /\ unlocked = {}
    /\ key = Locked(key) /\ cert = key
    /\ \A p \in Run : at[p] = step /\ cause[p] = {}

\* No run has looked for a pair yet, and there is none.
NoCertYet == CertAtRest("start") /\ key = NoFile

ConfigStep ==
    /\ main = "off" /\ NoCertYet
    /\ ConfigNext
    /\ UNCHANGED <<certVars, listenerVars>>

CertificateStep ==
    /\ main = "off" /\ ConfigAtRest
    /\ CertNext
    /\ UNCHANGED <<configVars, listenerVars>>

\* _ReusableServer binds the port.
Listen ==
    /\ CertAtRest("loaded") /\ ConfigAtRest
    /\ Open
    /\ UNCHANGED <<configVars, certVars>>

\* allow_reuse_address does not cover a live listener: exit 2.
PortTaken(p) ==
    /\ at[p] = "loaded"
    /\ main \in {"polling", "closing"}
    /\ \E q \in Run \ {p} : at[q] = "loaded"
    /\ at' = [at EXCEPT ![p] = "noport"]
    /\ UNCHANGED <<key, cert, unusable, pairs, staged, stagedKey, cause, unlocked,
                   configVars, listenerVars>>

\* --paste, or a redirect_uri that is not on this machine: no certificate.
ListenNot ==
    /\ NoCertYet /\ ConfigAtRest
    /\ OpenPaste
    /\ UNCHANGED <<configVars, certVars>>

ListenerStep ==
    /\ main # "off"
    /\ ListenerNext
    /\ UNCHANGED <<configVars, certVars>>

AuthNext ==
    \/ ConfigStep
    \/ CertificateStep
    \/ \E p \in Run : PortTaken(p)
    \/ Listen \/ ListenNot
    \/ ListenerStep

AuthFairness ==
    /\ \A c \in Conn : WF_authVars(Thread(c) /\ UNCHANGED <<configVars, certVars>>)
    /\ WF_authVars(MainThread /\ UNCHANGED <<configVars, certVars>>)

AuthSpec == AuthInit /\ [][AuthNext]_authVars /\ AuthFairness
=============================================================================
