-------------------------- MODULE TokenStoreProofs --------------------------
(* Proofs about TokenStore, for every set of processes and every bound. *)
EXTENDS TokenStore, TLAPS

-----------------------------------------------------------------------------
(* Type correctness *)

LEMMA StateTypes ==
    ASSUME NEW s \in State, NEW b \in Body
    PROVE  /\ Adopt(b, s) \in Body
           /\ Merge(s, b) \in State
           /\ Tokens(s) \in Body
           /\ EmptyState \in State
           /\ NoBody \in Body
BY DEF State, Body, Adopt, Merge, Tokens, EmptyState, NoBody, NoToken

\* What a successful exchange does to the server's types.
LEMMA RotateType ==
    ASSUME TypeOK, NEW used, NEW rotate, Rotate(used, rotate)
    PROVE  issued' \in Nat /\ live' \subseteq Nat /\ dead' \subseteq Nat
<1>1. issued' = issued + 1 /\ dead' = dead /\ issued + 1 \in Nat
  BY DEF Rotate, TypeOK
<1>2. live' \subseteq live \cup {issued + 1}
  BY Zenon DEF Rotate
<1>3. live \cup {issued + 1} \subseteq Nat
  BY <1>1, Zenon DEF TypeOK
<1> QED
  BY <1>1, <1>2, <1>3, Zenon DEF TypeOK

LEMMA NoBodyType == NoBody \in Body
BY DEF Body, NoBody, NoToken

LEMMA LeaveType ==
    ASSUME TypeOK, NEW p \in Proc, NEW l \in Labels, Leave(p, l)
    PROVE  /\ pc' \in [Proc -> Labels]
           /\ cmd' \in [Proc -> {"none", "api", "refresh", "sync", "auth"}]
           /\ mem' \in [Proc -> Body]
           /\ cur' \in [Proc -> State]
           /\ body' \in [Proc -> Body]
           /\ retried' \in [Proc -> BOOLEAN]
<1>1. EmptyState \in State /\ NoBody \in Body
  BY DEF State, Body, EmptyState, NoBody, NoToken
<1> QED
  BY <1>1 DEF TypeOK, Leave, Goto

LEMMA ExitType ==
    ASSUME TypeOK, NEW p \in Proc, Exit(p)
    PROVE  /\ pc' \in [Proc -> Labels]
           /\ cmd' \in [Proc -> {"none", "api", "refresh", "sync", "auth"}]
           /\ mem' \in [Proc -> Body]
           /\ cur' \in [Proc -> State]
           /\ body' \in [Proc -> Body]
           /\ retried' \in [Proc -> BOOLEAN]
           /\ lock' \subseteq Proc
           /\ synclock' \subseteq Proc
<1>1. "idle" \in Labels /\ Leave(p, "idle")
  BY DEF Exit, Labels
<1>2. lock' \subseteq Proc /\ synclock' \subseteq Proc
  BY DEF TypeOK, Exit
<1> QED
  BY <1>1, <1>2, LeaveType

LEMMA ReturnType ==
    ASSUME TypeOK, NEW p \in Proc, NEW m \in Body, Return(p, m)
    PROVE  /\ pc' \in [Proc -> Labels]
           /\ cmd' \in [Proc -> {"none", "api", "refresh", "sync", "auth"}]
           /\ mem' \in [Proc -> Body]
           /\ cur' \in [Proc -> State]
           /\ body' \in [Proc -> Body]
           /\ retried' \in [Proc -> BOOLEAN]
           /\ lock' \subseteq Proc
           /\ synclock' \subseteq Proc
<1>1. CASE cmd[p] = "refresh"
  BY <1>1, ExitType DEF Return
<1>2. CASE cmd[p] # "refresh"
  <2>1. EmptyState \in State /\ NoBody \in Body
    BY DEF State, Body, EmptyState, NoBody, NoToken
  <2> QED
    BY <1>2, <2>1 DEF TypeOK, Return, Goto, Labels
<1> QED
  BY <1>1, <1>2

LEMMA FailType ==
    ASSUME TypeOK, NEW p \in Proc, Fail(p)
    PROVE  /\ pc' \in [Proc -> Labels]
           /\ cmd' \in [Proc -> {"none", "api", "refresh", "sync", "auth"}]
           /\ mem' \in [Proc -> Body]
           /\ cur' \in [Proc -> State]
           /\ body' \in [Proc -> Body]
           /\ retried' \in [Proc -> BOOLEAN]
           /\ lock' \subseteq Proc
           /\ synclock' \subseteq Proc
<1>1. CASE cmd[p] = "sync"
  <2>1. EmptyState \in State /\ NoBody \in Body
    BY DEF State, Body, EmptyState, NoBody, NoToken
  <2> QED
    BY <1>1, <2>1 DEF TypeOK, Fail, Goto, Labels
<1>2. CASE cmd[p] # "sync"
  BY <1>2, ExitType DEF Fail
<1> QED
  BY <1>1, <1>2

LEMMA InitType == Init => TypeOK
<1> SUFFICES ASSUME Init PROVE TypeOK
  OBVIOUS
<1>1. EmptyState \in State /\ NoBody \in Body
  BY DEF State, Body, EmptyState, NoBody, NoToken
<1>2. [at |-> 1, rt |-> 1, rej |-> FALSE, data |-> 0] \in State
  BY DEF State
<1> QED
  BY <1>1, <1>2 DEF Init, TypeOK, Labels

LEMMA StartType ==
    ASSUME TypeOK, NEW p \in Proc, Start(p)
    PROVE  TypeOK'
<1> Tokens(disk) \in Body
  BY StateTypes, NoBodyType DEF TypeOK
<1>1. CASE StartApi(p)
  BY <1>1 DEF TypeOK, StartApi, Goto, Labels, serverVars
<1>2. CASE StartRefresh(p)
  BY <1>2 DEF TypeOK, StartRefresh, Goto, Labels, serverVars
<1>3. CASE StartSync(p)
  BY <1>3 DEF TypeOK, StartSync, Goto, Labels, serverVars
<1>4. CASE StartAuth(p)
  BY <1>4 DEF TypeOK, StartAuth, Goto, Labels, serverVars
<1>5. CASE Logout(p)
  <2>1. EmptyState \in State
    BY DEF State, EmptyState, NoToken
  <2> QED
    BY <1>5, <2>1 DEF TypeOK, Logout, procVars, serverVars
<1> QED
  BY <1>1, <1>2, <1>3, <1>4, <1>5 DEF Start

LEMMA AccessTokenType ==
    ASSUME TypeOK, NEW p \in Proc, AccessToken(p)
    PROVE  TypeOK'
<1>1. CASE CheckCached(p)
  BY <1>1 DEF TypeOK, CheckCached, Goto, Labels, serverVars
<1>2. CASE AcquireTokenLock(p)
  BY <1>2 DEF TypeOK, AcquireTokenLock, Goto, Labels, serverVars
<1>3. CASE TokenLockTimeout(p)
  BY <1>3 DEF TypeOK, TokenLockTimeout, Goto, Labels, serverVars
<1>4. CASE ReadAdopt(p)
  <2>1. Adopt(mem[p], disk) \in Body
    BY StateTypes, NoBodyType DEF TypeOK
  <2>2. /\ Return(p, Adopt(mem[p], disk))
        /\ UNCHANGED <<disk, serverVars, stale, records>>
    BY <1>4 DEF ReadAdopt
  <2> QED
    BY <2>1, <2>2, ReturnType DEF TypeOK, serverVars
<1>5. CASE ReadNoToken(p)
  BY <1>5, FailType DEF TypeOK, ReadNoToken, serverVars
<1>6. CASE ReadPresent(p)
  BY <1>6 DEF TypeOK, ReadPresent, Goto, Labels, serverVars
<1>7. CASE ExchangeOk(p)
  <2>1. PICK rotate \in Rotation :
            /\ Rotate(Presented(p), rotate)
            /\ body' = [body EXCEPT ![p] =
                   [at |-> issued + 1, rt |-> IF rotate THEN issued + 1 ELSE NoToken]]
    BY <1>7 DEF ExchangeOk
  <2>2. issued' \in Nat /\ live' \subseteq Nat /\ dead' \subseteq Nat
    BY <2>1, RotateType
  <2>3. [at |-> issued + 1, rt |-> IF rotate THEN issued + 1 ELSE NoToken] \in Body
    BY DEF TypeOK, Body, NoToken
  <2>4. body' \in [Proc -> Body]
    BY <2>1, <2>3 DEF TypeOK
  <2> QED
    BY <1>7, <2>2, <2>4 DEF TypeOK, ExchangeOk, Goto, Labels
<1>8. CASE ExchangeLost(p)
  <2>1. issued' \in Nat /\ live' \subseteq Nat /\ dead' \subseteq Nat
    BY <1>8, RotateType DEF ExchangeLost
  <2> QED
    BY <1>8, <2>1, FailType DEF TypeOK, ExchangeLost
<1>9. CASE ExchangeUnavailable(p)
  BY <1>9, FailType DEF TypeOK, ExchangeUnavailable, serverVars
<1>10. CASE ExchangeRejected(p)
  <2>1. issued' \in Nat /\ live' \subseteq Nat /\ dead' \subseteq Nat
    <3>1. CASE UNCHANGED <<issued, live, dead>>
      BY <3>1 DEF TypeOK
    <3>2. CASE Rotate(Presented(p), TRUE)
      BY <3>2, RotateType
    <3> QED
      BY <1>10, <3>1, <3>2 DEF ExchangeRejected
  <2>2. refused' \subseteq Nat
    <3>1. Presented(p) \in Nat
      <4>1. mem[p] \in Body /\ cur[p] \in State
        BY DEF TypeOK
      <4> QED
        BY <4>1 DEF Presented, State, Body
    <3> QED
      BY <1>10, <3>1 DEF TypeOK, ExchangeRejected
  <2> QED
    BY <1>10, <2>1, <2>2 DEF TypeOK, ExchangeRejected, Goto, Labels
<1>11. CASE SaveTokens(p)
  <2>1. disk' \in State
    BY <1>11, StateTypes DEF TypeOK, SaveTokens
  <2>2. Adopt(mem[p], disk') \in Body
    BY <2>1, StateTypes, NoBodyType DEF TypeOK
  <2> QED
    BY <1>11, <2>1, <2>2, ReturnType DEF TypeOK, SaveTokens, serverVars
<1>12. CASE SaveRejection(p)
  <2>1. disk' \in State
    BY <1>12 DEF TypeOK, SaveRejection, State
  <2> QED
    BY <1>12, <2>1, FailType DEF TypeOK, SaveRejection, serverVars
<1> QED
  BY <1>1, <1>2, <1>3, <1>4, <1>5, <1>6, <1>7, <1>8, <1>9, <1>10, <1>11, <1>12
  DEF AccessToken

LEMMA RequestType ==
    ASSUME TypeOK, NEW p \in Proc, Request(p)
    PROVE  TypeOK'
<1>1. CASE CallOk(p)
  <2>1. CASE cmd[p] = "sync"
    BY <1>1, <2>1 DEF TypeOK, CallOk, Goto, Labels, serverVars
  <2>2. CASE cmd[p] # "sync"
    BY <1>1, <2>2, ExitType DEF TypeOK, CallOk, serverVars
  <2> QED
    BY <2>1, <2>2
<1>2. CASE Call401(p)
  BY <1>2 DEF TypeOK, Call401, Goto, Labels, serverVars
<1>3. CASE Call401Again(p)
  BY <1>3, FailType DEF TypeOK, Call401Again, serverVars
<1> QED
  BY <1>1, <1>2, <1>3 DEF Request

LEMMA SyncType ==
    ASSUME TypeOK, NEW p \in Proc, Sync(p)
    PROVE  TypeOK'
<1>1. CASE SyncNextRequest(p)
  <2>1. Tokens(disk) \in Body
    BY StateTypes, NoBodyType DEF TypeOK
  <2> QED
    BY <1>1, <2>1 DEF TypeOK, SyncNextRequest, Goto, Labels, serverVars
<1>2. CASE SyncLoad(p)
  BY <1>2 DEF TypeOK, SyncLoad, Goto, Labels, serverVars
<1>3. CASE SyncStore(p)
  <2>1. disk' \in State /\ EmptyState \in State
    BY <1>3 DEF TypeOK, SyncStore, State, EmptyState, NoToken
  <2> QED
    BY <1>3, <2>1 DEF TypeOK, SyncStore, Goto, Labels, serverVars
<1>4. CASE SyncEnd(p)
  BY <1>4, ExitType DEF TypeOK, SyncEnd, serverVars
<1> QED
  BY <1>1, <1>2, <1>3, <1>4 DEF Sync

LEMMA LoginType ==
    ASSUME TypeOK, NEW p \in Proc, Login(p)
    PROVE  TypeOK'
<1>1. CASE LoginExchange(p)
  <2>1. [at |-> issued + 1, rt |-> issued + 1] \in Body
    BY DEF TypeOK, Body
  <2>2. issued' \in Nat /\ live' \subseteq Nat /\ dead' \subseteq Nat
    BY <1>1 DEF TypeOK, LoginExchange
  <2> QED
    BY <1>1, <2>1, <2>2 DEF TypeOK, LoginExchange, Goto, Labels
<1>2. CASE LoginFailed(p)
  BY <1>2, ExitType DEF TypeOK, LoginFailed, serverVars
<1>3. CASE LoginLoad(p)
  BY <1>3 DEF TypeOK, LoginLoad, Goto, Labels, serverVars
<1>4. CASE LoginSave(p)
  <2>1. disk' \in State
    BY <1>4, StateTypes DEF TypeOK, LoginSave
  <2> QED
    BY <1>4, <2>1, ExitType DEF TypeOK, LoginSave, serverVars
<1> QED
  BY <1>1, <1>2, <1>3, <1>4 DEF Login

LEMMA EnvironmentType ==
    ASSUME TypeOK,
           \/ \E p \in Proc : Crash(p) \/ Stick(p)
           \/ \E t \in 1..issued : Expire(t)
           \/ Revoke
    PROVE  TypeOK'
<1>1. ASSUME NEW p \in Proc, Crash(p) PROVE TypeOK'
  BY <1>1, ExitType DEF TypeOK, Crash, serverVars
<1>2. ASSUME NEW p \in Proc, Stick(p) PROVE TypeOK'
  BY <1>2, LeaveType DEF TypeOK, Stick, Labels, serverVars
<1>3. ASSUME NEW t \in 1..issued, Expire(t) PROVE TypeOK'
  BY <1>3 DEF TypeOK, Expire, procVars, serverVars
<1>4. CASE Revoke
  BY <1>4 DEF TypeOK, Revoke, procVars
<1> QED
  BY <1>1, <1>2, <1>3, <1>4

LEMMA StepType == TypeOK /\ [Next]_vars => TypeOK'
<1> SUFFICES ASSUME TypeOK, [Next]_vars PROVE TypeOK'
  OBVIOUS
<1>1. ASSUME NEW p \in Proc, Start(p) \/ Step(p) PROVE TypeOK'
  BY <1>1, StartType, AccessTokenType, RequestType, SyncType, LoginType DEF Step
<1>2. CASE UNCHANGED vars
  BY <1>2 DEF TypeOK, vars
<1> QED
  BY <1>1, <1>2, EnvironmentType DEF Next

\* Every variable keeps its type, whatever commands run and whatever fails.
THEOREM TypeCorrect == Spec => []TypeOK
<1> QED
  BY InitType, StepType, PTL DEF Spec

-----------------------------------------------------------------------------
(* A mark stands beside the token it condemns.                             *)
(*                                                                         *)
(* MarkJustified is not inductive: the dict that becomes the file was read *)
(* earlier, so it has to hold of every dict a process may still write; and *)
(* who is about to mark a file must have been refused the token in it.     *)

Coherent(s) == s.rej => s.rt \in refused \cup {NoToken}

JustifiedInv ==
    /\ TypeOK
    /\ Coherent(disk)
    /\ \A p \in Proc : /\ Coherent(cur[p])
                       /\ pc[p] = "reject" => Presented(p) \in refused

\* What the server has refused stays on record.
LEMMA RefusedGrows ==
    ASSUME [Next]_vars
    PROVE  refused \subseteq refused'
<1>1. ASSUME NEW p \in Proc, Start(p) \/ Crash(p) \/ Stick(p) PROVE refused' = refused
  BY <1>1 DEF Start, StartApi, StartRefresh, StartSync, StartAuth, Logout, Crash,
     Stick, serverVars
<1>2. ASSUME NEW p \in Proc, AccessToken(p) PROVE refused \subseteq refused'
  BY <1>2 DEF AccessToken, CheckCached, AcquireTokenLock, TokenLockTimeout,
     ReadAdopt, ReadNoToken, ReadPresent, ExchangeOk, ExchangeLost,
     ExchangeUnavailable, ExchangeRejected, SaveTokens, SaveRejection, serverVars
<1>3. ASSUME NEW p \in Proc, Request(p) \/ Sync(p) \/ Login(p) PROVE refused' = refused
  BY <1>3 DEF Request, CallOk, Call401, Call401Again, Sync, SyncNextRequest,
     SyncLoad, SyncStore, SyncEnd, Login, LoginExchange, LoginFailed, LoginLoad,
     LoginSave, serverVars
<1>4. CASE UNCHANGED vars \/ Revoke \/ \E t \in 1..issued : Expire(t)
  BY <1>4 DEF vars, Revoke, Expire, serverVars
<1> QED
  BY <1>1, <1>2, <1>3, <1>4 DEF Next, Step

\* What a step has to show: the new file is coherent, a dict in memory is one that
\* was there or the file, and nobody else comes to mark it.
LEMMA JustifiedFrame ==
    ASSUME JustifiedInv, TypeOK', refused \subseteq refused',
           disk' = disk \/ Coherent(disk)',
           \A q \in Proc :
              /\ cur'[q] \in {cur[q], disk, EmptyState}
              /\ pc'[q] = "reject" =>
                    pc[q] = "reject" /\ cur'[q] = cur[q] /\ mem'[q] = mem[q]
    PROVE  JustifiedInv'
<1>1. Coherent(disk)'
  BY DEF JustifiedInv, Coherent
<1>2. ASSUME NEW q \in Proc PROVE Coherent(cur[q])'
  <2>1. Coherent(cur'[q])
    BY DEF JustifiedInv, Coherent, EmptyState
  <2> QED
    BY <2>1 DEF Coherent
<1>3. ASSUME NEW q \in Proc, pc'[q] = "reject" PROVE Presented(q)' \in refused'
  <2>1. Presented(q) \in refused
    BY <1>3 DEF JustifiedInv
  <2>2. Presented(q)' = Presented(q)
    BY <1>3 DEF Presented
  <2> QED
    BY <2>1, <2>2
<1> QED
  BY <1>1, <1>2, <1>3 DEF JustifiedInv

\* A process that leaves, fails or returns has nothing more to write.
LEMMA LeavingLocals ==
    ASSUME TypeOK, NEW p \in Proc,
           \/ Exit(p) \/ Fail(p)
           \/ \E l \in Labels \ {"reject"} : Leave(p, l)
           \/ \E m : Return(p, m)
    PROVE  \A q \in Proc :
              /\ cur'[q] \in {cur[q], disk, EmptyState}
              /\ pc'[q] = "reject" =>
                    pc[q] = "reject" /\ cur'[q] = cur[q] /\ mem'[q] = mem[q]
<1>1. ASSUME NEW l \in Labels \ {"reject"}, Leave(p, l), NEW q \in Proc
      PROVE  /\ cur'[q] \in {cur[q], disk, EmptyState}
             /\ pc'[q] = "reject" =>
                   pc[q] = "reject" /\ cur'[q] = cur[q] /\ mem'[q] = mem[q]
  <2>1. CASE q = p
    BY <1>1, <2>1 DEF TypeOK, Leave, Goto
  <2>2. CASE q # p
    BY <1>1, <2>2 DEF TypeOK, Leave, Goto
  <2> QED
    BY <2>1, <2>2
<1>2. CASE Exit(p)
  <2>1. "idle" \in Labels \ {"reject"} /\ Leave(p, "idle")
    BY <1>2 DEF Exit, Labels
  <2> QED
    BY <1>1, <2>1
<1>3. CASE Fail(p) /\ cmd[p] = "sync"
  BY <1>3 DEF TypeOK, Fail, Goto
<1>4. ASSUME NEW m, Return(p, m), cmd[p] # "refresh"
      PROVE  \A q \in Proc :
                /\ cur'[q] \in {cur[q], disk, EmptyState}
                /\ pc'[q] = "reject" =>
                      pc[q] = "reject" /\ cur'[q] = cur[q] /\ mem'[q] = mem[q]
  BY <1>4 DEF TypeOK, Return, Goto
<1> QED
  BY <1>1, <1>2, <1>3, <1>4 DEF Fail, Return

\* Steps that only move a process on.
LEMMA JustifiedMove ==
    ASSUME JustifiedInv, TypeOK', refused \subseteq refused', NEW p \in Proc,
           disk' = disk \/ Coherent(disk)',
           NEW l \in Labels \ {"reject"}, Goto(p, l),
           \A q \in Proc : /\ cur'[q] \in {cur[q], disk, EmptyState}
                           /\ q # p => cur'[q] = cur[q] /\ mem'[q] = mem[q]
    PROVE  JustifiedInv'
<1>1. \A q \in Proc : pc'[q] = "reject" => q # p /\ pc[q] = "reject"
  BY DEF Goto, JustifiedInv, TypeOK
<1> QED
  BY <1>1, JustifiedFrame

\* A successful exchange clears the mark.
LEMMA MergeUnmarks ==
    ASSUME NEW s \in State, NEW b \in Body
    PROVE  ~Merge(s, b).rej
BY DEF State, Merge

LEMMA JustifiedStart ==
    ASSUME JustifiedInv, TypeOK', refused \subseteq refused', NEW p \in Proc, Start(p)
    PROVE  JustifiedInv'
<1>1. CASE StartApi(p) \/ StartRefresh(p) \/ StartSync(p) \/ StartAuth(p)
  <2>1. /\ mem' \in {mem, [mem EXCEPT ![p] = Tokens(disk)]}
        /\ UNCHANGED <<disk, cur>>
        /\ \E l \in {"token", "wait", "login"} : Goto(p, l)
    BY <1>1 DEF StartApi, StartRefresh, StartSync, StartAuth
  <2>2. \A q \in Proc : q # p => mem'[q] = mem[q]
    BY <2>1 DEF JustifiedInv, TypeOK
  <2> QED
    BY <2>1, <2>2, JustifiedMove DEF Labels
<1>2. CASE Logout(p)
  <2>1. Coherent(disk)' /\ UNCHANGED <<pc, cur, mem>>
    BY <1>2 DEF Logout, Coherent, EmptyState, procVars
  <2> QED
    BY <2>1, JustifiedFrame
<1> QED
  BY <1>1, <1>2 DEF Start

LEMMA JustifiedAccessToken ==
    ASSUME JustifiedInv, TypeOK', refused \subseteq refused', NEW p \in Proc,
           AccessToken(p)
    PROVE  JustifiedInv'
<1>1. /\ mem[p] \in Body /\ cur[p] \in State /\ body[p] \in Body
      /\ Coherent(cur[p])
  BY DEF JustifiedInv, TypeOK
<1>2. CASE CheckCached(p)
  BY <1>2, JustifiedMove DEF CheckCached, Labels
<1>3. CASE AcquireTokenLock(p) \/ TokenLockTimeout(p)
  BY <1>3, JustifiedMove DEF AcquireTokenLock, TokenLockTimeout, Labels
<1>4. CASE ReadAdopt(p) \/ ReadNoToken(p) \/ ExchangeUnavailable(p) \/ ExchangeLost(p)
  BY <1>4, LeavingLocals, JustifiedFrame
  DEF ReadAdopt, ReadNoToken, ExchangeUnavailable, ExchangeLost, JustifiedInv
<1>5. CASE ReadPresent(p)
  <2>1. \A q \in Proc : /\ cur'[q] \in {cur[q], disk, EmptyState}
                        /\ q # p => cur'[q] = cur[q]
    BY <1>5 DEF ReadPresent, JustifiedInv, TypeOK
  <2> QED
    BY <1>5, <2>1, JustifiedMove DEF ReadPresent, Labels
<1>6. CASE ExchangeOk(p)
  BY <1>6, JustifiedMove DEF ExchangeOk, Labels
<1>7. CASE ExchangeRejected(p)
  <2>1. /\ UNCHANGED <<disk, cur, mem>> /\ refused' = refused \cup {Presented(p)}
        /\ \A q \in Proc \ {p} : pc'[q] = pc[q]
    BY <1>7 DEF ExchangeRejected, Goto, JustifiedInv, TypeOK
  <2>2. Coherent(disk)' /\ \A q \in Proc : Coherent(cur[q])'
    BY <2>1 DEF JustifiedInv, Coherent
  <2>3. ASSUME NEW q \in Proc, pc'[q] = "reject" PROVE Presented(q)' \in refused'
    <3>1. Presented(q)' = Presented(q)
      BY <2>1 DEF Presented
    <3>2. q = p \/ Presented(q) \in refused
      BY <2>1, <2>3 DEF JustifiedInv
    <3> QED
      BY <2>1, <3>1, <3>2
  <2> QED
    BY <2>2, <2>3 DEF JustifiedInv
<1>8. CASE SaveTokens(p)
  <2>1. disk' = Merge(cur[p], body[p]) /\ \E m : Return(p, m)
    BY <1>8 DEF SaveTokens
  <2>2. Coherent(disk)'
    BY <1>1, <2>1, MergeUnmarks DEF Coherent
  <2> QED
    BY <2>1, <2>2, LeavingLocals, JustifiedFrame DEF JustifiedInv
<1>9. CASE SaveRejection(p)
  <2>1. disk' = [cur[p] EXCEPT !.rej = TRUE] /\ Fail(p) /\ refused' = refused
    BY <1>9 DEF SaveRejection, serverVars
  <2>2. Presented(p) \in refused /\ disk'.rt = cur[p].rt
    BY <1>1, <1>9, <2>1 DEF SaveRejection, JustifiedInv, State
  <2>3. Coherent(disk)'
    BY <2>1, <2>2 DEF Coherent, Presented
  <2> QED
    BY <2>1, <2>3, LeavingLocals, JustifiedFrame DEF JustifiedInv
<1> QED
  BY <1>2, <1>3, <1>4, <1>5, <1>6, <1>7, <1>8, <1>9 DEF AccessToken

LEMMA JustifiedOthers ==
    ASSUME JustifiedInv, TypeOK', refused \subseteq refused', NEW p \in Proc,
           Request(p) \/ Sync(p) \/ Login(p)
    PROVE  JustifiedInv'
<1>1. cur[p] \in State /\ body[p] \in Body /\ Coherent(cur[p])
  BY DEF JustifiedInv, TypeOK
<1>2. CASE (CallOk(p) /\ cmd[p] # "sync") \/ Call401Again(p) \/ SyncEnd(p) \/ LoginFailed(p)
  BY <1>2, LeavingLocals, JustifiedFrame
  DEF CallOk, Call401Again, SyncEnd, LoginFailed, JustifiedInv
<1>3. CASE (CallOk(p) /\ cmd[p] = "sync") \/ Call401(p) \/ LoginExchange(p)
  BY <1>3, JustifiedMove DEF CallOk, Call401, LoginExchange, Labels
<1>4. CASE SyncNextRequest(p)
  <2>1. \A q \in Proc : q # p => mem'[q] = mem[q]
    BY <1>4 DEF SyncNextRequest, JustifiedInv, TypeOK
  <2> QED
    BY <1>4, <2>1, JustifiedMove DEF SyncNextRequest, Labels
<1>5. CASE SyncLoad(p) \/ LoginLoad(p)
  <2>1. \A q \in Proc : /\ cur'[q] \in {cur[q], disk, EmptyState}
                        /\ q # p => cur'[q] = cur[q]
    BY <1>5 DEF SyncLoad, LoginLoad, JustifiedInv, TypeOK
  <2> QED
    BY <1>5, <2>1, JustifiedMove DEF SyncLoad, LoginLoad, Labels
<1>6. CASE SyncStore(p)
  <2>1. /\ disk' = [cur[p] EXCEPT !.data = records + 1]
        /\ refused' = refused
    BY <1>6 DEF SyncStore, serverVars
  <2>2. Coherent(disk)'
    BY <1>1, <2>1 DEF Coherent, State
  <2>3. \A q \in Proc : /\ cur'[q] \in {cur[q], disk, EmptyState}
                        /\ q # p => cur'[q] = cur[q]
    BY <1>6 DEF SyncStore, JustifiedInv, TypeOK
  <2> QED
    BY <1>6, <2>2, <2>3, JustifiedMove DEF SyncStore, Labels
<1>7. CASE LoginSave(p)
  <2>1. disk' = Merge(cur[p], body[p]) /\ Exit(p)
    BY <1>7 DEF LoginSave
  <2>2. Coherent(disk)'
    BY <1>1, <2>1, MergeUnmarks DEF Coherent
  <2> QED
    BY <2>1, <2>2, LeavingLocals, JustifiedFrame DEF JustifiedInv
<1> QED
  BY <1>2, <1>3, <1>4, <1>5, <1>6, <1>7 DEF Request, Sync, Login

LEMMA JustifiedStep == JustifiedInv /\ [Next]_vars => JustifiedInv'
<1> SUFFICES ASSUME JustifiedInv, [Next]_vars PROVE JustifiedInv'
  OBVIOUS
<1>1. TypeOK' /\ refused \subseteq refused'
  BY StepType, RefusedGrows DEF JustifiedInv
<1>2. ASSUME NEW p \in Proc, Start(p) \/ Step(p) PROVE JustifiedInv'
  BY <1>1, <1>2, JustifiedStart, JustifiedAccessToken, JustifiedOthers DEF Step
<1>3. ASSUME NEW p \in Proc, Crash(p) \/ Stick(p) PROVE JustifiedInv'
  BY <1>1, <1>3, LeavingLocals, JustifiedFrame DEF Crash, Stick, Labels, JustifiedInv
<1>4. CASE (\E t \in 1..issued : Expire(t)) \/ Revoke \/ UNCHANGED vars
  <2>1. UNCHANGED <<disk, pc, mem, cur>>
    BY <1>4 DEF Expire, Revoke, vars, procVars
  <2> QED
    BY <1>1, <2>1, JustifiedFrame
<1> QED
  BY <1>2, <1>3, <1>4 DEF Next

\* No interleaving of any commands, and no lock timeout, crash, lost answer or
\* refusal, leaves a rejection mark beside a refresh token that nobody refused.
THEOREM MarkIsJustified == Spec => []MarkJustified
<1>1. Init => JustifiedInv
  BY InitType DEF Init, JustifiedInv, Coherent, EmptyState
<1>2. JustifiedInv => MarkJustified
  BY DEF JustifiedInv, Coherent, MarkJustified
<1> QED
  BY <1>1, <1>2, JustifiedStep, PTL DEF Spec

-----------------------------------------------------------------------------
(* Exclusion.  Whatever runs, dies, hangs or loses an answer: as long as   *)
(* nobody gives up the wait, who is inside the lock holds it.              *)

\* Who hangs inside the lock keeps it.
Inside == Critical \cup {"stuck"}

HeldInv ==
    /\ TypeOK
    /\ \A p \in Proc : pc[p] \in Inside => lock = {p}
    /\ \A p \in lock : pc[p] \in Inside

LEMMA HeldInit == Init => HeldInv
BY InitType DEF Init, HeldInv, Inside, Critical

\* A step of one process either leaves the lock, or takes it, or stays in it.
LEMMA HeldFrame ==
    ASSUME HeldInv, TypeOK', NEW p \in Proc,
           \A q \in Proc \ {p} : pc'[q] = pc[q],
           \/ pc'[p] \notin Inside /\ lock' = lock \ {p}
           \/ pc'[p] = "read" /\ lock = {} /\ lock' = {p}
           \/ pc[p] \in Critical /\ pc'[p] \in Inside /\ lock' = lock
    PROVE  HeldInv'
<1>1. "read" \in Inside /\ Critical \subseteq Inside
  BY DEF Inside, Critical
<1>2. lock \subseteq Proc /\ lock' \subseteq Proc
  BY DEF HeldInv, TypeOK
<1>3. ASSUME NEW q \in Proc, pc'[q] \in Inside PROVE lock' = {q}
  BY <1>1, <1>3 DEF HeldInv
<1>4. ASSUME NEW q \in lock' PROVE pc'[q] \in Inside
  BY <1>1, <1>2, <1>4 DEF HeldInv
<1> QED
  BY <1>3, <1>4 DEF HeldInv

\* Commands that return, or die.
LEMMA HeldExit ==
    ASSUME HeldInv, TypeOK', NEW p \in Proc,
           Exit(p) \/ Fail(p) \/ \E m : Return(p, m)
    PROVE  HeldInv'
<1>1. CASE Exit(p)
  BY <1>1, HeldFrame DEF Exit, Leave, Goto, HeldInv, TypeOK, Inside, Critical
<1>2. ASSUME NEW m, Return(p, m), cmd[p] # "refresh" PROVE HeldInv'
  BY <1>2, HeldFrame DEF Return, Goto, HeldInv, TypeOK, Inside, Critical
<1>3. CASE Fail(p) /\ cmd[p] = "sync"
  BY <1>3, HeldFrame DEF Fail, Goto, HeldInv, TypeOK, Inside, Critical
<1> QED
  BY <1>1, <1>2, <1>3 DEF Return, Fail

\* Steps between two places outside the lock.
LEMMA HeldOutside ==
    ASSUME HeldInv, TypeOK', NEW p \in Proc, pc[p] \notin Inside, lock' = lock,
           \E l \in Labels \ Inside : Goto(p, l)
    PROVE  HeldInv'
<1>1. p \notin lock
  BY DEF HeldInv
<1>2. pc'[p] \notin Inside /\ \A q \in Proc \ {p} : pc'[q] = pc[q]
  BY DEF Goto, HeldInv, TypeOK
<1>3. lock' = lock \ {p}
  BY <1>1
<1> QED
  BY <1>2, <1>3, HeldFrame

LEMMA HeldInside ==
    ASSUME HeldInv, TypeOK', NEW p \in Proc, pc[p] \in Critical, lock' = lock,
           \E l \in Inside : Goto(p, l)
    PROVE  HeldInv'
<1>1. pc'[p] \in Inside /\ \A q \in Proc \ {p} : pc'[q] = pc[q]
  BY DEF Goto, HeldInv, TypeOK
<1> QED
  BY <1>1, HeldFrame

LEMMA HeldStep ==
    ASSUME "timeout" \notin Faults, HeldInv, [Next]_vars
    PROVE  HeldInv'
<1>1. TypeOK'
  BY StepType DEF HeldInv
<1>2. CASE pc' = pc /\ lock' = lock
  BY <1>1, <1>2 DEF HeldInv
<1>3. ASSUME NEW p \in Proc, Start(p) \/ Sync(p) PROVE HeldInv'
  <2>1. CASE StartApi(p) \/ StartRefresh(p) \/ StartSync(p) \/ StartAuth(p)
    BY <1>1, <2>1, HeldOutside
    DEF StartApi, StartRefresh, StartSync, StartAuth, Labels, Inside, Critical
  <2>2. CASE SyncNextRequest(p) \/ SyncLoad(p) \/ SyncStore(p)
    BY <1>1, <2>2, HeldOutside
    DEF SyncNextRequest, SyncLoad, SyncStore, Labels, Inside, Critical
  <2>3. CASE Logout(p)
    BY <1>2, <2>3 DEF Logout, procVars
  <2>4. CASE SyncEnd(p)
    BY <1>1, <2>4, HeldExit DEF SyncEnd
  <2> QED
    BY <1>3, <2>1, <2>2, <2>3, <2>4 DEF Start, Sync
<1>4. ASSUME NEW p \in Proc, AccessToken(p) PROVE HeldInv'
  <2>1. CASE CheckCached(p)
    BY <1>1, <2>1, HeldOutside DEF CheckCached, Labels, Inside, Critical
  <2>2. CASE AcquireTokenLock(p)
    BY <1>1, <2>2, HeldFrame DEF AcquireTokenLock, Goto, HeldInv, TypeOK
  <2>3. CASE TokenLockTimeout(p)
    BY <2>3 DEF TokenLockTimeout
  <2>4. CASE ReadAdopt(p) \/ ReadNoToken(p) \/ ExchangeLost(p)
             \/ ExchangeUnavailable(p) \/ SaveTokens(p) \/ SaveRejection(p)
    BY <1>1, <2>4, HeldExit DEF ReadAdopt, ReadNoToken, ExchangeLost,
       ExchangeUnavailable, SaveTokens, SaveRejection
  <2>5. CASE ReadPresent(p) \/ ExchangeOk(p) \/ ExchangeRejected(p)
    BY <1>1, <2>5, HeldInside DEF ReadPresent, ExchangeOk, ExchangeRejected,
       Inside, Critical
  <2> QED
    BY <1>4, <2>1, <2>2, <2>3, <2>4, <2>5 DEF AccessToken
<1>5. ASSUME NEW p \in Proc, Request(p) PROVE HeldInv'
  <2>1. CASE Call401(p) \/ (CallOk(p) /\ cmd[p] = "sync")
    BY <1>1, <2>1, HeldOutside DEF Call401, CallOk, Labels, Inside, Critical
  <2>2. CASE Call401Again(p) \/ (CallOk(p) /\ cmd[p] # "sync")
    BY <1>1, <2>2, HeldExit DEF CallOk, Call401Again
  <2> QED
    BY <1>5, <2>1, <2>2 DEF Request
<1>6. ASSUME NEW p \in Proc, Login(p) \/ Crash(p) \/ Stick(p) PROVE HeldInv'
  <2>1. CASE LoginExchange(p) \/ LoginLoad(p)
    BY <1>1, <2>1, HeldOutside DEF LoginExchange, LoginLoad, Labels, Inside, Critical
  <2>2. CASE LoginFailed(p) \/ LoginSave(p) \/ Crash(p)
    BY <1>1, <2>2, HeldExit DEF LoginFailed, LoginSave, Crash
  <2>3. CASE Stick(p)
    BY <1>1, <2>3, HeldInside DEF Stick, Leave, Inside
  <2> QED
    BY <1>6, <2>1, <2>2, <2>3 DEF Login
<1>7. CASE UNCHANGED vars \/ Revoke \/ \E t \in 1..issued : Expire(t)
  BY <1>2, <1>7 DEF vars, Revoke, Expire, procVars
<1> QED
  BY <1>3, <1>4, <1>5, <1>6, <1>7 DEF Next, Step

\* Whatever commands run, die, hang or lose an answer: as long as nobody gives up
\* the wait, at most one process is between the re-read and the save of an exchange.
THEOREM LockExcludes ==
    ASSUME "timeout" \notin Faults
    PROVE  Spec => []Exclusive
<1>1. Init => HeldInv
  BY HeldInit
<1>2. HeldInv /\ [Next]_vars => HeldInv'
  BY HeldStep
<1>3. HeldInv => Exclusive
  BY DEF HeldInv, Exclusive, Inside
<1> QED
  BY <1>1, <1>2, <1>3, PTL DEF Spec

-----------------------------------------------------------------------------
(* The re-read.  Commands that write state.json only inside the lock, and  *)
(* a logout, which removes it.                                             *)

Refreshers == {"api", "refresh", "logout"}

RunsOnly(commands) == \A p \in Proc : Commands[p] \subseteq commands

\* Where such commands can be.
OnlyRefreshers ==
    \A p \in Proc : /\ pc[p] \in {"idle", "token", "wait", "call", "stuck"} \cup Critical
                    /\ cmd[p] \in {"none", "api", "refresh"}

\* Only a sync outlives a failed exchange.
LEMMA FailExits ==
    ASSUME OnlyRefreshers, NEW p \in Proc, Fail(p)
    PROVE  Exit(p)
BY DEF OnlyRefreshers, Fail

LEMMA RefreshersStep ==
    ASSUME RunsOnly(Refreshers), TypeOK, OnlyRefreshers, [Next]_vars
    PROVE  OnlyRefreshers'
<1> USE DEF Goto, procVars, TypeOK, OnlyRefreshers, Critical
<1>1. ASSUME NEW p \in Proc, Start(p) PROVE OnlyRefreshers'
  BY <1>1 DEF Start, StartApi, StartRefresh, StartSync, StartAuth, Logout, Refreshers,
     RunsOnly
<1>2. ASSUME NEW p \in Proc, Exit(p) \/ Fail(p) \/ \E m : Return(p, m)
      PROVE  OnlyRefreshers'
  <2>1. CASE Exit(p)
    BY <2>1 DEF Exit, Leave
  <2>2. ASSUME NEW m, Return(p, m), cmd[p] # "refresh" PROVE OnlyRefreshers'
    BY <2>2 DEF Return
  <2> QED
    BY <1>2, <2>1, <2>2, FailExits DEF Return
<1>3. ASSUME NEW p \in Proc, AccessToken(p) PROVE OnlyRefreshers'
  <2>1. CASE CheckCached(p) \/ AcquireTokenLock(p) \/ TokenLockTimeout(p)
    BY <2>1 DEF CheckCached, AcquireTokenLock, TokenLockTimeout
  <2>2. CASE ReadAdopt(p) \/ ReadNoToken(p) \/ ExchangeLost(p)
             \/ ExchangeUnavailable(p) \/ SaveTokens(p) \/ SaveRejection(p)
    BY <1>2, <2>2 DEF ReadAdopt, ReadNoToken, ExchangeLost, ExchangeUnavailable,
       SaveTokens, SaveRejection
  <2>3. CASE ReadPresent(p) \/ ExchangeOk(p) \/ ExchangeRejected(p)
    BY <2>3 DEF ReadPresent, ExchangeOk, ExchangeRejected
  <2> QED
    BY <1>3, <2>1, <2>2, <2>3 DEF AccessToken
<1>4. ASSUME NEW p \in Proc, Request(p) PROVE OnlyRefreshers'
  <2>1. CASE Call401(p)
    BY <2>1 DEF Call401
  <2>2. CASE CallOk(p) \/ Call401Again(p)
    <3>1. cmd[p] # "sync"
      OBVIOUS
    <3> QED
      BY <1>2, <2>2, <3>1 DEF CallOk, Call401Again
  <2> QED
    BY <1>4, <2>1, <2>2 DEF Request
<1>5. ASSUME NEW p \in Proc, Sync(p) \/ Login(p) PROVE FALSE
  BY <1>5 DEF Sync, SyncNextRequest, SyncLoad, SyncStore, SyncEnd, Login,
     LoginExchange, LoginFailed, LoginLoad, LoginSave
<1>6. ASSUME NEW p \in Proc, Crash(p) \/ Stick(p) PROVE OnlyRefreshers'
  BY <1>2, <1>6 DEF Crash, Stick, Leave
<1>7. CASE UNCHANGED vars \/ Revoke \/ \E t \in 1..issued : Expire(t)
  BY <1>7 DEF vars, Revoke, Expire
<1> QED
  BY <1>1, <1>3, <1>4, <1>5, <1>6, <1>7 DEF Next, Step

RereadInv == HeldInv /\ OnlyRefreshers /\ NoNeedlessRotation

\* Who posts has not moved, unless it has just compared the file with its dict.
LEMMA PostersStay ==
    ASSUME TypeOK, OnlyRefreshers, OnlyRefreshers', RunsOnly(Refreshers),
           [Next]_vars, NEW q \in Proc, pc'[q] = "post", ~ReadPresent(q)
    PROVE  pc[q] = "post" /\ mem'[q] = mem[q]
<1> USE DEF Goto, procVars, TypeOK, Critical
<1>1. ASSUME NEW p \in Proc, Exit(p) \/ Fail(p) \/ \E m : Return(p, m)
      PROVE  pc[q] = "post" /\ mem'[q] = mem[q]
  <2>1. CASE Exit(p)
    BY <2>1 DEF Exit, Leave
  <2>2. ASSUME NEW m, Return(p, m), cmd[p] # "refresh"
        PROVE  pc[q] = "post" /\ mem'[q] = mem[q]
    BY <2>2 DEF Return
  <2> QED
    BY <1>1, <2>1, <2>2, FailExits DEF Return
<1>2. ASSUME NEW p \in Proc, Start(p) PROVE pc[q] = "post" /\ mem'[q] = mem[q]
  BY <1>2 DEF Start, StartApi, StartRefresh, StartSync, StartAuth, Logout
<1>3. ASSUME NEW p \in Proc, AccessToken(p) PROVE pc[q] = "post" /\ mem'[q] = mem[q]
  <2>1. CASE CheckCached(p) \/ AcquireTokenLock(p) \/ TokenLockTimeout(p)
             \/ ReadPresent(p) \/ ExchangeOk(p) \/ ExchangeRejected(p)
    BY <2>1 DEF CheckCached, AcquireTokenLock, TokenLockTimeout, ReadPresent,
       ExchangeOk, ExchangeRejected
  <2>2. CASE ReadAdopt(p) \/ ReadNoToken(p) \/ ExchangeLost(p)
             \/ ExchangeUnavailable(p) \/ SaveTokens(p) \/ SaveRejection(p)
    BY <1>1, <2>2 DEF ReadAdopt, ReadNoToken, ExchangeLost, ExchangeUnavailable,
       SaveTokens, SaveRejection
  <2> QED
    BY <1>3, <2>1, <2>2 DEF AccessToken
<1>4. ASSUME NEW p \in Proc, Request(p) \/ Sync(p) \/ Login(p)
      PROVE  pc[q] = "post" /\ mem'[q] = mem[q]
  BY <1>1, <1>4 DEF Request, CallOk, Call401, Call401Again, Sync, SyncNextRequest,
     SyncLoad, SyncStore, SyncEnd, Login, LoginExchange, LoginFailed, LoginLoad,
     LoginSave
<1>5. ASSUME NEW p \in Proc, Crash(p) \/ Stick(p) PROVE pc[q] = "post" /\ mem'[q] = mem[q]
  BY <1>1, <1>5 DEF Crash, Stick, Leave
<1>6. CASE UNCHANGED vars \/ Revoke \/ \E t \in 1..issued : Expire(t)
  BY <1>6 DEF vars, Revoke, Expire
<1> QED
  BY <1>2, <1>3, <1>4, <1>5, <1>6 DEF Next, Step

\* While a process posts, nobody else writes the file, but a logout may remove it.
LEMMA FileStays ==
    ASSUME HeldInv, OnlyRefreshers, [Next]_vars,
           NEW q \in Proc, pc[q] = "post", pc'[q] = "post"
    PROVE  (disk' = disk \/ disk' = EmptyState) /\ stale \subseteq stale'
<1>1. \A p \in Proc : pc[p] \in {"save", "reject"} => p = q
  BY DEF HeldInv, Inside, Critical
<1>2. ASSUME NEW p \in Proc, SaveTokens(p) \/ SaveRejection(p) PROVE FALSE
  <2>1. p = q
    BY <1>1, <1>2 DEF SaveTokens, SaveRejection
  <2> QED
    BY <1>2, <2>1 DEF SaveTokens, SaveRejection
<1>3. ASSUME NEW p \in Proc, AccessToken(p) PROVE disk' = disk /\ stale' = stale
  BY <1>2, <1>3 DEF AccessToken, CheckCached, AcquireTokenLock, TokenLockTimeout,
     ReadAdopt, ReadNoToken, ReadPresent, ExchangeOk, ExchangeLost,
     ExchangeUnavailable, ExchangeRejected
<1>4. ASSUME NEW p \in Proc, Start(p) PROVE (disk' = disk \/ disk' = EmptyState) /\ stale' = stale
  BY <1>4 DEF Start, StartApi, StartRefresh, StartSync, StartAuth, Logout
<1>5. ASSUME NEW p \in Proc, Request(p) \/ Crash(p) \/ Stick(p)
      PROVE  disk' = disk /\ stale' = stale
  BY <1>5 DEF Request, CallOk, Call401, Call401Again, Crash, Stick
<1>6. ASSUME NEW p \in Proc, Sync(p) \/ Login(p) PROVE FALSE
  BY <1>6 DEF Sync, SyncNextRequest, SyncLoad, SyncStore, SyncEnd, Login,
     LoginExchange, LoginFailed, LoginLoad, LoginSave, OnlyRefreshers, Critical
<1>7. CASE UNCHANGED vars \/ Revoke \/ \E t \in 1..issued : Expire(t)
  BY <1>7 DEF vars, Revoke, Expire
<1> QED
  BY <1>3, <1>4, <1>5, <1>6, <1>7 DEF Next, Step

LEMMA RereadStep ==
    ASSUME "timeout" \notin Faults, RunsOnly(Refreshers), RereadInv, [Next]_vars
    PROVE  RereadInv'
<1>1. HeldInv' /\ OnlyRefreshers'
  BY HeldStep, RefreshersStep DEF RereadInv, HeldInv
<1>2. ASSUME NEW q \in Proc, pc'[q] = "post"
      PROVE  ~Fresh(disk)' \/ disk'.at = mem'[q].at
  <2>1. CASE ReadPresent(q)
    BY <2>1 DEF ReadPresent, Fresh
  <2>2. CASE ~ReadPresent(q)
    <3>1. pc[q] = "post" /\ mem'[q] = mem[q]
      BY <1>1, <1>2, <2>2, PostersStay DEF RereadInv, HeldInv
    <3>2. (disk' = disk \/ disk' = EmptyState) /\ stale \subseteq stale'
      BY <1>2, <3>1, FileStays DEF RereadInv
    <3> QED
      BY <3>1, <3>2 DEF RereadInv, NoNeedlessRotation, Fresh, EmptyState
  <2> QED
    BY <2>1, <2>2
<1> QED
  BY <1>1, <1>2 DEF RereadInv, NoNeedlessRotation

\* Commands that write state.json only inside the lock, and logouts, rotate nothing
\* in vain, whoever dies, hangs or loses an answer: who posts found no token in the
\* file that would have done instead.
THEOREM NothingRotatedInVain ==
    ASSUME "timeout" \notin Faults, RunsOnly(Refreshers)
    PROVE  Spec => []NoNeedlessRotation
<1>1. Init => RereadInv
  BY HeldInit DEF Init, RereadInv, OnlyRefreshers, NoNeedlessRotation
<1>2. RereadInv /\ [Next]_vars => RereadInv'
  BY RereadStep
<1>3. RereadInv => NoNeedlessRotation
  BY DEF RereadInv
<1> QED
  BY <1>1, <1>2, <1>3, PTL DEF Spec

-----------------------------------------------------------------------------
(* What the token lock is for.  With commands that write state.json only   *)
(* inside it, and nobody dying in an exchange or giving up the wait, the   *)
(* file a process read under the lock is still the file when it writes; so *)
(* the token it presents is the one the server accepts, and the token it   *)
(* is given reaches the file.  A process that hangs keeps the lock, so     *)
(* that nobody presents what it left behind.                               *)

Disciplined ==
    /\ RunsOnly({"api", "refresh"})
    /\ Faults \subseteq {"revoke", "refuse", "stuck"}

\* GrantOnDisk, but for an answer that a process hangs with.
GrantKept == live # {} /\ (\A p \in Proc : pc[p] \notin {"save", "stuck"})
                => disk.rt \in live

LockedInv ==
    /\ HeldInv
    /\ OnlyRefreshers
    /\ live \subseteq 1..issued
    /\ GrantKept
    /\ "refuse" \notin Faults => MarkMeansGone
    /\ \A p \in Proc :
        /\ pc[p] = "stuck" => "stuck" \in Faults
        /\ pc[p] \in {"post", "save", "reject"} => cur[p] = disk
        /\ pc[p] = "save" =>
              live = {} \/ (IF body[p].rt # NoToken THEN body[p].rt ELSE disk.rt) \in live
        /\ pc[p] = "reject" => live = {} \/ "refuse" \in Faults

LEMMA LockedInit == Init => LockedInv
<1> SUFFICES ASSUME Init PROVE LockedInv
  OBVIOUS
<1>1. HeldInv
  BY HeldInit
<1>2. live \subseteq 1..issued
  BY DEF Init
<1>3. OnlyRefreshers /\ GrantKept /\ MarkMeansGone
  BY DEF Init, OnlyRefreshers, GrantKept, MarkMeansGone
<1> QED
  BY <1>1, <1>2, <1>3 DEF Init, LockedInv

\* While one is inside the lock, nobody else has an answer or hangs with one.
LEMMA LoneHolder ==
    ASSUME LockedInv, NEW p \in Proc, pc[p] \in {"read", "post", "reject"}
    PROVE  /\ lock = {p}
           /\ \A q \in Proc : pc[q] \notin {"save", "stuck"}
           /\ live # {} => disk.rt \in live
<1>1. lock = {p}
  BY DEF LockedInv, HeldInv, Inside, Critical
<1>2. \A q \in Proc : pc[q] \notin {"save", "stuck"}
  BY <1>1 DEF LockedInv, HeldInv, Inside, Critical
<1> QED
  BY <1>1, <1>2 DEF LockedInv, GrantKept

\* Steps that leave the file and the server alone.
LEMMA LockedFrame ==
    ASSUME LockedInv, HeldInv', OnlyRefreshers', NEW p \in Proc,
           disk' = disk, issued' = issued, live' = live,
           \A q \in Proc \ {p} : pc'[q] = pc[q] /\ cur'[q] = cur[q] /\ body'[q] = body[q],
           pc[p] \notin {"save", "stuck"} \/ pc'[p] = "stuck",
           pc'[p] # "save",
           pc'[p] = "stuck" => "stuck" \in Faults,
           pc'[p] \in {"post", "reject"} => cur'[p] = disk,
           pc'[p] = "reject" => live = {} \/ "refuse" \in Faults
    PROVE  LockedInv'
<1>1. GrantKept' /\ ("refuse" \notin Faults => MarkMeansGone') /\ (live \subseteq 1..issued)'
  BY DEF LockedInv, GrantKept, MarkMeansGone
<1>2. ASSUME NEW q \in Proc
      PROVE  /\ pc'[q] = "stuck" => "stuck" \in Faults
             /\ pc'[q] \in {"post", "save", "reject"} => cur'[q] = disk'
             /\ pc'[q] = "save" =>
                   live' = {}
                   \/ (IF body'[q].rt # NoToken THEN body'[q].rt ELSE disk'.rt) \in live'
             /\ pc'[q] = "reject" => live' = {} \/ "refuse" \in Faults
  <2>1. CASE q = p
    BY <2>1
  <2>2. CASE q # p
    BY <2>2 DEF LockedInv
  <2> QED
    BY <2>1, <2>2
<1> QED
  BY <1>1, <1>2 DEF LockedInv

LEMMA LockedStart ==
    ASSUME Disciplined, LockedInv, HeldInv', OnlyRefreshers', NEW p \in Proc, Start(p)
    PROVE  LockedInv'
<1>1. StartApi(p) \/ StartRefresh(p)
  BY DEF Start, StartSync, StartAuth, Logout, Disciplined, RunsOnly
<1> QED
  BY <1>1, LockedFrame DEF StartApi, StartRefresh, Goto, LockedInv, HeldInv, TypeOK,
     serverVars

LEMMA LockedExit ==
    ASSUME LockedInv, HeldInv', OnlyRefreshers', NEW p \in Proc,
           pc[p] \notin {"save", "stuck"},
           Exit(p) \/ Fail(p) \/ \E m : Return(p, m),
           UNCHANGED <<disk, serverVars, stale, records>>
    PROVE  LockedInv'
<1>1. CASE Exit(p)
  BY <1>1, LockedFrame DEF Exit, Leave, Goto, LockedInv, HeldInv, TypeOK, serverVars
<1>2. ASSUME NEW m, Return(p, m), cmd[p] # "refresh" PROVE LockedInv'
  BY <1>2, LockedFrame DEF Return, Goto, LockedInv, HeldInv, TypeOK, serverVars
<1> QED
  BY <1>1, <1>2, FailExits DEF Return, LockedInv

LEMMA LockedExchange ==
    ASSUME LockedInv, HeldInv', OnlyRefreshers', NEW p \in Proc, ExchangeOk(p)
    PROVE  LockedInv'
<1>1. PICK rotate \in Rotation :
          /\ Rotate(Presented(p), rotate)
          /\ body' = [body EXCEPT ![p] =
                 [at |-> issued + 1, rt |-> IF rotate THEN issued + 1 ELSE NoToken]]
  BY DEF ExchangeOk
<1>2. /\ pc[p] = "post" /\ pc' = [pc EXCEPT ![p] = "save"]
      /\ Presented(p) \in live
      /\ UNCHANGED <<disk, cmd, mem, cur, lock, stale>>
  BY DEF ExchangeOk, Goto
<1>3. issued \in Nat /\ issued' = issued + 1 /\ live \subseteq 1..issued
  BY <1>1 DEF LockedInv, HeldInv, TypeOK, Rotate
<1>4. /\ cur[p] = disk
      /\ \A q \in Proc : pc[q] \notin {"save", "stuck"}
      /\ disk.rt \in live
      /\ \A q \in Proc \ {p} : pc[q] \notin Critical
  BY <1>2, LoneHolder DEF LockedInv, HeldInv, Inside
<1>5. /\ live' \subseteq 1..issued'
      /\ (IF body'[p].rt # NoToken THEN body'[p].rt ELSE disk.rt) \in live'
  <2>1. CASE rotate
    <3>1. live' = (live \ {Presented(p)}) \cup {issued + 1}
      BY <1>1, <2>1 DEF Rotate
    <3>2. body'[p].rt = issued + 1
      BY <1>1, <2>1 DEF LockedInv, HeldInv, TypeOK
    <3>3. issued + 1 \in 1..issued' /\ 1..issued \subseteq 1..issued' /\ issued + 1 # NoToken
      BY <1>3 DEF NoToken
    <3>4. live' \subseteq 1..issued' /\ issued + 1 \in live'
      BY <1>3, <3>1, <3>3
    <3> QED
      BY <3>2, <3>3, <3>4
  <2>2. CASE ~rotate
    <3>1. live' = live
      BY <1>1, <2>2 DEF Rotate
    <3>2. body'[p].rt = NoToken
      BY <1>1, <2>2 DEF LockedInv, HeldInv, TypeOK
    <3>3. live' \subseteq 1..issued'
      BY <1>3, <3>1
    <3> QED
      BY <1>4, <3>1, <3>2, <3>3
  <2> QED
    BY <2>1, <2>2
<1>6. "refuse" \notin Faults => MarkMeansGone'
  BY <1>2 DEF LockedInv, MarkMeansGone
<1>7. pc'[p] = "save" /\ \A q \in Proc \ {p} : pc'[q] = pc[q]
  BY <1>2 DEF LockedInv, HeldInv, TypeOK
<1>8. GrantKept'
  BY <1>7 DEF GrantKept
<1>9. ASSUME NEW q \in Proc
      PROVE  /\ pc'[q] = "stuck" => "stuck" \in Faults
             /\ pc'[q] \in {"post", "save", "reject"} => cur'[q] = disk'
             /\ pc'[q] = "save" =>
                   live' = {}
                   \/ (IF body'[q].rt # NoToken THEN body'[q].rt ELSE disk'.rt) \in live'
             /\ pc'[q] = "reject" => live' = {} \/ "refuse" \in Faults
  <2>1. CASE q = p
    BY <1>2, <1>4, <1>5, <1>7, <2>1
  <2>2. CASE q # p
    BY <1>4, <1>7, <2>2 DEF Critical
  <2> QED
    BY <2>1, <2>2
<1> QED
  BY <1>5, <1>6, <1>8, <1>9 DEF LockedInv

LEMMA LockedSave ==
    ASSUME LockedInv, HeldInv', OnlyRefreshers', NEW p \in Proc,
           SaveTokens(p) \/ SaveRejection(p)
    PROVE  LockedInv'
<1>1. /\ pc[p] \in {"save", "reject"} /\ cur[p] = disk
      /\ disk \in State /\ body[p] \in Body
      /\ \A q \in Proc \ {p} : pc[q] \notin Inside
      /\ UNCHANGED serverVars
  BY DEF SaveTokens, SaveRejection, LockedInv, HeldInv, TypeOK, Inside, Critical
<1>2. pc'[p] \in {"idle", "call"} /\ \A q \in Proc \ {p} : pc'[q] = pc[q]
  BY <1>1, FailExits DEF SaveTokens, SaveRejection, Exit, Leave, Return, Goto, LockedInv,
     HeldInv, TypeOK
<1>3. ("refuse" \notin Faults => MarkMeansGone') /\ GrantKept'
  <2>1. CASE SaveTokens(p)
    <3>1. disk' = Merge(disk, body[p]) /\ pc[p] = "save"
      BY <1>1, <2>1 DEF SaveTokens
    <3>2. /\ disk'.rt = (IF body[p].rt # NoToken THEN body[p].rt ELSE disk.rt)
          /\ ~disk'.rej
      BY <1>1, <3>1 DEF Merge, State
    <3> QED
      BY <1>1, <3>1, <3>2 DEF LockedInv, MarkMeansGone, GrantKept, serverVars
  <2>2. CASE SaveRejection(p)
    <3>1. pc[p] = "reject" /\ disk'.rt = disk.rt
      BY <1>1, <2>2 DEF SaveRejection, State
    <3>2. live # {} => disk.rt \in live
      BY <3>1, LoneHolder
    <3> QED
      BY <1>1, <3>1, <3>2 DEF LockedInv, MarkMeansGone, GrantKept, serverVars
  <2> QED
    BY <2>1, <2>2
<1>4. \A q \in Proc : pc'[q] \notin Inside
  BY <1>1, <1>2 DEF Inside, Critical
<1>5. (live \subseteq 1..issued)'
  BY <1>1 DEF LockedInv, serverVars
<1> QED
  BY <1>3, <1>4, <1>5 DEF LockedInv, Inside, Critical

LEMMA LockedAccessToken ==
    ASSUME Disciplined, LockedInv, HeldInv', OnlyRefreshers', NEW p \in Proc,
           AccessToken(p)
    PROVE  LockedInv'
<1>1. CASE CheckCached(p) \/ AcquireTokenLock(p)
  BY <1>1, LockedFrame DEF CheckCached, AcquireTokenLock, Goto, LockedInv, HeldInv, TypeOK,
     serverVars
<1>2. CASE TokenLockTimeout(p) \/ ExchangeLost(p)
  BY <1>2 DEF TokenLockTimeout, ExchangeLost, Disciplined
<1>3. CASE ReadAdopt(p) \/ ReadNoToken(p) \/ ExchangeUnavailable(p)
  BY <1>3, LockedExit DEF ReadAdopt, ReadNoToken, ExchangeUnavailable
<1>4. CASE ReadPresent(p)
  BY <1>4, LockedFrame DEF ReadPresent, Goto, LockedInv, HeldInv, TypeOK, serverVars
<1>5. CASE ExchangeRejected(p)
  <2>1. pc[p] = "post" /\ cur[p] = disk /\ (live # {} => disk.rt \in live)
    BY <1>5, LoneHolder DEF ExchangeRejected, LockedInv
  <2>2. 0 \notin live
    BY DEF LockedInv
  <2>3. UNCHANGED <<issued, live>> /\ (live = {} \/ "refuse" \in Faults)
    BY <1>5, <2>1, <2>2 DEF ExchangeRejected, Presented, NoToken, Disciplined
  <2> QED
    BY <1>5, <2>1, <2>3, LockedFrame DEF ExchangeRejected, Goto, LockedInv, HeldInv, TypeOK
<1>6. CASE ExchangeOk(p)
  BY <1>6, LockedExchange
<1>7. CASE SaveTokens(p) \/ SaveRejection(p)
  BY <1>7, LockedSave
<1> QED
  BY <1>1, <1>2, <1>3, <1>4, <1>5, <1>6, <1>7 DEF AccessToken

LEMMA LockedStep ==
    ASSUME Disciplined, LockedInv, [Next]_vars
    PROVE  LockedInv'
<1>1. HeldInv' /\ OnlyRefreshers'
  BY HeldStep, RefreshersStep DEF Disciplined, Refreshers, RunsOnly, LockedInv, HeldInv
<1>2. ASSUME NEW p \in Proc, Start(p) PROVE LockedInv'
  BY <1>1, <1>2, LockedStart
<1>3. ASSUME NEW p \in Proc, AccessToken(p) PROVE LockedInv'
  BY <1>1, <1>3, LockedAccessToken
<1>4. ASSUME NEW p \in Proc, Request(p) PROVE LockedInv'
  <2>1. CASE Call401(p)
    BY <1>1, <2>1, LockedFrame DEF Call401, Goto, LockedInv, HeldInv, TypeOK, serverVars
  <2>2. CASE CallOk(p) \/ Call401Again(p)
    <3>1. cmd[p] # "sync" /\ pc[p] = "call"
      BY <2>2 DEF LockedInv, OnlyRefreshers, CallOk, Call401Again
    <3> QED
      BY <1>1, <2>2, <3>1, LockedExit DEF CallOk, Call401Again
  <2> QED
    BY <1>4, <2>1, <2>2 DEF Request
<1>5. ASSUME NEW p \in Proc, Sync(p) \/ Login(p) \/ Crash(p) PROVE FALSE
  BY <1>5 DEF Sync, SyncNextRequest, SyncLoad, SyncStore, SyncEnd, Login,
     LoginExchange, LoginFailed, LoginLoad, LoginSave, Crash,
     Disciplined, LockedInv, OnlyRefreshers, Critical
<1>6. ASSUME NEW p \in Proc, Stick(p) PROVE LockedInv'
  BY <1>1, <1>6, LockedFrame DEF Stick, Leave, Goto, LockedInv, HeldInv, TypeOK, serverVars
<1>7. CASE UNCHANGED vars \/ \E t \in 1..issued : Expire(t)
  BY <1>1, <1>7 DEF vars, Expire, procVars, serverVars, LockedInv, GrantKept, MarkMeansGone
<1>8. CASE Revoke
  BY <1>1, <1>8 DEF Revoke, procVars, LockedInv, GrantKept, MarkMeansGone
<1> QED
  BY <1>2, <1>3, <1>4, <1>5, <1>6, <1>7, <1>8 DEF Next, Step

LEMMA LockedAlways == ASSUME Disciplined PROVE Spec => []LockedInv
<1>1. Init => LockedInv
  BY LockedInit
<1>2. LockedInv /\ [Next]_vars => LockedInv'
  BY LockedStep
<1> QED
  BY <1>1, <1>2, PTL DEF Spec

\* Among commands that only refresh, the newest token is on disk for the next run
\* whenever no answer is about to be saved; a refusal or a revocation may happen, but
\* nobody may die, hang, give up the wait or lose an answer.
THEOREM LockKeepsTheGrant ==
    ASSUME Disciplined, "stuck" \notin Faults
    PROVE  Spec => []GrantOnDisk
<1>1. LockedInv => GrantOnDisk
  BY DEF LockedInv, GrantKept, GrantOnDisk
<1> QED
  BY LockedAlways, <1>1, PTL

\* Among such commands no process ever posts a refresh token that is spent while
\* the grant lives, even when another one hangs with the lock and an answer.
THEOREM NothingReplayed ==
    ASSUME Disciplined
    PROVE  Spec => []NoReplay
<1>1. LockedInv => NoReplay
  <2> SUFFICES ASSUME LockedInv, live # {}, NEW p \in Proc, pc[p] = "post"
               PROVE  Presented(p) \in live
    BY DEF NoReplay
  <2>1. disk.rt \in live /\ cur[p] = disk
    BY LoneHolder DEF LockedInv
  <2>2. 0 \notin live
    BY DEF LockedInv
  <2> QED
    BY <2>1, <2>2 DEF Presented, NoToken
<1> QED
  BY LockedAlways, <1>1, PTL

\* Among such commands, unless the token endpoint refuses a good token, the rejection mark is
\* on disk only when the grant is gone.
THEOREM MarkIsTrue ==
    ASSUME Disciplined, "refuse" \notin Faults
    PROVE  Spec => []MarkMeansGone
<1>1. LockedInv => MarkMeansGone
  BY DEF LockedInv
<1> QED
  BY LockedAlways, <1>1, PTL

-----------------------------------------------------------------------------
(* The refinement: the lock is the turn, the refresh token in the file is  *)
(* the stored one.  A step of the server is the abstract rotation because  *)
(* what a process read under the lock is still the file when it posts; a   *)
(* step that releases the lock ends the turn because by then the answer is *)
(* on disk.  Who hangs never ends its turn.                                *)

ChainStep == [Chain!GrantNext]_(Chain!chainVars)

LEMMA ChainInit == Init => Chain!GrantInit
BY DEF Init, Chain!GrantInit

\* Steps that leave the token, the server and the lock alone are stutters.
LEMMA ChainStutter ==
    ASSUME disk'.rt = disk.rt, live' = live, lock' = lock
    PROVE  ChainStep
BY DEF ChainStep, Chain!chainVars

LEMMA ChainEndTurn ==
    ASSUME NEW p \in Proc, lock = {p}, lock' = {}, live' = live,
           live' = {} \/ disk'.rt \in live'
    PROVE  ChainStep
<1>1. Chain!EndTurn(p)
  BY DEF Chain!EndTurn, Chain!InStep
<1> QED
  BY <1>1 DEF ChainStep, Chain!GrantNext

\* A process that leaves without writing, inside the lock or outside.
LEMMA ChainLeave ==
    ASSUME LockedInv, NEW p \in Proc, pc[p] \notin {"save", "stuck"},
           Exit(p) \/ Fail(p) \/ \E s : Return(p, s),
           disk' = disk, UNCHANGED serverVars
    PROVE  ChainStep
<1>1. lock' = lock \ {p} /\ live' = live
  BY FailExits DEF Exit, Return, serverVars, LockedInv
<1>2. CASE p \notin lock
  BY <1>1, <1>2, ChainStutter
<1>3. CASE p \in lock
  <2>1. pc[p] \in {"read", "post", "reject"}
    BY <1>3 DEF LockedInv, HeldInv, Inside, Critical
  <2>2. lock = {p} /\ (live = {} \/ disk.rt \in live)
    BY <2>1, LoneHolder
  <2> QED
    BY <1>1, <2>2, ChainEndTurn
<1> QED
  BY <1>2, <1>3

LEMMA ChainExchange ==
    ASSUME LockedInv, NEW p \in Proc, ExchangeOk(p)
    PROVE  ChainStep
<1>1. PICK rotate \in Rotation : Rotate(Presented(p), rotate)
  BY DEF ExchangeOk
<1>2. pc[p] = "post" /\ Presented(p) \in live /\ UNCHANGED <<disk, lock>>
  BY DEF ExchangeOk
<1>3. lock = {p} /\ cur[p] = disk /\ disk.rt \in live
  BY <1>2, LoneHolder DEF LockedInv
<1>4. issued \in Nat /\ live \subseteq 1..issued
  BY DEF LockedInv, HeldInv, TypeOK
<1>5. issued + 1 \notin live /\ disk.rt # NoToken
  BY <1>3, <1>4 DEF NoToken
<1>6. Presented(p) = disk.rt
  BY <1>3, <1>5 DEF Presented
<1>7. CASE rotate
  <2>1. live' = (live \ {disk.rt}) \cup {issued + 1}
    BY <1>1, <1>6, <1>7 DEF Rotate
  <2>2. issued + 1 \in live' \ live
    BY <1>5, <2>1
  <2>3. Chain!RotateStored(p)
    BY <1>2, <1>3, <1>6, <2>1, <2>2 DEF Chain!RotateStored
  <2> QED
    BY <2>3 DEF ChainStep, Chain!GrantNext
<1>8. CASE ~rotate
  <2>1. live' = live
    BY <1>1, <1>8 DEF Rotate
  <2> QED
    BY <1>2, <2>1, ChainStutter
<1> QED
  BY <1>7, <1>8

LEMMA ChainSave ==
    ASSUME LockedInv, LockedInv', NEW p \in Proc,
           SaveTokens(p) \/ SaveRejection(p)
    PROVE  ChainStep
<1>1. lock = {p} /\ live' = live
  BY DEF SaveTokens, SaveRejection, LockedInv, HeldInv, Inside, Critical, serverVars
<1>2. lock' = {}
  BY <1>1, FailExits DEF SaveTokens, SaveRejection, Exit, Return, LockedInv
<1>3. \A q \in Proc : pc'[q] \notin {"save", "stuck"}
  BY <1>2 DEF LockedInv, HeldInv, Inside, Critical
<1>4. live' = {} \/ disk'.rt \in live'
  BY <1>3 DEF LockedInv, GrantKept
<1> QED
  BY <1>1, <1>2, <1>4, ChainEndTurn

LEMMA ChainAccessToken ==
    ASSUME Disciplined, LockedInv, LockedInv', NEW p \in Proc, AccessToken(p)
    PROVE  ChainStep
<1>1. CASE CheckCached(p) \/ ReadPresent(p) \/ ExchangeRejected(p)
  BY <1>1, ChainStutter DEF CheckCached, ReadPresent, ExchangeRejected, serverVars,
     Disciplined
<1>2. CASE AcquireTokenLock(p)
  <2>1. Chain!TakeTurn(p)
    BY <1>2 DEF AcquireTokenLock, Chain!TakeTurn, serverVars
  <2> QED
    BY <2>1 DEF ChainStep, Chain!GrantNext
<1>3. CASE TokenLockTimeout(p) \/ ExchangeLost(p)
  BY <1>3 DEF TokenLockTimeout, ExchangeLost, Disciplined
<1>4. CASE ReadAdopt(p) \/ ReadNoToken(p) \/ ExchangeUnavailable(p)
  BY <1>4, ChainLeave DEF ReadAdopt, ReadNoToken, ExchangeUnavailable
<1>5. CASE ExchangeOk(p)
  BY <1>5, ChainExchange
<1>6. CASE SaveTokens(p) \/ SaveRejection(p)
  BY <1>6, ChainSave
<1> QED
  BY <1>1, <1>2, <1>3, <1>4, <1>5, <1>6 DEF AccessToken

LEMMA ChainStepMaps ==
    ASSUME Disciplined, LockedInv, LockedInv', [Next]_vars
    PROVE  ChainStep
<1>1. ASSUME NEW p \in Proc, Start(p) PROVE ChainStep
  BY <1>1, ChainStutter DEF Start, StartApi, StartRefresh, StartSync, StartAuth,
     Logout, Disciplined, RunsOnly, serverVars
<1>2. ASSUME NEW p \in Proc, AccessToken(p) PROVE ChainStep
  BY <1>2, ChainAccessToken
<1>3. ASSUME NEW p \in Proc, Request(p) PROVE ChainStep
  <2>1. CASE Call401(p)
    BY <2>1, ChainStutter DEF Call401, serverVars
  <2>2. CASE CallOk(p) \/ Call401Again(p)
    <3>1. cmd[p] # "sync" /\ pc[p] = "call"
      BY <2>2 DEF LockedInv, OnlyRefreshers, CallOk, Call401Again
    <3> QED
      BY <2>2, <3>1, ChainLeave DEF CallOk, Call401Again
  <2> QED
    BY <1>3, <2>1, <2>2 DEF Request
<1>4. ASSUME NEW p \in Proc, Sync(p) \/ Login(p) \/ Crash(p) PROVE FALSE
  BY <1>4 DEF Sync, SyncNextRequest, SyncLoad, SyncStore, SyncEnd, Login,
     LoginExchange, LoginFailed, LoginLoad, LoginSave, Crash,
     Disciplined, LockedInv, OnlyRefreshers, Critical
<1>5. CASE (\E p \in Proc : Stick(p)) \/ (\E t \in 1..issued : Expire(t)) \/ UNCHANGED vars
  BY <1>5, ChainStutter DEF Stick, Expire, vars, serverVars
<1>6. CASE Revoke
  <2>1. Chain!Withdraw
    BY <1>6 DEF Revoke, Chain!Withdraw
  <2> QED
    BY <2>1 DEF ChainStep, Chain!GrantNext
<1> QED
  BY <1>1, <1>2, <1>3, <1>4, <1>5, <1>6 DEF Next, Step

\* The token life cycle of commands that only refresh implements the abstract
\* chain of single-use tokens: exchanges come in turns, each presents the stored
\* token, and every turn that ends leaves a token in the file that works.
THEOREM ChainRefinement ==
    ASSUME Disciplined
    PROVE  Spec => ImplementsGrantChain
<1>1. Init => Chain!GrantInit
  BY ChainInit
<1>2. LockedInv /\ LockedInv' /\ [Next]_vars => [Chain!GrantNext]_(Chain!chainVars)
  BY ChainStepMaps DEF ChainStep
<1> QED
  BY LockedAlways, <1>1, <1>2, PTL DEF Spec, ImplementsGrantChain, Chain!GrantSpec
=============================================================================
