------------------------ MODULE PlatformServiceProofs ------------------------
(***************************************************************************)
(* The services around the trading core: proofs for any number of clients, *)
(* agents, users, monitors, symbols, runs and workers, with any delay of a *)
(* statement, any error and any crash.  The components share no            *)
(* state; each has a section with its inductive invariant and its theorem. *)
(***************************************************************************)
EXTENDS WorkerLease, ProviderToken, Collector, OperationsAlerts, AgentRequests, ExchangeConnections, Promotion,
        Screener, SumsAndExtrema

-----------------------------------------------------------------------------
(* The token of the provider.                                              *)

\* A request that nobody disturbs sends the token on file; the one that it was issued,
\* and the one of its second try, is accepted.
UndisturbedIsAccepted(c) ==
    ~disturbed[c] =>
        /\ tAt[c] \in {"send", "refresh"} => tHeld[c] = tokenFile
        /\ tAt[c] = "write" => tHeld[c] \in accepted
        /\ tAt[c] = "send" /\ tTry[c] # 1 => tHeld[c] \in accepted
        /\ tAt[c] # "refused"

TokenInv ==
    /\ DOMAIN tAt = Clients /\ DOMAIN tHeld = Clients /\ DOMAIN tTry = Clients
    /\ disturbed \in [Clients -> BOOLEAN] /\ issued \in Nat
    /\ \A c \in Clients : UndisturbedIsAccepted(c)

\* Nobody writes the file, issues or revokes a token beside an undisturbed request.
LEMMA OthersDisturb ==
  ASSUME TokenInv, NEW c \in Clients, DisturbOthers(c), NEW d \in Clients \ {c},
         tAt'[d] = tAt[d], tHeld'[d] = tHeld[d], tTry'[d] = tTry[d]
  PROVE  UndisturbedIsAccepted(d)'
<1>1. disturbed'[d] <=> disturbed[d] \/ tAt[d] # "idle" BY DEF DisturbOthers, TokenInv
<1>2. CASE tAt[d] = "idle" BY <1>2 DEF UndisturbedIsAccepted
<1>3. CASE tAt[d] # "idle" BY <1>1, <1>3 DEF UndisturbedIsAccepted
<1> QED BY <1>2, <1>3

\* A request whose own step changes nothing that the others see.
LEMMA OthersStay ==
  ASSUME TokenInv, NEW d \in Clients,
         tAt'[d] = tAt[d], tHeld'[d] = tHeld[d], tTry'[d] = tTry[d], disturbed'[d] = disturbed[d],
         UNCHANGED <<tokenFile, accepted>>
  PROVE  UndisturbedIsAccepted(d)'
  BY DEF TokenInv, UndisturbedIsAccepted

LEMMA TokenStep == TokenInv /\ [TokenNext]_tokenVars => TokenInv'
<1> SUFFICES ASSUME TokenInv, [TokenNext]_tokenVars PROVE TokenInv' OBVIOUS
<1> USE DEF TokenInv
<1>1. CASE UNCHANGED tokenVars BY <1>1 DEF tokenVars, UndisturbedIsAccepted
<1>2. CASE TokenExpires BY <1>2 DEF TokenExpires, UndisturbedIsAccepted
<1>3. ASSUME NEW t \in accepted, RevokeToken(t) PROVE TokenInv'
  <2>1. \A d \in Clients : disturbed'[d] <=> disturbed[d] \/ tAt[d] # "idle" BY <1>3 DEF RevokeToken
  <2>2. \A d \in Clients : UndisturbedIsAccepted(d)' BY <1>3, <2>1 DEF RevokeToken, UndisturbedIsAccepted
  <2> QED BY <1>3, <2>2 DEF RevokeToken
<1>4. ASSUME NEW c \in Clients, BeginTokenRequest(c) PROVE TokenInv'
  <2>1. UndisturbedIsAccepted(c)' BY <1>4 DEF BeginTokenRequest, UndisturbedIsAccepted, Cached
  <2>2. \A d \in Clients \ {c} : UndisturbedIsAccepted(d)' BY <1>4, OthersStay DEF BeginTokenRequest
  <2> QED BY <1>4, <2>1, <2>2 DEF BeginTokenRequest
<1>5. ASSUME NEW c \in Clients, GenerateToken(c) PROVE TokenInv'
  <2>1. UndisturbedIsAccepted(c)' BY <1>5 DEF GenerateToken, Issue, DisturbOthers, UndisturbedIsAccepted
  <2>2. \A d \in Clients \ {c} : UndisturbedIsAccepted(d)' BY <1>5, OthersDisturb DEF GenerateToken, Issue
  <2> QED BY <1>5, <2>1, <2>2 DEF GenerateToken, Issue, DisturbOthers
<1>6. ASSUME NEW c \in Clients, GenerateAnswerLost(c) PROVE TokenInv'
  <2>1. UndisturbedIsAccepted(c)' BY <1>6 DEF GenerateAnswerLost, Issue, DisturbOthers, UndisturbedIsAccepted
  <2>2. \A d \in Clients \ {c} : UndisturbedIsAccepted(d)' BY <1>6, OthersDisturb DEF GenerateAnswerLost, Issue
  <2> QED BY <1>6, <2>1, <2>2 DEF GenerateAnswerLost, Issue, DisturbOthers
<1>7. ASSUME NEW c \in Clients, WriteToken(c) PROVE TokenInv'
  <2>1. UndisturbedIsAccepted(c)' BY <1>7 DEF WriteToken, DisturbOthers, UndisturbedIsAccepted
  <2>2. \A d \in Clients \ {c} : UndisturbedIsAccepted(d)' BY <1>7, OthersDisturb DEF WriteToken
  <2> QED BY <1>7, <2>1, <2>2 DEF WriteToken, DisturbOthers
<1>8. ASSUME NEW c \in Clients, SendRequest(c) PROVE TokenInv'
  <2>1. UndisturbedIsAccepted(c)' BY <1>8 DEF SendRequest, UndisturbedIsAccepted
  <2>2. \A d \in Clients \ {c} : UndisturbedIsAccepted(d)' BY <1>8, OthersStay DEF SendRequest
  <2> QED BY <1>8, <2>1, <2>2 DEF SendRequest
<1>9. ASSUME NEW c \in Clients, RefreshToken(c) PROVE TokenInv'
  <2>1. ~ disturbed[c] => ~ Reusable(c) BY <1>9 DEF RefreshToken, UndisturbedIsAccepted, Reusable, Cached
  <2>2. UndisturbedIsAccepted(c)' BY <1>9, <2>1 DEF RefreshToken, UndisturbedIsAccepted
  <2>3. \A d \in Clients \ {c} : UndisturbedIsAccepted(d)' BY <1>9, OthersStay DEF RefreshToken
  <2> QED BY <1>9, <2>2, <2>3 DEF RefreshToken
<1>10. ASSUME NEW c \in Clients, ProviderFails(c) PROVE TokenInv'
  <2>1. UndisturbedIsAccepted(c)' BY <1>10 DEF ProviderFails, UndisturbedIsAccepted
  <2>2. \A d \in Clients \ {c} : UndisturbedIsAccepted(d)' BY <1>10, OthersStay DEF ProviderFails
  <2> QED BY <1>10, <2>1, <2>2 DEF ProviderFails
<1> QED BY <1>1, <1>2, <1>3, <1>4, <1>5, <1>6, <1>7, <1>8, <1>9, <1>10 DEF TokenNext

\* One retry is enough, for any number of clients and tokens: a request whose token is
\* refused twice ran while another client replaced the token or the provider revoked one.
THEOREM RetryRecovers == TokenSpec => []OneRetryIsEnough
<1>1. TokenInit => TokenInv BY DEF TokenInit, TokenInv, UndisturbedIsAccepted
<1>2. TokenInv => OneRetryIsEnough BY DEF TokenInv, UndisturbedIsAccepted, OneRetryIsEnough
<1> QED BY <1>1, <1>2, TokenStep, PTL DEF TokenSpec

-----------------------------------------------------------------------------
(* The requests of agents.                                                 *)

AtWork == {"invoke", "complete", "fail"}
Submitted(s, key) == \E i \in 1 .. Len(s) : s[i][1] = key
\* The run is there, made for this key of this body.
IsRunOf(s, run, key, body) == run \in 1 .. Len(s) /\ s[run] = <<key, body>>

AgentTypes ==
    /\ submissions \in Seq(AgentKeys \X Bodies)
    /\ DOMAIN toolRequests = AgentKeys /\ DOMAIN call = Calls
    /\ \A k \in AgentKeys : DOMAIN toolRequests[k] = {"status", "body", "run"}
    /\ \A c \in Calls : /\ DOMAIN call[c] = {"at", "key", "body", "run"}
                        /\ call[c].at \in {"idle", "begin"} \cup AtWork
                        /\ call[c].at # "idle" => call[c].key \in AgentKeys /\ call[c].body \in Bodies

\* A call at work inserted the row of its key; a key is invoked only by that call.
WorkersOwnTheirRow ==
    /\ \A c \in Calls : call[c].at \in AtWork =>
         /\ toolRequests[call[c].key].status = "PENDING" /\ toolRequests[call[c].key].body = call[c].body
         /\ call[c].at = "invoke" => ~ Submitted(submissions, call[c].key)
         /\ call[c].at = "complete" => IsRunOf(submissions, call[c].run, call[c].key, call[c].body)
    /\ \A c, d \in Calls : call[c].at \in AtWork /\ call[d].at \in AtWork /\ call[c].key = call[d].key => c = d
    /\ \A k \in AgentKeys : toolRequests[k].status = "none" => ~ Submitted(submissions, k)

\* The row of a completed request, and every answer of success, name the run.
CompleteRowsNameTheRun ==
    /\ \A k \in AgentKeys : toolRequests[k].status = "COMPLETE" => IsRunOf(submissions, toolRequests[k].run, k, toolRequests[k].body)
    /\ \A a \in answered : a.outcome = "ok" => IsRunOf(submissions, a.run, a.key, a.body)
    /\ \A i, j \in 1 .. Len(submissions) : submissions[i][1] = submissions[j][1] => i = j

AgentInv == AgentTypes /\ WorkersOwnTheirRow /\ CompleteRowsNameTheRun

\* A call that begins, waits or ends beside the others leaves what they own to them.
LEMMA CallsStay ==
  ASSUME AgentInv, NEW c \in Calls, UNCHANGED <<toolRequests, submissions>>,
         \A d \in Calls \ {c} : call'[d] = call[d],
         \/ call'[c].at \notin AtWork
         \/ /\ call[c].at \in AtWork /\ call'[c].key = call[c].key /\ call'[c].body = call[c].body
            /\ call'[c].at = "fail"
  PROVE  WorkersOwnTheirRow'
<1>1. \A d \in Calls : call'[d].at \in AtWork =>
         /\ call[d].at \in AtWork /\ call'[d].key = call[d].key /\ call'[d].body = call[d].body
         /\ call'[d] = call[d] \/ call'[d].at = "fail"
  OBVIOUS
<1>2. \A d \in Calls : call'[d].at \in AtWork =>
         /\ toolRequests[call'[d].key].status = "PENDING" /\ toolRequests[call'[d].key].body = call'[d].body
         /\ call'[d].at = "invoke" => ~ Submitted(submissions, call'[d].key)
         /\ call'[d].at = "complete" => IsRunOf(submissions, call'[d].run, call'[d].key, call'[d].body)
  BY <1>1 DEF AgentInv, WorkersOwnTheirRow
<1>3. \A d, e \in Calls : call'[d].at \in AtWork /\ call'[e].at \in AtWork /\ call'[d].key = call'[e].key => d = e
  BY <1>1 DEF AgentInv, WorkersOwnTheirRow
<1>4. \A k \in AgentKeys : toolRequests'[k].status = "none" => ~ Submitted(submissions, k)
  BY DEF AgentInv, WorkersOwnTheirRow
<1> QED BY <1>2, <1>3, <1>4 DEF WorkersOwnTheirRow, Submitted, IsRunOf

\* Answers that are added do not take anything back.
LEMMA AnswersStay ==
  ASSUME AgentInv, NEW c \in Calls, NEW outcome, NEW run, Answer(c, outcome, run), UNCHANGED <<toolRequests, submissions>>,
         outcome = "ok" => IsRunOf(submissions, run, call[c].key, call[c].body)
  PROVE  CompleteRowsNameTheRun'
<1>1. \A a \in answered' : a.outcome = "ok" => IsRunOf(submissions, a.run, a.key, a.body)
  BY DEF Answer, AgentInv, CompleteRowsNameTheRun
<1> QED BY <1>1 DEF AgentInv, CompleteRowsNameTheRun, IsRunOf

LEMMA NoCallTypes ==
  ASSUME AgentTypes, NEW c \in Calls, call' = [call EXCEPT ![c] = NoCall], UNCHANGED <<toolRequests, submissions>>
  PROVE  AgentTypes' /\ call'[c].at \notin AtWork /\ \A d \in Calls \ {c} : call'[d] = call[d]
  BY DEF AgentTypes, NoCall, AtWork

LEMMA AuthenticateStep ==
  ASSUME AgentInv, NEW c \in Calls, NEW key \in AgentKeys, NEW body \in Bodies, Authenticate(c, key, body)
  PROVE  AgentInv'
<1>1. AgentTypes' BY DEF AgentInv, AgentTypes, Authenticate, NoCall, AtWork
<1>2. call'[c].at \notin AtWork /\ \A d \in Calls \ {c} : call'[d] = call[d] BY DEF AgentInv, AgentTypes, Authenticate, NoCall, AtWork
<1>3. WorkersOwnTheirRow' BY <1>2, CallsStay DEF Authenticate
<1>4. CompleteRowsNameTheRun' BY DEF AgentInv, CompleteRowsNameTheRun, Authenticate, IsRunOf
<1> QED BY <1>1, <1>3, <1>4 DEF AgentInv

LEMMA BeginToolRequestStep ==
  ASSUME AgentInv, NEW c \in Calls, BeginToolRequest(c)
  PROVE  AgentInv'
<1> DEFINE key == call[c].key
           body == call[c].body
           entry == toolRequests[key]
<1>0. /\ AgentTypes /\ WorkersOwnTheirRow /\ CompleteRowsNameTheRun
      /\ call[c].at = "begin" /\ key \in AgentKeys /\ body \in Bodies /\ UNCHANGED submissions
  BY DEF AgentInv, AgentTypes, BeginToolRequest
<1>1. \/ /\ entry.status = "none"
         /\ toolRequests' = [toolRequests EXCEPT ![key] = [NoRequest EXCEPT !.status = "PENDING", !.body = body]]
         /\ call' = [call EXCEPT ![c].at = "invoke"] /\ UNCHANGED answered
      \/ /\ UNCHANGED toolRequests
         /\ \/ entry.body = body /\ entry.status = "COMPLETE" /\ Answer(c, "ok", entry.run)
            \/ \E outcome \in {"IDEMPOTENCY_CONFLICT", "PREVIOUS_REQUEST_FAILED", "REQUEST_IN_PROGRESS"} : Answer(c, outcome, 0)
  <2>1. CASE Created(entry)
    <3>1. entry.status = "none" BY <2>1 DEF Created
    <3> QED BY <2>1, <3>1 DEF BeginToolRequest
  <2>2. CASE ~ Created(entry) BY <2>2 DEF BeginToolRequest
  <2> QED BY <2>1, <2>2
<1>2. ASSUME entry.status = "none",
             toolRequests' = [toolRequests EXCEPT ![key] = [NoRequest EXCEPT !.status = "PENDING", !.body = body]],
             call' = [call EXCEPT ![c].at = "invoke"], UNCHANGED answered
      PROVE  AgentInv'
  <2>1. /\ \A k \in AgentKeys : k # key => toolRequests'[k] = toolRequests[k]
        /\ toolRequests'[key].status = "PENDING" /\ toolRequests'[key].body = body
        /\ DOMAIN toolRequests'[key] = {"status", "body", "run"}
        /\ \A d \in Calls : d # c => call'[d] = call[d]
        /\ call'[c].at = "invoke" /\ call'[c].key = key /\ call'[c].body = body
        /\ DOMAIN call'[c] = {"at", "key", "body", "run"}
    <3>1. DOMAIN call = Calls /\ DOMAIN toolRequests = AgentKeys /\ DOMAIN call[c] = {"at", "key", "body", "run"}
      BY <1>0 DEF AgentTypes
    <3>2. call'[c] = [call[c] EXCEPT !.at = "invoke"] /\ \A d \in Calls : d # c => call'[d] = call[d] BY <1>2, <3>1
    <3>3. \A k \in AgentKeys : toolRequests'[k] = IF k = key THEN [NoRequest EXCEPT !.status = "PENDING", !.body = body] ELSE toolRequests[k]
      BY <1>2, <3>1
    <3>4. /\ toolRequests'[key].status = "PENDING" /\ toolRequests'[key].body = body
          /\ DOMAIN toolRequests'[key] = {"status", "body", "run"}
      <4> DEFINE r == [NoRequest EXCEPT !.status = "PENDING", !.body = body]
      <4>1. toolRequests'[key] = r BY <1>0, <3>3
      <4>2. DOMAIN NoRequest = {"status", "body", "run"} BY DEF NoRequest
      <4>3. r.status = "PENDING" /\ r.body = body /\ DOMAIN r = {"status", "body", "run"} BY <4>2
      <4> QED BY <4>1, <4>3
    <3> HIDE DEF key, body
    <3>5. key = call[c].key /\ body = call[c].body BY DEF key, body
    <3> QED BY <3>1, <3>2, <3>3, <3>4, <3>5
  <2>2. AgentTypes' BY <1>0, <1>2, <2>1 DEF AgentTypes, AtWork
  <2>3. ~ Submitted(submissions, key) /\ \A d \in Calls : call[d].at \in AtWork => call[d].key # key
    BY <1>0, <1>2 DEF WorkersOwnTheirRow
  <2>4. WorkersOwnTheirRow'
    <3>1. \A d \in Calls : call'[d].at \in AtWork =>
             /\ toolRequests'[call'[d].key].status = "PENDING" /\ toolRequests'[call'[d].key].body = call'[d].body
             /\ call'[d].at = "invoke" => ~ Submitted(submissions, call'[d].key)
             /\ call'[d].at = "complete" => IsRunOf(submissions, call'[d].run, call'[d].key, call'[d].body)
      <4> TAKE d \in Calls
      <4>1. CASE d = c BY <1>0, <2>1, <2>3, <4>1
      <4>2. CASE d # c /\ call[d].at \in AtWork
        <5>1. call[d].key \in AgentKeys BY <1>0, <4>2 DEF AgentTypes, AtWork
        <5> HIDE DEF key, body, entry
        <5> QED BY <1>0, <2>1, <2>3, <4>2, <5>1 DEF WorkersOwnTheirRow
      <4> QED BY <2>1, <4>1, <4>2
    <3>2. \A d, e \in Calls : call'[d].at \in AtWork /\ call'[e].at \in AtWork /\ call'[d].key = call'[e].key => d = e
      BY <1>0, <2>1, <2>3 DEF WorkersOwnTheirRow
    <3>3. \A k \in AgentKeys : toolRequests'[k].status = "none" => ~ Submitted(submissions, k)
      BY <1>0, <2>1 DEF WorkersOwnTheirRow
    <3> QED BY <1>0, <3>1, <3>2, <3>3 DEF WorkersOwnTheirRow, Submitted, IsRunOf
  <2>5. CompleteRowsNameTheRun'
    <3>1. \A k \in AgentKeys : toolRequests'[k].status = "COMPLETE" => toolRequests'[k] = toolRequests[k] BY <2>1
    <3> QED BY <1>0, <1>2, <3>1 DEF CompleteRowsNameTheRun, IsRunOf
  <2> QED BY <2>2, <2>4, <2>5 DEF AgentInv
<1>3. ASSUME UNCHANGED toolRequests, NEW outcome, NEW run, Answer(c, outcome, run), outcome = "ok" => IsRunOf(submissions, run, key, body)
      PROVE  AgentInv'
  <2>1. AgentTypes' /\ call'[c].at \notin AtWork /\ \A d \in Calls \ {c} : call'[d] = call[d]
    BY <1>0, <1>3, NoCallTypes DEF Answer
  <2>2. WorkersOwnTheirRow' BY <1>0, <1>3, <2>1, CallsStay
  <2>3. CompleteRowsNameTheRun' BY <1>0, <1>3, AnswersStay
  <2> QED BY <2>1, <2>2, <2>3 DEF AgentInv
<1>4. entry.status = "COMPLETE" /\ entry.body = body => IsRunOf(submissions, entry.run, key, body)
  BY <1>0 DEF CompleteRowsNameTheRun
<1> QED BY <1>1, <1>2, <1>3, <1>4

\* A run that is stored takes nothing from those before it.
LEMMA RunsStay ==
  ASSUME NEW S, NEW s \in Seq(S), NEW t, NEW x \in S, t = s \/ t = Append(s, x)
  PROVE  /\ \A run, key, body : IsRunOf(s, run, key, body) => IsRunOf(t, run, key, body)
         /\ \A key : Submitted(t, key) => Submitted(s, key) \/ (t = Append(s, x) /\ x[1] = key)
         /\ t = Append(s, x) => t[Len(s) + 1] = x /\ Len(s) + 1 \in 1 .. Len(t)
<1>1. CASE t = s BY <1>1 DEF IsRunOf, Submitted
<1>2. CASE t = Append(s, x)
  <2>1. Len(t) = Len(s) + 1 /\ Len(s) \in Nat /\ t[Len(s) + 1] = x /\ \A i \in 1 .. Len(s) : t[i] = s[i] BY <1>2
  <2> QED BY <1>2, <2>1 DEF IsRunOf, Submitted
<1> QED BY <1>1, <1>2

LEMMA InvokeStep ==
  ASSUME AgentInv, NEW c \in Calls, NEW stores \in BOOLEAN, NEW answers \in BOOLEAN, Invoke(c, stores, answers)
  PROVE  AgentInv'
<1> DEFINE key == call[c].key
           body == call[c].body
           x == <<key, body>>
           n == Len(submissions)
<1>0. /\ AgentTypes /\ WorkersOwnTheirRow /\ CompleteRowsNameTheRun
      /\ call[c].at = "invoke" /\ (answers => stores) /\ key \in AgentKeys /\ body \in Bodies
      /\ UNCHANGED <<toolRequests, answered>>
      /\ submissions' = IF stores THEN Append(submissions, x) ELSE submissions
      /\ submissions \in Seq(AgentKeys \X Bodies)
  BY DEF AgentInv, AgentTypes, Invoke
<1>1. x \in AgentKeys \X Bodies /\ x[1] = key BY <1>0
<1>2. n \in Nat BY <1>0
<1>3. /\ \A d \in Calls : d # c => call'[d] = call[d]
      /\ call'[c].at = (IF answers THEN "complete" ELSE "fail") /\ call'[c].key = key /\ call'[c].body = body
      /\ call'[c].run = (IF answers THEN n + 1 ELSE 0)
      /\ DOMAIN call' = Calls /\ DOMAIN call'[c] = {"at", "key", "body", "run"}
  BY <1>0 DEF AgentTypes, Invoke
<1> HIDE DEF x
<1>4. /\ \A run, k, b : IsRunOf(submissions, run, k, b) => IsRunOf(submissions', run, k, b)
      /\ \A k : Submitted(submissions', k) => Submitted(submissions, k) \/ k = key
      /\ stores => /\ submissions'[n + 1] = x /\ n + 1 \in 1 .. Len(submissions')
                   /\ submissions' = Append(submissions, x)
  <2>1. submissions' = submissions \/ submissions' = Append(submissions, x) BY <1>0
  <2>2. stores => submissions' = Append(submissions, x) BY <1>0
  <2> DEFINE S == AgentKeys \X Bodies
             t == submissions'
  <2>3. submissions \in Seq(S) /\ x \in S BY <1>0, <1>1
  <2> HIDE DEF S
  <2>4. /\ \A run, k, b : IsRunOf(submissions, run, k, b) => IsRunOf(t, run, k, b)
        /\ \A k : Submitted(t, k) => Submitted(submissions, k) \/ (t = Append(submissions, x) /\ x[1] = k)
        /\ t = Append(submissions, x) => t[n + 1] = x /\ n + 1 \in 1 .. Len(t)
    BY <2>1, <2>3, RunsStay
  <2> QED BY <1>1, <2>2, <2>4
<1>5. submissions' \in Seq(AgentKeys \X Bodies) BY <1>0, <1>1
<1>6. AgentTypes'
  <2> HIDE DEF key, body, n
  <2>1. \A d \in Calls : /\ DOMAIN call'[d] = {"at", "key", "body", "run"}
                         /\ call'[d].at \in {"idle", "begin"} \cup AtWork
                         /\ call'[d].at # "idle" => call'[d].key \in AgentKeys /\ call'[d].body \in Bodies
    BY <1>0, <1>3 DEF AgentTypes, AtWork
  <2> QED BY <1>0, <1>3, <1>5, <2>1 DEF AgentTypes
<1>7. WorkersOwnTheirRow'
  <2>1. \A d \in Calls : call'[d].at \in AtWork => call[d].at \in AtWork /\ call'[d].key = call[d].key /\ call'[d].body = call[d].body
    BY <1>0, <1>3 DEF AtWork
  <2>2. c \in Calls /\ call[c].at \in AtWork BY <1>0 DEF AtWork
  <2>3. \A d \in Calls : call'[d].at \in AtWork =>
          /\ toolRequests[call'[d].key].status = "PENDING" /\ toolRequests[call'[d].key].body = call'[d].body
          /\ call'[d].at = "invoke" => ~ Submitted(submissions', call'[d].key)
          /\ call'[d].at = "complete" => IsRunOf(submissions', call'[d].run, call'[d].key, call'[d].body)
    <3> TAKE d \in Calls
    <3> HAVE call'[d].at \in AtWork
    <3>1. toolRequests[call'[d].key].status = "PENDING" /\ toolRequests[call'[d].key].body = call'[d].body
      BY <1>0, <2>1 DEF WorkersOwnTheirRow
    <3>2. CASE d = c
      <4>1. ASSUME call'[c].at = "complete" PROVE IsRunOf(submissions', call'[c].run, key, body)
        <5>1. answers BY <1>3, <4>1
        <5> QED BY <1>0, <1>3, <1>4, <5>1 DEF IsRunOf, x
      <4> QED BY <1>3, <3>1, <3>2, <4>1
    <3>3. CASE d # c
      <4>1. call'[d] = call[d] /\ call[d].key # key BY <1>0, <1>3, <2>1, <2>2, <3>3 DEF WorkersOwnTheirRow
      <4>2. call[d].at = "invoke" => ~ Submitted(submissions', call[d].key) BY <1>0, <1>4, <2>1, <4>1 DEF WorkersOwnTheirRow
      <4>3. call[d].at = "complete" => IsRunOf(submissions', call[d].run, call[d].key, call[d].body)
        BY <1>0, <1>4, <2>1, <4>1 DEF WorkersOwnTheirRow
      <4> QED BY <3>1, <4>1, <4>2, <4>3
    <3> QED BY <3>2, <3>3
  <2>4. \A d, e \in Calls : call'[d].at \in AtWork /\ call'[e].at \in AtWork /\ call'[d].key = call'[e].key => d = e
    BY <1>0, <2>1 DEF WorkersOwnTheirRow
  <2>5. toolRequests[key].status = "PENDING" BY <1>0, <2>2 DEF WorkersOwnTheirRow
  <2>6. \A k \in AgentKeys : toolRequests'[k].status = "none" => ~ Submitted(submissions', k)
    BY <1>0, <1>4, <2>5 DEF WorkersOwnTheirRow
  <2> QED BY <1>0, <2>3, <2>4, <2>6 DEF WorkersOwnTheirRow
<1>8. CompleteRowsNameTheRun'
  <2>1. \A i, j \in 1 .. Len(submissions') : submissions'[i][1] = submissions'[j][1] => i = j
    <3>1. CASE ~ stores BY <1>0, <3>1 DEF CompleteRowsNameTheRun
    <3>2. CASE stores
      <4>1. /\ Len(submissions') = n + 1 /\ submissions'[n + 1] = x
            /\ \A i \in 1 .. n : submissions'[i] = submissions[i]
        BY <1>0, <1>1, <3>2
      <4>2. \A i \in 1 .. n : submissions[i][1] # key BY <1>0 DEF WorkersOwnTheirRow, Submitted, AtWork
      <4> HIDE DEF n, key
      <4>3. \A i \in 1 .. (n + 1) : i # n + 1 => i \in 1 .. n BY <1>2
      <4>4. \A i, j \in 1 .. n : submissions[i][1] = submissions[j][1] => i = j BY <1>0 DEF CompleteRowsNameTheRun, n
      <4> QED BY <1>1, <4>1, <4>2, <4>3, <4>4
    <3> QED BY <3>1, <3>2
  <2> QED BY <1>0, <1>4, <2>1 DEF CompleteRowsNameTheRun
<1> QED BY <1>6, <1>7, <1>8 DEF AgentInv

\* The call that works on a row ends it.
LEMMA EndRequestStep ==
  ASSUME AgentInv, NEW c \in Calls, NEW status, NEW run, NEW outcome,
         call[c].at \in AtWork, EndRequest(call[c].key, status, run), Answer(c, outcome, run), UNCHANGED submissions,
         status \in {"COMPLETE", "FAILED"}, (status = "COMPLETE" \/ outcome = "ok") => IsRunOf(submissions, run, call[c].key, call[c].body)
  PROVE  AgentInv'
<1> DEFINE key == call[c].key
<1>0. /\ AgentTypes /\ WorkersOwnTheirRow /\ CompleteRowsNameTheRun /\ key \in AgentKeys
      /\ toolRequests[key].status = "PENDING" /\ toolRequests[key].body = call[c].body
      /\ DOMAIN toolRequests = AgentKeys /\ DOMAIN toolRequests[key] = {"status", "body", "run"}
      /\ DOMAIN call = Calls
  BY DEF AgentInv, AgentTypes, WorkersOwnTheirRow, AtWork
<1>1. /\ \A k \in AgentKeys : k # key => toolRequests'[k] = toolRequests[k]
      /\ toolRequests'[key].status = status /\ toolRequests'[key].run = run /\ toolRequests'[key].body = call[c].body
      /\ DOMAIN toolRequests'[key] = {"status", "body", "run"} /\ DOMAIN toolRequests' = AgentKeys
  <2>1. toolRequests'[key] = [toolRequests[key] EXCEPT !.status = status, !.run = run] BY <1>0 DEF EndRequest
  <2>2. \A k \in AgentKeys : k # key => toolRequests'[k] = toolRequests[k] BY <1>0 DEF EndRequest
  <2>3. DOMAIN toolRequests' = AgentKeys BY <1>0 DEF EndRequest
  <2> HIDE DEF key
  <2> QED BY <1>0, <2>1, <2>2, <2>3 DEF key
<1>2. call'[c].at = "idle" /\ DOMAIN call'[c] = {"at", "key", "body", "run"} /\ \A d \in Calls : d # c => call'[d] = call[d]
  BY <1>0 DEF Answer, NoCall
<1>3. AgentTypes'
  <2>1. DOMAIN call' = Calls BY <1>0 DEF Answer
  <2>2. \A k \in AgentKeys : DOMAIN toolRequests'[k] = {"status", "body", "run"} BY <1>0, <1>1 DEF AgentTypes
  <2>3. \A d \in Calls : /\ DOMAIN call'[d] = {"at", "key", "body", "run"}
                         /\ call'[d].at \in {"idle", "begin"} \cup AtWork
                         /\ call'[d].at # "idle" => call'[d].key \in AgentKeys /\ call'[d].body \in Bodies
    BY <1>0, <1>2 DEF AgentTypes
  <2> QED BY <1>0, <1>1, <2>1, <2>2, <2>3 DEF AgentTypes
<1>4. WorkersOwnTheirRow'
  <2>1. \A d \in Calls : call'[d].at \in AtWork => d # c /\ call'[d] = call[d] /\ call[d].at \in AtWork
    BY <1>2 DEF AtWork
  <2>2. \A d \in Calls : call'[d].at \in AtWork => call[d].key # key /\ call[d].key \in AgentKeys
    BY <1>0, <2>1 DEF WorkersOwnTheirRow, AgentTypes, AtWork
  <2>3. \A k \in AgentKeys : toolRequests'[k].status = "none" => ~ Submitted(submissions, k)
    BY <1>0, <1>1 DEF WorkersOwnTheirRow
  <2>4. \A d \in Calls : call'[d].at \in AtWork =>
          /\ toolRequests'[call'[d].key].status = "PENDING" /\ toolRequests'[call'[d].key].body = call'[d].body
          /\ call'[d].at = "invoke" => ~ Submitted(submissions, call'[d].key)
          /\ call'[d].at = "complete" => IsRunOf(submissions, call'[d].run, call'[d].key, call'[d].body)
    BY <1>0, <1>1, <2>1, <2>2 DEF WorkersOwnTheirRow
  <2>5. \A d, e \in Calls : call'[d].at \in AtWork /\ call'[e].at \in AtWork /\ call'[d].key = call'[e].key => d = e
    BY <1>0, <2>1 DEF WorkersOwnTheirRow
  <2> QED BY <2>3, <2>4, <2>5 DEF WorkersOwnTheirRow, Submitted, IsRunOf
<1>5. CompleteRowsNameTheRun'
  <2>1. \A k \in AgentKeys : toolRequests'[k].status = "COMPLETE" => IsRunOf(submissions, toolRequests'[k].run, k, toolRequests'[k].body)
    BY <1>0, <1>1 DEF CompleteRowsNameTheRun
  <2>2. \A a \in answered' : a.outcome = "ok" => IsRunOf(submissions, a.run, a.key, a.body)
    BY <1>0 DEF CompleteRowsNameTheRun, Answer
  <2> QED BY <1>0, <2>1, <2>2 DEF CompleteRowsNameTheRun, IsRunOf
<1> QED BY <1>3, <1>4, <1>5 DEF AgentInv

LEMMA StoreFailsStep ==
  ASSUME AgentInv, NEW c \in Calls, StoreFails(c)
  PROVE  AgentInv'
<1>0. AgentTypes /\ UNCHANGED <<toolRequests, submissions>> BY DEF StoreFails, AgentInv
<1>1. CASE call[c].at = "complete"
  <2>1. call' = [call EXCEPT ![c].at = "fail", ![c].run = 0] /\ UNCHANGED answered BY <1>1 DEF StoreFails
  <2>2. DOMAIN call = Calls /\ DOMAIN call[c] = {"at", "key", "body", "run"} BY <1>0 DEF AgentTypes
  <2>3. /\ \A d \in Calls \ {c} : call'[d] = call[d]
        /\ call'[c].at = "fail" /\ call'[c].key = call[c].key /\ call'[c].body = call[c].body
        /\ DOMAIN call'[c] = {"at", "key", "body", "run"} /\ DOMAIN call' = Calls
    BY <2>1, <2>2
  <2>4. \A d \in Calls : /\ DOMAIN call'[d] = {"at", "key", "body", "run"}
                         /\ call'[d].at \in {"idle", "begin"} \cup AtWork
                         /\ call'[d].at # "idle" => call'[d].key \in AgentKeys /\ call'[d].body \in Bodies
    BY <1>0, <1>1, <2>3 DEF AgentTypes, AtWork
  <2>5. AgentTypes' BY <1>0, <2>3, <2>4 DEF AgentTypes
  <2>6. WorkersOwnTheirRow' BY <1>0, <1>1, <2>3, CallsStay DEF AtWork
  <2>7. CompleteRowsNameTheRun' BY <1>0, <2>1 DEF AgentInv, CompleteRowsNameTheRun, IsRunOf
  <2> QED BY <2>5, <2>6, <2>7 DEF AgentInv
<1>2. CASE call[c].at # "complete"
  <2>1. Answer(c, "INTERNAL_ERROR", 0) BY <1>2 DEF StoreFails
  <2>2. AgentTypes' /\ call'[c].at \notin AtWork /\ \A d \in Calls \ {c} : call'[d] = call[d]
    BY <1>0, <2>1, NoCallTypes DEF Answer
  <2>3. WorkersOwnTheirRow' BY <1>0, <2>2, CallsStay
  <2>4. CompleteRowsNameTheRun' BY <1>0, <2>1, AnswersStay
  <2> QED BY <2>2, <2>3, <2>4 DEF AgentInv
<1> QED BY <1>1, <1>2

LEMMA AgentStep == AgentInv /\ [AgentNext]_agentVars => AgentInv'
<1> SUFFICES ASSUME AgentInv, [AgentNext]_agentVars PROVE AgentInv' OBVIOUS
<1>1. CASE UNCHANGED <<toolRequests, submissions, call, answered>>
  BY <1>1 DEF AgentInv, AgentTypes, WorkersOwnTheirRow, CompleteRowsNameTheRun
<1>2. CASE UNCHANGED agentVars \/ MinutePasses \/ TokenEnds BY <1>1, <1>2 DEF agentVars, MinutePasses, TokenEnds
<1>3. ASSUME NEW c \in Calls, CompleteToolRequest(c) PROVE AgentInv'
  <2>1. IsRunOf(submissions, call[c].run, call[c].key, call[c].body)
    BY <1>3 DEF CompleteToolRequest, AgentInv, WorkersOwnTheirRow, AtWork
  <2> QED BY <1>3, <2>1, EndRequestStep DEF CompleteToolRequest, AtWork
<1>4. ASSUME NEW c \in Calls, FailToolRequest(c) PROVE AgentInv'
  BY <1>4, EndRequestStep DEF FailToolRequest, AtWork
<1>5. ASSUME NEW c \in Calls, CallLost(c) PROVE AgentInv'
  <2>1. AgentTypes' /\ call'[c].at \notin AtWork /\ \A d \in Calls \ {c} : call'[d] = call[d]
    BY <1>5, NoCallTypes DEF CallLost, AgentInv
  <2>2. WorkersOwnTheirRow' BY <1>5, <2>1, CallsStay DEF CallLost
  <2>3. CompleteRowsNameTheRun' BY <1>5 DEF CallLost, AgentInv, CompleteRowsNameTheRun, IsRunOf
  <2> QED BY <2>1, <2>2, <2>3 DEF AgentInv
<1>6. ASSUME NEW c \in Calls, NEW key \in AgentKeys, NEW body \in Bodies, Authenticate(c, key, body) PROVE AgentInv'
  BY <1>6, AuthenticateStep
<1>7. ASSUME NEW c \in Calls, NEW stores \in BOOLEAN, NEW answers \in BOOLEAN, Invoke(c, stores, answers) PROVE AgentInv'
  BY <1>7, InvokeStep
<1> QED BY <1>2, <1>3, <1>4, <1>5, <1>6, <1>7, BeginToolRequestStep, StoreFailsStep DEF AgentNext

\* A key is submitted at most once, for any number of agents, repetitions and failures;
\* and whoever is told of success gets the run of the body it sent.
THEOREM SubmissionsHappenOnce == AgentSpec => []SubmittedOnce
<1>1. AgentInit => AgentInv
  BY DEF AgentInit, AgentInv, AgentTypes, WorkersOwnTheirRow, CompleteRowsNameTheRun, NoRequest, NoCall, AtWork, Submitted
<1>2. AgentInv => SubmittedOnce
  <2> SUFFICES ASSUME AgentInv PROVE SubmittedOnce OBVIOUS
  <2>1. DOMAIN submissions = 1 .. Len(submissions) BY DEF AgentInv, AgentTypes
  <2> QED BY <2>1 DEF AgentInv, CompleteRowsNameTheRun, IsRunOf, SubmittedOnce
<1> QED BY <1>1, <1>2, AgentStep, PTL DEF AgentSpec

-----------------------------------------------------------------------------
(* The exchange connections.                                               *)

DecidingEvents == {"ADDED", "REPLACED", "WITHDRAWAL_PERMISSION", "DISABLED", "ENABLED"}

Actions == DecidingEvents \cup {"TEST_SUCCEEDED", "TEST_FAILED", "ROTATED", "DELETED"}

\* The i-th event decides, and none after it.
Decides(events, i) ==
    /\ i \in 1 .. Len(events) /\ events[i] \in DecidingEvents
    /\ \A j \in 1 .. Len(events) : events[j] \in DecidingEvents => j <= i

\* The trail tells the switch, and permissions to trade keep it off.
TrailTellsTheSwitch(id) ==
    connection[id].exists =>
        /\ Unsafe(connection[id].permissions) => connection[id].disabled
        /\ \E i \in 1 .. Len(audit[id]) : Decides(audit[id], i) /\ (connection[id].disabled <=> audit[id][i] # "ENABLED")

ConnectionInv ==
    /\ DOMAIN connection = Connections /\ DOMAIN audit = Connections
    /\ \A id \in Connections : /\ DOMAIN connection[id] = DOMAIN NoConnection /\ connection[id].disabled \in BOOLEAN
                               /\ audit[id] \in Seq(Actions)
                               /\ TrailTellsTheSwitch(id)

\* A request under way is about a connection.
RequestsAreKnown ==
    /\ DOMAIN request = WebUsers
    /\ \A u \in WebUsers : /\ DOMAIN request[u] = {"at", "id", "credential", "report"}
                           /\ request[u].at # "idle" => request[u].id \in Connections

\* The last deciding event after one more event.
LEMMA EventDecides ==
  ASSUME NEW events \in Seq(Actions), NEW action \in Actions
  PROVE  /\ Append(events, action) \in Seq(Actions)
         /\ action \in DecidingEvents =>
              /\ Decides(Append(events, action), Len(events) + 1)
              /\ Append(events, action)[Len(events) + 1] = action
              /\ Len(events) + 1 \in 1 .. Len(Append(events, action))
         /\ action \notin DecidingEvents =>
              \A i \in 1 .. Len(events) : Decides(events, i) =>
                 /\ Decides(Append(events, action), i) /\ Append(events, action)[i] = events[i]
                 /\ i \in 1 .. Len(Append(events, action))
<1> DEFINE more == Append(events, action)
           n == Len(events)
<1>1. /\ more \in Seq(Actions) /\ Len(more) = n + 1 /\ more[n + 1] = action /\ \A i \in 1 .. n : more[i] = events[i]
      /\ n \in Nat
  OBVIOUS
<1> HIDE DEF more, n
<1>2. \A j \in 1 .. (n + 1) : j # n + 1 => j \in 1 .. n BY <1>1
<1>3. action \in DecidingEvents => Decides(more, n + 1) BY <1>1 DEF Decides
<1>4. action \notin DecidingEvents => \A i \in 1 .. n : Decides(events, i) => Decides(more, i)
  BY <1>1, <1>2 DEF Decides, n
<1> QED BY <1>1, <1>3, <1>4 DEF more, n

\* What the event of a step makes of the switch.
LEMMA TrailFollows ==
  ASSUME ConnectionInv, NEW id \in Connections, NEW action \in Actions, Event(id, action),
         DOMAIN connection' = Connections, DOMAIN connection'[id] = DOMAIN NoConnection, connection'[id].disabled \in BOOLEAN,
         \A other \in Connections \ {id} : connection'[other] = connection[other],
         connection'[id].exists => /\ Unsafe(connection'[id].permissions) => connection'[id].disabled
                                   /\ \/ action \in DecidingEvents /\ (connection'[id].disabled <=> action # "ENABLED")
                                      \/ /\ action \notin DecidingEvents /\ connection[id].exists
                                         /\ connection'[id].disabled = connection[id].disabled
  PROVE  ConnectionInv'
<1>1. /\ audit'[id] = Append(audit[id], action) /\ \A other \in Connections \ {id} : audit'[other] = audit[other]
      /\ DOMAIN audit' = Connections /\ audit[id] \in Seq(Actions)
  BY DEF ConnectionInv, Event
<1>2. TrailTellsTheSwitch(id)'
  <2> SUFFICES ASSUME connection'[id].exists
               PROVE  \E i \in 1 .. Len(audit'[id]) : Decides(audit'[id], i) /\ (connection'[id].disabled <=> audit'[id][i] # "ENABLED")
    BY DEF TrailTellsTheSwitch, Unsafe
  <2>1. CASE action \in DecidingEvents BY <1>1, <2>1, EventDecides
  <2>2. CASE action \notin DecidingEvents
    <3>1. connection[id].exists /\ connection'[id].disabled = connection[id].disabled BY <2>2
    <3>2. PICK i \in 1 .. Len(audit[id]) : Decides(audit[id], i) /\ (connection[id].disabled <=> audit[id][i] # "ENABLED")
      BY <3>1 DEF ConnectionInv, TrailTellsTheSwitch
    <3> QED BY <1>1, <2>2, <3>1, <3>2, EventDecides
  <2> QED BY <2>1, <2>2
<1>3. \A other \in Connections \ {id} : TrailTellsTheSwitch(other)'
  <2> TAKE other \in Connections \ {id}
  <2>1. connection'[other] = connection[other] /\ audit'[other] = audit[other] BY <1>1
  <2>2. TrailTellsTheSwitch(other) BY DEF ConnectionInv
  <2> QED BY <2>1, <2>2 DEF TrailTellsTheSwitch
<1>4. audit'[id] \in Seq(Actions) BY <1>1, EventDecides
<1> QED BY <1>1, <1>2, <1>3, <1>4 DEF ConnectionInv

LEMMA RequestStep == RequestsAreKnown /\ [ConnectionNext]_connectionVars => RequestsAreKnown'
<1> SUFFICES ASSUME RequestsAreKnown, [ConnectionNext]_connectionVars PROVE RequestsAreKnown' OBVIOUS
<1> USE DEF RequestsAreKnown
<1>1. CASE UNCHANGED request BY <1>1
<1>2. ASSUME NEW u \in WebUsers, NEW id \in Connections, NEW purpose \in {"test", "rotate"}, ReadConnection(u, id, purpose)
      PROVE  RequestsAreKnown'
  BY <1>2 DEF ReadConnection
<1>3. ASSUME NEW u \in WebUsers, ExchangeAnswers(u) PROVE RequestsAreKnown' BY <1>3 DEF ExchangeAnswers
<1>4. ASSUME NEW u \in WebUsers, RecordTest(u) \/ UpdateEncryption(u) PROVE RequestsAreKnown'
  BY <1>4 DEF RecordTest, UpdateEncryption, NoWork
<1>5. ASSUME NEW kept, ChangeKeyring(kept) PROVE RequestsAreKnown' BY <1>5 DEF ChangeKeyring, NoWork
<1>6. CASE UNCHANGED connectionVars BY <1>1, <1>6 DEF connectionVars
<1>7. ASSUME NEW id \in Connections, NEW credential \in Credentials,
             CreateConnection(id, credential) \/ ReplaceConnection(id, credential)
      PROVE  UNCHANGED request
  BY <1>7 DEF CreateConnection, ReplaceConnection
<1>8. ASSUME NEW id \in Connections, DeleteConnection(id) \/ \E disabled \in BOOLEAN : SetDisabled(id, disabled)
      PROVE  UNCHANGED request
  BY <1>8 DEF DeleteConnection, SetDisabled
<1> HIDE DEF RequestsAreKnown
<1> QED BY <1>1, <1>2, <1>3, <1>4, <1>5, <1>6, <1>7, <1>8 DEF ConnectionNext

LEMMA ConnectionStep == ConnectionInv /\ RequestsAreKnown /\ [ConnectionNext]_connectionVars => ConnectionInv'
<1> SUFFICES ASSUME ConnectionInv, RequestsAreKnown, [ConnectionNext]_connectionVars PROVE ConnectionInv' OBVIOUS
<1>0. /\ DOMAIN connection = Connections
      /\ \A id \in Connections : DOMAIN connection[id] = DOMAIN NoConnection /\ connection[id].disabled \in BOOLEAN
      /\ DOMAIN NoConnection = {"exists", "credential", "key", "disabled", "status", "permissions"}
  BY DEF ConnectionInv, NoConnection
<1>1. CASE UNCHANGED <<connection, audit>> BY <1>1 DEF ConnectionInv, TrailTellsTheSwitch
<1>2. ASSUME NEW id \in Connections, NEW credential \in Credentials,
             CreateConnection(id, credential) \/ ReplaceConnection(id, credential)
      PROVE  ConnectionInv'
  <2>1. PICK action \in {"ADDED", "REPLACED"} : Event(id, action) BY <1>2 DEF CreateConnection, ReplaceConnection
  <2>2. connection' = [connection EXCEPT ![id] = Encrypted(credential)] BY <1>2 DEF CreateConnection, ReplaceConnection
  <2>3. /\ DOMAIN Encrypted(credential) = DOMAIN NoConnection
        /\ Encrypted(credential).disabled = TRUE /\ Encrypted(credential).permissions = {}
    BY DEF Encrypted, NoConnection
  <2>4. action \in Actions /\ action \in DecidingEvents /\ action # "ENABLED" BY DEF Actions, DecidingEvents
  <2> QED BY <1>0, <2>1, <2>2, <2>3, <2>4, TrailFollows
<1>3. ASSUME NEW id \in Connections, DeleteConnection(id) PROVE ConnectionInv'
  <2>1. connection' = [connection EXCEPT ![id] = NoConnection] /\ Event(id, "DELETED") BY <1>3 DEF DeleteConnection
  <2>2. ~ NoConnection.exists /\ NoConnection.disabled = TRUE BY DEF NoConnection
  <2>3. "DELETED" \in Actions BY DEF Actions
  <2> QED BY <1>0, <2>1, <2>2, <2>3, TrailFollows
<1>4. ASSUME NEW id \in Connections, NEW disabled \in BOOLEAN, SetDisabled(id, disabled) PROVE ConnectionInv'
  <2> DEFINE action == IF disabled THEN "DISABLED" ELSE "ENABLED"
  <2>1. /\ connection[id].exists /\ (disabled \/ ~ Unsafe(connection[id].permissions)) /\ Event(id, action)
        /\ connection' = [connection EXCEPT ![id] =
               [@ EXCEPT !.disabled = disabled,
                         !.status = IF disabled THEN "DISABLED" ELSE IF @ = "DISABLED" THEN "NOT_TESTED" ELSE @]]
    BY <1>4 DEF SetDisabled, Enableable
  <2>2. action \in Actions /\ action \in DecidingEvents /\ (disabled <=> action # "ENABLED") BY DEF Actions, DecidingEvents
  <2>3. /\ connection'[id].disabled = disabled /\ connection'[id].permissions = connection[id].permissions
        /\ DOMAIN connection'[id] = DOMAIN NoConnection /\ DOMAIN connection' = Connections
        /\ \A other \in Connections \ {id} : connection'[other] = connection[other]
    BY <1>0, <2>1
  <2> HIDE DEF action
  <2> QED BY <2>1, <2>2, <2>3, TrailFollows
<1>5. ASSUME NEW u \in WebUsers, RecordTest(u), connection[request[u].id].exists, request[u].id \in Connections
      PROVE  ConnectionInv'
  <2> DEFINE id == request[u].id
             report == request[u].report
             status == TestStatus(report)
             action == CASE status = "CONNECTED" -> "TEST_SUCCEEDED" [] status = "FAILED" -> "TEST_FAILED" [] OTHER -> status
  <2>1. /\ connection' = [connection EXCEPT ![id] =
               [@ EXCEPT !.status = status, !.permissions = report, !.disabled = DisabledAfterTest(connection[id], report)]]
        /\ Event(id, action)
    BY <1>5 DEF RecordTest
  <2>2. IF Unsafe(report) THEN action = "WITHDRAWAL_PERMISSION" ELSE action \in {"TEST_SUCCEEDED", "TEST_FAILED"}
    BY DEF TestStatus
  <2>3. /\ connection'[id].disabled = (connection[id].disabled \/ Unsafe(report)) /\ connection'[id].permissions = report
        /\ DOMAIN connection'[id] = DOMAIN NoConnection /\ DOMAIN connection' = Connections
        /\ \A other \in Connections \ {id} : connection'[other] = connection[other]
    BY <1>0, <1>5, <2>1 DEF DisabledAfterTest
  <2>4. id \in Connections /\ connection[id].exists /\ connection[id].disabled \in BOOLEAN /\ Unsafe(report) \in BOOLEAN
    BY <1>0, <1>5 DEF Unsafe
  <2> HIDE DEF action, status, report, id
  <2>5. CASE Unsafe(report)
    <3>1. action \in Actions /\ action \in DecidingEvents /\ action # "ENABLED" BY <2>2, <2>5 DEF Actions, DecidingEvents
    <3>2. connection'[id].disabled = TRUE BY <2>3, <2>4, <2>5
    <3> QED BY <2>1, <2>3, <2>4, <3>1, <3>2, TrailFollows
  <2>6. CASE ~ Unsafe(report)
    <3>1. action \in Actions /\ action \notin DecidingEvents BY <2>2, <2>6 DEF Actions, DecidingEvents
    <3>2. connection'[id].disabled = connection[id].disabled /\ ~ Unsafe(connection'[id].permissions) BY <2>3, <2>4, <2>6
    <3> QED BY <2>1, <2>3, <2>4, <3>1, <3>2, TrailFollows
  <2> QED BY <2>5, <2>6
<1>6. ASSUME NEW u \in WebUsers, UpdateEncryption(u), connection[request[u].id].exists, request[u].id \in Connections
      PROVE  ConnectionInv'
  <2> DEFINE id == request[u].id
  <2>1. /\ connection' = [connection EXCEPT ![id].credential = request[u].credential, ![id].key = keyVersion]
        /\ Event(id, "ROTATED")
    BY <1>6 DEF UpdateEncryption
  <2>2. /\ connection'[id].disabled = connection[id].disabled /\ connection'[id].permissions = connection[id].permissions
        /\ DOMAIN connection'[id] = DOMAIN NoConnection /\ DOMAIN connection' = Connections
        /\ \A other \in Connections \ {id} : connection'[other] = connection[other]
    BY <1>0, <1>6, <2>1
  <2>3. "ROTATED" \in Actions /\ "ROTATED" \notin DecidingEvents BY DEF Actions, DecidingEvents
  <2>4. Unsafe(connection[id].permissions) => connection[id].disabled BY <1>6 DEF ConnectionInv, TrailTellsTheSwitch
  <2> HIDE DEF id
  <2>5. id \in Connections /\ connection[id].exists /\ connection'[id].disabled \in BOOLEAN BY <1>0, <1>6, <2>2 DEF id
  <2> QED BY <2>1, <2>2, <2>3, <2>4, <2>5, TrailFollows
<1>7. ASSUME NEW u \in WebUsers, ExchangeAnswers(u) PROVE ConnectionInv' BY <1>1, <1>7 DEF ExchangeAnswers
<1>8. ASSUME NEW u \in WebUsers, RecordTest(u) PROVE ConnectionInv'
  <2>0. request[u].at = "record" BY <1>8, Zenon DEF RecordTest
  <2>1. request[u].id \in Connections BY <2>0 DEF RequestsAreKnown
  <2>2. CASE ~ connection[request[u].id].exists BY <1>1, <1>8, <2>2 DEF RecordTest
  <2> QED BY <1>5, <1>8, <2>1, <2>2
<1>9. ASSUME NEW u \in WebUsers, UpdateEncryption(u) PROVE ConnectionInv'
  <2>0. request[u].at = "rotate" BY <1>9 DEF UpdateEncryption
  <2>1. request[u].id \in Connections BY <2>0 DEF RequestsAreKnown
  <2>2. CASE ~ connection[request[u].id].exists BY <1>1, <1>9, <2>2 DEF UpdateEncryption
  <2> QED BY <1>6, <1>9, <2>1, <2>2
<1>10. ASSUME NEW id \in Connections, NEW u \in WebUsers, NEW purpose \in {"test", "rotate"}, ReadConnection(u, id, purpose)
       PROVE  ConnectionInv'
  BY <1>1, <1>10 DEF ReadConnection
<1>11. ASSUME NEW kept, ChangeKeyring(kept) PROVE ConnectionInv' BY <1>1, <1>11 DEF ChangeKeyring
<1>12. CASE UNCHANGED connectionVars BY <1>1, <1>12 DEF connectionVars
<1> QED BY <1>2, <1>3, <1>4, <1>7, <1>8, <1>9, <1>10, <1>11, <1>12 DEF ConnectionNext

\* For any number of connections, users, rotations and events: permissions to trade or
\* withdraw keep a connection disabled, and the audit trail alone tells whether it is.
THEOREM UnsafeConnectionsStayDisabled == ConnectionSpec => []UnsafeStaysDisabled
<1> DEFINE Inv == ConnectionInv /\ RequestsAreKnown
<1>1. ConnectionInit => Inv
  <2> SUFFICES ASSUME ConnectionInit PROVE Inv OBVIOUS
  <2>1. RequestsAreKnown BY DEF ConnectionInit, RequestsAreKnown, NoWork
  <2>2. <<>> \in Seq(Actions) OBVIOUS
  <2>3. ConnectionInv BY <2>2 DEF ConnectionInit, ConnectionInv, TrailTellsTheSwitch, NoConnection
  <2> QED BY <2>1, <2>3
<1>2. Inv /\ [ConnectionNext]_connectionVars => Inv' BY RequestStep, ConnectionStep
<1>3. Inv => UnsafeStaysDisabled
  <2> SUFFICES ASSUME ConnectionInv, NEW id \in Connections, connection[id].exists
               PROVE  /\ Unsafe(connection[id].permissions) => connection[id].disabled
                      /\ connection[id].disabled <=> Deciding(id) # "ENABLED"
    BY DEF UnsafeStaysDisabled
  <2>1. PICK i \in 1 .. Len(audit[id]) : Decides(audit[id], i) /\ (connection[id].disabled <=> audit[id][i] # "ENABLED")
    BY DEF ConnectionInv, TrailTellsTheSwitch
  <2>2. DOMAIN audit[id] = 1 .. Len(audit[id]) BY DEF ConnectionInv
  <2> DEFINE at == {j \in DOMAIN audit[id] : audit[id][j] \in DecidingEvents}
  <2>3. at = {j \in 1 .. Len(audit[id]) : audit[id][j] \in DecidingEvents} BY <2>2
  <2>4. i \in at /\ \A j \in at : j <= i BY <2>1, <2>3 DEF Decides
  <2>5. \A k \in at : (\A j \in at : j <= k) => k = i
    <3> TAKE k \in at
    <3>1. k \in Int /\ i \in Int BY <2>1, <2>3
    <3> QED BY <2>4, <3>1
  <2>6. Deciding(id) = audit[id][i]
    <3>1. Deciding(id) = audit[id][CHOOSE k \in at : \A j \in at : j <= k] BY DEF Deciding, DecidingEvents
    <3> HIDE DEF at
    <3> QED BY <2>4, <2>5, <3>1
  <2> QED BY <2>1, <2>6 DEF ConnectionInv, TrailTellsTheSwitch
<1> QED BY <1>1, <1>2, <1>3, PTL DEF ConnectionSpec

-----------------------------------------------------------------------------
(* The notices of alerts.                                                  *)

\* The monitors that still owe channel c a notice of alert i.
Owing(monitors, i, c) ==
    {m \in Monitors : /\ monitors[m].row = i
                      /\ \/ monitors[m].at = "send" /\ monitors[m].channel <= c
                         \/ monitors[m].at = "record" /\ monitors[m].channel < c}

\* Each notice that was sent or is owed has a cooldown of its own.
NoticesFit(rows, monitors, i, c) ==
    (rows[i].notices[c] + Cardinality(Owing(monitors, i, c))) * Cooldown <= rows[i].until - rows[i].first

RowIsSound(row) ==
    /\ DOMAIN row = {"kind", "status", "first", "until", "notices"}
    /\ row.first \in Nat /\ row.first <= alertNow /\ row.until \in Nat /\ row.until <= alertNow + Cooldown
    /\ DOMAIN row.notices = DOMAIN Adapters /\ \A c \in DOMAIN Adapters : row.notices[c] \in Nat

MonitorIsSound(m) ==
    /\ DOMAIN monitor[m] = {"at", "todo", "kind", "moment", "row", "channel"}
    /\ monitor[m].moment \in Nat /\ monitor[m].moment <= alertNow /\ monitor[m].channel \in Nat
    /\ monitor[m].at \in {"send", "record"} => monitor[m].row \in 1 .. Len(alertRows)

AlertInv ==
    /\ alertNow \in Nat
    /\ Len(alertRows) \in Nat /\ alertRows \in Seq({alertRows[i] : i \in 1 .. Len(alertRows)})
    /\ \A i \in 1 .. Len(alertRows) : RowIsSound(alertRows[i])
    /\ DOMAIN monitor = Monitors /\ \A m \in Monitors : MonitorIsSound(m)
    /\ \A i \in 1 .. Len(alertRows), c \in DOMAIN Adapters : NoticesFit(alertRows, monitor, i, c)

LEMMA ChannelsAreNumbers == DOMAIN Adapters \subseteq Nat \ {0}
<1>1. DOMAIN Adapters = 1 .. Len(Adapters) /\ Len(Adapters) \in Nat BY MonitoringIsFinite
<1> QED BY <1>1

LEMMA OwingIsFinite ==
  ASSUME NEW monitors, NEW i, NEW c
  PROVE  IsFiniteSet(Owing(monitors, i, c)) /\ Cardinality(Owing(monitors, i, c)) \in Nat
<1>1. Owing(monitors, i, c) \in SUBSET Monitors BY DEF Owing
<1>2. IsFiniteSet(Owing(monitors, i, c)) BY <1>1, MonitoringIsFinite, FS_Subset
<1> QED BY <1>2, FS_CardinalityType

\* Multiples of the cooldown.
LEMMA Multiples ==
  ASSUME NEW k \in Int, NEW n \in Int, NEW C \in Nat \ {0}, n <= k
  PROVE  n * C <= k * C /\ (k + 1) * C = k * C + C /\ n * C \in Int /\ k * C \in Int
<1>1. (k - n) \in Nat /\ (k - n) * C \in Nat BY SMT
<1>2. k * C = n * C + (k - n) * C BY SMT
<1>3. n * C \in Int /\ k * C \in Int BY SMT
<1>4. (k + 1) * C = k * C + C BY SMT
<1> QED BY <1>1, <1>2, <1>3, <1>4

LEMMA DivBounds ==
  ASSUME NEW k \in Int, NEW a \in Nat, NEW C \in Nat \ {0}, k * C <= a
  PROVE  k <= a \div C /\ a \div C \in Int
<1>1. a \div C \in Int /\ a = C * (a \div C) + (a % C) /\ 0 <= a % C /\ a % C < C BY SMT
<1> DEFINE q == a \div C
           r == a % C
<1>2. q \in Int /\ r \in Int /\ a = C * q + r /\ r < C BY <1>1
<1> HIDE DEF q, r
<1>3. ASSUME q < k PROVE FALSE
  <2>1. q + 1 <= k BY <1>2, <1>3
  <2>2. (q + 1) * C <= k * C /\ q * C \in Int /\ k * C \in Int /\ (q + 1) * C = q * C + C BY <1>2, <2>1, Multiples
  <2>3. C * q = q * C BY <1>2
  <2> QED BY <1>2, <2>2, <2>3
<1> QED BY <1>2, <1>3 DEF q

\* Who owes less sends less.
LEMMA FitShrinks ==
  ASSUME NEW rows, NEW more, NEW monitors, NEW others, NEW i, NEW c,
         more[i].notices[c] = rows[i].notices[c], more[i].until = rows[i].until, more[i].first = rows[i].first,
         rows[i].notices[c] \in Nat, rows[i].until \in Nat, rows[i].first \in Nat,
         Owing(others, i, c) \subseteq Owing(monitors, i, c), NoticesFit(rows, monitors, i, c)
  PROVE  NoticesFit(more, others, i, c)
<1> DEFINE p == Cardinality(Owing(monitors, i, c))
           q == Cardinality(Owing(others, i, c))
           n == rows[i].notices[c]
<1>1. p \in Nat /\ q \in Nat /\ q <= p
  <2>1. Owing(others, i, c) \in SUBSET Owing(monitors, i, c) OBVIOUS
  <2> QED BY <2>1, OwingIsFinite, FS_Subset
<1>2. (n + p) * Cooldown <= rows[i].until - rows[i].first BY DEF NoticesFit
<1> HIDE DEF p, q, n
<1>3. n \in Nat BY DEF n
<1>4. n + q <= n + p /\ n + q \in Int /\ n + p \in Int BY <1>1, <1>3
<1>5. (n + q) * Cooldown <= (n + p) * Cooldown /\ (n + q) * Cooldown \in Int /\ (n + p) * Cooldown \in Int
  BY <1>4, Multiples, AlertBounds
<1>6. (n + q) * Cooldown <= rows[i].until - rows[i].first BY <1>2, <1>5
<1> QED BY <1>6 DEF NoticesFit, n, q

\* A monitor that owes nothing new.
LEMMA MonitorMoves ==
  ASSUME AlertInv, NEW m \in Monitors, UNCHANGED <<alertNow, alertRows>>,
         DOMAIN monitor' = Monitors, \A other \in Monitors \ {m} : monitor'[other] = monitor[other],
         MonitorIsSound(m)',
         \A i \in 1 .. Len(alertRows), c \in DOMAIN Adapters : m \in Owing(monitor', i, c) => m \in Owing(monitor, i, c)
  PROVE  AlertInv'
<1>1. \A other \in Monitors \ {m} : MonitorIsSound(other)' BY DEF AlertInv, MonitorIsSound
<1>2. \A i \in 1 .. Len(alertRows) : RowIsSound(alertRows[i])' BY DEF AlertInv, RowIsSound
<1>3. ASSUME NEW i \in 1 .. Len(alertRows), NEW c \in DOMAIN Adapters PROVE NoticesFit(alertRows, monitor', i, c)
  <2>1. Owing(monitor', i, c) \subseteq Owing(monitor, i, c) BY DEF Owing
  <2>2. RowIsSound(alertRows[i]) /\ NoticesFit(alertRows, monitor, i, c) BY DEF AlertInv
  <2> QED BY <2>1, <2>2, FitShrinks DEF RowIsSound
<1> QED BY <1>1, <1>2, <1>3 DEF AlertInv, NoticesFit

\* A task that has no notice to send now.
IsQuiet(mine) ==
    /\ DOMAIN mine = {"at", "todo", "kind", "moment", "row", "channel"}
    /\ mine.moment \in Nat /\ mine.moment <= alertNow /\ mine.channel \in Nat
    /\ mine.at \notin {"send", "record"}

LEMMA MonitorIsQuiet ==
  ASSUME AlertInv, NEW m \in Monitors, UNCHANGED <<alertNow, alertRows>>, NEW mine, IsQuiet(mine),
         monitor' = [monitor EXCEPT ![m] = mine]
  PROVE  AlertInv'
<1>1. DOMAIN monitor = Monitors BY DEF AlertInv
<1>2. monitor'[m] = mine /\ DOMAIN monitor' = Monitors /\ \A other \in Monitors \ {m} : monitor'[other] = monitor[other] BY <1>1
<1>3. \A i, c : m \notin Owing(monitor', i, c) BY <1>2 DEF Owing, IsQuiet
<1>4. MonitorIsSound(m)' BY <1>2 DEF MonitorIsSound, IsQuiet
<1> QED BY <1>2, <1>3, <1>4, MonitorMoves

LEMMA QuietTasks ==
  ASSUME AlertInv, NEW m \in Monitors
  PROVE  /\ IsQuiet(NoMonitor) /\ IsQuiet([NoMonitor EXCEPT !.at = "wait"])
         /\ IsQuiet([NoMonitor EXCEPT !.at = "collect", !.todo = FaultKinds])
         /\ IsQuiet([NoMonitor EXCEPT !.at = "raise", !.moment = alertNow])
         /\ IsQuiet(AfterAlert(monitor[m]))
         /\ monitor[m].at = "collect" => \A kind :
              /\ IsQuiet([monitor[m] EXCEPT !.todo = monitor[m].todo \ {kind}])
              /\ IsQuiet([monitor[m] EXCEPT !.at = "raise", !.todo = monitor[m].todo \ {kind}, !.kind = kind, !.moment = alertNow])
<1>1. alertNow \in Nat /\ MonitorIsSound(m) BY DEF AlertInv
<1>2. /\ DOMAIN NoMonitor = {"at", "todo", "kind", "moment", "row", "channel"} /\ NoMonitor.at = "off"
      /\ NoMonitor.moment = 0 /\ NoMonitor.channel = 0
  BY DEF NoMonitor
<1>3. IsQuiet(NoMonitor) BY <1>1, <1>2 DEF IsQuiet
<1>4. IsQuiet([NoMonitor EXCEPT !.at = "wait"]) BY <1>1, <1>2 DEF IsQuiet
<1>5. IsQuiet([NoMonitor EXCEPT !.at = "collect", !.todo = FaultKinds]) BY <1>1, <1>2 DEF IsQuiet
<1>6. IsQuiet([NoMonitor EXCEPT !.at = "raise", !.moment = alertNow]) BY <1>1, <1>2 DEF IsQuiet
<1>7. IsQuiet(AfterAlert(monitor[m])) BY <1>1, <1>2 DEF IsQuiet, AfterAlert
<1>8. ASSUME NEW kind, monitor[m].at = "collect" PROVE IsQuiet([monitor[m] EXCEPT !.todo = monitor[m].todo \ {kind}])
  BY <1>1, <1>8 DEF IsQuiet, MonitorIsSound
<1>9. ASSUME NEW kind
      PROVE  IsQuiet([monitor[m] EXCEPT !.at = "raise", !.todo = monitor[m].todo \ {kind}, !.kind = kind, !.moment = alertNow])
  BY <1>1 DEF IsQuiet, MonitorIsSound
<1> QED BY <1>3, <1>4, <1>5, <1>6, <1>7, <1>8, <1>9

LEMMA QuietSteps ==
  ASSUME AlertInv, NEW m \in Monitors,
         \/ StartMonitor(m) \/ CycleFails(m) \/ FinishCycle(m) \/ NextCycle(m) \/ StopMonitor(m) \/ MonitorDies(m)
         \/ \E kind \in FaultKinds, found \in BOOLEAN : ExamineFault(m, kind, found)
  PROVE  AlertInv'
<1>0. DOMAIN monitor = Monitors /\ MonitorIsSound(m) BY DEF AlertInv
<1>1. UNCHANGED <<alertNow, alertRows>>
  BY DEF StartMonitor, CycleFails, FinishCycle, NextCycle, StopMonitor, MonitorDies, ExamineFault
<1>2. CASE StartMonitor(m) \/ NextCycle(m)
  <2>1. monitor' = [monitor EXCEPT ![m] = [NoMonitor EXCEPT !.at = "collect", !.todo = FaultKinds]]
    BY <1>2 DEF StartMonitor, NextCycle
  <2> QED BY <1>1, <2>1, QuietTasks, MonitorIsQuiet
<1>3. CASE FinishCycle(m) \/ StopMonitor(m) \/ MonitorDies(m)
  <2>1. \/ monitor' = [monitor EXCEPT ![m] = [NoMonitor EXCEPT !.at = "wait"]]
        \/ monitor' = [monitor EXCEPT ![m] = NoMonitor]
    BY <1>3 DEF FinishCycle, StopMonitor, MonitorDies
  <2> QED BY <1>1, <2>1, QuietTasks, MonitorIsQuiet
<1>4. CASE CycleFails(m)
  <2>1. \/ monitor' = [monitor EXCEPT ![m] = [NoMonitor EXCEPT !.at = "raise", !.moment = alertNow]]
        \/ monitor' = [monitor EXCEPT ![m] = NoMonitor]
    BY <1>0, <1>4 DEF CycleFails
  <2> QED BY <1>1, <2>1, QuietTasks, MonitorIsQuiet
<1>5. ASSUME NEW kind \in FaultKinds, ExamineFault(m, kind, TRUE) PROVE AlertInv'
  <2> DEFINE seen == [monitor[m] EXCEPT !.at = "raise", !.todo = monitor[m].todo \ {kind}, !.kind = kind, !.moment = alertNow]
  <2>1. monitor[m].at = "collect" /\ monitor' = [monitor EXCEPT ![m] = seen] BY <1>0, <1>5 DEF ExamineFault, MonitorIsSound
  <2>2. IsQuiet(seen) BY <2>1, QuietTasks
  <2> QED BY <1>1, <2>1, <2>2, MonitorIsQuiet
<1>6. ASSUME NEW kind \in FaultKinds, ExamineFault(m, kind, FALSE) PROVE AlertInv'
  <2> DEFINE left == [monitor[m] EXCEPT !.todo = monitor[m].todo \ {kind}]
  <2>1. monitor[m].at = "collect" /\ monitor' = [monitor EXCEPT ![m] = left] BY <1>0, <1>6 DEF ExamineFault, MonitorIsSound
  <2>2. IsQuiet(left) BY <2>1, QuietTasks
  <2> QED BY <1>1, <2>1, <2>2, MonitorIsQuiet
<1>7. ASSUME NEW kind \in FaultKinds, NEW found \in BOOLEAN, ExamineFault(m, kind, found) PROVE AlertInv'
  BY <1>5, <1>6, <1>7, found = TRUE \/ found = FALSE, Zenon
<1> QED BY <1>2, <1>3, <1>4, <1>7

LEMMA RowsAreSequence ==
  ASSUME NEW n \in Nat, NEW s, s = [j \in 1 .. n |-> s[j]]
  PROVE  Len(s) = n /\ s \in Seq({s[j] : j \in 1 .. n})
<1> DEFINE R == {s[j] : j \in 1 .. n}
<1>1. \A j \in 1 .. n : s[j] \in R OBVIOUS
<1> HIDE DEF R
<1>2. s \in [1 .. n -> R] BY <1>1
<1>3. s \in Seq(R) /\ Len(s) = n BY <1>2
<1> QED BY <1>3 DEF R

\* Rows that keep their times and notices.
LEMMA OperatorSteps ==
  ASSUME AlertInv, NEW i \in DOMAIN alertRows, AcknowledgeAlert(i) \/ ResolveAlert(i)
  PROVE  AlertInv'
<1>0. /\ alertRows \in Seq({alertRows[j] : j \in 1 .. Len(alertRows)}) /\ Len(alertRows) \in Nat /\ UNCHANGED <<alertNow, monitor>>
      /\ \A j \in 1 .. Len(alertRows) : RowIsSound(alertRows[j])
  BY DEF AlertInv, AcknowledgeAlert, ResolveAlert
<1>1. DOMAIN alertRows = 1 .. Len(alertRows) BY <1>0
<1>2. PICK status \in {"ACKNOWLEDGED", "RESOLVED"} : alertRows' = [alertRows EXCEPT ![i].status = status]
  BY DEF AcknowledgeAlert, ResolveAlert
<1>3. /\ DOMAIN alertRows' = 1 .. Len(alertRows) /\ Len(alertRows') = Len(alertRows)
      /\ alertRows' \in Seq({alertRows'[j] : j \in 1 .. Len(alertRows')})
  <2>1. DOMAIN alertRows' = 1 .. Len(alertRows) /\ alertRows' = [j \in 1 .. Len(alertRows) |-> alertRows'[j]] BY <1>1, <1>2
  <2> QED BY <1>0, <2>1, RowsAreSequence
<1>4. \A j \in 1 .. Len(alertRows) :
        /\ DOMAIN alertRows'[j] = DOMAIN alertRows[j] /\ alertRows'[j].first = alertRows[j].first
        /\ alertRows'[j].until = alertRows[j].until /\ alertRows'[j].notices = alertRows[j].notices
  BY <1>0, <1>1, <1>2 DEF RowIsSound
<1>5. \A j \in 1 .. Len(alertRows') : RowIsSound(alertRows[j])' BY <1>0, <1>3, <1>4 DEF RowIsSound
<1>6. ASSUME NEW j \in 1 .. Len(alertRows'), NEW c \in DOMAIN Adapters PROVE NoticesFit(alertRows', monitor, j, c)
  <2>1. RowIsSound(alertRows[j]) /\ NoticesFit(alertRows, monitor, j, c) BY <1>3 DEF AlertInv
  <2> QED BY <1>3, <1>4, <2>1 DEF NoticesFit
<1>7. \A m \in Monitors : MonitorIsSound(m)' BY <1>0, <1>3 DEF AlertInv, MonitorIsSound
<1> QED BY <1>0, <1>3, <1>5, <1>6, <1>7 DEF AlertInv, NoticesFit

\* A notice more, in the sum of those sent and owed, needs a cooldown more.
LEMMA FitGrows ==
  ASSUME NEW rows, NEW more, NEW monitors, NEW others, NEW i, NEW c, NEW d \in {0, 1},
         rows[i].notices[c] \in Nat, rows[i].until \in Nat, rows[i].first \in Nat,
         more[i].notices[c] \in Nat, more[i].until \in Nat, more[i].first = rows[i].first,
         more[i].until >= rows[i].until + d * Cooldown,
         more[i].notices[c] + Cardinality(Owing(others, i, c)) <= rows[i].notices[c] + Cardinality(Owing(monitors, i, c)) + d,
         NoticesFit(rows, monitors, i, c)
  PROVE  NoticesFit(more, others, i, c)
<1> DEFINE p == Cardinality(Owing(monitors, i, c))
           q == Cardinality(Owing(others, i, c))
           n == rows[i].notices[c]
           k == more[i].notices[c]
<1>1. p \in Nat /\ q \in Nat BY OwingIsFinite
<1>2. (n + p) * Cooldown <= rows[i].until - rows[i].first BY DEF NoticesFit
<1> HIDE DEF p, q, n, k
<1>3. n \in Nat /\ k \in Nat BY DEF n, k
<1>4. k + q <= n + p + d BY DEF n, k, p, q
<1>5. (k + q) * Cooldown <= (n + p) * Cooldown + d * Cooldown /\ (k + q) * Cooldown \in Int /\ (n + p) * Cooldown \in Int
  <2>1. CASE d = 0
    <3>1. k + q <= n + p /\ k + q \in Int /\ n + p \in Int BY <1>1, <1>3, <1>4, <2>1
    <3>2. (k + q) * Cooldown <= (n + p) * Cooldown /\ (k + q) * Cooldown \in Int /\ (n + p) * Cooldown \in Int
      BY <3>1, Multiples, AlertBounds
    <3>3. d * Cooldown = 0 BY <2>1, AlertBounds
    <3> QED BY <3>2, <3>3
  <2>2. CASE d = 1
    <3>1. k + q <= (n + p) + 1 /\ k + q \in Int /\ n + p \in Int /\ (n + p) + 1 \in Int /\ n + p <= (n + p) BY <1>1, <1>3, <1>4, <2>2
    <3>2. (k + q) * Cooldown <= ((n + p) + 1) * Cooldown /\ (k + q) * Cooldown \in Int BY <3>1, Multiples, AlertBounds
    <3>3. ((n + p) + 1) * Cooldown = (n + p) * Cooldown + Cooldown /\ (n + p) * Cooldown \in Int BY <3>1, Multiples, AlertBounds
    <3>4. d * Cooldown = Cooldown /\ Cooldown \in Nat BY <2>2, AlertBounds
    <3> QED BY <3>2, <3>3, <3>4
  <2> QED BY <2>1, <2>2
<1>6. d * Cooldown \in Int BY AlertBounds
<1>7. (k + q) * Cooldown <= more[i].until - rows[i].first BY <1>2, <1>5, <1>6
<1> QED BY <1>7 DEF NoticesFit, k, q

\* The monitors that owe notices of an alert, when m owes them as well.
LEMMA OneMoreOwes ==
  ASSUME NEW monitors, NEW others, NEW m \in Monitors, NEW i, NEW c,
         \A other \in Monitors \ {m} : others[other] = monitors[other]
  PROVE  Cardinality(Owing(others, i, c)) <= Cardinality(Owing(monitors, i, c)) + 1
<1>1. Owing(others, i, c) \in SUBSET (Owing(monitors, i, c) \cup {m}) BY DEF Owing
<1>2. IsFiniteSet(Owing(monitors, i, c)) /\ Cardinality(Owing(monitors, i, c)) \in Nat BY OwingIsFinite
<1>3. /\ IsFiniteSet(Owing(monitors, i, c) \cup {m})
      /\ Cardinality(Owing(monitors, i, c) \cup {m}) = IF m \in Owing(monitors, i, c) THEN Cardinality(Owing(monitors, i, c))
                                                      ELSE Cardinality(Owing(monitors, i, c)) + 1
  BY <1>2, FS_AddElement
<1>4. Cardinality(Owing(others, i, c)) <= Cardinality(Owing(monitors, i, c) \cup {m}) BY <1>1, <1>3, FS_Subset
<1> QED BY <1>2, <1>3, <1>4, OwingIsFinite

LEMMA OneLessOwes ==
  ASSUME NEW monitors, NEW others, NEW i, NEW c, NEW m \in Owing(monitors, i, c),
         Owing(others, i, c) \subseteq Owing(monitors, i, c) \ {m}
  PROVE  Cardinality(Owing(others, i, c)) + 1 <= Cardinality(Owing(monitors, i, c))
<1>1. IsFiniteSet(Owing(monitors, i, c)) /\ Cardinality(Owing(monitors, i, c)) \in Nat BY OwingIsFinite
<1>2. /\ IsFiniteSet(Owing(monitors, i, c) \ {m})
      /\ Cardinality(Owing(monitors, i, c) \ {m}) = Cardinality(Owing(monitors, i, c)) - 1
  BY <1>1, FS_RemoveElement
<1>3. Owing(others, i, c) \in SUBSET (Owing(monitors, i, c) \ {m}) OBVIOUS
<1>4. Cardinality(Owing(others, i, c)) <= Cardinality(Owing(monitors, i, c) \ {m}) BY <1>2, <1>3, FS_Subset
<1> QED BY <1>1, <1>2, <1>4, OwingIsFinite

LEMMA OwesNoMore ==
  ASSUME NEW monitors, NEW others, NEW i, NEW c, Owing(others, i, c) \subseteq Owing(monitors, i, c)
  PROVE  Cardinality(Owing(others, i, c)) <= Cardinality(Owing(monitors, i, c))
<1>1. Owing(others, i, c) \in SUBSET Owing(monitors, i, c) OBVIOUS
<1> QED BY <1>1, OwingIsFinite, FS_Subset

LEMMA RowsMove ==
  ASSUME AlertInv, NEW m \in Monitors, UNCHANGED alertNow, MonitorIsSound(m)', DOMAIN monitor' = Monitors,
         \A other \in Monitors \ {m} : monitor'[other] = monitor[other],
         DOMAIN alertRows' = 1 .. Len(alertRows), alertRows' = [j \in 1 .. Len(alertRows) |-> alertRows'[j]],
         \A j \in 1 .. Len(alertRows) : RowIsSound(alertRows'[j]),
         \A j \in 1 .. Len(alertRows), c \in DOMAIN Adapters : NoticesFit(alertRows', monitor', j, c)
  PROVE  AlertInv'
<1>1. Len(alertRows) \in Nat /\ alertNow \in Nat BY DEF AlertInv
<1>2. Len(alertRows') = Len(alertRows) /\ alertRows' \in Seq({alertRows'[j] : j \in 1 .. Len(alertRows')})
  BY <1>1, RowsAreSequence
<1>3. \A j \in 1 .. Len(alertRows') : RowIsSound(alertRows[j])' BY <1>2 DEF RowIsSound
<1>4. \A other \in Monitors \ {m} : MonitorIsSound(other)' BY <1>2 DEF AlertInv, MonitorIsSound
<1> QED BY <1>1, <1>2, <1>3, <1>4 DEF AlertInv

\* Rows that keep times and notices, and a monitor that is quiet.
LEMMA QuietMonitorOfRows ==
  ASSUME AlertInv, NEW m \in Monitors, UNCHANGED alertNow, NEW mine, IsQuiet(mine), monitor' = [monitor EXCEPT ![m] = mine],
         DOMAIN alertRows' = 1 .. Len(alertRows), alertRows' = [j \in 1 .. Len(alertRows) |-> alertRows'[j]],
         \A j \in 1 .. Len(alertRows) :
            /\ DOMAIN alertRows'[j] = DOMAIN alertRows[j] /\ alertRows'[j].first = alertRows[j].first
            /\ alertRows'[j].until = alertRows[j].until /\ alertRows'[j].notices = alertRows[j].notices
  PROVE  AlertInv'
<1>1. DOMAIN monitor = Monitors /\ \A j \in 1 .. Len(alertRows) : RowIsSound(alertRows[j]) BY DEF AlertInv
<1>2. monitor'[m] = mine /\ DOMAIN monitor' = Monitors /\ \A other \in Monitors \ {m} : monitor'[other] = monitor[other] BY <1>1
<1>3. MonitorIsSound(m)' BY <1>2 DEF MonitorIsSound, IsQuiet
<1>4. \A j \in 1 .. Len(alertRows) : RowIsSound(alertRows'[j]) BY <1>1 DEF RowIsSound
<1>5. ASSUME NEW j \in 1 .. Len(alertRows), NEW c \in DOMAIN Adapters PROVE NoticesFit(alertRows', monitor', j, c)
  <2>1. Owing(monitor', j, c) \subseteq Owing(monitor, j, c) BY <1>2 DEF Owing, IsQuiet
  <2>2. RowIsSound(alertRows[j]) /\ NoticesFit(alertRows, monitor, j, c) BY DEF AlertInv
  <2> QED BY <2>1, <2>2, FitShrinks DEF RowIsSound
<1> QED BY <1>2, <1>3, <1>4, <1>5, RowsMove

LEMMA RaiseStep ==
  ASSUME AlertInv, NEW m \in Monitors, RaiseAlert(m)
  PROVE  AlertInv'
<1> DEFINE mine == monitor[m]
           rows == Unresolved(mine.kind)
           Fields == {"at", "todo", "kind", "moment", "row", "channel"}
           n == Len(alertRows)
<1>0. /\ alertNow \in Nat /\ n \in Nat /\ MonitorIsSound(m) /\ DOMAIN monitor = Monitors /\ UNCHANGED alertNow
      /\ alertRows \in Seq({alertRows[i] : i \in 1 .. n}) /\ \A i \in 1 .. n : RowIsSound(alertRows[i])
  BY DEF AlertInv, RaiseAlert
<1>00. DOMAIN alertRows = 1 .. n BY <1>0
<1>01. mine.at = "raise" BY DEF RaiseAlert
<1>1. CASE rows = {}
  <2> DEFINE row == NewAlert(mine.kind, mine.moment)
             next == [mine EXCEPT !.at = "send", !.row = n + 1, !.channel = 1]
  <2>1. alertRows' = Append(alertRows, row) /\ monitor' = [monitor EXCEPT ![m] = next] BY <1>1 DEF RaiseAlert
  <2>2. /\ DOMAIN next = Fields /\ next.at = "send" /\ next.row = n + 1 /\ next.channel = 1 /\ next.moment = mine.moment
    BY <1>0 DEF MonitorIsSound
  <2>3. /\ DOMAIN row = {"kind", "status", "first", "until", "notices"}
        /\ row.first = mine.moment /\ row.until = mine.moment + Cooldown /\ row.notices = [c \in DOMAIN Adapters |-> 0]
    BY DEF NewAlert
  <2> HIDE DEF row, next
  <2>4. /\ Len(alertRows') = n + 1 /\ alertRows'[n + 1] = row /\ \A i \in 1 .. n : alertRows'[i] = alertRows[i]
        /\ alertRows' = [i \in 1 .. (n + 1) |-> alertRows'[i]]
    <3> DEFINE S == {alertRows[i] : i \in 1 .. n} \cup {row}
    <3>1. alertRows \in Seq(S) /\ row \in S BY <1>0
    <3> HIDE DEF S
    <3>2. alertRows' \in Seq(S) /\ Len(alertRows') = n + 1 BY <2>1, <3>1, <1>0
    <3>3. alertRows'[n + 1] = row /\ \A i \in 1 .. n : alertRows'[i] = alertRows[i] BY <2>1, <3>1, <1>0
    <3> QED BY <3>2, <3>3
  <2>5. alertRows' \in Seq({alertRows'[i] : i \in 1 .. Len(alertRows')})
    <3>1. n + 1 \in Nat BY <1>0
    <3> QED BY <2>4, <3>1, RowsAreSequence
  <2>6. monitor'[m] = next /\ DOMAIN monitor' = Monitors /\ \A other \in Monitors \ {m} : monitor'[other] = monitor[other]
    BY <1>0, <2>1
  <2>7. \A other \in Monitors : MonitorIsSound(other)'
    <3>1. MonitorIsSound(m)' BY <1>0, <2>2, <2>4, <2>6 DEF MonitorIsSound
    <3>2. \A other \in Monitors \ {m} : MonitorIsSound(other)'
      <4> SUFFICES ASSUME NEW other \in Monitors \ {m} PROVE MonitorIsSound(other)' OBVIOUS
      <4>1. MonitorIsSound(other) BY DEF AlertInv
      <4>2. 1 .. n \subseteq 1 .. (n + 1) BY <1>0
      <4> QED BY <1>0, <2>4, <2>6, <4>1, <4>2 DEF MonitorIsSound
    <3> QED BY <3>1, <3>2
  <2>8. \A i \in 1 .. Len(alertRows') : RowIsSound(alertRows[i])'
    <3> SUFFICES ASSUME NEW i \in 1 .. (n + 1) PROVE RowIsSound(alertRows[i])' BY <2>4
    <3>1. CASE i \in 1 .. n
      <4>1. RowIsSound(alertRows[i]) /\ alertRows'[i] = alertRows[i] BY <1>0, <2>4, <3>1
      <4> QED BY <1>0, <4>1 DEF RowIsSound
    <3>2. CASE i = n + 1
      <4>1. alertRows'[i] = row BY <2>4, <3>2
      <4>2. mine.moment \in Nat /\ mine.moment <= alertNow BY <1>0 DEF MonitorIsSound
      <4>3. row.first \in Nat /\ row.first <= alertNow /\ row.until \in Nat /\ row.until <= alertNow + Cooldown
        BY <1>0, <2>3, <4>2, AlertBounds
      <4> QED BY <1>0, <2>3, <4>1, <4>3 DEF RowIsSound
    <3> QED BY <1>0, <3>1, <3>2
  <2>9. ASSUME NEW i \in 1 .. Len(alertRows'), NEW c \in DOMAIN Adapters PROVE NoticesFit(alertRows', monitor', i, c)
    <3>1. CASE i \in 1 .. n
      <4>1. RowIsSound(alertRows[i]) /\ NoticesFit(alertRows, monitor, i, c) BY <3>1 DEF AlertInv
      <4>2. Owing(monitor', i, c) \subseteq Owing(monitor, i, c) BY <1>0, <2>2, <2>6, <3>1 DEF Owing
      <4> QED BY <2>4, <3>1, <4>1, <4>2, FitShrinks DEF RowIsSound
    <3>2. CASE i = n + 1
      <4>1. Owing(monitor, i, c) = {} BY <1>0, <3>2 DEF Owing, AlertInv, MonitorIsSound
      <4>2. Cardinality(Owing(monitor', i, c)) <= 1 /\ Cardinality(Owing(monitor', i, c)) \in Nat
        BY <2>6, <4>1, OneMoreOwes, FS_EmptySet, OwingIsFinite
      <4>3. alertRows'[i].notices[c] = 0 /\ alertRows'[i].until - alertRows'[i].first = Cooldown
        BY <1>0, <2>3, <2>4, <3>2, AlertBounds DEF MonitorIsSound
      <4> DEFINE q == Cardinality(Owing(monitor', i, c))
      <4> HIDE DEF q
      <4>4. q \in Nat /\ q <= 1 BY <4>2 DEF q
      <4>5. (0 + q) * Cooldown <= Cooldown
        <5>1. CASE q = 0 BY <5>1, AlertBounds
        <5>2. CASE q = 1 BY <5>2, AlertBounds
        <5> QED BY <4>4, <5>1, <5>2
      <4> QED BY <4>3, <4>5 DEF NoticesFit, q
    <3> QED BY <1>0, <2>4, <3>1, <3>2
  <2> QED BY <1>0, <2>4, <2>5, <2>6, <2>7, <2>8, <2>9 DEF AlertInv
<1>2. CASE rows # {}
  <2>1. PICK i \in 1 .. n : i = CHOOSE r \in rows : TRUE BY <1>00, <1>2 DEF Unresolved
  <2> DEFINE due == NoticeDue(alertRows[i], mine.moment)
  <2>2. /\ alertRows' = [alertRows EXCEPT ![i].until = IF due THEN mine.moment + Cooldown ELSE alertRows[i].until]
        /\ monitor' = [monitor EXCEPT ![m] =
               IF due THEN [mine EXCEPT !.at = "send", !.row = i, !.channel = 1] ELSE AfterAlert(mine)]
    BY <1>2, <2>1, Zenon DEF RaiseAlert
  <2>3. RowIsSound(alertRows[i]) BY <1>0, <2>1
  <2>4. CASE ~due
    <3>1. alertRows' = [alertRows EXCEPT ![i].until = alertRows[i].until] BY <2>2, <2>4, Zenon
    <3>2. monitor' = [monitor EXCEPT ![m] = AfterAlert(monitor[m])] BY <2>2, <2>4, Zenon
    <3>3. IsQuiet(AfterAlert(monitor[m])) BY QuietTasks
    <3>4. DOMAIN alertRows' = 1 .. n /\ alertRows' = [j \in 1 .. n |-> alertRows'[j]] BY <1>00, <3>1
    <3>5. \A j \in 1 .. n :
            /\ DOMAIN alertRows'[j] = DOMAIN alertRows[j] /\ alertRows'[j].first = alertRows[j].first
            /\ alertRows'[j].until = alertRows[j].until /\ alertRows'[j].notices = alertRows[j].notices
      BY <1>0, <1>00, <3>1 DEF RowIsSound
    <3> QED BY <1>0, <3>2, <3>3, <3>4, <3>5, QuietMonitorOfRows
  <2>5. CASE due
    <3> DEFINE next == [mine EXCEPT !.at = "send", !.row = i, !.channel = 1]
    <3>1. alertRows' = [alertRows EXCEPT ![i].until = mine.moment + Cooldown] BY <2>2, <2>5, Zenon
    <3>2. monitor' = [monitor EXCEPT ![m] = next] BY <2>2, <2>5, Zenon
    <3>3. alertRows[i].until <= mine.moment BY <2>5 DEF NoticeDue
    <3>4. DOMAIN next = Fields /\ next.at = "send" /\ next.row = i /\ next.channel = 1 /\ next.moment = mine.moment
      BY <1>0 DEF MonitorIsSound
    <3> HIDE DEF next
    <3>5. monitor'[m] = next /\ DOMAIN monitor' = Monitors /\ \A other \in Monitors \ {m} : monitor'[other] = monitor[other]
      BY <1>0, <3>2
    <3>6. /\ DOMAIN alertRows' = 1 .. n
          /\ alertRows'[i].until = mine.moment + Cooldown
          /\ DOMAIN alertRows'[i] = DOMAIN alertRows[i] /\ alertRows'[i].first = alertRows[i].first
          /\ alertRows'[i].notices = alertRows[i].notices
          /\ \A j \in (1 .. n) \ {i} : alertRows'[j] = alertRows[j]
      BY <1>00, <2>1, <2>3, <3>1 DEF RowIsSound
    <3>7. Len(alertRows') = n /\ alertRows' \in Seq({alertRows'[j] : j \in 1 .. Len(alertRows')})
      <4>1. alertRows' = [j \in 1 .. n |-> alertRows'[j]] BY <1>00, <3>1
      <4> QED BY <1>0, <4>1, RowsAreSequence
    <3>8. \A j \in 1 .. Len(alertRows') : RowIsSound(alertRows[j])'
      <4>0. mine.moment \in Nat /\ mine.moment <= alertNow BY <1>0 DEF MonitorIsSound
      <4>3. mine.moment + Cooldown \in Nat /\ mine.moment + Cooldown <= alertNow + Cooldown
        BY <1>0, <4>0, AlertBounds
      <4>4. UNCHANGED alertNow BY <1>0
      <4>1. RowIsSound(alertRows[i])' BY <2>3, <3>6, <4>3, <4>4 DEF RowIsSound
      <4>2. \A j \in (1 .. n) \ {i} : RowIsSound(alertRows[j])' BY <1>0, <3>6 DEF RowIsSound
      <4> QED BY <3>7, <4>1, <4>2
    <3>9. \A other \in Monitors : MonitorIsSound(other)'
      <4>0. mine.moment \in Nat /\ mine.moment <= alertNow /\ UNCHANGED alertNow BY <1>0 DEF MonitorIsSound
      <4>1. MonitorIsSound(m)'
        <5>1. /\ DOMAIN (monitor'[m]) = Fields /\ monitor'[m].moment = mine.moment /\ monitor'[m].channel = 1
              /\ monitor'[m].row = i
          BY <3>4, <3>5
        <5>2. i \in 1 .. Len(alertRows') /\ 1 \in Nat BY <2>1, <3>7
        <5> QED BY <4>0, <5>1, <5>2 DEF MonitorIsSound
      <4>2. \A other \in Monitors \ {m} : MonitorIsSound(other)' BY <1>0, <3>5, <3>7 DEF AlertInv, MonitorIsSound
      <4> QED BY <4>1, <4>2
    <3>10. ASSUME NEW j \in 1 .. Len(alertRows'), NEW c \in DOMAIN Adapters PROVE NoticesFit(alertRows', monitor', j, c)
      <4>1. RowIsSound(alertRows[j]) /\ NoticesFit(alertRows, monitor, j, c) BY <3>7 DEF AlertInv
      <4>2. CASE j # i
        <5>1. Owing(monitor', j, c) \subseteq Owing(monitor, j, c) BY <3>4, <3>5, <4>2 DEF Owing
        <5>2. alertRows'[j] = alertRows[j] BY <3>6, <3>7, <4>2
        <5> QED BY <4>1, <5>1, <5>2, FitShrinks DEF RowIsSound
      <4>3. CASE j = i
        <5>1. Cardinality(Owing(monitor', i, c)) <= Cardinality(Owing(monitor, i, c)) + 1
              /\ Cardinality(Owing(monitor', i, c)) \in Nat /\ Cardinality(Owing(monitor, i, c)) \in Nat
          BY <3>5, OneMoreOwes, OwingIsFinite
        <5>2. /\ alertRows[i].notices[c] \in Nat /\ alertRows[i].until \in Nat /\ alertRows[i].first \in Nat
              /\ alertRows'[i].notices[c] = alertRows[i].notices[c] /\ alertRows'[i].first = alertRows[i].first
          BY <2>3, <3>6 DEF RowIsSound
        <5>3. alertRows'[i].until \in Nat /\ alertRows'[i].until >= alertRows[i].until + 1 * Cooldown
          <6>1. mine.moment \in Nat BY <1>0 DEF MonitorIsSound
          <6> QED BY <3>3, <3>6, <5>2, <6>1, AlertBounds
        <5> DEFINE p == Cardinality(Owing(monitor, i, c))
                   q == Cardinality(Owing(monitor', i, c))
                   k == alertRows[i].notices[c]
        <5>4. k + q <= k + p + 1
          <6>1. k \in Nat /\ p \in Nat /\ q \in Nat /\ q <= p + 1 BY <5>1, <5>2
          <6> HIDE DEF k, p, q
          <6> QED BY <6>1
        <5>5. 1 \in {0, 1} OBVIOUS
        <5> QED BY <4>1, <4>3, <5>2, <5>3, <5>4, <5>5, FitGrows
      <4> QED BY <4>2, <4>3
    <3> QED BY <1>0, <3>5, <3>7, <3>8, <3>9, <3>10 DEF AlertInv
  <2> QED BY <2>4, <2>5
<1> QED BY <1>1, <1>2

\* The notice that was owed is now counted, or was lost.
LEMMA SendStep ==
  ASSUME AlertInv, NEW m \in Monitors, NEW sent \in BOOLEAN, SendNotice(m, sent)
  PROVE  AlertInv'
<1> DEFINE n == Len(alertRows)
<1>0. /\ alertNow \in Nat /\ n \in Nat /\ MonitorIsSound(m) /\ DOMAIN monitor = Monitors /\ UNCHANGED alertNow
      /\ alertRows \in Seq({alertRows[j] : j \in 1 .. n}) /\ \A j \in 1 .. n : RowIsSound(alertRows[j])
  BY DEF AlertInv, SendNotice
<1>1. PICK i \in 1 .. n, ch \in Nat : i = monitor[m].row /\ ch = monitor[m].channel BY <1>0 DEF SendNotice, MonitorIsSound
<1>2. PICK k \in {0, 1} : alertRows' = [alertRows EXCEPT ![i].notices[ch] = alertRows[i].notices[ch] + k]
  <2>1. alertRows' = [alertRows EXCEPT ![i].notices[ch] = IF sent THEN alertRows[i].notices[ch] + 1 ELSE alertRows[i].notices[ch]]
    BY <1>1, Zenon DEF SendNotice
  <2> DEFINE Counted(k) == [alertRows EXCEPT ![i].notices[ch] = alertRows[i].notices[ch] + k]
  <2>2. CASE sent
    <3>1. alertRows' = Counted(1) BY <2>1, <2>2, Zenon
    <3> HIDE DEF Counted
    <3>2. 1 \in {0, 1} OBVIOUS
    <3>3. \E k \in {0, 1} : alertRows' = Counted(k) BY <3>1, <3>2
    <3> QED BY <3>3 DEF Counted
  <2>3. CASE ~sent
    <3>0. alertRows' = [alertRows EXCEPT ![i].notices[ch] = alertRows[i].notices[ch]] BY <2>1, <2>3, Zenon
    <3>1. alertRows' = Counted(0)
      <4>0. RowIsSound(alertRows[i]) /\ DOMAIN alertRows = 1 .. n BY <1>0
      <4>1. CASE ch \in DOMAIN Adapters
        <5>1. alertRows[i].notices[ch] \in Nat BY <4>0, <4>1 DEF RowIsSound
        <5>2. alertRows[i].notices[ch] + 0 = alertRows[i].notices[ch] BY <5>1
        <5> QED BY <3>0, <5>2, Zenon
      <4>2. CASE ch \notin DOMAIN Adapters
        BY <3>0, <4>0, <4>2 DEF RowIsSound
      <4> QED BY <4>1, <4>2
    <3> HIDE DEF Counted
    <3>2. 0 \in {0, 1} OBVIOUS
    <3>3. \E k \in {0, 1} : alertRows' = Counted(k) BY <3>1, <3>2
    <3> QED BY <3>3 DEF Counted
  <2> QED BY <2>2, <2>3
<1>3. /\ DOMAIN (monitor'[m]) = {"at", "todo", "kind", "moment", "row", "channel"} /\ DOMAIN monitor' = Monitors
      /\ monitor[m].at = "send" /\ monitor'[m].at = "record" /\ monitor'[m].moment = monitor[m].moment
      /\ monitor'[m].row = i /\ monitor'[m].channel = ch
      /\ \A other \in Monitors \ {m} : monitor'[other] = monitor[other]
  BY <1>0, <1>1 DEF SendNotice, MonitorIsSound
<1>4. DOMAIN alertRows = 1 .. n /\ RowIsSound(alertRows[i]) BY <1>0
<1>5. DOMAIN alertRows' = 1 .. n /\ alertRows' = [j \in 1 .. n |-> alertRows'[j]] BY <1>2, <1>4
<1>6. /\ \A j \in (1 .. n) \ {i} : alertRows'[j] = alertRows[j]
      /\ DOMAIN alertRows'[i] = DOMAIN alertRows[i] /\ alertRows'[i].first = alertRows[i].first
      /\ alertRows'[i].until = alertRows[i].until /\ DOMAIN alertRows'[i].notices = DOMAIN Adapters
      /\ \A c \in DOMAIN Adapters : alertRows'[i].notices[c] =
            IF c = ch THEN alertRows[i].notices[c] + k ELSE alertRows[i].notices[c]
  BY <1>2, <1>4 DEF RowIsSound
<1>7. \A j \in 1 .. n : RowIsSound(alertRows'[j])
  <2>1. RowIsSound(alertRows'[i]) BY <1>4, <1>6 DEF RowIsSound
  <2> QED BY <1>0, <1>6, <2>1
<1>8. MonitorIsSound(m)'
  <2>1. Len(alertRows') = n BY <1>0, <1>5, RowsAreSequence
  <2> QED BY <1>0, <1>1, <1>3, <2>1 DEF MonitorIsSound
<1>9. ASSUME NEW j \in 1 .. n, NEW c \in DOMAIN Adapters PROVE NoticesFit(alertRows', monitor', j, c)
  <2>1. RowIsSound(alertRows[j]) /\ NoticesFit(alertRows, monitor, j, c) BY DEF AlertInv
  <2>2. c \in Nat BY ChannelsAreNumbers
  <2>3. Owing(monitor', j, c) \subseteq Owing(monitor, j, c) BY <1>1, <1>3, <2>2 DEF Owing
  <2>4. CASE j # i \/ c # ch
    <3>1. /\ alertRows'[j].notices[c] = alertRows[j].notices[c] /\ alertRows'[j].until = alertRows[j].until
          /\ alertRows'[j].first = alertRows[j].first
      BY <1>6, <2>4
    <3> QED BY <2>1, <2>3, <3>1, FitShrinks DEF RowIsSound
  <2>5. CASE j = i /\ c = ch
    <3>1. m \in Owing(monitor, i, ch) /\ m \notin Owing(monitor', i, ch) BY <1>1, <1>3 DEF Owing
    <3>2. Owing(monitor', i, ch) \subseteq Owing(monitor, i, ch) \ {m} BY <2>3, <2>5, <3>1
    <3>3. Cardinality(Owing(monitor', i, ch)) + 1 <= Cardinality(Owing(monitor, i, ch)) BY <3>1, <3>2, OneLessOwes
    <3> DEFINE p == Cardinality(Owing(monitor, i, ch))
               q == Cardinality(Owing(monitor', i, ch))
               x == alertRows[i].notices[ch]
    <3>4. p \in Nat /\ q \in Nat /\ x \in Nat BY <1>4, <2>5, OwingIsFinite DEF RowIsSound
    <3>5. q + 1 <= p BY <3>3
    <3>6. alertRows'[i].notices[ch] = x + k BY <1>6, <2>5
    <3>7. x + k \in Nat /\ x + k + q <= x + p + 0
      <4> HIDE DEF p, q, x
      <4> QED BY <3>4, <3>5
    <3>8. alertRows'[i].notices[ch] \in Nat /\ alertRows'[i].notices[ch] + q <= x + p + 0 BY <3>6, <3>7
    <3>9. /\ alertRows[i].until \in Nat /\ alertRows'[i].until \in Nat /\ alertRows[i].first \in Nat
          /\ alertRows'[i].until >= alertRows[i].until + 0 * Cooldown
      BY <1>4, <1>6, AlertBounds DEF RowIsSound
    <3>10. 0 \in {0, 1} OBVIOUS
    <3> QED BY <1>6, <2>1, <2>5, <3>4, <3>8, <3>9, <3>10, FitGrows
  <2> QED BY <2>4, <2>5
<1> QED BY <1>0, <1>3, <1>5, <1>7, <1>8, <1>9, RowsMove

\* The channels after c are still owed.
LEMMA RecordStep ==
  ASSUME AlertInv, NEW m \in Monitors, RecordDelivery(m)
  PROVE  AlertInv'
<1> DEFINE mine == monitor[m]
           next == [mine EXCEPT !.at = "send", !.channel = mine.channel + 1]
<1>0. MonitorIsSound(m) /\ DOMAIN monitor = Monitors /\ UNCHANGED <<alertNow, alertRows>> /\ monitor[m].at = "record"
  BY DEF AlertInv, RecordDelivery
<1>1. CASE ~(mine.channel < Len(Adapters))
  <2>1. monitor' = [monitor EXCEPT ![m] = AfterAlert(monitor[m])] BY <1>1, Zenon DEF RecordDelivery
  <2>2. IsQuiet(AfterAlert(monitor[m])) BY QuietTasks
  <2> QED BY <1>0, <2>1, <2>2, MonitorIsQuiet
<1>2. CASE mine.channel < Len(Adapters)
  <2>1. monitor' = [monitor EXCEPT ![m] = next] BY <1>2, Zenon DEF RecordDelivery
  <2>2. /\ DOMAIN next = {"at", "todo", "kind", "moment", "row", "channel"} /\ next.at = "send"
        /\ next.moment = mine.moment /\ next.row = mine.row /\ next.channel = mine.channel + 1 /\ mine.channel \in Nat
    BY <1>0 DEF MonitorIsSound
  <2> HIDE DEF next
  <2>3. monitor'[m] = next /\ DOMAIN monitor' = Monitors /\ \A other \in Monitors \ {m} : monitor'[other] = monitor[other]
    BY <1>0, <2>1
  <2>4. MonitorIsSound(m)' BY <1>0, <2>2, <2>3 DEF MonitorIsSound
  <2>5. ASSUME NEW i \in 1 .. Len(alertRows), NEW c \in DOMAIN Adapters, m \in Owing(monitor', i, c)
        PROVE  m \in Owing(monitor, i, c)
    <3>1. c \in Nat BY ChannelsAreNumbers
    <3>2. mine.row = i /\ mine.channel + 1 <= c BY <2>2, <2>3, <2>5 DEF Owing
    <3>3. mine.channel < c BY <2>2, <3>1, <3>2
    <3> QED BY <1>0, <3>2, <3>3 DEF Owing
  <2> QED BY <1>0, <2>3, <2>4, <2>5, MonitorMoves
<1> QED BY <1>1, <1>2

LEMMA AlertTypes == AlertInit => AlertInv
<1> SUFFICES ASSUME AlertInit PROVE AlertInv OBVIOUS
<1>1. alertRows = <<>> /\ Len(<<>>) = 0 BY DEF AlertInit
<1>2. 1 .. Len(alertRows) = {} BY <1>1
<1>3. alertRows \in Seq({alertRows[i] : i \in 1 .. Len(alertRows)}) BY <1>1
<1>4. \A m \in Monitors : MonitorIsSound(m) BY DEF AlertInit, NoMonitor, MonitorIsSound
<1> QED BY <1>1, <1>2, <1>3, <1>4 DEF AlertInit, AlertInv

LEMMA AlertStep == AlertInv /\ [AlertNext]_alertVars => AlertInv'
<1> SUFFICES ASSUME AlertInv, [AlertNext]_alertVars PROVE AlertInv' OBVIOUS
<1>1. CASE UNCHANGED alertVars \/ MonitorLeaseExpires \/ AlertTick
  <2>1. /\ UNCHANGED <<alertRows, monitor>> /\ alertNow' \in Nat /\ alertNow <= alertNow' /\ alertNow \in Nat
    BY <1>1 DEF AlertInv, AlertTick, MonitorLeaseExpires, alertVars
  <2>2. ASSUME NEW i \in 1 .. Len(alertRows) PROVE RowIsSound(alertRows[i])'
    <3>1. RowIsSound(alertRows[i]) BY DEF AlertInv
    <3> QED BY <2>1, <3>1, AlertBounds DEF RowIsSound
  <2>3. ASSUME NEW m \in Monitors PROVE MonitorIsSound(m)'
    <3>1. MonitorIsSound(m) BY DEF AlertInv
    <3> QED BY <2>1, <3>1 DEF MonitorIsSound
  <2> QED BY <2>1, <2>2, <2>3 DEF AlertInv, NoticesFit
<1>2. ASSUME NEW i \in DOMAIN alertRows, AcknowledgeAlert(i) \/ ResolveAlert(i) PROVE AlertInv'
  BY <1>2, OperatorSteps
<1>3. ASSUME NEW m \in Monitors,
             \/ StartMonitor(m) \/ RaiseAlert(m) \/ RecordDelivery(m) \/ CycleFails(m)
             \/ FinishCycle(m) \/ NextCycle(m) \/ StopMonitor(m) \/ MonitorDies(m)
             \/ \E yes \in BOOLEAN : SendNotice(m, yes) \/ \E kind \in FaultKinds : ExamineFault(m, kind, yes)
      PROVE  AlertInv'
  BY <1>3, QuietSteps, RaiseStep, SendStep, RecordStep
<1> QED BY <1>1, <1>2, <1>3 DEF AlertNext

\* However monitors overlap and whoever dies, an alert sends a channel at most one
\* notice per cooldown since it was opened, beside the first.
THEOREM NoticesAlwaysKeepCooldown == AlertSpec => []NoticesKeepCooldown
<1>1. AlertInv => NoticesKeepCooldown
  <2> SUFFICES ASSUME AlertInv, NEW i \in DOMAIN alertRows, NEW c \in DOMAIN Adapters
               PROVE  alertRows[i].notices[c] <= 1 + (alertNow - alertRows[i].first) \div Cooldown
    BY DEF NoticesKeepCooldown
  <2>0. alertRows \in Seq({alertRows[j] : j \in 1 .. Len(alertRows)}) BY DEF AlertInv
  <2>1. i \in 1 .. Len(alertRows) BY <2>0
  <2>2. RowIsSound(alertRows[i]) /\ NoticesFit(alertRows, monitor, i, c) /\ alertNow \in Nat BY <2>1 DEF AlertInv
  <2> DEFINE x == alertRows[i].notices[c]
             p == Cardinality(Owing(monitor, i, c))
             a == alertNow - alertRows[i].first
             length == alertRows[i].until - alertRows[i].first
  <2>3. x \in Nat /\ p \in Nat /\ a \in Nat /\ length \in Int /\ length <= a + Cooldown /\ Cooldown \in Nat \ {0}
    BY <2>2, OwingIsFinite, AlertBounds DEF RowIsSound
  <2>4. (x + p) * Cooldown <= length BY <2>2 DEF NoticesFit
  <2> HIDE DEF x, p, a, length
  <2>5. x - 1 \in Int /\ x - 1 <= x + p /\ x \in Int /\ x + p \in Int /\ x <= x + p BY <2>3
  <2>6. x * Cooldown <= (x + p) * Cooldown /\ x * Cooldown \in Int /\ (x + p) * Cooldown \in Int BY <2>3, <2>5, Multiples
  <2>7. ((x - 1) + 1) * Cooldown = (x - 1) * Cooldown + Cooldown /\ (x - 1) * Cooldown \in Int BY <2>3, <2>5, Multiples
  <2>8. (x - 1) + 1 = x BY <2>3
  <2>9. (x - 1) * Cooldown <= a BY <2>3, <2>4, <2>6, <2>7, <2>8
  <2>10. x - 1 <= a \div Cooldown /\ a \div Cooldown \in Int BY <2>3, <2>5, <2>9, DivBounds
  <2>11. x <= 1 + a \div Cooldown BY <2>3, <2>10
  <2> QED BY <2>11 DEF x, a
<1> QED BY <1>1, AlertTypes, AlertStep, PTL DEF AlertSpec
-----------------------------------------------------------------------------
(* The refresh of all symbols.                                             *)

Results == [AllSymbols -> 0 .. LastSession]

\* No session outnumbers the target.
IsMajority(target, results) ==
    /\ target \in SessionsOf(results)
    /\ \A y \in SessionsOf(results) : CountOf(results, y) <= CountOf(results, target)

RunIsSound(run) ==
    /\ DOMAIN run = {"at", "todo", "results", "quotes", "today", "target", "pass"}
    /\ run.todo \subseteq MappedSymbols /\ run.results \in Results /\ run.quotes \in Results
    /\ run.at = "publish" => IsMajority(run.target, run.results)

CollectorInv ==
    /\ daily \in Results /\ traded \in Results
    /\ RunIsSound(cRun)
    /\ PublishedIsMajority

LEMMA SymbolsAreFinite == AllSymbols \subseteq Nat /\ IsFiniteSet(AllSymbols) /\ \A S \in SUBSET AllSymbols : IsFiniteSet(S)
<1>1. 1 \in Int /\ CollectorSymbols \in Int BY CollectorBoundsAreNatural
<1>2. IsFiniteSet(1 .. CollectorSymbols) BY <1>1, FS_Interval
<1>3. IsFiniteSet(AllSymbols) BY <1>2 DEF AllSymbols
<1>4. \A S \in SUBSET AllSymbols : IsFiniteSet(S) BY <1>3, FS_Subset
<1>5. AllSymbols \subseteq Nat BY CollectorBoundsAreNatural DEF AllSymbols
<1> QED BY <1>3, <1>4, <1>5

LEMMA CountsAreNumbers == ASSUME NEW results, NEW x PROVE CountOf(results, x) \in Nat
<1>1. IsFiniteSet({s \in AllSymbols : results[s] = x}) BY SymbolsAreFinite
<1> QED BY <1>1, FS_CardinalityType DEF CountOf

\* choose_target_session finds a target when there is any session.
LEMMA TargetIsMajority ==
  ASSUME NEW results \in Results, SessionsOf(results) # {}
  PROVE  IsMajority(TargetOf(results), results)
<1> DEFINE S == SessionsOf(results)
           f == [x \in S |-> - CountOf(results, x)]
<1>1. S \subseteq 1 .. LastSession BY CollectorBoundsAreNatural DEF SessionsOf, Results
<1>2. IsFiniteSet(S)
  <2>1. 1 \in Int /\ LastSession \in Int BY CollectorBoundsAreNatural
  <2>2. IsFiniteSet(1 .. LastSession) BY <2>1, FS_Interval
  <2> QED BY <1>1, <2>2, FS_Subset
<1>3. \A x \in S : CountOf(results, x) \in Nat /\ f[x] = - CountOf(results, x) /\ f[x] \in Int BY CountsAreNumbers
<1>4. PICK m \in S : \A y \in S : f[m] <= f[y]
  <2> HIDE DEF S, f
  <2> QED BY <1>2, <1>3, LeastOf DEF S
<1>5. \A y \in S : CountOf(results, y) <= CountOf(results, m)
  <2> TAKE y \in S
  <2>1. f[m] <= f[y] BY <1>4
  <2> QED BY <1>3, <2>1
<1> DEFINE T == {x \in S : CountOf(results, x) = CountOf(results, m)}
<1>6. T \in SUBSET Int /\ IsFiniteSet(T) /\ T # {}
  <2>1. T \in SUBSET S /\ m \in T OBVIOUS
  <2>2. IsFiniteSet(T) BY <1>2, <2>1, FS_Subset
  <2> QED BY <1>1, <2>1, <2>2
<1>7. Max(T) \in T /\ \A y \in T : Max(T) >= y BY <1>6, MaxIsGreatest
<1> DEFINE x == Max(T)
<1>8. \A y \in S : \/ CountOf(results, x) > CountOf(results, y)
                   \/ CountOf(results, x) = CountOf(results, y) /\ x >= y
  <2> TAKE y \in S
  <2>1. CountOf(results, x) = CountOf(results, m) BY <1>7
  <2>2. CASE y \in T BY <1>7, <2>1, <2>2
  <2>3. CASE y \notin T
    <3>1. CountOf(results, y) <= CountOf(results, m) /\ CountOf(results, y) # CountOf(results, m) BY <1>5, <2>3
    <3> QED BY <1>3, <2>1, <3>1
  <2> QED BY <2>2, <2>3
<1>9. x \in S BY <1>7
<1> HIDE DEF x, T, f
<1>10. /\ TargetOf(results) \in S
       /\ \A y \in S : \/ CountOf(results, TargetOf(results)) > CountOf(results, y)
                       \/ CountOf(results, TargetOf(results)) = CountOf(results, y) /\ TargetOf(results) >= y
  BY <1>8, <1>9 DEF TargetOf
<1> QED BY <1>3, <1>10 DEF IsMajority

LEMMA NoRunIsSound == RunIsSound(NoRun) /\ NoRun.at = "none"
  BY CollectorBoundsAreNatural DEF RunIsSound, NoRun, Results

LEMMA PublishStep ==
  ASSUME CollectorInv, PublishSession
  PROVE  CollectorInv'
<1> DEFINE run == cRun
<1>1. run.at = "publish" /\ RunIsSound(run) BY DEF CollectorInv, PublishSession
<1>2. IsMajority(run.target, run.results) /\ run.results \in Results BY <1>1 DEF RunIsSound
<1>3. run.target \in 1 .. LastSession BY <1>2, CollectorBoundsAreNatural DEF IsMajority, SessionsOf, Results
<1>4. published'.session = run.target /\ \A x \in 1 .. LastSession : published'.counts[x] = CountOf(run.results, x)
  BY DEF PublishSession, Counts
<1>5. CountOf(run.results, run.target) >= MinimumRows BY DEF PublishSession, RowsOf, CountOf
<1>6. ASSUME NEW x \in 1 .. LastSession PROVE CountOf(run.results, x) <= CountOf(run.results, run.target)
  <2>1. CASE x \in SessionsOf(run.results) BY <1>2, <2>1 DEF IsMajority
  <2>2. CASE x \notin SessionsOf(run.results)
    <3>1. x # 0 BY CollectorBoundsAreNatural
    <3>2. {s \in AllSymbols : run.results[s] = x} = {} BY <2>2, <3>1 DEF SessionsOf
    <3>3. CountOf(run.results, x) = 0 BY <3>2, FS_EmptySet DEF CountOf
    <3> QED BY <3>3, CountsAreNumbers
  <2> QED BY <2>1, <2>2
<1>7. PublishedIsMajority' BY <1>3, <1>4, <1>5, <1>6 DEF PublishedIsMajority
<1>8. cRun' = NoRun /\ UNCHANGED <<daily, traded>> BY DEF PublishSession, provider
<1> QED BY <1>7, <1>8, NoRunIsSound DEF CollectorInv, RunIsSound, NoRun

\* The steps of the run before its file is written.
LEMMA RunSteps ==
  ASSUME CollectorInv, NEW yes \in BOOLEAN, LoadQuotes(yes) \/ FetchSymbol(yes) \/ EndPass
  PROVE  RunIsSound(cRun')
<1> DEFINE Fields == {"at", "todo", "results", "quotes", "today", "target", "pass"}
<1>0. /\ DOMAIN cRun = Fields /\ cRun.todo \subseteq MappedSymbols /\ cRun.results \in Results /\ cRun.quotes \in Results
      /\ daily \in Results /\ traded \in Results
  BY DEF CollectorInv, RunIsSound
<1>1. CASE LoadQuotes(yes)
  <2>1. cRun' = [cRun EXCEPT !.at = "fetch", !.todo = MappedSymbols, !.quotes = IF yes THEN traded ELSE cRun.quotes]
    BY <1>1, Zenon DEF LoadQuotes
  <2>2. PICK quotes \in Results : cRun' = [cRun EXCEPT !.at = "fetch", !.todo = MappedSymbols, !.quotes = quotes]
    <3>1. CASE yes BY <1>0, <2>1, <3>1, Zenon
    <3>2. CASE ~yes BY <1>0, <2>1, <3>2, Zenon
    <3> QED BY <3>1, <3>2
  <2>3. /\ DOMAIN cRun' = Fields /\ cRun'.at = "fetch" /\ cRun'.todo = MappedSymbols /\ cRun'.results = cRun.results
        /\ cRun'.quotes = quotes
    BY <1>0, <2>2
  <2> QED BY <1>0, <2>3 DEF RunIsSound
<1>2. CASE FetchSymbol(yes)
  <2> DEFINE s == Min(cRun.todo)
             result == Merged(daily[s], cRun.quotes[s], cRun.today)
  <2>1. s \in AllSymbols
    <3>1. cRun.todo \in SUBSET AllSymbols /\ cRun.todo # {} BY <1>0, <1>2, CollectorBoundsAreNatural DEF FetchSymbol, AllSymbols
    <3>2. IsFiniteSet(cRun.todo) BY <3>1, SymbolsAreFinite
    <3>4. cRun.todo \in SUBSET Int
      <4>1. AllSymbols \subseteq Int BY CollectorBoundsAreNatural DEF AllSymbols
      <4> QED BY <3>1, <4>1
    <3>3. s \in cRun.todo BY <3>1, <3>2, <3>4, MinIsLeast
    <3> QED BY <3>1, <3>3
  <2>2. cRun' = [cRun EXCEPT !.todo = cRun.todo \ {s},
                             !.results[s] = IF yes /\ result # 0 THEN result ELSE cRun.results[s]]
    BY <1>2, Zenon DEF FetchSymbol
  <2> HIDE DEF s
  <2>3. result \in 0 .. LastSession /\ cRun.results[s] \in 0 .. LastSession BY <1>0, <2>1 DEF Results, Merged
  <2>4. PICK value \in 0 .. LastSession : cRun' = [cRun EXCEPT !.todo = cRun.todo \ {s}, !.results[s] = value]
    <3> HIDE DEF result
    <3>1. CASE yes /\ result # 0 BY <2>2, <2>3, <3>1, Zenon
    <3>2. CASE ~ (yes /\ result # 0) BY <2>2, <2>3, <3>2, Zenon
    <3> QED BY <3>1, <3>2
  <2>5. /\ DOMAIN cRun' = Fields /\ cRun'.at = "fetch" /\ cRun'.todo = cRun.todo \ {s} /\ cRun'.quotes = cRun.quotes
        /\ cRun'.results = [cRun.results EXCEPT ![s] = value]
    BY <1>0, <1>2, <2>4 DEF FetchSymbol
  <2>6. cRun'.results \in Results BY <1>0, <2>1, <2>5 DEF Results
  <2> QED BY <1>0, <2>5, <2>6 DEF RunIsSound
<1>3. CASE EndPass
  <2> DEFINE run == [cRun EXCEPT !.target = NewTarget(cRun)]
             again == [run EXCEPT !.pass = run.pass + 1, !.todo = StaleSymbols(run)]
             ready == [run EXCEPT !.at = "publish"]
  <2>1. /\ cRun.at = "fetch" /\ SessionsOf(cRun.results) # {} /\ (cRun' = again \/ cRun' = ready) BY <1>3 DEF EndPass
  <2>2. /\ DOMAIN run = Fields /\ run.target = TargetOf(cRun.results) /\ run.results = cRun.results
        /\ run.quotes = cRun.quotes /\ run.todo = cRun.todo /\ run.at = "fetch"
    BY <1>0, <2>1 DEF NewTarget
  <2>3. StaleSymbols(run) \subseteq MappedSymbols BY DEF StaleSymbols
  <2> HIDE DEF run
  <2>4. RunIsSound(again)
    <3>1. /\ DOMAIN again = Fields /\ again.at = "fetch" /\ again.todo = StaleSymbols(run) /\ again.results = cRun.results
          /\ again.quotes = cRun.quotes
      BY <2>2
    <3> HIDE DEF again
    <3> QED BY <1>0, <2>3, <3>1 DEF RunIsSound
  <2>5. RunIsSound(ready)
    <3>1. /\ DOMAIN ready = Fields /\ ready.at = "publish" /\ ready.todo = cRun.todo /\ ready.results = cRun.results
          /\ ready.quotes = cRun.quotes /\ ready.target = TargetOf(cRun.results)
      BY <2>2
    <3> HIDE DEF ready
    <3>2. IsMajority(TargetOf(cRun.results), cRun.results) BY <1>0, <2>1, TargetIsMajority
    <3> QED BY <1>0, <3>1, <3>2 DEF RunIsSound
  <2> QED BY <2>1, <2>4, <2>5
<1> QED BY <1>1, <1>2, <1>3

LEMMA CollectorStep == CollectorInv /\ [CollectorNext]_collectorVars => CollectorInv'
<1> SUFFICES ASSUME CollectorInv, [CollectorNext]_collectorVars PROVE CollectorInv' OBVIOUS
<1>1. ASSUME UNCHANGED published, RunIsSound(cRun'), daily' \in Results, traded' \in Results PROVE CollectorInv'
  BY <1>1 DEF CollectorInv, PublishedIsMajority, RunIsSound, Results, IsMajority, SessionsOf, CountOf
<1>2. RunIsSound(cRun) /\ daily \in Results /\ traded \in Results BY DEF CollectorInv
<1>3. ASSUME NEW s \in MappedSymbols, ProviderMoves(s) PROVE CollectorInv'
  <2>1. s \in AllSymbols BY CollectorBoundsAreNatural DEF AllSymbols
  <2>2. traded[s] \in 0 .. LastSession /\ daily[s] \in 0 .. LastSession BY <1>2, <2>1 DEF Results
  <2>3. UNCHANGED <<published, cRun>> BY <1>3 DEF ProviderMoves
  <2>4. CASE traded[s] < LastSession /\ traded' = [traded EXCEPT ![s] = traded[s] + 1] /\ UNCHANGED daily
    <3>1. traded[s] + 1 \in 0 .. LastSession BY <2>2, <2>4, CollectorBoundsAreNatural
    <3>2. traded' \in Results BY <1>2, <2>4, <3>1 DEF Results
    <3> QED BY <1>1, <1>2, <2>3, <2>4, <3>2
  <2>5. CASE daily[s] < traded[s] /\ daily' = [daily EXCEPT ![s] = daily[s] + 1] /\ UNCHANGED traded
    <3>1. daily[s] + 1 \in 0 .. LastSession BY <2>2, <2>5, CollectorBoundsAreNatural
    <3>2. daily' \in Results BY <1>2, <2>5, <3>1 DEF Results
    <3> QED BY <1>1, <1>2, <2>3, <2>5, <3>2
  <2> QED BY <1>3, <2>4, <2>5 DEF ProviderMoves
<1>4. CASE StartService \/ LockRefused \/ UNCHANGED collectorVars
  BY <1>1, <1>2, <1>4 DEF StartService, LockRefused, provider, collectorVars
<1>5. ASSUME NEW yes \in BOOLEAN, LoadQuotes(yes) \/ FetchSymbol(yes) \/ EndPass PROVE CollectorInv'
  <2>1. RunIsSound(cRun') BY <1>5, RunSteps
  <2> QED BY <1>1, <1>2, <1>5, <2>1 DEF LoadQuotes, FetchSymbol, EndPass, provider
<1>6. ASSUME NEW who \in {"timer", "service"}, BeginRun(who) \/ ProcessDies(who) \/ RunFails PROVE CollectorInv'
  <2> DEFINE begun == [NoRun EXCEPT !.at = "quotes", !.today = Max({traded[s] : s \in AllSymbols})]
  <2>1. RunIsSound(begun) BY NoRunIsSound DEF RunIsSound
  <2>2. UNCHANGED <<published, daily, traded>> /\ (cRun' = begun \/ cRun' = NoRun \/ cRun' = cRun)
    BY <1>6 DEF BeginRun, ProcessDies, RunFails, provider
  <2> HIDE DEF begun
  <2> QED BY <1>1, <1>2, <2>1, <2>2, NoRunIsSound
<1> QED BY <1>3, <1>4, <1>5, <1>6, PublishStep DEF CollectorNext

\* A published file has a session that no other session outnumbers among all results
\* of its run, with the retries, and as many rows as the coverage demands.
THEOREM PublishedSessionsAreMajorities == CollectorSpec => []PublishedIsMajority
<1>1. CollectorInit => CollectorInv
  <2> SUFFICES ASSUME CollectorInit PROVE CollectorInv OBVIOUS
  <2>1. daily \in Results /\ traded \in Results BY CollectorBoundsAreNatural DEF CollectorInit, Results
  <2> QED BY <2>1, NoRunIsSound DEF CollectorInit, CollectorInv, PublishedIsMajority
<1>2. CollectorInv => PublishedIsMajority BY DEF CollectorInv
<1> QED BY <1>1, <1>2, CollectorStep, PTL DEF CollectorSpec
-----------------------------------------------------------------------------
(* Saved modes and the workers that run.                                   *)

Frames == Timeframes \cup {RunOf[r].timeframe : r \in BacktestRuns}

\* What the stored deployments ask for.
Asked(rows) == {<<KeyOf(s, rows[s]), Signature(rows[s])>> : s \in {t \in Strategies : rows[t].exists}}
Present(registry) == {key \in DeploymentKeys : registry[key] # NoWorker}

\* The threads that nobody told to stop are those of the registered workers, but for the
\* one that is being removed.
Running(registry, running, without) == running = {registry[key] : key \in Present(registry) \ without}

RowsApplied(rows, registry) ==
    /\ \A key \in Present(registry) : <<key, registry[key].signature>> \in Asked(rows)
    /\ \A d \in Asked(rows) : d[1] \in Present(registry)

RowFits(row) ==
    /\ DOMAIN row = {"exists", "version", "config", "watchlist", "timeframe", "mode"}
    /\ row.exists => row.timeframe \in Frames

TaskFits(t) ==
    /\ DOMAIN t = {"at", "kind", "run", "row", "strategy", "number", "desired", "stale", "key"}
    /\ t.number \in Nat /\ (t.at # "idle" => t.number # 0)
    /\ t.at \in {"approve", "deploy"} => RowFits(t.row)
    /\ t.at \in {"config", "current"} => t.strategy \in Strategies

\* Between the comparison and the end of a reconciliation.
Reconciling(t, rows, registry) ==
    LET left == Present(registry) \ (IF t.at = "pop" THEN {t.key} ELSE {})
    IN  /\ t.desired \subseteq Asked(rows)
        /\ t.stale \subseteq {registry[key] : key \in left}
        /\ \A key \in left : registry[key] \in t.stale \/ <<key, registry[key].signature>> \in Asked(rows)
        /\ t.stale # {} \/ t.at = "pop" => t.desired = Asked(rows)
        /\ \A d \in Asked(rows) : d \in t.desired \/ d[1] \in Present(registry)
        /\ t.at = "register" => /\ t.stale = {} /\ t.key \notin Present(registry)
                                /\ \E d \in t.desired : d[1] = t.key

\* The one request that is under way.
Phase(t, rows, registry, running) ==
    /\ Running(registry, running, IF t.at = "pop" THEN {t.key} ELSE {})
    /\ t.at = "compare" => t.desired = Asked(rows)
    /\ t.at \in {"stop", "pop", "register"} => Reconciling(t, rows, registry)

RegistryFits(registry) ==
    DOMAIN registry = DeploymentKeys /\ \A key \in Present(registry) : registry[key].key = key

Settling ==
    /\ saves \in Nat /\ DOMAIN task = WebThreads
    /\ DOMAIN deployments = Strategies /\ \A s \in Strategies : RowFits(deployments[s])
    /\ RegistryFits(workers)
    /\ \A w \in WebThreads : TaskFits(task[w])
    /\ \A v, w \in WebThreads : task[v].at # "idle" /\ task[w].at # "idle" => v = w
    /\ \A w \in WebThreads : task[w].at # "idle" => Phase(task[w], deployments, workers, threads)
    /\ Idle => Running(workers, threads, {})
    /\ Idle \/ (\E w \in WebThreads : task[w].at = "approve") =>
          (platform = "up" => unapplied = TRUE \/ RowsApplied(deployments, workers))

PromotionInv == overlapped \in BOOLEAN /\ unapplied \in BOOLEAN /\ (overlapped = FALSE => Settling)

LEMMA AskedFits ==
  ASSUME NEW rows, DOMAIN rows = Strategies, \A s \in Strategies : RowFits(rows[s])
  PROVE  /\ \A d \in Asked(rows) : d = <<d[1], d[2]>> /\ d[1] \in DeploymentKeys
         /\ \A d, e \in Asked(rows) : d[1] = e[1] => d = e
<1>1. ASSUME NEW d \in Asked(rows) PROVE d = <<d[1], d[2]>> /\ d[1] \in DeploymentKeys
  <2>1. PICK s \in Strategies : rows[s].exists /\ d = <<KeyOf(s, rows[s]), Signature(rows[s])>> BY DEF Asked
  <2>2. d[1] = KeyOf(s, rows[s]) /\ d[2] = Signature(rows[s]) BY <2>1
  <2>3. KeyOf(s, rows[s]) \in DeploymentKeys BY <2>1 DEF RowFits, KeyOf, DeploymentKeys, Frames
  <2> QED BY <2>1, <2>2, <2>3
<1>2. ASSUME NEW d \in Asked(rows), NEW e \in Asked(rows), d[1] = e[1] PROVE d = e
  <2>1. PICK s \in Strategies : d = <<KeyOf(s, rows[s]), Signature(rows[s])>> BY DEF Asked
  <2>2. PICK u \in Strategies : e = <<KeyOf(u, rows[u]), Signature(rows[u])>> BY DEF Asked
  <2>3. KeyOf(s, rows[s]) = KeyOf(u, rows[u]) BY <1>2, <2>1, <2>2
  <2>4. s = u BY <2>3 DEF KeyOf
  <2> QED BY <2>1, <2>2, <2>4
<1> QED BY <1>1, <1>2

\* All requests but that of w are idle.
LEMMA OneMoves ==
  ASSUME Settling, NEW w \in WebThreads, \A v \in WebThreads \ {w} : task[v].at = "idle" /\ task'[v] = task[v],
         DOMAIN task' = WebThreads, saves' \in Nat, TaskFits(task'[w]),
         DOMAIN deployments' = Strategies, \A s \in Strategies : RowFits(deployments'[s]),
         RegistryFits(workers'),
         task'[w].at # "idle" => Phase(task'[w], deployments', workers', threads'),
         task'[w].at = "idle" => Running(workers', threads', {}),
         task'[w].at \in {"idle", "approve"} =>
             (platform' = "up" => unapplied' = TRUE \/ RowsApplied(deployments', workers'))
  PROVE  Settling'
<1>1. \A v \in WebThreads \ {w} : TaskFits(task'[v]) /\ task'[v].at = "idle" BY DEF Settling
<1>2. \A v \in WebThreads : TaskFits(task'[v]) BY <1>1
<1>3. \A v, u \in WebThreads : task'[v].at # "idle" /\ task'[u].at # "idle" => v = u BY <1>1
<1>4. \A v \in WebThreads : task'[v].at # "idle" => Phase(task'[v], deployments', workers', threads') BY <1>1
<1>5. (\A v \in WebThreads : task'[v].at = "idle") => Running(workers', threads', {}) OBVIOUS
<1>6. \/ \A v \in WebThreads : task'[v].at = "idle"
      \/ \E v \in WebThreads : task'[v].at = "approve"
      => (platform' = "up" => unapplied' = TRUE \/ RowsApplied(deployments', workers'))
  BY <1>1
<1> HIDE DEF Settling
<1> QED BY <1>2, <1>3, <1>4, <1>5, <1>6 DEF Settling, Idle

LEMMA OthersAreIdle ==
  ASSUME Settling, NEW w \in WebThreads, task[w].at # "idle"
  PROVE  /\ \A v \in WebThreads \ {w} : task[v].at = "idle"
         /\ TaskFits(task[w]) /\ Phase(task[w], deployments, workers, threads)
         /\ DOMAIN task = WebThreads /\ saves \in Nat
         /\ DOMAIN deployments = Strategies /\ \A s \in Strategies : RowFits(deployments[s])
         /\ RegistryFits(workers)
<1>1. \A v \in WebThreads \ {w} : task[v].at = "idle" BY DEF Settling
<1> QED BY <1>1 DEF Settling

Working == {"approve", "config", "current", "deploy", "evidence", "read"}

\* Steps that leave the workers alone.
LEMMA RequestMoves ==
  ASSUME Settling, NEW w \in WebThreads, \A v \in WebThreads \ {w} : task[v].at = "idle", NEW t,
         task' = [task EXCEPT ![w] = t], TaskFits(t), t.at \in Working \cup {"idle"},
         task[w].at \in Working \cup {"idle"}, saves' \in Nat, UNCHANGED <<workers, threads>>,
         DOMAIN deployments' = Strategies, \A s \in Strategies : RowFits(deployments'[s]),
         t.at \in {"idle", "approve"} => \/ unapplied' = TRUE
                                         \/ /\ UNCHANGED <<deployments, unapplied, platform>>
                                            /\ task[w].at \in {"idle", "approve"}
  PROVE  Settling'
<1>1. DOMAIN task = WebThreads /\ RegistryFits(workers) /\ TaskFits(task[w]) BY DEF Settling
<1>2. task'[w] = t /\ DOMAIN task' = WebThreads /\ \A v \in WebThreads \ {w} : task'[v] = task[v] BY <1>1
<1>3. Running(workers, threads, {})
  <2>1. CASE task[w].at = "idle"
    <3>1. Idle BY <2>1 DEF Idle
    <3> QED BY <3>1 DEF Settling
  <2>2. CASE task[w].at # "idle"
    <3>1. Phase(task[w], deployments, workers, threads) BY <2>2 DEF Settling
    <3>2. task[w].at # "pop" BY DEF Working
    <3> QED BY <3>1, <3>2 DEF Phase
  <2> QED BY <2>1, <2>2
<1>4. Running(workers', threads', {}) BY <1>3
<1>5. t.at \notin {"compare", "stop", "pop", "register"} BY DEF Working
<1>6. Phase(t, deployments', workers', threads') BY <1>4, <1>5 DEF Phase
<1>7. ASSUME t.at \in {"idle", "approve"}, platform' = "up" PROVE unapplied' = TRUE \/ RowsApplied(deployments', workers')
  <2>1. CASE unapplied' = TRUE BY <2>1
  <2>2. CASE UNCHANGED <<deployments, unapplied, platform>> /\ task[w].at \in {"idle", "approve"}
    <3>1. Idle \/ \E v \in WebThreads : task[v].at = "approve" BY <2>2 DEF Idle
    <3>2. platform = "up" BY <1>7, <2>2
    <3>3. unapplied = TRUE \/ RowsApplied(deployments, workers) BY <3>1, <3>2 DEF Settling
    <3> QED BY <2>2, <3>3
  <2> QED BY <1>7, <2>1, <2>2
<1>8. RegistryFits(workers') BY <1>1
<1> HIDE DEF Settling
<1> QED BY <1>2, <1>4, <1>6, <1>7, <1>8, OneMoves

LEMMA RowsOfDeployments ==
  /\ RowFits(NoDeployment) /\ TaskFits(NoTask) /\ NoTask.at = "idle"
  /\ DOMAIN NoTask = {"at", "kind", "run", "row", "strategy", "number", "desired", "stale", "key"}
  /\ \A content : RowFits([NoDeployment EXCEPT !.config = content])
  /\ \A row, config : RowFits(row) => RowFits([row EXCEPT !.config = config])
  /\ \A row, config, version : RowFits(row) => RowFits([row EXCEPT !.config = config, !.version = version])
<1>1. RowFits(NoDeployment) BY DEF RowFits, NoDeployment
<1>2. ASSUME NEW row, NEW config, RowFits(row) PROVE RowFits([row EXCEPT !.config = config])
  BY <1>2 DEF RowFits
<1>3. ASSUME NEW row, NEW config, NEW version, RowFits(row) PROVE RowFits([row EXCEPT !.config = config, !.version = version])
  BY <1>3 DEF RowFits
<1>4. TaskFits(NoTask) /\ NoTask.at = "idle"
      /\ DOMAIN NoTask = {"at", "kind", "run", "row", "strategy", "number", "desired", "stale", "key"}
  BY DEF TaskFits, NoTask
<1> QED BY <1>1, <1>2, <1>3, <1>4

\* A request that begins, when no other is under way.
LEMMA BeginStep ==
  ASSUME Settling, Idle, NEW w \in WebThreads, NEW kind \in {"approve", "config", "deploy"}, NEW strategy, NEW run, NEW row,
         Begin(w, kind, strategy, run, row), kind # "config" => RowFits(row), kind = "config" => strategy \in Strategies
  PROVE  Settling'
<1> DEFINE t == [NoTask EXCEPT !.at = kind, !.kind = kind, !.number = saves + 1, !.strategy = strategy, !.run = run, !.row = row]
<1>1. /\ task' = [task EXCEPT ![w] = t] /\ saves' = saves + 1
      /\ UNCHANGED <<workers, threads, deployments, platform, unapplied>>
  BY DEF Begin, runtime, stored
<1>2. saves \in Nat /\ DOMAIN deployments = Strategies /\ (\A s \in Strategies : RowFits(deployments[s]))
  BY DEF Settling
<1>3. /\ DOMAIN t = {"at", "kind", "run", "row", "strategy", "number", "desired", "stale", "key"}
      /\ t.at = kind /\ t.number = saves + 1 /\ t.strategy = strategy /\ t.row = row
  BY RowsOfDeployments
<1> HIDE DEF t
<1>4. TaskFits(t) BY <1>2, <1>3 DEF TaskFits
<1>5. task[w].at = "idle" /\ \A v \in WebThreads \ {w} : task[v].at = "idle" BY DEF Idle
<1>6. t.at \in Working \cup {"idle"} /\ saves' \in Nat BY <1>1, <1>2, <1>3 DEF Working
<1>7. \A s \in Strategies : RowFits(deployments'[s]) BY <1>1, <1>2
<1>8. DOMAIN deployments' = Strategies BY <1>1, <1>2
<1>9. task[w].at \in {"idle", "approve"} /\ task[w].at \in Working \cup {"idle"} BY <1>5
<1> HIDE DEF Settling, Idle
<1> QED BY <1>1, <1>4, <1>5, <1>6, <1>7, <1>8, <1>9, RequestMoves

LEMMA RequestSteps ==
  ASSUME Settling, NEW w \in WebThreads,
         \/ ApproveConfig(w) \/ StoreConfig(w) \/ ReadCurrent(w) \/ StoreDeployment(w) \/ StoreApproval(w) \/ RequestFailed(w)
  PROVE  Settling'
<1>0. /\ task[w].at \in Working /\ UNCHANGED <<workers, threads, platform, saves>>
      /\ (UNCHANGED unapplied \/ unapplied' = TRUE)
  BY DEF ApproveConfig, StoreConfig, ReadCurrent, StoreDeployment, StoreApproval, RequestFailed, Working, runtime
<1>1. task[w].at # "idle" BY <1>0 DEF Working
<1> DEFINE Fields == {"at", "kind", "run", "row", "strategy", "number", "desired", "stale", "key"}
<1>2. /\ \A v \in WebThreads \ {w} : task[v].at = "idle"
      /\ TaskFits(task[w]) /\ DOMAIN task[w] = Fields /\ DOMAIN task = WebThreads /\ saves \in Nat
      /\ DOMAIN deployments = Strategies /\ (\A s \in Strategies : RowFits(deployments[s]))
  BY <1>1, OthersAreIdle DEF TaskFits
<1>3. saves' \in Nat /\ task[w].at \in Working \cup {"idle"} BY <1>0, <1>2
<1>4. ASSUME NEW t, task' = [task EXCEPT ![w] = t], TaskFits(t), t.at \in Working,
             UNCHANGED deployments,
             t.at # "approve"
      PROVE  Settling'
  <2>1. t.at \in Working \cup {"idle"} /\ ~ (t.at \in {"idle", "approve"}) BY <1>4 DEF Working
  <2>2. DOMAIN deployments' = Strategies /\ \A s \in Strategies : RowFits(deployments'[s]) BY <1>2, <1>4
  <2>3. UNCHANGED <<workers, threads>> BY <1>0
  <2> HIDE DEF Settling
  <2> QED BY <1>2, <1>3, <1>4, <2>1, <2>2, <2>3, RequestMoves
<1>5. CASE ApproveConfig(w)
  <2> DEFINE r == RunOf[task[w].run]
             config == task[w].row.config
             stay == [task[w] EXCEPT !.at = "deploy"]
             taken == [task[w] EXCEPT !.at = "deploy", !.row = [task[w].row EXCEPT !.config = task[w].run]]
  <2>0. UNCHANGED <<deployments, unapplied>> /\ task[w].at = "approve" BY <1>5 DEF ApproveConfig
  <2>1. RowFits(task[w].row) BY <1>2, <2>0 DEF TaskFits
  <2>2. TaskFits(stay) /\ stay.at = "deploy"
    <3>1. DOMAIN stay = Fields /\ stay.at = "deploy" /\ stay.row = task[w].row /\ stay.number = task[w].number BY <1>2
    <3> QED BY <1>1, <1>2, <2>1, <3>1 DEF TaskFits
  <2>3. TaskFits(taken) /\ taken.at = "deploy"
    <3>1. /\ DOMAIN taken = Fields /\ taken.at = "deploy" /\ taken.row = [task[w].row EXCEPT !.config = task[w].run]
          /\ taken.number = task[w].number
      BY <1>2
    <3>2. RowFits(taken.row) BY <2>1, <3>1, RowsOfDeployments
    <3> QED BY <1>1, <1>2, <3>1, <3>2 DEF TaskFits
  <2>4. \/ task' = [task EXCEPT ![w].at = "deploy", ![w].row.config = task[w].run]
        \/ task' = [task EXCEPT ![w] = IF configs[<<r.strategy, config>>].content = r.content THEN stay ELSE NoTask]
    BY <1>5, Zenon DEF ApproveConfig
  <2>5. CASE task' = [task EXCEPT ![w].at = "deploy", ![w].row.config = task[w].run]
    <3>1. task' = [task EXCEPT ![w] = taken] BY <1>2, <2>5
    <3>2. taken.at \in Working /\ taken.at # "approve" BY <2>3 DEF Working
    <3> HIDE DEF taken, Settling
    <3> QED BY <1>4, <2>0, <2>3, <3>1, <3>2
  <2>6. CASE task' = [task EXCEPT ![w] = stay]
    <3>2. stay.at \in Working /\ stay.at # "approve" BY <2>2 DEF Working
    <3> HIDE DEF stay, Settling
    <3> QED BY <1>4, <2>0, <2>2, <2>6, <3>2
  <2>7. CASE task' = [task EXCEPT ![w] = NoTask]
    <3>1. NoTask.at \in Working \cup {"idle"} /\ TaskFits(NoTask) BY RowsOfDeployments
    <3>2. DOMAIN deployments' = Strategies /\ \A s \in Strategies : RowFits(deployments'[s]) BY <1>2, <2>0
    <3>3. UNCHANGED <<deployments, unapplied, platform>> /\ task[w].at \in {"idle", "approve"} BY <1>0, <2>0
    <3>4. UNCHANGED <<workers, threads>> BY <1>0
    <3> HIDE DEF Settling
    <3> QED BY <1>2, <1>3, <2>7, <3>1, <3>2, <3>3, <3>4, RequestMoves
  <2> HIDE DEF stay
  <2>8. \/ task' = [task EXCEPT ![w] = stay] \/ task' = [task EXCEPT ![w] = NoTask]
        \/ task' = [task EXCEPT ![w].at = "deploy", ![w].row.config = task[w].run]
    BY <2>4
  <2> QED BY <2>5, <2>6, <2>7, <2>8
<1>6. CASE RequestFailed(w)
  <2>1. task' = [task EXCEPT ![w] = NoTask] /\ unapplied' = TRUE /\ UNCHANGED deployments BY <1>6 DEF RequestFailed, stored
  <2>2. NoTask.at \in Working \cup {"idle"} /\ TaskFits(NoTask) BY RowsOfDeployments
  <2>3. DOMAIN deployments' = Strategies /\ \A s \in Strategies : RowFits(deployments'[s]) BY <1>2, <2>1
  <2>4. UNCHANGED <<workers, threads>> BY <1>0
  <2> HIDE DEF Settling
  <2> QED BY <1>2, <1>3, <2>1, <2>2, <2>3, <2>4, RequestMoves
<1>7. CASE StoreConfig(w)
  <2> DEFINE t == [task[w] EXCEPT !.at = "current"]
  <2>1. task' = [task EXCEPT ![w] = t] /\ UNCHANGED deployments /\ task[w].at = "config" BY <1>2, <1>7 DEF StoreConfig, Go
  <2>2. DOMAIN t = Fields /\ t.at = "current" /\ t.number = task[w].number /\ t.strategy = task[w].strategy BY <1>2
  <2> HIDE DEF t
  <2>3. TaskFits(t) /\ t.at \in Working /\ t.at # "approve" BY <1>1, <1>2, <2>1, <2>2 DEF TaskFits, Working
  <2> HIDE DEF Settling
  <2> QED BY <1>4, <2>1, <2>3
<1>8. CASE ReadCurrent(w)
  <2> DEFINE current == deployments[task[w].strategy]
             row == [current EXCEPT !.config = task[w].run, !.version = registered]
             next == IF current.exists THEN "deploy" ELSE "read"
             t == [task[w] EXCEPT !.at = next, !.row = row]
  <2>1. task' = [task EXCEPT ![w] = t] /\ UNCHANGED deployments /\ task[w].at = "current"
    BY <1>2, <1>8 DEF ReadCurrent, stored
  <2>2. RowFits(row)
    <3>1. RowFits(current) BY <1>2, <2>1 DEF TaskFits
    <3> QED BY <3>1, RowsOfDeployments
  <2>3. next \in {"deploy", "read"} OBVIOUS
  <2> HIDE DEF next, row
  <2>4. DOMAIN t = Fields /\ t.at = next /\ t.number = task[w].number /\ t.row = row BY <1>2
  <2> HIDE DEF t
  <2>5. TaskFits(t) /\ t.at \in Working /\ t.at # "approve" BY <1>1, <1>2, <2>2, <2>3, <2>4 DEF TaskFits, Working
  <2> HIDE DEF Settling
  <2> QED BY <1>4, <2>1, <2>5
<1>9. CASE StoreApproval(w)
  <2> DEFINE t == [task[w] EXCEPT !.at = "read"]
  <2>1. task' = [task EXCEPT ![w] = t] /\ UNCHANGED deployments BY <1>2, <1>9 DEF StoreApproval, Go
  <2>2. DOMAIN t = Fields /\ t.at = "read" /\ t.number = task[w].number BY <1>2
  <2> HIDE DEF t
  <2>3. TaskFits(t) /\ t.at \in Working /\ t.at # "approve" BY <1>1, <1>2, <2>2 DEF TaskFits, Working
  <2> HIDE DEF Settling
  <2> QED BY <1>4, <2>1, <2>3
<1>10. CASE StoreDeployment(w)
  <2> DEFINE next == IF task[w].kind = "approve" THEN "evidence" ELSE "read"
             t == [task[w] EXCEPT !.at = next]
  <2>1. /\ task' = [task EXCEPT ![w] = t] /\ task[w].at = "deploy"
        /\ deployments' = [deployments EXCEPT ![task[w].strategy] = task[w].row]
    BY <1>2, <1>10 DEF StoreDeployment, Go
  <2>2. next \in {"evidence", "read"} OBVIOUS
  <2> HIDE DEF next
  <2>3. DOMAIN t = Fields /\ t.at = next /\ t.number = task[w].number BY <1>2
  <2> HIDE DEF t
  <2>4. TaskFits(t) /\ t.at \in Working \cup {"idle"} /\ ~ (t.at \in {"idle", "approve"})
    BY <1>1, <1>2, <2>2, <2>3 DEF TaskFits, Working
  <2>5. RowFits(task[w].row) BY <1>2, <2>1 DEF TaskFits
  <2>6. DOMAIN deployments' = Strategies BY <1>2, <2>1
  <2>7. \A s \in Strategies : RowFits(deployments'[s])
    <3> TAKE s \in Strategies
    <3>1. deployments'[s] = task[w].row \/ deployments'[s] = deployments[s] BY <1>2, <2>1
    <3> QED BY <1>2, <2>5, <3>1
  <2>8. UNCHANGED <<workers, threads>> BY <1>0
  <2> HIDE DEF Settling
  <2> QED BY <1>2, <1>3, <2>1, <2>4, <2>6, <2>7, <2>8, RequestMoves
<1> QED BY <1>5, <1>6, <1>7, <1>8, <1>9, <1>10

\* A step of a reconciliation.
LEMMA ReconcileMoves ==
  ASSUME Settling, NEW w \in WebThreads, task[w].at # "idle", NEW t, task' = [task EXCEPT ![w] = t],
         TaskFits(t), t.at \in {"compare", "stop", "pop", "register"}, saves' \in Nat, UNCHANGED deployments,
         RegistryFits(workers'), Phase(t, deployments, workers', threads')
  PROVE  Settling'
<1>1. /\ \A v \in WebThreads \ {w} : task[v].at = "idle"
      /\ DOMAIN task = WebThreads /\ DOMAIN deployments = Strategies /\ \A s \in Strategies : RowFits(deployments[s])
  BY OthersAreIdle
<1>2. task'[w] = t /\ DOMAIN task' = WebThreads /\ \A v \in WebThreads \ {w} : task'[v] = task[v] BY <1>1
<1>3. t.at # "idle" /\ t.at # "approve" OBVIOUS
<1>4. DOMAIN deployments' = Strategies /\ \A s \in Strategies : RowFits(deployments'[s]) BY <1>1
<1>5. Phase(t, deployments', workers', threads') OBVIOUS
<1> HIDE DEF Settling, Phase
<1> QED BY <1>1, <1>2, <1>3, <1>4, <1>5, OneMoves

LEMMA CompareSteps ==
  ASSUME Settling, NEW w \in WebThreads, ReadDesired(w) \/ CompareWorkers(w)
  PROVE  Settling'
<1> DEFINE Fields == {"at", "kind", "run", "row", "strategy", "number", "desired", "stale", "key"}
<1>0. task[w].at \in {"read", "compare"} /\ UNCHANGED <<workers, threads, deployments, saves>>
  BY DEF ReadDesired, CompareWorkers, runtime, stored
<1>1. /\ TaskFits(task[w]) /\ DOMAIN task[w] = Fields /\ Phase(task[w], deployments, workers, threads)
      /\ DOMAIN task = WebThreads /\ saves \in Nat /\ RegistryFits(workers)
  BY <1>0, OthersAreIdle DEF TaskFits
<1>2. Running(workers, threads, {}) /\ task[w].number \in Nat /\ task[w].number # 0 BY <1>0, <1>1 DEF Phase, TaskFits
<1>3. task[w].at # "idle" /\ saves' \in Nat /\ RegistryFits(workers') BY <1>0, <1>1
<1>4. CASE ReadDesired(w)
  <2> DEFINE t == [task[w] EXCEPT !.at = "compare", !.desired = Asked(deployments)]
  <2>1. task' = [task EXCEPT ![w] = t] BY <1>1, <1>4 DEF ReadDesired, Asked
  <2>2. DOMAIN t = Fields /\ t.at = "compare" /\ t.desired = Asked(deployments) /\ t.number = task[w].number BY <1>1
  <2> HIDE DEF t
  <2>3. TaskFits(t) BY <1>2, <2>2 DEF TaskFits
  <2>4. Phase(t, deployments, workers', threads') BY <1>0, <1>2, <2>2 DEF Phase
  <2>5. t.at \in {"compare", "stop", "pop", "register"} BY <2>2
  <2> HIDE DEF Settling
  <2> QED BY <1>0, <1>3, <2>1, <2>3, <2>4, <2>5, ReconcileMoves
<1>5. CASE CompareWorkers(w)
  <2> DEFINE desired == task[w].desired
             t == [task[w] EXCEPT !.at = "stop", !.stale = StaleWorkers(desired)]
             P == Present(workers)
  <2>1. task' = [task EXCEPT ![w] = t] /\ task[w].at = "compare" BY <1>1, <1>5 DEF CompareWorkers
  <2>2. /\ DOMAIN t = Fields /\ t.at = "stop" /\ t.desired = desired /\ t.number = task[w].number
        /\ t.stale = StaleWorkers(desired)
    BY <1>1
  <2> HIDE DEF t
  <2>3. desired = Asked(deployments) BY <1>1, <2>1 DEF Phase
  <2>4. P = Existing BY DEF Present, Existing
  <2>5. StaleWorkers(desired) \subseteq {workers[key] : key \in P} BY <2>4 DEF StaleWorkers
  <2>6. \A key \in P : workers[key] \in StaleWorkers(desired) \/ <<key, workers[key].signature>> \in desired
    <3> HIDE DEF desired
    <3> QED BY <2>4 DEF StaleWorkers
  <2>7. P \ {} = P OBVIOUS
  <2> HIDE DEF P, desired
  <2>8. Reconciling(t, deployments, workers) BY <2>2, <2>3, <2>5, <2>6, <2>7 DEF Reconciling, P
  <2>9. Phase(t, deployments, workers', threads') BY <1>0, <1>2, <2>2, <2>8 DEF Phase
  <2>10. TaskFits(t) BY <1>2, <2>2 DEF TaskFits
  <2>11. t.at \in {"compare", "stop", "pop", "register"} BY <2>2
  <2> HIDE DEF Settling
  <2> QED BY <1>0, <1>3, <2>1, <2>9, <2>10, <2>11, ReconcileMoves
<1> QED BY <1>4, <1>5

LEMMA StopSteps ==
  ASSUME Settling, NEW w \in WebThreads, PopStale(w) \/ \E worker \in task[w].stale : StopStale(w, worker)
  PROVE  Settling'
<1> DEFINE Fields == {"at", "kind", "run", "row", "strategy", "number", "desired", "stale", "key"}
<1>0. task[w].at \in {"stop", "pop"} /\ UNCHANGED <<deployments, saves>> BY DEF PopStale, StopStale, stored
<1>1. /\ TaskFits(task[w]) /\ DOMAIN task[w] = Fields /\ Phase(task[w], deployments, workers, threads)
      /\ DOMAIN task = WebThreads /\ saves \in Nat /\ RegistryFits(workers)
      /\ DOMAIN deployments = Strategies /\ \A s \in Strategies : RowFits(deployments[s])
  BY <1>0, OthersAreIdle DEF TaskFits
<1>2. Reconciling(task[w], deployments, workers) /\ task[w].number \in Nat /\ task[w].number # 0
  BY <1>0, <1>1 DEF Phase, TaskFits
<1>3. task[w].at # "idle" /\ saves' \in Nat BY <1>0, <1>1
<1> DEFINE P == Present(workers)
           A == Asked(deployments)
<1>4. ASSUME NEW worker \in task[w].stale, StopStale(w, worker) PROVE Settling'
  <2> DEFINE t == [task[w] EXCEPT !.at = "pop", !.stale = task[w].stale \ {worker}, !.key = worker.key]
  <2>1. /\ task' = [task EXCEPT ![w] = t] /\ task[w].at = "stop" /\ threads' = threads \ {worker} /\ UNCHANGED workers
    BY <1>1, <1>4 DEF StopStale
  <2>2. /\ DOMAIN t = Fields /\ t.at = "pop" /\ t.desired = task[w].desired /\ t.number = task[w].number
        /\ t.stale = task[w].stale \ {worker} /\ t.key = worker.key
    BY <1>1
  <2> HIDE DEF t
  <2>3. /\ task[w].desired = A /\ task[w].stale \subseteq {workers[key] : key \in P}
        /\ \A key \in P : workers[key] \in task[w].stale \/ <<key, workers[key].signature>> \in A
    <3>1. P \ {} = P OBVIOUS
    <3> QED BY <1>2, <2>1, <3>1 DEF Reconciling
  <2>4. PICK gone \in P : worker = workers[gone] BY <2>3
  <2>5. t.key = gone BY <1>1, <2>2, <2>4 DEF RegistryFits
  <2>6. \A key \in P \ {gone} : workers[key] # worker BY <1>1, <2>4 DEF RegistryFits
  <2>7. threads = {workers[key] : key \in P} BY <1>1, <2>1 DEF Phase, Running
  <2>8. threads' = {workers[key] : key \in P \ {gone}} BY <2>1, <2>4, <2>6, <2>7
  <2>9. t.stale \subseteq {workers[key] : key \in P \ {gone}} BY <2>2, <2>3, <2>4
  <2>10. \A key \in P \ {gone} : workers[key] \in t.stale \/ <<key, workers[key].signature>> \in A
    BY <2>2, <2>3, <2>6
  <2> HIDE DEF P, A
  <2>11. Reconciling(t, deployments, workers) BY <2>2, <2>3, <2>5, <2>9, <2>10 DEF Reconciling, P, A
  <2>12. Running(workers, threads', {gone}) BY <2>8 DEF Running, P
  <2>13. Phase(t, deployments, workers', threads') BY <2>1, <2>2, <2>5, <2>11, <2>12 DEF Phase
  <2>14. TaskFits(t) /\ t.at \in {"compare", "stop", "pop", "register"} BY <1>2, <2>2 DEF TaskFits
  <2>15. RegistryFits(workers') /\ UNCHANGED deployments BY <1>0, <1>1, <2>1
  <2> HIDE DEF Settling
  <2> QED BY <1>3, <2>1, <2>13, <2>14, <2>15, ReconcileMoves
<1>5. CASE PopStale(w)
  <2> DEFINE t == [task[w] EXCEPT !.at = "stop"]
             gone == task[w].key
  <2>1. /\ task' = [task EXCEPT ![w] = t] /\ task[w].at = "pop" /\ UNCHANGED threads
        /\ workers' = [workers EXCEPT ![gone] = NoWorker]
    BY <1>1, <1>5 DEF PopStale, Go
  <2>2. /\ DOMAIN t = Fields /\ t.at = "stop" /\ t.desired = task[w].desired /\ t.number = task[w].number
        /\ t.stale = task[w].stale
    BY <1>1
  <2> HIDE DEF t
  <2>3. /\ task[w].desired = A /\ task[w].stale \subseteq {workers[key] : key \in P \ {gone}}
        /\ \A key \in P \ {gone} : workers[key] \in task[w].stale \/ <<key, workers[key].signature>> \in A
    BY <1>2, <2>1 DEF Reconciling
  <2>4. Present(workers') = P \ {gone} /\ \A key \in P \ {gone} : workers'[key] = workers[key]
    BY <1>1, <2>1 DEF Present, RegistryFits
  <2>5. RegistryFits(workers') BY <1>1, <2>1, <2>4 DEF RegistryFits
  <2>6. threads = {workers[key] : key \in P \ {gone}} BY <1>1, <2>1 DEF Phase, Running
  <2> DEFINE R == P \ {gone}
  <2>7. {workers'[key] : key \in R} = {workers[key] : key \in R} BY <2>4
  <2>8. R \ {} = R OBVIOUS
  <2> HIDE DEF P, A, R
  <2>9. Present(workers') = R BY <2>4 DEF R
  <2>10. Reconciling(t, deployments, workers')
    <3>1. t.stale \subseteq {workers'[key] : key \in R} BY <2>2, <2>3, <2>7 DEF R
    <3>2. \A key \in R : workers'[key] \in t.stale \/ <<key, workers'[key].signature>> \in A BY <2>2, <2>3, <2>4 DEF R
    <3>3. t.desired = A BY <2>2, <2>3
    <3> QED BY <2>2, <2>8, <2>9, <3>1, <3>2, <3>3 DEF Reconciling, A
  <2>11. Running(workers', threads', {}) BY <2>1, <2>6, <2>7, <2>8, <2>9 DEF Running, R
  <2>12. Phase(t, deployments, workers', threads') BY <2>2, <2>10, <2>11 DEF Phase
  <2>13. TaskFits(t) /\ t.at \in {"compare", "stop", "pop", "register"} BY <1>2, <2>2 DEF TaskFits
  <2>14. UNCHANGED deployments BY <1>0
  <2> HIDE DEF Settling
  <2> QED BY <1>3, <2>1, <2>5, <2>12, <2>13, <2>14, ReconcileMoves
<1> QED BY <1>4, <1>5

LEMMA StartWorkerSteps ==
  ASSUME Settling, NEW w \in WebThreads,
         RegisterWorker(w) \/ \E d \in task[w].desired : KeepWorker(w, d) \/ BuildWorker(w, d)
  PROVE  Settling'
<1> DEFINE Fields == {"at", "kind", "run", "row", "strategy", "number", "desired", "stale", "key"}
           P == Present(workers)
           A == Asked(deployments)
<1>0. task[w].at \in {"stop", "register"} /\ UNCHANGED <<deployments, saves>>
  BY DEF RegisterWorker, KeepWorker, BuildWorker, Considers, stored
<1>1. /\ TaskFits(task[w]) /\ DOMAIN task[w] = Fields /\ Phase(task[w], deployments, workers, threads)
      /\ DOMAIN task = WebThreads /\ saves \in Nat /\ RegistryFits(workers)
      /\ DOMAIN deployments = Strategies /\ \A s \in Strategies : RowFits(deployments[s])
  BY <1>0, OthersAreIdle DEF TaskFits
<1>2. Reconciling(task[w], deployments, workers) /\ task[w].number \in Nat /\ task[w].number # 0
  BY <1>0, <1>1 DEF Phase, TaskFits
<1>3. task[w].at # "idle" /\ saves' \in Nat BY <1>0, <1>1
<1>4. /\ threads = {workers[key] : key \in P} /\ task[w].desired \subseteq A
      /\ \A d \in A : d \in task[w].desired \/ d[1] \in P
  <2>1. P \ {} = P OBVIOUS
  <2> QED BY <1>0, <1>1, <1>2, <2>1 DEF Phase, Running, Reconciling
<1>5. ASSUME task[w].stale = {} PROVE \A key \in P : <<key, workers[key].signature>> \in A
  <2>1. P \ {} = P OBVIOUS
  <2> QED BY <1>0, <1>2, <1>5, <2>1 DEF Reconciling
<1>6. /\ \A d \in A : d = <<d[1], d[2]>> /\ d[1] \in DeploymentKeys
      /\ \A d, e \in A : d[1] = e[1] => d = e
  BY <1>1, AskedFits
<1> HIDE DEF P, A
\* What the three have in common: nothing is stale.
<1>7. ASSUME NEW t, DOMAIN t = Fields, t.at \in {"stop", "register"}, t.number = task[w].number, t.stale = {},
             task' = [task EXCEPT ![w] = t], t.desired \subseteq A,
             RegistryFits(workers'), Running(workers', threads', {}),
             \A key \in Present(workers') : <<key, workers'[key].signature>> \in A,
             \A d \in A : d \in t.desired \/ d[1] \in Present(workers'),
             t.at = "register" => t.key \notin Present(workers') /\ \E d \in t.desired : d[1] = t.key
      PROVE  Settling'
  <2>1. Present(workers') \ {} = Present(workers') OBVIOUS
  <2>2. Reconciling(t, deployments, workers') BY <1>7, <2>1 DEF Reconciling, A
  <2>3. Phase(t, deployments, workers', threads') BY <1>7, <2>2 DEF Phase
  <2>4. TaskFits(t) /\ t.at \in {"compare", "stop", "pop", "register"} BY <1>2, <1>7 DEF TaskFits
  <2>5. UNCHANGED deployments BY <1>0
  <2> HIDE DEF Settling
  <2> QED BY <1>3, <1>7, <2>3, <2>4, <2>5, ReconcileMoves
<1>8. ASSUME NEW d \in task[w].desired, KeepWorker(w, d) PROVE Settling'
  <2> DEFINE t == [task[w] EXCEPT !.desired = task[w].desired \ {d}]
  <2>1. task' = [task EXCEPT ![w] = t] /\ UNCHANGED <<workers, threads>> /\ task[w].stale = {} /\ task[w].at = "stop"
        /\ workers[d[1]] # NoWorker
    BY <1>1, <1>8 DEF KeepWorker, Considers, runtime
  <2>2. /\ DOMAIN t = Fields /\ t.at = "stop" /\ t.number = task[w].number /\ t.stale = {}
        /\ t.desired = task[w].desired \ {d}
    BY <1>1, <2>1
  <2> HIDE DEF t
  <2>3. d \in A /\ d[1] \in Present(workers) BY <1>4, <1>6, <2>1 DEF Present
  <2>4. t.desired \subseteq A /\ \A e \in A : e \in t.desired \/ e[1] \in Present(workers')
    BY <1>4, <2>1, <2>2, <2>3 DEF P
  <2>5. \A key \in Present(workers') : <<key, workers'[key].signature>> \in A BY <1>5, <2>1 DEF P
  <2>6. RegistryFits(workers') /\ Running(workers', threads', {})
    <3>1. P \ {} = P OBVIOUS
    <3> QED BY <1>1, <1>4, <2>1, <3>1 DEF Running, P
  <2> QED BY <1>7, <2>1, <2>2, <2>4, <2>5, <2>6
<1>9. ASSUME NEW d \in task[w].desired, BuildWorker(w, d) PROVE Settling'
  <2> DEFINE t == [task[w] EXCEPT !.at = "register", !.key = d[1]]
  <2>1. task' = [task EXCEPT ![w] = t] /\ UNCHANGED <<workers, threads>> /\ task[w].stale = {} /\ task[w].at = "stop"
        /\ workers[d[1]] = NoWorker
    BY <1>1, <1>9 DEF BuildWorker, Considers, runtime
  <2>2. /\ DOMAIN t = Fields /\ t.at = "register" /\ t.number = task[w].number /\ t.stale = {}
        /\ t.desired = task[w].desired /\ t.key = d[1]
    BY <1>1, <2>1
  <2> HIDE DEF t
  <2>3. t.desired \subseteq A /\ \A e \in A : e \in t.desired \/ e[1] \in Present(workers')
    BY <1>4, <2>1, <2>2 DEF P
  <2>4. \A key \in Present(workers') : <<key, workers'[key].signature>> \in A BY <1>5, <2>1 DEF P
  <2>5. RegistryFits(workers') /\ Running(workers', threads', {})
    <3>1. P \ {} = P OBVIOUS
    <3> QED BY <1>1, <1>4, <2>1, <3>1 DEF Running, P
  <2>6. t.key \notin Present(workers') /\ \E e \in t.desired : e[1] = t.key BY <2>1, <2>2 DEF Present
  <2> QED BY <1>7, <2>1, <2>2, <2>3, <2>4, <2>5, <2>6
<1>10. CASE RegisterWorker(w)
  <2>0. task[w].at = "register" BY <1>10 DEF RegisterWorker
  <2>1. task[w].stale = {} /\ task[w].key \notin Present(workers) /\ \E e \in task[w].desired : e[1] = task[w].key
    BY <1>2, <2>0 DEF Reconciling
  <2>2. PICK d : d = CHOOSE e \in task[w].desired : e[1] = task[w].key OBVIOUS
  <2>3. d \in task[w].desired /\ d[1] = task[w].key BY <2>1, <2>2
  <2> DEFINE worker == [by |-> task[w].number, key |-> d[1], signature |-> d[2]]
             t == [task[w] EXCEPT !.at = "stop", !.desired = task[w].desired \ {d}]
  <2>4. /\ workers' = [workers EXCEPT ![d[1]] = worker] /\ threads' = threads \cup {worker}
        /\ task' = [task EXCEPT ![w] = t]
    BY <1>1, <1>10, <2>2 DEF RegisterWorker
  <2>5. worker.key = d[1] /\ worker.signature = d[2] /\ worker # NoWorker
    <3>1. worker.by = task[w].number /\ NoWorker.by = 0 BY DEF NoWorker
    <3> HIDE DEF worker
    <3>2. worker # NoWorker BY <1>2, <3>1
    <3> QED BY <3>2 DEF worker
  <2>6. /\ DOMAIN t = Fields /\ t.at = "stop" /\ t.number = task[w].number /\ t.stale = {}
        /\ t.desired = task[w].desired \ {d}
    BY <1>1, <2>1
  <2> HIDE DEF t, worker
  <2>7. d \in A /\ d[1] \in DeploymentKeys /\ d = <<d[1], d[2]>> BY <1>4, <1>6, <2>3
  <2>8. /\ Present(workers') = P \cup {d[1]} /\ d[1] \notin P /\ workers'[d[1]] = worker
        /\ \A key \in P : workers'[key] = workers[key]
    BY <1>1, <2>1, <2>3, <2>4, <2>5, <2>7 DEF Present, RegistryFits, P
  <2>9. RegistryFits(workers') BY <1>1, <2>4, <2>5, <2>8 DEF RegistryFits, P
  <2>10. Running(workers', threads', {})
    <3> DEFINE R == P \cup {d[1]}
    <3>1. threads' = {workers'[key] : key \in R} BY <1>4, <2>4, <2>8
    <3>2. R \ {} = R OBVIOUS
    <3> HIDE DEF R
    <3>3. Present(workers') = R BY <2>8 DEF R
    <3> QED BY <3>1, <3>2, <3>3 DEF Running
  <2>11. \A key \in Present(workers') : <<key, workers'[key].signature>> \in A BY <1>5, <2>1, <2>5, <2>7, <2>8
  <2>12. t.desired \subseteq A /\ \A e \in A : e \in t.desired \/ e[1] \in Present(workers') BY <1>4, <2>6, <2>8
  <2> QED BY <1>7, <2>4, <2>6, <2>9, <2>10, <2>11, <2>12
<1> QED BY <1>8, <1>9, <1>10

\* A reconciliation ends, with what was asked or with an exception.
LEMMA EndSteps ==
  ASSUME Settling, NEW w \in WebThreads, EndReconcile(w) \/ \E d \in task[w].desired : BuildFails(w, d)
  PROVE  Settling'
<1>0. /\ task[w].at = "stop" /\ task[w].stale = {} /\ UNCHANGED <<deployments, workers, threads, saves>>
      /\ task' = [task EXCEPT ![w] = NoTask]
      /\ unapplied' = TRUE \/ task[w].desired = {}
  BY DEF EndReconcile, BuildFails, Considers, stored
<1>1. /\ \A v \in WebThreads \ {w} : task[v].at = "idle"
      /\ Phase(task[w], deployments, workers, threads)
      /\ DOMAIN task = WebThreads /\ saves \in Nat /\ RegistryFits(workers)
      /\ DOMAIN deployments = Strategies /\ \A s \in Strategies : RowFits(deployments[s])
  BY <1>0, OthersAreIdle
<1>2. task'[w] = NoTask /\ DOMAIN task' = WebThreads /\ \A v \in WebThreads \ {w} : task'[v] = task[v] BY <1>0, <1>1
<1>3. Running(workers', threads', {}) BY <1>0, <1>1 DEF Phase
<1>4. Reconciling(task[w], deployments, workers) BY <1>0, <1>1 DEF Phase
<1>5. ASSUME task[w].desired = {} PROVE RowsApplied(deployments, workers)
  <2>1. Present(workers) \ {} = Present(workers) OBVIOUS
  <2>2. \A key \in Present(workers) : <<key, workers[key].signature>> \in Asked(deployments)
    BY <1>0, <1>4, <2>1 DEF Reconciling
  <2>3. \A d \in Asked(deployments) : d[1] \in Present(workers) BY <1>4, <1>5 DEF Reconciling
  <2> QED BY <2>2, <2>3 DEF RowsApplied
<1>6. unapplied' = TRUE \/ RowsApplied(deployments', workers') BY <1>0, <1>5
<1>7. NoTask.at = "idle" /\ TaskFits(NoTask) BY RowsOfDeployments
<1>8. TaskFits(task'[w]) /\ task'[w].at = "idle" BY <1>2, <1>7
<1>9. /\ saves' \in Nat /\ DOMAIN deployments' = Strategies /\ (\A s \in Strategies : RowFits(deployments'[s]))
      /\ RegistryFits(workers')
  BY <1>0, <1>1
<1> HIDE DEF Settling
<1> QED BY <1>1, <1>2, <1>3, <1>6, <1>8, <1>9, OneMoves

LEMMA RestartStep ==
  ASSUME Settling, NEW w, w \in WebThreads \/ WebThreads = {}, NEW version, Restart(w, version)
  PROVE  Settling'
<1> DEFINE t == [NoTask EXCEPT !.at = "read", !.kind = "start", !.number = saves + 1]
<1>0. /\ saves \in Nat /\ DOMAIN deployments = Strategies /\ (\A s \in Strategies : RowFits(deployments[s]))
  BY DEF Settling
<1>1. /\ saves' = saves + 1 /\ platform' = "starting" /\ threads' = {} /\ UNCHANGED deployments
      /\ DOMAIN task' = WebThreads /\ DOMAIN workers' = DeploymentKeys /\ \A key \in DeploymentKeys : workers'[key] = NoWorker
      /\ \A v \in WebThreads : task'[v] = IF v = w THEN t ELSE NoTask
  BY DEF Restart, stored
<1>2. /\ DOMAIN t = {"at", "kind", "run", "row", "strategy", "number", "desired", "stale", "key"}
      /\ t.at = "read" /\ t.number = saves + 1
  BY RowsOfDeployments
<1> HIDE DEF t
<1>3. TaskFits(t) /\ TaskFits(NoTask) /\ NoTask.at = "idle"
  <2>1. saves + 1 \in Nat /\ saves + 1 # 0 BY <1>0
  <2>2. TaskFits(t) BY <1>2, <2>1 DEF TaskFits
  <2>3. TaskFits(NoTask) /\ NoTask.at = "idle" BY RowsOfDeployments
  <2> QED BY <2>2, <2>3
<1>4. Present(workers') = {} BY <1>1 DEF Present
<1>5. Running(workers', threads', {}) /\ RegistryFits(workers') BY <1>1, <1>4 DEF Running, RegistryFits
<1>6. Phase(t, deployments', workers', threads') BY <1>2, <1>5 DEF Phase
<1>7. \A v \in WebThreads : TaskFits(task'[v]) BY <1>1, <1>3
<1>8. \A v \in WebThreads : task'[v].at # "idle" => v = w /\ Phase(task'[v], deployments', workers', threads')
  BY <1>1, <1>3, <1>6
<1>9. \A v, u \in WebThreads : task'[v].at # "idle" /\ task'[u].at # "idle" => v = u BY <1>8
<1>10. saves' \in Nat /\ platform' # "up" BY <1>0, <1>1
<1>11. DOMAIN deployments' = Strategies /\ (\A s \in Strategies : RowFits(deployments'[s])) BY <1>0, <1>1
<1> QED BY <1>1, <1>5, <1>7, <1>8, <1>9, <1>10, <1>11 DEF Settling

LEMMA PromotionTypes == PromotionInit => PromotionInv
<1> SUFFICES ASSUME PromotionInit PROVE PromotionInv OBVIOUS
<1>1. /\ DOMAIN deployments = Strategies /\ \A s \in Strategies : deployments[s] = NoDeployment
      /\ DOMAIN workers = DeploymentKeys /\ \A key \in DeploymentKeys : workers[key] = NoWorker
      /\ DOMAIN task = WebThreads /\ \A w \in WebThreads : task[w] = NoTask
  BY DEF PromotionInit
<1>2. Present(workers) = {} BY <1>1 DEF Present
<1>3. Running(workers, threads, {}) /\ RegistryFits(workers) BY <1>1, <1>2 DEF PromotionInit, Running, RegistryFits
<1>4. Asked(deployments) = {} BY <1>1 DEF Asked, NoDeployment
<1>5. RowsApplied(deployments, workers) BY <1>2, <1>4 DEF RowsApplied
<1>6. \A w \in WebThreads : TaskFits(task[w]) /\ task[w].at = "idle" BY <1>1, RowsOfDeployments
<1>7. \A s \in Strategies : RowFits(deployments[s]) BY <1>1, RowsOfDeployments
<1>8. Settling BY <1>1, <1>3, <1>5, <1>6, <1>7 DEF Settling, PromotionInit
<1> QED BY <1>8 DEF PromotionInit, PromotionInv

LEMMA PromotionStep == PromotionInv /\ [PromotionNext]_promotionVars => PromotionInv'
<1> SUFFICES ASSUME PromotionInv, [PromotionNext]_promotionVars PROVE PromotionInv' OBVIOUS
<1>0. overlapped \in BOOLEAN /\ unapplied \in BOOLEAN BY DEF PromotionInv
<1>1. CASE UNCHANGED promotionVars
  <2>1. UNCHANGED <<overlapped, unapplied, saves, task, deployments, workers, threads, platform>>
    BY <1>1 DEF promotionVars
  <2> QED BY <2>1 DEF PromotionInv, Settling, Idle
\* The steps that leave the mark alone.
<1>2. ASSUME NEW w \in WebThreads,
             \/ ApproveConfig(w) \/ StoreConfig(w) \/ ReadCurrent(w) \/ StoreDeployment(w) \/ StoreApproval(w) \/ RequestFailed(w)
             \/ ReadDesired(w) \/ CompareWorkers(w) \/ PopStale(w) \/ RegisterWorker(w) \/ EndReconcile(w)
             \/ \E worker \in task[w].stale : StopStale(w, worker)
             \/ \E d \in task[w].desired : KeepWorker(w, d) \/ BuildWorker(w, d) \/ BuildFails(w, d)
      PROVE  PromotionInv'
  <2>1. UNCHANGED overlapped /\ (UNCHANGED unapplied \/ unapplied' = TRUE \/ unapplied' = FALSE)
    <3>1. CASE ApproveConfig(w) \/ StoreConfig(w) \/ ReadCurrent(w) \/ StoreDeployment(w) \/ StoreApproval(w)
      BY <3>1 DEF ApproveConfig, StoreConfig, ReadCurrent, StoreDeployment, StoreApproval
    <3>2. CASE RequestFailed(w) \/ ReadDesired(w) \/ CompareWorkers(w) \/ PopStale(w) \/ RegisterWorker(w) \/ EndReconcile(w)
      BY <3>2 DEF RequestFailed, ReadDesired, CompareWorkers, PopStale, RegisterWorker, EndReconcile
    <3>3. CASE \E worker \in task[w].stale : StopStale(w, worker)
      BY <3>3 DEF StopStale
    <3>4. CASE \E d \in task[w].desired : KeepWorker(w, d) \/ BuildWorker(w, d) \/ BuildFails(w, d)
      BY <3>4 DEF KeepWorker, BuildWorker, BuildFails
    <3> QED BY <1>2, <3>1, <3>2, <3>3, <3>4
  <2>2. Settling => Settling'
    BY <1>2, RequestSteps, CompareSteps, StopSteps, StartWorkerSteps, EndSteps
  <2>3. overlapped' \in BOOLEAN /\ unapplied' \in BOOLEAN BY <1>0, <2>1
  <2> HIDE DEF Settling
  <2>4. overlapped' = FALSE => Settling' BY <2>1, <2>2 DEF PromotionInv
  <2> QED BY <2>3, <2>4 DEF PromotionInv
<1>3. ASSUME NEW w \in WebThreads, NEW kind \in {"approve", "config", "deploy"}, NEW strategy, NEW run, NEW row,
             Begin(w, kind, strategy, run, row), kind # "config" => RowFits(row), kind = "config" => strategy \in Strategies
      PROVE  PromotionInv'
  <2>1. overlapped' = (overlapped \/ ~Idle) /\ UNCHANGED unapplied BY <1>3 DEF Begin
  <2>2. overlapped' \in BOOLEAN BY <2>1
  <2>3. overlapped' = FALSE => overlapped = FALSE /\ Idle BY <1>0, <2>1
  <2>4. Settling /\ Idle => Settling' BY <1>3, BeginStep
  <2> HIDE DEF Settling, Idle
  <2> QED BY <1>0, <2>1, <2>2, <2>3, <2>4 DEF PromotionInv
<1>4. ASSUME NEW w \in WebThreads, NEW run \in BacktestRuns, NEW mode, NEW list, Approve(w, run, mode, list) PROVE PromotionInv'
  <2> DEFINE r == RunOf[run]
             row == [exists |-> TRUE, version |-> r.version, config |-> SignalsConfig(run, mode), watchlist |-> list,
                     timeframe |-> r.timeframe, mode |-> mode]
  <2>1. Begin(w, "approve", r.strategy, run, row) BY <1>4 DEF Approve
  <2>2. RowFits(row) BY DEF RowFits, Frames
  <2> HIDE DEF row
  <2> QED BY <1>3, <2>1, <2>2
<1>5. ASSUME NEW w \in WebThreads, NEW s \in Strategies, NEW name, NEW content, SaveConfig(w, s, name, content) PROVE PromotionInv'
  BY <1>3, <1>5 DEF SaveConfig
<1>6. ASSUME NEW w \in WebThreads, NEW s \in Strategies, NEW tf \in Timeframes, NEW mode, NEW list,
             SaveDeployment(w, s, tf, mode, list)
      PROVE  PromotionInv'
  <2> DEFINE active == ActiveConfig(s)
             row == [exists |-> TRUE, version |-> registered,
                     config |-> IF active = {} THEN "none" ELSE (CHOOSE c \in active : TRUE)[2],
                     watchlist |-> list, timeframe |-> tf, mode |-> mode]
  <2>1. Begin(w, "deploy", s, "none", row) BY <1>6 DEF SaveDeployment
  <2>2. RowFits(row) BY DEF RowFits, Frames
  <2> HIDE DEF row
  <2> QED BY <1>3, <2>1, <2>2
<1>8. ASSUME NEW worker, EndThread(worker) PROVE PromotionInv'
  <2>1. UNCHANGED <<overlapped, unapplied, saves, task, deployments, workers, threads, platform>>
    BY <1>8 DEF EndThread, stored
  <2> QED BY <2>1 DEF PromotionInv, Settling, Idle
<1>7. ASSUME NEW version, Restart(CHOOSE w \in WebThreads : TRUE, version) PROVE PromotionInv'
  <2>1. PICK first : first = CHOOSE w \in WebThreads : TRUE OBVIOUS
  <2>2. first \in WebThreads \/ WebThreads = {} BY <2>1
  <2>3. Restart(first, version) BY <1>7, <2>1
  <2>4. UNCHANGED <<overlapped, unapplied>> BY <2>3 DEF Restart
  <2>5. Settling => Settling' BY <2>2, <2>3, RestartStep
  <2> HIDE DEF Settling
  <2> QED BY <1>0, <2>4, <2>5 DEF PromotionInv
<1> QED BY <1>1, <1>2, <1>4, <1>5, <1>6, <1>7, <1>8 DEF PromotionNext

\* Without overlapping requests the workers that nobody told to stop are what the stored
\* deployments ask for whenever no request is under way, through restarts and failures.
\* A worker that stop() gave up waiting for may still run beside them.
THEOREM ReconcileAlwaysSettles == PromotionSpec => []ReconcileSettles
<1>1. PromotionInv => ReconcileSettles
  <2> SUFFICES ASSUME PromotionInv, ~overlapped, Idle, platform = "up", ~unapplied
               PROVE  /\ {<<t.key, t.signature>> : t \in threads} = Asked(deployments)
                      /\ \A t, u \in threads : t.key = u.key => t = u
    BY DEF ReconcileSettles, SavedModesRun, Reconciled, AskedFor, Asked
  <2>1. Settling /\ unapplied = FALSE BY DEF PromotionInv
  <2>2. Running(workers, threads, {}) /\ RegistryFits(workers) /\ RowsApplied(deployments, workers)
    BY <2>1 DEF Settling
  <2>3. /\ \A d \in Asked(deployments) : d = <<d[1], d[2]>> /\ d[1] \in DeploymentKeys
        /\ \A d, e \in Asked(deployments) : d[1] = e[1] => d = e
    <3>1. DOMAIN deployments = Strategies /\ \A s \in Strategies : RowFits(deployments[s]) BY <2>1 DEF Settling
    <3> QED BY <3>1, AskedFits
  <2> DEFINE P == Present(workers)
             A == Asked(deployments)
  <2>4. threads = {workers[key] : key \in P}
    <3>1. P \ {} = P OBVIOUS
    <3> QED BY <2>2, <3>1 DEF Running
  <2>5. \A key \in P : workers[key].key = key /\ <<key, workers[key].signature>> \in A BY <2>2 DEF RegistryFits, RowsApplied
  <2>6. \A d \in A : d[1] \in P BY <2>2 DEF RowsApplied
  <2> HIDE DEF P, A
  <2>7. ASSUME NEW t \in threads PROVE <<t.key, t.signature>> \in A
    <3>1. PICK key \in P : t = workers[key] BY <2>4
    <3>2. t.key = key /\ <<key, t.signature>> \in A BY <2>5, <3>1
    <3> QED BY <3>2
  <2>8. ASSUME NEW d \in A PROVE d \in {<<t.key, t.signature>> : t \in threads}
    <3>1. d[1] \in P /\ <<d[1], workers[d[1]].signature>> \in A BY <2>5, <2>6
    <3>2. <<d[1], workers[d[1]].signature>>[1] = d[1] OBVIOUS
    <3>3. d = <<d[1], workers[d[1]].signature>> BY <2>3, <3>1, <3>2 DEF A
    <3>4. workers[d[1]] \in threads /\ workers[d[1]].key = d[1] BY <2>4, <2>5, <3>1
    <3> QED BY <3>3, <3>4
  <2>9. ASSUME NEW t \in threads, NEW u \in threads, t.key = u.key PROVE t = u
    <3>1. PICK key \in P : t = workers[key] BY <2>4
    <3>2. PICK other \in P : u = workers[other] BY <2>4
    <3>3. t.key = key /\ u.key = other BY <2>5, <3>1, <3>2
    <3> QED BY <2>9, <3>1, <3>2, <3>3
  <2> QED BY <2>7, <2>8, <2>9 DEF A
<1> QED BY <1>1, PromotionTypes, PromotionStep, PTL DEF PromotionSpec
-----------------------------------------------------------------------------
(* The ranking of the screener.                                            *)

Passing(rows) == {r \in rows : r.rejection = "none"}
Above(rows, s) == {r \in rows : r.rejection = "none" /\ Better(r.symbol, s)}

\* One row per symbol, as the evaluation leaves them.
AreJudged(rows) ==
    /\ IsFiniteSet(rows)
    /\ \A r \in rows : /\ DOMAIN r = {"symbol", "rejection", "rank"} /\ r.rank = 0
                       /\ r.symbol \in Catalogue /\ r.rejection # "RANKED_OUT"
    /\ \A r, q \in rows : r.symbol = q.symbol => r = q

LEMMA BetterIsTotal ==
  ASSUME NEW s \in Catalogue, NEW t \in Catalogue, NEW u \in Catalogue
  PROVE  /\ ~Better(s, s)
         /\ s # t => Better(s, t) \/ Better(t, s)
         /\ Better(s, t) => ~Better(t, s)
         /\ Better(s, t) /\ Better(t, u) => Better(s, u)
<1>1. \A x \in Catalogue : Metrics[x].score \in Int BY MetricsAreRanked
<1>2. Catalogue \subseteq Int
  <2>1. Catalogue \subseteq Nat BY MetricsAreRanked
  <2> QED BY <2>1
<1>3. s \in Int /\ t \in Int /\ u \in Int BY <1>2
<1>4. Metrics[s].score \in Int /\ Metrics[t].score \in Int /\ Metrics[u].score \in Int BY <1>1
<1> QED BY <1>3, <1>4 DEF Better

LEMMA PositionsRank ==
  ASSUME NEW rows, AreJudged(rows)
  PROVE  /\ IsFiniteSet(Passing(rows)) /\ Cardinality(Passing(rows)) \in Nat
         /\ \A r \in Passing(rows) : Position(rows, r.symbol) \in 1 .. Cardinality(Passing(rows))
         /\ \A r, q \in Passing(rows) :
              Better(r.symbol, q.symbol) <=> Position(rows, r.symbol) < Position(rows, q.symbol)
<1> DEFINE Q == Passing(rows)
           N == Cardinality(Q)
<1>1. IsFiniteSet(Q) /\ N \in Nat
  <2>1. Q \in SUBSET rows /\ IsFiniteSet(rows) BY DEF AreJudged, Passing
  <2>2. IsFiniteSet(Q) BY <2>1, FS_Subset
  <2> QED BY <2>2, FS_CardinalityType
<1>2. \A r \in Q : r \in rows /\ r.symbol \in Catalogue /\ r.rejection = "none" BY DEF AreJudged, Passing
<1>3. \A r, q \in Q : r.symbol = q.symbol => r = q BY DEF AreJudged, Passing
<1>4. \A s : Above(rows, s) = {r \in Q : Better(r.symbol, s)} BY DEF Above, Passing
<1>5. \A s : Position(rows, s) = Cardinality(Above(rows, s)) + 1 BY DEF Position, Above
<1> HIDE DEF Q, N
<1>6. ASSUME NEW s PROVE Above(rows, s) \in SUBSET Q /\ IsFiniteSet(Above(rows, s)) /\ Cardinality(Above(rows, s)) \in Nat
  <2>1. Above(rows, s) \in SUBSET Q BY <1>4
  <2>2. IsFiniteSet(Above(rows, s)) BY <1>1, <2>1, FS_Subset
  <2> QED BY <2>1, <2>2, FS_CardinalityType
<1>7. ASSUME NEW r \in Q PROVE Cardinality(Above(rows, r.symbol)) < N
  <2>1. r \notin Above(rows, r.symbol) BY <1>2, <1>4, BetterIsTotal
  <2>2. Cardinality(Above(rows, r.symbol)) <= N /\ Above(rows, r.symbol) # Q
    <3>1. Above(rows, r.symbol) \in SUBSET Q /\ IsFiniteSet(Q) BY <1>1, <1>6
    <3>2. Cardinality(Above(rows, r.symbol)) <= Cardinality(Q) BY <3>1, FS_Subset
    <3> QED BY <2>1, <3>2 DEF N
  <2>3. Cardinality(Above(rows, r.symbol)) # N
    <3>1. Above(rows, r.symbol) \in SUBSET Q /\ IsFiniteSet(Q) BY <1>1, <1>6
    <3>2. Cardinality(Q) = Cardinality(Above(rows, r.symbol)) => Q = Above(rows, r.symbol) BY <3>1, FS_Subset
    <3> QED BY <2>2, <3>2 DEF N
  <2>4. Cardinality(Above(rows, r.symbol)) \in Nat BY <1>6
  <2> QED BY <1>1, <2>2, <2>3, <2>4
<1>8. ASSUME NEW r \in Q, NEW q \in Q, Better(r.symbol, q.symbol)
      PROVE  Cardinality(Above(rows, r.symbol)) < Cardinality(Above(rows, q.symbol))
  <2>1. r.symbol \in Catalogue /\ q.symbol \in Catalogue BY <1>2
  <2>2. Above(rows, r.symbol) \subseteq Above(rows, q.symbol)
    <3> SUFFICES ASSUME NEW x \in Above(rows, r.symbol) PROVE x \in Above(rows, q.symbol) OBVIOUS
    <3>1. x \in Q /\ Better(x.symbol, r.symbol) BY <1>4
    <3>2. Better(x.symbol, q.symbol) BY <1>2, <1>8, <2>1, <3>1, BetterIsTotal
    <3> QED BY <1>4, <3>1, <3>2
  <2>3. r \in Above(rows, q.symbol) /\ r \notin Above(rows, r.symbol) BY <1>4, <1>8, <2>1, BetterIsTotal
  <2>4. Above(rows, r.symbol) \in SUBSET Above(rows, q.symbol) /\ IsFiniteSet(Above(rows, q.symbol)) BY <1>6, <2>2
  <2>5. Cardinality(Above(rows, r.symbol)) <= Cardinality(Above(rows, q.symbol)) BY <2>4, FS_Subset
  <2>6. Cardinality(Above(rows, q.symbol)) = Cardinality(Above(rows, r.symbol)) => Above(rows, q.symbol) = Above(rows, r.symbol) BY <2>4, FS_Subset
  <2>7. Cardinality(Above(rows, q.symbol)) \in Nat /\ Cardinality(Above(rows, r.symbol)) \in Nat BY <1>6
  <2> QED BY <2>3, <2>5, <2>6, <2>7
<1>9. ASSUME NEW r \in Q PROVE Position(rows, r.symbol) \in 1 .. N
  <2>1. Cardinality(Above(rows, r.symbol)) \in Nat BY <1>6
  <2> QED BY <1>1, <1>5, <1>7, <2>1
<1>10. ASSUME NEW r \in Q, NEW q \in Q
       PROVE  Better(r.symbol, q.symbol) <=> Position(rows, r.symbol) < Position(rows, q.symbol)
  <2>1. Cardinality(Above(rows, r.symbol)) \in Nat /\ Cardinality(Above(rows, q.symbol)) \in Nat BY <1>6
  <2>2. Better(r.symbol, q.symbol) => Position(rows, r.symbol) < Position(rows, q.symbol) BY <1>5, <1>8, <2>1
  <2>3. Better(q.symbol, r.symbol) => Position(rows, q.symbol) < Position(rows, r.symbol) BY <1>5, <1>8, <2>1
  <2>4. r.symbol = q.symbol \/ Better(r.symbol, q.symbol) \/ Better(q.symbol, r.symbol) BY <1>2, BetterIsTotal
  <2>5. Position(rows, r.symbol) \in Int /\ Position(rows, q.symbol) \in Int BY <1>5, <2>1
  <2> QED BY <2>2, <2>3, <2>4, <2>5
<1> QED BY <1>1, <1>9, <1>10 DEF Q, N

\* Every position up to the number of rows is taken, by one row.
LEMMA PositionsAreTaken ==
  ASSUME NEW rows, AreJudged(rows)
  PROVE  /\ \A r, q \in Passing(rows) : Position(rows, r.symbol) = Position(rows, q.symbol) => r = q
         /\ \A i \in 1 .. Cardinality(Passing(rows)) : \E r \in Passing(rows) : Position(rows, r.symbol) = i
<1> DEFINE Q == Passing(rows)
           N == Cardinality(Q)
           f == [r \in Q |-> Position(rows, r.symbol)]
<1>1. IsFiniteSet(Q) /\ N \in Nat /\ \A r \in Q : Position(rows, r.symbol) \in 1 .. N BY PositionsRank
<1>2. ASSUME NEW r \in Q, NEW q \in Q, Position(rows, r.symbol) = Position(rows, q.symbol) PROVE r = q
  <2>1. Position(rows, r.symbol) \in Int BY <1>1
  <2>2. ~Better(r.symbol, q.symbol) /\ ~Better(q.symbol, r.symbol) BY <1>2, <2>1, PositionsRank
  <2>3. r.symbol \in Catalogue /\ q.symbol \in Catalogue BY DEF Passing, AreJudged
  <2>4. r.symbol = q.symbol BY <2>2, <2>3, BetterIsTotal
  <2> QED BY <2>4 DEF Passing, AreJudged
<1>3. f \in [Q -> 1 .. N] BY <1>1
<1>4. \A r \in Q : f[r] = Position(rows, r.symbol) OBVIOUS
<1> HIDE DEF f, Q
<1>5. \A r, q \in Q : f[r] = f[q] => r = q BY <1>2, <1>4
<1>6. \A i \in 1 .. N : \E r \in Q : f[r] = i BY <1>1, <1>3, <1>5, RanksAreTaken
<1> HIDE DEF N
<1> QED BY <1>2, <1>4, <1>6 DEF Q, N

\* What becomes of a row.
Given(rows, limit, r) ==
    IF r.rejection # "none" THEN r
    ELSE IF limit > 0 /\ Position(rows, r.symbol) > limit THEN [r EXCEPT !.rejection = "RANKED_OUT"]
    ELSE [r EXCEPT !.rank = Position(rows, r.symbol)]
WithinLimit(rows, limit, r) == limit = 0 \/ Position(rows, r.symbol) <= limit

LEMMA GivenRanks ==
  ASSUME NEW rows, AreJudged(rows), NEW limit \in Nat, NEW r \in rows
  PROVE  /\ Given(rows, limit, r).symbol = r.symbol
         /\ Given(rows, limit, r).rejection \in {"none", "RANKED_OUT"} <=> r.rejection = "none"
         /\ Given(rows, limit, r).rejection = "none" <=> r.rejection = "none" /\ WithinLimit(rows, limit, r)
         /\ Given(rows, limit, r).rejection = "none" => Given(rows, limit, r).rank = Position(rows, r.symbol)
<1>1. DOMAIN r = {"symbol", "rejection", "rank"} /\ r.rejection # "RANKED_OUT" BY DEF AreJudged
<1>2. CASE r.rejection # "none" BY <1>1, <1>2 DEF Given
<1>3. CASE r.rejection = "none"
  <2>0. r \in Passing(rows) BY <1>3 DEF Passing
  <2>1. Position(rows, r.symbol) \in Int
    <3>1. Position(rows, r.symbol) \in 1 .. Cardinality(Passing(rows)) BY <2>0, PositionsRank
    <3> QED BY <3>1
  <2>2. CASE limit > 0 /\ Position(rows, r.symbol) > limit
    <3>1. Given(rows, limit, r) = [r EXCEPT !.rejection = "RANKED_OUT"] BY <1>3, <2>2 DEF Given
    <3>2. ~WithinLimit(rows, limit, r) BY <2>1, <2>2 DEF WithinLimit
    <3> QED BY <1>1, <1>3, <3>1, <3>2
  <2>3. CASE ~(limit > 0 /\ Position(rows, r.symbol) > limit)
    <3>1. Given(rows, limit, r) = [r EXCEPT !.rank = Position(rows, r.symbol)] BY <1>3, <2>3 DEF Given
    <3>2. WithinLimit(rows, limit, r) BY <2>1, <2>3 DEF WithinLimit
    <3> QED BY <1>1, <1>3, <3>1, <3>2
  <2> QED BY <2>2, <2>3
<1> QED BY <1>2, <1>3

\* The passing rows of an outcome are numbered from one without gaps, the better first.
LEMMA OutcomeIsRanked ==
  ASSUME NEW rows, AreJudged(rows), NEW limit \in Nat, NEW out, out = RankSymbols(rows, limit)
  PROVE  /\ \A i \in 1 .. Cardinality(Passing(out)) : \E r \in Passing(out) : r.rank = i
         /\ \A r \in Passing(out) : r.rank \in 1 .. Cardinality(Passing(out))
         /\ \A r, t \in Passing(out) : r.rank = t.rank => r = t
         /\ \A r \in Passing(out), t \in out :
              t.rejection = "RANKED_OUT" \/ (t.rejection = "none" /\ r.rank < t.rank) => Better(r.symbol, t.symbol)
<1> DEFINE Q == Passing(rows)
           N == Cardinality(Q)
           M == IF limit = 0 \/ N <= limit THEN N ELSE limit
           P == Passing(out)
           f == [r \in P |-> r.rank]
<1>1. out = {Given(rows, limit, r) : r \in rows} BY DEF RankSymbols, Given
<1>2. N \in Nat /\ \A q \in Q : Position(rows, q.symbol) \in 1 .. N BY PositionsRank
<1>3. Q \subseteq rows /\ \A q \in rows : q \in Q <=> q.rejection = "none" BY DEF Passing
<1>4. \A r \in P : \E q \in Q : /\ r = Given(rows, limit, q) /\ r.symbol = q.symbol /\ WithinLimit(rows, limit, q)
                                /\ r.rank = Position(rows, q.symbol)
  <2> TAKE r \in P
  <2>1. PICK q \in rows : r = Given(rows, limit, q) BY <1>1 DEF Passing
  <2>2. r.rejection = "none" BY DEF Passing
  <2> QED BY <1>3, <2>1, <2>2, GivenRanks
<1>5. \A q \in Q : WithinLimit(rows, limit, q) => Given(rows, limit, q) \in P
  <2> TAKE q \in Q
  <2> HAVE WithinLimit(rows, limit, q)
  <2>1. q \in rows /\ q.rejection = "none" BY <1>3
  <2>2. Given(rows, limit, q).rejection = "none" BY <2>1, GivenRanks
  <2> QED BY <1>1, <2>1, <2>2 DEF Passing
<1>6. /\ \A r, q \in Q : Position(rows, r.symbol) = Position(rows, q.symbol) => r = q
      /\ \A i \in 1 .. N : \E q \in Q : Position(rows, q.symbol) = i
  BY PositionsAreTaken
<1>7. \A r, q \in Q : Better(r.symbol, q.symbol) <=> Position(rows, r.symbol) < Position(rows, q.symbol)
  BY PositionsRank
<1> HIDE DEF Q, P, N
<1>8. M \in Nat /\ M <= N /\ \A q \in Q : WithinLimit(rows, limit, q) <=> Position(rows, q.symbol) <= M
  BY <1>2 DEF WithinLimit
<1>9. ASSUME NEW r \in P PROVE r.rank \in 1 .. M BY <1>2, <1>4, <1>8
<1>10. ASSUME NEW r \in P, NEW t \in P, r.rank = t.rank PROVE r = t BY <1>4, <1>6, <1>10
<1>11. ASSUME NEW i \in 1 .. M PROVE \E r \in P : r.rank = i
  <2>1. i \in 1 .. N BY <1>2, <1>8
  <2>2. PICK q \in Q : Position(rows, q.symbol) = i BY <1>6, <2>1
  <2>3. WithinLimit(rows, limit, q) BY <1>8, <2>2
  <2>4. Given(rows, limit, q) \in P /\ q \in rows /\ q.rejection = "none" BY <1>3, <1>5, <2>3
  <2>5. Given(rows, limit, q).rank = i BY <2>2, <2>3, <2>4, GivenRanks
  <2> QED BY <2>4, <2>5
<1> HIDE DEF M
<1>12. Cardinality(P) = M
  <2>1. f \in [P -> 1 .. M] /\ M \in Nat BY <1>8, <1>9
  <2>2. \A r \in P : f[r] = r.rank OBVIOUS
  <2> HIDE DEF f
  <2>3. \A r, t \in P : f[r] = f[t] => r = t BY <1>10, <2>2
  <2>4. \A i \in 1 .. M : \E r \in P : f[r] = i BY <1>11, <2>2
  <2> QED BY <2>1, <2>3, <2>4, RanksCount
<1>13. ASSUME NEW r \in P, NEW t \in out, t.rejection = "RANKED_OUT" \/ (t.rejection = "none" /\ r.rank < t.rank)
       PROVE  Better(r.symbol, t.symbol)
  <2>1. PICK q \in Q : r.symbol = q.symbol /\ WithinLimit(rows, limit, q) /\ r.rank = Position(rows, q.symbol) BY <1>4
  <2>2. PICK u \in rows : t = Given(rows, limit, u) BY <1>1
  <2>3. /\ t.symbol = u.symbol /\ u.rejection = "none" /\ u \in Q
        /\ t.rejection = "none" => t.rank = Position(rows, u.symbol)
        /\ t.rejection = "RANKED_OUT" => ~WithinLimit(rows, limit, u)
    BY <1>3, <1>13, <2>2, GivenRanks
  <2>4. Position(rows, q.symbol) \in Int /\ Position(rows, u.symbol) \in Int /\ M \in Int BY <1>2, <1>8, <2>3
  <2>5. CASE t.rejection = "none" BY <1>7, <1>13, <2>1, <2>3, <2>5
  <2>6. CASE t.rejection = "RANKED_OUT"
    <3>1. Position(rows, q.symbol) <= M /\ ~(Position(rows, u.symbol) <= M) BY <1>8, <2>1, <2>3, <2>6
    <3>2. Position(rows, q.symbol) < Position(rows, u.symbol) BY <2>4, <3>1
    <3> QED BY <1>7, <2>1, <2>3, <3>2
  <2> QED BY <1>13, <2>5, <2>6
<1> QED BY <1>9, <1>10, <1>11, <1>12, <1>13 DEF P

\* A list cut from the ranked rows, with the manual changes.
ListedOf(out) == [i \in 1 .. Cardinality(Passing(out)) |-> (CHOOSE r \in Passing(out) : r.rank = i).symbol]
PassedOf(out) == {r.symbol : r \in {q \in out : q.rejection \in {"none", "RANKED_OUT"}}}

LEMMA BestAreSelected ==
  ASSUME NEW rows, AreJudged(rows), NEW limit \in Nat, NEW out, out = RankSymbols(rows, limit),
         NEW maximum \in Nat, NEW includes, NEW excludes,
         NEW u, u = Selected(ListedOf(out), maximum, includes, excludes)
  PROVE  /\ u \subseteq PassedOf(out) \cup includes
         /\ \A s \in u \ includes, t \in PassedOf(out) \ (u \cup excludes) : Better(s, t)
<1> DEFINE P == Passing(out)
           listed == ListedOf(out)
           passed == PassedOf(out)
           C == Cardinality(P)
           kept == {listed[i] : i \in {j \in DOMAIN listed : maximum = 0 \/ j <= maximum}}
<1>1. u = (kept \cup includes) \ excludes BY DEF Selected
<1>2. P \subseteq out /\ \A r \in out : r \in P <=> r.rejection = "none" BY DEF Passing
<1>3. /\ \A i \in 1 .. C : \E r \in P : r.rank = i
      /\ \A r \in P : r.rank \in 1 .. C
      /\ \A r, t \in P : r.rank = t.rank => r = t
      /\ \A r \in P, t \in out :
           t.rejection = "RANKED_OUT" \/ (t.rejection = "none" /\ r.rank < t.rank) => Better(r.symbol, t.symbol)
  BY OutcomeIsRanked
<1>4. DOMAIN listed = 1 .. C /\ \A i \in 1 .. C : listed[i] = (CHOOSE r \in P : r.rank = i).symbol BY DEF ListedOf
<1>0. passed = {r.symbol : r \in {q \in out : q.rejection \in {"none", "RANKED_OUT"}}} BY DEF PassedOf
<1> HIDE DEF P, C, listed, passed
<1>5. ASSUME NEW i \in 1 .. C PROVE \E r \in P : r.rank = i /\ listed[i] = r.symbol
  <2>1. (CHOOSE r \in P : r.rank = i) \in P /\ (CHOOSE r \in P : r.rank = i).rank = i BY <1>3
  <2> QED BY <1>4, <2>1
<1>6. \A s \in kept : \E r \in P : s = r.symbol /\ r.rank \in 1 .. C /\ (maximum = 0 \/ r.rank <= maximum)
  <2> TAKE s \in kept
  <2>1. PICK i \in 1 .. C : s = listed[i] /\ (maximum = 0 \/ i <= maximum) BY <1>4
  <2> QED BY <1>5, <2>1
<1>7. \A r \in P : maximum = 0 \/ r.rank <= maximum => r.symbol \in kept
  <2> TAKE r \in P
  <2> HAVE maximum = 0 \/ r.rank <= maximum
  <2>1. r.rank \in 1 .. C BY <1>3
  <2>2. PICK t \in P : t.rank = r.rank /\ listed[r.rank] = t.symbol BY <1>5, <2>1
  <2>3. listed[r.rank] = r.symbol BY <1>3, <2>2
  <2> QED BY <1>4, <2>1, <2>3
<1> HIDE DEF kept
<1>8. kept \subseteq passed BY <1>0, <1>2, <1>6
<1>9. ASSUME NEW s \in u \ includes, NEW t \in passed \ (u \cup excludes) PROVE Better(s, t)
  <2>1. s \in kept /\ t \notin kept BY <1>1
  <2>2. PICK r \in P : s = r.symbol /\ r.rank \in 1 .. C /\ (maximum = 0 \/ r.rank <= maximum) BY <1>6, <2>1
  <2>3. PICK q \in out : t = q.symbol /\ q.rejection \in {"none", "RANKED_OUT"} BY <1>0, <1>9
  <2>4. CASE q.rejection = "RANKED_OUT" BY <1>3, <2>2, <2>3, <2>4
  <2>5. CASE q.rejection = "none"
    <3>1. q \in P /\ q.rank \in 1 .. C BY <1>2, <1>3, <2>5
    <3>2. maximum # 0 /\ ~(q.rank <= maximum) BY <1>7, <2>1, <2>3, <3>1
    <3>3. q.rank \in Int /\ r.rank \in Int BY <2>2, <3>1
    <3>4. r.rank < q.rank BY <2>2, <3>2, <3>3
    <3> QED BY <1>3, <2>2, <2>3, <2>5, <3>4
  <2> QED BY <2>3, <2>4, <2>5
<1> QED BY <1>1, <1>8, <1>9 DEF passed

\* The rows of the tables.
Reasons == {Metrics[s].rejection : s \in Catalogue} \cup {"CANDLE_DATA_UNAVAILABLE"}
FreshRows == {OutcomeRow(s, reason) : s \in Catalogue, reason \in Reasons}
Judged == {rows \in SUBSET FreshRows : AreJudged(rows)}
Outcomes == {RankSymbols(rows, limit) : rows \in Judged, limit \in Nat}
ScreenRows == [status : {"RUNNING", "COMPLETE", "FAILED"}, symbols : SUBSET Catalogue, limit : Limits, cut : BOOLEAN]
Universes == [run : Nat, symbols : SUBSET Catalogue, includes : SUBSET Catalogue, excludes : SUBSET Catalogue, active : BOOLEAN]

SymbolsOf(rows) == {r.symbol : r \in rows}
HoldsBest(u, out) ==
    /\ u.symbols \subseteq PassedOf(out) \cup u.includes
    /\ \A s \in u.symbols \ u.includes, t \in PassedOf(out) \ (u.symbols \cup u.excludes) : Better(s, t)

TablesFit ==
    /\ serving \in BOOLEAN
    /\ screens \in Seq(ScreenRows) /\ outcomes \in Seq(Outcomes) /\ Len(outcomes) = Len(screens)
    /\ profile \in Seq([symbols : SUBSET Catalogue, limit : Limits]) /\ universes \in Seq(Universes)

\* What waits or runs is RUNNING, once.
QueueFits(queue, rows) ==
    /\ queue \in Seq(Nat)
    /\ \A i \in 1 .. Len(queue) : queue[i] \in 1 .. Len(rows) /\ rows[queue[i]].status = "RUNNING"
    /\ \A i, j \in 1 .. Len(queue) : queue[i] = queue[j] => i = j

\* The thread knows each symbol of its run once, until the run is cut.
JobFits(j, queue, rows, outs) ==
    /\ DOMAIN j = {"at", "run", "todo", "batch", "failed", "rows"}
    /\ j.at \in {"idle", "read", "score", "store", "finish"}
    /\ j.at # "idle" => /\ j.run \in 1 .. Len(rows) /\ rows[j.run].status = "RUNNING"
                        /\ \A i \in 1 .. Len(queue) : queue[i] # j.run
    /\ j.at \in {"read", "score", "store"} =>
          /\ j.rows \in Judged /\ j.todo \subseteq Catalogue /\ j.batch \subseteq Catalogue
          /\ j.todo \cap j.batch = {} /\ SymbolsOf(j.rows) \cap (j.todo \cup j.batch) = {}
    /\ j.at = "read" => j.batch = {}
    /\ j.at \in {"read", "score"} => rows[j.run].cut \/ SymbolsOf(j.rows) \cup j.todo \cup j.batch = rows[j.run].symbols
    /\ j.at = "store" => rows[j.run].cut \/ SymbolsOf(j.rows) = rows[j.run].symbols
    /\ j.at = "finish" => rows[j.run].cut \/ SymbolsOf(outs[j.run]) = rows[j.run].symbols

StopsClean(up, j, queue, rows) == up \/ (queue = <<>> /\ (j.at # "idle" => rows[j.run].cut = TRUE))

SavedFit(saved, rows, outs) ==
    \A i \in 1 .. Len(saved) : saved[i].run > 0 =>
        /\ saved[i].run \in 1 .. Len(rows) /\ rows[saved[i].run].status = "COMPLETE"
        /\ HoldsBest(saved[i], outs[saved[i].run])

AreWhole(rows, outs) ==
    \A i \in 1 .. Len(rows) : rows[i].status = "COMPLETE" /\ ~rows[i].cut => SymbolsOf(outs[i]) = rows[i].symbols

ScreenerInv ==
    /\ TablesFit /\ QueueFits(waiting, screens) /\ JobFits(job, waiting, screens, outcomes)
    /\ StopsClean(serving, job, waiting, screens)
    /\ SavedFit(universes, screens, outcomes) /\ AreWhole(screens, outcomes)

LEMMA NoJobFits ==
  /\ DOMAIN NoJob = {"at", "run", "todo", "batch", "failed", "rows"} /\ NoJob.at = "idle"
  /\ NoJob.batch = {} /\ NoJob.rows = {}
  /\ \A queue, rows, outs : JobFits(NoJob, queue, rows, outs)
  /\ {} \in Judged /\ {} \in Outcomes
<1>1. /\ DOMAIN NoJob = {"at", "run", "todo", "batch", "failed", "rows"} /\ NoJob.at = "idle"
      /\ NoJob.batch = {} /\ NoJob.rows = {}
  BY DEF NoJob
<1>2. \A queue, rows, outs : JobFits(NoJob, queue, rows, outs) BY <1>1 DEF JobFits
<1>3. {} \in Judged BY FS_EmptySet DEF Judged, AreJudged
<1>4. RankSymbols({}, 0) = {} BY DEF RankSymbols
<1>5. {} \in Outcomes BY <1>3, <1>4 DEF Outcomes
<1> QED BY <1>1, <1>2, <1>3, <1>5

\* The profile and the watchlists do not disturb the thread.
LEMMA ProfileSteps ==
  ASSUME ScreenerInv, NEW symbols \in Sources, NEW limit \in Limits, AddProfileVersion(symbols, limit)
  PROVE  ScreenerInv'
<1>1. profile' \in Seq([symbols : SUBSET Catalogue, limit : Limits])
  <2>1. [symbols |-> symbols, limit |-> limit] \in [symbols : SUBSET Catalogue, limit : Limits] BY ScreenerBounds
  <2> QED BY <2>1 DEF ScreenerInv, TablesFit, AddProfileVersion
<1>2. UNCHANGED <<serving, screens, outcomes, waiting, job, universes>> BY DEF AddProfileVersion
<1> QED BY <1>1, <1>2 DEF ScreenerInv, TablesFit

LEMMA StartScreenStep ==
  ASSUME ScreenerInv, NEW source, source.symbols \in SUBSET Catalogue, source.limit \in Limits, StartScreen(source)
  PROVE  ScreenerInv'
<1> DEFINE new == [status |-> "RUNNING", symbols |-> source.symbols, limit |-> source.limit, cut |-> FALSE]
           n == Len(screens)
<1>0. /\ screens \in Seq(ScreenRows) /\ outcomes \in Seq(Outcomes) /\ Len(outcomes) = n /\ n \in Nat
      /\ QueueFits(waiting, screens) /\ JobFits(job, waiting, screens, outcomes)
      /\ SavedFit(universes, screens, outcomes) /\ AreWhole(screens, outcomes)
      /\ serving = TRUE
  BY DEF ScreenerInv, TablesFit, StartScreen
<1>1. /\ screens' = Append(screens, new) /\ outcomes' = Append(outcomes, {}) /\ waiting' = Append(waiting, n + 1)
      /\ UNCHANGED <<serving, job, profile, universes>>
  BY DEF StartScreen
<1>2. new \in ScreenRows /\ new.status = "RUNNING" BY DEF ScreenRows
<1> HIDE DEF new
<1>3. /\ screens' \in Seq(ScreenRows) /\ Len(screens') = n + 1 /\ screens'[n + 1] = new
      /\ \A i \in 1 .. n : screens'[i] = screens[i]
  BY <1>0, <1>1, <1>2
<1>4. /\ outcomes' \in Seq(Outcomes) /\ Len(outcomes') = n + 1 /\ \A i \in 1 .. n : outcomes'[i] = outcomes[i]
  BY <1>0, <1>1, NoJobFits
<1> DEFINE k == Len(waiting)
<1>5. /\ waiting \in Seq(Nat) /\ k \in Nat
      /\ waiting' \in Seq(Nat) /\ Len(waiting') = k + 1 /\ waiting'[k + 1] = n + 1
      /\ \A i \in 1 .. k : waiting'[i] = waiting[i]
  BY <1>0, <1>1 DEF QueueFits
<1>6. \A i \in 1 .. k : waiting[i] \in 1 .. n /\ screens[waiting[i]].status = "RUNNING" BY <1>0 DEF QueueFits
<1>7. \A i, j \in 1 .. k : waiting[i] = waiting[j] => i = j BY <1>0 DEF QueueFits
<1>8. job.at # "idle" => /\ job.run \in 1 .. n /\ screens[job.run].status = "RUNNING"
                         /\ \A i \in 1 .. k : waiting[i] # job.run
  BY <1>0 DEF JobFits
<1> HIDE DEF n, k
<1>9. \A i \in 1 .. n : i \in 1 .. n + 1 /\ i # n + 1 BY <1>0
<1>10. \A i \in 1 .. k + 1 : i \in 1 .. k \/ i = k + 1 BY <1>5
<1>11. QueueFits(waiting', screens')
  <2>1. \A i \in 1 .. k + 1 : waiting'[i] \in 1 .. n + 1 /\ screens'[waiting'[i]].status = "RUNNING"
    <3>1. \A i \in 1 .. k : waiting'[i] = waiting[i] /\ waiting[i] \in 1 .. n + 1 /\ screens'[waiting[i]].status = "RUNNING"
      BY <1>3, <1>5, <1>6, <1>9
    <3>2. waiting'[k + 1] \in 1 .. n + 1 /\ screens'[waiting'[k + 1]].status = "RUNNING" BY <1>0, <1>2, <1>3, <1>5
    <3> QED BY <1>10, <3>1, <3>2
  <2>2. \A i, j \in 1 .. k + 1 : waiting'[i] = waiting'[j] => i = j
    BY <1>5, <1>6, <1>7, <1>9, <1>10
  <2> QED BY <1>3, <1>5, <2>1, <2>2 DEF QueueFits
<1>12. JobFits(job, waiting', screens', outcomes')
  <2>1. job.at # "idle" => /\ job.run \in 1 .. n + 1 /\ screens'[job.run] = screens[job.run] /\ outcomes'[job.run] = outcomes[job.run]
                           /\ \A i \in 1 .. k + 1 : waiting'[i] # job.run
    BY <1>3, <1>4, <1>5, <1>8, <1>9, <1>10
  <2>2. job.at # "idle" => screens[job.run].status = "RUNNING" BY <1>8
  <2> QED BY <1>0, <1>3, <1>5, <2>1, <2>2 DEF JobFits
<1>13. SavedFit(universes, screens', outcomes') BY <1>0, <1>3, <1>4, <1>9 DEF SavedFit, n
<1>14. AreWhole(screens', outcomes')
  <2>1. \A i \in 1 .. n + 1 : i \in 1 .. n \/ i = n + 1 BY <1>0
  <2> QED BY <1>0, <1>2, <1>3, <1>4, <2>1 DEF AreWhole, n
<1>15. TablesFit' BY <1>0, <1>1, <1>3, <1>4 DEF ScreenerInv, TablesFit
<1>16. StopsClean(serving', job', waiting', screens') BY <1>0, <1>1 DEF StopsClean
<1> QED BY <1>1, <1>11, <1>12, <1>13, <1>14, <1>15, <1>16 DEF ScreenerInv

LEMMA RowReplaced ==
  ASSUME NEW S, NEW s \in Seq(S), NEW i \in 1 .. Len(s), NEW x \in S, NEW t, t = [s EXCEPT ![i] = x]
  PROVE  t \in Seq(S) /\ Len(t) = Len(s) /\ \A j \in 1 .. Len(s) : t[j] = IF j = i THEN x ELSE s[j]
<1> DEFINE n == Len(s)
<1>1. n \in Nat /\ s \in [1 .. n -> S] OBVIOUS
<1> HIDE DEF n
<1>2. t \in [1 .. n -> S] /\ \A j \in 1 .. n : t[j] = IF j = i THEN x ELSE s[j] BY <1>1
<1>3. t \in Seq(S) /\ Len(t) = n BY <1>1, <1>2
<1> QED BY <1>2, <1>3 DEF n

LEMMA FirstAreLeast ==
  ASSUME NEW S \in SUBSET Catalogue, NEW n \in Nat, n > 0
  PROVE  /\ First(S, n) \subseteq S /\ (S # {} => First(S, n) # {})
         /\ \A s, t \in First(S, 1) : s = t
<1>1. S \in SUBSET Int /\ IsFiniteSet(S)
  <2>1. Catalogue \subseteq Nat /\ IsFiniteSet(Catalogue) BY MetricsAreRanked
  <2>2. S \in SUBSET Int BY <2>1
  <2>3. IsFiniteSet(S) BY <2>1, FS_Subset
  <2> QED BY <2>2, <2>3
<1>2. First(S, n) \subseteq S BY DEF First
<1>3. ASSUME S # {} PROVE First(S, n) # {}
  <2>1. PICK s \in S : \A y \in S : s <= y BY <1>1, <1>3, MinIsLeast
  <2>2. \A t \in S : ~(t < s)
    <3> TAKE t \in S
    <3>1. s \in Int /\ t \in Int /\ s <= t BY <1>1, <2>1
    <3> QED BY <3>1
  <2>3. {t \in S : t < s} = {} BY <2>2
  <2>4. Cardinality({t \in S : t < s}) = 0 BY <2>3, FS_EmptySet
  <2> QED BY <2>4 DEF First
<1>4. ASSUME NEW s \in First(S, 1), NEW t \in First(S, 1), s < t PROVE FALSE
  <2> DEFINE L == {u \in S : u < t}
  <2>1. s \in L /\ Cardinality(L) < 1 BY <1>4 DEF First
  <2>2. L \in SUBSET S OBVIOUS
  <2> HIDE DEF L
  <2>3. IsFiniteSet(L) BY <1>1, <2>2, FS_Subset
  <2>4. Cardinality(L) \in Nat BY <2>3, FS_CardinalityType
  <2>5. Cardinality(L) = 0 BY <2>1, <2>4
  <2> QED BY <2>1, <2>3, <2>5, FS_EmptySet
<1>5. ASSUME NEW s \in First(S, 1), NEW t \in First(S, 1) PROVE s = t
  <2>1. s \in Int /\ t \in Int BY <1>1 DEF First
  <2> QED BY <1>4, <2>1
<1> QED BY <1>2, <1>3, <1>5

\* One more row, of a symbol that had none.
LEMMA JudgedGrow ==
  ASSUME NEW rows \in Judged, NEW s \in Catalogue, s \notin SymbolsOf(rows), NEW reason \in Reasons
  PROVE  /\ rows \cup {OutcomeRow(s, reason)} \in Judged
         /\ SymbolsOf(rows \cup {OutcomeRow(s, reason)}) = SymbolsOf(rows) \cup {s}
<1> DEFINE new == OutcomeRow(s, reason)
<1>1. reason # "RANKED_OUT" BY MetricsAreRanked DEF Reasons
<1>2. /\ DOMAIN new = {"symbol", "rejection", "rank"} /\ new.rank = 0 /\ new.symbol = s /\ new.rejection # "RANKED_OUT"
      /\ new \in FreshRows
  BY <1>1 DEF OutcomeRow, FreshRows
<1> HIDE DEF new
<1>3. IsFiniteSet(rows \cup {new})
  <2>1. IsFiniteSet(rows) BY DEF Judged, AreJudged
  <2> QED BY <2>1, FS_AddElement
<1>4. AreJudged(rows) /\ rows \subseteq FreshRows BY DEF Judged
<1>5. AreJudged(rows \cup {new}) BY <1>2, <1>3, <1>4 DEF AreJudged, SymbolsOf
<1>6. SymbolsOf(rows \cup {new}) = SymbolsOf(rows) \cup {s} BY <1>2 DEF SymbolsOf
<1> QED BY <1>2, <1>4, <1>5, <1>6 DEF Judged, new

\* Only the thread moves, within its run.
LEMMA JobMoves ==
  ASSUME ScreenerInv, UNCHANGED <<serving, screens, outcomes, waiting, profile, universes>>,
         JobFits(job', waiting, screens, outcomes), job'.at # "idle" => job.at # "idle" /\ job'.run = job.run
  PROVE  ScreenerInv'
<1>1. StopsClean(serving, job', waiting, screens) BY DEF ScreenerInv, StopsClean
<1> QED BY <1>1 DEF ScreenerInv, TablesFit

LEMMA ReadBatchStep ==
  ASSUME ScreenerInv, NEW failed, ReadBatch(failed)
  PROVE  ScreenerInv'
<1> DEFINE batch == First(job.todo, ScreenBatch)
           store == [job EXCEPT !.at = "store"]
           score == [job EXCEPT !.at = "score", !.batch = batch, !.failed = failed, !.todo = job.todo \ batch]
<1>1. /\ UNCHANGED <<serving, screens, outcomes, waiting, profile, universes>> /\ job.at = "read"
      /\ \/ (batch = {} \/ ~serving) /\ job' = store
         \/ job' = score
  BY DEF ReadBatch, Cancelled
<1>2. JobFits(job, waiting, screens, outcomes) /\ StopsClean(serving, job, waiting, screens) BY DEF ScreenerInv
<1>3. DOMAIN job = {"at", "run", "todo", "batch", "failed", "rows"} BY <1>2 DEF JobFits
<1>4. job.todo \in SUBSET Catalogue BY <1>1, <1>2 DEF JobFits
<1>5. batch \subseteq job.todo /\ (job.todo # {} => batch # {}) BY <1>4, ScreenerBounds, FirstAreLeast
<1>6. /\ DOMAIN store = DOMAIN job /\ store.at = "store" /\ store.run = job.run /\ store.todo = job.todo
      /\ store.batch = job.batch /\ store.rows = job.rows
      /\ DOMAIN score = DOMAIN job /\ score.at = "score" /\ score.run = job.run /\ score.todo = job.todo \ batch
      /\ score.batch = batch /\ score.rows = job.rows
  BY <1>3
<1> HIDE DEF batch, store, score
<1>7. JobFits(score, waiting, screens, outcomes) BY <1>1, <1>2, <1>5, <1>6 DEF JobFits
<1>8. ASSUME batch = {} \/ ~serving PROVE JobFits(store, waiting, screens, outcomes)
  <2>1. batch = {} => job.todo = {} BY <1>5
  <2>2. ~serving => screens[job.run].cut BY <1>1, <1>2 DEF StopsClean
  <2> QED BY <1>1, <1>2, <1>6, <1>8, <2>1, <2>2 DEF JobFits
<1>9. JobFits(job', waiting, screens, outcomes) /\ job'.run = job.run BY <1>1, <1>6, <1>7, <1>8
<1> QED BY <1>1, <1>9, JobMoves

LEMMA EvaluateStep == ScreenerInv /\ EvaluateSymbol => ScreenerInv'
<1> SUFFICES ASSUME ScreenerInv, EvaluateSymbol PROVE ScreenerInv' OBVIOUS
<1> DEFINE next == First(job.batch, 1)
           back == [job EXCEPT !.at = "read", !.batch = {}]
<1>1. /\ UNCHANGED <<serving, screens, outcomes, waiting, profile, universes>> /\ job.at = "score" BY DEF EvaluateSymbol
<1>2. JobFits(job, waiting, screens, outcomes) /\ StopsClean(serving, job, waiting, screens) BY DEF ScreenerInv
<1>3. DOMAIN job = {"at", "run", "todo", "batch", "failed", "rows"} BY <1>2 DEF JobFits
<1>4. job.batch \in SUBSET Catalogue BY <1>1, <1>2 DEF JobFits
<1>5. next \subseteq job.batch /\ (job.batch # {} => next # {}) /\ \A s, t \in next : s = t BY <1>4, FirstAreLeast
<1>6. CASE next = {} \/ ~serving
  <2>1. job' = back BY <1>6 DEF EvaluateSymbol, Cancelled
  <2>2. /\ DOMAIN back = DOMAIN job /\ back.at = "read" /\ back.run = job.run /\ back.todo = job.todo
        /\ back.batch = {} /\ back.rows = job.rows
    BY <1>3
  <2> HIDE DEF back, next
  <2>3. next = {} => job.batch = {} BY <1>5
  <2>4. ~serving => screens[job.run].cut BY <1>1, <1>2 DEF StopsClean
  <2>5. screens[job.run].cut \/ SymbolsOf(back.rows) \cup back.todo \cup back.batch = screens[job.run].symbols
    BY <1>1, <1>2, <1>6, <2>2, <2>3, <2>4 DEF JobFits
  <2>6. JobFits(back, waiting, screens, outcomes) BY <1>1, <1>2, <2>2, <2>5 DEF JobFits
  <2> QED BY <1>1, <2>1, <2>2, <2>6, JobMoves
<1>7. CASE ~(next = {} \/ ~serving)
  <2>1. PICK s : s = CHOOSE x \in next : TRUE OBVIOUS
  <2>2. s \in next BY <1>7, <2>1
  <2>3. next = {s} BY <1>5, <2>2
  <2> DEFINE reason == IF s \in job.failed THEN "CANDLE_DATA_UNAVAILABLE" ELSE Metrics[s].rejection
             on == [job EXCEPT !.batch = job.batch \ next, !.rows = job.rows \cup {OutcomeRow(s, reason)}]
  <2>4. job' = on BY <1>7, <2>1 DEF EvaluateSymbol, Cancelled
  <2>5. s \in job.batch /\ s \in Catalogue BY <1>4, <1>5, <2>2
  <2>6. reason \in Reasons BY <2>5 DEF Reasons
  <2> HIDE DEF reason, next
  <2>7. /\ DOMAIN on = DOMAIN job /\ on.at = "score" /\ on.run = job.run /\ on.todo = job.todo
        /\ on.batch = job.batch \ {s} /\ on.rows = job.rows \cup {OutcomeRow(s, reason)}
    BY <1>1, <1>3, <2>3
  <2> HIDE DEF on
  <2>8. job.rows \in Judged /\ s \notin SymbolsOf(job.rows) /\ s \notin job.todo BY <1>1, <1>2, <2>5 DEF JobFits
  <2>9. on.rows \in Judged /\ SymbolsOf(on.rows) = SymbolsOf(job.rows) \cup {s} BY <2>5, <2>6, <2>7, <2>8, JudgedGrow
  <2>11. /\ job.todo \cap job.batch = {} /\ SymbolsOf(job.rows) \cap (job.todo \cup job.batch) = {}
         /\ job.todo \subseteq Catalogue /\ job.batch \subseteq Catalogue
    BY <1>1, <1>2 DEF JobFits
  <2>12. /\ on.todo \cap on.batch = {} /\ SymbolsOf(on.rows) \cap (on.todo \cup on.batch) = {}
         /\ SymbolsOf(on.rows) \cup on.todo \cup on.batch = SymbolsOf(job.rows) \cup job.todo \cup job.batch
         /\ on.todo \subseteq Catalogue /\ on.batch \subseteq Catalogue
    BY <2>5, <2>7, <2>8, <2>9, <2>11
  <2>13. JobFits(on, waiting, screens, outcomes) BY <1>1, <1>2, <2>7, <2>9, <2>12 DEF JobFits
  <2> QED BY <1>1, <2>4, <2>7, <2>13, JobMoves
<1> QED BY <1>6, <1>7

LEMMA TakeScreenStep == ScreenerInv /\ TakeScreen => ScreenerInv'
<1> SUFFICES ASSUME ScreenerInv, TakeScreen PROVE ScreenerInv' OBVIOUS
<1> DEFINE run == Head(waiting)
           t == [NoJob EXCEPT !.at = "read", !.run = run, !.todo = screens[run].symbols]
           k == Len(waiting)
<1>1. /\ UNCHANGED <<serving, screens, outcomes, profile, universes>> /\ waiting # <<>>
      /\ job' = t /\ waiting' = Tail(waiting)
  BY DEF TakeScreen
<1>2. QueueFits(waiting, screens) /\ TablesFit BY DEF ScreenerInv
<1>3. waiting \in Seq(Nat) /\ k \in Nat /\ k > 0 /\ run = waiting[1] BY <1>1, <1>2 DEF QueueFits
<1>4. waiting' \in Seq(Nat) /\ Len(waiting') = k - 1 /\ \A i \in 1 .. k - 1 : waiting'[i] = waiting[i + 1] BY <1>1, <1>3
<1>5. \A i \in 1 .. k - 1 : i + 1 \in 1 .. k /\ i + 1 # 1 BY <1>3
<1>6. 1 \in 1 .. k BY <1>3
<1>7. /\ \A i \in 1 .. k : waiting[i] \in 1 .. Len(screens) /\ screens[waiting[i]].status = "RUNNING"
      /\ \A i, j \in 1 .. k : waiting[i] = waiting[j] => i = j
  BY <1>2 DEF QueueFits
<1> HIDE DEF k
<1>8. \A i, j \in 1 .. k - 1 : waiting'[i] = waiting'[j] => i = j
  <2> TAKE i, j \in 1 .. k - 1
  <2>1. waiting'[i] = waiting'[j] => i + 1 = j + 1 BY <1>4, <1>5, <1>7
  <2>2. i \in Int /\ j \in Int OBVIOUS
  <2> QED BY <2>1, <2>2
<1>9. QueueFits(waiting', screens) BY <1>4, <1>5, <1>7, <1>8 DEF QueueFits
<1>10. run \in 1 .. Len(screens) /\ screens[run].status = "RUNNING" /\ \A i \in 1 .. k - 1 : waiting'[i] # run
  BY <1>3, <1>4, <1>5, <1>6, <1>7
<1>11. /\ DOMAIN t = {"at", "run", "todo", "batch", "failed", "rows"} /\ t.at = "read" /\ t.run = run
       /\ t.todo = screens[run].symbols /\ t.batch = {} /\ t.rows = {}
  BY NoJobFits
<1>12. screens[run].symbols \subseteq Catalogue
  <2>1. screens[run] \in ScreenRows BY <1>2, <1>10 DEF TablesFit
  <2> QED BY <2>1 DEF ScreenRows
<1> HIDE DEF t, run
<1>13. JobFits(t, waiting', screens, outcomes) BY <1>4, <1>10, <1>11, <1>12, NoJobFits DEF JobFits, SymbolsOf
<1>14. serving = TRUE BY <1>1 DEF ScreenerInv, StopsClean, TablesFit
<1>15. StopsClean(serving, t, waiting', screens) BY <1>14 DEF StopsClean
<1> QED BY <1>1, <1>9, <1>13, <1>15 DEF ScreenerInv, TablesFit

LEMMA StoreOutcomeStep == ScreenerInv /\ StoreOutcome => ScreenerInv'
<1> SUFFICES ASSUME ScreenerInv, StoreOutcome PROVE ScreenerInv' OBVIOUS
<1> DEFINE out == RankSymbols(job.rows, screens[job.run].limit)
           t == [job EXCEPT !.at = "finish"]
<1>1. /\ UNCHANGED <<serving, screens, waiting, profile, universes>> /\ job.at = "store"
      /\ outcomes' = [outcomes EXCEPT ![job.run] = out] /\ job' = t
  BY DEF StoreOutcome
<1>2. JobFits(job, waiting, screens, outcomes) /\ TablesFit BY DEF ScreenerInv
<1>3. /\ job.run \in 1 .. Len(screens) /\ screens[job.run].status = "RUNNING" /\ job.rows \in Judged
      /\ DOMAIN job = {"at", "run", "todo", "batch", "failed", "rows"}
      /\ \A i \in 1 .. Len(waiting) : waiting[i] # job.run
      /\ screens[job.run].cut \/ SymbolsOf(job.rows) = screens[job.run].symbols
  BY <1>1, <1>2 DEF JobFits
<1>4. screens[job.run].limit \in Nat
  <2>1. screens[job.run] \in ScreenRows BY <1>2, <1>3 DEF TablesFit
  <2> QED BY <2>1, ScreenerBounds DEF ScreenRows
<1>5. out \in Outcomes BY <1>3, <1>4 DEF Outcomes
<1>6. SymbolsOf(out) = SymbolsOf(job.rows)
  <2>1. AreJudged(job.rows) BY <1>3 DEF Judged
  <2>2. out = {Given(job.rows, screens[job.run].limit, r) : r \in job.rows} BY DEF RankSymbols, Given
  <2>3. \A r \in job.rows : Given(job.rows, screens[job.run].limit, r).symbol = r.symbol BY <1>4, <2>1, GivenRanks
  <2> HIDE DEF out
  <2> QED BY <2>2, <2>3 DEF SymbolsOf
<1>7. DOMAIN t = DOMAIN job /\ t.at = "finish" /\ t.run = job.run BY <1>3
<1> HIDE DEF out, t
<1>8. /\ outcomes' \in Seq(Outcomes) /\ Len(outcomes') = Len(outcomes)
      /\ \A i \in 1 .. Len(screens) : outcomes'[i] = IF i = job.run THEN out ELSE outcomes[i]
  <2>1. outcomes \in Seq(Outcomes) /\ job.run \in 1 .. Len(outcomes) /\ Len(outcomes) = Len(screens) BY <1>2, <1>3 DEF TablesFit
  <2> QED BY <1>1, <1>5, <2>1, RowReplaced
<1>9. TablesFit' BY <1>1, <1>2, <1>8 DEF TablesFit
<1>10. JobFits(t, waiting, screens, outcomes')
  <2>1. outcomes'[job.run] = out BY <1>3, <1>8
  <2> QED BY <1>3, <1>6, <1>7, <2>1 DEF JobFits
<1>11. SavedFit(universes, screens, outcomes') BY <1>3, <1>8 DEF ScreenerInv, SavedFit
<1>12. AreWhole(screens, outcomes') BY <1>3, <1>8 DEF ScreenerInv, AreWhole
<1>13. StopsClean(serving, t, waiting, screens) BY <1>1, <1>7 DEF ScreenerInv, StopsClean
<1> QED BY <1>1, <1>9, <1>10, <1>11, <1>12, <1>13 DEF ScreenerInv

\* Rows of runs that stay what they are when they are complete, the thread being idle.
LEMMA ScreensMove ==
  ASSUME ScreenerInv, screens' \in Seq(ScreenRows), Len(screens') = Len(screens),
         \A i \in 1 .. Len(screens) : screens[i].status = "COMPLETE" => screens'[i].status = "COMPLETE",
         UNCHANGED <<outcomes, profile, universes>>, serving' \in BOOLEAN,
         AreWhole(screens', outcomes), QueueFits(waiting', screens'), JobFits(job', waiting', screens', outcomes),
         StopsClean(serving', job', waiting', screens')
  PROVE  ScreenerInv'
<1>1. SavedFit(universes, screens, outcomes) /\ TablesFit BY DEF ScreenerInv
<1>2. ASSUME NEW i \in 1 .. Len(universes), universes[i].run > 0
      PROVE  /\ universes[i].run \in 1 .. Len(screens') /\ screens'[universes[i].run].status = "COMPLETE"
             /\ HoldsBest(universes[i], outcomes[universes[i].run])
  <2>1. /\ universes[i].run \in 1 .. Len(screens) /\ screens[universes[i].run].status = "COMPLETE"
        /\ HoldsBest(universes[i], outcomes[universes[i].run])
    BY <1>1, <1>2 DEF SavedFit
  <2> QED BY <2>1
<1>3. SavedFit(universes, screens', outcomes) BY <1>2 DEF SavedFit
<1>4. TablesFit' BY <1>1 DEF TablesFit
<1>5. SavedFit(universes', screens', outcomes') /\ AreWhole(screens', outcomes') /\ JobFits(job', waiting', screens', outcomes')
  BY <1>3
<1> QED BY <1>4, <1>5 DEF ScreenerInv

LEMMA FinishScreenStep ==
  ASSUME ScreenerInv, NEW status \in {"COMPLETE", "FAILED"}, FinishScreen(status)
  PROVE  ScreenerInv'
<1>1. /\ UNCHANGED <<serving, outcomes, waiting, profile, universes>> /\ job' = NoJob
      /\ screens' = [screens EXCEPT ![job.run].status = status]
      /\ job.at \in {"read", "store", "finish"} /\ (status = "COMPLETE" => job.at = "finish")
  BY DEF FinishScreen
<1>2. JobFits(job, waiting, screens, outcomes) /\ QueueFits(waiting, screens) /\ AreWhole(screens, outcomes)
      /\ screens \in Seq(ScreenRows) /\ serving \in BOOLEAN /\ StopsClean(serving, job, waiting, screens)
  BY DEF ScreenerInv, TablesFit
<1>3. /\ job.run \in 1 .. Len(screens) /\ screens[job.run].status = "RUNNING"
      /\ \A i \in 1 .. Len(waiting) : waiting[i] # job.run
      /\ job.at = "finish" => screens[job.run].cut \/ SymbolsOf(outcomes[job.run]) = screens[job.run].symbols
  BY <1>1, <1>2 DEF JobFits
<1> DEFINE row == [screens[job.run] EXCEPT !.status = status]
<1>4. /\ row \in ScreenRows /\ row.status = status /\ row.cut = screens[job.run].cut /\ row.symbols = screens[job.run].symbols
  <2>1. screens[job.run] \in ScreenRows BY <1>2, <1>3
  <2> QED BY <2>1 DEF ScreenRows
<1>5. screens' = [screens EXCEPT ![job.run] = row] BY <1>1
<1> HIDE DEF row
<1>6. /\ screens' \in Seq(ScreenRows) /\ Len(screens') = Len(screens)
      /\ \A i \in 1 .. Len(screens) : screens'[i] = IF i = job.run THEN row ELSE screens[i]
  BY <1>2, <1>3, <1>4, <1>5, RowReplaced
<1>7. \A i \in 1 .. Len(screens) : screens[i].status = "COMPLETE" => screens'[i].status = "COMPLETE" BY <1>3, <1>6
<1>8. AreWhole(screens', outcomes)
  <2> SUFFICES ASSUME NEW i \in 1 .. Len(screens), screens'[i].status = "COMPLETE", ~screens'[i].cut
               PROVE  SymbolsOf(outcomes[i]) = screens'[i].symbols
    BY <1>6 DEF AreWhole
  <2>1. CASE i = job.run BY <1>1, <1>3, <1>4, <1>6, <2>1
  <2>2. CASE i # job.run BY <1>2, <1>6, <2>2 DEF AreWhole
  <2> QED BY <2>1, <2>2
<1>9. QueueFits(waiting', screens') BY <1>1, <1>2, <1>3, <1>6 DEF QueueFits
<1>10. JobFits(job', waiting', screens', outcomes) BY <1>1, NoJobFits
<1>11. StopsClean(serving', job', waiting', screens') BY <1>1, <1>2, NoJobFits DEF StopsClean
<1>12. UNCHANGED <<outcomes, profile, universes>> /\ serving' \in BOOLEAN BY <1>1, <1>2
<1>13. screens' \in Seq(ScreenRows) /\ Len(screens') = Len(screens) BY <1>6
<1> QED BY <1>7, <1>8, <1>9, <1>10, <1>11, <1>12, <1>13, ScreensMove

LEMMA ScreenerStops == ScreenerInv /\ (ScreenLost \/ ShutDown \/ Die \/ StartScreener) => ScreenerInv'
<1> SUFFICES ASSUME ScreenerInv, ScreenLost \/ ShutDown \/ Die \/ StartScreener PROVE ScreenerInv' OBVIOUS
<1>1. /\ JobFits(job, waiting, screens, outcomes) /\ QueueFits(waiting, screens) /\ AreWhole(screens, outcomes)
      /\ screens \in Seq(ScreenRows) /\ serving \in BOOLEAN /\ StopsClean(serving, job, waiting, screens)
  BY DEF ScreenerInv, TablesFit
<1>2. Len(screens) \in Nat /\ DOMAIN screens = 1 .. Len(screens) BY <1>1
<1>3. \A i \in 1 .. Len(screens) : screens[i] \in ScreenRows BY <1>1
<1>4. \A rows : QueueFits(<<>>, rows) BY DEF QueueFits
<1>5. CASE ScreenLost
  <2>1. UNCHANGED <<serving, screens, outcomes, waiting, profile, universes>> /\ job' = NoJob BY <1>5 DEF ScreenLost
  <2> QED BY <2>1, NoJobFits, JobMoves
<1>6. CASE Die
  <2>1. UNCHANGED <<screens, outcomes, profile, universes>> /\ job' = NoJob /\ waiting' = <<>> /\ serving' = FALSE
    BY <1>6 DEF Die
  <2>2. StopsClean(serving', job', waiting', screens') BY <2>1, NoJobFits DEF StopsClean
  <2>3. QueueFits(waiting', screens') /\ JobFits(job', waiting', screens', outcomes) BY <1>4, <2>1, NoJobFits
  <2>4. /\ screens' \in Seq(ScreenRows) /\ Len(screens') = Len(screens) /\ AreWhole(screens', outcomes)
        /\ \A i \in 1 .. Len(screens) : screens[i].status = "COMPLETE" => screens'[i].status = "COMPLETE"
    BY <1>1, <2>1
  <2>5. UNCHANGED <<outcomes, profile, universes>> /\ serving' \in BOOLEAN BY <2>1
  <2> QED BY <2>2, <2>3, <2>4, <2>5, ScreensMove
<1>7. CASE ShutDown
  <2> DEFINE Cut(i) == screens[i].cut \/ (job.at # "idle" /\ job.run = i)
  <2>1. /\ UNCHANGED <<outcomes, job, profile, universes>> /\ serving' = FALSE /\ waiting' = <<>>
        /\ screens' = [i \in 1 .. Len(screens) |-> [screens[i] EXCEPT !.cut = Cut(i)]]
    BY <1>2, <1>7 DEF ShutDown
  <2>2. ASSUME NEW i \in 1 .. Len(screens)
        PROVE  /\ [screens[i] EXCEPT !.cut = Cut(i)] \in ScreenRows
               /\ [screens[i] EXCEPT !.cut = Cut(i)].cut = Cut(i)
               /\ [screens[i] EXCEPT !.cut = Cut(i)].status = screens[i].status
               /\ [screens[i] EXCEPT !.cut = Cut(i)].symbols = screens[i].symbols
    <3>1. screens[i] \in ScreenRows BY <1>3
    <3>2. Cut(i) \in BOOLEAN BY <3>1 DEF ScreenRows
    <3> HIDE DEF Cut
    <3> QED BY <3>1, <3>2 DEF ScreenRows
  <2>3. /\ screens' \in Seq(ScreenRows) /\ Len(screens') = Len(screens)
        /\ \A i \in 1 .. Len(screens) : /\ screens'[i].cut = Cut(i) /\ screens'[i].status = screens[i].status
                                        /\ screens'[i].symbols = screens[i].symbols
    <3> HIDE DEF Cut
    <3>1. screens' \in [1 .. Len(screens) -> ScreenRows] BY <2>1, <2>2
    <3>2. screens' \in Seq(ScreenRows) /\ Len(screens') = Len(screens) BY <1>2, <3>1
    <3> QED BY <2>1, <2>2, <3>2
  <2>4. AreWhole(screens', outcomes) BY <1>1, <2>3 DEF AreWhole
  <2>5. JobFits(job, waiting', screens', outcomes)
    <3>1. job.at # "idle" => job.run \in 1 .. Len(screens) BY <1>1 DEF JobFits
    <3>2. screens[job.run].cut => Cut(job.run) OBVIOUS
    <3> HIDE DEF Cut
    <3>3. job.at # "idle" => /\ job.run \in 1 .. Len(screens') /\ screens'[job.run].status = screens[job.run].status
                             /\ screens'[job.run].symbols = screens[job.run].symbols
                             /\ screens[job.run].cut => screens'[job.run].cut
      BY <2>3, <3>1, <3>2
    <3>4. \A i \in 1 .. Len(waiting') : FALSE BY <2>1
    <3> QED BY <1>1, <3>3, <3>4 DEF JobFits
  <2>6. StopsClean(FALSE, job, waiting', screens')
    <3>1. job.at # "idle" => job.run \in 1 .. Len(screens) BY <1>1 DEF JobFits
    <3>2. job.at # "idle" => Cut(job.run) = TRUE BY <1>1, <1>3, <3>1 DEF ScreenRows
    <3> HIDE DEF Cut
    <3> QED BY <2>1, <2>3, <3>1, <3>2 DEF StopsClean
  <2> HIDE DEF Cut
  <2>7. QueueFits(waiting', screens') /\ JobFits(job', waiting', screens', outcomes) BY <1>4, <2>1, <2>5
  <2>8. /\ screens' \in Seq(ScreenRows) /\ Len(screens') = Len(screens)
        /\ \A i \in 1 .. Len(screens) : screens[i].status = "COMPLETE" => screens'[i].status = "COMPLETE"
    BY <2>3
  <2>9. UNCHANGED <<outcomes, profile, universes>> /\ serving' \in BOOLEAN BY <2>1
  <2>10. StopsClean(serving', job', waiting', screens') BY <2>1, <2>6
  <2> QED BY <2>4, <2>7, <2>8, <2>9, <2>10, ScreensMove
<1>8. CASE StartScreener
  <2> DEFINE Row(i) == IF screens[i].status = "RUNNING" THEN [screens[i] EXCEPT !.status = "FAILED"] ELSE screens[i]
  <2>1. /\ UNCHANGED <<outcomes, waiting, job, profile, universes>> /\ serving = FALSE /\ serving' = TRUE /\ job.at = "idle"
        /\ screens' = [i \in 1 .. Len(screens) |-> Row(i)]
    BY <1>1, <1>2, <1>8 DEF StartScreener
  <2>2. ASSUME NEW i \in 1 .. Len(screens)
        PROVE  /\ Row(i) \in ScreenRows /\ Row(i).cut = screens[i].cut /\ Row(i).symbols = screens[i].symbols
               /\ Row(i).status = "COMPLETE" <=> screens[i].status = "COMPLETE"
    <3>1. screens[i] \in ScreenRows BY <1>3
    <3> QED BY <3>1 DEF ScreenRows
  <2> HIDE DEF Row
  <2>3. /\ screens' \in Seq(ScreenRows) /\ Len(screens') = Len(screens)
        /\ \A i \in 1 .. Len(screens) : screens'[i] = Row(i)
    <3>1. screens' \in [1 .. Len(screens) -> ScreenRows] BY <2>1, <2>2
    <3> QED BY <1>2, <2>1, <3>1
  <2>4. AreWhole(screens', outcomes) BY <1>1, <2>2, <2>3 DEF AreWhole
  <2>5. waiting' = <<>> BY <1>1, <2>1 DEF StopsClean
  <2>6. JobFits(job, waiting', screens', outcomes) BY <1>1, <2>1 DEF JobFits
  <2>7. StopsClean(TRUE, job, waiting', screens') BY DEF StopsClean
  <2>8. QueueFits(waiting', screens') /\ JobFits(job', waiting', screens', outcomes) BY <1>4, <2>1, <2>5, <2>6
  <2>9. /\ screens' \in Seq(ScreenRows) /\ Len(screens') = Len(screens)
        /\ \A i \in 1 .. Len(screens) : screens[i].status = "COMPLETE" => screens'[i].status = "COMPLETE"
    BY <2>2, <2>3
  <2>10. UNCHANGED <<outcomes, profile, universes>> /\ serving' \in BOOLEAN BY <2>1
  <2>11. StopsClean(serving', job', waiting', screens') BY <2>1, <2>7
  <2> QED BY <2>4, <2>8, <2>9, <2>10, <2>11, ScreensMove
<1> QED BY <1>5, <1>6, <1>7, <1>8

\* Only the watchlists change, one being added or marked.
LEMMA SavedMove ==
  ASSUME ScreenerInv, UNCHANGED <<serving, screens, outcomes, waiting, job, profile>>,
         universes' \in Seq(Universes), SavedFit(universes', screens, outcomes)
  PROVE  ScreenerInv'
BY DEF ScreenerInv, TablesFit

LEMMA MarkedRows ==
  ASSUME ScreenerInv, NEW marked, DOMAIN marked = 1 .. Len(universes),
         \A i \in 1 .. Len(universes) : \E b \in BOOLEAN : marked[i] = [universes[i] EXCEPT !.active = b],
         marked = [i \in 1 .. Len(universes) |-> marked[i]]
  PROVE  marked \in Seq(Universes) /\ Len(marked) = Len(universes) /\ SavedFit(marked, screens, outcomes)
<1>1. universes \in Seq(Universes) /\ SavedFit(universes, screens, outcomes) BY DEF ScreenerInv, TablesFit
<1>2. ASSUME NEW i \in 1 .. Len(universes)
      PROVE  /\ marked[i] \in Universes /\ marked[i].run = universes[i].run /\ marked[i].symbols = universes[i].symbols
             /\ marked[i].includes = universes[i].includes /\ marked[i].excludes = universes[i].excludes
  <2>1. universes[i] \in Universes BY <1>1
  <2>2. PICK b \in BOOLEAN : marked[i] = [universes[i] EXCEPT !.active = b] OBVIOUS
  <2> QED BY <2>1, <2>2 DEF Universes
<1>3. marked \in Seq(Universes) /\ Len(marked) = Len(universes)
  <2>1. Len(universes) \in Nat BY <1>1
  <2>2. marked \in [1 .. Len(universes) -> Universes] BY <1>2
  <2> QED BY <2>1, <2>2
<1>4. SavedFit(marked, screens, outcomes) BY <1>1, <1>2, <1>3 DEF SavedFit, HoldsBest
<1> QED BY <1>3, <1>4

LEMMA StoreUniverseSteps ==
  ASSUME ScreenerInv, UNCHANGED <<serving, screens, outcomes, waiting, job, profile>>,
         NEW row \in Universes, NEW activate \in BOOLEAN, StoreUniverse(row, activate),
         row.run > 0 => /\ row.run \in 1 .. Len(screens) /\ screens[row.run].status = "COMPLETE"
                        /\ HoldsBest(row, outcomes[row.run])
  PROVE  ScreenerInv'
<1> DEFINE new == [row EXCEPT !.active = activate]
           n == Len(universes)
<1>1. universes \in Seq(Universes) /\ n \in Nat /\ DOMAIN universes = 1 .. n /\ SavedFit(universes, screens, outcomes)
  BY DEF ScreenerInv, TablesFit
<1>2. \E marked \in Seq(Universes) :
        universes' = Append(marked, new) /\ Len(marked) = n /\ SavedFit(marked, screens, outcomes)
  <2>1. CASE activate = FALSE
    <3>1. universes' = Append(universes, new) BY <2>1 DEF StoreUniverse
    <3> QED BY <1>1, <3>1
  <2>2. CASE activate = TRUE
    <3> DEFINE marked == [i \in 1 .. n |-> [universes[i] EXCEPT !.active = FALSE]]
    <3>1. universes' = Append(marked, new) BY <1>1, <2>2 DEF StoreUniverse
    <3>2. /\ DOMAIN marked = 1 .. n /\ marked = [i \in 1 .. n |-> marked[i]]
          /\ \A i \in 1 .. n : marked[i] = [universes[i] EXCEPT !.active = FALSE]
      OBVIOUS
    <3> HIDE DEF marked
    <3>3. marked \in Seq(Universes) /\ Len(marked) = Len(universes) /\ SavedFit(marked, screens, outcomes) BY <3>2, MarkedRows
    <3> QED BY <3>1, <3>3
  <2> QED BY <2>1, <2>2
<1>3. PICK marked \in Seq(Universes) :
        universes' = Append(marked, new) /\ Len(marked) = n /\ SavedFit(marked, screens, outcomes)
  BY <1>2
<1>4. /\ new \in Universes /\ new.run = row.run /\ new.symbols = row.symbols
      /\ new.includes = row.includes /\ new.excludes = row.excludes
  BY DEF Universes
<1> HIDE DEF new, n
<1>5. /\ universes' \in Seq(Universes) /\ Len(universes') = n + 1 /\ universes'[n + 1] = new
      /\ \A i \in 1 .. n : universes'[i] = marked[i]
  BY <1>1, <1>3, <1>4
<1>6. \A i \in 1 .. n + 1 : i \in 1 .. n \/ i = n + 1 BY <1>1
<1>7. new.run > 0 => HoldsBest(new, outcomes[new.run]) BY <1>4 DEF HoldsBest
<1>8. SavedFit(universes', screens, outcomes) BY <1>3, <1>4, <1>5, <1>6, <1>7 DEF SavedFit
<1> QED BY <1>5, <1>8, SavedMove

LEMMA SaveUniverseStep ==
  ASSUME ScreenerInv, NEW run \in DOMAIN screens, NEW maximum \in Limits, NEW includes \in Sources, NEW excludes \in Sources,
         NEW activate \in BOOLEAN, SaveUniverse(run, maximum, includes, excludes, activate)
  PROVE  ScreenerInv'
<1> DEFINE symbols == Selected(RowsByRank(run), maximum, includes, excludes)
           out == outcomes[run]
           passed == PassedOf(out)
           row == [run |-> run, symbols |-> symbols, includes |-> includes, excludes |-> excludes, active |-> FALSE]
<1>1. /\ screens[run].status = "COMPLETE" /\ StoreUniverse(row, activate)
      /\ UNCHANGED <<serving, screens, outcomes, waiting, job, profile>>
  BY DEF SaveUniverse
<1>2. screens \in Seq(ScreenRows) /\ outcomes \in Seq(Outcomes) /\ Len(outcomes) = Len(screens) BY DEF ScreenerInv, TablesFit
<1>3. run \in 1 .. Len(screens) /\ run \in Nat /\ run > 0 /\ out \in Outcomes BY <1>2
<1>4. PICK rows \in Judged, limit \in Nat : out = RankSymbols(rows, limit) BY <1>3 DEF Outcomes
<1>5. AreJudged(rows) BY DEF Judged
<1>6. maximum \in Nat /\ includes \in SUBSET Catalogue /\ excludes \in SUBSET Catalogue BY ScreenerBounds
<1>7. RowsByRank(run) = ListedOf(out) BY DEF RowsByRank, ListedOf, Passing
<1>8. symbols = Selected(ListedOf(out), maximum, includes, excludes) BY <1>7
<1>9. passed = PassedOf(out) OBVIOUS
<1> HIDE DEF symbols, out, passed
<1>10. /\ symbols \subseteq passed \cup includes
      /\ \A s \in symbols \ includes, t \in passed \ (symbols \cup excludes) : Better(s, t)
  BY <1>4, <1>5, <1>6, <1>8, <1>9, BestAreSelected
<1>11. passed \subseteq Catalogue
  <2>1. out = {Given(rows, limit, r) : r \in rows} BY <1>4 DEF RankSymbols, Given
  <2>2. \A r \in rows : Given(rows, limit, r).symbol \in Catalogue BY <1>5, GivenRanks DEF AreJudged
  <2> QED BY <1>9, <2>1, <2>2 DEF PassedOf
<1>12. symbols \in SUBSET Catalogue BY <1>6, <1>10, <1>11
<1>13. /\ row \in Universes /\ row.run = run /\ row.symbols = symbols /\ row.includes = includes /\ row.excludes = excludes
  BY <1>3, <1>6, <1>12 DEF Universes
<1> HIDE DEF row
<1>14. HoldsBest(row, out) BY <1>10, <1>13 DEF HoldsBest, passed
<1>15. HoldsBest(row, outcomes[row.run]) BY <1>13, <1>14 DEF out
<1> QED BY <1>1, <1>3, <1>13, <1>15, StoreUniverseSteps

LEMMA ImportStep ==
  ASSUME ScreenerInv, NEW named \in Sources, NEW activate \in BOOLEAN, ImportTradingview(named, activate)
  PROVE  ScreenerInv'
<1> DEFINE row == [run |-> 0, symbols |-> named \cap Catalogue, includes |-> {}, excludes |-> {}, active |-> FALSE]
<1>1. StoreUniverse(row, activate) /\ UNCHANGED <<serving, screens, outcomes, waiting, job, profile>> BY DEF ImportTradingview
<1>2. row \in Universes /\ ~(row.run > 0) BY DEF Universes
<1> HIDE DEF row
<1> QED BY <1>1, <1>2, StoreUniverseSteps

LEMMA ActivateStep ==
  ASSUME ScreenerInv, NEW i \in DOMAIN universes, ActivateUniverse(i)
  PROVE  ScreenerInv'
<1> DEFINE n == Len(universes)
<1>1. DOMAIN universes = 1 .. n BY DEF ScreenerInv, TablesFit
<1>2. /\ universes' = [j \in 1 .. n |-> [universes[j] EXCEPT !.active = (j = i)]]
      /\ UNCHANGED <<serving, screens, outcomes, waiting, job, profile>>
  BY <1>1 DEF ActivateUniverse
<1>3. DOMAIN universes' = 1 .. n /\ universes' = [j \in 1 .. n |-> universes'[j]] BY <1>2
<1>4. \A j \in 1 .. n : \E b \in BOOLEAN : universes'[j] = [universes[j] EXCEPT !.active = b]
  <2> TAKE j \in 1 .. n
  <2>1. PICK b \in BOOLEAN : b = (j = i) OBVIOUS
  <2>2. universes'[j] = [universes[j] EXCEPT !.active = b] BY <1>2, <2>1
  <2> QED BY <2>2
<1>5. universes' \in Seq(Universes) /\ SavedFit(universes', screens, outcomes) BY <1>3, <1>4, MarkedRows
<1> QED BY <1>2, <1>5, SavedMove

LEMMA ScreenerStep == ScreenerInv /\ [ScreenerNext]_screenerVars => ScreenerInv'
<1> SUFFICES ASSUME ScreenerInv, [ScreenerNext]_screenerVars PROVE ScreenerInv' OBVIOUS
<1>1. CASE UNCHANGED screenerVars BY <1>1 DEF screenerVars, ScreenerInv, TablesFit
<1>2. ASSUME NEW symbols \in Sources, NEW limit \in Limits,
             AddProfileVersion(symbols, limit) \/ StartScreen([symbols |-> symbols, limit |-> limit])
      PROVE  ScreenerInv'
  <2> DEFINE source == [symbols |-> symbols, limit |-> limit]
  <2>1. source.symbols \in SUBSET Catalogue /\ source.limit \in Limits BY ScreenerBounds
  <2> HIDE DEF source
  <2> QED BY <1>2, <2>1, ProfileSteps, StartScreenStep DEF source
<1>3. ASSUME NEW version \in DOMAIN profile, StartScreen(profile[version]) PROVE ScreenerInv'
  <2>1. PICK source : source = profile[version] OBVIOUS
  <2>2. profile \in Seq([symbols : SUBSET Catalogue, limit : Limits]) /\ version \in 1 .. Len(profile)
    BY DEF ScreenerInv, TablesFit
  <2>3. source \in [symbols : SUBSET Catalogue, limit : Limits]
    <3> DEFINE R == [symbols : SUBSET Catalogue, limit : Limits]
    <3>1. profile \in Seq(R) /\ version \in 1 .. Len(profile) BY <2>2
    <3> HIDE DEF R
    <3>2. profile[version] \in R BY <3>1
    <3> QED BY <2>1, <3>2 DEF R
  <2>4. source.symbols \in SUBSET Catalogue /\ source.limit \in Limits BY <2>3
  <2>5. StartScreen(source) BY <1>3, <2>1
  <2> QED BY <2>4, <2>5, StartScreenStep
<1>4. CASE TakeScreen \/ EvaluateSymbol \/ StoreOutcome BY <1>4, TakeScreenStep, EvaluateStep, StoreOutcomeStep
<1>5. CASE ScreenLost \/ ShutDown \/ Die \/ StartScreener BY <1>5, ScreenerStops
<1>6. CASE \E failed \in SUBSET job.todo : ReadBatch(failed) BY <1>6, ReadBatchStep
<1>7. CASE \E status \in {"COMPLETE", "FAILED"} : FinishScreen(status) BY <1>7, FinishScreenStep
<1>8. CASE \E run \in DOMAIN screens, maximum \in Limits, includes, excludes \in Sources, activate \in BOOLEAN :
             SaveUniverse(run, maximum, includes, excludes, activate)
  BY <1>8, SaveUniverseStep
<1>9. CASE \E named \in Sources, activate \in BOOLEAN : ImportTradingview(named, activate) BY <1>9, ImportStep
<1>10. CASE \E i \in DOMAIN universes : ActivateUniverse(i) BY <1>10, ActivateStep
<1> QED BY <1>1, <1>2, <1>3, <1>4, <1>5, <1>6, <1>7, <1>8, <1>9, <1>10 DEF ScreenerNext

LEMMA ScreenerTypes == ScreenerInit => ScreenerInv
<1> SUFFICES ASSUME ScreenerInit PROVE ScreenerInv OBVIOUS
<1>1. TablesFit BY DEF ScreenerInit, TablesFit
<1>2. QueueFits(waiting, screens) BY DEF ScreenerInit, QueueFits
<1>3. JobFits(job, waiting, screens, outcomes) BY NoJobFits DEF ScreenerInit
<1>4. StopsClean(serving, job, waiting, screens) BY DEF ScreenerInit, StopsClean
<1>5. SavedFit(universes, screens, outcomes) /\ AreWhole(screens, outcomes) BY DEF ScreenerInit, SavedFit, AreWhole
<1> QED BY <1>1, <1>2, <1>3, <1>4, <1>5 DEF ScreenerInv

\* Every watchlist saved from a run holds the best symbols of it, and a complete run that
\* was not cut judged all of its symbols, for any market, batch size and limits.
THEOREM WatchlistsHoldTheBest == ScreenerSpec => []WatchlistHoldsTheBest
<1>1. ScreenerInv => WatchlistHoldsTheBest
  <2> SUFFICES ASSUME ScreenerInv PROVE WatchlistHoldsTheBest OBVIOUS
  <2>1. /\ DOMAIN universes = 1 .. Len(universes) /\ DOMAIN screens = 1 .. Len(screens)
        /\ SavedFit(universes, screens, outcomes) /\ AreWhole(screens, outcomes)
    BY DEF ScreenerInv, TablesFit
  <2> QED BY <2>1 DEF WatchlistHoldsTheBest, SavedFit, HoldsBest, PassedOf, AreWhole, SymbolsOf
<1> QED BY <1>1, ScreenerTypes, ScreenerStep, PTL DEF ScreenerSpec

-----------------------------------------------------------------------------
(* The leases of the workers: exclusive as long as they are renewed.       *)

\* A guard that renewed its lease less than a TTL ago owns the row, and the row
\* expires exactly when the guard's TTL does.
Covered == \A g \in Guards :
    held[g] /\ since[g] < TTL =>
        /\ lease[g[2]].owner = g[1]
        /\ lease[g[2]].status = "ACTIVE"
        /\ lease[g[2]].left = TTL - since[g]

LeaseInv == TypeOK /\ Covered

\* A guard is a worker and one of its leases.
LEMMA GuardsArePairs == \A g \in Guards : /\ g = <<g[1], g[2]>>
                                          /\ g[1] \in Workers /\ g[2] \in Keys
  BY DEF Guards

\* The rows of worker_leases, and a row that is not ACTIVE any more.
Rows == [owner : Workers \cup {NoOne}, status : Statuses, left : Int]

\* Closing a row keeps its shape.
LEMMA ClosedRow == ASSUME NEW r \in Rows, NEW status \in Statuses
                   PROVE Closed(r, status) \in Rows /\ Closed(r, status).left <= TTL
<1>1. - MaxDelay \in Int /\ - MaxDelay <= TTL BY TTLIsPositive, DelayIsNatural
<1> QED BY <1>1 DEF Rows, Closed

\* The initial state: no row, no guard.
LEMMA InitLeaseInv == Init => LeaseInv
  BY TTLIsPositive, DelayIsNatural, GuardsArePairs
  DEF Init, LeaseInv, TypeOK, Covered, Off, Statuses, Places

\* A step that leaves rows, guards and threads alone.
LEMMA OtherWorkerSteps ==
  ASSUME LeaseInv, NEW w \in Workers,
         \/ BeginEnter(w) \/ AcquireError(w) \/ BeginCycle(w) \/ EndCycle(w)
         \/ EndTask(w) \/ StopWaiting(w)
  PROVE LeaseInv'
<1>0. /\ pc \in [Workers -> Places] /\ age \in [Workers -> Nat] /\ errors \in Nat
  BY DEF LeaseInv, TypeOK
<1>1. /\ UNCHANGED <<lease, held, thread, since>>
      /\ pc' \in [Workers -> Places] /\ age' \in [Workers -> Nat] /\ errors' \in Nat
  <2>1. CASE BeginEnter(w) BY <1>0, <2>1 DEF BeginEnter, Places
  <2>2. CASE AcquireError(w) BY <1>0, <2>2 DEF AcquireError, Places
  <2>3. CASE BeginCycle(w) \/ EndCycle(w) BY <1>0, <2>3 DEF BeginCycle, EndCycle, Places
  <2>4. CASE EndTask(w) BY <1>0, <2>4 DEF EndTask, Places
  <2>5. CASE StopWaiting(w) BY <1>0, <2>5 DEF StopWaiting, Places
  <2> QED BY <2>1, <2>2, <2>3, <2>4, <2>5
<1>2. Len(Leases[w]) \in Nat \ {0}
  <2>1. Leases[w] \in Seq(Keys) /\ Leases[w] # <<>> BY LeasesAreKeys
  <2> QED BY <2>1
<1>3. pos \in [Workers -> Nat \ {0}] BY DEF LeaseInv, TypeOK
<1>4. pos' \in [Workers -> Nat \ {0}]
  <2>1. CASE BeginEnter(w) BY <1>3, <2>1 DEF BeginEnter
  <2>2. CASE AcquireError(w) BY <1>3, <2>2 DEF AcquireError
  <2>3. CASE EndTask(w) BY <1>2, <1>3, <2>3 DEF EndTask
  <2>4. CASE BeginCycle(w) \/ EndCycle(w) \/ StopWaiting(w)
    BY <1>3, <2>4 DEF BeginCycle, EndCycle, StopWaiting
  <2> QED BY <2>1, <2>2, <2>3, <2>4
<1> QED BY <1>1, <1>4 DEF LeaseInv, TypeOK, Covered, Guards

\* Taking a lease: the row was not covered by another guard.
LEMMA AcquireStep == ASSUME LeaseInv, NEW w \in Workers, Acquire(w) PROVE LeaseInv'
<1> DEFINE k == Key(w)
           granted == Takeable(k, age[w])
<1>0. TypeOK /\ Covered BY DEF LeaseInv
<1>1. TypeOK'
  <2>1. pc' \in [Workers -> Places] /\ age' \in [Workers -> Nat]
        /\ pos' \in [Workers -> Nat \ {0}] /\ errors' = errors
    <3>1. Entered(w, granted) \in Places BY DEF Entered, Places
    <3> QED BY <1>0, <3>1 DEF Acquire, TypeOK
  <2>2. granted \in BOOLEAN BY DEF Takeable
  <2>3. held' \in [Guards -> BOOLEAN] BY <1>0, <2>2 DEF Acquire, TypeOK
  <2>4. thread' \in [Guards -> [at : {"off", "wait", "call"}, time : Nat]]
    BY <1>0 DEF Acquire, TypeOK, Waiting
  <2>5. since' \in [Guards -> Nat] BY <1>0 DEF Acquire, TypeOK
  <2>6. Renewed(w, age[w]) \in [owner : Workers \cup {NoOne}, status : Statuses, left : Int]
        /\ Renewed(w, age[w]).left <= TTL
    BY <1>0, TTLIsPositive DEF TypeOK, Renewed, Statuses
  <2>7. lease' \in [Keys -> [owner : Workers \cup {NoOne}, status : Statuses, left : Int]]
        /\ \A x \in Keys : lease'[x].left <= TTL
    BY <1>0, <2>6 DEF Acquire, TypeOK
  <2> QED BY <1>0, <2>1, <2>3, <2>4, <2>5, <2>7 DEF TypeOK
<1>2. Covered'
  <2> SUFFICES ASSUME NEW g \in Guards, held'[g], since'[g] < TTL
               PROVE /\ lease'[g[2]].owner = g[1]
                     /\ lease'[g[2]].status = "ACTIVE"
                     /\ lease'[g[2]].left = TTL - since'[g]
    BY DEF Covered, Guards
  <2>0. g = <<g[1], g[2]>> /\ g[1] \in Workers /\ g[2] \in Keys BY GuardsArePairs
  <2>1. CASE g = <<w, k>>
    <3>1. g[1] = w /\ g[2] = k BY <2>1
    <3>2. granted BY <1>0, <2>1 DEF Acquire, TypeOK
    <3>3. since'[g] = age[w] BY <1>0, <2>1, <3>2 DEF Acquire, TypeOK
    <3>4. lease'[k] = Renewed(w, age[w]) BY <1>0, <2>0, <3>1, <3>2 DEF Acquire, TypeOK
    <3> QED BY <3>1, <3>3, <3>4 DEF Renewed
  <2>2. CASE g # <<w, k>>
    <3>1. held[g] /\ since'[g] = since[g] BY <1>0, <2>2 DEF Acquire, TypeOK
    <3>2. /\ lease[g[2]].owner = g[1] /\ lease[g[2]].status = "ACTIVE"
          /\ lease[g[2]].left = TTL - since[g]
      BY <1>0, <3>1 DEF Covered
    <3>3. CASE granted /\ g[2] = k
      <4>1. lease[k].left <= - age[w] BY <3>2, <3>3 DEF Takeable
      <4> QED BY <1>0, <3>1, <3>2, <3>3, <4>1, TTLIsPositive DEF TypeOK
    <3>4. CASE ~(granted /\ g[2] = k)
      BY <1>0, <2>0, <3>1, <3>2, <3>4 DEF Acquire, TypeOK
    <3> QED BY <3>3, <3>4
  <2> QED BY <2>1, <2>2
<1> QED BY <1>1, <1>2 DEF LeaseInv

\* A thread that is off, and the one a guard leaves behind.
LEMMA OffIsAThread == Off \in [at : {"off", "wait", "call"}, time : Nat]
  BY DEF Off

LEMMA RestIsAThread ==
  ASSUME TypeOK, NEW w, NEW k, <<w, k>> \in Guards
  PROVE (IF thread[<<w, k>>].at = "call" THEN thread[<<w, k>>] ELSE Off)
            \in [at : {"off", "wait", "call"}, time : Nat]
  BY OffIsAThread DEF TypeOK

\* A guard that loses or leaves its lease: the others are not concerned.
LEMMA GuardLost ==
  ASSUME LeaseInv, NEW w \in Workers, NEW k,
         NEW rest, <<w, k>> \in Guards => rest \in [at : {"off", "wait", "call"}, time : Nat],
         Lost(w, k, rest), UNCHANGED lease
  PROVE /\ Covered'
        /\ held' \in [Guards -> BOOLEAN] /\ since' \in [Guards -> Nat]
        /\ thread' \in [Guards -> [at : {"off", "wait", "call"}, time : Nat]]
<1>0. TypeOK /\ Covered BY DEF LeaseInv
<1>1. /\ held' \in [Guards -> BOOLEAN] /\ since' \in [Guards -> Nat]
      /\ thread' \in [Guards -> [at : {"off", "wait", "call"}, time : Nat]]
  BY <1>0 DEF Lost, TypeOK
<1>2. \A g \in Guards : held'[g] => held[g] /\ since'[g] = since[g]
  BY <1>0 DEF Lost, TypeOK
<1>3. Covered' BY <1>0, <1>2 DEF Covered, Guards
<1> QED BY <1>1, <1>3

\* The shape of what a step that leaves a guard does to the worker.
LEMMA LeftWorker ==
  ASSUME LeaseInv, NEW w \in Workers, Leaving(w), NEW k, NEW halted \in BOOLEAN,
         Left(w, k, halted)
  PROVE pc' \in [Workers -> Places] /\ pos' \in [Workers -> Nat \ {0}]
<1>0. pc \in [Workers -> Places] /\ pos \in [Workers -> Nat \ {0}] BY DEF LeaseInv, TypeOK
<1>1. AfterExit(w) \in Places BY DEF AfterExit, Leaving, Places
<1>2. pc' \in [Workers -> Places] BY <1>0, <1>1 DEF Left, Places
<1>3. pos' \in [Workers -> Nat \ {0}] BY <1>0 DEF Left
<1> QED BY <1>2, <1>3

\* A heartbeat renews the row of its own guard or ends the guard.
LEMMA BeatSteps ==
  ASSUME LeaseInv, NEW w \in Workers, NEW k \in Keys, <<w, k>> \in Guards,
         BeginBeat(w, k) \/ Beat(w, k) \/ BeatError(w, k)
  PROVE LeaseInv'
<1>0. TypeOK /\ Covered BY DEF LeaseInv
<1>1. CASE BeginBeat(w, k)
  <2>1. thread' \in [Guards -> [at : {"off", "wait", "call"}, time : Nat]]
    BY <1>0, <1>1 DEF BeginBeat, TypeOK, Calling
  <2> QED BY <1>0, <1>1, <2>1 DEF BeginBeat, LeaseInv, TypeOK, Covered, Guards
<1>2. CASE BeatError(w, k)
  <2>1. Lost(w, k, Off) /\ UNCHANGED <<lease, pc, pos, age>> /\ errors' = errors + 1
    BY <1>2 DEF BeatError
  <2>2. /\ Covered' /\ held' \in [Guards -> BOOLEAN] /\ since' \in [Guards -> Nat]
        /\ thread' \in [Guards -> [at : {"off", "wait", "call"}, time : Nat]]
    BY <2>1, OffIsAThread, GuardLost
  <2>3. errors' \in Nat BY <1>0, <2>1 DEF TypeOK
  <2>4. TypeOK' BY <1>0, <2>1, <2>2, <2>3 DEF TypeOK
  <2> QED BY <2>2, <2>4 DEF LeaseInv
<1>3. CASE Beat(w, k)
  <2> DEFINE delay == thread[<<w, k>>].time
  <2>1. UNCHANGED <<pc, pos, age, errors>> BY <1>3 DEF Beat
  <2>2. CASE ~Renewable(w, k, delay)
    <3>1. Lost(w, k, Off) /\ UNCHANGED lease BY <1>3, <2>2 DEF Beat
    <3> QED BY <1>0, <2>1, <3>1, OffIsAThread, GuardLost DEF LeaseInv, TypeOK, Guards
  <2>3. CASE Renewable(w, k, delay)
    <3>1. delay \in Nat BY <1>0, <2>3 DEF TypeOK
    <3>2. /\ lease' = [lease EXCEPT ![k] = Renewed(w, delay)]
          /\ since' = [since EXCEPT ![<<w, k>>] = IF held[<<w, k>>] THEN delay ELSE 0]
          /\ thread' = [thread EXCEPT ![<<w, k>>] = IF Stopped(w, k) THEN Off ELSE Waiting]
          /\ held' = held
      BY <1>3, <2>3 DEF Beat
    <3> HIDE DEF delay
    <3>3. Renewed(w, delay) \in [owner : Workers \cup {NoOne}, status : Statuses, left : Int]
          /\ Renewed(w, delay).left <= TTL
      BY <3>1, TTLIsPositive DEF Renewed, Statuses
    <3>4. lease' \in [Keys -> [owner : Workers \cup {NoOne}, status : Statuses, left : Int]]
          /\ \A x \in Keys : lease'[x].left <= TTL
      BY <1>0, <3>2, <3>3 DEF TypeOK
    <3>5. thread' \in [Guards -> [at : {"off", "wait", "call"}, time : Nat]]
      BY <1>0, <3>2 DEF TypeOK, Off, Waiting
    <3>6. since' \in [Guards -> Nat] BY <1>0, <3>1, <3>2 DEF TypeOK
    <3>7. TypeOK' BY <1>0, <2>1, <3>2, <3>4, <3>5, <3>6 DEF TypeOK, Guards
    <3>8. Covered'
      <4> SUFFICES ASSUME NEW g \in Guards, held'[g], since'[g] < TTL
                   PROVE /\ lease'[g[2]].owner = g[1]
                         /\ lease'[g[2]].status = "ACTIVE"
                         /\ lease'[g[2]].left = TTL - since'[g]
        BY DEF Covered, Guards
      <4>0. g = <<g[1], g[2]>> /\ g[1] \in Workers /\ g[2] \in Keys BY GuardsArePairs
      <4>1. CASE g = <<w, k>>
        <5>1. g[1] = w /\ g[2] = k BY <4>1
        <5>2. since'[g] = delay
          <6>1. held[<<w, k>>] BY <3>2, <4>1
          <6> QED BY <1>0, <3>2, <4>1, <6>1 DEF TypeOK
        <5>3. lease'[k] = Renewed(w, delay) BY <1>0, <3>2 DEF TypeOK
        <5> QED BY <5>1, <5>2, <5>3 DEF Renewed
      <4>2. CASE g # <<w, k>>
        <5>1. held[g] /\ since'[g] = since[g] BY <1>0, <3>2, <4>2 DEF TypeOK
        <5>2. /\ lease[g[2]].owner = g[1] /\ lease[g[2]].status = "ACTIVE"
              /\ lease[g[2]].left = TTL - since[g]
          BY <1>0, <5>1 DEF Covered
        <5>3. g[2] # k BY <2>3, <4>0, <4>2, <5>2 DEF Renewable
        <5>4. lease'[g[2]] = lease[g[2]] BY <1>0, <3>2, <4>0, <5>3 DEF TypeOK
        <5> QED BY <5>1, <5>2, <5>4
      <4> QED BY <4>1, <4>2
    <3> QED BY <3>7, <3>8 DEF LeaseInv
  <2> QED BY <2>2, <2>3
<1> QED BY <1>1, <1>2, <1>3

\* Releasing a lease ends the row of the worker's own guard only.
LEMMA ExitSteps ==
  ASSUME LeaseInv, NEW w \in Workers, ExitGuard(w) \/ Release(w) \/ ReleaseError(w)
  PROVE LeaseInv'
<1> DEFINE k == Key(w)
<1>0. TypeOK /\ Covered BY DEF LeaseInv
<1>1. CASE ExitGuard(w) /\ held[<<w, k>>]
  <2>1. /\ UNCHANGED <<held, since, pos, pc, lease, errors>>
        /\ age' = [age EXCEPT ![w] = 1]
        /\ thread' = [thread EXCEPT ![<<w, k>>] = IF @.at = "call" THEN @ ELSE Off]
    BY <1>1 DEF ExitGuard
  <2>2. age' \in [Workers -> Nat] BY <1>0, <2>1 DEF TypeOK
  <2>3. thread' \in [Guards -> [at : {"off", "wait", "call"}, time : Nat]]
    BY <1>0, <2>1 DEF TypeOK, Off
  <2>4. TypeOK' BY <1>0, <2>1, <2>2, <2>3 DEF TypeOK
  <2>5. Covered' BY <1>0, <2>1 DEF Covered
  <2> QED BY <2>4, <2>5 DEF LeaseInv
<1>2. ASSUME NEW halted \in BOOLEAN, Leaving(w), Left(w, k, halted), UNCHANGED lease,
             age' \in [Workers -> Nat], errors' \in Nat
      PROVE LeaseInv'
  <2>1. pc' \in [Workers -> Places] /\ pos' \in [Workers -> Nat \ {0}] BY <1>2, LeftWorker
  <2>2. /\ Covered' /\ held' \in [Guards -> BOOLEAN] /\ since' \in [Guards -> Nat]
        /\ thread' \in [Guards -> [at : {"off", "wait", "call"}, time : Nat]]
    <3> DEFINE rest == IF thread[<<w, k>>].at = "call" THEN thread[<<w, k>>] ELSE Off
    <3>1. Lost(w, k, rest) BY <1>2 DEF Left
    <3>2. <<w, k>> \in Guards => rest \in [at : {"off", "wait", "call"}, time : Nat]
      BY <1>0, RestIsAThread
    <3> HIDE DEF rest
    <3> QED BY <1>2, <3>1, <3>2, GuardLost
  <2>3. TypeOK' BY <1>0, <1>2, <2>1, <2>2 DEF TypeOK
  <2> QED BY <2>2, <2>3 DEF LeaseInv
<1>3. CASE ExitGuard(w) /\ ~held[<<w, k>>]
  <2>1. Leaving(w) /\ Left(w, k, FALSE) /\ UNCHANGED <<lease, age, errors>>
    BY <1>3 DEF ExitGuard
  <2>2. age' \in [Workers -> Nat] /\ errors' \in Nat BY <1>0, <2>1 DEF TypeOK
  <2> QED BY <1>2, <2>1, <2>2
<1>4. CASE ReleaseError(w)
  <2>1. /\ Leaving(w) /\ Left(w, k, TRUE) /\ UNCHANGED lease
        /\ age' = [age EXCEPT ![w] = 0] /\ errors' = errors + 1
    BY <1>4 DEF ReleaseError, Releasing
  <2>2. age' \in [Workers -> Nat] /\ errors' \in Nat BY <1>0, <2>1 DEF TypeOK
  <2> QED BY <1>2, <2>1, <2>2
<1>5. CASE Release(w)
  <2> DEFINE row == Closed(lease[k], IF pc[w] = "unwind" THEN "FAILED" ELSE "RELEASED")
             rest == IF thread[<<w, k>>].at = "call" THEN thread[<<w, k>>] ELSE Off
  <2>1. /\ Leaving(w) /\ Left(w, k, FALSE) /\ Lost(w, k, rest) /\ UNCHANGED errors
        /\ age' = [age EXCEPT ![w] = 0]
        /\ lease' = IF lease[k].owner = w /\ lease[k].status = "ACTIVE"
                    THEN [lease EXCEPT ![k] = row] ELSE lease
    BY <1>5 DEF Release, Releasing, Released, Left
  <2>2. age' \in [Workers -> Nat] /\ errors' \in Nat BY <1>0, <2>1 DEF TypeOK
  <2>3. pc' \in [Workers -> Places] /\ pos' \in [Workers -> Nat \ {0}] BY <2>1, LeftWorker
  <2>4. /\ held' \in [Guards -> BOOLEAN] /\ since' \in [Guards -> Nat]
        /\ thread' \in [Guards -> [at : {"off", "wait", "call"}, time : Nat]]
    <3>1. <<w, k>> \in Guards => rest \in [at : {"off", "wait", "call"}, time : Nat]
      BY <1>0, RestIsAThread
    <3> HIDE DEF rest
    <3> QED BY <1>0, <2>1, <3>1 DEF Lost, TypeOK
  <2>5. k \in Keys => row \in Rows /\ row.left <= TTL
    <3>1. k \in Keys => lease[k] \in Rows BY <1>0 DEF TypeOK, Rows
    <3>2. "FAILED" \in Statuses /\ "RELEASED" \in Statuses BY DEF Statuses
    <3> QED BY <3>1, <3>2, ClosedRow
  <2> HIDE DEF row
  <2>6. lease' \in [Keys -> [owner : Workers \cup {NoOne}, status : Statuses, left : Int]]
        /\ \A x \in Keys : lease'[x].left <= TTL
    BY <1>0, <2>1, <2>5 DEF TypeOK, Rows
  <2>7. TypeOK' BY <2>2, <2>3, <2>4, <2>6 DEF TypeOK
  <2>8. Covered'
    <3> SUFFICES ASSUME NEW g \in Guards, held'[g], since'[g] < TTL
                 PROVE /\ lease'[g[2]].owner = g[1]
                       /\ lease'[g[2]].status = "ACTIVE"
                       /\ lease'[g[2]].left = TTL - since'[g]
      BY DEF Covered, Guards
    <3>0. g = <<g[1], g[2]>> /\ g[1] \in Workers /\ g[2] \in Keys BY GuardsArePairs
    <3>1. g # <<w, k>> /\ held[g] /\ since'[g] = since[g] BY <1>0, <2>1 DEF Lost, TypeOK
    <3>2. /\ lease[g[2]].owner = g[1] /\ lease[g[2]].status = "ACTIVE"
          /\ lease[g[2]].left = TTL - since[g]
      BY <1>0, <3>1 DEF Covered
    <3>3. lease'[g[2]] = lease[g[2]] BY <1>0, <2>1, <3>0, <3>1, <3>2 DEF TypeOK
    <3> QED BY <3>1, <3>2, <3>3
  <2> QED BY <2>7, <2>8 DEF LeaseInv
<1> QED BY <1>1, <1>3, <1>4, <1>5

\* Time, expiry and crashes.
LEMMA TickStep == ASSUME LeaseInv, Tick PROVE LeaseInv'
<1>0. TypeOK /\ Covered BY DEF LeaseInv
<1>1. TypeOK'
  <2>1. lease' \in [Keys -> [owner : Workers \cup {NoOne}, status : Statuses, left : Int]]
        /\ \A x \in Keys : lease'[x].left <= TTL
    <3> SUFFICES ASSUME NEW x \in Keys
                 PROVE /\ lease'[x] \in Rows /\ lease'[x].left <= TTL
      BY DEF Tick, Rows
    <3>1. lease[x] \in Rows /\ lease[x].left <= TTL BY <1>0 DEF TypeOK, Rows
    <3>2. lease[x].left \in Int BY <3>1 DEF Rows
    <3>3. /\ AtLeast(lease[x].left - 1, - MaxDelay) \in Int
          /\ AtLeast(lease[x].left - 1, - MaxDelay) <= TTL
      BY <3>1, <3>2, TTLIsPositive, DelayIsNatural DEF AtLeast
    <3>4. lease'[x] = [lease[x] EXCEPT !.left = AtLeast(lease[x].left - 1, - MaxDelay)]
      BY DEF Tick
    <3> HIDE DEF AtLeast
    <3> QED BY <3>1, <3>3, <3>4 DEF Rows
  <2>2. age' \in [Workers -> Nat] BY <1>0 DEF TypeOK, Tick
  <2>3. thread' \in [Guards -> [at : {"off", "wait", "call"}, time : Nat]]
    BY <1>0 DEF TypeOK, Tick
  <2>4. since' \in [Guards -> Nat] BY <1>0, TTLIsPositive DEF TypeOK, Tick, AtMost
  <2> QED BY <1>0, <2>1, <2>2, <2>3, <2>4 DEF TypeOK, Tick
<1>2. Covered'
  <2> SUFFICES ASSUME NEW g \in Guards, held'[g], since'[g] < TTL
               PROVE /\ lease'[g[2]].owner = g[1]
                     /\ lease'[g[2]].status = "ACTIVE"
                     /\ lease'[g[2]].left = TTL - since'[g]
    BY DEF Covered, Guards
  <2>0. g[2] \in Keys BY GuardsArePairs
  <2>1. held[g] /\ since[g] < TTL /\ since'[g] = since[g] + 1 /\ since[g] \in Nat
    BY <1>0, TTLIsPositive DEF Tick, AtMost, TypeOK
  <2>2. /\ lease[g[2]].owner = g[1] /\ lease[g[2]].status = "ACTIVE"
        /\ lease[g[2]].left = TTL - since[g]
    BY <1>0, <2>1 DEF Covered
  <2>3. lease[g[2]] \in [owner : Workers \cup {NoOne}, status : Statuses, left : Int]
    BY <1>0, <2>0 DEF TypeOK
  <2>4. lease'[g[2]] = [lease[g[2]] EXCEPT !.left = lease[g[2]].left - 1]
    BY <2>0, <2>1, <2>2, TTLIsPositive, DelayIsNatural DEF Tick, AtLeast
  <2> QED BY <2>1, <2>2, <2>3, <2>4, TTLIsPositive
<1> QED BY <1>1, <1>2 DEF LeaseInv

\* A row that expires is covered by no guard.
LEMMA ExpireStep == ASSUME LeaseInv, ExpireStaleLeases PROVE LeaseInv'
<1>0. TypeOK /\ Covered BY DEF LeaseInv
<1>1. TypeOK'
  <2>1. lease' \in [Keys -> [owner : Workers \cup {NoOne}, status : Statuses, left : Int]]
        /\ \A x \in Keys : lease'[x].left <= TTL
    <3> SUFFICES ASSUME NEW x \in Keys
                 PROVE /\ lease'[x] \in Rows /\ lease'[x].left <= TTL
      BY DEF ExpireStaleLeases, Rows
    <3>1. lease[x] \in Rows /\ lease[x].left <= TTL BY <1>0 DEF TypeOK, Rows
    <3>2. "EXPIRED" \in Statuses BY DEF Statuses
    <3>3. lease'[x] = lease[x] \/ lease'[x] = Closed(lease[x], "EXPIRED")
      BY DEF ExpireStaleLeases
    <3> QED BY <3>1, <3>2, <3>3, ClosedRow
  <2> QED BY <1>0, <2>1 DEF TypeOK, ExpireStaleLeases
<1>2. Covered'
  <2> SUFFICES ASSUME NEW g \in Guards, held[g], since[g] < TTL
               PROVE lease'[g[2]] = lease[g[2]]
    BY <1>0 DEF Covered, Guards, ExpireStaleLeases
  <2>1. lease[g[2]].left = TTL - since[g] BY <1>0 DEF Covered
  <2>2. ~(lease[g[2]].left <= 0) BY <1>0, <2>1, TTLIsPositive DEF TypeOK
  <2>3. g[2] \in Keys BY GuardsArePairs
  <2> QED BY <2>2, <2>3 DEF ExpireStaleLeases
<1> QED BY <1>1, <1>2 DEF LeaseInv

\* The guards of a process that dies are gone; its rows stay.
LEMMA CrashStep == ASSUME LeaseInv, NEW w \in Workers, Crash(w) PROVE LeaseInv'
<1>0. TypeOK /\ Covered BY DEF LeaseInv
<1>1. /\ pc' \in [Workers -> Places] /\ pos' \in [Workers -> Nat \ {0}]
      /\ age' \in [Workers -> Nat] /\ UNCHANGED <<lease, errors>>
  BY <1>0 DEF TypeOK, Crash, Places
<1>2. /\ held' \in [Guards -> BOOLEAN] /\ since' \in [Guards -> Nat]
      /\ thread' \in [Guards -> [at : {"off", "wait", "call"}, time : Nat]]
  BY <1>0 DEF TypeOK, Crash, Off
<1>3. TypeOK' BY <1>0, <1>1, <1>2 DEF TypeOK
<1>4. \A g \in Guards : held'[g] => held[g] /\ since'[g] = since[g]
  BY <1>0 DEF Crash, TypeOK
<1>5. Covered' BY <1>0, <1>1, <1>4 DEF Covered, Guards
<1> QED BY <1>3, <1>5 DEF LeaseInv
-----------------------------------------------------------------------------
\* Every guard that renewed its lease less than a TTL ago owns the row, in every
\* reachable state (acquire_lease, heartbeat, release_lease, expire_stale_leases).
THEOREM LeaseInvariant == Spec => []LeaseInv
<1>1. LeaseInv /\ [Next]_vars => LeaseInv'
  <2> SUFFICES ASSUME LeaseInv, [Next]_vars PROVE LeaseInv' OBVIOUS
  <2>1. ASSUME NEW w \in Workers,
               \/ Proceed(w) \/ AcquireError(w) \/ ReleaseError(w)
               \/ BeginCycle(w) \/ EndCycle(w) \/ EndTask(w) \/ StopWaiting(w) \/ Crash(w)
        PROVE LeaseInv'
    BY <2>1, OtherWorkerSteps, AcquireStep, ExitSteps, CrashStep DEF Proceed
  <2>2. ASSUME NEW g \in Guards,
               BeginBeat(g[1], g[2]) \/ Beat(g[1], g[2]) \/ BeatError(g[1], g[2])
        PROVE LeaseInv'
    BY <2>2, BeatSteps, GuardsArePairs
  <2>3. CASE UNCHANGED vars
    BY <2>3 DEF vars, LeaseInv, TypeOK, Covered
  <2> QED BY <2>1, <2>2, <2>3, TickStep, ExpireStep DEF Next
<1> QED BY <1>1, InitLeaseInv, PTL DEF Spec

\* Type correctness: no lease is ever good for more than its TTL.
THEOREM LeaseTypes == Spec => []TypeOK
<1>1. LeaseInv => TypeOK BY DEF LeaseInv
<1> QED BY <1>1, LeaseInvariant, PTL

\* Two guards of two workers never both hold a lease they renewed in time
\* (WorkerLeaseGuard, compare-and-set acquisition), whatever the delays.
THEOREM LeaseIsExclusive == Spec => []SingleOwner
<1>1. LeaseInv => SingleOwner
  <2> SUFFICES ASSUME LeaseInv, NEW g \in Guards, NEW h \in Guards,
                      g[2] = h[2], g[1] # h[1], held[g], held[h],
                      ~(since[g] >= TTL), ~(since[h] >= TTL)
               PROVE FALSE
    BY DEF SingleOwner
  <2>1. since[g] < TTL /\ since[h] < TTL BY TTLIsPositive DEF LeaseInv, TypeOK
  <2> QED BY <2>1 DEF LeaseInv, Covered
<1> QED BY <1>1, LeaseInvariant, PTL
-----------------------------------------------------------------------------
(* The end of a live lease. *)

\* A worker is always at one of its leases.
AtALease == \A w \in Workers : pos[w] \in 1..Len(Leases[w])

\* Every worker has a lease to take, and those are keys.
LEMMA LeasesOf == ASSUME NEW w \in Workers
                  PROVE /\ Len(Leases[w]) \in Nat \ {0}
                        /\ \A i \in 1..Len(Leases[w]) : Leases[w][i] \in Keys
<1>1. Leases[w] \in Seq(Keys) /\ Leases[w] # <<>> BY LeasesAreKeys
<1> QED BY <1>1

\* The guard a worker is at.
LEMMA GuardOfWorker == ASSUME AtALease, NEW w \in Workers
                       PROVE <<w, Key(w)>> \in Guards
<1>1. pos[w] \in 1..Len(Leases[w]) BY DEF AtALease
<1>2. Leases[w][pos[w]] \in Keys BY <1>1, LeasesOf
<1> QED BY <1>1, <1>2 DEF Key, Guards

\* A worker moves up its leases while it enters and down while it leaves.
LEMMA StaysAtALease == ASSUME TypeOK, AtALease, [Next]_vars PROVE AtALease'
<1>0. pos \in [Workers -> Nat \ {0}] BY DEF TypeOK
<1> DEFINE Moved(w) == \E p \in 1..Len(Leases[w]) : pos' = [pos EXCEPT ![w] = p]
<1>1. ASSUME NEW w \in Workers,
             \/ Proceed(w) \/ AcquireError(w) \/ ReleaseError(w)
             \/ BeginCycle(w) \/ EndCycle(w) \/ EndTask(w) \/ StopWaiting(w) \/ Crash(w)
      PROVE pos' = pos \/ Moved(w)
  <2>1. pos[w] \in 1..Len(Leases[w]) BY DEF AtALease
  <2>2. Len(Leases[w]) \in Nat \ {0} BY LeasesOf
  <2>3. 1 \in 1..Len(Leases[w]) /\ Len(Leases[w]) \in 1..Len(Leases[w]) BY <2>2
  <2>4. pos[w] # 1 => pos[w] - 1 \in 1..Len(Leases[w]) BY <2>1, <2>2
  <2>5. CASE BeginEnter(w) BY <2>3, <2>5 DEF BeginEnter
  <2>6. CASE Acquire(w)
    <3> DEFINE next == Entered(w, Takeable(Key(w), age[w]))
    <3>1. pos' = [pos EXCEPT ![w] = IF next = "enter" THEN @ + 1 ELSE @]
      BY <2>6 DEF Acquire
    <3>2. next = "enter" => pos[w] < Len(Leases[w]) BY DEF Entered
    <3>3. next = "enter" => pos[w] + 1 \in 1..Len(Leases[w]) BY <2>1, <2>2, <3>2
    <3> HIDE DEF next
    <3> QED BY <2>1, <3>1, <3>3
  <2>7. CASE AcquireError(w) BY <2>1, <2>4, <2>7 DEF AcquireError
  <2>8. CASE EndTask(w) BY <2>3, <2>8 DEF EndTask
  <2>9. CASE Crash(w) BY <2>3, <2>9 DEF Crash
  <2>10. CASE ExitGuard(w) \/ Release(w) \/ ReleaseError(w)
    <3>1. pos' = pos \/ pos' = [pos EXCEPT ![w] = IF @ = 1 THEN 1 ELSE @ - 1]
      BY <2>10 DEF ExitGuard, Release, ReleaseError, Left
    <3> QED BY <2>3, <2>4, <3>1
  <2>11. CASE BeginCycle(w) \/ EndCycle(w) \/ StopWaiting(w)
    BY <2>11 DEF BeginCycle, EndCycle, StopWaiting
  <2> QED BY <1>1, <2>5, <2>6, <2>7, <2>8, <2>9, <2>10, <2>11 DEF Proceed
<1>2. ASSUME NEW w \in Workers, Moved(w) PROVE AtALease'
  BY <1>0, <1>2 DEF AtALease
<1> HIDE DEF Moved
<1>3. ASSUME UNCHANGED pos PROVE AtALease' BY <1>3 DEF AtALease
<1>4. ASSUME NEW g \in Guards,
             BeginBeat(g[1], g[2]) \/ Beat(g[1], g[2]) \/ BeatError(g[1], g[2])
      PROVE AtALease'
  BY <1>3, <1>4 DEF BeginBeat, Beat, BeatError
<1>5. CASE Tick \/ ExpireStaleLeases BY <1>3, <1>5 DEF Tick, ExpireStaleLeases
<1>6. CASE UNCHANGED vars BY <1>3, <1>6 DEF vars
<1> QED BY <1>1, <1>2, <1>3, <1>4, <1>5, <1>6 DEF Next

\* What a step may do to the live row of a key.
LEMMA LiveRowStep ==
  ASSUME TypeOK, AtALease, [Next]_vars, NEW k \in Keys, Live(k),
         lease'[k].owner # lease[k].owner \/ lease'[k].status # "ACTIVE"
  PROVE Releasing(lease[k].owner) /\ ~held'[<<lease[k].owner, k>>]
<1>0. /\ lease \in [Keys -> Rows] /\ lease[k] \in Rows
      /\ lease[k].status = "ACTIVE" /\ lease[k].left > 0 /\ lease[k].left \in Int
      /\ age \in [Workers -> Nat]
  BY DEF TypeOK, Rows, Live
<1>1. lease'[k] # lease[k] BY <1>0
<1>2. ASSUME NEW w \in Workers, Acquire(w) PROVE FALSE
  <2>1. CASE k = Key(w)
    <3>1. age[w] \in Nat BY <1>0
    <3>2. ~Takeable(k, age[w]) BY <1>0, <3>1 DEF Takeable
    <3> QED BY <1>1, <1>2, <2>1, <3>2 DEF Acquire
  <2>2. CASE k # Key(w) BY <1>0, <1>1, <1>2, <2>2 DEF Acquire
  <2> QED BY <2>1, <2>2
<1>3. ASSUME NEW w \in Workers, Release(w)
      PROVE Releasing(lease[k].owner) /\ ~held'[<<lease[k].owner, k>>]
  <2>1. k = Key(w) /\ lease[k].owner = w
    BY <1>0, <1>1, <1>3 DEF Release, Released
  <2>2. <<w, k>> \in Guards BY <2>1, GuardOfWorker
  <2>3. held' = [held EXCEPT ![<<w, k>>] = FALSE] BY <1>3, <2>1 DEF Release, Left, Lost
  <2>4. ~held'[<<w, k>>] BY <2>2, <2>3 DEF TypeOK
  <2> QED BY <1>3, <2>1, <2>4 DEF Release
<1>4. ASSUME NEW w \in Workers,
             \/ BeginEnter(w) \/ ExitGuard(w) \/ AcquireError(w) \/ ReleaseError(w)
             \/ BeginCycle(w) \/ EndCycle(w) \/ EndTask(w) \/ StopWaiting(w) \/ Crash(w)
      PROVE FALSE
  BY <1>1, <1>4 DEF BeginEnter, ExitGuard, AcquireError, ReleaseError, BeginCycle,
                    EndCycle, EndTask, StopWaiting, Crash
<1>5. ASSUME NEW g \in Guards,
             BeginBeat(g[1], g[2]) \/ Beat(g[1], g[2]) \/ BeatError(g[1], g[2])
      PROVE FALSE
  <2> DEFINE delay == thread[<<g[1], g[2]>>].time
  <2>1. Beat(g[1], g[2]) /\ Renewable(g[1], g[2], delay)
        /\ lease' = [lease EXCEPT ![g[2]] = Renewed(g[1], delay)]
    BY <1>1, <1>5 DEF BeginBeat, Beat, BeatError
  <2> HIDE DEF delay
  <2>2. g[2] = k BY <1>0, <1>1, <2>1
  <2>3. lease[k].owner = g[1] BY <2>1, <2>2 DEF Renewable
  <2>4. lease'[k] = Renewed(g[1], delay) BY <1>0, <2>1, <2>2
  <2> QED BY <2>3, <2>4 DEF Renewed
<1>6. CASE Tick
  <2>1. lease'[k] = [lease[k] EXCEPT !.left = AtLeast(lease[k].left - 1, - MaxDelay)]
    BY <1>6 DEF Tick
  <2>2. lease'[k].owner = lease[k].owner /\ lease'[k].status = lease[k].status
    BY <1>0, <2>1 DEF Rows
  <2> QED BY <1>0, <2>2
<1>7. CASE ExpireStaleLeases
  <2>1. ~(lease[k].left <= 0) BY <1>0
  <2> QED BY <1>1, <1>7, <2>1 DEF ExpireStaleLeases
<1>8. CASE UNCHANGED vars BY <1>1, <1>8 DEF vars
<1> QED BY <1>2, <1>3, <1>4, <1>5, <1>6, <1>7, <1>8 DEF Next, Proceed

\* A late heartbeat, a late release, an expiry and a takeover never end the live
\* lease of another worker (the conditions of acquire_lease, heartbeat,
\* release_lease and expire_stale_leases), for every delay of their statements.
THEOREM LiveLeaseIsEndedByOwner == Spec => OnlyOwnerEndsLease
<1>1. Init => AtALease
  <2>1. ASSUME NEW w \in Workers PROVE 1 \in 1..Len(Leases[w])
    <3>1. Len(Leases[w]) \in Nat \ {0} BY LeasesOf
    <3> QED BY <3>1
  <2> QED BY <2>1 DEF Init, AtALease
<1>2. TypeOK /\ AtALease /\ [Next]_vars => AtALease' BY StaysAtALease
<1>3. TypeOK /\ AtALease /\ [Next]_vars =>
        [\A k \in Keys :
            LET w == lease[k].owner
            IN  /\ Live(k)
                /\ lease'[k].owner # w \/ lease'[k].status # "ACTIVE"
                => Releasing(w) /\ ~held'[<<w, k>>]]_vars
  BY LiveRowStep
<1> QED BY <1>1, <1>2, <1>3, LeaseTypes, PTL DEF Spec, OnlyOwnerEndsLease
-----------------------------------------------------------------------------
(* What a worker leaves behind. *)

\* The guards a worker has not entered yet, or has left.
Outside(w, i) ==
    \/ pc[w] \in {"standby", "ended", "failed", "dead"}
    \/ pc[w] = "enter" /\ i >= pos[w]
    \/ Leaving(w) /\ i > pos[w]

HeldInside == \A w \in Workers : \A i \in 1..Len(Leases[w]) :
    Outside(w, i) => ~held[<<w, Leases[w][i]>>]

\* A guard without its lease has no thread that will call again. Unless a statement failed
\* or the process died, the row is not live in its name, and a heartbeat still under way
\* finds nothing to renew.
NothingKept == \A g \in Guards : ~held[g] =>
    /\ thread[g].at # "wait"
    /\ errors = 0 /\ lease[g[2]].owner = g[1] =>
        /\ pc[g[1]] # "dead" => ~Live(g[2])
        /\ thread[g].at = "call" => lease[g[2]].status # "ACTIVE"

KeepInv == LeaseInv /\ AtALease /\ HeldInside /\ NothingKept

\* The guard of the lease a worker is at, and those of its other leases.
LEMMA PositionGuard == ASSUME KeepInv, NEW w \in Workers
  PROVE /\ pos[w] \in 1..Len(Leases[w]) /\ <<w, Key(w)>> \in Guards /\ Key(w) = Leases[w][pos[w]]
        /\ \A i \in 1..Len(Leases[w]) : <<w, Leases[w][i]>> \in Guards
<1>1. pos[w] \in 1..Len(Leases[w]) /\ <<w, Key(w)>> \in Guards BY GuardOfWorker DEF KeepInv, AtALease
<1>2. \A i \in 1..Len(Leases[w]) : Leases[w][i] \in Keys BY LeasesOf
<1> QED BY <1>1, <1>2 DEF Key, Guards

\* The guard of the position was left, or never taken: the worker goes down one guard.
LEMMA LeftInside ==
  ASSUME KeepInv, NEW w \in Workers, Leaving(w), NEW halted \in BOOLEAN, Left(w, Key(w), halted)
  PROVE HeldInside'
<1> USE DEF KeepInv
<1>0. /\ pc \in [Workers -> Places] /\ pos \in [Workers -> Nat \ {0}] /\ held \in [Guards -> BOOLEAN]
  BY DEF LeaseInv, TypeOK
<1>1. /\ held' = [held EXCEPT ![<<w, Key(w)>>] = FALSE]
      /\ pos' = [pos EXCEPT ![w] = IF @ = 1 THEN 1 ELSE @ - 1]
      /\ pc' = [pc EXCEPT ![w] = IF pos[w] = 1 THEN (IF halted THEN "failed" ELSE AfterExit(w))
                                 ELSE IF halted THEN "unwind" ELSE @]
  BY DEF Left, Lost
<1>2. AfterExit(w) \in {"standby", "ended", "failed"} BY DEF AfterExit, Leaving
<1> SUFFICES ASSUME NEW v \in Workers, NEW i \in 1..Len(Leases[v]), Outside(v, i)', held'[<<v, Leases[v][i]>>]
             PROVE FALSE
  BY DEF HeldInside
<1>3. <<v, Leases[v][i]>> \in Guards /\ held[<<v, Leases[v][i]>>] BY <1>0, <1>1, PositionGuard
<1>4. CASE v = w
  <2>1. i # pos[w] BY <1>0, <1>1, <1>3, <1>4, PositionGuard
  <2>2. ~(i > pos[w]) BY <1>3, <1>4 DEF HeldInside, Outside
  <2>3. i < pos[w] /\ pos[w] # 1 BY <1>0, <1>4, <2>1, <2>2
  <2>4. pos'[w] = pos[w] - 1 /\ pc'[w] \in {pc[w], "unwind"} BY <1>0, <1>1, <2>3
  <2>5. i > pos[w] - 1 BY <1>4, <2>4 DEF Outside, Leaving
  <2> QED BY <1>0, <2>3, <2>5
<1>5. CASE v # w
  <2>1. pc'[v] = pc[v] /\ pos'[v] = pos[v] BY <1>0, <1>1, <1>5
  <2>2. Outside(v, i) BY <2>1 DEF Outside, Leaving
  <2> QED BY <1>3, <2>2 DEF HeldInside
<1> QED BY <1>4, <1>5

\* A worker enters its guards in order, and all of them are inside before its task begins.
LEMMA AcquireInside == ASSUME KeepInv, NEW w \in Workers, Acquire(w) PROVE HeldInside'
<1> USE DEF KeepInv
<1> DEFINE granted == Takeable(Key(w), age[w])
           next == Entered(w, granted)
<1>0. /\ pc \in [Workers -> Places] /\ pos \in [Workers -> Nat \ {0}] /\ held \in [Guards -> BOOLEAN]
  BY DEF LeaseInv, TypeOK
<1>1. /\ held' = [held EXCEPT ![<<w, Key(w)>>] = granted] /\ pc[w] = "enter"
      /\ pos' = [pos EXCEPT ![w] = IF next = "enter" THEN @ + 1 ELSE @]
      /\ pc' = [pc EXCEPT ![w] = next]
  BY DEF Acquire
<1>2. /\ next \in {"enter", "task", "back"}
      /\ next # "enter" => ~(pos[w] < Len(Leases[w]))
  BY DEF Entered
<1> HIDE DEF granted, next
<1> SUFFICES ASSUME NEW v \in Workers, NEW i \in 1..Len(Leases[v]), Outside(v, i)'
             PROVE ~held'[<<v, Leases[v][i]>>]
  BY DEF HeldInside
<1>3. <<v, Leases[v][i]>> \in Guards BY PositionGuard
<1>4. CASE v = w
  <2>1. pc'[w] = next /\ pos'[w] = IF next = "enter" THEN pos[w] + 1 ELSE pos[w] BY <1>0, <1>1
  <2>2. i > pos[w]
    <3>0. i \in Nat /\ pos[w] \in Nat BY <1>0
    <3>1. CASE next = "enter"
      <4>1. i >= pos[w] + 1 BY <1>4, <2>1, <3>1 DEF Outside, Leaving
      <4> QED BY <3>0, <4>1
    <3>2. CASE next # "enter" BY <1>2, <1>4, <2>1, <3>2 DEF Outside, Leaving
    <3> QED BY <3>1, <3>2
  <2>3. <<w, Leases[w][i]>> # <<w, Key(w)>>
    <3>1. pos[w] \in 1..Len(Leases[w]) /\ Key(w) = Leases[w][pos[w]] BY PositionGuard
    <3>2. i \in 1..Len(Leases[w]) /\ i # pos[w] BY <1>0, <1>4, <2>2
    <3>3. Leases[w][i] # Leases[w][pos[w]] BY <3>1, <3>2, LeasesAreDistinct
    <3> QED BY <3>1, <3>3
  <2>4. Outside(w, i) BY <1>0, <1>1, <1>4, <2>2 DEF Outside
  <2> QED BY <1>0, <1>1, <1>3, <1>4, <2>3, <2>4 DEF HeldInside
<1>5. CASE v # w
  <2>1. pc'[v] = pc[v] /\ pos'[v] = pos[v] /\ held'[<<v, Leases[v][i]>>] = held[<<v, Leases[v][i]>>]
    BY <1>0, <1>1, <1>3, <1>5
  <2>2. Outside(v, i) BY <2>1 DEF Outside, Leaving
  <2> QED BY <2>1, <2>2 DEF HeldInside
<1> QED BY <1>4, <1>5


LEMMA NextInside == KeepInv /\ [Next]_vars => HeldInside'
<1> SUFFICES ASSUME KeepInv, [Next]_vars PROVE HeldInside' OBVIOUS
<1>0. /\ pc \in [Workers -> Places] /\ pos \in [Workers -> Nat \ {0}] /\ held \in [Guards -> BOOLEAN]
      /\ HeldInside
  BY DEF KeepInv, LeaseInv, TypeOK
<1>1. CASE UNCHANGED vars BY <1>0, <1>1 DEF vars, HeldInside, Outside, Leaving
<1>2. ASSUME NEW w \in Workers, BeginEnter(w) \/ StopWaiting(w) \/ BeginCycle(w) \/ EndCycle(w)
      PROVE HeldInside'
  <2>1. /\ held' = held /\ (pc[w] = "standby" \/ pc'[w] \in {"task", "cycle"})
        /\ \A v \in Workers : v # w => pc'[v] = pc[v] /\ pos'[v] = pos[v]
    BY <1>0, <1>2 DEF BeginEnter, StopWaiting, BeginCycle, EndCycle
  <2> SUFFICES ASSUME NEW v \in Workers, NEW i \in 1..Len(Leases[v]), Outside(v, i)'
               PROVE ~held[<<v, Leases[v][i]>>]
    BY <2>1 DEF HeldInside
  <2>2. Outside(v, i) BY <2>1 DEF Outside, Leaving
  <2> QED BY <1>0, <2>2 DEF HeldInside
<1>3. ASSUME NEW w \in Workers, AcquireError(w) \/ EndTask(w) PROVE HeldInside'
  <2>0. pos[w] \in 1..Len(Leases[w]) /\ Len(Leases[w]) \in Nat BY PositionGuard, LeasesOf
  <2>1. /\ held' = held /\ \A v \in Workers : v # w => pc'[v] = pc[v] /\ pos'[v] = pos[v]
        /\ \/ pc[w] = "enter" /\ pos[w] = 1
           \/ pc[w] = "enter" /\ pc'[w] = "unwind" /\ pos'[w] = pos[w] - 1
           \/ pc'[w] = "exit" /\ pos'[w] = Len(Leases[w])
    BY <1>0, <1>3 DEF AcquireError, EndTask
  <2> SUFFICES ASSUME NEW v \in Workers, NEW i \in 1..Len(Leases[v]), Outside(v, i)'
               PROVE ~held[<<v, Leases[v][i]>>]
    BY <2>1 DEF HeldInside
  <2>2. Outside(v, i) BY <2>0, <2>1 DEF Outside, Leaving
  <2> QED BY <1>0, <2>2 DEF HeldInside
<1>4. ASSUME NEW w \in Workers, Acquire(w) PROVE HeldInside' BY <1>4, AcquireInside
<1>5. ASSUME NEW w \in Workers, ExitGuard(w) \/ Release(w) \/ ReleaseError(w) PROVE HeldInside'
  <2>1. CASE ExitGuard(w) /\ held[<<w, Key(w)>>]
    <3>1. UNCHANGED <<held, pos, pc>> BY <2>1 DEF ExitGuard
    <3> QED BY <1>0, <3>1 DEF HeldInside, Outside, Leaving
  <2>2. CASE ~(ExitGuard(w) /\ held[<<w, Key(w)>>])
    BY <1>5, <2>2, LeftInside DEF ExitGuard, Release, ReleaseError, Releasing
  <2> QED BY <2>1, <2>2
<1>6. ASSUME NEW w \in Workers, Crash(w) PROVE HeldInside'
  <2>1. /\ held' = [g \in Guards |-> IF g[1] = w THEN FALSE ELSE held[g]]
        /\ \A v \in Workers : v # w => pc'[v] = pc[v] /\ pos'[v] = pos[v]
    BY <1>0, <1>6 DEF Crash
  <2> SUFFICES ASSUME NEW v \in Workers, NEW i \in 1..Len(Leases[v]), Outside(v, i)'
               PROVE ~held'[<<v, Leases[v][i]>>]
    BY DEF HeldInside
  <2>2. <<v, Leases[v][i]>> \in Guards BY PositionGuard
  <2>3. CASE v = w BY <2>1, <2>2, <2>3
  <2>4. CASE v # w
    <3>1. Outside(v, i) BY <2>1, <2>4 DEF Outside, Leaving
    <3> QED BY <1>0, <2>1, <2>2, <2>4, <3>1 DEF HeldInside
  <2> QED BY <2>3, <2>4
<1>7. ASSUME NEW g \in Guards, BeginBeat(g[1], g[2]) \/ Beat(g[1], g[2]) \/ BeatError(g[1], g[2])
      PROVE HeldInside'
  <2>1. UNCHANGED <<pc, pos>> /\ \A h \in Guards : held'[h] => held[h]
    BY <1>0, <1>7 DEF BeginBeat, Beat, BeatError, Lost
  <2> SUFFICES ASSUME NEW v \in Workers, NEW i \in 1..Len(Leases[v]), Outside(v, i)'
               PROVE ~held'[<<v, Leases[v][i]>>]
    BY DEF HeldInside
  <2>2. <<v, Leases[v][i]>> \in Guards BY PositionGuard
  <2>3. Outside(v, i) BY <2>1 DEF Outside, Leaving
  <2> QED BY <1>0, <2>1, <2>2, <2>3 DEF HeldInside
<1>8. CASE Tick \/ ExpireStaleLeases
  <2>1. UNCHANGED <<pc, pos, held>> BY <1>8 DEF Tick, ExpireStaleLeases
  <2> QED BY <1>0, <2>1 DEF HeldInside, Outside, Leaving
<1> QED BY <1>1, <1>2, <1>3, <1>4, <1>5, <1>6, <1>7, <1>8 DEF Next, Proceed

\* What is known of a guard that has not its lease.
LEMMA Unheld == ASSUME NothingKept, NEW g \in Guards, ~held[g]
  PROVE /\ thread[g].at # "wait"
        /\ errors = 0 /\ lease[g[2]].owner = g[1] =>
            /\ pc[g[1]] # "dead" => ~Live(g[2])
            /\ thread[g].at = "call" => lease[g[2]].status # "ACTIVE"
  BY DEF NothingKept

\* A step that changes no row, no guard and no thread.
LEMMA QuietKept ==
  ASSUME NothingKept, UNCHANGED <<lease, held, thread>>, errors' = 0 => errors = 0,
         \A v \in Workers : pc'[v] # "dead" => pc[v] # "dead"
  PROVE NothingKept'
  BY GuardsArePairs DEF NothingKept, Live

\* A lease that is taken has no other owner any more; one that is refused was not the guard's.
LEMMA AcquireKept == ASSUME KeepInv, NEW w \in Workers, Acquire(w) PROVE NothingKept'
<1> USE DEF KeepInv
<1> DEFINE k == Key(w)
           granted == Takeable(k, age[w])
<1>0. /\ lease \in [Keys -> Rows] /\ pc \in [Workers -> Places] /\ held \in [Guards -> BOOLEAN]
      /\ thread \in [Guards -> [at : {"off", "wait", "call"}, time : Nat]]
  BY DEF LeaseInv, TypeOK, Rows
<1>1. /\ held' = [held EXCEPT ![<<w, k>>] = granted] /\ pc[w] = "enter" /\ pc' = [pc EXCEPT ![w] = Entered(w, granted)]
      /\ lease' = IF granted THEN [lease EXCEPT ![k] = Renewed(w, age[w])] ELSE lease
      /\ thread' = (IF granted THEN [thread EXCEPT ![<<w, k>>] = Waiting] ELSE thread)
      /\ errors' = errors
  BY DEF Acquire
<1>2. granted \in BOOLEAN BY DEF Takeable
<1>3. <<w, k>> \in Guards /\ k \in Keys BY PositionGuard, GuardsArePairs
<1>4. ~held[<<w, k>>]
  <2>1. pos[w] \in 1..Len(Leases[w]) /\ k = Leases[w][pos[w]] BY PositionGuard
  <2>2. Outside(w, pos[w]) BY <1>1, <2>1 DEF Outside
  <2> QED BY <2>1, <2>2 DEF HeldInside
<1>5. Renewed(w, age[w]).owner = w BY DEF Renewed
<1> HIDE DEF k, granted
<1>6. ASSUME NEW g \in Guards, ~held'[g]
      PROVE /\ thread'[g].at # "wait"
            /\ errors' = 0 /\ lease'[g[2]].owner = g[1] =>
                /\ pc'[g[1]] # "dead" => ~Live(g[2])'
                /\ thread'[g].at = "call" => lease'[g[2]].status # "ACTIVE"
  <2>1. g = <<g[1], g[2]>> /\ g[1] \in Workers /\ g[2] \in Keys BY GuardsArePairs
  <2>2. ~held[g] /\ thread'[g] = thread[g] BY <1>0, <1>1, <1>2, <1>3, <1>4, <1>6
  <2>3. lease'[g[2]] = lease[g[2]] \/ lease'[g[2]].owner # g[1]
    <3>1. CASE granted /\ g[2] = k
      <4>1. g[1] # w BY <1>0, <1>1, <1>3, <1>6, <2>1, <3>1
      <4>2. lease'[g[2]] = Renewed(w, age[w]) BY <1>0, <1>1, <1>3, <3>1
      <4> QED BY <1>5, <4>1, <4>2
    <3>2. CASE ~(granted /\ g[2] = k) BY <1>0, <1>1, <2>1, <3>2
    <3> QED BY <3>1, <3>2
  <2>4. pc[g[1]] = "dead" => pc'[g[1]] = "dead" BY <1>0, <1>1, <2>1
  <2> QED BY <1>1, <2>1, <2>2, <2>3, <2>4, Unheld DEF Live
<1> QED BY <1>6 DEF NothingKept

\* A heartbeat renews nothing for a guard that was left, and a guard that loses its lease has no live row.
LEMMA BeatKept ==
  ASSUME KeepInv, NEW w \in Workers, NEW k \in Keys, <<w, k>> \in Guards,
         BeginBeat(w, k) \/ Beat(w, k) \/ BeatError(w, k)
  PROVE NothingKept'
<1> USE DEF KeepInv
<1> DEFINE delay == thread[<<w, k>>].time
<1>0. /\ lease \in [Keys -> Rows] /\ held \in [Guards -> BOOLEAN] /\ errors \in Nat /\ delay \in Nat
      /\ thread \in [Guards -> [at : {"off", "wait", "call"}, time : Nat]]
  BY DEF LeaseInv, TypeOK, Rows
<1>1. pc' = pc BY DEF BeginBeat, Beat, BeatError
<1>2. \A g \in Guards : g = <<w, k>> \/ (held'[g] = held[g] /\ thread'[g] = thread[g])
  BY <1>0 DEF BeginBeat, Beat, BeatError, Lost
<1>3. errors' = 0 => errors = 0 /\ ~BeatError(w, k) BY <1>0 DEF BeginBeat, Beat, BeatError
<1>4. CASE \/ BeginBeat(w, k) \/ BeatError(w, k)
           \/ Beat(w, k) /\ ~Renewable(w, k, delay)
  <2>1. lease' = lease BY <1>4 DEF BeginBeat, Beat, BeatError
  <2>2. ASSUME ~held'[<<w, k>>]
        PROVE thread'[<<w, k>>].at = "off" /\ (errors' = 0 /\ lease[k].owner = w => ~Live(k))
    <3>1. CASE BeginBeat(w, k) BY <2>2, <3>1, Unheld DEF BeginBeat
    <3>2. CASE BeatError(w, k) BY <1>0, <1>3, <3>2 DEF BeatError, Lost, Off
    <3>3. CASE Beat(w, k) /\ ~Renewable(w, k, delay)
      <4>1. thread'[<<w, k>>] = Off BY <1>0, <3>3 DEF Beat, Lost
      <4>2. lease[k].left \in Int BY <1>0 DEF Rows
      <4>3. lease[k].owner = w => ~Live(k) BY <1>0, <3>3, <4>2 DEF Renewable, Live
      <4> QED BY <4>1, <4>3 DEF Off
    <3> QED BY <1>4, <3>1, <3>2, <3>3
  <2>3. ASSUME NEW g \in Guards, ~held'[g]
        PROVE /\ thread'[g].at # "wait"
              /\ errors' = 0 /\ lease'[g[2]].owner = g[1] =>
                  /\ pc'[g[1]] # "dead" => ~Live(g[2])'
                  /\ thread'[g].at = "call" => lease'[g[2]].status # "ACTIVE"
    <3>1. CASE g = <<w, k>>
      <4>1. g[1] = w /\ g[2] = k BY <3>1
      <4> QED BY <2>1, <2>2, <2>3, <3>1, <4>1 DEF Live
    <3>2. CASE g # <<w, k>>
      <4>1. ~held[g] /\ thread'[g] = thread[g] BY <1>2, <2>3, <3>2
      <4> QED BY <1>1, <1>3, <2>1, <4>1, Unheld DEF Live
    <3> QED BY <3>1, <3>2
  <2> QED BY <2>3 DEF NothingKept
<1>5. CASE Beat(w, k) /\ Renewable(w, k, delay)
  <2>1. /\ lease' = [lease EXCEPT ![k] = Renewed(w, delay)] /\ held' = held /\ errors' = errors
        /\ thread' = [thread EXCEPT ![<<w, k>>] = IF Stopped(w, k) THEN Off ELSE Waiting]
        /\ lease[k].owner = w /\ lease[k].status = "ACTIVE" /\ thread[<<w, k>>].at = "call"
    BY <1>5 DEF Beat, Renewable
  <2>2. lease'[k].owner = w BY <1>0, <2>1 DEF Renewed
  <2>3. ASSUME NEW g \in Guards, ~held'[g]
        PROVE /\ thread'[g].at # "wait"
              /\ errors' = 0 /\ lease'[g[2]].owner = g[1] =>
                  /\ pc'[g[1]] # "dead" => ~Live(g[2])'
                  /\ thread'[g].at = "call" => lease'[g[2]].status # "ACTIVE"
    <3>0. g = <<g[1], g[2]>> /\ g[1] \in Workers /\ g[2] \in Keys BY GuardsArePairs
    <3>1. CASE g = <<w, k>>
      <4>1. g[1] = w /\ g[2] = k /\ ~held[g] BY <2>1, <2>3, <3>1
      <4>2. errors # 0 BY <2>1, <3>1, <4>1, Unheld
      <4>3. thread'[g] = Off BY <1>0, <2>1, <3>1, <4>1 DEF Stopped
      <4> QED BY <2>1, <4>2, <4>3 DEF Off
    <3>2. CASE g # <<w, k>>
      <4>1. ~held[g] /\ thread'[g] = thread[g] BY <1>2, <2>3, <3>2
      <4>2. g[2] = k => g[1] # w BY <3>0, <3>2
      <4>3. g[2] # k => lease'[g[2]] = lease[g[2]] BY <1>0, <2>1, <3>0
      <4> QED BY <1>1, <2>1, <2>2, <4>1, <4>2, <4>3, Unheld DEF Live
    <3> QED BY <3>1, <3>2
  <2> QED BY <2>3 DEF NothingKept
<1> QED BY <1>4, <1>5

\* A guard that is left releases the row that is its own; nothing changes for the others.
LEMMA ExitKept ==
  ASSUME KeepInv, NEW w \in Workers, ExitGuard(w) \/ Release(w) \/ ReleaseError(w)
  PROVE NothingKept'
<1> USE DEF KeepInv
<1> DEFINE k == Key(w)
           g0 == <<w, k>>
<1>0. /\ lease \in [Keys -> Rows] /\ held \in [Guards -> BOOLEAN] /\ errors \in Nat /\ pc \in [Workers -> Places]
      /\ thread \in [Guards -> [at : {"off", "wait", "call"}, time : Nat]]
  BY DEF LeaseInv, TypeOK, Rows
<1>1. g0 \in Guards /\ k \in Keys BY PositionGuard, GuardsArePairs
<1>2. \A v \in Workers : pc[v] = "dead" => pc'[v] = "dead"
  <2>1. Leaving(w) /\ AfterExit(w) # "dead" BY DEF ExitGuard, Release, ReleaseError, Releasing, Leaving, AfterExit
  <2>2. \E to \in Places : pc' = [pc EXCEPT ![w] = to]
    <3>1. AfterExit(w) \in Places BY <2>1 DEF AfterExit, Leaving, Places
    <3>2. pc[w] \in Places BY <1>0
    <3>3. pc' = pc \/ pc' = [pc EXCEPT ![w] = "failed"] \/ pc' = [pc EXCEPT ![w] = AfterExit(w)]
            \/ pc' = [pc EXCEPT ![w] = "unwind"] \/ pc' = [pc EXCEPT ![w] = pc[w]]
      BY DEF ExitGuard, Release, ReleaseError, Left
    <3>4. pc' = pc => pc' = [pc EXCEPT ![w] = pc[w]] BY <1>0
    <3> QED BY <3>1, <3>2, <3>3, <3>4 DEF Places
  <2>3. pc[w] # "dead" BY <2>1 DEF Leaving
  <2>4. \A v \in Workers : v # w => pc'[v] = pc[v] BY <1>0, <2>2
  <2> QED BY <2>3, <2>4
<1>3. errors' = 0 => errors = 0 /\ ~ReleaseError(w)
  <2>1. ReleaseError(w) => errors' = errors + 1 BY DEF ReleaseError
  <2>2. ~ReleaseError(w) => errors' = errors BY DEF ExitGuard, Release
  <2> QED BY <1>0, <2>1, <2>2
<1>4. \A g \in Guards : g = g0 \/ (held'[g] = held[g] /\ thread'[g] = thread[g])
  BY <1>0 DEF ExitGuard, Release, ReleaseError, Left, Lost
<1>5. /\ held'[g0] => held[g0]
      /\ ~held'[g0] => thread'[g0].at # "wait" /\ (thread'[g0].at = "call" => thread[g0].at = "call")
      /\ ~held'[g0] /\ held[g0] => Release(w) \/ ReleaseError(w)
  BY <1>0, <1>1 DEF ExitGuard, Release, ReleaseError, Left, Lost, Off
<1>6. lease' = lease \/ (Release(w) /\ lease' = Released(w, k, IF pc[w] = "unwind" THEN "FAILED" ELSE "RELEASED"))
  BY DEF ExitGuard, Release, ReleaseError
<1>7. \A x \in Keys : x # k => lease'[x] = lease[x] BY <1>0, <1>6 DEF Released
<1>8. /\ lease'[k].owner = lease[k].owner
      /\ lease'[k] # lease[k] => lease[k].owner = w
      /\ Release(w) /\ lease'[k].owner = w => lease'[k].status # "ACTIVE"
  <2>1. CASE Release(w)
    <3>0. (IF pc[w] = "unwind" THEN "FAILED" ELSE "RELEASED") # "ACTIVE" OBVIOUS
    <3>1. CASE lease[k].owner = w /\ lease[k].status = "ACTIVE"
      <4>1. lease'[k] = Closed(lease[k], IF pc[w] = "unwind" THEN "FAILED" ELSE "RELEASED")
        BY <1>0, <1>1, <2>1, <3>1 DEF Release, Released
      <4>2. lease[k] \in Rows BY <1>0, <1>1
      <4> QED BY <3>0, <3>1, <4>1, <4>2 DEF Closed, Rows
    <3>2. CASE ~(lease[k].owner = w /\ lease[k].status = "ACTIVE") BY <2>1, <3>2 DEF Release, Released
    <3> QED BY <3>1, <3>2
  <2>2. CASE ~Release(w) BY <1>6, <2>2
  <2> QED BY <2>1, <2>2
<1> HIDE DEF k
<1>9. ASSUME NEW g \in Guards, ~held'[g]
      PROVE /\ thread'[g].at # "wait"
            /\ errors' = 0 /\ lease'[g[2]].owner = g[1] =>
                /\ pc'[g[1]] # "dead" => ~Live(g[2])'
                /\ thread'[g].at = "call" => lease'[g[2]].status # "ACTIVE"
  <2>0. g = <<g[1], g[2]>> /\ g[1] \in Workers /\ g[2] \in Keys BY GuardsArePairs
  <2>1. CASE g = g0
    <3>1. g[1] = w /\ g[2] = k BY <2>1
    <3>2. CASE held[g0]
      <4>1. errors' = 0 => Release(w) BY <1>3, <1>5, <1>9, <2>1, <3>2
      <4> QED BY <1>5, <1>8, <1>9, <2>1, <3>1, <4>1 DEF Live
    <3>3. CASE ~held[g0]
      <4>1. lease'[k] = lease[k] \/ lease'[k].status # "ACTIVE" BY <1>6, <1>8
      <4> QED BY <1>2, <1>3, <1>5, <1>8, <1>9, <2>0, <2>1, <3>1, <3>3, <4>1, Unheld DEF Live
    <3> QED BY <3>2, <3>3
  <2>2. CASE g # g0
    <3>1. ~held[g] /\ thread'[g] = thread[g] BY <1>4, <1>9, <2>2
    <3>2. lease'[g[2]].owner = g[1] => lease'[g[2]] = lease[g[2]] BY <1>7, <1>8, <2>0, <2>2
    <3> QED BY <1>2, <1>3, <2>0, <3>1, <3>2, Unheld DEF Live
  <2> QED BY <2>1, <2>2
<1> QED BY <1>9 DEF NothingKept

\* Time and the expiry of stale rows only end leases; a process that dies stops its threads.
LEMMA ClockKept == ASSUME KeepInv, Tick \/ ExpireStaleLeases PROVE NothingKept'
<1> USE DEF KeepInv
<1>0. /\ lease \in [Keys -> Rows] /\ thread \in [Guards -> [at : {"off", "wait", "call"}, time : Nat]]
  BY DEF LeaseInv, TypeOK, Rows
<1>1. /\ UNCHANGED <<pc, held, errors>> /\ \A g \in Guards : thread'[g].at = thread[g].at
  BY <1>0 DEF Tick, ExpireStaleLeases
<1>2. ASSUME NEW x \in Keys
      PROVE /\ lease'[x].owner = lease[x].owner
            /\ lease'[x].status = "ACTIVE" => lease[x].status = "ACTIVE"
            /\ Live(x)' => Live(x)
  <2>0. lease[x] \in Rows /\ lease[x].left \in Int BY <1>0 DEF Rows
  <2>1. CASE Tick
    <3>1. lease'[x] = [lease[x] EXCEPT !.left = AtLeast(lease[x].left - 1, - MaxDelay)] BY <2>1 DEF Tick
    <3>2. lease'[x].left > 0 => lease[x].left > 0
      BY <2>0, <3>1, DelayIsNatural DEF AtLeast, Rows
    <3> QED BY <2>0, <3>1, <3>2 DEF Rows, Live
  <2>2. CASE ExpireStaleLeases
    <3>1. lease'[x] = lease[x] \/ lease'[x] = Closed(lease[x], "EXPIRED") BY <2>2 DEF ExpireStaleLeases
    <3> QED BY <2>0, <3>1 DEF Closed, Rows, Live
  <2> QED BY <2>1, <2>2
<1>3. ASSUME NEW g \in Guards, ~held'[g]
      PROVE /\ thread'[g].at # "wait"
            /\ errors' = 0 /\ lease'[g[2]].owner = g[1] =>
                /\ pc'[g[1]] # "dead" => ~Live(g[2])'
                /\ thread'[g].at = "call" => lease'[g[2]].status # "ACTIVE"
  <2>0. g[2] \in Keys /\ ~held[g] BY <1>1, <1>3, GuardsArePairs
  <2> QED BY <1>1, <1>2, <2>0, Unheld
<1> QED BY <1>3 DEF NothingKept

LEMMA CrashKept == ASSUME KeepInv, NEW w \in Workers, Crash(w) PROVE NothingKept'
<1> USE DEF KeepInv
<1>0. pc \in [Workers -> Places] BY DEF LeaseInv, TypeOK
<1>1. /\ UNCHANGED <<lease, errors>> /\ pc' = [pc EXCEPT ![w] = IF @ \in {"ended", "failed"} THEN @ ELSE "dead"]
      /\ held' = [g \in Guards |-> IF g[1] = w THEN FALSE ELSE held[g]]
      /\ thread' = [g \in Guards |-> IF g[1] = w THEN Off ELSE thread[g]]
  BY DEF Crash
<1>2. ASSUME NEW g \in Guards, ~held'[g]
      PROVE /\ thread'[g].at # "wait"
            /\ errors' = 0 /\ lease'[g[2]].owner = g[1] =>
                /\ pc'[g[1]] # "dead" => ~Live(g[2])'
                /\ thread'[g].at = "call" => lease'[g[2]].status # "ACTIVE"
  <2>0. g[1] \in Workers /\ g = <<g[1], g[2]>> BY GuardsArePairs
  <2>1. CASE g[1] = w
    <3>1. thread'[g] = Off BY <1>1, <2>1
    <3>2. CASE pc[w] \in {"ended", "failed"}
      <4>1. PICK i \in 1..Len(Leases[w]) : Leases[w][i] = g[2] BY <2>1 DEF Guards
      <4>2. Outside(w, i) BY <3>2 DEF Outside
      <4>3. ~held[g] BY <2>0, <2>1, <4>1, <4>2 DEF HeldInside
      <4> QED BY <1>0, <1>1, <2>1, <3>1, <3>2, <4>3, Unheld DEF Live, Off
    <3>3. CASE pc[w] \notin {"ended", "failed"} BY <1>0, <1>1, <2>1, <3>1, <3>3 DEF Off
    <3> QED BY <3>2, <3>3
  <2>2. CASE g[1] # w
    <3>1. ~held[g] /\ thread'[g] = thread[g] /\ pc'[g[1]] = pc[g[1]] BY <1>0, <1>1, <1>2, <2>0, <2>2
    <3> QED BY <1>1, <3>1, Unheld DEF Live
  <2> QED BY <2>1, <2>2
<1> QED BY <1>2 DEF NothingKept

LEMMA NextKept == KeepInv /\ [Next]_vars => NothingKept'
<1> SUFFICES ASSUME KeepInv, [Next]_vars PROVE NothingKept' OBVIOUS
<1>0. NothingKept /\ pc \in [Workers -> Places] /\ errors \in Nat BY DEF KeepInv, LeaseInv, TypeOK
<1>1. CASE UNCHANGED vars BY <1>0, <1>1, QuietKept DEF vars
<1>2. ASSUME NEW w \in Workers, \/ BeginEnter(w) \/ AcquireError(w) \/ BeginCycle(w) \/ EndCycle(w)
                                \/ EndTask(w) \/ StopWaiting(w)
      PROVE NothingKept'
  <2>1. UNCHANGED <<lease, held, thread>> /\ (errors' = 0 => errors = 0)
    BY <1>0, <1>2 DEF BeginEnter, AcquireError, BeginCycle, EndCycle, EndTask, StopWaiting
  <2>2. \A v \in Workers : pc'[v] # "dead" => pc[v] # "dead"
    BY <1>0, <1>2 DEF BeginEnter, AcquireError, BeginCycle, EndCycle, EndTask, StopWaiting
  <2> QED BY <1>0, <2>1, <2>2, QuietKept
<1>3. ASSUME NEW g \in Guards, BeginBeat(g[1], g[2]) \/ Beat(g[1], g[2]) \/ BeatError(g[1], g[2])
      PROVE NothingKept'
  BY <1>3, BeatKept, GuardsArePairs
<1> QED BY <1>1, <1>2, <1>3, AcquireKept, ExitKept, ClockKept, CrashKept DEF Next, Proceed

\* A worker that waits again, or is done, keeps nothing: no thread of it calls again, and
\* unless a statement failed no live row is its, for any number of workers and leases,
\* although a heartbeat may be under way while its guard is left.
THEOREM NothingIsLeftBehind == Spec => []NoLeaseLeftBehind
<1>1. Init => AtALease /\ HeldInside /\ NothingKept
  <2> SUFFICES ASSUME Init PROVE AtALease /\ HeldInside /\ NothingKept OBVIOUS
  <2>1. ASSUME NEW w \in Workers PROVE pos[w] = 1 /\ 1 \in 1..Len(Leases[w])
    <3>1. Len(Leases[w]) \in Nat \ {0} BY LeasesOf
    <3> QED BY <3>1 DEF Init
  <2>2. AtALease BY <2>1 DEF AtALease
  <2>3. HeldInside
    <3>1. ASSUME NEW w \in Workers, NEW i \in 1..Len(Leases[w]) PROVE <<w, Leases[w][i]>> \in Guards
      BY LeasesOf DEF Guards
    <3> QED BY <3>1 DEF Init, HeldInside
  <2>4. NothingKept BY GuardsArePairs DEF Init, NothingKept, Off, Live
  <2> QED BY <2>2, <2>3, <2>4
<1>2. TypeOK /\ AtALease /\ [Next]_vars => AtALease' BY StaysAtALease
<1>3. LeaseInv => TypeOK BY DEF LeaseInv
<1>4. KeepInv => NoLeaseLeftBehind
  <2> SUFFICES ASSUME KeepInv, NEW g \in Guards, pc[g[1]] \in {"standby", "ended"}
               PROVE /\ thread[g].at # "wait"
                     /\ errors = 0 /\ lease[g[2]].owner = g[1] => ~Live(g[2])
    BY DEF NoLeaseLeftBehind
  <2>1. g = <<g[1], g[2]>> /\ g[1] \in Workers BY GuardsArePairs
  <2>2. PICK i \in 1..Len(Leases[g[1]]) : Leases[g[1]][i] = g[2] BY DEF Guards
  <2>3. ~held[g] BY <2>1, <2>2 DEF KeepInv, HeldInside, Outside
  <2> QED BY <2>3, Unheld DEF KeepInv
<1> QED BY <1>1, <1>2, <1>3, <1>4, LeaseInvariant, NextInside, NextKept, PTL DEF Spec, KeepInv
=============================================================================
