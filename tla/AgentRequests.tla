---------------------------- MODULE AgentRequests ----------------------------
(***************************************************************************)
(* The submission tools of research agents: tokens with a limit per        *)
(* minute, and the request records that make a submission happen at most   *)
(* once (backend/agent/repository.py, MCPGateway.call of                   *)
(* backend/agent/mcp.py and the route of backend/api/agent_routes.py).     *)
(* Agents repeat a call whenever they like, also beside the first one, and *)
(* the connection, the server or the database may fail at any step.        *)
(*                                                                         *)
(* A key stands for token, tool and idempotency key; the body of a request *)
(* for its hash.  Reading tools change nothing and are left out.           *)
(***************************************************************************)
EXTENDS Integers, Sequences, FiniteSets

CONSTANTS
    Calls,          \* calls that may be under way together
    AgentKeys,
    Bodies,
    MinuteLimit,    \* rate_limit_per_minute
    MaxMinutes      \* bound: minutes

ASSUME AgentBounds == {MinuteLimit, MaxMinutes} \subseteq Nat

VARIABLES
    minute,
    tokenUsable,    \* neither revoked nor expired
    inWindow,       \* requests counted in this minute
    toolRequests,   \* key -> its row of agent_tool_requests
    submissions,    \* the runs that were created: <<key, body>> in their order
    call,           \* call -> where it is
    answered        \* the answers that agents got

agentVars == <<minute, tokenUsable, inWindow, toolRequests, submissions, call, answered>>
-----------------------------------------------------------------------------
NoRequest == [status |-> "none", body |-> "none", run |-> 0]
NoCall == [at |-> "idle", key |-> "none", body |-> "none", run |-> 0]

\* What the agent gets: "ok" with the number of the run, or an error.
Answer(c, outcome, run) ==
    /\ answered' = answered \cup {[key |-> call[c].key, body |-> call[c].body, outcome |-> outcome, run |-> run]}
    /\ call' = [call EXCEPT ![c] = NoCall]
-----------------------------------------------------------------------------
MinutePasses ==
    /\ minute < MaxMinutes
    /\ minute' = minute + 1 /\ inWindow' = 0
    /\ UNCHANGED <<tokenUsable, toolRequests, submissions, call, answered>>

\* revoke, or the expiry.
TokenEnds ==
    /\ tokenUsable
    /\ tokenUsable' = FALSE
    /\ UNCHANGED <<minute, inWindow, toolRequests, submissions, call, answered>>

\* authenticate: one transaction, which counts the request.
Authenticate(c, key, body) ==
    /\ call[c].at = "idle" /\ tokenUsable /\ inWindow < MinuteLimit
    /\ inWindow' = inWindow + 1
    /\ call' = [call EXCEPT ![c] = [NoCall EXCEPT !.at = "begin", !.key = key, !.body = body]]
    /\ UNCHANGED <<minute, tokenUsable, toolRequests, submissions, answered>>

\* begin_tool_request: whoever inserts the row goes on; all others are answered from it.
CreatedUnlessComplete(request) == request.status \in {"none", "FAILED"}
Created(request) == request.status = "none"
BeginToolRequest(c) ==
    /\ call[c].at = "begin"
    /\ LET key == call[c].key
           request == toolRequests[key]
       IN  \/ /\ Created(request)
              /\ toolRequests' = [toolRequests EXCEPT ![key] = [NoRequest EXCEPT !.status = "PENDING", !.body = call[c].body]]
              /\ call' = [call EXCEPT ![c].at = "invoke"]
              /\ UNCHANGED answered
           \/ /\ ~Created(request)
              /\ IF request.body # call[c].body THEN Answer(c, "IDEMPOTENCY_CONFLICT", 0)
                 ELSE IF request.status = "COMPLETE" THEN Answer(c, "ok", request.run)
                 ELSE IF request.status = "FAILED" THEN Answer(c, "PREVIOUS_REQUEST_FAILED", 0)
                 ELSE Answer(c, "REQUEST_IN_PROGRESS", 0)
              /\ UNCHANGED toolRequests
    /\ UNCHANGED <<minute, tokenUsable, inWindow, submissions>>

\* _invoke and _dispatch.  The workflow may refuse, or answer with an error although
\* it stored the run; an answer beyond the limit is an error too.
Invoke(c, stores, answers) ==
    /\ call[c].at = "invoke" /\ (answers => stores)
    /\ submissions' = IF stores THEN Append(submissions, <<call[c].key, call[c].body>>) ELSE submissions
    /\ call' = [call EXCEPT ![c].at = IF answers THEN "complete" ELSE "fail", ![c].run = IF answers THEN Len(submissions) + 1 ELSE 0]
    /\ UNCHANGED <<minute, tokenUsable, inWindow, toolRequests, answered>>

\* complete_tool_request and fail_tool_request write over a PENDING row only.
EndRequest(key, status, run) ==
    toolRequests' = [toolRequests EXCEPT ![key] =
        IF @.status = "PENDING" THEN [@ EXCEPT !.status = status, !.run = run] ELSE @]
CompleteToolRequest(c) ==
    /\ call[c].at = "complete"
    /\ EndRequest(call[c].key, "COMPLETE", call[c].run)
    /\ Answer(c, "ok", call[c].run)
    /\ UNCHANGED <<minute, tokenUsable, inWindow, submissions>>
FailToolRequest(c) ==
    /\ call[c].at = "fail"
    /\ EndRequest(call[c].key, "FAILED", 0)
    /\ Answer(c, "FAILED", 0)
    /\ UNCHANGED <<minute, tokenUsable, inWindow, submissions>>

\* The database refuses the completion: the request is failed instead, although the
\* run is there.  When that is refused as well the row stays PENDING.
StoreFails(c) ==
    /\ call[c].at \in {"complete", "fail"}
    /\ IF call[c].at = "complete"
       THEN call' = [call EXCEPT ![c].at = "fail", ![c].run = 0] /\ UNCHANGED answered
       ELSE Answer(c, "INTERNAL_ERROR", 0)
    /\ UNCHANGED <<minute, tokenUsable, inWindow, toolRequests, submissions>>

\* The agent disconnects, or the server dies: the call ends where it is.
CallLost(c) ==
    /\ call[c].at # "idle"
    /\ call' = [call EXCEPT ![c] = NoCall]
    /\ UNCHANGED <<minute, tokenUsable, inWindow, toolRequests, submissions, answered>>
-----------------------------------------------------------------------------
AgentInit ==
    /\ minute = 0 /\ tokenUsable = TRUE /\ inWindow = 0
    /\ toolRequests = [k \in AgentKeys |-> NoRequest] /\ submissions = <<>>
    /\ call = [c \in Calls |-> NoCall] /\ answered = {}

AgentNext ==
    \/ MinutePasses \/ TokenEnds
    \/ \E c \in Calls :
        \/ BeginToolRequest(c) \/ CompleteToolRequest(c) \/ FailToolRequest(c) \/ StoreFails(c) \/ CallLost(c)
        \/ \E key \in AgentKeys, body \in Bodies : Authenticate(c, key, body)
        \/ \E stores, answers \in BOOLEAN : Invoke(c, stores, answers)

AgentSpec == AgentInit /\ [][AgentNext]_agentVars
-----------------------------------------------------------------------------
\* A key is submitted at most once, however often and with whatever body its request
\* is repeated, also after a failure that was reported although the run exists; and
\* every agent that is told of success gets that run, made of the body it sent.
SubmittedOnce ==
    /\ \A i, j \in DOMAIN submissions : submissions[i][1] = submissions[j][1] => i = j
    /\ \A a \in answered : a.outcome = "ok" => submissions[a.run] = <<a.key, a.body>>
=============================================================================
