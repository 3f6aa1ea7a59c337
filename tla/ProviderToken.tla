--------------------------- MODULE ProviderToken ---------------------------
(***************************************************************************)
(* The access token of the market-data provider (DhanClient in             *)
(* backend/collector.py).  The clients of several processes and threads    *)
(* share a token file and no lock.  Tokens are numbered as the provider    *)
(* issues them; the provider may or may not revoke the older ones when it  *)
(* issues another.                                                         *)
(***************************************************************************)
EXTENDS Integers, FiniteSets

CONSTANTS
    Clients,
    MaxTokens       \* bound: tokens that are issued

ASSUME MaxTokensIsNatural == MaxTokens \in Nat

VARIABLES
    tokenFile,      \* the token on file, 0: none
    fileUsable,     \* its expiry is more than five minutes away
    accepted,       \* the tokens that the provider accepts
    issued,
    tAt,            \* client -> where its request is
    tHeld,          \* client -> the token it sends or was issued
    tTry,           \* client -> 1, or 2 after a refused token
    disturbed       \* client -> whether a token changed under its request

tokenVars == <<tokenFile, fileUsable, accepted, issued, tAt, tHeld, tTry, disturbed>>
-----------------------------------------------------------------------------
\* _load_cached_token.
Cached == IF fileUsable THEN tokenFile ELSE 0

\* Every request under way but that of c.
DisturbOthers(c) == disturbed' = [d \in Clients |-> disturbed[d] \/ (d # c /\ tAt[d] # "idle")]

\* access_token: the file, or a new one.
BeginTokenRequest(c) ==
    /\ tAt[c] \in {"idle", "done", "refused", "error"}
    /\ tTry' = [tTry EXCEPT ![c] = 1]
    /\ tHeld' = [tHeld EXCEPT ![c] = Cached]
    /\ tAt' = [tAt EXCEPT ![c] = IF Cached = 0 THEN "generate" ELSE "send"]
    /\ disturbed' = [disturbed EXCEPT ![c] = FALSE]
    /\ UNCHANGED <<tokenFile, fileUsable, accepted, issued>>

\* _generate_access_token.  _request_json repeats the call when the answer is lost,
\* so that a token may be issued that nobody knows.
Issue(c) ==
    /\ tAt[c] = "generate" /\ issued < MaxTokens
    /\ issued' = issued + 1
    /\ accepted' \in {{issued + 1}, accepted \cup {issued + 1}}
    /\ DisturbOthers(c)
GenerateToken(c) ==
    /\ Issue(c)
    /\ tHeld' = [tHeld EXCEPT ![c] = issued + 1]
    /\ tAt' = [tAt EXCEPT ![c] = "write"]
    /\ UNCHANGED <<tokenFile, fileUsable, tTry>>
GenerateAnswerLost(c) == Issue(c) /\ UNCHANGED <<tokenFile, fileUsable, tAt, tHeld, tTry>>

\* _write_json_atomically: whoever is later wins, with the older token too.
WriteToken(c) ==
    /\ tAt[c] = "write"
    /\ tokenFile' = tHeld[c] /\ fileUsable' = TRUE
    /\ tAt' = [tAt EXCEPT ![c] = "send"]
    /\ DisturbOthers(c)
    /\ UNCHANGED <<accepted, issued, tHeld, tTry>>

\* _request_with_access_token: the second refusal is passed on.
SendRequest(c) ==
    /\ tAt[c] = "send"
    /\ tAt' = [tAt EXCEPT ![c] = IF tHeld[c] \in accepted THEN "done"
                                 ELSE IF tTry[c] = 1 THEN "refresh" ELSE "refused"]
    /\ UNCHANGED <<tokenFile, fileUsable, accepted, issued, tHeld, tTry, disturbed>>

\* _refresh_access_token: the file when it holds another token than the refused one.
ReusableAny(c) == Cached # 0
Reusable(c) == Cached \notin {0, tHeld[c]}
RefreshToken(c) ==
    /\ tAt[c] = "refresh"
    /\ tTry' = [tTry EXCEPT ![c] = 2]
    /\ tAt' = [tAt EXCEPT ![c] = IF Reusable(c) THEN "send" ELSE "generate"]
    /\ tHeld' = [tHeld EXCEPT ![c] = IF Reusable(c) THEN Cached ELSE @]
    /\ UNCHANGED <<tokenFile, fileUsable, accepted, issued, disturbed>>

\* Any other error of the provider, after the retries.
ProviderFails(c) ==
    /\ tAt[c] \in {"send", "generate"}
    /\ tAt' = [tAt EXCEPT ![c] = "error"]
    /\ UNCHANGED <<tokenFile, fileUsable, accepted, issued, tHeld, tTry, disturbed>>

\* The provider forgets a token before its time, or the expiry on file comes near.
RevokeToken(t) ==
    /\ t \in accepted
    /\ accepted' = accepted \ {t}
    /\ disturbed' = [d \in Clients |-> disturbed[d] \/ tAt[d] # "idle"]
    /\ UNCHANGED <<tokenFile, fileUsable, issued, tAt, tHeld, tTry>>
TokenExpires ==
    /\ fileUsable
    /\ fileUsable' = FALSE
    /\ UNCHANGED <<tokenFile, accepted, issued, tAt, tHeld, tTry, disturbed>>
-----------------------------------------------------------------------------
TokenInit ==
    /\ tokenFile = 0 /\ fileUsable = FALSE /\ accepted = {} /\ issued = 0
    /\ tAt = [c \in Clients |-> "idle"] /\ tHeld = [c \in Clients |-> 0]
    /\ tTry = [c \in Clients |-> 1] /\ disturbed = [c \in Clients |-> FALSE]

TokenNext ==
    \/ TokenExpires \/ \E t \in accepted : RevokeToken(t)
    \/ \E c \in Clients :
        \/ BeginTokenRequest(c) \/ GenerateToken(c) \/ GenerateAnswerLost(c) \/ WriteToken(c)
        \/ SendRequest(c) \/ RefreshToken(c) \/ ProviderFails(c)

TokenSpec == TokenInit /\ [][TokenNext]_tokenVars
-----------------------------------------------------------------------------
\* One retry is enough: a request whose token is refused twice ran while another
\* client replaced the token, or the provider revoked one.  On its own a client
\* recovers from any stale token, expired, revoked or overwritten by a slow writer.
OneRetryIsEnough == \A c \in Clients : tAt[c] = "refused" => disturbed[c]
=============================================================================
