------------------------------ MODULE ProxyToken -------------------------------
(***************************************************************************)
(* The bearer token all model calls of a process share                     *)
(* (model/proxy_gateway.py ProxyTokenProvider and the httpx auth flow):    *)
(* cached while it is fresh, minted under a lock, minted again by a        *)
(* request that was refused with a 401.  Tokens are numbered in the order  *)
(* of minting.                                                             *)
(***************************************************************************)
EXTENDS Naturals, WorkerThreads

CONSTANTS
    MaxTokens,    \* bound: tokens minted
    MaxExpiries   \* bound: times the TTL runs out

VARIABLES
    _token,       \* the newest token, 0 before the first
    fresh,        \* _fresh(): there is one and its TTL is not over
    refused,      \* the proxy refuses the tokens 1 .. refused
    _lock,        \* the thread that holds the provider's lock, or "free"
    request,      \* thread -> its request
    minted,       \* unforced mints so far
    expiries      \* times a TTL ran out

tokenVars == <<_token, fresh, refused, _lock, request, minted, expiries>>

NoRequest == [at |-> "none", token |-> 0, first |-> 0]

TokenInit ==
    /\ _token = 0 /\ fresh = FALSE /\ refused = 0
    /\ _lock = "free"
    /\ request = [t \in Threads |-> NoRequest]
    /\ minted = 0 /\ expiries = 0

In(t, where) == request[t].at = where
Becomes(t, where, token) ==
    request' = [request EXCEPT ![t].at = where, ![t].token = token]

\* token(): a cache hit takes no lock.
Asks(t) ==
    /\ In(t, "none")
    /\ request' = [request EXCEPT ![t] =
           [at |-> IF fresh THEN "holding" ELSE "waiting",
            token |-> IF fresh THEN _token ELSE 0, first |-> 0]]
    /\ UNCHANGED <<_token, fresh, refused, _lock, minted, expiries>>

\* token(force=True): the answer to the first attempt was 401.
AsksAgain(t) ==
    /\ In(t, "refused")
    /\ Becomes(t, "forcing", request[t].token)
    /\ UNCHANGED <<_token, fresh, refused, _lock, minted, expiries>>

Locks(t) ==
    /\ request[t].at \in {"waiting", "forcing"} /\ _lock = "free"
    /\ _lock' = t
    /\ UNCHANGED <<_token, fresh, refused, request, minted, expiries>>

\* Under the lock: another thread may have refreshed while this one waited.
StillFresh_unchecked(t) == FALSE
StillFresh(t) == fresh /\ In(t, "waiting")

Mints(t) ==
    /\ _lock = t
    /\ \/ /\ StillFresh(t)
          /\ Becomes(t, "holding", _token)
          /\ UNCHANGED <<_token, fresh, minted>>
       \/ /\ ~StillFresh(t) /\ _token < MaxTokens
          /\ _token' = _token + 1
          /\ fresh' = TRUE
          /\ minted' = IF In(t, "waiting") THEN minted + 1 ELSE minted
          /\ Becomes(t, "holding", _token + 1)
       \/ /\ ~StillFresh(t)                       \* the minter raises
          /\ request' = [request EXCEPT ![t] = NoRequest]
          /\ UNCHANGED <<_token, fresh, minted>>
    /\ _lock' = "free"
    /\ UNCHANGED <<refused, expiries>>

\* The request goes out; a second 401 is the caller's answer.
Sends(t) ==
    /\ In(t, "holding")
    /\ LET token == request[t].token
           again == request[t].first # 0
       IN request' = [request EXCEPT ![t] =
              IF token <= refused /\ ~again
              THEN [at |-> "refused", token |-> token, first |-> token]
              ELSE NoRequest]
    /\ UNCHANGED <<_token, fresh, refused, _lock, minted, expiries>>

TokenStep(t) == Asks(t) \/ AsksAgain(t) \/ Locks(t) \/ Mints(t) \/ Sends(t)

\* ttl_seconds have passed since the last mint.
Expires ==
    /\ fresh /\ expiries < MaxExpiries
    /\ fresh' = FALSE
    /\ expiries' = expiries + 1
    /\ UNCHANGED <<_token, refused, _lock, request, minted>>

\* The proxy stops honouring what it issued.
Revokes ==
    /\ refused < _token
    /\ refused' = _token
    /\ UNCHANGED <<_token, fresh, _lock, request, minted, expiries>>

(***************************************************************************)
(* A request that was refused goes out again with a token minted after the *)
(* one the proxy refused, however many threads refresh around it.          *)
(***************************************************************************)
RetryCarriesANewerToken ==
    \A t \in Threads :
        In(t, "holding") /\ request[t].first # 0 => request[t].token > request[t].first

(***************************************************************************)
(* Threads that find the same expired token mint once between them: a      *)
(* forced mint apart, there is one mint per expiry and one at the start.   *)
(***************************************************************************)
OneMintPerExpiry == minted <= 1 + expiries
=============================================================================
