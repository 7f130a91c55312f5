---------------------------- MODULE RateLimiter ----------------------------
(***************************************************************************)
(* The rate limiter in front of every route (cmd/server/main.go): a fixed  *)
(* window per client key.  A request reads the clock and computes its key  *)
(* before it takes the lock, so the requests of one key may be counted in  *)
(* another order than they arrived in, long after their time was read.     *)
(***************************************************************************)
EXTENDS Integers, FiniteSetsExt

CONSTANTS
    Requests,   \* requests to the server
    Clients,    \* where requests come from: see Client
    Limit,      \* requests per window (120 in the code)
    Window,     \* length of a window in ticks (a minute in the code)
    Second,     \* ticks per second; Retry-After counts seconds
    None

(* What identifies a client: the first address of X-Forwarded-For, the     *)
(* credential of X-API-Token or Authorization, and the remote host.        *)
ASSUME RateLimiterAssumption ==
    /\ Limit \in Nat \ {0} /\ Window \in Nat \ {0} /\ Second \in Nat \ {0}
    /\ \A c \in Clients : DOMAIN c = {"forwarded", "credential", "remote"}
    /\ None \notin Clients

VARIABLES
    clock,      \* time.Now, from 1 on; 0 is Go's zero time
    windows,    \* rateLimiter.clients
    stage,      \* where each request is in the middleware
    from,       \* the client of each request
    now,        \* when it read the clock
    entry,      \* its copy of the entry, made under the lock
    countedAt,  \* history: when it held the lock
    retryAfter, \* the header of a limited request
    answeredAt  \* history: when it was limited

limiterVars == <<clock, windows, stage, from, now, entry, countedAt, retryAfter,
                 answeredAt>>

(* rateLimitKey.  The credential is hashed; distinct ones stay distinct.   *)
Key(c) ==
    CASE c.forwarded # None -> <<"forwarded", c.forwarded, c.credential>>
      [] c.forwarded = None /\ c.credential # None -> <<"credential", c.credential>>
      [] OTHER -> <<"remote", c.remote>>

Keys == {Key(c) : c \in Clients}

NoEntry == [requests |-> 0, resetAt |-> 0]

LimiterTypeOK ==
    /\ clock \in Nat \ {0}
    /\ windows \in [Keys -> [requests : Nat, resetAt : Nat]]
    /\ stage \in [Requests -> {"new", "arrived", "over", "limited", "admitted"}]
    /\ from \in [Requests -> Clients \cup {None}]
    /\ \A r \in Requests : stage[r] = "new" <=> from[r] = None
    /\ now \in [Requests -> Nat]
    /\ entry \in [Requests -> [requests : Nat, resetAt : Nat]]
    /\ countedAt \in [Requests -> Nat]
    /\ retryAfter \in [Requests -> Nat]
    /\ answeredAt \in [Requests -> Nat]

LimiterInit ==
    /\ clock = 1
    /\ windows = [k \in Keys |-> NoEntry]
    /\ stage = [r \in Requests |-> "new"]
    /\ from = [r \in Requests |-> None]
    /\ now = [r \in Requests |-> 0]
    /\ entry = [r \in Requests |-> NoEntry]
    /\ countedAt = [r \in Requests |-> 0]
    /\ retryAfter = [r \in Requests |-> 0]
    /\ answeredAt = [r \in Requests |-> 0]

Tick ==
    /\ clock' = clock + 1
    /\ UNCHANGED <<windows, stage, from, now, entry, countedAt, retryAfter,
                   answeredAt>>

Arrive(r) ==
    /\ stage[r] = "new"
    /\ \E c \in Clients : from' = [from EXCEPT ![r] = c]
    /\ now' = [now EXCEPT ![r] = clock]
    /\ stage' = [stage EXCEPT ![r] = "arrived"]
    /\ UNCHANGED <<clock, windows, entry, countedAt, retryAfter, answeredAt>>

(* The defect: a window ends when it begins.                               *)
CountedAtOnce(e, t) ==
    IF e.resetAt = 0 \/ t >= e.resetAt
    THEN [requests |-> 1, resetAt |-> t]
    ELSE [e EXCEPT !.requests = @ + 1]

(* The entry after one more request that read time t.                      *)
Counted(e, t) ==
    IF e.resetAt = 0 \/ t >= e.resetAt
    THEN [requests |-> 1, resetAt |-> t + Window]
    ELSE [e EXCEPT !.requests = @ + 1]

(* The defect: one entry for all clients.                                  *)
CountShared(r) ==
    LET e == Counted(windows[Key(from[r])], now[r])
    IN  /\ stage[r] = "arrived"
        /\ windows' = [k \in Keys |-> e]
        /\ entry' = [entry EXCEPT ![r] = e]
        /\ countedAt' = [countedAt EXCEPT ![r] = clock]
        /\ stage' = [stage EXCEPT ![r] = IF e.requests > Limit THEN "over"
                                                               ELSE "admitted"]
        /\ UNCHANGED <<clock, from, now, retryAfter, answeredAt>>

(* The part under the lock, and the test of the copied entry after it.     *)
Count(r) ==
    LET k == Key(from[r])
        e == Counted(windows[k], now[r])
    IN  /\ stage[r] = "arrived"
        /\ windows' = [windows EXCEPT ![k] = e]
        /\ entry' = [entry EXCEPT ![r] = e]
        /\ countedAt' = [countedAt EXCEPT ![r] = clock]
        /\ stage' = [stage EXCEPT ![r] = IF e.requests > Limit THEN "over"
                                                               ELSE "admitted"]
        /\ UNCHANGED <<clock, from, now, retryAfter, answeredAt>>

(* The defect: the seconds are rounded down.                               *)
SecondsDown(ticks) == Max({1, ticks \div Second})

(* Seconds in ticks, rounded up, at least 1; ticks may be negative.        *)
Seconds(ticks) == Max({1, -((-ticks) \div Second)})

(* 429, with the time left by the clock as it is now.                      *)
Limited(r) ==
    /\ stage[r] = "over"
    /\ retryAfter' = [retryAfter EXCEPT ![r] = Seconds(entry[r].resetAt - clock)]
    /\ answeredAt' = [answeredAt EXCEPT ![r] = clock]
    /\ stage' = [stage EXCEPT ![r] = "limited"]
    /\ UNCHANGED <<clock, windows, from, now, entry, countedAt>>

LimiterStep(r) == Arrive(r) \/ Count(r) \/ Limited(r)

LimiterNext == Tick \/ \E r \in Requests : LimiterStep(r)

LimiterSpec == LimiterInit /\ [][LimiterNext]_limiterVars

-----------------------------------------------------------------------------
Counts(r) == stage[r] \in {"over", "limited", "admitted"}

SameWindow(q, r) ==
    /\ Counts(q) /\ Counts(r)
    /\ Key(from[q]) = Key(from[r])
    /\ entry[q].resetAt = entry[r].resetAt

(* However late requests get the lock, those of a key that arrive and are  *)
(* counted within one length of a window are admitted at most twice the    *)
(* limit: they fall into two windows at most (time read before l.mu.Lock). *)
BurstBound ==
    \A k \in Keys : \A r \in Requests :
        LET start == now[r]
        IN  Cardinality({q \in Requests : /\ stage[q] = "admitted"
                                          /\ Key(from[q]) = k
                                          /\ now[q] >= start
                                          /\ countedAt[q] < start + Window})
              <= 2 * Limit

(* A request is limited only after its own key has used up its window, so  *)
(* no client exhausts another one's quota.                                 *)
LimitedByOwnKey ==
    \A r \in Requests : stage[r] = "limited" =>
        Cardinality({q \in Requests : stage[q] = "admitted" /\ SameWindow(q, r)})
          = Limit

(* A client that waits for the seconds of Retry-After meets a new window.  *)
RetryMeetsNewWindow ==
    \A q, r \in Requests :
        /\ stage[r] = "limited" /\ Counts(q)
        /\ Key(from[q]) = Key(from[r])
        /\ now[q] >= answeredAt[r] + retryAfter[r] * Second
        => ~ SameWindow(q, r)

=============================================================================
