------------------------- MODULE RateLimiterProofs -------------------------
(***************************************************************************)
(* Proofs about RateLimiter: what a client is granted and told, for any    *)
(* number of requests and clients, any limit and any lengths of a window   *)
(* and a second, however late the requests get the lock.                   *)
(***************************************************************************)
EXTENDS RateLimiter, FiniteSetTheorems, TLAPS

-----------------------------------------------------------------------------
(* The inductive invariant.                                                *)

(* Clocks: nobody read a time that is still to come, and no window ends    *)
(* later than one begun now would.                                         *)
Timely ==
    /\ \A r \in Requests : now[r] <= clock
    /\ \A k \in Keys : windows[k].resetAt <= clock + Window

(* Entry e is the current one w at some earlier count, or belongs to a     *)
(* window that ended before w's began.                                     *)
Precedes(e, w) ==
    \/ e.resetAt = w.resetAt /\ e.requests <= w.requests
    \/ e.resetAt + Window <= w.resetAt

(* What a request's copy of the entry says of the request.                 *)
CopyMeans(r) ==
    /\ entry[r].requests >= 1
    /\ stage[r] = "admitted" <=> entry[r].requests <= Limit
    /\ now[r] < entry[r].resetAt
    /\ entry[r].resetAt <= countedAt[r] + Window
    /\ Precedes(entry[r], windows[Key(from[r])])

(* Two entries of one key: different counts in one window, or two windows. *)
Apart(d, e) ==
    \/ d.resetAt = e.resetAt /\ d.requests # e.requests
    \/ d.resetAt + Window <= e.resetAt
    \/ e.resetAt + Window <= d.resetAt

(* Every count of a window up to e's is the copy of some request.          *)
Filled(k, e) ==
    \A n \in 1 .. e.requests : \E q \in Requests :
        /\ Counts(q) /\ Key(from[q]) = k
        /\ entry[q].resetAt = e.resetAt /\ entry[q].requests = n

(* A limited request was told to wait until its window has ended.          *)
ToldToWait(r) ==
    stage[r] = "limited" =>
        entry[r].resetAt <= answeredAt[r] + retryAfter[r] * Second

LimiterInv ==
    /\ LimiterTypeOK
    /\ Timely
    /\ \A r \in Requests : Counts(r) => CopyMeans(r)
    /\ \A q, r \in Requests :
         q # r /\ Counts(q) /\ Counts(r) /\ Key(from[q]) = Key(from[r])
           => Apart(entry[q], entry[r])
    /\ \A k \in Keys : Filled(k, windows[k])
    /\ \A r \in Requests : Counts(r) => Filled(Key(from[r]), entry[r])
    /\ \A r \in Requests : ToldToWait(r)

-----------------------------------------------------------------------------
(* Lemmas about the operators.                                             *)

(* Retry-After is a number of seconds that covers the ticks left.          *)
LEMMA SecondsCover ==
    ASSUME NEW ticks \in Int
    PROVE  Seconds(ticks) \in Nat /\ ticks <= Seconds(ticks) * Second
<1> DEFINE q == (-ticks) \div Second
           m == Max({1, -q})
<1>1. Second \in Nat /\ Second > 0
    BY RateLimiterAssumption
<1>2. q \in Int /\ q * Second <= -ticks
    BY <1>1
<1>3. m \in {1, -q} /\ m >= 1 /\ m >= -q
  <2>1. \E x \in {1, -q} : \A y \in {1, -q} : x >= y
    BY <1>2
  <2> QED
    BY <1>2, <2>1 DEF Max
<1>4. m \in Nat
    BY <1>2, <1>3
<1>5. m * Second >= (-q) * Second
    BY <1>1, <1>2, <1>3, <1>4
<1>6. (-q) * Second = -(q * Second)
    BY <1>1, <1>2
<1> QED
    BY <1>1, <1>2, <1>4, <1>5, <1>6 DEF Seconds

(* What counting a request does to an entry: the next count of the same    *)
(* window, or the first one of a window that begins after it.              *)
LEMMA CountedNext ==
    ASSUME NEW e \in [requests : Nat, resetAt : Nat], NEW t \in Nat
    PROVE  LET c == Counted(e, t)
           IN  /\ c \in [requests : Nat, resetAt : Nat]
               /\ t < c.resetAt
               /\ \/ /\ c.resetAt = e.resetAt
                     /\ c.requests = e.requests + 1
                  \/ /\ c.resetAt = t + Window
                     /\ c.requests = 1
                     /\ e.resetAt + Window <= c.resetAt
    BY RateLimiterAssumption DEF Counted

(* The key of a request that has arrived is one of Keys.                   *)
LEMMA KeyOfRequest ==
    ASSUME LimiterTypeOK, NEW r \in Requests, stage[r] # "new"
    PROVE  from[r] \in Clients /\ Key(from[r]) \in Keys
<1>1. from[r] \in Clients
    BY DEF LimiterTypeOK
<1> QED
    BY <1>1 DEF Keys

-----------------------------------------------------------------------------
(* Preservation.                                                           *)

(* Before the first request.                                               *)
LEMMA LimiterInitInv == LimiterInit => LimiterInv
<1> SUFFICES ASSUME LimiterInit PROVE LimiterInv
    OBVIOUS
<1>1. LimiterTypeOK
    BY RateLimiterAssumption DEF LimiterInit, LimiterTypeOK, NoEntry
<1>2. Timely
    BY RateLimiterAssumption DEF LimiterInit, Timely, NoEntry
<1>3. \A r \in Requests : ~Counts(r) /\ stage[r] # "limited"
    BY DEF LimiterInit, Counts
<1>4. \A k \in Keys : Filled(k, windows[k])
    BY DEF LimiterInit, Filled, NoEntry
<1> QED
    BY <1>1, <1>2, <1>3, <1>4 DEF LimiterInv, ToldToWait

(* Time passes.                                                            *)
LEMMA TickInv == LimiterInv /\ Tick => LimiterInv'
<1> SUFFICES ASSUME LimiterInv, Tick PROVE LimiterInv'
    OBVIOUS
<1>1. LimiterTypeOK' /\ Timely'
    BY RateLimiterAssumption DEF LimiterInv, LimiterTypeOK, Timely, Tick
<1> QED
    BY <1>1 DEF LimiterInv, Tick, CopyMeans, Precedes, Apart, Filled, Counts,
                ToldToWait

(* Steps of others.                                                        *)
LEMMA UnchangedInv == LimiterInv /\ UNCHANGED limiterVars => LimiterInv'
    BY DEF LimiterInv, limiterVars, LimiterTypeOK, Timely, CopyMeans, Precedes,
           Apart, Filled, Counts, ToldToWait

(* A request reads the clock; it has no copy of an entry yet.              *)
LEMMA ArriveInv ==
    ASSUME LimiterInv, NEW r \in Requests, Arrive(r)
    PROVE  LimiterInv'
<1>1. LimiterTypeOK' /\ Timely'
    BY RateLimiterAssumption DEF LimiterInv, LimiterTypeOK, Timely, Arrive
<1>2. /\ UNCHANGED <<clock, windows, entry, countedAt, retryAfter, answeredAt>>
      /\ ~Counts(r) /\ ~Counts(r)'
      /\ \A q \in Requests \ {r} : /\ stage'[q] = stage[q] /\ from'[q] = from[q]
                                   /\ now'[q] = now[q]
    BY DEF LimiterInv, LimiterTypeOK, Arrive, Counts
<1>3. \A q \in Requests : Counts(q)' <=> Counts(q) /\ q # r
    BY <1>2 DEF Counts
<1>4. \A k, e : Filled(k, e) => Filled(k, e)'
    BY <1>2, <1>3 DEF Filled
<1>5. \A q \in Requests : ToldToWait(q)'
    BY <1>1, <1>2 DEF LimiterInv, ToldToWait, Counts
<1>6. \A q \in Requests : Counts(q)' => CopyMeans(q)'
    BY <1>2, <1>3 DEF LimiterInv, CopyMeans, Precedes
<1>7. \A q, p \in Requests :
        q # p /\ Counts(q)' /\ Counts(p)' /\ Key(from'[q]) = Key(from'[p])
          => Apart(entry'[q], entry'[p])
    BY <1>2, <1>3 DEF LimiterInv
<1>8. \A k \in Keys : Filled(k, windows[k])'
  <2> TAKE k \in Keys
  <2>1. PICK x : x = windows'[k]
    OBVIOUS
  <2>2. Filled(k, x)'
    BY <1>2, <1>4, <2>1 DEF LimiterInv
  <2> QED
    BY <2>1, <2>2 DEF Filled
<1>9. (\A q \in Requests : Counts(q) => Filled(Key(from[q]), entry[q]))'
    BY <1>2, <1>3, <1>4 DEF LimiterInv, Filled
<1> QED
    BY <1>1, <1>5, <1>6, <1>7, <1>8, <1>9 DEF LimiterInv, Apart

(* A request over the limit is told how long to wait.                      *)
LEMMA LimitedInv ==
    ASSUME LimiterInv, NEW r \in Requests, Limited(r)
    PROVE  LimiterInv'
<1>1. entry[r].resetAt - clock \in Int
    BY DEF LimiterInv, LimiterTypeOK
<1>2. /\ Seconds(entry[r].resetAt - clock) \in Nat
      /\ entry[r].resetAt - clock <= Seconds(entry[r].resetAt - clock) * Second
    BY <1>1, SecondsCover
<1>3. LimiterTypeOK' /\ Timely'
    BY <1>2, RateLimiterAssumption DEF LimiterInv, LimiterTypeOK, Timely, Limited
<1>4. /\ UNCHANGED <<clock, windows, from, now, entry, countedAt>>
      /\ Counts(r) /\ Counts(r)'
      /\ \A q \in Requests : stage'[q] = "admitted" <=> stage[q] = "admitted"
      /\ \A q \in Requests \ {r} : stage'[q] = stage[q]
    BY DEF LimiterInv, LimiterTypeOK, Limited, Counts
<1>5. \A q \in Requests : Counts(q)' <=> Counts(q)
    BY <1>4 DEF Counts
<1>6. \A k, e : Filled(k, e) => Filled(k, e)'
    BY <1>4, <1>5 DEF Filled
<1>7. \A q \in Requests : ToldToWait(q)'
  <2>1. \A q \in Requests \ {r} : ToldToWait(q)'
    BY <1>4 DEF LimiterInv, LimiterTypeOK, ToldToWait, Limited
  <2>2. /\ answeredAt'[r] = clock
        /\ retryAfter'[r] = Seconds(entry[r].resetAt - clock)
    BY DEF LimiterInv, LimiterTypeOK, Limited
  <2>3. clock \in Nat /\ entry[r].resetAt \in Nat /\ Second \in Nat
    BY RateLimiterAssumption DEF LimiterInv, LimiterTypeOK
  <2>4. ToldToWait(r)'
    BY <1>2, <1>4, <2>2, <2>3 DEF ToldToWait
  <2> QED
    BY <2>1, <2>4
<1>8. \A q \in Requests : Counts(q)' => CopyMeans(q)'
    BY <1>4, <1>5 DEF LimiterInv, CopyMeans, Precedes
<1>9. \A k \in Keys : Filled(k, windows[k])'
  <2> TAKE k \in Keys
  <2>1. PICK x : x = windows'[k]
    OBVIOUS
  <2>2. Filled(k, x)'
    BY <1>4, <1>6, <2>1 DEF LimiterInv
  <2> QED
    BY <2>1, <2>2 DEF Filled
<1>10. (\A q \in Requests : Counts(q) => Filled(Key(from[q]), entry[q]))'
    BY <1>4, <1>5, <1>6 DEF LimiterInv, Filled
<1> QED
    BY <1>3, <1>4, <1>5, <1>7, <1>8, <1>9, <1>10 DEF LimiterInv, Apart

(* Counting is the step that matters: the request's copy is the next count *)
(* of the current window or opens a new one.                               *)
LEMMA CountInv ==
    ASSUME LimiterInv, NEW r \in Requests, Count(r)
    PROVE  LimiterInv'
<1>a. PICK k : k = Key(from[r])
    OBVIOUS
<1>b. PICK w : w = windows[k]
    OBVIOUS
<1>c. PICK e : e = Counted(w, now[r])
    OBVIOUS
<1>1. k \in Keys
    BY <1>a, KeyOfRequest DEF LimiterInv, Count
<1>2. w \in [requests : Nat, resetAt : Nat] /\ now[r] \in Nat
    BY <1>1, <1>b DEF LimiterInv, LimiterTypeOK
<1>3. /\ e \in [requests : Nat, resetAt : Nat]
      /\ now[r] < e.resetAt
      /\ \/ e.resetAt = w.resetAt /\ e.requests = w.requests + 1
         \/ /\ e.resetAt = now[r] + Window /\ e.requests = 1
            /\ w.resetAt + Window <= e.resetAt
    BY <1>2, <1>c, CountedNext
<1>4. /\ stage[r] = "arrived"
      /\ windows' = [windows EXCEPT ![k] = e]
      /\ entry' = [entry EXCEPT ![r] = e]
      /\ countedAt' = [countedAt EXCEPT ![r] = clock]
      /\ stage' = [stage EXCEPT ![r] = IF e.requests > Limit THEN "over"
                                                             ELSE "admitted"]
      /\ UNCHANGED <<clock, from, now, retryAfter, answeredAt>>
    BY <1>a, <1>b, <1>c DEF Count
<1>5. LimiterTypeOK'
    BY <1>3, <1>4 DEF LimiterInv, LimiterTypeOK
<1>6. /\ windows'[k] = e /\ entry'[r] = e /\ countedAt'[r] = clock
      /\ \A j \in Keys \ {k} : windows'[j] = windows[j]
      /\ \A q \in Requests \ {r} : /\ entry'[q] = entry[q]
                                   /\ countedAt'[q] = countedAt[q]
                                   /\ stage'[q] = stage[q]
      /\ ~Counts(r) /\ Counts(r)'
      /\ stage'[r] = "admitted" <=> e.requests <= Limit
    BY <1>1, <1>3, <1>4, RateLimiterAssumption
    DEF LimiterInv, LimiterTypeOK, Counts
<1>7. \A q \in Requests \ {r} : Counts(q)' <=> Counts(q)
    BY <1>6 DEF Counts
<1>8. Window \in Nat /\ Window > 0 /\ clock \in Nat /\ now[r] <= clock
    BY RateLimiterAssumption DEF LimiterInv, LimiterTypeOK, Timely
<1>9. e.resetAt <= clock + Window
    BY <1>1, <1>2, <1>3, <1>8, <1>b DEF LimiterInv, Timely
<1>10. Timely'
    BY <1>4, <1>6, <1>9 DEF LimiterInv, Timely
<1>11. \A d \in [requests : Nat, resetAt : Nat] :
         Precedes(d, w) => Precedes(d, e) /\ Apart(d, e)
    BY <1>2, <1>3, <1>8 DEF Precedes, Apart
<1>12. \A q \in Requests : entry[q] \in [requests : Nat, resetAt : Nat]
    BY DEF LimiterInv, LimiterTypeOK
<1>13. ASSUME NEW q \in Requests, Counts(q)' PROVE CopyMeans(q)'
  <2>1. CASE q = r
    <3>1. e.requests >= 1 /\ Precedes(e, e)
      BY <1>2, <1>3 DEF Precedes
    <3> QED
      BY <1>1, <1>3, <1>4, <1>6, <1>8, <1>9, <1>a, <2>1, <3>1 DEF CopyMeans, Precedes
  <2>2. CASE q # r
    <3>1. Counts(q) /\ CopyMeans(q)
      BY <1>7, <1>13, <2>2 DEF LimiterInv
    <3>2. Key(from[q]) \in Keys
      BY <3>1, KeyOfRequest DEF LimiterInv, Counts
    <3>3. Precedes(entry[q], windows'[Key(from[q])])
      BY <1>6, <1>11, <1>12, <1>b, <3>1, <3>2 DEF CopyMeans
    <3> QED
      BY <1>4, <1>6, <2>2, <3>1, <3>3 DEF CopyMeans, Precedes
  <2> QED
    BY <2>1, <2>2
<1>14. ASSUME NEW q \in Requests, q # r, Counts(q)', Key(from[q]) = k
       PROVE  Apart(entry[q], e) /\ Apart(e, entry[q])
  <2>1. Apart(entry[q], e)
    BY <1>7, <1>11, <1>12, <1>14, <1>b DEF LimiterInv, CopyMeans
  <2> QED
    BY <2>1 DEF Apart
<1>15. \A q, p \in Requests :
         q # p /\ Counts(q)' /\ Counts(p)' /\ Key(from'[q]) = Key(from'[p])
           => Apart(entry'[q], entry'[p])
    BY <1>4, <1>6, <1>7, <1>14, <1>a DEF LimiterInv
<1>16. \A j, d : Filled(j, d) => Filled(j, d)'
  <2> SUFFICES ASSUME NEW j, NEW d, Filled(j, d), NEW n \in 1 .. d.requests
               PROVE  \E q \in Requests : /\ Counts(q)' /\ Key(from'[q]) = j
                                          /\ entry'[q].resetAt = d.resetAt
                                          /\ entry'[q].requests = n
    BY DEF Filled
  <2>1. PICK q \in Requests : /\ Counts(q) /\ Key(from[q]) = j
                              /\ entry[q].resetAt = d.resetAt
                              /\ entry[q].requests = n
    BY DEF Filled
  <2> QED
    BY <1>4, <1>6, <1>7, <2>1
<1>17. Filled(k, e)'
  <2> SUFFICES ASSUME NEW n \in 1 .. e.requests
               PROVE  \E q \in Requests : /\ Counts(q)' /\ Key(from'[q]) = k
                                          /\ entry'[q].resetAt = e.resetAt
                                          /\ entry'[q].requests = n
    BY <1>6 DEF Filled
  <2>1. CASE n = e.requests
    BY <1>4, <1>6, <1>a, <2>1
  <2>2. CASE n # e.requests
    <3>1. e.resetAt = w.resetAt /\ n \in 1 .. w.requests
      BY <1>2, <1>3, <2>2
    <3>2. Filled(k, w)'
      BY <1>1, <1>16, <1>b DEF LimiterInv
    <3> QED
      BY <3>1, <3>2 DEF Filled
  <2> QED
    BY <2>1, <2>2
<1>18. \A j \in Keys : Filled(j, windows[j])'
  <2> TAKE j \in Keys
  <2>1. PICK x : x = windows'[j]
    OBVIOUS
  <2>2. Filled(j, x)'
    BY <1>1, <1>6, <1>16, <1>17, <2>1 DEF LimiterInv
  <2> QED
    BY <2>1, <2>2 DEF Filled
<1>19. (\A q \in Requests : Counts(q) => Filled(Key(from[q]), entry[q]))'
    BY <1>4, <1>6, <1>7, <1>16, <1>17, <1>a DEF LimiterInv, Filled
<1>20. \A q \in Requests : ToldToWait(q)'
    BY <1>4, <1>6 DEF LimiterInv, ToldToWait, Counts
<1> QED
    BY <1>5, <1>10, <1>13, <1>15, <1>18, <1>19, <1>20 DEF LimiterInv, Apart

-----------------------------------------------------------------------------
(* What the invariant says.                                                *)

(* The requests of key k admitted in the window that ends at t.            *)
Admitted(k, t) ==
    {q \in Requests : /\ stage[q] = "admitted" /\ Key(from[q]) = k
                      /\ entry[q].resetAt = t}

(* The admitted requests of a window have different counts up to the       *)
(* limit.                                                                  *)
LEMMA AdmittedCounts ==
    ASSUME LimiterInv, NEW k, NEW t
    PROVE  [q \in Admitted(k, t) |-> entry[q].requests]
             \in Injection(Admitted(k, t), 1 .. Limit)
<1> DEFINE f == [q \in Admitted(k, t) |-> entry[q].requests]
<1>1. \A q \in Admitted(k, t) : /\ q \in Requests /\ Counts(q)
                                /\ entry[q].requests \in 1 .. Limit
    BY RateLimiterAssumption
    DEF Admitted, LimiterInv, LimiterTypeOK, CopyMeans, Counts
<1>2. f \in [Admitted(k, t) -> 1 .. Limit]
    BY <1>1
<1>3. ASSUME NEW q \in Admitted(k, t), NEW r \in Admitted(k, t), f[q] = f[r]
      PROVE  q = r
  <2> SUFFICES ASSUME q # r PROVE FALSE
    OBVIOUS
  <2>1. Apart(entry[q], entry[r])
    BY <1>1, <1>3 DEF LimiterInv, Admitted
  <2>2. /\ entry[q].resetAt = entry[r].resetAt
        /\ entry[q].requests = entry[r].requests
        /\ entry[r].resetAt \in Nat
    BY <1>1, <1>3 DEF LimiterInv, LimiterTypeOK, Admitted
  <2> QED
    BY <2>1, <2>2, RateLimiterAssumption DEF Apart
<1> QED
    BY <1>2, <1>3 DEF Injection, IsInjective

(* No window admits more requests than the limit.                          *)
LEMMA AdmittedBound ==
    ASSUME LimiterInv, NEW k, NEW t
    PROVE  /\ IsFiniteSet(Admitted(k, t))
           /\ Cardinality(Admitted(k, t)) \in Nat
           /\ Cardinality(Admitted(k, t)) <= Limit
<1>1. Limit \in Nat
    BY RateLimiterAssumption
<1>2. IsFiniteSet(1 .. Limit) /\ Cardinality(1 .. Limit) = Limit
    BY <1>1, FS_Interval, RateLimiterAssumption
<1> DEFINE A == Admitted(k, t)
<1>3. PICK f : f \in Injection(A, 1 .. Limit)
    BY AdmittedCounts
<1> HIDE DEF A
<1>4. IsFiniteSet(A) /\ Cardinality(A) <= Limit
    BY <1>2, <1>3, FS_Injection
<1> QED
    BY <1>4, FS_CardinalityType DEF A

(* Two windows at most serve the requests that arrive and are counted      *)
(* within one length of a window.                                          *)
LEMMA BurstBounded == LimiterInv => BurstBound
<1> SUFFICES ASSUME LimiterInv, NEW k \in Keys, NEW r \in Requests
             PROVE  Cardinality({q \in Requests :
                                   /\ stage[q] = "admitted"
                                   /\ Key(from[q]) = k
                                   /\ now[q] >= now[r]
                                   /\ countedAt[q] < now[r] + Window})
                      <= 2 * Limit
    BY DEF BurstBound
<1> DEFINE B == {q \in Requests : /\ stage[q] = "admitted"
                                  /\ Key(from[q]) = k
                                  /\ now[q] >= now[r]
                                  /\ countedAt[q] < now[r] + Window}
<1>1. Limit \in Nat /\ Window \in Nat /\ Window > 0 /\ now[r] \in Nat
    BY RateLimiterAssumption DEF LimiterInv, LimiterTypeOK
<1>2. ASSUME NEW q \in B
      PROVE  /\ entry[q].resetAt \in Nat
             /\ now[r] < entry[q].resetAt
             /\ entry[q].resetAt < now[r] + Window + Window
  <2>1. CopyMeans(q)
    BY DEF LimiterInv, Counts
  <2>2. now[q] \in Nat /\ countedAt[q] \in Nat /\ entry[q].resetAt \in Nat
    BY DEF LimiterInv, LimiterTypeOK
  <2> QED
    BY <1>1, <2>1, <2>2 DEF CopyMeans
<1>3. ASSUME NEW p \in B, NEW q \in B
      PROVE  \/ entry[p].resetAt = entry[q].resetAt
             \/ entry[p].resetAt + Window <= entry[q].resetAt
             \/ entry[q].resetAt + Window <= entry[p].resetAt
    BY DEF LimiterInv, Apart, Counts
<1>4. \E s, t : B \subseteq Admitted(k, s) \cup Admitted(k, t)
  <2>1. CASE B = {}
    BY <2>1
  <2>2. CASE B # {}
    <3>1. PICK p \in B : TRUE
      BY <2>2
    <3>2. CASE \A q \in B : entry[q].resetAt = entry[p].resetAt
      BY <3>2 DEF Admitted
    <3>3. CASE \E q \in B : entry[q].resetAt # entry[p].resetAt
      <4>1. PICK q \in B : entry[q].resetAt # entry[p].resetAt
        BY <3>3
      <4>2. \A o \in B : \/ entry[o].resetAt = entry[p].resetAt
                         \/ entry[o].resetAt = entry[q].resetAt
        <5> TAKE o \in B
        <5>1. /\ entry[o].resetAt \in Nat
              /\ entry[p].resetAt \in Nat
              /\ entry[q].resetAt \in Nat
              /\ now[r] < entry[o].resetAt
              /\ now[r] < entry[p].resetAt
              /\ now[r] < entry[q].resetAt
              /\ entry[o].resetAt < now[r] + Window + Window
              /\ entry[p].resetAt < now[r] + Window + Window
              /\ entry[q].resetAt < now[r] + Window + Window
          BY <1>2, <3>1, <4>1
        <5>2. /\ \/ entry[p].resetAt + Window <= entry[q].resetAt
                 \/ entry[q].resetAt + Window <= entry[p].resetAt
              /\ \/ entry[p].resetAt = entry[o].resetAt
                 \/ entry[p].resetAt + Window <= entry[o].resetAt
                 \/ entry[o].resetAt + Window <= entry[p].resetAt
              /\ \/ entry[o].resetAt = entry[q].resetAt
                 \/ entry[o].resetAt + Window <= entry[q].resetAt
                 \/ entry[q].resetAt + Window <= entry[o].resetAt
          BY <1>3, <3>1, <4>1
        <5> HIDE DEF B
        <5> QED
          BY <1>1, <5>1, <5>2
      <4> QED
        BY <4>2 DEF Admitted
    <3> QED
      BY <3>2, <3>3
  <2> QED
    BY <2>1, <2>2
<1>5. PICK s, t : B \subseteq Admitted(k, s) \cup Admitted(k, t)
    BY <1>4
<1>6. /\ IsFiniteSet(Admitted(k, s)) /\ IsFiniteSet(Admitted(k, t))
      /\ Cardinality(Admitted(k, s)) \in Nat /\ Cardinality(Admitted(k, t)) \in Nat
      /\ Cardinality(Admitted(k, s)) <= Limit
      /\ Cardinality(Admitted(k, t)) <= Limit
    BY AdmittedBound
<1> DEFINE U == Admitted(k, s) \cup Admitted(k, t)
           I == Admitted(k, s) \cap Admitted(k, t)
<1>7. IsFiniteSet(U) /\ IsFiniteSet(I)
      /\ Cardinality(U) = Cardinality(Admitted(k, s)) + Cardinality(Admitted(k, t))
                            - Cardinality(I)
    BY <1>6, FS_Union, FS_Intersection
<1>8. Cardinality(I) \in Nat /\ Cardinality(U) \in Nat /\ Cardinality(U) <= 2 * Limit
    BY <1>1, <1>6, <1>7, FS_CardinalityType
<1>9. IsFiniteSet(B) /\ Cardinality(B) <= Cardinality(U) /\ Cardinality(B) \in Nat
    BY <1>5, <1>7, FS_Subset, FS_CardinalityType
<1> QED
    BY <1>1, <1>8, <1>9

(* A count over the limit has every count up to the limit below it.        *)
LEMMA LimitedByOwn == LimiterInv => LimitedByOwnKey
<1> SUFFICES ASSUME LimiterInv, NEW r \in Requests, stage[r] = "limited"
             PROVE  Cardinality({q \in Requests : /\ stage[q] = "admitted"
                                                  /\ SameWindow(q, r)}) = Limit
    BY DEF LimitedByOwnKey
<1> DEFINE k == Key(from[r])
           t == entry[r].resetAt
           A == Admitted(k, t)
           f == [q \in A |-> entry[q].requests]
<1>1. A = {q \in Requests : stage[q] = "admitted" /\ SameWindow(q, r)}
    BY DEF Admitted, SameWindow, Counts
<1>2. Limit \in Nat
    BY RateLimiterAssumption
<1>3. IsFiniteSet(1 .. Limit) /\ Cardinality(1 .. Limit) = Limit
    BY <1>2, FS_Interval, RateLimiterAssumption
<1>4. f \in Injection(A, 1 .. Limit)
    BY AdmittedCounts
<1>5. ASSUME NEW n \in 1 .. Limit PROVE \E q \in A : f[q] = n
  <2>1. Counts(r) /\ CopyMeans(r) /\ Filled(k, entry[r])
    BY DEF LimiterInv, Counts
  <2>2. n \in 1 .. entry[r].requests
    BY <1>2, <2>1 DEF CopyMeans, LimiterInv, LimiterTypeOK
  <2>3. PICK q \in Requests : /\ Counts(q) /\ Key(from[q]) = k
                              /\ entry[q].resetAt = t /\ entry[q].requests = n
    BY <2>1, <2>2 DEF Filled
  <2>4. stage[q] = "admitted"
    BY <1>2, <2>3 DEF LimiterInv, CopyMeans
  <2> QED
    BY <2>3, <2>4 DEF Admitted
<1>6. f \in Surjection(A, 1 .. Limit)
    BY <1>4, <1>5 DEF Injection, Surjection
<1>7. Cardinality(A) = Limit
    BY <1>3, <1>4, <1>6, FS_Injection
<1> QED
    BY <1>1, <1>7

(* Whoever waits as told reads a time past the end of the window.          *)
LEMMA RetryMeetsNew == LimiterInv => RetryMeetsNewWindow
<1> SUFFICES ASSUME LimiterInv, NEW q \in Requests, NEW r \in Requests,
                    stage[r] = "limited", Counts(q), SameWindow(q, r),
                    now[q] >= answeredAt[r] + retryAfter[r] * Second
             PROVE  FALSE
    BY DEF RetryMeetsNewWindow
<1>1. now[q] < entry[q].resetAt /\ entry[q].resetAt = entry[r].resetAt
    BY DEF LimiterInv, CopyMeans, SameWindow
<1>2. entry[r].resetAt <= answeredAt[r] + retryAfter[r] * Second
    BY DEF LimiterInv, ToldToWait
<1>3. /\ now[q] \in Nat /\ entry[r].resetAt \in Nat
      /\ answeredAt[r] \in Nat /\ retryAfter[r] * Second \in Nat
    BY RateLimiterAssumption DEF LimiterInv, LimiterTypeOK
<1> QED
    BY <1>1, <1>2, <1>3

-----------------------------------------------------------------------------
(* Every step of the limiter, or of others, keeps the invariant.           *)
LEMMA LimiterNextInv == LimiterInv /\ [LimiterNext]_limiterVars => LimiterInv'
    BY TickInv, UnchangedInv, ArriveInv, LimitedInv, CountInv
    DEF LimiterNext, LimiterStep

(* Under the limiter's own specification: type correctness, the bound on   *)
(* what a key is granted in the length of a window however late its        *)
(* requests get the lock, that only a key's own requests limit it, and     *)
(* that Retry-After leads to a new window (rateLimiter.middleware).        *)
THEOREM LimiterCorrect ==
    LimiterSpec => [](LimiterTypeOK /\ BurstBound /\ LimitedByOwnKey
                        /\ RetryMeetsNewWindow)
<1>1. LimiterInv => LimiterTypeOK
    BY DEF LimiterInv
<1> QED
    BY <1>1, LimiterInitInv, LimiterNextInv, BurstBounded, LimitedByOwn,
       RetryMeetsNew, PTL DEF LimiterSpec

=============================================================================
