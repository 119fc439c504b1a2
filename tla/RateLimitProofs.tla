--------------------------- MODULE RateLimitProofs ---------------------------
(* What holds of the rate limit for any clients, proxies, headers, limit,   *)
(* window and backoff.                                                      *)
EXTENDS RateLimit, TLAPS

-----------------------------------------------------------------------------
(* The address.                                                             *)

\* Nothing a client writes into X-Forwarded-For changes the address its
\* requests are counted under, as long as the proxies it passes are trusted
\* (client_ip).
THEOREM ForgingIsVain ==
    ASSUME NEW c \in Clients, NEW h \in Headers, NEW r \in Routes
    PROVE  AddressOf(c, h, r) = c
<1> DEFINE hops == <<c>> \o r
           forwarded == h \o Front(hops)
           peer == Last(hops)
           chain == Append(forwarded, peer)
           known == {i \in DOMAIN chain : chain[i] \in Addresses \ Proxies}
<1>1. /\ r \in Seq(Proxies)
      /\ h \in Seq(Addresses \cup {NotAnIp})
      /\ c \in Addresses \ Proxies
  BY RateLimitAssumption DEF RateLimitAssumption, Addresses
<1>2. /\ hops \in Seq({c} \cup Proxies) /\ Len(hops) = 1 + Len(r)
      /\ hops[1] = c
      /\ \A i \in 2..Len(hops) : hops[i] \in Proxies
  BY <1>1
<1>3. CASE r = <<>>
  <2>1. peer = c
    BY <1>2, <1>3 DEF Last
  <2> QED
    BY <1>1, <2>1 DEF AddressOf, ClientIp
<1>4. CASE r # <<>>
  <2>1. Len(r) \in Nat \ {0}
    BY <1>1, <1>4
  <2>2. peer \in Proxies /\ peer = hops[Len(hops)]
    BY <1>2, <2>1 DEF Last
  <2>3. /\ Front(hops) \in Seq({c} \cup Proxies) /\ Len(Front(hops)) = Len(r)
        /\ \A i \in 1..Len(r) : Front(hops)[i] = hops[i]
    BY <1>2, <2>1 DEF Front
  <2> HIDE DEF hops
  <2> DEFINE front == Front(hops)
             S == Addresses \cup {NotAnIp}
  <2>4. front \in Seq(S) /\ peer \in S
    <3>1. {c} \cup Proxies \subseteq S
      BY <1>1 DEF Addresses
    <3> QED
      BY <2>2, <2>3, <3>1
  <2> HIDE DEF front, peer, S
  <2>5. /\ forwarded \in Seq(S) /\ Len(forwarded) = Len(h) + Len(front)
        /\ \A i \in 1..Len(front) : forwarded[Len(h) + i] = front[i]
    BY <1>1, <2>4 DEF front, S
  <2> HIDE DEF forwarded
  <2>6. /\ Len(chain) = Len(forwarded) + 1
        /\ DOMAIN chain = 1..Len(chain)
        /\ \A i \in 1..Len(forwarded) : chain[i] = forwarded[i]
        /\ chain[Len(chain)] = peer
    <3>1. \A T : \A s \in Seq(T), e \in T :
            /\ Len(Append(s, e)) = Len(s) + 1
            /\ DOMAIN Append(s, e) = 1..(Len(s) + 1)
            /\ \A i \in 1..Len(s) : Append(s, e)[i] = s[i]
            /\ Append(s, e)[Len(s) + 1] = e
      OBVIOUS
    <3>2. /\ Len(chain) = Len(forwarded) + 1
          /\ DOMAIN chain = 1..(Len(forwarded) + 1)
          /\ \A i \in 1..Len(forwarded) : chain[i] = forwarded[i]
          /\ chain[Len(forwarded) + 1] = peer
      BY <2>4, <2>5, <3>1, Zenon
    <3> QED
      BY <3>2
  <2> HIDE DEF chain
  <2> DEFINE own == Len(h) + 1
  <2>7. Len(h) \in Nat /\ Len(front) = Len(r)
    BY <1>1, <2>3 DEF front
  <2>8. own \in DOMAIN chain /\ chain[own] = c
    <3>1. front[1] = c
      BY <1>2, <2>1, <2>3 DEF front
    <3> QED
      BY <2>1, <2>5, <2>6, <2>7, <3>1
  <2>9. ASSUME NEW i \in DOMAIN chain, i > own PROVE chain[i] \in Proxies
    <3>1. CASE i = Len(chain)
      BY <2>2, <2>6, <3>1 DEF peer
    <3>2. CASE i # Len(chain)
      <4> DEFINE k == i - Len(h)
      <4>1. k \in 2..Len(r) /\ i = Len(h) + k /\ i \in 1..Len(forwarded)
        <5>1. i \in 1..(Len(h) + Len(r) + 1) /\ i # Len(h) + Len(r) + 1
          BY <2>5, <2>6, <2>7, <3>2
        <5>2. i > Len(h) + 1
          BY <2>9
        <5>3. Len(forwarded) = Len(h) + Len(r) /\ Len(r) \in Nat
          BY <2>1, <2>5, <2>7
        <5> QED
          BY <2>7, <5>1, <5>2, <5>3
      <4>2. chain[i] = hops[k]
        BY <2>3, <2>5, <2>6, <2>7, <4>1 DEF front
      <4> QED
        BY <1>2, <4>1, <4>2
    <3> QED
      BY <3>1, <3>2
  <2>10. own \in known /\ \A j \in known : j <= own
    BY <1>1, <2>6, <2>7, <2>8, <2>9
  <2>11. \A i \in known : (\A j \in known : j <= i) => i = own
    BY <2>6, <2>7, <2>10
  <2>12. ClientIp(peer, forwarded) = chain[CHOOSE i \in known : \A j \in known : j <= i]
    BY <2>2, <2>10 DEF ClientIp, chain, peer
  <2>13. (CHOOSE i \in known : \A j \in known : j <= i) = own
    <3> HIDE DEF known, own
    <3> QED
      BY <2>10, <2>11
  <2> QED
    BY <2>8, <2>12, <2>13 DEF AddressOf, forwarded, front, peer, hops
<1> QED
  BY <1>3, <1>4

-----------------------------------------------------------------------------
(* The window.                                                              *)

CounterRecord == [count: Nat, expires: Nat]
RefusalRecord == [first: Nat, last: Nat, retry: Nat]

\* The types, without the bounds the clock and the counters have under TLC.
RateTypes ==
    /\ now \in Nat
    /\ counters \in [Addresses -> CounterRecord \cup {None}]
    /\ refused \in [Clients -> RefusalRecord \cup {None}]

\* A counter lasts no longer than a window from now.
TtlBounded ==
    \A a \in Addresses :
        counters[a] # None => counters[a].expires <= now + Window

\* A client that was refused was so within one window of its own counter, and
\* was told a time no earlier than half a second before the counter's end.
RefusedInWindow(c) ==
    /\ counters[c] \in CounterRecord
    /\ refused[c] \in RefusalRecord
    /\ counters[c].expires <= refused[c].first + Window
    /\ refused[c].last < counters[c].expires
    /\ 2 * (counters[c].expires - refused[c].retry) <= Second

RateInv ==
    /\ RateTypes
    /\ TtlBounded
    /\ \A c \in Clients : refused[c] # None => RefusedInWindow(c)

LEMMA Parameters ==
    /\ Limit \in Nat \ {0} /\ Second \in Nat \ {0}
    /\ Window \in Nat \ {0} /\ Backoff \in Nat \ {0}
    /\ Clients \subseteq Addresses
    /\ None \notin CounterRecord
BY RateLimitAssumption DEF RateLimitAssumption, Addresses, CounterRecord

LEMMA MaxOfTwo ==
    ASSUME NEW a \in Int, NEW b \in Int
    PROVE  Max({a, b}) \in {a, b} /\ Max({a, b}) >= a /\ Max({a, b}) >= b
<1>1. \E x \in {a, b} : \A y \in {a, b} : x >= y
  OBVIOUS
<1> QED
  BY <1>1 DEF Max

LEMMA MinOfTwo ==
    ASSUME NEW a \in Int, NEW b \in Int
    PROVE  Min({a, b}) \in {a, b}
<1>1. \E x \in {a, b} : \A y \in {a, b} : x <= y
  OBVIOUS
<1> QED
  BY <1>1 DEF Min

\* A Retry-After is at most half a second short of the counter's end.
LEMMA RetryAfterIsClose ==
    ASSUME now \in Nat, NEW counter \in CounterRecord
    PROVE  /\ RetryAfter(counter) \in Nat
           /\ Second * RetryAfter(counter) \in Nat
           /\ 2 * (counter.expires - (now + Second * RetryAfter(counter))) <= Second
<1> DEFINE left == counter.expires - now
           q == (2 * left + Second) \div (2 * Second)
           ra == RetryAfter(counter)
<1>1. left \in Int /\ counter.expires \in Nat
  BY DEF CounterRecord
<1>2. \A s \in Nat \ {0}, n \in Int :
        /\ (2 * n + s) \div (2 * s) \in Int
        /\ 2 * n + s < 2 * (s * ((2 * n + s) \div (2 * s))) + 2 * s
  BY SMT
<1>3. q \in Int /\ 2 * left + Second < 2 * (Second * q) + 2 * Second
  BY <1>1, <1>2, Parameters
<1>4. ra = Max({1, q})
  BY DEF RetryAfter
<1> HIDE DEF left, q, ra
<1>5. ra \in Nat /\ ra >= q
  BY <1>3, <1>4, MaxOfTwo
<1>6. \A s \in Nat, m \in Int, n \in Int : m <= n => s * m <= s * n
  BY SMT
<1>7. Second * q <= Second * ra /\ Second * ra \in Nat /\ Second * q \in Int
  BY <1>3, <1>5, <1>6, Parameters
<1>8. 2 * (left - Second * ra) <= Second
  BY <1>1, <1>3, <1>7, Parameters
<1> QED
  BY <1>1, <1>5, <1>7, <1>8 DEF left, ra

\* Counting a request keeps the end of a live counter; a request is refused by
\* a live counter only.
LEMMA HitCounts ==
    ASSUME RateInv, NEW a \in Addresses
    PROVE  /\ Hit(a) \in CounterRecord
           /\ Hit(a).expires <= now + Window /\ now < Hit(a).expires
           /\ ~Allowed(Hit(a)) => Live(a) /\ counters[a] \in CounterRecord
                                  /\ Hit(a).expires = counters[a].expires
<1>1. CASE Live(a)
  <2>1. counters[a] \in CounterRecord
    BY <1>1 DEF RateInv, RateTypes, Live
  <2>2. /\ Hit(a) = [counters[a] EXCEPT !.count = @ + 1]
        /\ Hit(a) \in CounterRecord
        /\ Hit(a).expires = counters[a].expires
    BY <1>1, <2>1 DEF Hit, CounterRecord
  <2> QED
    BY <1>1, <2>1, <2>2 DEF RateInv, TtlBounded, Live
<1>2. CASE ~Live(a)
  <2>1. Hit(a) = [count |-> 1, expires |-> now + Window]
    BY <1>2 DEF Hit
  <2> QED
    BY <2>1, Parameters DEF RateInv, RateTypes, Allowed, CounterRecord
<1> QED
  BY <1>1, <1>2

\* Counting a request of c keeps the types and the bound on the counters.
LEMMA HitKeeps ==
    ASSUME RateInv, NEW c \in Clients, now' = now,
           counters' = [counters EXCEPT ![c] = Hit(c)]
    PROVE  /\ now' \in Nat
           /\ counters' \in [Addresses -> CounterRecord \cup {None}]
           /\ TtlBounded'
<1>1. c \in Addresses /\ Hit(c) \in CounterRecord /\ Hit(c).expires <= now + Window
  BY Parameters, HitCounts
<1>2. \A a \in Addresses : counters'[a] = IF a = c THEN Hit(c) ELSE counters[a]
  BY DEF RateInv, RateTypes
<1> QED
  BY <1>1, <1>2 DEF RateInv, RateTypes, TtlBounded

\* A request of c is counted under c alone, so every case of the invariant
\* but c's own stays as it is.
LEMMA RequestKeepsInv ==
    ASSUME RateInv, NEW c \in Clients, NEW p \in Processes, EnforceRateLimit(c, p, c)
    PROVE  RateInv'
<1>1. now' = now
  BY DEF EnforceRateLimit
<1>2. c \in Addresses
  BY Parameters
<1>3. ASSUME LetThrough(c),
             counters' = counters \/ counters' = [counters EXCEPT ![c] = Hit(c)]
      PROVE  RateInv'
  <2>1. /\ now' \in Nat
        /\ counters' \in [Addresses -> CounterRecord \cup {None}]
        /\ TtlBounded'
    <3>1. CASE counters' = counters
      BY <1>1, <3>1 DEF RateInv, RateTypes, TtlBounded
    <3> QED
      BY <1>1, <1>3, <3>1, HitKeeps
  <2>2. /\ refused' \in [Clients -> RefusalRecord \cup {None}]
        /\ refused'[c] = None
        /\ \A d \in Clients \ {c} : refused'[d] = refused[d] /\ counters'[d] = counters[d]
    BY <1>2, <1>3, Parameters DEF LetThrough, RateInv, RateTypes
  <2>3. \A d \in Clients : refused'[d] # None => RefusedInWindow(d)'
    BY <2>2 DEF RateInv, RefusedInWindow
  <2> QED
    BY <2>1, <2>2, <2>3 DEF RateInv, RateTypes
<1>4. ASSUME Counted(c, c), ~Allowed(Hit(c))
      PROVE  RateInv'
  <2> DEFINE retry == now + Second * RetryAfter(Hit(c))
             new == IF refused[c] = None
                    THEN [first |-> now, last |-> now, retry |-> retry]
                    ELSE [first |-> refused[c].first, last |-> now,
                          retry |-> Min({refused[c].retry, retry})]
  <2>1. /\ counters' = [counters EXCEPT ![c] = Hit(c)]
        /\ refused' = [refused EXCEPT ![c] = new]
    BY <1>4, Zenon DEF Counted
  <2>2. /\ Hit(c) \in CounterRecord
        /\ now < Hit(c).expires /\ Hit(c).expires <= now + Window
        /\ counters[c] \in CounterRecord /\ Hit(c).expires = counters[c].expires
    BY <1>2, <1>4, HitCounts
  <2>3. now \in Nat /\ retry \in Nat /\ 2 * (Hit(c).expires - retry) <= Second
    <3>1. now \in Nat
      BY DEF RateInv, RateTypes
    <3> QED
      BY <2>2, <3>1, RetryAfterIsClose
  <2> HIDE DEF retry
  <2>4. /\ new \in RefusalRecord
        /\ Hit(c).expires <= new.first + Window
        /\ new.last < Hit(c).expires
        /\ 2 * (Hit(c).expires - new.retry) <= Second
    <3>1. CASE refused[c] = None
      <4>1. new = [first |-> now, last |-> now, retry |-> retry]
        BY <3>1
      <4> QED
        BY <2>2, <2>3, <4>1 DEF RefusalRecord
    <3>2. CASE refused[c] # None
      <4>1. RefusedInWindow(c)
        BY <3>2 DEF RateInv
      <4>2. Min({refused[c].retry, retry}) \in {refused[c].retry, retry}
        BY <2>3, <4>1, MinOfTwo DEF RefusedInWindow, RefusalRecord
      <4> DEFINE least == Min({refused[c].retry, retry})
      <4>3. new = [first |-> refused[c].first, last |-> now, retry |-> least]
        BY <3>2
      <4> HIDE DEF least, new
      <4>4. least \in {refused[c].retry, retry}
        BY <4>2 DEF least
      <4>5. /\ new \in RefusalRecord
            /\ new.first = refused[c].first /\ new.last = now /\ new.retry = least
        BY <2>3, <4>1, <4>3, <4>4 DEF RefusedInWindow, RefusalRecord
      <4> QED
        BY <2>2, <2>3, <4>1, <4>4, <4>5 DEF RefusedInWindow
    <3> QED
      BY <3>1, <3>2
  <2> HIDE DEF new
  <2>5. /\ now' \in Nat
        /\ counters' \in [Addresses -> CounterRecord \cup {None}]
        /\ TtlBounded'
    BY <1>1, <2>1, HitKeeps
  <2>6. /\ refused' \in [Clients -> RefusalRecord \cup {None}]
        /\ refused'[c] = new /\ counters'[c] = Hit(c)
        /\ \A d \in Clients \ {c} : refused'[d] = refused[d] /\ counters'[d] = counters[d]
    BY <1>2, <2>1, <2>4, Parameters DEF RateInv, RateTypes
  <2>7. \A d \in Clients : refused'[d] # None => RefusedInWindow(d)'
    BY <2>2, <2>4, <2>6 DEF RateInv, RefusedInWindow
  <2> QED
    BY <2>5, <2>6, <2>7 DEF RateInv, RateTypes
<1>5. CASE now < openUntil[p]
  BY <1>3, <1>5 DEF EnforceRateLimit
<1>6. CASE Counted(c, c)
  <2>1. CASE Allowed(Hit(c))
    BY <1>3, <1>6, <2>1 DEF Counted
  <2> QED
    BY <1>4, <1>6, <2>1
<1>7. CASE CallFails(c, p, c)
  BY <1>3, <1>7 DEF CallFails
<1> QED
  BY <1>5, <1>6, <1>7 DEF EnforceRateLimit

LEMMA RateInvHolds == RateSpec => []RateInv
<1>1. RateInit => RateInv
  <2> SUFFICES ASSUME RateInit PROVE RateInv
    OBVIOUS
  <2>1. RateTypes /\ \A c \in Clients : refused[c] = None
    BY DEF RateInit, RateTypes
  <2>2. TtlBounded
    <3> SUFFICES ASSUME NEW a \in Addresses, counters[a] # None
                 PROVE  counters[a].expires <= now + Window
      BY DEF TtlBounded
    <3> QED
      BY DEF RateInit
  <2> QED
    BY <2>1, <2>2 DEF RateInv
<1>2. RateInv /\ [RateNext]_rateVars => RateInv'
  <2> SUFFICES ASSUME RateInv, [RateNext]_rateVars PROVE RateInv'
    OBVIOUS
  <2>1. CASE \E c \in Clients, p \in Processes, h \in Headers, r \in Routes :
                EnforceRateLimit(c, p, AddressOf(c, h, r))
    BY <2>1, ForgingIsVain, RequestKeepsInv
  <2>2. CASE \E p \in Processes : OtherCommandFails(p)
    BY <2>2 DEF OtherCommandFails, RateInv, RateTypes, TtlBounded, RefusedInWindow
  <2>3. CASE Tick
    <3>1. now' = now + 1 /\ counters' = counters /\ refused' = refused
      BY <2>3 DEF Tick
    <3>2. TtlBounded'
      BY <3>1, Parameters DEF RateInv, RateTypes, TtlBounded, CounterRecord
    <3> QED
      BY <3>1, <3>2 DEF RateInv, RateTypes, RefusedInWindow
  <2>4. CASE UNCHANGED rateVars
    BY <2>4 DEF rateVars, RateInv, RateTypes, TtlBounded, RefusedInWindow
  <2> QED
    BY <2>1, <2>2, <2>3, <2>4 DEF RateNext
<1> QED
  BY <1>1, <1>2, PTL DEF RateSpec

\* However often a client retries, through whatever processes and with whatever
\* headers, its refusals end within a window (cache_service.py, rate_limit).
THEOREM RetryingIsHarmless == RateSpec => []RefusalsEnd
<1>1. RateInv => RefusalsEnd
  <2> SUFFICES ASSUME RateInv, NEW c \in Clients, refused[c] # None
               PROVE  refused[c].last - refused[c].first < Window
    BY DEF RefusalsEnd
  <2>1. RefusedInWindow(c)
    BY DEF RateInv
  <2> QED
    BY <2>1, Parameters DEF RefusedInWindow, CounterRecord, RefusalRecord
<1> QED
  BY <1>1, RateInvHolds, PTL

\* For any window and length of a second, a Retry-After is right but for the
\* rounding of Redis's TTL (cache_service.py:170).
THEOREM RetryAfterIsRight == RateSpec => []RetryAfterHolds
<1>1. RateInv => RetryAfterHolds
  BY DEF RateInv, RefusedInWindow, RetryAfterHolds
<1> QED
  BY <1>1, RateInvHolds, PTL

-----------------------------------------------------------------------------
(* The burst.  Windows of one counter do not overlap, so whatever was let  *)
(* through before the last window began is a window old, and what was let  *)
(* through in the window under way is no more than its counter allows.     *)

Ages == [1..Burst -> 0..Window]

\* k requests of c were let through in the window of its counter, the others
\* before it began, and all but Limit of these a window before that.
InWindow(c, k) ==
    /\ k <= counters[c].count
    /\ \A i \in 1..Burst : i <= Burst - k =>
          \/ admitted[c][i] = Window
          \/ admitted[c][i] >= now - (counters[c].expires - Window)
    /\ \A i \in 1..Burst : i <= Burst - k - Limit => admitted[c][i] = Window

BurstOf(c) ==
    /\ counters[c] = None => \A i \in 1..Burst : admitted[c][i] = Window
    /\ counters[c] # None => \E k \in 0..Limit : InWindow(c, k)

BurstInv ==
    /\ admitted \in [Clients -> Ages]
    /\ \A c \in Clients : BurstOf(c)

LEMMA BurstIsNat == Burst \in Nat /\ Burst = 2 * Limit + 1
  BY Parameters DEF Burst

\* Before the next window opens, all but the last Limit are a window old.
LEMMA OldWhenClosed ==
    ASSUME RateInv, BurstInv, NEW c \in Clients, ~Live(c)
    PROVE  \A i \in 1..Burst : i <= Burst - Limit => admitted[c][i] = Window
<1>1. admitted[c] \in Ages /\ now \in Nat
  BY DEF BurstInv, RateInv, RateTypes
<1>2. CASE counters[c] = None
  BY <1>2 DEF BurstInv, BurstOf
<1>3. CASE counters[c] # None
  <2>1. PICK k \in 0..Limit : InWindow(c, k)
    BY <1>3 DEF BurstInv, BurstOf
  <2>2. counters[c] \in CounterRecord /\ counters[c].expires <= now
    BY <1>3, Parameters DEF Live, RateInv, RateTypes, CounterRecord
  <2> QED
    BY <1>1, <2>1, <2>2, BurstIsNat, Parameters DEF InWindow, Ages, CounterRecord
<1> QED
  BY <1>2, <1>3

\* Counting a request of c, let through or not.
LEMMA CountKeepsBurst ==
    ASSUME RateInv, BurstInv, NEW c \in Clients, now' = now,
           counters' = [counters EXCEPT ![c] = Hit(c)],
           \/ UNCHANGED admitted
           \/ Allowed(Hit(c)) /\ admitted' = [admitted EXCEPT ![c] = WithOneMore(c)]
    PROVE  BurstInv'
<1>1. /\ c \in Addresses /\ Hit(c) \in CounterRecord /\ Hit(c) # None
      /\ now \in Nat /\ admitted[c] \in Ages
  <2>1. Live(c) => counters[c] # None
    BY DEF Live
  <2> QED
    BY Parameters, HitCounts DEF RateInv, RateTypes, BurstInv
<1>2. /\ counters'[c] = Hit(c) /\ now' = now
      /\ \A d \in Clients \ {c} : counters'[d] = counters[d]
  BY <1>1, Parameters DEF RateInv, RateTypes
<1>3. /\ admitted' \in [Clients -> Ages]
      /\ \A d \in Clients \ {c} : admitted'[d] = admitted[d]
      /\ \/ admitted'[c] = admitted[c]
         \/ Allowed(Hit(c)) /\ admitted'[c] = WithOneMore(c)
  <2>1. WithOneMore(c) \in Ages
    BY <1>1, BurstIsNat, Parameters DEF WithOneMore, Ages
  <2> QED
    BY <2>1 DEF BurstInv
<1>4. \A d \in Clients \ {c} : BurstOf(d)'
  BY <1>2, <1>3 DEF BurstInv, BurstOf, InWindow
\* The number of requests of the window the counter is for, before and after.
<1>5. PICK k \in 0..Limit :
        /\ k < Hit(c).count
        /\ \A i \in 1..Burst : i <= Burst - k =>
              admitted[c][i] = Window \/ admitted[c][i] >= now - (Hit(c).expires - Window)
        /\ \A i \in 1..Burst : i <= Burst - k - Limit => admitted[c][i] = Window
  <2>1. CASE Live(c)
    <3>1. /\ counters[c] # None /\ counters[c] \in CounterRecord
          /\ Hit(c) = [counters[c] EXCEPT !.count = @ + 1]
      BY <1>1, <2>1 DEF Live, Hit, RateInv, RateTypes
    <3>2. PICK k \in 0..Limit : InWindow(c, k)
      BY <3>1 DEF BurstInv, BurstOf
    <3>3. Hit(c).count = counters[c].count + 1 /\ Hit(c).expires = counters[c].expires
      BY <3>1 DEF CounterRecord
    <3>4. k < Hit(c).count
      BY <3>1, <3>2, <3>3 DEF InWindow, CounterRecord
    <3> QED
      BY <3>2, <3>3, <3>4 DEF InWindow
  <2>2. CASE ~Live(c)
    <3>1. Hit(c).count = 1 /\ Hit(c).expires = now + Window
      BY <2>2 DEF Hit
    <3>2. \A i \in 1..Burst : admitted[c][i] \in 0..Window
      BY <1>1 DEF Ages
    <3>3. \A i \in 1..Burst :
            /\ admitted[c][i] >= now - (Hit(c).expires - Window)
            /\ i <= Burst - 0 - Limit => admitted[c][i] = Window
      BY <1>1, <2>2, <3>1, <3>2, OldWhenClosed, BurstIsNat, Parameters
    <3>4. 0 \in 0..Limit /\ 0 < Hit(c).count
      BY <3>1, Parameters
    <3> QED
      BY <3>3, <3>4
  <2> QED
    BY <2>1, <2>2
<1>6. CASE admitted'[c] = admitted[c]
  <2>1. k <= Hit(c).count
    BY <1>1, <1>5 DEF CounterRecord
  <2>2. InWindow(c, k)'
    BY <1>2, <1>5, <1>6, <2>1 DEF InWindow
  <2> QED
    BY <1>1, <1>2, <1>3, <1>4, <2>2 DEF BurstInv, BurstOf
<1>7. CASE Allowed(Hit(c)) /\ admitted'[c] = WithOneMore(c)
  <2>1. k + 1 \in 0..Limit /\ k + 1 <= Hit(c).count
    BY <1>1, <1>5, <1>7, Parameters DEF Allowed, CounterRecord
  <2>2. \A i \in 1..Burst : i <= Burst - (k + 1) =>
          /\ i + 1 \in 1..Burst /\ i + 1 <= Burst - k
          /\ admitted'[c][i] = admitted[c][i + 1]
          /\ i <= Burst - (k + 1) - Limit => i + 1 <= Burst - k - Limit
    <3> SUFFICES ASSUME NEW i \in 1..Burst, i <= Burst - (k + 1)
                 PROVE  /\ i + 1 \in 1..Burst /\ i + 1 <= Burst - k
                        /\ admitted'[c][i] = admitted[c][i + 1]
                        /\ i <= Burst - (k + 1) - Limit => i + 1 <= Burst - k - Limit
      OBVIOUS
    <3>1. /\ i + 1 \in 1..Burst /\ i + 1 <= Burst - k /\ i < Burst
          /\ i <= Burst - (k + 1) - Limit => i + 1 <= Burst - k - Limit
      BY BurstIsNat, Parameters
    <3>2. admitted'[c][i] = admitted[c][i + 1]
      BY <1>7, <3>1 DEF WithOneMore
    <3> QED
      BY <3>1, <3>2
  <2>3. \A i \in 1..Burst : i <= Burst - (k + 1) - Limit => i <= Burst - (k + 1)
    BY BurstIsNat, Parameters
  <2>4. InWindow(c, k + 1)'
    BY <1>2, <1>5, <2>1, <2>2, <2>3 DEF InWindow
  <2> QED
    BY <1>1, <1>2, <1>3, <1>4, <2>1, <2>4 DEF BurstInv, BurstOf
<1> QED
  BY <1>3, <1>6, <1>7

\* A tick: what was before the window began stays so.
LEMMA TickKeepsBurst ==
    ASSUME RateInv, BurstInv, Tick
    PROVE  BurstInv'
<1>1. now \in Nat /\ now' = now + 1 /\ counters' = counters
  BY DEF Tick, RateInv, RateTypes
<1>2. \A c \in Clients : \A i \in 1..Burst :
        /\ admitted[c][i] \in 0..Window
        /\ admitted'[c][i] = Min({admitted[c][i] + 1, Window})
  BY DEF Tick, BurstInv, Ages
<1>3. \A c \in Clients : \A i \in 1..Burst :
        /\ admitted'[c][i] \in 0..Window
        /\ admitted'[c][i] = admitted[c][i] + 1 \/ admitted'[c][i] = Window
        /\ admitted[c][i] = Window => admitted'[c][i] = Window
  <2> SUFFICES ASSUME NEW n \in 0..Window
               PROVE  /\ Min({n + 1, Window}) \in 0..Window
                      /\ Min({n + 1, Window}) \in {n + 1, Window}
                      /\ n = Window => Min({n + 1, Window}) = Window
    BY <1>2
  <2>1. CASE n = Window
    <3>1. \A x \in {n + 1, Window} : (\A y \in {n + 1, Window} : x <= y) <=> x = Window
      BY <2>1, Parameters
    <3> QED
      BY <2>1, <3>1, Parameters DEF Min
  <2>2. CASE n # Window
    BY <2>2, MinOfTwo, Parameters
  <2> QED
    BY <2>1, <2>2
<1>4. admitted' \in [Clients -> Ages]
  BY <1>3 DEF Tick, Ages
<1>5. \A c \in Clients : BurstOf(c)'
  <2> SUFFICES ASSUME NEW c \in Clients PROVE BurstOf(c)'
    OBVIOUS
  <2>1. CASE counters[c] = None
    BY <1>1, <1>3, <2>1 DEF BurstInv, BurstOf
  <2>2. CASE counters[c] # None
    <3>1. counters[c] \in CounterRecord /\ counters[c].expires \in Nat
      BY <2>2, Parameters DEF RateInv, RateTypes, CounterRecord
    <3>2. PICK k \in 0..Limit : InWindow(c, k)
      BY <2>2 DEF BurstInv, BurstOf
    <3>3. InWindow(c, k)'
      <4>1. ASSUME NEW i \in 1..Burst,
                   \/ admitted[c][i] = Window
                   \/ admitted[c][i] >= now - (counters[c].expires - Window)
            PROVE  \/ admitted'[c][i] = Window
                   \/ admitted'[c][i] >= now' - (counters[c].expires - Window)
        <5> DEFINE a == admitted[c][i]
                   b == admitted'[c][i]
                   start == counters[c].expires - Window
        <5>1. /\ a \in 0..Window /\ start \in Int
              /\ b = a + 1 \/ b = Window
              /\ a = Window => b = Window
          <6>1. start \in Int
            BY <3>1, Parameters
          <6>2. /\ a \in 0..Window
                /\ b = a + 1 \/ b = Window
                /\ a = Window => b = Window
            BY <1>2, <1>3, Zenon
          <6> QED
            BY <6>1, <6>2
        <5>2. a = Window \/ a >= now - start
          BY <4>1
        <5> HIDE DEF a, b, start
        <5>3. b = Window \/ b >= now' - start
          BY <1>1, <5>1, <5>2, Parameters
        <5> QED
          BY <5>3 DEF b, start
      <4> QED
        BY <1>1, <1>3, <3>2, <4>1 DEF InWindow
    <3> QED
      BY <1>1, <2>2, <3>3 DEF BurstOf
  <2> QED
    BY <2>1, <2>2
<1> QED
  BY <1>4, <1>5 DEF BurstInv

LEMMA BurstInvHolds == RateSpec => []BurstInv
<1>1. RateInit => BurstInv
  BY Parameters DEF RateInit, BurstInv, BurstOf, Ages
<1>2. RateInv /\ BurstInv /\ [RateNext]_rateVars => BurstInv'
  <2> SUFFICES ASSUME RateInv, BurstInv, [RateNext]_rateVars PROVE BurstInv'
    OBVIOUS
  <2>1. ASSUME UNCHANGED <<now, counters, admitted>> PROVE BurstInv'
    BY <2>1 DEF BurstInv, BurstOf, InWindow
  <2>2. ASSUME NEW c \in Clients, NEW p \in Processes, EnforceRateLimit(c, p, c)
        PROVE  BurstInv'
    <3>1. now' = now
      BY <2>2 DEF EnforceRateLimit
    <3>2. CASE Counted(c, c)
      BY <3>1, <3>2, CountKeepsBurst DEF Counted
    <3>3. CASE CallFails(c, p, c)
      BY <2>1, <3>1, <3>3, CountKeepsBurst DEF CallFails
    <3> QED
      BY <2>1, <2>2, <3>1, <3>2, <3>3 DEF EnforceRateLimit
  <2>3. ASSUME NEW p \in Processes, OtherCommandFails(p) PROVE BurstInv'
    BY <2>1, <2>3 DEF OtherCommandFails
  <2> QED
    BY <2>1, <2>2, <2>3, TickKeepsBurst, ForgingIsVain DEF RateNext, rateVars
<1> QED
  BY <1>1, <1>2, RateInvHolds, PTL DEF RateSpec

\* No span of a window has more than 2 * Limit requests of a client in it, for
\* any limit, window and proxies, while Redis answers.
THEOREM BurstsAreBounded == RateSpec => []BurstBounded
<1>1. BurstInv => BurstBounded
  <2> SUFFICES ASSUME BurstInv, NEW c \in Clients PROVE admitted[c][1] = Window
    BY DEF BurstBounded
  <2>1. 1 \in 1..Burst
    BY BurstIsNat, Parameters
  <2>2. ASSUME NEW k \in 0..Limit PROVE 1 <= Burst - k - Limit
    BY BurstIsNat, Parameters
  <2> QED
    BY <2>1, <2>2 DEF BurstInv, BurstOf, InWindow
<1> QED
  BY <1>1, BurstInvHolds, PTL

-----------------------------------------------------------------------------
(* The types, with the bounds of the clock and the counters.                *)

\* A Retry-After names a time no later than a second after the window.
LEMMA RetryAfterIsBounded ==
    ASSUME now \in Nat, NEW counter \in CounterRecord, counter.expires <= now + Window
    PROVE  Second * RetryAfter(counter) <= Window + Second
<1> DEFINE left == counter.expires - now
           q == (2 * left + Second) \div (2 * Second)
<1>1. left \in Int /\ left <= Window
  BY Parameters DEF CounterRecord
<1>2. \A s \in Nat \ {0}, n \in Int :
        /\ (2 * n + s) \div (2 * s) \in Int
        /\ 2 * (s * ((2 * n + s) \div (2 * s))) <= 2 * n + s
  BY SMT
<1>3. q \in Int /\ 2 * (Second * q) <= 2 * left + Second
  BY <1>1, <1>2, Parameters
<1>4. RetryAfter(counter) = Max({1, q})
  BY DEF RetryAfter
<1> HIDE DEF left, q
<1>5. RetryAfter(counter) = 1 \/ RetryAfter(counter) = q
  <2>1. 1 \in Int /\ q \in Int
    BY <1>3
  <2>2. Max({1, q}) \in {1, q}
    BY <2>1, MaxOfTwo, Zenon
  <2> QED
    BY <1>4, <2>2
<1>6. CASE RetryAfter(counter) = 1
  <2>1. Second * 1 <= Window + Second
    BY Parameters
  <2> QED
    BY <1>6, <2>1
<1>7. CASE RetryAfter(counter) = q
  <2>1. Second * q \in Int
    BY <1>3, Parameters
  <2>2. Second * q <= Window + Second
    BY <1>1, <1>3, <2>1, Parameters
  <2> QED
    BY <1>7, <2>2
<1> QED
  BY <1>5, <1>6, <1>7

LEMMA RequestKeepsTypes ==
    ASSUME RateInv, BurstInv, BurstInv', RateTypeOK,
           NEW c \in Clients, NEW p \in Processes, EnforceRateLimit(c, p, c)
    PROVE  RateTypeOK'
<1>1. /\ now' = now /\ now \in 0..MaxTime /\ MaxTime \in Nat /\ MaxCount \in Nat \ {0}
      /\ c \in Addresses
  BY Parameters, RateLimitAssumption DEF EnforceRateLimit, RateTypeOK, RateLimitAssumption
<1>2. Hit(c) \in Counters
  <2>1. CASE Live(c)
    <3>1. counters[c] \in Counters /\ counters[c].count < MaxCount
      BY <1>1, <2>1 DEF EnforceRateLimit, Live, RateTypeOK
    <3> QED
      BY <1>1, <2>1, <3>1 DEF Hit, Counters
  <2>2. CASE ~Live(c)
    BY <1>1, <2>2, Parameters DEF Hit, Counters, Times
  <2> QED
    BY <2>1, <2>2
<1>3. ASSUME counters' = counters \/ counters' = [counters EXCEPT ![c] = Hit(c)],
             openUntil' = openUntil \/ Failed(p),
             refused' \in [Clients -> Refusals \cup {None}]
      PROVE  RateTypeOK'
  <2>1. counters' \in [Addresses -> Counters \cup {None}]
    BY <1>2, <1>3 DEF RateTypeOK
  <2>2. openUntil' \in [Processes -> 0..(MaxTime + Backoff)]
    BY <1>1, <1>3, Parameters DEF RateTypeOK, Failed
  <2> QED
    BY <1>1, <1>3, <2>1, <2>2 DEF RateTypeOK, BurstInv, Ages
<1>4. LetThrough(c) => refused' \in [Clients -> Refusals \cup {None}]
  BY DEF LetThrough, RateTypeOK
<1>5. CASE now < openUntil[p]
  BY <1>3, <1>4, <1>5 DEF EnforceRateLimit
<1>6. CASE CallFails(c, p, c)
  BY <1>3, <1>4, <1>6 DEF CallFails
<1>7. CASE Counted(c, c) /\ Allowed(Hit(c))
  BY <1>3, <1>4, <1>7 DEF Counted
<1>8. CASE Counted(c, c) /\ ~Allowed(Hit(c))
  <2> DEFINE retry == now + Second * RetryAfter(Hit(c))
             new == IF refused[c] = None
                    THEN [first |-> now, last |-> now, retry |-> retry]
                    ELSE [first |-> refused[c].first, last |-> now,
                          retry |-> Min({refused[c].retry, retry})]
  <2>1. refused' = [refused EXCEPT ![c] = new]
    BY <1>8, Zenon DEF Counted
  <2>2. Hit(c) \in CounterRecord /\ Hit(c).expires <= now + Window
    BY <1>1, HitCounts
  <2>3. retry \in 0..(MaxTime + Window + Second)
    <3>1. now \in Nat
      BY <1>1
    <3>2. /\ Second * RetryAfter(Hit(c)) \in Nat
          /\ Second * RetryAfter(Hit(c)) <= Window + Second
      BY <2>2, <3>1, RetryAfterIsClose, RetryAfterIsBounded
    <3> QED
      BY <1>1, <3>2, Parameters
  <2> HIDE DEF retry
  <2>4. now \in Times
    BY <1>1, Parameters DEF Times
  <2>5. new \in Refusals
    <3>1. CASE refused[c] = None
      BY <2>3, <2>4, <3>1 DEF Refusals
    <3>2. CASE refused[c] # None
      <4>1. refused[c] \in Refusals
        BY <3>2 DEF RateTypeOK
      <4> DEFINE least == Min({refused[c].retry, retry})
      <4>2. least \in {refused[c].retry, retry}
        BY <1>1, <2>3, <4>1, MinOfTwo, Parameters DEF Refusals
      <4>3. new = [first |-> refused[c].first, last |-> now, retry |-> least]
        BY <3>2
      <4> HIDE DEF least, new
      <4> QED
        BY <2>3, <2>4, <4>1, <4>2, <4>3 DEF Refusals
    <3> QED
      BY <3>1, <3>2
  <2> HIDE DEF new
  <2>6. refused' \in [Clients -> Refusals \cup {None}]
    BY <2>1, <2>5 DEF RateTypeOK
  <2> QED
    BY <1>3, <1>8, <2>6 DEF Counted
<1> QED
  BY <1>5, <1>6, <1>7, <1>8 DEF EnforceRateLimit

\* The counters, times and histories keep their types.
THEOREM RateTypeCorrect == RateSpec => []RateTypeOK
<1>1. RateInit => RateTypeOK
  <2> SUFFICES ASSUME RateInit PROVE RateTypeOK
    OBVIOUS
  <2>1. MaxTime \in Nat
    BY RateLimitAssumption DEF RateLimitAssumption
  <2> QED
    BY <2>1, Parameters DEF RateInit, RateTypeOK
<1>2. RateInv /\ BurstInv /\ BurstInv' /\ RateTypeOK /\ [RateNext]_rateVars => RateTypeOK'
  <2> SUFFICES ASSUME RateInv, BurstInv, BurstInv', RateTypeOK, [RateNext]_rateVars
               PROVE  RateTypeOK'
    OBVIOUS
  <2>0. MaxTime \in Nat
    BY RateLimitAssumption DEF RateLimitAssumption
  <2>1. CASE \E c \in Clients, p \in Processes, h \in Headers, r \in Routes :
                EnforceRateLimit(c, p, AddressOf(c, h, r))
    BY <2>1, ForgingIsVain, RequestKeepsTypes
  <2>2. CASE \E p \in Processes : OtherCommandFails(p)
    BY <2>0, <2>2, Parameters DEF OtherCommandFails, Failed, RateTypeOK
  <2>3. CASE Tick
    <3>1. now' \in 0..MaxTime
      BY <2>0, <2>3 DEF Tick, RateTypeOK
    <3>2. UNCHANGED <<counters, openUntil, refused>>
      BY <2>3 DEF Tick
    <3> QED
      BY <3>1, <3>2 DEF RateTypeOK, BurstInv, Ages
  <2>4. CASE UNCHANGED rateVars
    BY <2>4 DEF rateVars, RateTypeOK
  <2> QED
    BY <2>1, <2>2, <2>3, <2>4 DEF RateNext
<1> QED
  BY <1>1, <1>2, RateInvHolds, BurstInvHolds, PTL DEF RateSpec
=============================================================================
