------------------------------ MODULE RateLimit ------------------------------
(***************************************************************************)
(* enforce_rate_limit and CacheService.rate_limit: for one endpoint, a     *)
(* counter with a TTL in Redis per client address, incremented by an       *)
(* atomic script; per API process the backoff that a failure of any Redis  *)
(* command starts, during which the limiter is open; and the choice of the *)
(* address a request is counted under.                                     *)
(*                                                                         *)
(* Time is in ticks, Second of them a second.  A clock step and a request  *)
(* never happen together.                                                  *)
(***************************************************************************)
EXTENDS Integers, SequencesExt

CONSTANTS Processes,  \* API processes
          Clients,    \* addresses requests come from
          Others,     \* other addresses a header may name
          Proxies,    \* addresses in TRUSTED_PROXY_NETWORKS
          NotAnIp,    \* a forwarded value that is no address
          Headers,    \* X-Forwarded-For values a client may send itself
          Routes,     \* sequences of proxies a request may pass through
          Limit,      \* requests allowed in a window
          Second,     \* ticks in a second
          Window,     \* window_seconds, in ticks
          Backoff,    \* cache_error_backoff_seconds, in ticks
          MaxTime,    \* bound on the clock
          MaxCount,   \* bound on the requests counted in a window
          None

ASSUME RateLimitAssumption ==
    /\ {Limit, Second, Window, Backoff} \subseteq Nat \ {0}
    /\ MaxTime \in Nat /\ MaxCount \in Nat \ {0}
    /\ (Clients \cup Others) \cap Proxies = {}
    /\ NotAnIp \notin Clients \cup Others \cup Proxies
    /\ None \notin [count: Nat, expires: Nat]
    /\ Routes \subseteq Seq(Proxies)
    /\ Headers \subseteq Seq(Clients \cup Others \cup Proxies \cup {NotAnIp})

VARIABLES
    now,       \* the clock
    counters,  \* per address the Redis counter [count, expires], or None
    openUntil, \* per process _disabled_until
    admitted,  \* per client the ages of the last Burst counted requests that were
               \* let through, the oldest first; none is older than Window (history)
    refused    \* per client, since it was last let through: the first and the
               \* last refusal and the earliest time a Retry-After named, or
               \* None (history)

rateVars == <<now, counters, openUntil, admitted, refused>>

Addresses == Clients \cup Others \cup Proxies
Times == 0..(MaxTime + Window)
Burst == 2 * Limit + 1
Counters == [count: 1..MaxCount, expires: Times]
Refusals == [first: Times, last: Times, retry: 0..(MaxTime + Window + Second)]

RateInit ==
    /\ now = 0
    /\ counters = [a \in Addresses |-> None]
    /\ openUntil = [p \in Processes |-> 0]
    /\ admitted = [c \in Clients |-> [i \in 1..Burst |-> Window]]
    /\ refused = [c \in Clients |-> None]

-----------------------------------------------------------------------------
(* The address a request is counted under.                                 *)

\* Mutant: the first value of the header is believed.
ClientIp_First(peer, forwarded) ==
    IF peer \in Proxies /\ forwarded # <<>> /\ Head(forwarded) \in Addresses
    THEN Head(forwarded) ELSE peer

\* client_ip: behind a trusted peer, the last address no trusted proxy owns.
ClientIp(peer, forwarded) ==
    LET chain == Append(forwarded, peer)
        known == {i \in DOMAIN chain : chain[i] \in Addresses \ Proxies}
    IN IF peer \notin Proxies \/ known = {} THEN peer
       ELSE chain[CHOOSE i \in known : \A j \in known : j <= i]

\* The address the server takes a request of c for: each proxy on its route
\* appends the address it was called from to the client's own header.
AddressOf(c, header, route) ==
    LET hops == <<c>> \o route
    IN ClientIp(Last(hops), header \o Front(hops))

-----------------------------------------------------------------------------
(* The counter.                                                            *)

Live(a) == counters[a] # None /\ now < counters[a].expires

\* Mutant: every request starts the TTL again.
Hit_Prolongs(a) ==
    [count |-> IF Live(a) THEN counters[a].count + 1 ELSE 1,
     expires |-> now + Window]

\* The script: INCR, and EXPIRE when it made the counter.
Hit(a) ==
    IF Live(a) THEN [counters[a] EXCEPT !.count = @ + 1]
    ELSE [count |-> 1, expires |-> now + Window]

Allowed(counter) == counter.count <= Limit

\* Mutant: the TTL is cut to whole seconds.
RetryAfter_Floor(counter) == Max({1, (counter.expires - now) \div Second})

\* Mutant: the time of expiry is taken for the time to live.
RetryAfter_Expiry(counter) == Max({1, counter.expires})

\* Redis reports a TTL to the nearest second; the service never less than one.
RetryAfter(counter) ==
    Max({1, (2 * (counter.expires - now) + Second) \div (2 * Second)})

\* The history of c with a request let through now.
WithOneMore(c) ==
    [i \in 1..Burst |-> IF i < Burst THEN admitted[c][i + 1] ELSE 0]

LetThrough(c) == refused' = [refused EXCEPT ![c] = None]

Counted(c, a) ==
    /\ counters' = [counters EXCEPT ![a] = Hit(a)]
    /\ IF Allowed(Hit(a))
       THEN /\ admitted' = [admitted EXCEPT ![c] = WithOneMore(c)]
            /\ LetThrough(c)
       ELSE LET retry == now + Second * RetryAfter(Hit(a))
                past  == refused[c]
            IN /\ refused' = [refused EXCEPT ![c] =
                    IF past = None
                    THEN [first |-> now, last |-> now, retry |-> retry]
                    ELSE [first |-> past.first, last |-> now,
                          retry |-> Min({past.retry, retry})]]
               /\ UNCHANGED admitted
    /\ UNCHANGED openUntil

Failed(p) == openUntil' = [openUntil EXCEPT ![p] = now + Backoff]

\* The call fails, before or after Redis ran the script.
CallFails(c, p, a) ==
    /\ Failed(p)
    /\ \/ counters' = [counters EXCEPT ![a] = Hit(a)]
       \/ UNCHANGED counters
    /\ LetThrough(c)
    /\ UNCHANGED admitted

EnforceRateLimit(c, p, a) ==
    /\ Live(a) => counters[a].count < MaxCount
    /\ IF now < openUntil[p]
       THEN LetThrough(c) /\ UNCHANGED <<counters, openUntil, admitted>>
       ELSE Counted(c, a) \/ CallFails(c, p, a)
    /\ UNCHANGED now

\* Another command of the process fails.
OtherCommandFails(p) ==
    /\ now >= openUntil[p]
    /\ Failed(p)
    /\ UNCHANGED <<now, counters, admitted, refused>>

Tick ==
    /\ now < MaxTime
    /\ now' = now + 1
    /\ admitted' = [c \in Clients |->
                      [i \in 1..Burst |-> Min({admitted[c][i] + 1, Window})]]
    /\ UNCHANGED <<counters, openUntil, refused>>

RateNext ==
    \/ \E c \in Clients, p \in Processes, h \in Headers, r \in Routes :
           EnforceRateLimit(c, p, AddressOf(c, h, r))
    \/ \E p \in Processes : OtherCommandFails(p)
    \/ Tick

RateSpec == RateInit /\ [][RateNext]_rateVars

-----------------------------------------------------------------------------
RateTypeOK ==
    /\ now \in 0..MaxTime
    /\ counters \in [Addresses -> Counters \cup {None}]
    /\ openUntil \in [Processes -> 0..(MaxTime + Backoff)]
    /\ admitted \in [Clients -> [1..Burst -> 0..Window]]
    /\ refused \in [Clients -> Refusals \cup {None}]

\* While Redis answers, no client gets more than two windows' requests through
\* in any span of a window, wherever the span begins, whatever route and
\* headers its requests have (cache_service.py: a fixed window, not a sliding
\* one; rate_limit.py: only what a trusted proxy appended is believed).
BurstBounded == \A c \in Clients : admitted[c][1] = Window

\* Retrying never prolongs a refusal: a client that is refused again and again
\* is let through before a window has passed.
RefusalsEnd ==
    \A c \in Clients :
        refused[c] # None => refused[c].last - refused[c].first < Window

\* The Retry-After of a refusal is right but for the rounding of the TTL: half
\* a second after the time it names, the counter of the refusal is gone.
RetryAfterHolds ==
    \A c \in Clients :
        refused[c] # None /\ Live(c)
        => 2 * (counters[c].expires - refused[c].retry) <= Second
=============================================================================
