----------------------------- MODULE RedisCache -----------------------------
(***************************************************************************)
(* CacheService: the shared Redis entries and, per API process, the        *)
(* backoff during which the process leaves Redis alone.  Each operator is  *)
(* the effect of one method; the modules of the endpoints compose them.    *)
(*                                                                         *)
(* Time is not modelled: an entry with a TTL may be gone at any moment,    *)
(* and a backoff may end at any moment.  A command that fails (timeout,    *)
(* lost connection) may have been applied by the server all the same.      *)
(***************************************************************************)

CONSTANTS Processes,   \* processes with a CacheService of their own
          Keys,        \* cache keys
          Payloads,    \* values that decode and satisfy the response schema
          NoEntry,     \* nothing stored
          Misfit,      \* a text that does not decode to an object or array,
                       \* or an object the response schema rejects
          Listing      \* a JSON array, which no endpoint stores or expects

ASSUME EntryAssumption ==
    /\ Payloads \cap {NoEntry, Misfit, Listing} = {}
    /\ NoEntry # Misfit /\ Listing \notin {NoEntry, Misfit}

VARIABLES entries,     \* what Redis holds under each key
          backoff      \* the processes whose _disabled_until is ahead

cacheVars == <<entries, backoff>>

Entries == Payloads \cup {NoEntry, Misfit, Listing}

CacheTypeOK == /\ entries \in [Keys -> Entries]
               /\ backoff \subseteq Processes

CacheInit == /\ entries = [k \in Keys |-> NoEntry]
             /\ backoff = {}

Available(p) == p \notin backoff

Failed(p) == backoff' = backoff \cup {p}

Store(k, v) == entries' = [entries EXCEPT ![k] = v]

\* One command of p with that effect on the entries: skipped during the
\* backoff, done, or failed with or without the effect.
Command(p, Effect) ==
    \/ ~Available(p) /\ UNCHANGED cacheVars
    \/ Available(p) /\ Effect /\ UNCHANGED backoff
    \/ Available(p) /\ Failed(p) /\ (Effect \/ UNCHANGED entries)

SetJson(p, k, v) == Command(p, Store(k, v))

Delete(p, k) == Command(p, Store(k, NoEntry))

\* get_json up to the reply to its GET.  A misfit is deleted next, by get_json
\* itself or by the endpoint, with a command of its own: another process may
\* store a good value before.  A list is neither returned nor deleted.
GetJson(p, k, value) ==
    \/ /\ value = NoEntry                         \* BYPASS or ERROR
       /\ UNCHANGED entries
       /\ IF Available(p) THEN Failed(p) ELSE UNCHANGED backoff
    \/ /\ Available(p)                            \* HIT, MISS or CORRUPT
       /\ value = entries[k]
       /\ UNCHANGED cacheVars

\* The environment: TTLs and backoffs run out, another release or an operator
\* leaves a value this release cannot use.
Expire(k) == entries[k] # NoEntry /\ Store(k, NoEntry) /\ UNCHANGED backoff

Corrupt(k) == /\ entries[k] \in Payloads
              /\ \E v \in {Misfit, Listing} : Store(k, v)
              /\ UNCHANGED backoff

EndBackoff(p) == p \in backoff /\ backoff' = backoff \ {p} /\ UNCHANGED entries
=============================================================================
