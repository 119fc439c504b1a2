----------------------------- MODULE CacheAside -----------------------------
(***************************************************************************)
(* GET /schedules/status and GET /airports: read the cache, on a miss read *)
(* the database and store what was read; and the imports that change what  *)
(* the database holds, each a short-lived process of its own that commits  *)
(* and then deletes the keys of its namespace, one by one and no more than *)
(* MaxKeys of them.  The status has one key, airports one per query.       *)
(*                                                                         *)
(* What the database holds is abstracted to a version that every import    *)
(* increases; the answer to any query is the version it was computed from. *)
(***************************************************************************)
EXTENDS RedisCache, Naturals, FiniteSets

CONSTANTS Readers,     \* request threads, each serving one request at a time
          ProcessOf,   \* the API process of a thread
          MaxKeys,     \* keys one invalidation deletes at most
          MaxVersion   \* bound on the number of imports

Versions == 0..MaxVersion

ASSUME CacheAsideAssumption ==
    /\ Payloads = Versions
    /\ MaxKeys \in Nat \ {0} /\ MaxVersion \in Nat
    /\ ProcessOf \in [Readers -> Processes]

VARIABLES
    version,    \* what the database holds
    reader,     \* [pc, key, read]: the requests
    importer,   \* "idle", "invalidate"
    scan,       \* keys SCAN has yet to return to the importer
    deleted,    \* keys the importer has deleted
    missed      \* keys an import may have left behind (history)

importVars == <<importer, scan, deleted>>
asideVars == <<cacheVars, version, reader, importVars, missed>>

AsideInit ==
    /\ CacheInit
    /\ version = 0
    /\ reader \in [Readers -> [pc: {"start"}, key: Keys, read: {0}]]
    /\ importer = "idle" /\ scan = {} /\ deleted = 0
    /\ missed = {}

Becomes(r, new) == reader' = [reader EXCEPT ![r] = new]
At(r, step) == reader[r].pc = step

-----------------------------------------------------------------------------
\* Mutant: a hit is stored again, to prolong its TTL.
Lookup_Prolongs(r) ==
    /\ At(r, "start")
    /\ \E v \in Entries :
        /\ GetJson(ProcessOf[r], reader[r].key, v)
        /\ Becomes(r, [reader[r] EXCEPT
               !.pc = CASE v \in Payloads -> "set"
                        [] v = Misfit     -> "delete"
                        [] OTHER          -> "read",
               !.read = IF v \in Payloads THEN v ELSE 0])
    /\ UNCHANGED <<version, importVars, missed>>

\* A valid payload is the answer; one that cannot be decoded or that the
\* response schema rejects is deleted.
Lookup(r) ==
    /\ At(r, "start")
    /\ \E v \in Entries :
        /\ GetJson(ProcessOf[r], reader[r].key, v)
        /\ Becomes(r, [reader[r] EXCEPT
               !.pc = CASE v \in Payloads -> "answer"
                        [] v = Misfit     -> "delete"
                        [] OTHER          -> "read",
               !.read = IF v \in Payloads THEN v ELSE 0])
    /\ UNCHANGED <<version, importVars, missed>>

DeleteInvalid(r) ==
    /\ At(r, "delete")
    /\ Delete(ProcessOf[r], reader[r].key)
    /\ Becomes(r, [reader[r] EXCEPT !.pc = "read"])
    /\ UNCHANGED <<version, importVars, missed>>

ReadDatabase(r) ==
    /\ At(r, "read")
    /\ Becomes(r, [reader[r] EXCEPT !.pc = "set", !.read = version])
    /\ UNCHANGED <<cacheVars, version, importVars, missed>>

Set(r) ==
    /\ At(r, "set")
    /\ SetJson(ProcessOf[r], reader[r].key, reader[r].read)
    /\ Becomes(r, [reader[r] EXCEPT !.pc = "answer"])
    /\ UNCHANGED <<version, importVars, missed>>

\* The response is sent; the thread takes its next request.
Answer(r) ==
    /\ At(r, "answer")
    /\ \E k \in Keys :
         Becomes(r, [reader[r] EXCEPT !.pc = "start", !.key = k, !.read = 0])
    /\ UNCHANGED <<cacheVars, version, importVars, missed>>

-----------------------------------------------------------------------------
Present == {k \in Keys : entries[k] # NoEntry}

\* Mutant: the prefix to invalidate matches no key.
Commit_WrongPrefix ==
    /\ importer = "idle"
    /\ version < MaxVersion
    /\ version' = version + 1
    /\ importer' = "invalidate" /\ deleted' = 0
    /\ scan' = {}
    /\ missed' = missed \cup {reader[r].key : r \in {q \in Readers : At(q, "set")}}
    /\ UNCHANGED <<cacheVars, reader>>

\* The import commits.  Its SCAN returns at least the keys present all along.
\* A request that has read the database but not yet stored what it read will
\* store the old version, whatever the invalidation does: its key is missed.
Commit ==
    /\ importer = "idle"
    /\ version < MaxVersion
    /\ version' = version + 1
    /\ importer' = "invalidate" /\ deleted' = 0
    /\ \E later \in SUBSET (Keys \ Present) : scan' = Present \cup later
    /\ missed' = missed \cup {reader[r].key : r \in {q \in Readers : At(q, "set")}}
    /\ UNCHANGED <<cacheVars, reader>>

\* Mutant: the invalidation does not stop at MaxKeys.
DeleteNext_Unbounded(k) ==
    /\ importer = "invalidate" /\ k \in scan
    /\ Store(k, NoEntry)
    /\ scan' = scan \ {k}
    /\ deleted' = IF entries[k] = NoEntry THEN deleted ELSE deleted + 1
    /\ UNCHANGED <<backoff, version, reader, importer, missed>>

DeleteNext(k) ==
    /\ importer = "invalidate" /\ k \in scan
    /\ deleted < MaxKeys
    /\ Store(k, NoEntry)
    /\ scan' = scan \ {k}
    /\ deleted' = IF entries[k] = NoEntry THEN deleted ELSE deleted + 1
    /\ UNCHANGED <<backoff, version, reader, importer, missed>>

\* All keys visited, or max_keys deleted and the rest left.
EndInvalidation ==
    /\ importer = "invalidate" /\ (scan = {} \/ deleted >= MaxKeys)
    /\ importer' = "idle" /\ scan' = {}
    /\ missed' = missed \cup scan
    /\ UNCHANGED <<cacheVars, version, reader, deleted>>

\* Redis fails, or the importer dies, with keys still to delete.
InvalidationFails ==
    /\ importer = "invalidate" /\ scan # {}
    /\ importer' = "idle" /\ scan' = {}
    /\ missed' = missed \cup scan
    /\ UNCHANGED <<cacheVars, version, reader, deleted>>

CacheEnvironment ==
    /\ \/ \E k \in Keys : Expire(k) \/ Corrupt(k)
       \/ \E p \in Processes : EndBackoff(p)
    /\ UNCHANGED <<version, reader, importVars, missed>>

Request(r) == Lookup(r) \/ DeleteInvalid(r) \/ ReadDatabase(r) \/ Set(r) \/ Answer(r)
Import == Commit \/ (\E k \in Keys : DeleteNext(k)) \/ EndInvalidation
          \/ InvalidationFails

AsideNext == (\E r \in Readers : Request(r)) \/ Import \/ CacheEnvironment

AsideSpec == AsideInit /\ [][AsideNext]_asideVars

\* Requests under way and a started invalidation go on, and a TTL runs out.
FairAsideSpec ==
    /\ AsideSpec
    /\ \A r \in Readers : WF_asideVars(Request(r))
    /\ WF_asideVars((\E k \in Keys : DeleteNext(k)) \/ EndInvalidation)
    /\ \A k \in Keys :
         WF_asideVars(Expire(k) /\ UNCHANGED <<version, reader, importVars, missed>>)

-----------------------------------------------------------------------------
(* Properties.                                                             *)

AsideTypeOK ==
    /\ CacheTypeOK
    /\ version \in Versions
    /\ reader \in [Readers -> [pc: {"start", "delete", "read", "set", "answer"},
                               key: Keys, read: Versions]]
    /\ importer \in {"idle", "invalidate"}
    /\ scan \subseteq Keys /\ deleted \in 0..MaxKeys
    /\ missed \subseteq Keys

Stale(k) == entries[k] \in Payloads /\ entries[k] # version

\* When no import is under way, an entry is stale only if some import missed
\* it: a request had read the database before the commit and stored after it,
\* or the invalidation failed, died or had deleted MaxKeys keys already.
StaleOnlyIfMissed ==
    importer = "idle" => \A k \in Keys : Stale(k) => k \in missed

\* Staleness ends: once imports stop, every entry is of the present version
\* for good, because what a hit returns is never stored again.
EventuallyFresh == <>[](\A k \in Keys : ~Stale(k))
=============================================================================
