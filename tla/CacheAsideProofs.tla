-------------------------- MODULE CacheAsideProofs --------------------------
(***************************************************************************)
(* Whatever the processes, keys, threads and numbers of imports: an entry  *)
(* is stale, while no import is under way, only if some import missed its  *)
(* key (Missed).  An entry that has become stale is one the invalidation   *)
(* has still to visit, or is missed; and a request that will store an old  *)
(* answer has a missed key already.                                        *)
(***************************************************************************)
EXTENDS CacheAside, TLAPS

\* What is stale is still to be deleted or was missed, and so is what will be.
AsideInv ==
    /\ AsideTypeOK
    /\ importer = "idle" => scan = {}
    /\ \A k \in Keys : Stale(k) => k \in missed \cup scan
    /\ \A r \in Readers : At(r, "set") /\ reader[r].read # version =>
                              reader[r].key \in missed

\* A command leaves an entry as it was or has its effect.
LEMMA StoreCommand ==
    ASSUME CacheTypeOK, NEW p \in Processes, NEW k \in Keys, NEW v \in Entries,
           Command(p, Store(k, v))
    PROVE  /\ CacheTypeOK'
           /\ entries' = entries \/ entries' = [entries EXCEPT ![k] = v]
<1>1. entries' = entries \/ entries' = [entries EXCEPT ![k] = v]
  BY DEF Command, Store, cacheVars
<1>2. backoff' \subseteq Processes
  BY DEF CacheTypeOK, Command, Failed, cacheVars
<1> QED BY <1>1, <1>2 DEF CacheTypeOK

LEMMA NoEntries == {NoEntry, Misfit, Listing} \cap Payloads = {} /\ NoEntry \in Entries
BY EntryAssumption DEF Entries

LEMMA GetCommand ==
    ASSUME CacheTypeOK, NEW p \in Processes, NEW k \in Keys, NEW v, GetJson(p, k, v)
    PROVE  /\ CacheTypeOK'
           /\ entries' = entries
  BY DEF GetJson, cacheVars, CacheTypeOK, Failed

\* Taking entries away, and keeping version, scan and missed, makes none stale.
LEMMA FewerStale ==
    ASSUME AsideInv, NEW k \in Keys, NEW v \in Entries,
           entries' = entries \/ entries' = [entries EXCEPT ![k] = v],
           v \in Payloads => v = version \/ k \in missed,
           UNCHANGED <<version, importVars, missed>>
    PROVE  \A q \in Keys : Stale(q)' => q \in (missed \cup scan)'
<1>1. UNCHANGED <<version, scan, missed>> /\ entries \in [Keys -> Entries]
  BY DEF importVars, AsideInv, AsideTypeOK, CacheTypeOK
<1>2. ASSUME NEW q \in Keys, Stale(q)' PROVE q \in missed \cup scan
  <2>1. CASE entries'[q] = entries[q]
    BY <1>1, <1>2, <2>1 DEF Stale, AsideInv
  <2>2. CASE entries'[q] # entries[q]
    <3>1. q = k /\ entries'[q] = v
      BY <1>1, <2>2
    <3> QED BY <1>1, <1>2, <3>1 DEF Stale
  <2> QED BY <2>1, <2>2
<1> QED BY <1>1, <1>2

\* A step of one request, the others staying where they are.
LEMMA RequestStep ==
    ASSUME AsideInv, NEW r \in Readers,
           NEW new \in [pc: {"start", "delete", "read", "set", "answer"},
                        key: Keys, read: Versions],
           Becomes(r, new),
           new.pc = "set" => new.read = version,
           NEW v \in Entries, CacheTypeOK',
           \/ entries' = entries
           \/ entries' = [entries EXCEPT ![reader[r].key] = v],
           v \in Payloads => v = version \/ reader[r].key \in missed,
           UNCHANGED <<version, importVars, missed>>
    PROVE  AsideInv'
<1>1. UNCHANGED <<version, importer, scan, deleted, missed>>
  BY DEF importVars
<1>2. reader' = [reader EXCEPT ![r] = new]
  BY DEF Becomes
<1>3. AsideTypeOK'
  BY <1>1, <1>2 DEF AsideInv, AsideTypeOK
<1>4. reader[r].key \in Keys
  BY DEF AsideInv, AsideTypeOK
<1>5. \A q \in Keys : Stale(q)' => q \in (missed \cup scan)'
  BY <1>4, FewerStale
<1>6. ASSUME NEW s \in Readers, At(s, "set")', (reader[s].read # version)'
      PROVE  (reader[s].key \in missed)'
  <2>1. CASE s = r
    BY <1>1, <1>2, <1>6, <2>1 DEF AsideInv, AsideTypeOK, At
  <2>2. CASE s # r
    <3>1. reader'[s] = reader[s]
      BY <1>2, <2>2 DEF AsideInv, AsideTypeOK
    <3> QED BY <1>1, <1>6, <3>1 DEF AsideInv, At
  <2> QED BY <2>1, <2>2
<1> QED BY <1>1, <1>3, <1>5, <1>6 DEF AsideInv

LEMMA RequestInvariant ==
    ASSUME AsideInv, NEW r \in Readers, Request(r)
    PROVE  AsideInv'
<1>1. /\ CacheTypeOK /\ ProcessOf[r] \in Processes /\ version \in Versions
      /\ reader[r] \in [pc: {"start", "delete", "read", "set", "answer"},
                        key: Keys, read: Versions]
  BY CacheAsideAssumption DEF AsideInv, AsideTypeOK
<1>2. 0 \in Versions /\ Payloads = Versions /\ NoEntry \in Entries /\ NoEntry \notin Payloads
  BY CacheAsideAssumption, NoEntries DEF Versions
<1>3. CASE Lookup(r)
  <2>1. PICK v \in Entries :
          /\ GetJson(ProcessOf[r], reader[r].key, v)
          /\ Becomes(r, [reader[r] EXCEPT
                 !.pc = CASE v \in Payloads -> "answer"
                          [] v = Misfit     -> "delete"
                          [] OTHER          -> "read",
                 !.read = IF v \in Payloads THEN v ELSE 0])
    BY <1>3 DEF Lookup
  <2> DEFINE new == [reader[r] EXCEPT
                 !.pc = CASE v \in Payloads -> "answer"
                          [] v = Misfit     -> "delete"
                          [] OTHER          -> "read",
                 !.read = IF v \in Payloads THEN v ELSE 0]
  <2>2. /\ new \in [pc: {"start", "delete", "read", "set", "answer"},
                    key: Keys, read: Versions]
        /\ new.pc # "set"
    BY <1>1, <1>2, EntryAssumption
  <2>3. /\ CacheTypeOK'
        /\ entries' = entries
    BY <1>1, <2>1, GetCommand
  <2>4. UNCHANGED <<version, importVars, missed>> /\ Becomes(r, new)
    BY <1>3, <2>1 DEF Lookup
  <2> HIDE DEF new
  <2> QED BY <1>2, <2>2, <2>3, <2>4, RequestStep
<1>4. CASE DeleteInvalid(r)
  <2> DEFINE new == [reader[r] EXCEPT !.pc = "read"]
  <2>1. /\ new \in [pc: {"start", "delete", "read", "set", "answer"},
                    key: Keys, read: Versions]
        /\ new.pc # "set"
    BY <1>1
  <2>2. /\ CacheTypeOK'
        /\ entries' = entries \/ entries' = [entries EXCEPT ![reader[r].key] = NoEntry]
    BY <1>1, <1>2, <1>4, StoreCommand DEF DeleteInvalid, Delete
  <2>3. UNCHANGED <<version, importVars, missed>> /\ Becomes(r, new)
    BY <1>4 DEF DeleteInvalid
  <2> HIDE DEF new
  <2> QED BY <1>2, <2>1, <2>2, <2>3, RequestStep
<1>5. CASE ReadDatabase(r)
  <2> DEFINE new == [reader[r] EXCEPT !.pc = "set", !.read = version]
  <2>1. /\ new \in [pc: {"start", "delete", "read", "set", "answer"},
                    key: Keys, read: Versions]
        /\ new.read = version
    BY <1>1
  <2>2. UNCHANGED <<entries, backoff, version, importVars, missed>> /\ Becomes(r, new)
    BY <1>5 DEF ReadDatabase, cacheVars
  <2>3. CacheTypeOK'
    BY <1>1, <2>2 DEF CacheTypeOK
  <2> HIDE DEF new
  <2> QED BY <1>2, <2>1, <2>2, <2>3, RequestStep
<1>6. CASE Set(r)
  <2> DEFINE new == [reader[r] EXCEPT !.pc = "answer"]
  <2>1. /\ new \in [pc: {"start", "delete", "read", "set", "answer"},
                    key: Keys, read: Versions]
        /\ new.pc # "set"
    BY <1>1
  <2>2. reader[r].read \in Entries
    BY <1>1, <1>2 DEF Entries
  <2>3. /\ CacheTypeOK'
        /\ \/ entries' = entries
           \/ entries' = [entries EXCEPT ![reader[r].key] = reader[r].read]
    BY <1>1, <1>6, <2>2, StoreCommand DEF Set, SetJson
  <2>4. reader[r].read = version \/ reader[r].key \in missed
    BY <1>6 DEF Set, AsideInv
  <2>5. UNCHANGED <<version, importVars, missed>> /\ Becomes(r, new)
    BY <1>6 DEF Set
  <2> HIDE DEF new
  <2> QED BY <2>1, <2>2, <2>3, <2>4, <2>5, RequestStep
<1>7. CASE Answer(r)
  <2>1. PICK k \in Keys :
          Becomes(r, [reader[r] EXCEPT !.pc = "start", !.key = k, !.read = 0])
    BY <1>7 DEF Answer
  <2> DEFINE new == [reader[r] EXCEPT !.pc = "start", !.key = k, !.read = 0]
  <2>2. /\ new \in [pc: {"start", "delete", "read", "set", "answer"},
                    key: Keys, read: Versions]
        /\ new.pc # "set"
    BY <1>1, <1>2
  <2>3. UNCHANGED <<entries, backoff, version, importVars, missed>> /\ Becomes(r, new)
    BY <1>7, <2>1 DEF Answer, cacheVars
  <2>4. CacheTypeOK'
    BY <1>1, <2>3 DEF CacheTypeOK
  <2> HIDE DEF new
  <2> QED BY <1>2, <2>2, <2>3, <2>4, RequestStep
<1> QED BY <1>3, <1>4, <1>5, <1>6, <1>7 DEF Request

LEMMA CommitStep ==
    ASSUME AsideInv, Commit
    PROVE  AsideInv'
<1>1. /\ importer = "idle" /\ version < MaxVersion /\ version' = version + 1
      /\ importer' = "invalidate" /\ deleted' = 0
      /\ missed' = missed \cup {reader[r].key : r \in {q \in Readers : At(q, "set")}}
      /\ UNCHANGED <<entries, backoff, reader>>
  BY DEF Commit, cacheVars
<1>2. PICK later \in SUBSET (Keys \ Present) : scan' = Present \cup later
  BY DEF Commit
<1>3. Present \subseteq scan' /\ scan' \subseteq Keys
  BY <1>2 DEF Present
<1>4. AsideTypeOK'
  <2>1. version' \in Versions /\ deleted' \in 0..MaxKeys
    BY <1>1, CacheAsideAssumption DEF AsideInv, AsideTypeOK, Versions
  <2>2. missed' \subseteq Keys
    BY <1>1 DEF AsideInv, AsideTypeOK
  <2> QED BY <1>1, <1>3, <2>1, <2>2 DEF AsideInv, AsideTypeOK, CacheTypeOK
<1>5. \A k \in Keys : Stale(k)' => k \in scan'
  BY <1>1, <1>3, NoEntries DEF Stale, Present
<1>6. \A r \in Readers : At(r, "set")' => (reader[r].key \in missed)'
  BY <1>1 DEF At
<1> QED BY <1>1, <1>4, <1>5, <1>6 DEF AsideInv

LEMMA DeleteNextStep ==
    ASSUME AsideInv, NEW k \in Keys, DeleteNext(k)
    PROVE  AsideInv'
<1>1. /\ importer = "invalidate" /\ k \in scan /\ deleted < MaxKeys
      /\ entries' = [entries EXCEPT ![k] = NoEntry] /\ scan' = scan \ {k}
      /\ deleted' \in {deleted, deleted + 1}
      /\ UNCHANGED <<backoff, version, reader, importer, missed>>
  BY DEF DeleteNext, Store
<1>2. AsideTypeOK'
  BY <1>1, NoEntries, CacheAsideAssumption DEF AsideInv, AsideTypeOK, CacheTypeOK
<1>3. ASSUME NEW q \in Keys, Stale(q)' PROVE q \in (missed \cup scan)'
  <2>1. q # k
    BY <1>1, <1>3, NoEntries DEF AsideInv, AsideTypeOK, CacheTypeOK, Stale
  <2>2. Stale(q)
    BY <1>1, <1>3, <2>1 DEF AsideInv, AsideTypeOK, CacheTypeOK, Stale
  <2> QED BY <1>1, <2>1, <2>2 DEF AsideInv
<1> QED BY <1>1, <1>2, <1>3 DEF AsideInv, At

\* The invalidation is over: what it has not visited is missed.
LEMMA OverStep ==
    ASSUME AsideInv, importer' = "idle", scan' = {}, missed' = missed \cup scan,
           UNCHANGED <<cacheVars, version, reader, deleted>>
    PROVE  AsideInv'
<1>1. UNCHANGED <<entries, backoff>>
  BY DEF cacheVars
<1>2. AsideTypeOK'
  BY <1>1 DEF AsideInv, AsideTypeOK, CacheTypeOK
<1> QED BY <1>1, <1>2 DEF AsideInv, Stale, At

LEMMA EnvironmentStep ==
    ASSUME AsideInv, CacheEnvironment
    PROVE  AsideInv'
<1>1. UNCHANGED <<version, reader, importer, scan, deleted, missed>>
  BY DEF CacheEnvironment, importVars
<1>2. /\ CacheTypeOK'
      /\ \A k \in Keys : entries'[k] = entries[k] \/ entries'[k] \notin Payloads
  <2>1. ASSUME NEW k \in Keys, Expire(k) \/ Corrupt(k)
        PROVE  \E v \in {NoEntry, Misfit, Listing} :
                   entries' = [entries EXCEPT ![k] = v] /\ UNCHANGED backoff
    BY <2>1 DEF Expire, Corrupt, Store
  <2>2. CASE \E k \in Keys : Expire(k) \/ Corrupt(k)
    BY <2>1, <2>2, NoEntries DEF AsideInv, AsideTypeOK, CacheTypeOK, Entries
  <2>3. CASE \E p \in Processes : EndBackoff(p)
    BY <2>3 DEF EndBackoff, AsideInv, AsideTypeOK, CacheTypeOK
  <2> QED BY <2>2, <2>3 DEF CacheEnvironment
<1>3. AsideTypeOK'
  BY <1>1, <1>2 DEF AsideInv, AsideTypeOK
<1> QED BY <1>1, <1>2, <1>3 DEF AsideInv, Stale, At

-----------------------------------------------------------------------------
LEMMA InitInvariant == AsideInit => AsideInv
<1> SUFFICES ASSUME AsideInit PROVE AsideInv
  OBVIOUS
<1>1. 0 \in Versions /\ 0 \in 0..MaxKeys
  BY CacheAsideAssumption DEF Versions
<1>2. AsideTypeOK
  BY <1>1, NoEntries DEF AsideInit, CacheInit, AsideTypeOK, CacheTypeOK
<1>3. \A k \in Keys : ~Stale(k)
  BY NoEntries DEF AsideInit, CacheInit, Stale
<1>4. \A r \in Readers : ~At(r, "set")
  BY DEF AsideInit, At
<1> QED BY <1>2, <1>3, <1>4 DEF AsideInit, AsideInv

LEMMA NextInvariant == AsideInv /\ [AsideNext]_asideVars => AsideInv'
<1> SUFFICES ASSUME AsideInv, [AsideNext]_asideVars PROVE AsideInv'
  OBVIOUS
<1>1. CASE \E r \in Readers : Request(r)
  BY <1>1, RequestInvariant
<1>2. CASE Import
  <2>1. CASE Commit
    BY <2>1, CommitStep
  <2>2. CASE \E k \in Keys : DeleteNext(k)
    BY <2>2, DeleteNextStep
  <2>3. CASE EndInvalidation \/ InvalidationFails
    BY <2>3, OverStep DEF EndInvalidation, InvalidationFails
  <2> QED BY <1>2, <2>1, <2>2, <2>3 DEF Import
<1>3. CASE CacheEnvironment
  BY <1>3, EnvironmentStep
<1>4. CASE UNCHANGED asideVars
  <2>1. UNCHANGED <<entries, backoff, version, reader, importer, scan, deleted, missed>>
    BY <1>4 DEF asideVars, cacheVars, importVars
  <2> QED BY <2>1 DEF AsideInv, AsideTypeOK, CacheTypeOK, Stale, At
<1> QED BY <1>1, <1>2, <1>3, <1>4 DEF AsideNext

THEOREM Invariant == AsideSpec => []AsideInv
BY InitInvariant, NextInvariant, PTL DEF AsideSpec

\* The requests, the entries and the invalidation are where they may be, and
\* one invalidation deletes no more than MaxKeys keys.
THEOREM AsideTypes == AsideSpec => []AsideTypeOK
<1>1. AsideInv => AsideTypeOK
  BY DEF AsideInv
<1> QED BY <1>1, Invariant, PTL

\* While no import is under way, an entry is stale only if some import missed
\* it: a request stored after the commit what it had read before, or the
\* invalidation did not visit the key.
THEOREM Missed == AsideSpec => []StaleOnlyIfMissed
<1>1. AsideInv => StaleOnlyIfMissed
  BY DEF AsideInv, StaleOnlyIfMissed
<1> QED BY <1>1, Invariant, PTL
=============================================================================
