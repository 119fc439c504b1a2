-------------------------- MODULE SearchCacheProofs -------------------------
(***************************************************************************)
(* Proofs about SearchCache, for any number of requests, processes and     *)
(* schedules.                                                              *)
(*                                                                         *)
(* Why an answer is always of a schedule that was in force during the      *)
(* search, although an entry may hold the segments of a schedule other     *)
(* than the one its key names: such an entry (Shadow) was written by a     *)
(* search that read the old status and then the new source.  By then the   *)
(* schedule of the key had been replaced, for good, so whoever still looks *)
(* that key up read its status before the replacement and has since had    *)
(* the other schedule in force under it.                                   *)
(***************************************************************************)
EXTENDS SearchCache, TLAPS

\* Segments of s may stand under the key k.
Shadow(k, s) ==
    \/ s = k
    \/ /\ k # current
       /\ \A r \in Requests : (InFlight(r) /\ Key(r) = k) => s \in inForce[r]

\* Once a request has resolved its source, its segments are of that source.
Resolved == {"first", "second", "respond"}

\* The steps that touch Redis are taken only with a key.
Keyed == {"lookup", "delete", "lock", "set", "release"}

RequestInv(r) ==
    /\ InFlight(r) => /\ Key(r) \in catalog \cup {NoBatch}
                      /\ Key(r) \in inForce[r]
                      /\ current \in inForce[r]
    /\ req[r].pc \in Keyed => HasKey(r)
    /\ req[r].pc \in Resolved =>
         /\ req[r].source \in inForce[r]
         /\ HasKey(r) => Shadow(Key(r), req[r].source)
    /\ req[r].pc \in {"second", "respond"} => req[r].first = req[r].source
    /\ At(r, "respond") => req[r].second = req[r].source

\* What is known of an answer on its way out.
AnswerInv(r) ==
    LET answered == \/ At(r, "set") \/ At(r, "done")
                    \/ At(r, "release") /\ req[r].outcome = "done"
    IN answered => /\ req[r].answer \in Answers
                   /\ req[r].answer.first = req[r].answer.second
                   /\ req[r].answer.first \in inForce[r]
                   /\ At(r, "set") => Shadow(Key(r), req[r].answer.first)

EntryInv(k) ==
    entries[k] \in Payloads =>
        /\ k \in catalog
        /\ entries[k].first = entries[k].second
        /\ Shadow(k, entries[k].first)

SearchInv ==
    /\ SearchTypeOK
    /\ current \in catalog \cup {NoBatch}
    /\ \A r \in Requests : RequestInv(r) /\ AnswerInv(r)
    /\ \A k \in Keys : EntryInv(k)

-----------------------------------------------------------------------------
(* Types.                                                                  *)

\* What the commands do to the entries and the backoff keeps their types.
LEMMA CommandTypes ==
    ASSUME CacheTypeOK, NEW p \in Processes, NEW k \in Keys
    PROVE  /\ \A v \in Entries : SetJson(p, k, v) => CacheTypeOK'
           /\ Delete(p, k) => CacheTypeOK'
           /\ \A v : GetJson(p, k, v) => CacheTypeOK'
<1> USE DEF CacheTypeOK, Command, Store, Failed, cacheVars, Entries
<1>1. \A v \in Entries : SetJson(p, k, v) => CacheTypeOK'
  BY DEF SetJson
<1>2. Delete(p, k) => CacheTypeOK'
  BY DEF Delete
<1>3. \A v : GetJson(p, k, v) => CacheTypeOK'
  BY DEF GetJson
<1>4. QED
  BY <1>1, <1>2, <1>3

\* The step of one request that replaces its record by a record.
LEMMA BecomesType ==
    ASSUME req \in [Requests -> RequestRecords], NEW r \in Requests,
           NEW new \in RequestRecords, Becomes(r, new)
    PROVE  /\ req' \in [Requests -> RequestRecords]
           /\ req'[r] = new
           /\ \A q \in Requests \ {r} : req'[q] = req[q]
  BY DEF Becomes

LEMMA RequestTypes ==
    ASSUME SearchTypeOK, NEW r \in Requests
    PROVE  /\ req[r] \in RequestRecords
           /\ req[r].pc \in Steps \cup Ended /\ req[r].status \in Schedules
           /\ req[r].token \in BOOLEAN /\ req[r].source \in Schedules
           /\ req[r].first \in Schedules /\ req[r].second \in Schedules
           /\ req[r].outcome \in Ended
           /\ req[r].answer \in Answers \cup {NoEntry}
<1>1. req[r] \in RequestRecords
  BY DEF SearchTypeOK
<1>2. QED
  BY <1>1 DEF RequestRecords

LEMMA SearchTypeStep == SearchInv /\ [SearchNext]_allVars => SearchTypeOK'
<1> SUFFICES ASSUME SearchInv, [SearchNext]_allVars PROVE SearchTypeOK'
  OBVIOUS
<1>a. SearchTypeOK
  BY DEF SearchInv
<1>b. \A r \in Requests :
        /\ ProcessOf[r] \in Processes
        /\ req[r].pc \in Keyed => Key(r) \in Keys
  <2>1. \A r \in Requests : req[r].pc \in Keyed => req[r].status # NoBatch
    BY DEF SearchInv, RequestInv, HasKey
  <2>2. \A r \in Requests : req[r].status \in Batches \cup {NoBatch}
    BY <1>a, RequestTypes DEF Schedules
  <2>3. QED
    BY <2>1, <2>2, SearchAssumption DEF Key
<1>c. ASSUME NEW r \in Requests, NEW o \in Ended, Leave(r, o)
      PROVE  req' \in [Requests -> RequestRecords]
  <2>1. [req[r] EXCEPT !.pc = IF HasKey(r) THEN "release" ELSE o, !.outcome = o]
          \in RequestRecords
    BY <1>a, RequestTypes DEF RequestRecords, Steps
  <2>2. QED
    BY <1>a, <1>c, <2>1, BecomesType DEF Leave, SearchTypeOK
<1> USE SearchAssumption, BatchAssumption DEF sharedVars, scheduleVars, cacheVars
<1>1. ASSUME NEW r \in Requests, ReadStatus(r) PROVE SearchTypeOK'
  <2> DEFINE new == [req[r] EXCEPT
           !.pc = IF current = NoBatch THEN "engine" ELSE "lookup",
           !.status = current]
  <2>1. new \in RequestRecords
    BY <1>a, RequestTypes DEF RequestRecords, SearchTypeOK, TypeOK, Schedules, Steps
  <2>2. req' \in [Requests -> RequestRecords]
    BY <1>1, <1>a, <2>1, BecomesType DEF ReadStatus, SearchTypeOK
  <2>3. QED
    BY <1>1, <1>a, <2>2 DEF ReadStatus, SearchTypeOK, TypeOK, CacheTypeOK, Schedules
<1>2. ASSUME NEW r \in Requests, Lookup(r) PROVE SearchTypeOK'
  <2>1. PICK v \in Entries :
          /\ GetJson(ProcessOf[r], Key(r), v)
          /\ Becomes(r, [req[r] EXCEPT
               !.pc = CASE v \in Payloads -> "done"
                        [] v = Misfit     -> "delete"
                        [] OTHER          -> "lock",
               !.answer = IF v \in Payloads THEN v ELSE NoEntry])
    BY <1>2 DEF Lookup
  <2> DEFINE new == [req[r] EXCEPT
               !.pc = CASE v \in Payloads -> "done"
                        [] v = Misfit     -> "delete"
                        [] OTHER          -> "lock",
               !.answer = IF v \in Payloads THEN v ELSE NoEntry]
  <2>2. new \in RequestRecords
    BY <1>a, RequestTypes, EntryAssumption DEF RequestRecords, Steps, Ended
  <2>3. req' \in [Requests -> RequestRecords]
    BY <1>a, <2>1, <2>2, BecomesType DEF SearchTypeOK
  <2>5. CacheTypeOK'
    BY <1>2, <1>b, <1>a, <2>1, CommandTypes DEF SearchTypeOK, Lookup, At, Keyed
  <2>6. QED
    BY <1>2, <1>a, <2>3, <2>5 DEF Lookup, SearchTypeOK, TypeOK
<1>3. ASSUME NEW r \in Requests, DeleteInvalid(r) PROVE SearchTypeOK'
  <2>1. [req[r] EXCEPT !.pc = "lock"] \in RequestRecords
    BY <1>a, RequestTypes DEF RequestRecords, Steps
  <2>2. req' \in [Requests -> RequestRecords]
    BY <1>3, <1>a, <2>1, BecomesType DEF DeleteInvalid, SearchTypeOK
  <2>3. CacheTypeOK'
    BY <1>3, <1>a, <1>b, CommandTypes DEF DeleteInvalid, At, Keyed, SearchTypeOK
  <2>4. QED
    BY <1>3, <1>a, <2>2, <2>3 DEF DeleteInvalid, SearchTypeOK, TypeOK
<1>4. ASSUME NEW r \in Requests, AcquireLock(r) PROVE SearchTypeOK'
  <2>1. PICK token \in BOOLEAN :
          Becomes(r, [req[r] EXCEPT !.pc = "engine", !.token = token])
    BY <1>4 DEF AcquireLock
  <2>2. [req[r] EXCEPT !.pc = "engine", !.token = token] \in RequestRecords
    BY <1>a, RequestTypes DEF RequestRecords, Steps
  <2>3. req' \in [Requests -> RequestRecords]
    BY <1>a, <2>1, <2>2, BecomesType DEF SearchTypeOK
  <2>4. /\ lock' \in [Keys -> Requests \cup {Nobody}]
        /\ CacheTypeOK'
    BY <1>4, <1>a, <1>b DEF At, Keyed, AcquireLock, Take, Failed, SearchTypeOK, CacheTypeOK
  <2>5. QED
    BY <1>4, <1>a, <2>3, <2>4 DEF AcquireLock, SearchTypeOK, TypeOK
<1>5. ASSUME NEW r \in Requests, EngineStatus(r) PROVE SearchTypeOK'
  <2>1. [req[r] EXCEPT !.pc = "source"] \in RequestRecords
    BY <1>a, RequestTypes DEF RequestRecords, Steps
  <2>2. req' \in [Requests -> RequestRecords]
    BY <1>5, <1>a, <1>c, <2>1, BecomesType DEF EngineStatus, SearchTypeOK, Ended
  <2>3. QED
    BY <1>5, <1>a, <2>2 DEF EngineStatus, SearchTypeOK, TypeOK, CacheTypeOK
<1>6. ASSUME NEW r \in Requests, EngineSource(r) PROVE SearchTypeOK'
  <2>1. [req[r] EXCEPT !.pc = "first", !.source = current] \in RequestRecords
    BY <1>a, RequestTypes DEF RequestRecords, Steps, SearchTypeOK, TypeOK, Schedules
  <2>2. req' \in [Requests -> RequestRecords]
    BY <1>6, <1>a, <2>1, BecomesType DEF EngineSource, SearchTypeOK
  <2>3. QED
    BY <1>6, <1>a, <2>2 DEF EngineSource, SearchTypeOK, TypeOK, CacheTypeOK
<1>7. ASSUME NEW r \in Requests, FirstSegments(r) PROVE SearchTypeOK'
  <2>1. [req[r] EXCEPT !.pc = "second", !.first = req[r].source] \in RequestRecords
    BY <1>a, RequestTypes DEF RequestRecords, Steps
  <2>2. req' \in [Requests -> RequestRecords]
    BY <1>7, <1>a, <2>1, BecomesType DEF FirstSegments, SearchTypeOK
  <2>3. QED
    BY <1>7, <1>a, <2>2 DEF FirstSegments, SearchTypeOK, TypeOK, CacheTypeOK
<1>8. ASSUME NEW r \in Requests, SecondSegments(r) PROVE SearchTypeOK'
  <2>1. [req[r] EXCEPT !.pc = "respond", !.second = req[r].source] \in RequestRecords
    BY <1>a, RequestTypes DEF RequestRecords, Steps, SearchTypeOK
  <2>2. req' \in [Requests -> RequestRecords]
    BY <1>8, <1>a, <2>1, BecomesType DEF SecondSegments, SearchTypeOK
  <2>3. QED
    BY <1>8, <1>a, <2>2 DEF SecondSegments, SearchTypeOK, TypeOK, CacheTypeOK
<1>9. ASSUME NEW r \in Requests, Respond(r) PROVE SearchTypeOK'
  <2> DEFINE response == [freshness |-> req[r].status,
                          first |-> req[r].first, second |-> req[r].second]
             new == [req[r] EXCEPT !.pc = IF HasKey(r) THEN "set" ELSE "done",
                                   !.answer = response]
  <2>1. response \in Answers
    BY <1>a, RequestTypes DEF Answers, SearchTypeOK
  <2>2. new \in RequestRecords
    <3> HIDE DEF response
    <3> QED BY <1>a, <2>1, RequestTypes DEF RequestRecords, Steps, Ended
  <2>3. Becomes(r, new)
    BY <1>9 DEF Respond
  <2>4. req' \in [Requests -> RequestRecords]
    <3> HIDE DEF new
    <3> QED BY <1>a, <2>2, <2>3, BecomesType DEF SearchTypeOK
  <2>5. QED
    BY <1>9, <1>a, <2>4 DEF Respond, SearchTypeOK, TypeOK, CacheTypeOK
<1>10. ASSUME NEW r \in Requests, Set(r) PROVE SearchTypeOK'
  <2>1. req' \in [Requests -> RequestRecords]
    BY <1>10, <1>c DEF Set, Ended
  <2>2. req[r].answer \in Entries
    BY <1>a, RequestTypes DEF Entries
  <2>3. CacheTypeOK'
    BY <1>10, <1>a, <1>b, <2>2, CommandTypes DEF Set, At, Keyed, SearchTypeOK
  <2>4. QED
    BY <1>10, <1>a, <2>1, <2>3 DEF Set, SearchTypeOK, TypeOK
<1>11. ASSUME NEW r \in Requests, ReleaseLock(r) PROVE SearchTypeOK'
  <2>1. [req[r] EXCEPT !.pc = req[r].outcome] \in RequestRecords
    BY <1>a, RequestTypes DEF RequestRecords
  <2>2. req' \in [Requests -> RequestRecords]
    BY <1>11, <1>a, <2>1, BecomesType DEF ReleaseLock, SearchTypeOK
  <2>3. /\ lock' \in [Keys -> Requests \cup {Nobody}]
        /\ CacheTypeOK'
    BY <1>11, <1>a, <1>b DEF At, Keyed, ReleaseLock, Failed, SearchTypeOK, CacheTypeOK
  <2>4. QED
    BY <1>11, <1>a, <2>2, <2>3 DEF ReleaseLock, SearchTypeOK, TypeOK
<1>12. ASSUME NEW r \in Requests, SearchFails(r) PROVE SearchTypeOK'
  BY <1>12, <1>a, <1>c DEF SearchFails, SearchTypeOK, TypeOK, CacheTypeOK, Ended
<1>13. ASSUME NEW b \in Batches, Import(b) PROVE SearchTypeOK'
  BY <1>13, <1>a DEF Import, Activate, SearchTypeOK, TypeOK, CacheTypeOK, Schedules
<1>15. ASSUME NEW k \in Keys, ExpireLock(k) PROVE SearchTypeOK'
  BY <1>15, <1>a DEF ExpireLock, SearchTypeOK, TypeOK, CacheTypeOK
<1>16. ASSUME NEW p \in Processes, Restart(p) PROVE SearchTypeOK'
  <2>1. \A r \in Requests : [req[r] EXCEPT !.pc = "lost"] \in RequestRecords
    BY <1>a, RequestTypes DEF RequestRecords, Ended
  <2>2. req' \in [Requests -> RequestRecords]
    BY <1>16, <1>a, <2>1 DEF Restart, SearchTypeOK
  <2>3. QED
    BY <1>16, <1>a, <2>2 DEF Restart, SearchTypeOK, TypeOK, CacheTypeOK
<1>17. CASE CacheEnvironment
  BY <1>17, <1>a DEF CacheEnvironment, Expire, Corrupt, EndBackoff, Store, Entries,
                     SearchTypeOK, TypeOK, CacheTypeOK
<1>18. CASE UNCHANGED allVars
  BY <1>18, <1>a DEF allVars, SearchTypeOK, TypeOK, CacheTypeOK
<1>19. QED
  BY <1>1, <1>2, <1>3, <1>4, <1>5, <1>6, <1>7, <1>8, <1>9, <1>10, <1>11, <1>12,
     <1>13, <1>15, <1>16, <1>17, <1>18 DEF SearchNext, Search

-----------------------------------------------------------------------------
(* Shadows.  They last as long as no request joins the key of a replaced   *)
(* schedule, and none does: a request joins the key of the current one.    *)

LEMMA ShadowKept ==
    ASSUME UNCHANGED current,
           \A q \in Requests :
             /\ InFlight(q)' => \/ Key(q)' = current
                                \/ InFlight(q) /\ Key(q)' = Key(q)
             /\ Key(q)' # current => inForce'[q] = inForce[q]
    PROVE  \A k, s : Shadow(k, s) => Shadow(k, s)'
  BY DEF Shadow

\* An import retires the current schedule and puts one in force that no entry
\* and no request in flight has as its key.
LEMMA ShadowImport ==
    ASSUME SearchInv, NEW b \in Batches, Import(b)
    PROVE  /\ \A k \in catalog : \A s : Shadow(k, s) => Shadow(k, s)'
           /\ b \notin catalog
           /\ current' = b
           /\ catalog' = catalog \cup {b}
           /\ \A r \in Requests : /\ inForce[r] \subseteq inForce'[r]
                                  /\ InFlight(r) => b \in inForce'[r]
<1>1. /\ b \notin catalog /\ current' = b /\ catalog' = catalog \cup {b}
      /\ UNCHANGED req
      /\ \A r \in Requests : inForce'[r] = IF InFlight(r) THEN inForce[r] \cup {b}
                                           ELSE inForce[r]
  BY BatchAssumption DEF Import, Activate
<1>2. \A k \in catalog : \A s : Shadow(k, s) => Shadow(k, s)'
  BY <1>1 DEF Shadow, InFlight, Key
<1>3. QED
  BY <1>1, <1>2

-----------------------------------------------------------------------------
(* One request moves, the schedule and the history do not.                 *)

Moves(r) ==
    /\ UNCHANGED <<catalog, current, inForce>>
    /\ req[r].pc \notin Ended \cup {"start"}
    /\ req'[r].status = req[r].status
    /\ \A q \in Requests \ {r} : req'[q] = req[q]

LEMMA OthersKept ==
    ASSUME SearchInv, NEW r \in Requests, Moves(r)
    PROVE  /\ \A k, s : Shadow(k, s) => Shadow(k, s)'
           /\ \A q \in Requests \ {r} : RequestInv(q)' /\ AnswerInv(q)'
<1>1. \A k, s : Shadow(k, s) => Shadow(k, s)'
  BY ShadowKept DEF Moves, InFlight, Key
<1>2. ASSUME NEW q \in Requests \ {r} PROVE RequestInv(q)' /\ AnswerInv(q)'
  <2>1. RequestInv(q) /\ AnswerInv(q) /\ req'[q] = req[q]
    BY DEF SearchInv, Moves
  <2>2. RequestInv(q)'
    BY <1>1, <2>1 DEF RequestInv, Moves, InFlight, Key, HasKey, At
  <2>3. AnswerInv(q)'
    BY <1>1, <2>1 DEF AnswerInv, Moves, Key, HasKey, At
  <2>4. QED
    BY <2>2, <2>3
<1>3. QED
  BY <1>1, <1>2

\* Every step of a request in flight is a move of that request.
LEMMA SearchMoves ==
    ASSUME SearchInv, NEW r \in Requests,
           \/ Lookup(r) \/ DeleteInvalid(r) \/ AcquireLock(r) \/ EngineStatus(r)
           \/ EngineSource(r) \/ FirstSegments(r) \/ SecondSegments(r)
           \/ Respond(r) \/ Set(r) \/ ReleaseLock(r) \/ SearchFails(r)
    PROVE  Moves(r)
<1>1. req \in [Requests -> RequestRecords]
  BY DEF SearchInv, SearchTypeOK
<1>2. \A q \in Requests : req[q] \in RequestRecords
  BY <1>1
<1> USE <1>1, <1>2 DEF Moves, Becomes, At, Leave, sharedVars, scheduleVars, Ended,
                       RequestRecords
<1>3. CASE Lookup(r)
  <2> DEFINE p(v) == CASE v \in Payloads -> "done"
                       [] v = Misfit     -> "delete"
                       [] OTHER          -> "lock"
             a(v) == IF v \in Payloads THEN v ELSE NoEntry
  <2>1. PICK v \in Entries : Becomes(r, [req[r] EXCEPT !.pc = p(v), !.answer = a(v)])
    BY <1>3 DEF Lookup
  <2> HIDE DEF p, a
  <2>2. QED
    BY <1>3, <2>1 DEF Lookup
<1>4. CASE DeleteInvalid(r)
  BY <1>4 DEF DeleteInvalid
<1>5. CASE AcquireLock(r)
  BY <1>5 DEF AcquireLock
<1>6. CASE EngineStatus(r) \/ SearchFails(r)
  BY <1>6 DEF EngineStatus, SearchFails
<1>7. CASE EngineSource(r) \/ FirstSegments(r) \/ SecondSegments(r)
  BY <1>7 DEF EngineSource, FirstSegments, SecondSegments
<1>8. CASE Respond(r)
  BY <1>8 DEF Respond
<1>9. CASE Set(r) \/ ReleaseLock(r)
  BY <1>9 DEF Set, ReleaseLock
<1>10. QED
  BY <1>3, <1>4, <1>5, <1>6, <1>7, <1>8, <1>9

\* What a move must establish of the request that moves.
LEMMA OwnInv ==
    ASSUME SearchInv, NEW r \in Requests,
           \/ Lookup(r) \/ DeleteInvalid(r) \/ AcquireLock(r) \/ EngineStatus(r)
           \/ EngineSource(r) \/ FirstSegments(r) \/ SecondSegments(r)
           \/ Respond(r) \/ Set(r) \/ ReleaseLock(r) \/ SearchFails(r)
    PROVE  RequestInv(r)' /\ AnswerInv(r)'
<1>1. req \in [Requests -> RequestRecords] /\ req[r] \in RequestRecords
  BY DEF SearchInv, SearchTypeOK
<1>2. Moves(r) /\ \A k, s : Shadow(k, s) => Shadow(k, s)'
  BY SearchMoves, OthersKept
<1>3. RequestInv(r) /\ AnswerInv(r) /\ InFlight(r)
  BY <1>2 DEF SearchInv, Moves, InFlight
<1> USE <1>1, <1>2, <1>3
    DEF Moves, Becomes, At, Leave, sharedVars, scheduleVars, Ended, RequestRecords,
        RequestInv, AnswerInv, Keyed, Resolved, Key, HasKey, InFlight
<1>4. CASE Lookup(r)
  <2>1. PICK v \in Entries :
          /\ GetJson(ProcessOf[r], Key(r), v)
          /\ Becomes(r, [req[r] EXCEPT
               !.pc = CASE v \in Payloads -> "done"
                        [] v = Misfit     -> "delete"
                        [] OTHER          -> "lock",
               !.answer = IF v \in Payloads THEN v ELSE NoEntry])
    BY <1>4 DEF Lookup
  <2>2. CASE v \notin Payloads
    <3>1. req'[r].pc \in {"delete", "lock"} /\ HasKey(r)
      BY <1>4, <2>1, <2>2 DEF Lookup
    <3>2. QED
      BY <3>1
  <2>3. CASE v \in Payloads
    <3>1. v = entries[Key(r)] /\ Key(r) \in Keys /\ HasKey(r)
      BY <1>4, <2>1, <2>3, EntryAssumption, SearchAssumption
         DEF GetJson, Lookup, Schedules
    <3>2. EntryInv(Key(r))
      BY <3>1 DEF SearchInv
    <3>3. v \in Answers /\ v.first = v.second /\ v.first \in inForce[r]
      BY <2>3, <3>1, <3>2, SearchAssumption DEF EntryInv, Shadow
    <3>4. req'[r].pc = "done" /\ req'[r].answer = v
      <4>1. v # Misfit
        BY <2>3, EntryAssumption
      <4>2. Becomes(r, [req[r] EXCEPT !.pc = "done", !.answer = v])
        BY <2>1, <2>3, <4>1
      <4>3. QED
        BY <4>2
    <3>5. QED
      BY <3>3, <3>4
  <2>4. QED
    BY <2>2, <2>3
<1>5. CASE DeleteInvalid(r)
  BY <1>5 DEF DeleteInvalid
<1>6. CASE AcquireLock(r)
  <2>1. PICK token : Becomes(r, [req[r] EXCEPT !.pc = "engine", !.token = token])
    BY <1>6 DEF AcquireLock
  <2>2. req'[r].pc = "engine"
    BY <2>1
  <2>3. QED
    BY <2>2
<1>7. CASE EngineStatus(r) \/ SearchFails(r)
  <2>1. \/ req'[r].pc = "source"
        \/ req'[r].pc = "failed"
        \/ req'[r].pc = "release" /\ req'[r].outcome = "failed" /\ HasKey(r)
    <3>1. CASE Leave(r, "failed")
      BY <3>1
    <3>2. CASE Becomes(r, [req[r] EXCEPT !.pc = "source"])
      BY <3>2
    <3>3. QED
      BY <1>7, <3>1, <3>2 DEF EngineStatus, SearchFails
  <2>2. QED
    BY <2>1
<1>8. CASE EngineSource(r)
  <2>1. /\ req'[r].pc = "first" /\ req'[r].source = current
        /\ current \in inForce[r]
        /\ \A q \in Requests : InFlight(q) => current \in inForce[q]
    BY <1>8 DEF EngineSource, SearchInv
  <2>2. Shadow(Key(r), current)
    BY <2>1 DEF Shadow
  <2>3. QED
    BY <2>1, <2>2
<1>9. CASE FirstSegments(r)
  <2>1. /\ req[r].pc = "first" /\ req'[r].pc = "second"
        /\ req'[r].source = req[r].source /\ req'[r].first = req[r].source
    BY <1>9 DEF FirstSegments
  <2>2. QED
    BY <2>1
<1>10. CASE SecondSegments(r)
  <2>1. /\ req[r].pc = "second" /\ req'[r].pc = "respond"
        /\ req'[r].source = req[r].source /\ req'[r].first = req[r].first
        /\ req'[r].second = req[r].source
    BY <1>10 DEF SecondSegments
  <2>2. QED
    BY <2>1
<1>11. CASE Respond(r)
  <2>1. /\ req[r].pc = "respond"
        /\ req'[r].pc = (IF HasKey(r) THEN "set" ELSE "done")
        /\ req'[r].answer.first = req[r].first
        /\ req'[r].answer.second = req[r].second
    BY <1>11 DEF Respond
  <2>2. req'[r].answer \in Answers
    BY <1>11, RequestTypes DEF Respond, Answers, SearchInv, SearchTypeOK
  <2>3. QED
    BY <2>1, <2>2
<1>12. CASE Set(r)
  <2>1. /\ req[r].pc = "set" /\ req'[r].answer = req[r].answer
        /\ req'[r].pc = "release" /\ req'[r].outcome = "done" /\ HasKey(r)
    BY <1>12 DEF Set
  <2>2. QED
    BY <2>1
<1>13. CASE ReleaseLock(r)
  <2>1. /\ req[r].pc = "release" /\ req'[r].pc = req[r].outcome
        /\ req'[r].answer = req[r].answer
    BY <1>13 DEF ReleaseLock
  <2>2. QED
    BY <2>1
<1>14. QED
  BY <1>4, <1>5, <1>6, <1>7, <1>8, <1>9, <1>10, <1>11, <1>12, <1>13

\* The entries after a step of a request: the one under its key may have gone,
\* or be the answer it stores.
LEMMA EntriesStep ==
    ASSUME SearchInv, NEW r \in Requests,
           \/ Lookup(r) \/ DeleteInvalid(r) \/ AcquireLock(r) \/ EngineStatus(r)
           \/ EngineSource(r) \/ FirstSegments(r) \/ SecondSegments(r)
           \/ Respond(r) \/ Set(r) \/ ReleaseLock(r) \/ SearchFails(r)
    PROVE  \A k \in Keys : EntryInv(k)'
<1>1. Moves(r) /\ \A k, s : Shadow(k, s) => Shadow(k, s)'
  BY SearchMoves, OthersKept
<1>2. \A k \in Keys : EntryInv(k)
  BY DEF SearchInv
<1>3. ASSUME NEW k \in Keys, entries'[k] = entries[k] \/ entries'[k] = NoEntry
      PROVE  EntryInv(k)'
  BY <1>1, <1>2, <1>3, EntryAssumption DEF EntryInv, Moves
<1>4. entries \in [Keys -> Entries]
  BY DEF SearchInv, SearchTypeOK, CacheTypeOK
<1>5. CASE Lookup(r) \/ DeleteInvalid(r)
  BY <1>3, <1>4, <1>5
     DEF Lookup, DeleteInvalid, GetJson, Delete, Command, Store, cacheVars
<1>6. CASE Set(r)
  <2>1. \A k \in Keys : k # Key(r) => entries'[k] = entries[k]
    BY <1>4, <1>6 DEF Set, SetJson, Command, Store, cacheVars
  <2>2. entries'[Key(r)] = entries[Key(r)] \/ entries'[Key(r)] = req[r].answer
        \/ Key(r) \notin Keys
    BY <1>4, <1>6 DEF Set, SetJson, Command, Store, cacheVars
  <2>3. /\ Key(r) \in catalog
        /\ req[r].answer.first = req[r].answer.second
        /\ Shadow(Key(r), req[r].answer.first)
    BY <1>1, <1>6 DEF Set, SearchInv, RequestInv, AnswerInv, Keyed, HasKey, Key, At,
                      Moves, InFlight
  <2>4. ASSUME NEW k \in Keys, k = Key(r), entries'[k] = req[r].answer
        PROVE  EntryInv(k)'
    <3>1. PICK s : s = req[r].answer.first
      OBVIOUS
    <3>2. catalog' = catalog /\ Shadow(k, s)
      BY <1>1, <2>3, <2>4, <3>1 DEF Moves
    <3>3. Shadow(k, s)'
      BY <1>1, <3>2
    <3>4. QED
      BY <2>3, <2>4, <3>1, <3>2, <3>3 DEF EntryInv
  <2>5. QED
    BY <1>3, <2>1, <2>2, <2>4
<1>7. CASE UNCHANGED entries
  BY <1>3, <1>7
<1>8. QED
  BY <1>5, <1>6, <1>7 DEF AcquireLock, EngineStatus, EngineSource, FirstSegments,
     SecondSegments, Respond, ReleaseLock, SearchFails, sharedVars, cacheVars

-----------------------------------------------------------------------------
(* The invariant.                                                          *)

LEMMA SearchInit_Inv == SearchInit => SearchInv
<1> SUFFICES ASSUME SearchInit PROVE SearchInv
  OBVIOUS
<1>1. SearchTypeOK
  <2>1. NewRequest \in RequestRecords
    BY SearchAssumption DEF NewRequest, RequestRecords, Steps, Ended, Schedules
  <2>2. QED
    BY <2>1, SearchAssumption
       DEF SearchInit, Init, CacheInit, SearchTypeOK, TypeOK, CacheTypeOK, Entries,
           Schedules
<1>2. \A r \in Requests : RequestInv(r) /\ AnswerInv(r)
  BY DEF SearchInit, NewRequest, RequestInv, AnswerInv, InFlight, At, Keyed, Resolved
<1>3. \A k \in Keys : EntryInv(k)
  BY EntryAssumption DEF SearchInit, CacheInit, EntryInv
<1>4. QED
  BY <1>1, <1>2, <1>3 DEF SearchInit, Init, SearchInv

LEMMA SearchStep == SearchInv /\ [SearchNext]_allVars => SearchInv'
<1> SUFFICES ASSUME SearchInv, [SearchNext]_allVars PROVE SearchInv'
  OBVIOUS
<1>t. SearchTypeOK'
  BY SearchTypeStep
<1>e. entries \in [Keys -> Entries]
  BY DEF SearchInv, SearchTypeOK, CacheTypeOK
<1>1. ASSUME NEW r \in Requests, ReadStatus(r) PROVE SearchInv'
  <2>1. /\ req'[r].status = current
        /\ req'[r].pc = (IF current = NoBatch THEN "engine" ELSE "lookup")
        /\ inForce'[r] = {current}
        /\ \A q \in Requests \ {r} : req'[q] = req[q] /\ inForce'[q] = inForce[q]
        /\ UNCHANGED <<current, catalog, entries>>
    BY <1>1 DEF ReadStatus, Becomes, sharedVars, scheduleVars, cacheVars, SearchInv,
                SearchTypeOK, RequestRecords
  <2>2. \A k, s : Shadow(k, s) => Shadow(k, s)'
    BY <2>1, ShadowKept DEF InFlight, Key
  <2>3. RequestInv(r)' /\ AnswerInv(r)'
    BY <2>1 DEF RequestInv, AnswerInv, SearchInv, InFlight, Key, HasKey, At, Keyed,
                Resolved
  <2>4. ASSUME NEW q \in Requests \ {r} PROVE RequestInv(q)' /\ AnswerInv(q)'
    <3>1. RequestInv(q) /\ AnswerInv(q)
      BY DEF SearchInv
    <3>2. RequestInv(q)'
      BY <2>1, <2>2, <3>1 DEF RequestInv, InFlight, Key, HasKey, At
    <3>3. AnswerInv(q)'
      BY <2>1, <2>2, <3>1 DEF AnswerInv, Key, HasKey, At
    <3>4. QED
      BY <3>2, <3>3
  <2>5. \A k \in Keys : EntryInv(k)'
    BY <2>1, <2>2 DEF SearchInv, EntryInv
  <2>6. QED
    BY <1>t, <2>1, <2>3, <2>4, <2>5 DEF SearchInv
<1>2. ASSUME NEW r \in Requests,
           \/ Lookup(r) \/ DeleteInvalid(r) \/ AcquireLock(r) \/ EngineStatus(r)
           \/ EngineSource(r) \/ FirstSegments(r) \/ SecondSegments(r)
           \/ Respond(r) \/ Set(r) \/ ReleaseLock(r) \/ SearchFails(r)
      PROVE  SearchInv'
  <2>1. Moves(r)
    BY <1>2, SearchMoves
  <2>2. RequestInv(r)' /\ AnswerInv(r)'
    BY <1>2, OwnInv
  <2>3. \A q \in Requests \ {r} : RequestInv(q)' /\ AnswerInv(q)'
    BY <2>1, OthersKept
  <2>4. \A k \in Keys : EntryInv(k)'
    BY <1>2, EntriesStep
  <2>5. QED
    BY <1>t, <2>1, <2>2, <2>3, <2>4 DEF SearchInv, Moves
<1>3. ASSUME NEW b \in Batches, Import(b) PROVE SearchInv'
  <2>1. /\ \A k \in catalog : \A s : Shadow(k, s) => Shadow(k, s)'
        /\ b \notin catalog /\ current' = b /\ catalog' = catalog \cup {b}
        /\ \A r \in Requests : /\ inForce[r] \subseteq inForce'[r]
                               /\ InFlight(r) => b \in inForce'[r]
        /\ UNCHANGED <<req, entries>>
    BY <1>3, ShadowImport DEF Import, cacheVars
  <2>2. ASSUME NEW r \in Requests PROVE RequestInv(r)' /\ AnswerInv(r)'
    <3>1. RequestInv(r) /\ AnswerInv(r)
      BY DEF SearchInv
    <3>2. /\ (HasKey(r) /\ InFlight(r)) => Key(r) \in catalog
          /\ req[r].pc \in Resolved \cup {"set"} => InFlight(r)
      BY <3>1 DEF RequestInv, HasKey, Key, InFlight, Resolved, Ended
    <3>3. RequestInv(r)'
      BY <2>1, <3>1, <3>2 DEF RequestInv, InFlight, Key, HasKey, At
    <3>4. At(r, "set") => HasKey(r) /\ Key(r) \in catalog
      BY <3>1, <3>2 DEF RequestInv, At, Keyed
    <3>5. AnswerInv(r)'
      BY <2>1, <3>1, <3>4 DEF AnswerInv, Key, HasKey, At
    <3>6. QED
      BY <3>3, <3>5
  <2>3. \A k \in Keys : EntryInv(k)'
    BY <2>1 DEF SearchInv, EntryInv
  <2>4. QED
    BY <1>t, <2>1, <2>2, <2>3 DEF SearchInv
<1>4. ASSUME UNCHANGED <<catalog, current, req, inForce>>,
             \A k \in Keys : entries'[k] \in Payloads => entries'[k] = entries[k]
      PROVE  SearchInv'
  <2>1. \A k, s : Shadow(k, s) => Shadow(k, s)'
    BY <1>4 DEF Shadow, InFlight, Key
  <2>2. \A r \in Requests : RequestInv(r)' /\ AnswerInv(r)'
    BY <1>4, <2>1 DEF SearchInv, RequestInv, AnswerInv, InFlight, Key, HasKey, At
  <2>3. \A k \in Keys : EntryInv(k)'
    BY <1>4, <2>1 DEF SearchInv, EntryInv
  <2>4. QED
    BY <1>t, <1>4, <2>2, <2>3 DEF SearchInv
<1>6. ASSUME NEW k \in Keys, ExpireLock(k) PROVE SearchInv'
  BY <1>4, <1>6 DEF ExpireLock, scheduleVars, cacheVars
<1>7. ASSUME NEW p \in Processes, Restart(p) PROVE SearchInv'
  <2>1. \A r \in Requests : req'[r] = req[r] \/ req'[r] = [req[r] EXCEPT !.pc = "lost"]
    BY <1>7 DEF Restart
  <2>2. UNCHANGED <<catalog, current, inForce, entries>>
    BY <1>7 DEF Restart, scheduleVars
  <2>3. \A r \in Requests : req'[r] # req[r] =>
          req'[r].pc = "lost" /\ req'[r].status = req[r].status
    BY <2>1 DEF SearchInv, SearchTypeOK, RequestRecords
  <2>4. \A k, s : Shadow(k, s) => Shadow(k, s)'
    BY <2>2, <2>3, ShadowKept DEF InFlight, Key, Ended
  <2>5. ASSUME NEW r \in Requests PROVE RequestInv(r)' /\ AnswerInv(r)'
    <3>1. CASE req'[r] = req[r]
      BY <2>2, <2>4, <3>1
         DEF SearchInv, RequestInv, AnswerInv, InFlight, Key, HasKey, At
    <3>2. CASE req'[r] # req[r]
      BY <2>3, <3>2 DEF RequestInv, AnswerInv, InFlight, At, Ended, Keyed, Resolved
    <3>3. QED
      BY <3>1, <3>2
  <2>6. QED
    BY <1>t, <2>2, <2>4, <2>5 DEF SearchInv, EntryInv
<1>8. CASE CacheEnvironment
  BY <1>4, <1>8, <1>e, EntryAssumption
     DEF CacheEnvironment, Expire, Corrupt, EndBackoff, Store, scheduleVars
<1>9. CASE UNCHANGED allVars
  BY <1>4, <1>9 DEF allVars, sharedVars, scheduleVars, cacheVars
<1>10. QED
  BY <1>1, <1>2, <1>3, <1>6, <1>7, <1>8, <1>9 DEF SearchNext, Search

\* The inductive invariant holds of every reachable state.
THEOREM SearchInvariance == SearchSpec => []SearchInv
  BY SearchInit_Inv, SearchStep, PTL DEF SearchSpec

\* Every variable keeps its type.
THEOREM SearchTypeCorrect == SearchSpec => []SearchTypeOK
  BY SearchInvariance, PTL DEF SearchInv

\* Both segments of an answer come from one schedule.
THEOREM OneSchedule == SearchSpec => []OneScheduleInAnswer
<1>1. SearchInv => OneScheduleInAnswer
  BY DEF SearchInv, AnswerInv, OneScheduleInAnswer, Answered, At
<1>2. QED
  BY SearchInvariance, <1>1, PTL

\* An answer is of a schedule that was in force during the search.
THEOREM InForceDuringSearch == SearchSpec => []AnswerWasInForce
<1>1. SearchInv => AnswerWasInForce
  BY DEF SearchInv, AnswerInv, AnswerWasInForce, Answered, At
<1>2. QED
  BY SearchInvariance, <1>1, PTL

\* No request takes another's lock, with any number of requests per key.
THEOREM LockOfItsOwner == SearchSpec => OnlyOwnLockReleased
<1>1. ASSUME SearchInv, [SearchNext]_allVars, NEW k \in Keys,
             lock[k] # Nobody, lock'[k] # lock[k]
      PROVE  \/ req[lock[k]].pc = "release" /\ req'[lock[k]].pc # "release"
             \/ req' = req
  <2>1. /\ lock \in [Keys -> Requests \cup {Nobody}]
        /\ req \in [Requests -> RequestRecords]
    BY <1>1 DEF SearchInv, SearchTypeOK
  <2>2. ASSUME NEW r \in Requests, AcquireLock(r) PROVE FALSE
    BY <1>1, <2>1, <2>2 DEF AcquireLock, Free, Take
  <2>3. ASSUME NEW r \in Requests, ReleaseLock(r)
        PROVE  req[lock[k]].pc = "release" /\ req'[lock[k]].pc # "release"
    <3>1. lock[k] = r
      BY <1>1, <2>1, <2>3 DEF ReleaseLock
    <3>2. req[r].pc = "release" /\ req'[r].pc = req[r].outcome
      BY <2>1, <2>3 DEF ReleaseLock, At, Becomes, RequestRecords
    <3>3. req[r].outcome \in Ended
      BY <1>1, RequestTypes DEF SearchInv
    <3>4. QED
      BY <3>1, <3>2, <3>3 DEF Ended
  <2>4. \/ \E r \in Requests : AcquireLock(r) \/ ReleaseLock(r)
        \/ \E q \in Keys : ExpireLock(q)
    BY <1>1 DEF SearchNext, Search, ReadStatus, Lookup, DeleteInvalid, EngineStatus,
       EngineSource, FirstSegments, SecondSegments, Respond, Set, SearchFails, Import,
       Restart, CacheEnvironment, sharedVars, allVars
  <2>5. QED
    BY <2>2, <2>3, <2>4 DEF ExpireLock
<1>2. SearchInv /\ [SearchNext]_allVars =>
        [\A k \in Keys :
           (lock[k] # Nobody /\ lock'[k] # lock[k])
           => \/ req[lock[k]].pc = "release" /\ req'[lock[k]].pc # "release"
              \/ req' = req]_allVars
  BY <1>1
<1>3. QED
  BY SearchInvariance, <1>2, PTL DEF SearchSpec, OnlyOwnLockReleased
=============================================================================
