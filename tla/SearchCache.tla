----------------------------- MODULE SearchCache ----------------------------
(***************************************************************************)
(* POST /search: searches of one set of criteria, concurrent in several    *)
(* API processes, with the result cache, the stampede lock and schedule    *)
(* imports (ActiveSchedule).  A request's database session is READ         *)
(* COMMITTED: each of its statements sees the schedule in force when it    *)
(* runs, so one request may see two.                                       *)
(*                                                                         *)
(* Requests with other criteria use other keys and share nothing but the   *)
(* backoff, which is free to change here at any time.  The key of a result *)
(* stands for the schedule the request read its status from; two datasets  *)
(* never share a key (the only provider writes one source name).           *)
(***************************************************************************)
EXTENDS ActiveSchedule, RedisCache

CONSTANTS Requests,  \* searches
          ProcessOf, \* the API process that runs a search
          Covering,  \* schedules that cover the departure date
          Nobody     \* no lock token

VARIABLES
    lock,       \* the request whose token is in lock:<key>, or Nobody
    req,        \* the requests
    inForce     \* schedules in force since a request began (history)

scheduleVars == <<catalog, current>>
sharedVars == <<scheduleVars, cacheVars, lock>>
allVars == <<sharedVars, req, inForce>>

Schedules == Batches \cup {NoBatch}

\* What a response is made of: the schedule it names as its freshness and the
\* ones its first and second segments come from.
Answers == [freshness: Schedules, first: Schedules, second: Schedules]

ASSUME SearchAssumption ==
    /\ Keys = Batches          \* one key per schedule for these criteria
    /\ Payloads = Answers
    /\ Nobody \notin Requests
    /\ ProcessOf \in [Requests -> Processes]

Ended == {"done", "failed", "lost"}
Steps == {"start", "lookup", "delete", "lock", "engine", "source", "first",
          "second", "respond", "set", "release"}

RequestRecords ==
    [pc: Steps \cup Ended, status: Schedules, token: BOOLEAN, source: Schedules,
     first: Schedules, second: Schedules,
     outcome: Ended, answer: Answers \cup {NoEntry}]

NewRequest == [pc |-> "start", status |-> NoBatch, token |-> FALSE,
               source |-> NoBatch, first |-> NoBatch, second |-> NoBatch,
               outcome |-> "done", answer |-> NoEntry]

SearchInit ==
    /\ Init /\ CacheInit
    /\ lock = [k \in Keys |-> Nobody]
    /\ req = [r \in Requests |-> NewRequest]
    /\ inForce = [r \in Requests |-> {}]

InFlight(r) == req[r].pc \notin Ended \cup {"start"}
Becomes(r, new) == req' = [req EXCEPT ![r] = new]
At(r, step) == req[r].pc = step
Key(r) == req[r].status
HasKey(r) == req[r].status # NoBatch

-----------------------------------------------------------------------------
\* get_active_schedule_status, from which the key is built.
ReadStatus(r) ==
    /\ At(r, "start")
    /\ Becomes(r, [req[r] EXCEPT
           !.pc = IF current = NoBatch THEN "engine" ELSE "lookup",
           !.status = current])
    /\ inForce' = [inForce EXCEPT ![r] = {current}]
    /\ UNCHANGED sharedVars

\* Mutant: the payload is not validated against the response schema.
Lookup_Unvalidated(r) ==
    /\ At(r, "lookup")
    /\ \E v \in Entries :
        /\ GetJson(ProcessOf[r], Key(r), v)
        /\ Becomes(r, [req[r] EXCEPT
               !.pc = IF v = NoEntry THEN "lock" ELSE "done",
               !.answer = v])
    /\ UNCHANGED <<scheduleVars, lock, inForce>>

\* A valid payload is returned as it is, with a new id and time; one that
\* cannot be decoded or that the response schema rejects is deleted.
Lookup(r) ==
    /\ At(r, "lookup")
    /\ \E v \in Entries :
        /\ GetJson(ProcessOf[r], Key(r), v)
        /\ Becomes(r, [req[r] EXCEPT
               !.pc = CASE v \in Payloads -> "done"
                        [] v = Misfit     -> "delete"
                        [] OTHER          -> "lock",
               !.answer = IF v \in Payloads THEN v ELSE NoEntry])
    /\ UNCHANGED <<scheduleVars, lock, inForce>>

DeleteInvalid(r) ==
    /\ At(r, "delete")
    /\ Delete(ProcessOf[r], Key(r))
    /\ Becomes(r, [req[r] EXCEPT !.pc = "lock"])
    /\ UNCHANGED <<scheduleVars, lock, inForce>>

Free(k) == lock[k] = Nobody
Take(r) == lock' = [lock EXCEPT ![Key(r)] = r]

\* Mutant: a request waits for the lock to be free.
AcquireLock_Waits(r) ==
    /\ At(r, "lock")
    /\ Available(ProcessOf[r]) => Free(Key(r)) /\ Take(r)
    /\ ~Available(ProcessOf[r]) => UNCHANGED lock
    /\ Becomes(r, [req[r] EXCEPT !.pc = "engine",
                                 !.token = Available(ProcessOf[r])])
    /\ UNCHANGED <<scheduleVars, cacheVars, inForce>>

\* SET lock:<key> token NX EX: the request goes on whatever the outcome.  When
\* the command fails the request has no token, even if the server stored it.
AcquireLock(r) ==
    LET p == ProcessOf[r] IN
    /\ At(r, "lock")
    /\ \E token \in BOOLEAN :
        /\ Becomes(r, [req[r] EXCEPT !.pc = "engine", !.token = token])
        /\ \/ token /\ Available(p) /\ Free(Key(r)) /\ Take(r) /\ UNCHANGED backoff
           \/ ~token /\ ~(Available(p) /\ Free(Key(r))) /\ UNCHANGED <<lock, backoff>>
           \/ /\ ~token /\ Available(p) /\ Failed(p)
              /\ (Free(Key(r)) /\ Take(r)) \/ UNCHANGED lock
    /\ UNCHANGED <<scheduleVars, entries, inForce>>

\* The finally clause, on the way out with that outcome.
Leave(r, outcome) ==
    Becomes(r, [req[r] EXCEPT !.pc = IF HasKey(r) THEN "release" ELSE outcome,
                              !.outcome = outcome])

\* search_itineraries reads the status again, for the coverage of the date ...
EngineStatus(r) ==
    /\ At(r, "engine")
    /\ IF current # NoBatch /\ current \in Covering
       THEN Becomes(r, [req[r] EXCEPT !.pc = "source"])
       ELSE Leave(r, "failed")
    /\ UNCHANGED <<sharedVars, inForce>>

\* ... and the repository resolves, once, the source its queries are scoped to.
EngineSource(r) ==
    /\ At(r, "source")
    /\ Becomes(r, [req[r] EXCEPT !.pc = "first", !.source = current])
    /\ UNCHANGED <<sharedVars, inForce>>

FirstSegments(r) ==
    /\ At(r, "first")
    /\ Becomes(r, [req[r] EXCEPT !.pc = "second", !.first = req[r].source])
    /\ UNCHANGED <<sharedVars, inForce>>

\* Mutant: each query resolves the active source for itself.
SecondSegments_Current(r) ==
    /\ At(r, "second")
    /\ Becomes(r, [req[r] EXCEPT !.pc = "respond", !.second = current])
    /\ UNCHANGED <<sharedVars, inForce>>

SecondSegments(r) ==
    /\ At(r, "second")
    /\ Becomes(r, [req[r] EXCEPT !.pc = "respond", !.second = req[r].source])
    /\ UNCHANGED <<sharedVars, inForce>>

\* The response takes its freshness from the first status.
Respond(r) ==
    /\ At(r, "respond")
    /\ Becomes(r, [req[r] EXCEPT
           !.pc = IF HasKey(r) THEN "set" ELSE "done",
           !.answer = [freshness |-> req[r].status,
                       first |-> req[r].first, second |-> req[r].second]])
    /\ UNCHANGED <<sharedVars, inForce>>

Set(r) ==
    /\ At(r, "set")
    /\ SetJson(ProcessOf[r], Key(r), req[r].answer)
    /\ Leave(r, "done")
    /\ UNCHANGED <<scheduleVars, lock, inForce>>

\* Mutant: the lock is deleted without comparing its token.
ReleaseLock_Any(r) ==
    LET p == ProcessOf[r]
        Unlock == lock' = [lock EXCEPT ![Key(r)] = Nobody]
    IN
    /\ At(r, "release")
    /\ Becomes(r, [req[r] EXCEPT !.pc = req[r].outcome])
    /\ \/ ~(req[r].token /\ Available(p)) /\ UNCHANGED <<lock, backoff>>
       \/ req[r].token /\ Available(p) /\ Unlock /\ UNCHANGED backoff
       \/ req[r].token /\ Available(p) /\ Failed(p) /\ (Unlock \/ UNCHANGED lock)
    /\ UNCHANGED <<scheduleVars, entries, inForce>>

\* release_lock: delete the lock if it still holds this request's token.
ReleaseLock(r) ==
    LET p == ProcessOf[r]
        Unlock == IF lock[Key(r)] = r THEN lock' = [lock EXCEPT ![Key(r)] = Nobody]
                  ELSE UNCHANGED lock
    IN
    /\ At(r, "release")
    /\ Becomes(r, [req[r] EXCEPT !.pc = req[r].outcome])
    /\ \/ ~(req[r].token /\ Available(p)) /\ UNCHANGED <<lock, backoff>>
       \/ req[r].token /\ Available(p) /\ Unlock /\ UNCHANGED backoff
       \/ req[r].token /\ Available(p) /\ Failed(p) /\ (Unlock \/ UNCHANGED lock)
    /\ UNCHANGED <<scheduleVars, entries, inForce>>

\* A statement of the search fails: the finally clause still runs.
SearchFails(r) ==
    /\ req[r].pc \in {"engine", "source", "first", "second", "respond"}
    /\ Leave(r, "failed")
    /\ UNCHANGED <<sharedVars, inForce>>

-----------------------------------------------------------------------------
\* A schedule import commits.
Import(b) ==
    /\ Activate(b)
    /\ inForce' = [r \in Requests |-> IF InFlight(r) THEN inForce[r] \cup {b}
                                      ELSE inForce[r]]
    /\ UNCHANGED <<cacheVars, lock, req>>

\* Redis drops a lock whose TTL has run out.
ExpireLock(k) ==
    /\ ~Free(k)
    /\ lock' = [lock EXCEPT ![k] = Nobody]
    /\ UNCHANGED <<scheduleVars, cacheVars, req, inForce>>

\* An API process dies with its requests; its successor has no backoff.
Restart(p) ==
    /\ \E r \in Requests : ProcessOf[r] = p /\ InFlight(r)
    /\ req' = [r \in Requests |-> IF ProcessOf[r] = p /\ InFlight(r)
                                  THEN [req[r] EXCEPT !.pc = "lost"] ELSE req[r]]
    /\ backoff' = backoff \ {p}
    /\ UNCHANGED <<scheduleVars, entries, lock, inForce>>

CacheEnvironment ==
    /\ \/ \E k \in Keys : Expire(k) \/ Corrupt(k)
       \/ \E p \in Processes : EndBackoff(p)
    /\ UNCHANGED <<scheduleVars, lock, req, inForce>>

Search(r) ==
    \/ ReadStatus(r) \/ Lookup(r) \/ DeleteInvalid(r) \/ AcquireLock(r)
    \/ EngineStatus(r) \/ EngineSource(r) \/ FirstSegments(r) \/ SecondSegments(r)
    \/ Respond(r) \/ Set(r) \/ ReleaseLock(r)

SearchNext ==
    \/ \E r \in Requests : Search(r) \/ SearchFails(r)
    \/ \E b \in Batches : Import(b)
    \/ \E k \in Keys : ExpireLock(k)
    \/ \E p \in Processes : Restart(p)
    \/ CacheEnvironment

SearchSpec == SearchInit /\ [][SearchNext]_allVars

\* A request's thread keeps running; no lock, entry or backoff need ever expire.
FairSearchSpec == SearchSpec /\ \A r \in Requests : WF_allVars(Search(r))

-----------------------------------------------------------------------------
(* Properties.                                                             *)

SearchTypeOK ==
    /\ TypeOK /\ CacheTypeOK
    /\ lock \in [Keys -> Requests \cup {Nobody}]
    /\ req \in [Requests -> RequestRecords]
    /\ inForce \in [Requests -> SUBSET Schedules]

Answered(r) == req[r].pc = "done"

\* Both segments of a connection come from one schedule, although an import may
\* commit between the queries (repositories/schedule.py: never mix versions).
OneScheduleInAnswer ==
    \A r \in Requests : Answered(r) => req[r].answer.first = req[r].answer.second

\* Whatever the cache held and however imports overlapped the search, the
\* answer is of a schedule that was in force at some moment of the search: a
\* client never sees an older schedule after a newer one.  (It rests on a
\* replaced schedule never coming into force again under its key.)
AnswerWasInForce ==
    \A r \in Requests : Answered(r) => req[r].answer.first \in inForce[r]

\* No step of a request takes the lock of another: it leaves its owner only in
\* the owner's own release or with its TTL.
OnlyOwnLockReleased ==
    [][\A k \in Keys :
         (lock[k] # Nobody /\ lock'[k] # lock[k])
         => \/ req[lock[k]].pc = "release" /\ req'[lock[k]].pc # "release"
            \/ req' = req]_allVars

\* Every search ends, with Redis down, entries corrupt, or the lock held by a
\* request that never releases it: each runs once, so from some moment on none
\* is under way.
SearchesEnd ==
    <>[](\A r \in Requests : ~InFlight(r))
=============================================================================
