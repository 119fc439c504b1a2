--------------------------- MODULE ScheduleImport ---------------------------
(***************************************************************************)
(* ScheduleImportService.import_schedule run by several processes at once  *)
(* against one PostgreSQL database at READ COMMITTED.  One action per      *)
(* statement the service sends: another process may run between any two.   *)
(*                                                                         *)
(* What the database does for the service is part of the model: a unique   *)
(* index is checked by each INSERT or UPDATE on its own (never at commit), *)
(* a statement that meets an uncommitted conflicting row waits for that    *)
(* transaction, SELECT FOR UPDATE re-evaluates its condition on the rows   *)
(* it waited for, and a transaction that does not commit leaves nothing.   *)
(*                                                                         *)
(* A dataset is abstracted to its identity (name, provider type, version), *)
(* its canonical checksum and what the pipeline makes of its records.      *)
(***************************************************************************)
EXTENDS Integers, FiniteSets

CONSTANTS Importers,    \* runs of the import command
          Batches,      \* datasets: [identity, checksum, quality]
          SourceIds,    \* primary keys: random UUIDs, ordered like integers
          NoId,         \* None
          NoBatch       \* no dataset

Qualities == {"good",            \* every stage accepts it
              "noneNormalized",  \* normalization rejects every record
              "noneAccepted",    \* validation rejects every record
              "gateFails",       \* check_batch_quality raises
              "unstorable"}      \* the database refuses a flight of it

ASSUME SourceIdsAssumption == SourceIds \subseteq Int /\ NoId \notin SourceIds
ASSUME BatchesAssumption ==
    /\ \A b \in Batches : b.quality \in Qualities
    /\ NoBatch \notin Batches

VARIABLES
    \* committed rows
    stored,      \* ids of the data_sources rows
    contentOf,   \* the dataset an id was drawn for
    active,      \* ids with data_sources.is_active
    liveRoutes,  \* ids whose routes have routes.is_active
    \* one import_schedule call
    pc, activate, batch, found, newId, activeSources, todo, result,
    routesOff,   \* ids whose routes its transaction has turned off so far
    routesOn     \* ids whose routes its transaction has inserted so far

dbVars == <<stored, contentOf, active, liveRoutes>>
routeWrites == <<routesOff, routesOn>>
sessionVars == <<found, newId, activeSources, todo, routeWrites>>
vars == <<dbVars, pc, activate, batch, sessionVars, result>>

SameIdentity(a, b) == a.identity = b.identity
SameChecksum(a, b) == a.checksum = b.checksum
Clashes(a, b) == SameIdentity(a, b) \/ SameChecksum(a, b)

InTransaction == {"validate", "byVersion", "byChecksum", "insert", "select",
                  "lock", "routes", "write", "commit"}
Finished == {"done", "crashed"}

ErrorCodes == {"none", "no_valid_records", "quality_gate_failed",
               "duplicate_source_version", "import_failed"}
Activations == {"none", "validated", "no_op_duplicate", "activated", "failed"}
Results == [success: BOOLEAN, activation: Activations, code: ErrorCodes,
            source: SourceIds \cup {NoId}]

NewResult == [success |-> FALSE, activation |-> "none", code |-> "none",
              source |-> NoId]

Init ==
    /\ stored = {} /\ active = {} /\ liveRoutes = {}
    /\ contentOf = [k \in SourceIds |-> NoBatch]
    /\ pc = [i \in Importers |-> "fetch"]
    /\ activate \in [Importers -> BOOLEAN]
    /\ batch = [i \in Importers |-> NoBatch]
    /\ found = [i \in Importers |-> NoId]
    /\ newId = [i \in Importers |-> NoId]
    /\ activeSources = [i \in Importers |-> {}]
    /\ todo = [i \in Importers |-> {}]
    /\ routesOff = [i \in Importers |-> {}]
    /\ routesOn = [i \in Importers |-> {}]
    /\ result = [i \in Importers |-> NewResult]

-----------------------------------------------------------------------------
(* What the uncommitted transactions have done so far.                     *)

\* The row an open transaction has inserted.
Staged(j) == IF pc[j] \in {"select", "lock", "routes", "write", "commit"}
             THEN {newId[j]} ELSE {}

\* The rows an open transaction has locked with SELECT ... FOR UPDATE.
Locked(j) == IF pc[j] \in {"routes", "write", "commit"}
             THEN activeSources[j] ELSE {}

\* The active rows an open transaction has updated to inactive.
Lowered(j) == IF pc[j] \in {"write", "commit"}
              THEN activeSources[j] \ todo[j] ELSE {}

\* The row an open transaction has inserted and then updated to active.
Raised(j) == IF pc[j] \in {"write", "commit"} THEN {newId[j]} \ todo[j] ELSE {}

Others(i) == Importers \ {i}

-----------------------------------------------------------------------------
(* Ends of a call.  Leaving the transaction without a commit discards all  *)
(* of the session's work.                                                  *)

LeaveSession(i) ==
    /\ found' = [found EXCEPT ![i] = NoId]
    /\ newId' = [newId EXCEPT ![i] = NoId]
    /\ activeSources' = [activeSources EXCEPT ![i] = {}]
    /\ todo' = [todo EXCEPT ![i] = {}]
    /\ routesOff' = [routesOff EXCEPT ![i] = {}]
    /\ routesOn' = [routesOn EXCEPT ![i] = {}]

Return(i, r) ==
    /\ result' = [result EXCEPT ![i] = r]
    /\ pc' = [pc EXCEPT ![i] = "done"]
    /\ LeaveSession(i)

Reject(i, code) == Return(i, [result[i] EXCEPT !.code = code])

\* The except clause: it leaves result.success as it was.
Abort(i) ==
    /\ Return(i, [result[i] EXCEPT !.code = "import_failed",
                                   !.activation = "failed"])
    /\ UNCHANGED <<dbVars, activate, batch>>

Goto(i, next) == pc' = [pc EXCEPT ![i] = next]

-----------------------------------------------------------------------------
\* The provider returns a dataset; its records are normalized.
Fetch(i) ==
    /\ pc[i] = "fetch"
    /\ \E b \in Batches :
        /\ batch' = [batch EXCEPT ![i] = b]
        /\ IF b.quality = "noneNormalized"
           THEN Reject(i, "no_valid_records")
           ELSE Goto(i, "validate") /\ UNCHANGED <<sessionVars, result>>
    /\ UNCHANGED <<dbVars, activate>>

FetchFails(i) == pc[i] = "fetch" /\ Abort(i)

\* Records are validated against the airports table and gated as a batch.
Validate(i) ==
    /\ pc[i] = "validate"
    /\ CASE batch[i].quality = "noneAccepted" -> Reject(i, "no_valid_records")
         [] batch[i].quality = "gateFails"    -> Reject(i, "quality_gate_failed")
         [] OTHER ->
              IF activate[i]
              THEN Goto(i, "byVersion") /\ UNCHANGED <<sessionVars, result>>
              ELSE Return(i, [result[i] EXCEPT !.success = TRUE,
                                               !.activation = "validated"])
    /\ UNCHANGED <<dbVars, activate, batch>>

\* The id of one of those rows, or None.
Lookup(rows) == IF rows = {} THEN NoId ELSE CHOOSE k \in rows : TRUE

OfSameIdentity(i) == {k \in stored : SameIdentity(contentOf[k], batch[i])}
OfSameChecksum(i) == {k \in stored : SameChecksum(contentOf[k], batch[i])}

LookupVersion(i) ==
    /\ pc[i] = "byVersion"
    /\ found' = [found EXCEPT ![i] = Lookup(OfSameIdentity(i))]
    /\ Goto(i, "byChecksum")
    /\ UNCHANGED <<dbVars, activate, batch, newId, activeSources, todo,
                   routeWrites, result>>

\* Mutant: a source of the same version is a duplicate whatever its content.
LookupChecksum_AnyContent(i) ==
    /\ pc[i] = "byChecksum"
    /\ LET existing == IF found[i] # NoId THEN found[i]
                       ELSE Lookup(OfSameChecksum(i))
       IN IF existing = NoId
          THEN Goto(i, "insert") /\ UNCHANGED <<sessionVars, result>>
          ELSE Return(i, [result[i] EXCEPT !.success = TRUE,
                                           !.activation = "no_op_duplicate",
                                           !.source = existing])
    /\ UNCHANGED <<dbVars, activate, batch>>

\* Decide on what the two lookups found.
LookupChecksum(i) ==
    /\ pc[i] = "byChecksum"
    /\ LET existing == IF found[i] # NoId THEN found[i]
                       ELSE Lookup(OfSameChecksum(i))
       IN CASE existing = NoId ->
                 Goto(i, "insert") /\ UNCHANGED <<sessionVars, result>>
            [] existing # NoId /\ SameChecksum(contentOf[existing], batch[i]) ->
                 Return(i, [result[i] EXCEPT !.success = TRUE,
                                             !.activation = "no_op_duplicate",
                                             !.source = existing])
            [] OTHER -> Reject(i, "duplicate_source_version")
    /\ UNCHANGED <<dbVars, activate, batch>>

\* Mutant: no unique index on the identity and the checksum.
InsertSource_NoIndex(i) ==
    /\ pc[i] = "insert"
    /\ \E k \in SourceIds :
        /\ contentOf[k] = NoBatch
        /\ contentOf' = [contentOf EXCEPT ![k] = batch[i]]
        /\ newId' = [newId EXCEPT ![i] = k]
    /\ Goto(i, "select")
    /\ UNCHANGED <<stored, active, liveRoutes, activate, batch, found,
                   activeSources, todo, routeWrites, result>>

\* db.flush() of the new data_sources row, against its two unique indexes.
InsertSource(i) ==
    /\ pc[i] = "insert"
    /\ \A k \in stored : ~Clashes(contentOf[k], batch[i])
    /\ \A j \in Others(i) : \A k \in Staged(j) : ~Clashes(contentOf[k], batch[i])
    /\ \E k \in SourceIds :
        /\ contentOf[k] = NoBatch
        /\ contentOf' = [contentOf EXCEPT ![k] = batch[i]]
        /\ newId' = [newId EXCEPT ![i] = k]
    /\ Goto(i, "select")
    /\ UNCHANGED <<stored, active, liveRoutes, activate, batch, found,
                   activeSources, todo, routeWrites, result>>

InsertSourceConflicts(i) ==
    /\ pc[i] = "insert"
    /\ \E k \in stored : Clashes(contentOf[k], batch[i])
    /\ Abort(i)

\* SELECT ... WHERE is_active FOR UPDATE takes its snapshot.
SelectActive(i) ==
    /\ pc[i] = "select"
    /\ result' = [result EXCEPT ![i].source = newId[i]]
    /\ activeSources' = [activeSources EXCEPT ![i] = active]
    /\ Goto(i, "lock")
    /\ UNCHANGED <<dbVars, activate, batch, found, newId, todo, routeWrites>>

\* ... waits for the rows and keeps those still active: active_ids.
LockActive(i) ==
    /\ pc[i] = "lock"
    /\ \A j \in Others(i) : Locked(j) \cap activeSources[i] = {}
    /\ activeSources' = [activeSources EXCEPT ![i] = @ \cap active]
    /\ Goto(i, "routes")
    /\ UNCHANGED <<dbVars, activate, batch, found, newId, todo, routeWrites, result>>

\* The service marks in its session the rows the commit will update, and
\* announces success.
MarkSources(i) ==
    /\ todo' = [todo EXCEPT ![i] = activeSources[i] \cup {newId[i]}]
    /\ result' = [result EXCEPT ![i].success = TRUE,
                                ![i].activation = "activated"]
    /\ Goto(i, "write")

\* Mutant: the old source is deactivated in a transaction of its own.
UpdateRoutes_Commits(i) ==
    /\ pc[i] = "routes"
    /\ active' = active \ activeSources[i]
    /\ liveRoutes' = liveRoutes \ activeSources[i]
    /\ activeSources' = [activeSources EXCEPT ![i] = {}]
    /\ todo' = [todo EXCEPT ![i] = {newId[i]}]
    /\ result' = [result EXCEPT ![i].success = TRUE,
                                ![i].activation = "activated"]
    /\ Goto(i, "write")
    /\ UNCHANGED <<stored, contentOf, activate, batch, found, newId, routeWrites>>

\* Mutant: an UPDATE of the routes that fails is passed over.
UpdateRoutes_Optional(i) ==
    /\ pc[i] = "routes"
    /\ \E off \in {{}, activeSources[i]} :
           routesOff' = [routesOff EXCEPT ![i] = off]
    /\ MarkSources(i)
    /\ UNCHANGED <<dbVars, activate, batch, found, newId, activeSources, routesOn>>

\* UPDATE routes, sent at once for the rows just locked, if there are any.  It
\* waits for routes another transaction has updated.
UpdateRoutes(i) ==
    /\ pc[i] = "routes"
    /\ \A j \in Others(i) : routesOff[j] \cap activeSources[i] = {}
    /\ routesOff' = [routesOff EXCEPT ![i] = activeSources[i]]
    /\ MarkSources(i)
    /\ UNCHANGED <<dbVars, activate, batch, found, newId, activeSources, routesOn>>

\* The unit of work sends the UPDATEs of data_sources in primary-key order.
NextRow(i, k) ==
    /\ pc[i] = "write"
    /\ k \in todo[i]
    /\ \A m \in todo[i] : k <= m

\* Mutant: no unique index on is_active.
Obstacles_NoIndex(i) == {}

\* The active rows another transaction or this one has not updated yet, as
\* the unique index on is_active sees them.
Obstacles(i) == active \ Lowered(i)

WriteRow(i) ==
    /\ \E k \in SourceIds :
        /\ NextRow(i, k)
        /\ k = newId[i] => /\ Obstacles(i) = {}
                           /\ \A j \in Others(i) : Raised(j) = {}
        /\ todo' = [todo EXCEPT ![i] = @ \ {k}]
    /\ UNCHANGED <<dbVars, pc, activate, batch, found, newId, activeSources,
                   routeWrites, result>>

\* Mutant: a violated unique index is waited for, not reported.
WriteRowConflicts_Waits(i) == NextRow(i, newId[i]) /\ FALSE

WriteRowConflicts(i) ==
    /\ NextRow(i, newId[i])
    /\ \E k \in Obstacles(i) : \A j \in Others(i) : k \notin Lowered(j)
    /\ Abort(i)

\* The rest of the flush: the flights and routes of the new source.
InsertFlights(i) ==
    /\ pc[i] = "write"
    /\ todo[i] = {}
    /\ batch[i].quality # "unstorable"
    /\ routesOn' = [routesOn EXCEPT ![i] = {newId[i]}]
    /\ Goto(i, "commit")
    /\ UNCHANGED <<dbVars, activate, batch, found, newId, activeSources, todo,
                   routesOff, result>>

InsertFlightsConflicts(i) ==
    /\ pc[i] = "write"
    /\ todo[i] = {}
    /\ batch[i].quality = "unstorable"
    /\ Abort(i)

\* COMMIT makes visible at once what the statements of the transaction wrote.
CommitFlags(i) ==
    /\ active' = (active \ Lowered(i)) \cup Raised(i)
    /\ liveRoutes' = (liveRoutes \ routesOff[i]) \cup routesOn[i]

\* Mutant: the row of the new source is lost.
CommitRows_NoRow(i) ==
    /\ pc[i] = "commit"
    /\ CommitFlags(i)
    /\ UNCHANGED <<stored, contentOf, activate, batch>>

CommitRows(i) ==
    /\ pc[i] = "commit"
    /\ stored' = stored \cup Staged(i)
    /\ CommitFlags(i)
    /\ UNCHANGED <<contentOf, activate, batch>>

Commit(i) ==
    /\ CommitRows(i)
    /\ Goto(i, "invalidate")
    /\ LeaveSession(i)
    /\ UNCHANGED result

\* The server commits but the connection is lost before it says so.
CommitUnacknowledged(i) ==
    /\ CommitRows(i)
    /\ Return(i, [result[i] EXCEPT !.code = "import_failed",
                                   !.activation = "failed"])

\* Best-effort invalidation of the cached schedule status, after the commit.
Invalidate(i) ==
    /\ pc[i] = "invalidate"
    /\ Return(i, result[i])
    /\ UNCHANGED <<dbVars, activate, batch>>

\* A statement or the commit fails (connection, disk, timeout).
DatabaseFails(i) == pc[i] \in InTransaction /\ Abort(i)

\* The process dies; the server rolls its transaction back.
Crash(i) ==
    /\ pc[i] \notin Finished
    /\ Goto(i, "crashed")
    /\ LeaveSession(i)
    /\ UNCHANGED <<dbVars, activate, batch, result>>

Terminating == (\A i \in Importers : pc[i] \in Finished) /\ UNCHANGED vars

Run(i) ==
    \/ Fetch(i) \/ Validate(i) \/ LookupVersion(i) \/ LookupChecksum(i)
    \/ InsertSource(i) \/ InsertSourceConflicts(i)
    \/ SelectActive(i) \/ LockActive(i) \/ UpdateRoutes(i)
    \/ WriteRow(i) \/ WriteRowConflicts(i)
    \/ InsertFlights(i) \/ InsertFlightsConflicts(i)
    \/ Commit(i) \/ Invalidate(i)

Fault(i) ==
    \/ FetchFails(i) \/ DatabaseFails(i) \/ CommitUnacknowledged(i) \/ Crash(i)

Next == (\E i \in Importers : Run(i) \/ Fault(i)) \/ Terminating

Spec == Init /\ [][Next]_vars

\* Every process that can take a step eventually does; nothing forces a fault.
FairSpec == Spec /\ \A i \in Importers : WF_vars(Run(i))
-----------------------------------------------------------------------------
(* Properties.                                                             *)

TypeOK ==
    /\ stored \subseteq SourceIds
    /\ contentOf \in [SourceIds -> Batches \cup {NoBatch}]
    /\ active \subseteq stored
    /\ liveRoutes \subseteq stored
    /\ pc \in [Importers -> InTransaction \cup Finished \cup
                            {"fetch", "invalidate"}]
    /\ activate \in [Importers -> BOOLEAN]
    /\ batch \in [Importers -> Batches \cup {NoBatch}]
    /\ found \in [Importers -> SourceIds \cup {NoId}]
    /\ newId \in [Importers -> SourceIds \cup {NoId}]
    /\ activeSources \in [Importers -> SUBSET SourceIds]
    /\ todo \in [Importers -> SUBSET SourceIds]
    /\ routesOff \in [Importers -> SUBSET SourceIds]
    /\ routesOn \in [Importers -> SUBSET SourceIds]
    /\ result \in [Importers -> Results]

\* At most one source is active, whatever imports overlap: the engine, the
\* status endpoint and the readiness probe each read "the" active source.
OneActiveSource == \A k, m \in active : k = m

\* Three statements of two kinds switch a schedule: the UPDATE of the routes,
\* sent at once, and the flush, which updates the sources and inserts the new
\* routes.  Whatever fails or commits between them, the routes in force are
\* those of the active source, and a transaction about to commit leaves in
\* force its own routes and no other's, although it chose the ones to turn off
\* several statements earlier.
RoutesFollowSource ==
    /\ liveRoutes = active
    /\ \A i \in Importers : pc[i] = "commit" =>
          (liveRoutes \ routesOff[i]) \cup routesOn[i] = {newId[i]}

\* No two imported sources share an identity or a content checksum, although
\* each importer looks for duplicates before it inserts (check, then act).
SourcesDistinct ==
    \A k, m \in stored : k # m => ~Clashes(contentOf[k], contentOf[m])

\* Once a schedule is active there always is one: no interleaving of the two
\* UPDATEs, no failure and no crash leaves readers without a schedule.
NeverWithoutSchedule == [][active # {} => active' # {}]_vars

\* A call that ends as "activated" without an error has its source committed,
\* and one that ends as a duplicate names a committed source of that content.
SuccessIsBacked ==
    \A i \in Importers :
        LET r == result[i]
        IN (pc[i] = "done" /\ r.success /\ r.code = "none") =>
              /\ r.activation \in {"activated", "no_op_duplicate"} =>
                   /\ r.source \in stored
                   /\ contentOf[r.source].checksum = batch[i].checksum
              /\ r.activation = "validated" => ~activate[i]

\* No lost activation: a transaction about to commit replaces exactly the
\* source it locked, so an activation it did not see cannot be overwritten.
ReplacesWhatItLocked ==
    \A i \in Importers : pc[i] = "commit" => active = activeSources[i]

\* No lock wait is for ever: every call ends, with a result or a crash.
ImportsEnd == \A i \in Importers : <>(pc[i] \in Finished)

\* README.md: import failures return a nonzero command status.  The command's
\* status is zero exactly when result.success holds.
SuccessMeansCommitted ==
    \A i \in Importers :
        (pc[i] = "done" /\ activate[i] /\ result[i].success)
        => result[i].source \in stored

\* docs/RUNBOOK.md: a prior schedule is restored by importing its exact
\* source again under a new version.  So an import that succeeds leaves its
\* content in force.
ReimportRestores ==
    [][\A i \in Importers :
         (pc[i] = "byChecksum" /\ pc'[i] = "done" /\ result'[i].success)
         => \E k \in active' : SameChecksum(contentOf[k], batch[i])]_vars

-----------------------------------------------------------------------------
(* The store as its readers see it.                                        *)

Schedule == INSTANCE ActiveSchedule WITH
    catalog <- {contentOf[k] : k \in stored},
    current <- IF active = {} THEN NoBatch
               ELSE contentOf[CHOOSE k \in active : TRUE]

\* Any interleaving of imports looks to readers like whole activations, one
\* after the other, of datasets that clash with none imported before.
ImplementsActiveSchedule == Schedule!Spec
=============================================================================
