------------------------ MODULE ScheduleImportProofs ------------------------
(***************************************************************************)
(* Proofs about ScheduleImport, for any number of importers and datasets,  *)
(* and about ImportPipeline, for any files.                                *)
(*                                                                         *)
(* OneActiveSource is not inductive: that a commit leaves one active row   *)
(* rests on what the transaction established statements earlier.  Inv adds *)
(* that: the rows a transaction has locked are still active and locked by  *)
(* it alone, and a transaction that has raised its new row is the only one *)
(* that has and has lowered every active row.  DistinctInv does the same   *)
(* for the unique indexes: a staged row clashes with no stored row and     *)
(* with no other staged row.                                               *)
(*                                                                         *)
(* Of the files, GateInv adds that a source in the making or stored passed *)
(* the gate, and AcceptingInv that no success is announced before it has.  *)
(* What a stored source holds then follows from what the gate's operators  *)
(* do to a file, whatever its rows.                                        *)
(*                                                                         *)
(* The routes are switched by statements of their own.  RoutesInv adds     *)
(* what ties them to the sources: a transaction has turned off the routes  *)
(* of exactly the rows it locked, and inserted those of its new row.       *)
(***************************************************************************)
EXTENDS ImportPipeline, FiniteSetTheorems, WellFoundedInduction, TLAPS

Holding == {"routes", "write", "commit"}
Writing == {"write", "commit"}

\* Rows locked by an open transaction are active, and locked by it alone.
LocksInv ==
    /\ \A i \in Importers : pc[i] \in Holding => activeSources[i] \subseteq active
    /\ \A i, j \in Importers :
         (i # j /\ pc[i] \in Holding /\ pc[j] \in Holding)
         => activeSources[i] \cap activeSources[j] = {}

\* What is left to update; at the commit nothing is, and the routes of the new
\* row are in.
TodoInv ==
    \A i \in Importers :
        /\ pc[i] \in Writing => todo[i] \subseteq activeSources[i] \cup {newId[i]}
        /\ pc[i] = "commit" => todo[i] = {} /\ routesOn[i] = {newId[i]}

\* The one transaction that has raised its row has lowered all active ones.
RaisedInv ==
    \A i \in Importers :
        (pc[i] \in Writing /\ newId[i] \notin todo[i]) =>
            /\ active \subseteq activeSources[i] \ todo[i]
            /\ \A j \in Importers \ {i} :
                 pc[j] \in Writing => newId[j] \in todo[j]

\* A staged row is not stored yet, holds the dataset of its importer and is
\* nobody else's.
Inserted == {"select", "lock", "routes", "write", "commit"}

NewIdInv ==
    /\ \A i \in Importers : pc[i] \in Inserted =>
         /\ newId[i] \in SourceIds \ stored
         /\ contentOf[newId[i]] = batch[i]
    /\ \A i, j \in Importers :
         (i # j /\ pc[i] \in Inserted /\ pc[j] \in Inserted) => newId[i] # newId[j]

\* A call under way has a dataset, and so has every stored row.
BatchInv ==
    /\ \A i \in Importers : pc[i] \in InTransaction => batch[i] \in Batches
    /\ \A k \in stored : contentOf[k] \in Batches

Inv == /\ TypeOK
       /\ OneActiveSource
       /\ LocksInv
       /\ TodoInv
       /\ RaisedInv
       /\ NewIdInv
       /\ BatchInv

\* The routes turned off, and those in force.
RoutesInv ==
    /\ liveRoutes = active
    /\ \A i \in Importers : pc[i] \in Writing => routesOff[i] = activeSources[i]

DistinctInv ==
    /\ SourcesDistinct
    /\ \A i \in Importers : \A k \in Staged(i) :
         \A m \in stored : ~Clashes(contentOf[k], contentOf[m])
    /\ \A i, j \in Importers : i # j =>
         \A k \in Staged(i) : \A m \in Staged(j) :
             ~Clashes(contentOf[k], contentOf[m])

USE DEF dbVars, sessionVars, routeWrites, Goto

-----------------------------------------------------------------------------
(* Types.                                                                  *)

\* Whatever a call returns, it leaves the session variables well typed.
LEMMA ReturnType ==
    ASSUME TypeOK, NEW i \in Importers, NEW r \in Results, Return(i, r),
           UNCHANGED <<dbVars, activate>>, batch' \in [Importers -> Batches \cup {NoBatch}]
    PROVE  TypeOK'
<1>1. result' \in [Importers -> Results]
  BY DEF TypeOK, Return
<1>2. QED
  BY <1>1 DEF TypeOK, Return, LeaveSession, Finished

\* A result stays a result when its fields are overwritten.
LEMMA ResultUpdates ==
    \A r \in Results :
      /\ \A c \in ErrorCodes : [r EXCEPT !.code = c] \in Results
      /\ \A k \in SourceIds \cup {NoId} : [r EXCEPT !.source = k] \in Results
      /\ \A a \in Activations :
           /\ [r EXCEPT !.success = TRUE, !.activation = a] \in Results
           /\ [r EXCEPT !.code = "import_failed", !.activation = a] \in Results
           /\ \A k \in SourceIds \cup {NoId} :
                [r EXCEPT !.success = TRUE, !.activation = a, !.source = k] \in Results
  BY DEF Results, ErrorCodes

LEMMA AbortType ==
    ASSUME TypeOK, NEW i \in Importers, Abort(i)
    PROVE  TypeOK'
<1>1. result[i] \in Results
  BY DEF TypeOK
<1>2. [result[i] EXCEPT !.code = "import_failed", !.activation = "failed"] \in Results
  BY <1>1, ResultUpdates DEF ErrorCodes, Activations
<1>3. QED
  BY <1>2, ReturnType DEF Abort, TypeOK

LEMMA TypeStep == Inv /\ [Next]_vars => TypeOK'
<1> SUFFICES ASSUME Inv, [Next]_vars PROVE TypeOK'
  OBVIOUS
<1> USE DEF Inv
<1>0. \A i \in Importers : result[i] \in Results
  BY DEF TypeOK
<1>1. ASSUME NEW i \in Importers, Fetch(i) PROVE TypeOK'
  <2> PICK b \in Batches :
        /\ batch' = [batch EXCEPT ![i] = b]
        /\ IF b.quality = "noneNormalized"
           THEN Reject(i, "no_valid_records")
           ELSE Goto(i, "validate") /\ UNCHANGED <<sessionVars, result>>
    BY <1>1 DEF Fetch
  <2>1. batch' \in [Importers -> Batches \cup {NoBatch}]
    BY DEF TypeOK
  <2>2. CASE b.quality = "noneNormalized"
    BY <1>0, <1>1, <2>1, <2>2, ReturnType, ResultUpdates
       DEF Reject, TypeOK, ErrorCodes, Fetch
  <2>3. CASE b.quality # "noneNormalized"
    BY <1>1, <2>1, <2>3 DEF TypeOK, Fetch, InTransaction
  <2>4. QED
    BY <2>2, <2>3
<1>2. ASSUME NEW i \in Importers, FetchFails(i) PROVE TypeOK'
  BY <1>2, AbortType DEF FetchFails
<1>3. ASSUME NEW i \in Importers, Validate(i) PROVE TypeOK'
  <2>1. CASE Reject(i, "no_valid_records") \/ Reject(i, "quality_gate_failed")
    BY <1>0, <1>3, <2>1, ReturnType, ResultUpdates DEF Reject, TypeOK, ErrorCodes, Validate
  <2>2. CASE Goto(i, "byVersion") /\ UNCHANGED <<sessionVars, result>>
    BY <1>3, <2>2 DEF TypeOK, Validate, InTransaction
  <2>3. CASE Return(i, [result[i] EXCEPT !.success = TRUE,
                                         !.activation = "validated"])
    BY <1>0, <1>3, <2>3, ReturnType, ResultUpdates DEF TypeOK, Activations, Validate
  <2>4. QED
    BY <1>3, <2>1, <2>2, <2>3 DEF Validate
<1>4. ASSUME NEW i \in Importers, LookupVersion(i) PROVE TypeOK'
  BY <1>4 DEF LookupVersion, Lookup, OfSameIdentity, TypeOK, InTransaction
<1>5. ASSUME NEW i \in Importers, LookupChecksum(i) PROVE TypeOK'
  <2> DEFINE existing == IF found[i] # NoId THEN found[i] ELSE Lookup(OfSameChecksum(i))
  <2>0. existing \in SourceIds \cup {NoId}
    BY DEF TypeOK, Lookup, OfSameChecksum
  <2>1. CASE Goto(i, "insert") /\ UNCHANGED <<sessionVars, result>>
    BY <1>5, <2>1 DEF TypeOK, LookupChecksum, InTransaction
  <2>2. CASE Return(i, [result[i] EXCEPT !.success = TRUE,
                                         !.activation = "no_op_duplicate",
                                         !.source = existing])
    <3> HIDE DEF existing
    <3>1. [result[i] EXCEPT !.success = TRUE, !.activation = "no_op_duplicate",
                            !.source = existing] \in Results
      BY <1>0, <2>0, ResultUpdates DEF Activations
    <3>2. QED
      BY <1>5, <2>2, <3>1, ReturnType DEF TypeOK, LookupChecksum
  <2>3. CASE Reject(i, "duplicate_source_version")
    BY <1>0, <1>5, <2>3, ReturnType, ResultUpdates DEF Reject, TypeOK, ErrorCodes, LookupChecksum
  <2>4. QED
    BY <1>5, <2>1, <2>2, <2>3 DEF LookupChecksum
<1>6. ASSUME NEW i \in Importers, InsertSource(i) PROVE TypeOK'
  BY <1>6 DEF InsertSource, TypeOK, InTransaction, NewIdInv, BatchInv, Finished
<1>7. ASSUME NEW i \in Importers, InsertSourceConflicts(i) PROVE TypeOK'
  BY <1>7, AbortType DEF InsertSourceConflicts
<1>8. ASSUME NEW i \in Importers, SelectActive(i) PROVE TypeOK'
  <2>1. [result[i] EXCEPT !.source = newId[i]] \in Results
    BY <1>0, ResultUpdates DEF TypeOK
  <2>2. QED
    BY <1>8, <2>1 DEF SelectActive, TypeOK, InTransaction
<1>9. ASSUME NEW i \in Importers, LockActive(i) PROVE TypeOK'
  BY <1>9 DEF LockActive, TypeOK, InTransaction
<1>21. ASSUME NEW i \in Importers, UpdateRoutes(i) PROVE TypeOK'
  <2>1. [result[i] EXCEPT !.success = TRUE, !.activation = "activated"] \in Results
    BY <1>0, ResultUpdates DEF TypeOK, Activations
  <2>2. QED
    BY <1>21, <2>1 DEF UpdateRoutes, MarkSources, TypeOK, InTransaction, NewIdInv, Inserted
<1>10. ASSUME NEW i \in Importers, WriteRow(i) PROVE TypeOK'
  BY <1>10 DEF WriteRow, TypeOK
<1>11. ASSUME NEW i \in Importers, WriteRowConflicts(i) PROVE TypeOK'
  BY <1>11, AbortType DEF WriteRowConflicts
<1>12. ASSUME NEW i \in Importers, InsertFlights(i) PROVE TypeOK'
  BY <1>12 DEF InsertFlights, TypeOK, InTransaction, NewIdInv, Inserted
<1>13. ASSUME NEW i \in Importers, InsertFlightsConflicts(i) PROVE TypeOK'
  BY <1>13, AbortType DEF InsertFlightsConflicts
<1>14. ASSUME NEW i \in Importers, CommitRows(i)
       PROVE  stored' \subseteq SourceIds /\ active' \subseteq stored' /\ liveRoutes' \subseteq stored'
  <2>1. newId[i] \in SourceIds /\ Staged(i) = {newId[i]} /\ routesOn[i] = {newId[i]}
    BY <1>14 DEF CommitRows, Staged, NewIdInv, Inserted, TodoInv
  <2>2. Raised(i) \subseteq {newId[i]}
    BY DEF Raised
  <2>3. stored' = stored \cup {newId[i]}
    BY <1>14, <2>1 DEF CommitRows
  <2>4. active' \subseteq stored'
    BY <1>14, <2>2, <2>3 DEF CommitRows, CommitFlags, TypeOK
  <2>5. liveRoutes' \subseteq stored'
    BY <1>14, <2>1, <2>3 DEF CommitRows, CommitFlags, TypeOK
  <2>6. QED
    BY <2>1, <2>3, <2>4, <2>5 DEF TypeOK
<1>22. ASSUME NEW i \in Importers, Commit(i) PROVE TypeOK'
  <2>1. CommitRows(i)
    BY <1>22 DEF Commit
  <2>2. UNCHANGED <<contentOf, activate, batch, result>>
    BY <1>22 DEF Commit, CommitRows
  <2>3. QED
    BY <1>14, <1>22, <2>1, <2>2 DEF Commit, LeaveSession, TypeOK
<1>15. ASSUME NEW i \in Importers, CommitUnacknowledged(i) PROVE TypeOK'
  <2>1. [result[i] EXCEPT !.code = "import_failed", !.activation = "failed"] \in Results
    BY <1>0, ResultUpdates DEF TypeOK, ErrorCodes, Activations
  <2>2. CommitRows(i) /\ UNCHANGED <<contentOf, activate, batch>>
    BY <1>15 DEF CommitUnacknowledged, CommitRows
  <2>3. QED
    BY <1>14, <1>15, <2>1, <2>2 DEF CommitUnacknowledged, Return, LeaveSession, TypeOK, Finished
<1>16. ASSUME NEW i \in Importers, Invalidate(i) PROVE TypeOK'
  BY <1>16, ReturnType DEF Invalidate, TypeOK
<1>17. ASSUME NEW i \in Importers, DatabaseFails(i) PROVE TypeOK'
  BY <1>17, AbortType DEF DatabaseFails
<1>18. ASSUME NEW i \in Importers, Crash(i) PROVE TypeOK'
  BY <1>18 DEF Crash, TypeOK, LeaveSession, Finished
<1>19. CASE UNCHANGED vars
  BY <1>19 DEF vars, TypeOK
<1>20. QED
  BY <1>1, <1>2, <1>3, <1>4, <1>5, <1>6, <1>7, <1>8, <1>9, <1>10, <1>11, <1>12,
     <1>13, <1>14, <1>15, <1>16, <1>17, <1>18, <1>19, <1>21,
     <1>22
     DEF Next, Run, Fault, Terminating

-----------------------------------------------------------------------------
(* The steps, grouped by what they do to the invariant.                    *)

\* The call ends, by returning, failing or dying, without a commit.
Quits(i) ==
    /\ \E p \in Finished : pc' = [pc EXCEPT ![i] = p]
    /\ LeaveSession(i)
    /\ UNCHANGED dbVars
    /\ \A j \in Importers \ {i} : batch'[j] = batch[j]

\* The call advances without having written anything.
Prepares(i) ==
    /\ pc[i] \notin Inserted
    /\ \E p \in InTransaction \ Inserted : pc' = [pc EXCEPT ![i] = p]
    /\ batch'[i] \in Batches
    /\ \A j \in Importers \ {i} : batch'[j] = batch[j]
    /\ UNCHANGED <<dbVars, newId, activeSources, todo, routeWrites>>

\* The call commits, acknowledged or not.
Commits(i) ==
    /\ CommitRows(i)
    /\ \E p \in {"invalidate", "done"} : pc' = [pc EXCEPT ![i] = p]
    /\ LeaveSession(i)

LEMMA StepCases ==
    ASSUME Inv, [Next]_vars
    PROVE  \/ UNCHANGED vars
           \/ \E i \in Importers :
                \/ Quits(i) \/ Prepares(i) \/ InsertSource(i) \/ SelectActive(i)
                \/ LockActive(i) \/ UpdateRoutes(i) \/ WriteRow(i)
                \/ InsertFlights(i) \/ Commits(i)
<1>1. ASSUME NEW i \in Importers, Abort(i) PROVE Quits(i)
  BY <1>1 DEF Abort, Return, Quits, Finished
<1>2. ASSUME NEW i \in Importers, Fetch(i) PROVE Quits(i) \/ Prepares(i)
  BY <1>2 DEF Fetch, Reject, Return, Quits, Prepares, Inv, TypeOK, Finished,
              InTransaction, Inserted
<1>3. ASSUME NEW i \in Importers, Validate(i) PROVE Quits(i) \/ Prepares(i)
  BY <1>3 DEF Validate, Reject, Return, Quits, Prepares, Inv, BatchInv, Finished,
              InTransaction, Inserted
<1>4. ASSUME NEW i \in Importers, LookupVersion(i) PROVE Prepares(i)
  BY <1>4 DEF LookupVersion, Prepares, Inv, BatchInv, InTransaction, Inserted
<1>5. ASSUME NEW i \in Importers, LookupChecksum(i) PROVE Quits(i) \/ Prepares(i)
  BY <1>5 DEF LookupChecksum, Reject, Return, Quits, Prepares, Inv, BatchInv,
              Finished, InTransaction, Inserted
<1>6. ASSUME NEW i \in Importers, Invalidate(i) PROVE Quits(i)
  BY <1>6 DEF Invalidate, Return, Quits, Finished
<1>7. ASSUME NEW i \in Importers, Crash(i) PROVE Quits(i)
  BY <1>7 DEF Crash, Quits, Finished
<1>8. ASSUME NEW i \in Importers, Commit(i) \/ CommitUnacknowledged(i)
      PROVE  Commits(i)
  BY <1>8 DEF Commit, CommitUnacknowledged, Return, Commits
<1>9. QED
  BY <1>1, <1>2, <1>3, <1>4, <1>5, <1>6, <1>7, <1>8
     DEF Next, Run, Fault, Terminating, FetchFails, InsertSourceConflicts,
         WriteRowConflicts, InsertFlightsConflicts, DatabaseFails

-----------------------------------------------------------------------------
(* Staged rows.                                                            *)

LEMMA NewIdStep == Inv /\ [Next]_vars => NewIdInv' /\ BatchInv'
<1> SUFFICES ASSUME Inv, [Next]_vars PROVE NewIdInv' /\ BatchInv'
  OBVIOUS
<1>t. TypeOK'
  BY TypeStep
<1> USE DEF Inv, NewIdInv, BatchInv, TypeOK, InTransaction, Inserted, Finished
<1>1. CASE UNCHANGED vars
  BY <1>1 DEF vars
<1>2. ASSUME NEW i \in Importers, Quits(i) PROVE NewIdInv' /\ BatchInv'
  BY <1>2, <1>t DEF Quits, LeaveSession
<1>3. ASSUME NEW i \in Importers, Prepares(i) PROVE NewIdInv' /\ BatchInv'
  BY <1>3, <1>t DEF Prepares
<1>4. ASSUME NEW i \in Importers, InsertSource(i) PROVE NewIdInv' /\ BatchInv'
  BY <1>4, <1>t, BatchesAssumption DEF InsertSource
<1>5. ASSUME NEW i \in Importers, SelectActive(i) PROVE NewIdInv' /\ BatchInv'
  BY <1>5, <1>t DEF SelectActive
<1>6. ASSUME NEW i \in Importers, LockActive(i) PROVE NewIdInv' /\ BatchInv'
  BY <1>6, <1>t DEF LockActive
<1>7. ASSUME NEW i \in Importers, WriteRow(i) PROVE NewIdInv' /\ BatchInv'
  BY <1>7, <1>t DEF WriteRow
<1>8. ASSUME NEW i \in Importers, InsertFlights(i) PROVE NewIdInv' /\ BatchInv'
  BY <1>8, <1>t DEF InsertFlights
<1>9. ASSUME NEW i \in Importers, Commits(i) PROVE NewIdInv' /\ BatchInv'
  BY <1>9, <1>t DEF Commits, CommitRows, LeaveSession, Staged
<1>10. ASSUME NEW i \in Importers, UpdateRoutes(i) PROVE NewIdInv' /\ BatchInv'
  BY <1>10, <1>t DEF UpdateRoutes, MarkSources
<1>11. QED
  BY <1>1, <1>2, <1>3, <1>4, <1>5, <1>6, <1>7, <1>8, <1>9, <1>10, StepCases

-----------------------------------------------------------------------------
(* The lock on the active row and the order of the UPDATEs.                *)

ActiveInv == OneActiveSource /\ LocksInv /\ TodoInv /\ RaisedInv

\* The commit lowers the rows that were locked and raises the new one: by then
\* the flush has left nothing undone.
LEMMA CommittedFlags ==
    ASSUME Inv, NEW i \in Importers, Commits(i)
    PROVE  /\ active' = (active \ activeSources[i]) \cup {newId[i]}
           /\ stored' = stored \cup {newId[i]}
  BY DEF Commits, CommitRows, CommitFlags, Lowered, Raised, Staged, Inv, TodoInv

LEMMA ActiveStep == Inv /\ [Next]_vars => ActiveInv'
<1> SUFFICES ASSUME Inv, [Next]_vars PROVE ActiveInv'
  OBVIOUS
<1>t. TypeOK'
  BY TypeStep
<1> USE DEF Inv, ActiveInv, OneActiveSource, LocksInv, TodoInv, RaisedInv, Holding, Writing
<1>1. CASE UNCHANGED vars
  BY <1>1 DEF vars
<1>2. ASSUME NEW i \in Importers, Quits(i) PROVE ActiveInv'
  BY <1>2, <1>t DEF Quits, LeaveSession, TypeOK, Finished
<1>3. ASSUME NEW i \in Importers, Prepares(i) PROVE ActiveInv'
  BY <1>3, <1>t DEF Prepares, TypeOK, InTransaction, Inserted
<1>4. ASSUME NEW i \in Importers, InsertSource(i) PROVE ActiveInv'
  BY <1>4, <1>t DEF InsertSource, TypeOK
<1>5. ASSUME NEW i \in Importers, SelectActive(i) PROVE ActiveInv'
  BY <1>5, <1>t DEF SelectActive, TypeOK
<1>6. ASSUME NEW i \in Importers, LockActive(i) PROVE ActiveInv'
  <2>1. /\ \A j \in Importers \ {i} :
             /\ pc'[j] = pc[j] /\ activeSources'[j] = activeSources[j]
             /\ todo'[j] = todo[j]
             /\ pc[j] \in Holding => activeSources[j] \cap activeSources'[i] = {}
        /\ pc'[i] = "routes"
        /\ activeSources'[i] \subseteq active
        /\ UNCHANGED <<active, newId, routesOn>>
    BY <1>6 DEF LockActive, TypeOK, Locked, Others
  <2>2. QED
    BY <2>1
<1>11. ASSUME NEW i \in Importers, UpdateRoutes(i) PROVE ActiveInv'
  <2>1. /\ \A j \in Importers \ {i} : pc'[j] = pc[j] /\ todo'[j] = todo[j]
        /\ pc[i] = "routes" /\ pc'[i] = "write"
        /\ todo'[i] = activeSources[i] \cup {newId[i]}
        /\ UNCHANGED <<active, newId, activeSources, routesOn>>
    BY <1>11 DEF UpdateRoutes, MarkSources, TypeOK
  <2>2. QED
    BY <2>1
<1>7. ASSUME NEW i \in Importers, WriteRow(i) PROVE ActiveInv'
  <2>1. PICK k \in SourceIds :
          /\ NextRow(i, k)
          /\ k = newId[i] => /\ Obstacles(i) = {}
                             /\ \A j \in Others(i) : Raised(j) = {}
          /\ todo' = [todo EXCEPT ![i] = @ \ {k}]
    BY <1>7 DEF WriteRow
  <2>2. /\ UNCHANGED <<active, pc, newId, activeSources, routesOn>>
        /\ pc[i] = "write"
        /\ todo'[i] = todo[i] \ {k}
        /\ \A j \in Importers \ {i} : todo'[j] = todo[j]
    BY <1>7, <2>1 DEF WriteRow, NextRow, TypeOK
  <2>3. OneActiveSource' /\ LocksInv' /\ TodoInv'
    BY <2>2
  <2>4. CASE k = newId[i]
    BY <2>1, <2>2, <2>4 DEF Obstacles, Lowered, Locked, Others, Raised,
                            NewIdInv, Inserted, TypeOK
  <2>5. CASE k # newId[i]
    BY <2>1, <2>2, <2>5
  <2>6. QED
    BY <2>3, <2>4, <2>5
<1>8. ASSUME NEW i \in Importers, InsertFlights(i) PROVE ActiveInv'
  BY <1>8, <1>t DEF InsertFlights, TypeOK
<1>9. ASSUME NEW i \in Importers, Commits(i) PROVE ActiveInv'
  <2>1. /\ pc[i] = "commit" /\ pc'[i] \notin Holding
        /\ \A j \in Importers \ {i} :
             /\ pc'[j] = pc[j] /\ newId'[j] = newId[j]
             /\ activeSources'[j] = activeSources[j] /\ todo'[j] = todo[j]
             /\ routesOn'[j] = routesOn[j]
    BY <1>9 DEF Commits, CommitRows, LeaveSession, TypeOK
  <2>2. active' = {newId[i]}
    <3>1. active' = (active \ activeSources[i]) \cup {newId[i]}
      BY <1>9, CommittedFlags
    <3>2. QED
      BY <2>1, <3>1
  <2>3. \A j \in Importers \ {i} :
          /\ pc[j] \in Holding => activeSources[j] = {}
          /\ pc[j] \in Writing => newId[j] \in todo[j]
    BY <2>1
  <2>4. QED
    BY <2>1, <2>2, <2>3
<1>10. QED
  BY <1>1, <1>2, <1>3, <1>4, <1>5, <1>6, <1>7, <1>8, <1>9, <1>11, StepCases

-----------------------------------------------------------------------------
(* Results.                                                                *)

LEMMA InitInv == Init => Inv
<1> SUFFICES ASSUME Init PROVE Inv
  OBVIOUS
<1>1. TypeOK
  BY DEF Init, TypeOK, NewResult, Results, ErrorCodes, Activations
<1>2. QED
  BY <1>1 DEF Init, Inv, OneActiveSource, LocksInv, TodoInv, RaisedInv, NewIdInv,
              BatchInv, Holding, Writing, Inserted, InTransaction

\* The inductive invariant holds of every reachable state.
THEOREM Invariance == Spec => []Inv
<1>1. Inv /\ [Next]_vars => Inv'
  BY TypeStep, NewIdStep, ActiveStep DEF Inv, ActiveInv
<1>2. QED
  BY InitInv, <1>1, PTL DEF Spec

\* Every variable keeps its type, for any number of importers.
THEOREM TypeCorrect == Spec => []TypeOK
  BY Invariance, PTL DEF Inv

\* At most one source is active, however many imports overlap and fail.
THEOREM AtMostOneActive == Spec => []OneActiveSource
  BY Invariance, PTL DEF Inv

\* What a transaction about to commit has locked is exactly what is active: the
\* locked rows stay active until it commits, and, nothing being left to update,
\* no other row is.
LEMMA CommitReplaces == Inv => ReplacesWhatItLocked
<1> SUFFICES ASSUME Inv, NEW i \in Importers, pc[i] = "commit"
             PROVE activeSources[i] = active
  BY DEF ReplacesWhatItLocked
<1>1. activeSources[i] \subseteq active
  BY DEF Inv, LocksInv, Holding
<1>2. todo[i] = {}
  BY DEF Inv, TodoInv
<1>3. active \subseteq activeSources[i] \ todo[i]
  BY <1>2 DEF Inv, RaisedInv, Writing
<1>4. QED
  BY <1>1, <1>3

\* A transaction about to commit replaces exactly what it locked.
THEOREM NoLostActivation == Spec => []ReplacesWhatItLocked
  BY Invariance, CommitReplaces, PTL

\* The routes a transaction writes, statement by statement, and what the commit
\* makes of them.
LEMMA RoutesStep == Inv /\ RoutesInv /\ [Next]_vars => RoutesInv'
<1> SUFFICES ASSUME Inv, RoutesInv, [Next]_vars PROVE RoutesInv'
  OBVIOUS
<1>t. TypeOK
  BY DEF Inv
<1> USE DEF RoutesInv, Writing
<1>1. CASE UNCHANGED vars
  BY <1>1 DEF vars
<1>2. ASSUME NEW i \in Importers, Quits(i) PROVE RoutesInv'
  BY <1>2, <1>t DEF Quits, LeaveSession, TypeOK, Finished
<1>3. ASSUME NEW i \in Importers, Prepares(i) PROVE RoutesInv'
  BY <1>3, <1>t DEF Prepares, TypeOK, InTransaction, Inserted
<1>4. ASSUME NEW i \in Importers, InsertSource(i) PROVE RoutesInv'
  BY <1>4, <1>t DEF InsertSource, TypeOK
<1>5. ASSUME NEW i \in Importers, SelectActive(i) PROVE RoutesInv'
  BY <1>5, <1>t DEF SelectActive, TypeOK
<1>6. ASSUME NEW i \in Importers, LockActive(i) PROVE RoutesInv'
  BY <1>6, <1>t DEF LockActive, TypeOK
<1>7. ASSUME NEW i \in Importers, UpdateRoutes(i) PROVE RoutesInv'
  BY <1>7, <1>t DEF UpdateRoutes, MarkSources, TypeOK
<1>8. ASSUME NEW i \in Importers, WriteRow(i) PROVE RoutesInv'
  BY <1>8, <1>t DEF WriteRow
<1>9. ASSUME NEW i \in Importers, InsertFlights(i) PROVE RoutesInv'
  BY <1>9, <1>t DEF InsertFlights, TypeOK
<1>10. ASSUME NEW i \in Importers, Commits(i) PROVE RoutesInv'
  <2>1. liveRoutes' = (liveRoutes \ activeSources[i]) \cup {newId[i]}
    BY <1>10 DEF Commits, CommitRows, CommitFlags, Inv, TodoInv
  <2>2. liveRoutes' = active'
    BY <1>10, <2>1, CommittedFlags
  <2>3. \A j \in Importers : pc'[j] \in Writing =>
            /\ pc'[j] = pc[j] /\ newId'[j] = newId[j]
            /\ activeSources'[j] = activeSources[j]
            /\ routesOff'[j] = routesOff[j] /\ routesOn'[j] = routesOn[j]
    BY <1>10, <1>t DEF Commits, LeaveSession, TypeOK
  <2>4. QED
    BY <2>2, <2>3
<1>11. QED
  BY <1>1, <1>2, <1>3, <1>4, <1>5, <1>6, <1>7, <1>8, <1>9, <1>10, StepCases

\* The routes in force are those of the active source, although they are
\* switched by statements of their own; and a transaction about to commit
\* leaves none but its own, because the rows it locked are still the active
\* ones and the routes it turned off are theirs.
THEOREM RoutesInForce == Spec => []RoutesFollowSource
<1>1. Init => RoutesInv
  BY DEF Init, RoutesInv, Writing
<1>2. Inv /\ RoutesInv => RoutesFollowSource
  <2> SUFFICES ASSUME Inv, RoutesInv PROVE RoutesFollowSource
    OBVIOUS
  <2>1. liveRoutes = active
    BY DEF RoutesInv
  <2>2. ASSUME NEW i \in Importers, pc[i] = "commit"
        PROVE (active \ routesOff[i]) \cup routesOn[i] = {newId[i]}
    <3>1. routesOff[i] = active
      BY <2>2, CommitReplaces DEF RoutesInv, Writing, ReplacesWhatItLocked
    <3>2. routesOn[i] = {newId[i]}
      BY <2>2 DEF Inv, TodoInv
    <3>3. QED
      BY <3>1, <3>2
  <2>3. QED
    BY <2>1, <2>2 DEF RoutesFollowSource
<1>3. QED
  BY <1>1, <1>2, RoutesStep, Invariance, PTL DEF Spec

\* A schedule in force is only ever replaced.
THEOREM ScheduleStays == Spec => NeverWithoutSchedule
<1>1. Inv /\ [Next]_vars => [active # {} => active' # {}]_vars
  <2> SUFFICES ASSUME Inv, [Next]_vars, active # {} PROVE active' # {}
    OBVIOUS
  <2>1. UNCHANGED active \/ \E i \in Importers : Commits(i)
    BY StepCases DEF vars, Quits, Prepares, InsertSource, SelectActive, LockActive,
                     UpdateRoutes, WriteRow, InsertFlights
  <2>2. QED
    BY <2>1, CommittedFlags
<1>2. QED
  BY Invariance, <1>1, PTL DEF Spec, NeverWithoutSchedule

-----------------------------------------------------------------------------
(* The unique indexes of data_sources: an INSERT fails on a stored row and *)
(* waits for a staged one, so no two rows that clash are ever both there.  *)

LEMMA ClashesSymmetric == \A a, b : Clashes(a, b) <=> Clashes(b, a)
  BY DEF Clashes, SameIdentity, SameChecksum

LEMMA DistinctStep == Inv /\ DistinctInv /\ [Next]_vars => DistinctInv'
<1> SUFFICES ASSUME Inv, DistinctInv, [Next]_vars PROVE DistinctInv'
  OBVIOUS
<1>t. TypeOK'
  BY TypeStep
<1> USE DEF DistinctInv, SourcesDistinct, Staged, Inserted
<1>1. ASSUME UNCHANGED <<stored, contentOf>>,
             \A j \in Importers : pc'[j] \in Inserted =>
                 pc[j] \in Inserted /\ newId'[j] = newId[j]
      PROVE  DistinctInv'
  BY <1>1
<1>2. CASE UNCHANGED vars
  BY <1>1, <1>2 DEF vars
<1>3. ASSUME NEW i \in Importers,
             \/ Quits(i) \/ Prepares(i) \/ SelectActive(i) \/ LockActive(i)
             \/ UpdateRoutes(i) \/ WriteRow(i) \/ InsertFlights(i)
      PROVE  DistinctInv'
  BY <1>1, <1>3 DEF Quits, Prepares, SelectActive, LockActive, UpdateRoutes,
                    MarkSources, WriteRow, InsertFlights, LeaveSession, Inv, TypeOK, InTransaction, Finished
<1>4. ASSUME NEW i \in Importers, InsertSource(i) PROVE DistinctInv'
  <2>1. PICK k \in SourceIds : /\ contentOf[k] = NoBatch
                               /\ contentOf' = [contentOf EXCEPT ![k] = batch[i]]
                               /\ newId' = [newId EXCEPT ![i] = k]
    BY <1>4 DEF InsertSource
  <2>2. /\ \A m \in stored : contentOf'[m] = contentOf[m]
        /\ contentOf'[k] = batch[i]
    BY <2>1, BatchesAssumption DEF Inv, BatchInv, TypeOK
  <2>3. \A j \in Importers \ {i} : \A m \in Staged(j) :
          m \in Staged(j)' /\ contentOf'[m] = contentOf[m]
    BY <1>4, <2>1, BatchesAssumption
       DEF InsertSource, Inv, NewIdInv, BatchInv, TypeOK, InTransaction
  <2>4. \A j \in Importers \ {i} : Staged(j)' = Staged(j)
    BY <1>4, <2>1 DEF InsertSource, Inv, TypeOK
  <2>5. Staged(i)' = {k}
    BY <1>4, <2>1 DEF InsertSource, Inv, TypeOK
  <2>6. /\ \A m \in stored : ~Clashes(contentOf[m], batch[i])
        /\ \A j \in Importers \ {i} : \A m \in Staged(j) :
             ~Clashes(contentOf[m], batch[i])
        /\ stored' = stored
    BY <1>4 DEF InsertSource, Others
  <2>7. SourcesDistinct'
    BY <2>2, <2>6
  <2> HIDE DEF Staged, SourcesDistinct, Inserted
  <2>8. \A j \in Importers : \A l \in Staged(j)' :
          \A m \in stored' : ~Clashes(contentOf'[l], contentOf'[m])
    BY <2>2, <2>3, <2>4, <2>5, <2>6, ClashesSymmetric
  <2>9. \A j, n \in Importers : j # n =>
          \A l \in Staged(j)' : \A m \in Staged(n)' :
             ~Clashes(contentOf'[l], contentOf'[m])
    BY <2>2, <2>3, <2>4, <2>5, <2>6, ClashesSymmetric
  <2>10. QED
    BY <2>7, <2>8, <2>9
<1>5. ASSUME NEW i \in Importers, Commits(i) PROVE DistinctInv'
  <2>1. /\ newId[i] \in Staged(i)
        /\ stored' = stored \cup {newId[i]}
        /\ contentOf' = contentOf
        /\ Staged(i)' = {}
        /\ \A j \in Importers \ {i} : Staged(j)' = Staged(j)
    BY <1>5, CommittedFlags DEF Commits, CommitRows, LeaveSession, Inv, TypeOK
  <2> HIDE DEF Staged, Inserted
  <2>2. QED
    BY <2>1, ClashesSymmetric
<1>6. QED
  BY <1>2, <1>3, <1>4, <1>5, StepCases

\* No two stored sources share an identity or a checksum.
THEOREM NoDuplicates == Spec => []SourcesDistinct
<1>1. Init => DistinctInv
  BY DEF Init, DistinctInv, SourcesDistinct, Staged
<1>2. DistinctInv => SourcesDistinct
  BY DEF DistinctInv
<1>3. QED
  BY <1>1, <1>2, DistinctStep, Invariance, PTL DEF Spec

-----------------------------------------------------------------------------
(* Refinement: a commit is an activation, everything else is invisible.    *)

Catalog == {contentOf[k] : k \in stored}
Current == IF active = {} THEN NoBatch ELSE contentOf[CHOOSE k \in active : TRUE]

LEMMA InitRefines == Init => Schedule!Init
  BY DEF Init, Schedule!Init

LEMMA StepRefines ==
    Inv /\ DistinctInv /\ [Next]_vars => [Schedule!Next]_(Schedule!vars)
<1> SUFFICES ASSUME Inv, DistinctInv, [Next]_vars
             PROVE  [\E b \in Batches : Schedule!Activate(b)]_<<Catalog, Current>>
  BY DEF Schedule!Next, Schedule!vars, Catalog, Current
<1>1. ASSUME UNCHANGED <<stored, active>>,
             \A k \in stored : contentOf'[k] = contentOf[k]
      PROVE  UNCHANGED <<Catalog, Current>>
  <2>1. UNCHANGED Catalog
    BY <1>1 DEF Catalog
  <2>2. active # {} => (CHOOSE k \in active : TRUE) \in stored
    BY DEF Inv, TypeOK
  <2>3. UNCHANGED Current
    BY <1>1, <2>2 DEF Current
  <2>4. QED
    BY <2>1, <2>3
<1>2. CASE UNCHANGED vars
  BY <1>1, <1>2 DEF vars
<1>3. ASSUME NEW i \in Importers,
             \/ Quits(i) \/ Prepares(i) \/ SelectActive(i) \/ LockActive(i)
             \/ UpdateRoutes(i) \/ WriteRow(i) \/ InsertFlights(i)
      PROVE  UNCHANGED <<Catalog, Current>>
  BY <1>1, <1>3 DEF Quits, Prepares, SelectActive, LockActive, UpdateRoutes,
                    WriteRow, InsertFlights
<1>4. ASSUME NEW i \in Importers, InsertSource(i)
      PROVE  UNCHANGED <<Catalog, Current>>
  <2>1. PICK k \in SourceIds : /\ contentOf[k] = NoBatch
                               /\ contentOf' = [contentOf EXCEPT ![k] = batch[i]]
    BY <1>4 DEF InsertSource
  <2>2. \A m \in stored : contentOf'[m] = contentOf[m]
    BY <2>1, BatchesAssumption DEF Inv, BatchInv, TypeOK
  <2>3. QED
    BY <1>1, <1>4, <2>2 DEF InsertSource
<1>5. ASSUME NEW i \in Importers, Commits(i)
      PROVE  \E b \in Batches : Schedule!Activate(b)
  <2>1. /\ batch[i] \in Batches
        /\ contentOf' = contentOf
        /\ contentOf[newId[i]] = batch[i]
        /\ stored' = stored \cup {newId[i]}
        /\ newId[i] \in Staged(i)
    BY <1>5, CommittedFlags DEF Commits, CommitRows, Inv, NewIdInv, BatchInv,
                InTransaction, Inserted, Staged
  <2>2. \A c \in Catalog : ~Clashes(batch[i], c)
    BY <2>1 DEF DistinctInv, Catalog
  <2>3. Catalog' = Catalog \cup {batch[i]}
    BY <2>1 DEF Catalog
  <2>4. active' = {newId[i]}
    <3>1. active' = (active \ activeSources[i]) \cup {newId[i]}
      BY <1>5, CommittedFlags
    <3>2. active \subseteq activeSources[i]
      BY <1>5 DEF Commits, CommitRows, Inv, TodoInv, RaisedInv, Writing
    <3>3. QED
      BY <3>1, <3>2
  <2>5. Current' = batch[i]
    BY <2>1, <2>4 DEF Current
  <2>6. QED
    BY <2>1, <2>2, <2>3, <2>5 DEF Schedule!Activate, Catalog, Current
<1>6. QED
  BY <1>2, <1>3, <1>4, <1>5, StepCases

\* Readers of the store see whole activations, one after the other.
THEOREM Refinement == Spec => ImplementsActiveSchedule
<1>1. Init => DistinctInv
  BY DEF Init, DistinctInv, SourcesDistinct, Staged
<1>2. QED
  BY <1>1, InitRefines, StepRefines, DistinctStep, Invariance, PTL
     DEF Spec, ImplementsActiveSchedule, Schedule!Spec
-----------------------------------------------------------------------------
(* What a call answers.  A call keeps the id it has announced, and what it *)
(* found or committed stays: no import deletes or rewrites a stored row.   *)

Backed(i) ==
    /\ result[i].source \in stored
    /\ contentOf[result[i].source].checksum = batch[i].checksum

AnswerOf(i) ==
    /\ pc[i] = "byChecksum" => found[i] \in stored \cup {NoId}
    /\ pc[i] \in {"lock", "routes", "write", "commit"} => result[i].source = newId[i]
    /\ pc[i] \in {"write", "commit", "invalidate"} => result[i].activation = "activated"
    /\ pc[i] = "invalidate" => Backed(i)
    /\ (pc[i] = "done" /\ result[i].success /\ result[i].code = "none") =>
          /\ result[i].activation \in {"activated", "no_op_duplicate"} => Backed(i)
          /\ result[i].activation = "validated" => ~activate[i]

AnswerInv == \A i \in Importers : AnswerOf(i)

\* Stored rows stay as they are.
LEMMA StoredStays ==
    Inv /\ [Next]_vars => /\ stored \subseteq stored'
                         /\ \A k \in stored : contentOf'[k] = contentOf[k]
<1> SUFFICES ASSUME Inv, [Next]_vars
             PROVE  /\ stored \subseteq stored'
                    /\ \A k \in stored : contentOf'[k] = contentOf[k]
  OBVIOUS
<1>1. CASE UNCHANGED vars
  BY <1>1 DEF vars
<1>2. ASSUME NEW i \in Importers, InsertSource(i)
      PROVE  stored' = stored /\ \A k \in stored : contentOf'[k] = contentOf[k]
  BY <1>2, BatchesAssumption DEF InsertSource, Inv, BatchInv, TypeOK
<1>3. ASSUME NEW i \in Importers, Commits(i)
      PROVE  stored \subseteq stored' /\ contentOf' = contentOf
  BY <1>3 DEF Commits, CommitRows
<1>4. ASSUME NEW i \in Importers,
             \/ Quits(i) \/ Prepares(i) \/ SelectActive(i) \/ LockActive(i)
             \/ UpdateRoutes(i) \/ WriteRow(i) \/ InsertFlights(i)
      PROVE  stored' = stored /\ contentOf' = contentOf
  BY <1>4 DEF Quits, Prepares, SelectActive, LockActive, UpdateRoutes, WriteRow,
              InsertFlights
<1>5. QED
  BY <1>1, <1>2, <1>3, <1>4, StepCases

\* A call that fails, or is turned down, answers with an error.
LEMMA ErrorAnswers ==
    ASSUME TypeOK, NEW i \in Importers, NEW r \in Results, Return(i, r), r.code # "none"
    PROVE  AnswerOf(i)'
  BY DEF Return, AnswerOf, TypeOK

LEMMA AbortAnswers ==
    ASSUME TypeOK, NEW i \in Importers, Abort(i)
    PROVE  AnswerOf(i)'
<1>1. result[i] \in Results
  BY DEF TypeOK
<1>2. [result[i] EXCEPT !.code = "import_failed", !.activation = "failed"] \in Results
  BY <1>1, ResultUpdates DEF ErrorCodes, Activations
<1>3. [result[i] EXCEPT !.code = "import_failed", !.activation = "failed"].code # "none"
  BY <1>1 DEF Results
<1>4. QED
  BY <1>2, <1>3, ErrorAnswers DEF Abort

LEMMA RejectAnswers ==
    ASSUME TypeOK, NEW i \in Importers, NEW c \in ErrorCodes \ {"none"}, Reject(i, c)
    PROVE  AnswerOf(i)'
<1>1. result[i] \in Results
  BY DEF TypeOK
<1>2. [result[i] EXCEPT !.code = c] \in Results
  BY <1>1, ResultUpdates
<1>3. [result[i] EXCEPT !.code = c].code # "none"
  BY <1>1 DEF Results
<1>4. QED
  BY <1>2, <1>3, ErrorAnswers DEF Reject

\* A step of one call leaves the others' answers as they were.
LEMMA OthersAnswers ==
    ASSUME Inv, [Next]_vars, AnswerInv, NEW i \in Importers, Run(i) \/ Fault(i),
           NEW j \in Importers, j # i
    PROVE  AnswerOf(j)'
<1>1. /\ pc'[j] = pc[j] /\ result'[j] = result[j] /\ batch'[j] = batch[j]
      /\ activate'[j] = activate[j] /\ found'[j] = found[j] /\ newId'[j] = newId[j]
  <2> USE DEF Inv, TypeOK
  <2>1. ASSUME NEW r, Return(i, r)
        PROVE  /\ pc'[j] = pc[j] /\ result'[j] = result[j]
               /\ found'[j] = found[j] /\ newId'[j] = newId[j]
    BY <2>1 DEF Return, LeaveSession
  <2>2. CASE Fetch(i)
    BY <2>1, <2>2 DEF Fetch, Reject
  <2>3. ASSUME Abort(i) PROVE  /\ pc'[j] = pc[j] /\ result'[j] = result[j] /\ batch'[j] = batch[j]
               /\ activate'[j] = activate[j] /\ found'[j] = found[j]
               /\ newId'[j] = newId[j]
    BY <2>1, <2>3 DEF Abort
  <2>4. CASE Validate(i)
    BY <2>1, <2>4 DEF Validate, Reject
  <2>5. CASE LookupVersion(i)
    BY <2>5 DEF LookupVersion
  <2>6. CASE LookupChecksum(i)
    BY <2>1, <2>6 DEF LookupChecksum, Reject
  <2>7. CASE InsertSource(i)
    BY <2>7 DEF InsertSource
  <2>8. CASE SelectActive(i)
    BY <2>8 DEF SelectActive
  <2>9. CASE LockActive(i) \/ UpdateRoutes(i)
    BY <2>9 DEF LockActive, UpdateRoutes, MarkSources
  <2>10. CASE WriteRow(i) \/ InsertFlights(i)
    BY <2>10 DEF WriteRow, InsertFlights
  <2>11. CASE Commit(i) \/ CommitUnacknowledged(i)
    BY <2>1, <2>11 DEF Commit, CommitUnacknowledged, CommitRows, LeaveSession
  <2>12. CASE Invalidate(i)
    BY <2>1, <2>12 DEF Invalidate
  <2>13. CASE Crash(i)
    BY <2>13 DEF Crash, LeaveSession
  <2>14. QED
    BY <2>2, <2>3, <2>4, <2>5, <2>6, <2>7, <2>8, <2>9, <2>10, <2>11, <2>12, <2>13
       DEF Run, Fault, FetchFails, InsertSourceConflicts, WriteRowConflicts,
           InsertFlightsConflicts, DatabaseFails
<1>2. QED
  BY <1>1, StoredStays DEF AnswerInv, AnswerOf, Backed

LEMMA AnswerStep ==
    ASSUME Inv, [Next]_vars, AnswerInv, NEW i \in Importers, Run(i) \/ Fault(i)
    PROVE  AnswerOf(i)'
<1> USE DEF AnswerOf
<1>0. result[i] \in Results /\ AnswerOf(i) /\ TypeOK
  BY DEF Inv, TypeOK, AnswerInv
<1>1. CASE Fetch(i)
  <2>1. CASE Reject(i, "no_valid_records")
    BY <1>0, <2>1, RejectAnswers DEF ErrorCodes
  <2>2. CASE pc' = [pc EXCEPT ![i] = "validate"]
    BY <1>0, <2>2 DEF TypeOK
  <2>3. QED
    BY <1>1, <2>1, <2>2 DEF Fetch
<1>2. CASE Abort(i)
  BY <1>0, <1>2, AbortAnswers
<1>3. CASE Validate(i)
  <2>1. CASE Reject(i, "no_valid_records") \/ Reject(i, "quality_gate_failed")
    BY <1>0, <2>1, RejectAnswers DEF ErrorCodes
  <2>2. CASE pc' = [pc EXCEPT ![i] = "byVersion"]
    BY <1>0, <2>2 DEF TypeOK
  <2>3. CASE /\ ~activate[i]
             /\ Return(i, [result[i] EXCEPT !.success = TRUE,
                                            !.activation = "validated"])
    BY <1>0, <1>3, <2>3 DEF Validate, Return, TypeOK, Results
  <2>4. QED
    BY <1>3, <2>1, <2>2, <2>3 DEF Validate
<1>4. CASE LookupVersion(i)
  <2>1. Lookup(OfSameIdentity(i)) \in stored \cup {NoId}
    BY DEF Lookup, OfSameIdentity
  <2>2. QED
    BY <1>0, <1>4, <2>1 DEF LookupVersion, TypeOK
<1>5. CASE LookupChecksum(i)
  <2> DEFINE existing == IF found[i] # NoId THEN found[i] ELSE Lookup(OfSameChecksum(i))
  <2>1. existing \in stored \cup {NoId}
    BY <1>0, <1>5 DEF LookupChecksum, Lookup, OfSameChecksum
  <2>2. CASE pc' = [pc EXCEPT ![i] = "insert"]
    BY <1>0, <2>2 DEF TypeOK
  <2>3. CASE Reject(i, "duplicate_source_version")
    BY <1>0, <2>3, RejectAnswers DEF ErrorCodes
  <2>4. CASE /\ existing # NoId
             /\ SameChecksum(contentOf[existing], batch[i])
             /\ Return(i, [result[i] EXCEPT !.success = TRUE,
                                            !.activation = "no_op_duplicate",
                                            !.source = existing])
    <3> HIDE DEF existing
    <3>1. UNCHANGED <<dbVars, batch>>
      BY <1>5 DEF LookupChecksum
    <3>2. /\ pc'[i] = "done"
          /\ result'[i].source = existing
          /\ result'[i].activation = "no_op_duplicate"
      BY <1>0, <2>4 DEF Return, TypeOK, Results
    <3>3. QED
      BY <2>1, <2>4, <3>1, <3>2 DEF Backed, SameChecksum
  <2>5. QED
    BY <1>5, <2>2, <2>3, <2>4 DEF LookupChecksum
<1>6. CASE InsertSource(i)
  BY <1>0, <1>6 DEF InsertSource, TypeOK
<1>7. CASE SelectActive(i)
  BY <1>0, <1>7 DEF SelectActive, TypeOK, Results
<1>8. CASE LockActive(i)
  BY <1>0, <1>8 DEF LockActive, TypeOK
<1>16. CASE UpdateRoutes(i)
  BY <1>0, <1>16 DEF UpdateRoutes, MarkSources, TypeOK, Results
<1>9. CASE WriteRow(i)
  BY <1>0, <1>9 DEF WriteRow, NextRow
<1>10. CASE InsertFlights(i)
  BY <1>0, <1>10 DEF InsertFlights, TypeOK
<1>11. CASE Commit(i)
  <2>1. /\ newId[i] \in stored'
        /\ contentOf'[newId[i]] = batch'[i]
    BY <1>11 DEF Commit, CommitRows, Staged, Inv, NewIdInv, Inserted
  <2>2. /\ pc'[i] = "invalidate" /\ result' = result
        /\ result[i].source = newId[i] /\ result[i].activation = "activated"
    BY <1>0, <1>11 DEF Commit, CommitRows, TypeOK
  <2>3. QED
    BY <2>1, <2>2 DEF Backed
<1>12. CASE CommitUnacknowledged(i)
  <2>1. [result[i] EXCEPT !.code = "import_failed", !.activation = "failed"] \in Results
    BY <1>0, ResultUpdates DEF ErrorCodes, Activations
  <2>2. [result[i] EXCEPT !.code = "import_failed", !.activation = "failed"].code # "none"
    BY <1>0 DEF Results
  <2>3. QED
    BY <1>0, <1>12, <2>1, <2>2, ErrorAnswers DEF CommitUnacknowledged
<1>13. CASE Invalidate(i)
  BY <1>0, <1>13 DEF Invalidate, Return, TypeOK, Backed
<1>14. CASE Crash(i)
  BY <1>0, <1>14 DEF Crash, TypeOK
<1>15. QED
  BY <1>1, <1>2, <1>3, <1>4, <1>5, <1>6, <1>7, <1>8, <1>9, <1>10, <1>11, <1>12, <1>13, <1>14, <1>16
     DEF Run, Fault, FetchFails, InsertSourceConflicts, WriteRowConflicts,
         InsertFlightsConflicts, DatabaseFails

LEMMA AnswersHold == Spec => []AnswerInv
<1>1. Init => AnswerInv
  BY DEF Init, AnswerInv, AnswerOf
<1>2. Inv /\ AnswerInv /\ [Next]_vars => AnswerInv'
  <2> SUFFICES ASSUME Inv, AnswerInv, [Next]_vars PROVE AnswerInv'
    OBVIOUS
  <2>1. CASE UNCHANGED vars
    BY <2>1 DEF vars, AnswerInv, AnswerOf, Backed
  <2>2. ASSUME NEW i \in Importers, Run(i) \/ Fault(i) PROVE AnswerInv'
    BY <2>2, OthersAnswers, AnswerStep DEF AnswerInv
  <2>3. QED
    BY <2>1, <2>2 DEF Next, Terminating
<1>3. QED
  BY <1>1, <1>2, Invariance, PTL DEF Spec

\* A call that reports an activation or a duplicate has it committed, whatever
\* the other calls do, and whatever fails.
THEOREM SuccessStays == Spec => []SuccessIsBacked
<1>1. AnswerInv => SuccessIsBacked
  BY DEF AnswerInv, AnswerOf, Backed, SuccessIsBacked
<1>2. QED
  BY <1>1, AnswersHold, PTL

-----------------------------------------------------------------------------
(* The files.  What the gate says of a batch stays with its importer until *)
(* the flights are in the tables.                                          *)

GateInv ==
    /\ \A i \in Importers :
        /\ pc[i] \in InTransaction => batch[i].quality # "noneNormalized"
        /\ pc[i] \in InTransaction \ {"validate"} =>
               batch[i].quality \in {"good", "unstorable"}
        /\ pc[i] = "commit" => batch[i].quality = "good"
    /\ \A k \in stored : contentOf[k].quality = "good"

LEMMA GateStep == Inv /\ GateInv /\ [Next]_vars => GateInv'
<1> SUFFICES ASSUME Inv, GateInv, [Next]_vars PROVE GateInv'
  OBVIOUS
<1> DEFINE Gated(i) ==
        /\ pc[i] \in InTransaction => batch[i].quality # "noneNormalized"
        /\ pc[i] \in InTransaction \ {"validate"} =>
               batch[i].quality \in {"good", "unstorable"}
        /\ pc[i] = "commit" => batch[i].quality = "good"
<1>1. CASE UNCHANGED vars
  BY <1>1 DEF vars, GateInv
<1>2. ASSUME NEW i \in Importers, Run(i) \/ Fault(i)
      PROVE  GateInv'
  <2> USE DEF Inv, TypeOK
  <2>1. \A j \in Importers \ {i} : pc'[j] = pc[j] /\ batch'[j] = batch[j]
    BY <1>2 DEF Run, Fault, Fetch, Validate, LookupVersion, LookupChecksum,
        InsertSource, InsertSourceConflicts, SelectActive, LockActive, UpdateRoutes,
        MarkSources, WriteRow, WriteRowConflicts, InsertFlights, InsertFlightsConflicts, Commit, CommitRows,
        Invalidate, FetchFails, DatabaseFails, CommitUnacknowledged, Crash, Abort,
        Reject, Return
  <2>2. Gated(i)'
    <3>1. Gated(i) /\ (pc[i] \in InTransaction => batch[i].quality \in Qualities)
      BY BatchesAssumption DEF GateInv, BatchInv
    <3>2. ASSUME pc'[i] \notin InTransaction PROVE Gated(i)'
      BY <3>2 DEF InTransaction
    <3>3. CASE Fetch(i)
      BY <3>2, <3>3 DEF Fetch, Reject, Return, InTransaction
    <3>4. CASE Validate(i)
      BY <3>1, <3>2, <3>4 DEF Validate, Reject, Return, InTransaction, Qualities
    <3>5. CASE LookupVersion(i) \/ LookupChecksum(i) \/ InsertSource(i) \/ SelectActive(i)
      BY <3>1, <3>2, <3>5 DEF LookupVersion, LookupChecksum, InsertSource, SelectActive,
          Reject, Return, InTransaction
    <3>6. CASE LockActive(i) \/ UpdateRoutes(i) \/ WriteRow(i)
      BY <3>1, <3>6 DEF LockActive, UpdateRoutes, MarkSources, WriteRow, NextRow,
          InTransaction
    <3>7. CASE InsertFlights(i)
      BY <3>1, <3>7 DEF InsertFlights, InTransaction
    <3>8. ASSUME pc'[i] \in Finished \cup {"invalidate"} PROVE Gated(i)'
      BY <3>2, <3>8 DEF InTransaction, Finished
    <3>9. QED
      BY <1>2, <3>3, <3>4, <3>5, <3>6, <3>7, <3>8
         DEF Run, Fault, FetchFails, InsertSourceConflicts, WriteRowConflicts,
             InsertFlightsConflicts, Commit, CommitRows, Invalidate, DatabaseFails,
             CommitUnacknowledged, Crash, Abort, Return, Finished
  <2>3. \A k \in stored' \ stored : contentOf'[k].quality = "good"
    <3>1. CASE Commit(i) \/ CommitUnacknowledged(i)
      BY <3>1 DEF Commit, CommitUnacknowledged, CommitRows, Staged, GateInv, NewIdInv,
                  Inserted
    <3>2. CASE stored' = stored
      BY <3>2
    <3>3. QED
      BY <1>2, <3>1, <3>2
         DEF Run, Fault, Fetch, Validate, LookupVersion, LookupChecksum,
             InsertSource, InsertSourceConflicts, SelectActive, LockActive, UpdateRoutes,
             WriteRow, WriteRowConflicts, InsertFlights, InsertFlightsConflicts,
             Invalidate, FetchFails, DatabaseFails, Crash, Abort
  <2>4. \A k \in stored : contentOf'[k].quality = "good"
    BY StoredStays DEF GateInv
  <2>5. \A j \in Importers : Gated(j)'
    BY <2>1, <2>2 DEF GateInv
  <2>6. QED
    BY <2>3, <2>4, <2>5 DEF GateInv
<1>3. QED
  BY <1>1, <1>2 DEF Next, Terminating

LEMMA GateHolds == Spec => []GateInv
<1>1. Init => GateInv
  BY DEF Init, GateInv, InTransaction
<1>2. QED
  BY <1>1, GateStep, Invariance, PTL DEF Spec

-----------------------------------------------------------------------------
(* The records of a file.                                                  *)

\* Of every identity there is a first record, at the least of its places.
LEMMA HasFirst ==
    ASSUME NEW records, DOMAIN records \subseteq Nat, NEW i \in DOMAIN records
    PROVE  \E k \in DOMAIN Deduplicate(records) :
               Identity(records[k]) = Identity(records[i])
<1> DEFINE Same == {j \in DOMAIN records : Identity(records[j]) = Identity(records[i])}
<1>1. Same \in SUBSET Nat /\ Same # {}
  OBVIOUS
<1> DEFINE R == {ss \in Nat \X Nat : ss[1] < ss[2]}
<1>2. IsWellFoundedOn(R, Nat)
  BY NatLessThanWellFounded DEF OpToRel
<1>3. PICK k \in Same : \A j \in Same : ~ (<<j, k>> \in R)
  <2> HIDE DEF Same, R
  <2> QED BY <1>1, <1>2, WFMin
<1>4. FirstOfIdentity(records, k)
  BY <1>1, <1>3 DEF FirstOfIdentity
<1>5. QED
  BY <1>4 DEF Deduplicate

\* And only one.
LEMMA OneFirst ==
    ASSUME NEW records, DOMAIN records \subseteq Nat,
           NEW i \in DOMAIN Deduplicate(records), NEW j \in DOMAIN Deduplicate(records),
           Identity(records[i]) = Identity(records[j])
    PROVE  i = j
  BY DEF Deduplicate, FirstOfIdentity

LEMMA AcceptedTypes ==
    ASSUME NEW f \in Files
    PROVE  LET records == Accepted(RowsOf[f])
           IN /\ DOMAIN records \subseteq DOMAIN RowsOf[f]
              /\ DOMAIN records \subseteq Nat
              /\ \A i \in DOMAIN records : /\ records[i] = Normalize(RowsOf[f][i])
                                           /\ Acceptable(records[i])
<1>1. DOMAIN RowsOf[f] \subseteq Nat
  BY FilesAssumption
<1>2. QED
  BY <1>1 DEF Accepted, Normalized, Read

\* Records of one identity that do not contradict each other are equal.
LEMMA IdentityAndPayload ==
    \A a, b : Identity(Normalize(a)) = Identity(Normalize(b))
              /\ Payload(Normalize(a)) = Payload(Normalize(b))
              => Normalize(a) = Normalize(b)
  BY DEF Identity, Payload, Normalize

\* What deduplication drops is in what it keeps, unless there is a contradiction.
LEMMA DropsEqualsOnly ==
    ASSUME NEW f \in Files, ~Contradictory(Accepted(RowsOf[f]))
    PROVE  Range(Accepted(RowsOf[f])) = Range(Flights(f))
<1> DEFINE records == Accepted(RowsOf[f])
           flights == Deduplicate(records)
<1>1. \A i \in DOMAIN flights : i \in DOMAIN records /\ flights[i] = records[i]
  BY DEF Deduplicate
<1>2. ASSUME NEW i \in DOMAIN records
      PROVE  \E k \in DOMAIN flights : flights[k] = records[i]
  <2>1. PICK k \in DOMAIN flights : Identity(records[k]) = Identity(records[i])
    BY AcceptedTypes, HasFirst
  <2>2. Payload(records[k]) = Payload(records[i])
    BY <1>1, <2>1 DEF Contradictory, Contradict
  <2>3. records[k] = records[i]
    BY <1>1, <2>1, <2>2, AcceptedTypes, IdentityAndPayload
  <2>4. QED
    BY <1>1, <2>3
<1>3. QED
  <2> HIDE DEF records, flights
  <2>1. Range(records) = Range(flights)
    BY <1>1, <1>2 DEF Range
  <2>2. QED
    BY <2>1 DEF records, flights, Flights

\* Each flight of a deduplicated list counts once, so that the set of the flights
\* determines the checksum.
LEMMA CountsOnce ==
    ASSUME NEW records, DOMAIN records \subseteq Nat
    PROVE  Canonical(Deduplicate(records)) = [r \in Range(Deduplicate(records)) |-> 1]
<1> DEFINE flights == Deduplicate(records)
<1>1. ASSUME NEW r \in Range(flights)
      PROVE  Cardinality({i \in DOMAIN flights : flights[i] = r}) = 1
  <2>1. PICK i \in DOMAIN flights : flights[i] = r
    BY DEF Range
  <2>2. ASSUME NEW j \in DOMAIN flights, flights[j] = r
        PROVE  j = i
    BY <2>1, <2>2, OneFirst DEF Deduplicate
  <2>3. {j \in DOMAIN flights : flights[j] = r} = {i}
    BY <2>1, <2>2
  <2>4. QED
    BY <2>3, FS_Singleton
<1>2. QED
  BY <1>1 DEF Canonical

\* Two files have the same checksum if and only if they have the same flights,
\* in whatever order, case and number their rows come.
THEOREM ChecksumIsContent ==
    ASSUME NEW f \in Files, NEW g \in Files
    PROVE  Checksum(f) = Checksum(g) <=> Range(Flights(f)) = Range(Flights(g))
<1>1. \A h \in Files : Canonical(Flights(h)) = [r \in Range(Flights(h)) |-> 1]
  BY AcceptedTypes, CountsOnce DEF Flights
<1>2. ASSUME Range(Flights(f)) = Range(Flights(g)) PROVE Checksum(f) = Checksum(g)
  <2>1. Canonical(Flights(f)) = Canonical(Flights(g))
    BY <1>1, <1>2
  <2>2. QED
    BY <2>1 DEF Checksum
<1>3. ASSUME Checksum(f) = Checksum(g) PROVE Range(Flights(f)) = Range(Flights(g))
  <2>1. /\ Canonical(Flights(Checksum(f))) = Canonical(Flights(f))
        /\ Canonical(Flights(Checksum(g))) = Canonical(Flights(g))
    BY DEF Checksum
  <2>2. Canonical(Flights(f)) = Canonical(Flights(g))
    BY <1>3, <2>1
  <2>3. DOMAIN [r \in Range(Flights(f)) |-> 1] = DOMAIN [r \in Range(Flights(g)) |-> 1]
    BY <1>1, <2>2
  <2>4. QED
    BY <2>3
<1>4. QED
  BY <1>2, <1>3

\* What a verdict of "good" means.
LEMMA GoodFile ==
    ASSUME NEW f \in Files, Verdict(RowsOf[f]) = "good"
    PROVE  /\ ~Contradictory(Accepted(RowsOf[f]))
           /\ Storable(Flights(f))
  BY DEF Verdict, Flights

LEMMA StoredFile ==
    ASSUME Inv, NEW k \in stored
    PROVE  LET b == contentOf[k]
           IN /\ b.file \in Files
              /\ b.checksum = Checksum(b.file) /\ b.quality = Verdict(RowsOf[b.file])
  BY BatchesAreDatasets DEF Inv, BatchInv, Datasets, Dataset

\* No schedule is stored twice, whatever the files' order of rows, their upper
\* and lower case, their repetitions and the rows rejected in one only.
THEOREM StoredOnce == Spec => []SameScheduleOnce
<1>1. Inv /\ SourcesDistinct => SameScheduleOnce
  <2> SUFFICES ASSUME Inv, SourcesDistinct, NEW k \in stored, NEW m \in stored,
                      k # m, FlightsOf(k) = FlightsOf(m)
               PROVE  FALSE
    BY DEF SameScheduleOnce
  <2>1. contentOf[k].checksum = contentOf[m].checksum
    BY StoredFile, ChecksumIsContent DEF FlightsOf
  <2>2. QED
    BY <2>1 DEF SourcesDistinct, Clashes, SameChecksum
<1>2. QED
  BY <1>1, Invariance, NoDuplicates, PTL

\* The flights of a stored source are all that was accepted from its file, and
\* no two of them share a flight number, a route and a first date.
THEOREM NothingIsDropped == Spec => []StoredIsWhole
<1>1. Inv /\ GateInv => StoredIsWhole
  <2> SUFFICES ASSUME Inv, GateInv, NEW k \in stored
               PROVE  /\ Range(Accepted(RowsOf[contentOf[k].file])) = FlightsOf(k)
                      /\ \A r, s \in FlightsOf(k) : r # s => UniqueKey(r) # UniqueKey(s)
    BY DEF StoredIsWhole
  <2> DEFINE f == contentOf[k].file
  <2>1. f \in Files /\ Verdict(RowsOf[f]) = "good"
    BY StoredFile DEF GateInv
  <2> HIDE DEF f
  <2>2. ~Contradictory(Accepted(RowsOf[f])) /\ Storable(Flights(f))
    BY <2>1, GoodFile
  <2>3. \A r, s \in Range(Flights(f)) : r # s => UniqueKey(r) # UniqueKey(s)
    BY <2>2 DEF Storable, Range
  <2>4. QED
    BY <2>1, <2>2, <2>3, DropsEqualsOnly DEF f, FlightsOf
<1>2. QED
  BY <1>1, Invariance, GateHolds, PTL

\* What the gate lets through, the CHECK constraints and the foreign keys of the
\* tables accept: the transaction does not fail on them.
THEOREM GateIsEnough == Spec => []GateCoversConstraints
<1>1. Inv => GateCoversConstraints
  <2> SUFFICES ASSUME Inv, NEW i \in Importers, pc[i] \in InTransaction,
                      NEW r \in Range(Flights(batch[i].file))
               PROVE  Checked(r)
    BY DEF GateCoversConstraints
  <2>1. batch[i].file \in Files
    BY BatchesAreDatasets DEF Inv, BatchInv, Datasets, Dataset
  <2>2. Acceptable(r)
    BY <2>1, AcceptedTypes DEF Flights, Deduplicate, Range
  <2>3. QED
    BY <2>2, GateAssumption DEF Acceptable, Checked
<1>2. QED
  BY <1>1, Invariance, PTL

-----------------------------------------------------------------------------
(* What a success says of the file.  The dataset a call has fetched stays  *)
(* with it to its end.                                                     *)

Accepting(i) == batch[i] \in Batches /\ batch[i].quality \in {"good", "unstorable"}

AcceptingInv ==
    \A i \in Importers :
        (pc[i] = "invalidate" \/ (pc[i] = "done" /\ result[i].code = "none")) => Accepting(i)

LEMMA AcceptingStep == Inv /\ GateInv /\ AcceptingInv /\ [Next]_vars => AcceptingInv'
<1> SUFFICES ASSUME Inv, GateInv, AcceptingInv, [Next]_vars PROVE AcceptingInv'
  OBVIOUS
<1> USE DEF Inv, TypeOK
<1>1. CASE UNCHANGED vars
  BY <1>1 DEF vars, AcceptingInv, Accepting
<1>2. ASSUME NEW i \in Importers, Run(i) \/ Fault(i)
      PROVE  AcceptingInv'
  <2>0. result[i] \in Results
    OBVIOUS
  <2>1. \A j \in Importers \ {i} :
            pc'[j] = pc[j] /\ batch'[j] = batch[j] /\ result'[j] = result[j]
    BY <1>2 DEF Run, Fault, Fetch, Validate, LookupVersion, LookupChecksum,
        InsertSource, InsertSourceConflicts, SelectActive, LockActive, UpdateRoutes,
        MarkSources, WriteRow, WriteRowConflicts, InsertFlights, InsertFlightsConflicts, Commit, CommitRows,
        Invalidate, FetchFails, DatabaseFails, CommitUnacknowledged, Crash, Abort,
        Reject, Return
  <2> DEFINE P == (pc[i] = "invalidate" \/ (pc[i] = "done" /\ result[i].code = "none"))
                  => Accepting(i)
  <2>2. ASSUME NEW r \in Results, r.code # "none", Return(i, r) PROVE P'
    <3>1. pc'[i] = "done" /\ result'[i] = r
      BY <2>2 DEF Return
    <3>2. QED
      BY <2>2, <3>1
  <2>3. ASSUME NEW c \in ErrorCodes \ {"none"}, Reject(i, c) PROVE P'
    <3>1. [result[i] EXCEPT !.code = c] \in Results
      BY <2>0, ResultUpdates
    <3>2. [result[i] EXCEPT !.code = c].code # "none"
      BY <2>0 DEF Results
    <3>3. QED
      BY <2>2, <2>3, <3>1, <3>2 DEF Reject
  <2>4. ASSUME Abort(i) PROVE P'
    <3>1. [result[i] EXCEPT !.code = "import_failed", !.activation = "failed"] \in Results
      BY <2>0, ResultUpdates DEF ErrorCodes, Activations
    <3>2. QED
      BY <2>0, <2>2, <2>4, <3>1 DEF Abort, Results
  <2>5. ASSUME Fetch(i) PROVE P'
    BY <2>3, <2>5 DEF Fetch, ErrorCodes
  <2>6. ASSUME Validate(i) PROVE P'
    <3>1. batch[i] \in Batches /\ batch' = batch /\ batch[i].quality \in Qualities
          /\ batch[i].quality # "noneNormalized"
      BY <2>6, BatchesAssumption DEF Validate, BatchInv, GateInv, InTransaction
    <3>2. CASE batch[i].quality \in {"noneAccepted", "gateFails"}
      BY <2>3, <2>6, <3>2 DEF Validate, ErrorCodes
    <3>3. CASE batch[i].quality \in {"good", "unstorable"}
      BY <3>1, <3>3 DEF Accepting
    <3>4. QED
      BY <3>1, <3>2, <3>3 DEF Qualities
  <2>7. ASSUME LookupChecksum(i) PROVE P'
    <3>1. Accepting(i) /\ batch' = batch
      BY <2>7 DEF LookupChecksum, Accepting, BatchInv, GateInv, InTransaction
    <3>2. QED
      BY <3>1 DEF Accepting
  <2>8. ASSUME Commit(i) PROVE P'
    <3>1. Accepting(i) /\ batch' = batch
      BY <2>8 DEF Commit, CommitRows, Accepting, BatchInv, GateInv, InTransaction
    <3>2. QED
      BY <3>1 DEF Accepting
  <2>9. ASSUME Invalidate(i) PROVE P'
    BY <2>9 DEF Invalidate, Accepting, AcceptingInv
  <2>10. ASSUME CommitUnacknowledged(i) PROVE P'
    <3>1. [result[i] EXCEPT !.code = "import_failed", !.activation = "failed"] \in Results
      BY <2>0, ResultUpdates DEF ErrorCodes, Activations
    <3>2. QED
      BY <2>0, <2>2, <2>10, <3>1 DEF CommitUnacknowledged, Results
  <2>11. ASSUME \/ LookupVersion(i) \/ InsertSource(i) \/ SelectActive(i)
                \/ LockActive(i) \/ UpdateRoutes(i) \/ InsertFlights(i) \/ Crash(i)
         PROVE  P'
    BY <2>11 DEF LookupVersion, InsertSource, SelectActive, LockActive, UpdateRoutes,
        MarkSources, InsertFlights, Crash, Finished
  <2>12. ASSUME WriteRow(i) PROVE P'
    BY <2>12 DEF WriteRow, NextRow
  <2>13. P'
    BY <1>2, <2>4, <2>5, <2>6, <2>7, <2>8, <2>9, <2>10, <2>11, <2>12
       DEF Run, Fault, FetchFails, InsertSourceConflicts, WriteRowConflicts,
           InsertFlightsConflicts, DatabaseFails
  <2>14. QED
    BY <2>1, <2>13 DEF AcceptingInv, Accepting
<1>3. QED
  BY <1>1, <1>2 DEF Next, Terminating

\* A file for which the command answers success passed the gate, and unless it
\* was only to be validated, a committed source holds exactly the flights that
\* were accepted from it, although it may come from another file.
SuccessHoldsFile ==
    \A i \in Importers :
        LET r == result[i]
            records == Accepted(RowsOf[batch[i].file])
        IN (pc[i] = "done" /\ r.success /\ r.code = "none") =>
              /\ batch[i].file \in Files
              /\ ~Contradictory(records) /\ ~TooManyDuplicates(records)
              /\ r.activation \in {"activated", "no_op_duplicate"} =>
                     r.source \in stored /\ FlightsOf(r.source) = Range(records)

\* What the command answers, it has done: for any importers and files, and
\* whatever is imported and fails in between.
THEOREM SuccessIsWhole == Spec => []SuccessHoldsFile
<1>1. Init => AcceptingInv
  BY DEF Init, AcceptingInv
<1>2. Inv /\ AnswerInv /\ AcceptingInv => SuccessHoldsFile
  <2> SUFFICES ASSUME Inv, AnswerInv, AcceptingInv, NEW i \in Importers,
                      pc[i] = "done", result[i].success, result[i].code = "none"
               PROVE  LET r == result[i]
                          records == Accepted(RowsOf[batch[i].file])
                      IN /\ batch[i].file \in Files
                         /\ ~Contradictory(records) /\ ~TooManyDuplicates(records)
                         /\ r.activation \in {"activated", "no_op_duplicate"} =>
                                r.source \in stored /\ FlightsOf(r.source) = Range(records)
    BY DEF SuccessHoldsFile
  <2> DEFINE f == batch[i].file
  <2>1. /\ f \in Files /\ batch[i].checksum = Checksum(f)
        /\ batch[i].quality = Verdict(RowsOf[f])
        /\ Verdict(RowsOf[f]) \in {"good", "unstorable"}
    BY BatchesAreDatasets DEF AcceptingInv, Accepting, Datasets, Dataset
  <2>2. \/ ~(result[i].activation \in {"activated", "no_op_duplicate"})
        \/ Backed(i)
    BY DEF AnswerInv, AnswerOf
  <2> HIDE DEF f
  <2>3. ~Contradictory(Accepted(RowsOf[f])) /\ ~TooManyDuplicates(Accepted(RowsOf[f]))
    BY <2>1 DEF Verdict
  <2>4. Range(Accepted(RowsOf[f])) = Range(Flights(f))
    BY <2>1, <2>3, DropsEqualsOnly
  <2>5. ASSUME Backed(i) PROVE FlightsOf(result[i].source) = Range(Flights(f))
    BY <2>1, <2>5, StoredFile, ChecksumIsContent DEF Backed, FlightsOf
  <2>6. QED
    BY <2>1, <2>2, <2>3, <2>4, <2>5 DEF Backed, f
<1>3. QED
  BY <1>1, <1>2, AcceptingStep, AnswersHold, GateHolds, Invariance, PTL DEF Spec
=============================================================================
