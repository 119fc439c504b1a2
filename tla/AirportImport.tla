---------------------------- MODULE AirportImport ----------------------------
(***************************************************************************)
(* AirportSeedImporter.import_csv run by several processes at once against *)
(* one PostgreSQL database at READ COMMITTED.  One action per statement    *)
(* the session sends: another process may run between any two.             *)
(*                                                                         *)
(* The session does not flush before a query (autoflush is off).  It holds *)
(* an object for each airport it has loaded, which db.get returns without  *)
(* asking the database again, and may forget one nothing has changed.  At  *)
(* the end it sends an UPDATE of the changed columns of each changed       *)
(* object, in the order of the codes, then an INSERT per added object, in  *)
(* the order of the file.                                                  *)
(*                                                                         *)
(* A row of a file is abstracted to its code and the values of its other   *)
(* columns, or to Rejected.                                                *)
(***************************************************************************)
EXTENDS Integers, FiniteSets, Sequences

CONSTANTS Importers,   \* runs of the import command
          Codes,       \* airport codes, ordered like integers
          Columns,     \* the other columns of airports
          Values,      \* what a column may hold
          Files,       \* readable files: sequences of rows
          NoFile,      \* no file read
          Rejected,    \* a row that does not validate
          Absent,      \* no row, no object
          NoImport     \* no import under way

Rows == [Columns -> Values]
Records == [code: Codes, row: Rows]

ASSUME AirportAssumption ==
    /\ Codes \subseteq Int
    /\ Absent \notin Rows
    /\ Rejected \notin Records
    /\ Files \subseteq Seq(Records \cup {Rejected})
    /\ NoFile \notin Files
    /\ NoImport \notin [Codes -> Rows \cup {Absent}]

VARIABLES
    airports,    \* the committed row of each code, or Absent
    \* one import_csv call
    pc, file,
    left,        \* the rows of parsed that are still to be looked at
    loaded, now, \* the object of each code as loaded, as it is now, or Absent
    added,       \* the rows whose objects were added to the session
    updates,     \* codes whose UPDATE is still to be sent
    inserts,     \* rows whose INSERT is still to be sent
    report,      \* AirportImportResult
    late         \* calls during whose transaction another committed (history)

sessionVars == <<file, left, loaded, now, added, updates, inserts>>
airportVars == <<airports, pc, sessionVars, report, late>>

InTransaction == {"get", "flush"}
Finished == {"done", "failed", "crashed"}

NoObjects == [c \in Codes |-> Absent]
NoReport == [inserted |-> 0, updated |-> 0, skipped |-> 0, rejected |-> 0]

AirportInit ==
    /\ airports \in [Codes -> Rows \cup {Absent}]
    /\ pc = [i \in Importers |-> "parse"]
    /\ file = [i \in Importers |-> NoFile]
    /\ left = [i \in Importers |-> {}]
    /\ loaded = [i \in Importers |-> NoObjects]
    /\ now = [i \in Importers |-> NoObjects]
    /\ added = [i \in Importers |-> {}]
    /\ updates = [i \in Importers |-> {}]
    /\ inserts = [i \in Importers |-> {}]
    /\ report = [i \in Importers |-> NoReport]
    /\ late = {}

-----------------------------------------------------------------------------
(* The file.                                                               *)

Good(f) == {k \in DOMAIN f : f[k] # Rejected}
OfCode(f, c) == {k \in Good(f) : f[k].code = c}

\* Mutant: a code that was seen is not looked at again.
Repeats_ByCode(f) == {k \in Good(f) : \E m \in OfCode(f, f[k].code) : m < k}

\* The row equals the one of its code that was last taken into parsed.
Repeats(f) ==
    {k \in Good(f) : \E m \in OfCode(f, f[k].code) :
        /\ m < k /\ f[m] = f[k]
        /\ \A l \in OfCode(f, f[k].code) : l < k => l <= m}

\* The numbers of the rows in parsed.
Parsed(f) == Good(f) \ Repeats(f)

First(ks, k) == k \in ks /\ \A m \in ks : k <= m

\* What the file says last of each airport.
Asked(f) ==
    [c \in Codes |->
        LET ks == OfCode(f, c)
        IN IF ks = {} THEN Absent
           ELSE f[CHOOSE k \in ks : \A m \in ks : m <= k].row]

-----------------------------------------------------------------------------
(* What the transactions under way have written.                           *)

Changed(i) == {c \in Codes : now[i][c] # loaded[i][c]}

\* The rows a transaction has updated, the codes it has inserted.
Locked(i) == IF pc[i] = "flush" THEN Changed(i) \ updates[i] ELSE {}
Staged(i) == IF pc[i] = "flush" THEN {file[i][k].code : k \in added[i] \ inserts[i]}
             ELSE {}

Others(i) == Importers \ {i}

\* The codes of the next UPDATE and, when they are all sent, the next INSERT.
NextUpdate(i, c) == pc[i] = "flush" /\ First(updates[i], c)
NextInsert(i, k) == pc[i] = "flush" /\ updates[i] = {} /\ First(inserts[i], k)

Waits(i, j) ==
    \/ \E c \in Locked(j) : NextUpdate(i, c)
    \/ \E k \in inserts[i] : NextInsert(i, k) /\ file[i][k].code \in Staged(j)

-----------------------------------------------------------------------------
(* Ends of a call.                                                         *)

\* Mutant: the session of a call is left as it is.
LeaveSession_Keeps(i) == UNCHANGED sessionVars

LeaveSession(i) ==
    /\ file' = [file EXCEPT ![i] = NoFile]
    /\ left' = [left EXCEPT ![i] = {}]
    /\ loaded' = [loaded EXCEPT ![i] = NoObjects]
    /\ now' = [now EXCEPT ![i] = NoObjects]
    /\ added' = [added EXCEPT ![i] = {}]
    /\ updates' = [updates EXCEPT ![i] = {}]
    /\ inserts' = [inserts EXCEPT ![i] = {}]

Goto(i, step) == pc' = [pc EXCEPT ![i] = step]

\* An exception leaves import_csv; db.begin() rolls the transaction back, and
\* what was counted is lost.
Raise(i, step) ==
    /\ Goto(i, step)
    /\ LeaveSession(i)
    /\ late' = late \ {i}
    /\ report' = [report EXCEPT ![i] = NoReport]
    /\ UNCHANGED airports

-----------------------------------------------------------------------------
\* The file is read, its rows are validated, repeated ones skipped, and the
\* transaction begins.
Parse(i) ==
    /\ pc[i] = "parse"
    /\ \E f \in Files :
        /\ file' = [file EXCEPT ![i] = f]
        /\ left' = [left EXCEPT ![i] = Parsed(f)]
        /\ report' = [report EXCEPT
               ![i].skipped = Cardinality(Repeats(f)),
               ![i].rejected = Cardinality(DOMAIN f \ Good(f))]
    /\ Goto(i, "get")
    /\ UNCHANGED <<airports, loaded, now, added, updates, inserts, late>>

\* No such file, or a column is missing.
ParseFails(i) == pc[i] = "parse" /\ Raise(i, "failed")

\* Row k against the airport as db.get returned it: add, change or skip.
Upsert(i, k, existing) ==
    LET c == file[i][k].code
        row == file[i][k].row
    IN /\ left' = [left EXCEPT ![i] = @ \ {k}]
       /\ \/ /\ existing = Absent
             /\ added' = [added EXCEPT ![i] = @ \cup {k}]
             /\ report' = [report EXCEPT ![i].inserted = @ + 1]
             /\ UNCHANGED now
          \/ /\ existing \notin {Absent, row}
             /\ now' = [now EXCEPT ![i][c] = row]
             /\ report' = [report EXCEPT ![i].updated = @ + 1]
             /\ UNCHANGED added
          \/ /\ existing = row
             /\ now' = [now EXCEPT ![i][c] = row]
             /\ report' = [report EXCEPT ![i].skipped = @ + 1]
             /\ UNCHANGED added

\* db.get of an airport the session has no object of, or has forgotten.
Select(i, k) ==
    LET c == file[i][k].code
    IN /\ pc[i] = "get" /\ First(left[i], k)
       /\ c \notin Changed(i)
       /\ loaded' = [loaded EXCEPT ![i][c] = airports[c]]
       /\ Upsert(i, k, airports[c])
       /\ UNCHANGED <<airports, pc, file, updates, inserts, late>>

\* db.get of an airport the session has an object of.
Recall(i, k) ==
    LET c == file[i][k].code
    IN /\ pc[i] = "get" /\ First(left[i], k)
       /\ now[i][c] # Absent
       /\ Upsert(i, k, now[i][c])
       /\ UNCHANGED <<airports, pc, file, loaded, updates, inserts, late>>

\* The end of the block starts the flush.
Flush(i) ==
    /\ pc[i] = "get" /\ left[i] = {}
    /\ Goto(i, "flush")
    /\ updates' = [updates EXCEPT ![i] = Changed(i)]
    /\ inserts' = [inserts EXCEPT ![i] = added[i]]
    /\ UNCHANGED <<airports, file, left, loaded, now, added, report, late>>

\* UPDATE ... WHERE code = c, once no other transaction has the row locked.
UpdateRow(i) ==
    /\ \E c \in updates[i] :
        /\ NextUpdate(i, c)
        /\ \A j \in Others(i) : c \notin Locked(j)
        /\ updates' = [updates EXCEPT ![i] = @ \ {c}]
    /\ UNCHANGED <<airports, pc, file, left, loaded, now, added, inserts,
                   report, late>>

InsertRow(i) ==
    /\ \E k \in inserts[i] :
        LET c == file[i][k].code
        IN /\ NextInsert(i, k)
           /\ airports[c] = Absent
           /\ \A j \in Importers : c \notin Staged(j)
           /\ inserts' = [inserts EXCEPT ![i] = @ \ {k}]
    /\ UNCHANGED <<airports, pc, file, left, loaded, now, added, updates,
                   report, late>>

\* Mutant: ON CONFLICT DO NOTHING.
InsertConflicts_Ignored(i) ==
    /\ \E k \in inserts[i] :
        LET c == file[i][k].code
        IN /\ NextInsert(i, k)
           /\ airports[c] # Absent \/ c \in Staged(i)
           /\ inserts' = [inserts EXCEPT ![i] = @ \ {k}]
    /\ UNCHANGED <<airports, pc, file, left, loaded, now, added, updates,
                   report, late>>

\* Mutant: the INSERT is tried again and again.
InsertConflicts_Retried(i) == UNCHANGED airportVars

\* The code is in the table, or is a row of this transaction itself.
InsertConflicts(i) ==
    /\ \E k \in inserts[i] :
        LET c == file[i][k].code
        IN NextInsert(i, k) /\ (airports[c] # Absent \/ c \in Staged(i))
    /\ Raise(i, "failed")

\* The server ends a circle of waits by failing one statement of it.
DeadlockDetected(i) ==
    /\ \E S \in SUBSET Importers :
        /\ i \in S
        /\ \A j \in S : \E m \in S : Waits(j, m)
        /\ \A m \in S : \E j \in S : Waits(j, m)
    /\ Raise(i, "failed")

\* An UPDATE sets the columns that differ from what was loaded.
Written(i) ==
    [c \in Codes |->
        IF c \in Staged(i)
        THEN file[i][CHOOSE k \in added[i] : file[i][k].code = c].row
        ELSE IF c \in Locked(i)
        THEN [col \in Columns |-> IF now[i][c][col] # loaded[i][c][col]
                                  THEN now[i][c][col] ELSE airports[c][col]]
        ELSE airports[c]]

CommitRows(i, step) ==
    /\ pc[i] = "flush" /\ updates[i] = {} /\ inserts[i] = {}
    /\ airports' = Written(i)
    /\ Goto(i, step)
    /\ LeaveSession(i)
    /\ late' = {j \in Importers : pc'[j] \in InTransaction}

Commit(i) == CommitRows(i, "invalidate") /\ UNCHANGED report

\* The server commits but the connection is lost before it says so.
CommitUnacknowledged(i) ==
    CommitRows(i, "failed") /\ report' = [report EXCEPT ![i] = NoReport]

\* invalidate_prefix("airport:") never raises; the report is returned.
Invalidate(i) ==
    /\ pc[i] = "invalidate"
    /\ Goto(i, "done")
    /\ UNCHANGED <<airports, sessionVars, report, late>>

DatabaseFails(i) == pc[i] \in InTransaction /\ Raise(i, "failed")

Crash(i) == pc[i] \notin Finished /\ Raise(i, "crashed")

Terminating ==
    (\A i \in Importers : pc[i] \in Finished) /\ UNCHANGED airportVars

Run(i) ==
    \/ Parse(i)
    \/ \E k \in left[i] : Select(i, k) \/ Recall(i, k)
    \/ Flush(i) \/ UpdateRow(i) \/ InsertRow(i) \/ InsertConflicts(i)
    \/ DeadlockDetected(i)
    \/ Commit(i) \/ Invalidate(i)

Fault(i) ==
    \/ ParseFails(i) \/ DatabaseFails(i) \/ CommitUnacknowledged(i) \/ Crash(i)

AirportNext == (\E i \in Importers : Run(i) \/ Fault(i)) \/ Terminating

AirportSpec == AirportInit /\ [][AirportNext]_airportVars

\* Every process that can take a step eventually does; nothing forces a fault.
FairAirportSpec == AirportSpec /\ \A i \in Importers : WF_airportVars(Run(i))

-----------------------------------------------------------------------------
(* Properties.                                                             *)

SessionTypes(i) ==
    IF pc[i] \in InTransaction
    THEN /\ file[i] \in Files
         /\ left[i] \subseteq Parsed(file[i])
         /\ added[i] \subseteq Parsed(file[i]) \ left[i]
         /\ updates[i] \subseteq Changed(i) /\ inserts[i] \subseteq added[i]
         /\ \A c \in Codes : loaded[i][c] = Absent <=> now[i][c] = Absent
         /\ IF pc[i] = "flush" THEN left[i] = {}
            ELSE updates[i] = {} /\ inserts[i] = {}
    ELSE /\ file[i] = NoFile /\ left[i] = {}
         /\ loaded[i] = NoObjects /\ now[i] = NoObjects
         /\ added[i] = {} /\ updates[i] = {} /\ inserts[i] = {}
         /\ i \notin late

Objects == [Codes -> Rows \cup {Absent}]

\* A session's objects that have been changed were loaded; the rows it is still
\* to look at and those it adds are of its file; and a call that has not begun
\* its transaction, or has left it, has no session and has missed no commit.
AirportTypeOK ==
    /\ airports \in Objects
    /\ pc \in [Importers -> {"parse", "invalidate"} \cup InTransaction \cup Finished]
    /\ file \in [Importers -> Files \cup {NoFile}]
    /\ left \in [Importers -> SUBSET Nat] /\ added \in [Importers -> SUBSET Nat]
    /\ inserts \in [Importers -> SUBSET Nat]
    /\ updates \in [Importers -> SUBSET Codes]
    /\ loaded \in [Importers -> Objects] /\ now \in [Importers -> Objects]
    /\ report \in [Importers -> [inserted: Nat, updated: Nat, skipped: Nat,
                                 rejected: Nat]]
    /\ late \subseteq Importers
    /\ \A i \in Importers : SessionTypes(i)

\* The report of a call that returns is true.  It counts every row of the file
\* once.  It counts as inserted the airports its commit adds, although another
\* import may have added some since they were looked for.  And when no other
\* import came between and the file names no airport twice, it counts as
\* updated those its commit changes.
ReportIsTrue ==
    [][\A i \in Importers :
         pc[i] = "flush" /\ pc'[i] = "invalidate" =>
         LET r == report[i]
             f == file[i]
             new == {c \in Codes : airports[c] = Absent /\ airports'[c] # Absent}
             changed == {c \in Codes : airports[c] # airports'[c]} \ new
             once == \A c \in Codes : Cardinality(Parsed(f) \cap OfCode(f, c)) < 2
         IN /\ r.inserted + r.updated + r.skipped + r.rejected = Len(f)
            /\ r.inserted = Cardinality(new)
            /\ i \notin late /\ once => r.updated = Cardinality(changed)
      ]_airportVars

\* Every call ends: waits end with the transaction waited for, and circles of
\* waits, which the order of the INSERTs allows, are broken.
SeedsEnd == \A i \in Importers : <>(pc[i] \in Finished)

\* Any interleaving of imports looks to readers like imports that take effect
\* whole or not at all, and whose files win but for what another import that
\* committed meanwhile has changed.
Table == INSTANCE AirportTable WITH
    Imports <- Importers,
    table <- airports,
    running <- [i \in Importers |-> IF pc[i] \in InTransaction THEN Asked(file[i])
                                    ELSE NoImport]

ImplementsAirportTable == Table!Spec
=============================================================================
