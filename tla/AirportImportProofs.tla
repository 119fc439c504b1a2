------------------------- MODULE AirportImportProofs -------------------------
(***************************************************************************)
(* Whatever the files, and however many imports overlap, fail and crash,   *)
(* the session of an import is consistent (AirportTypes), the imports      *)
(* implement AirportTable (Refines) and each reports what its commit did   *)
(* (ReportsAreTrue).                                                       *)
(***************************************************************************)
EXTENDS AirportImport, FiniteSetTheorems, WellFoundedInduction, TLAPS

-----------------------------------------------------------------------------
(* Which row of a file counts.                                             *)

LEMMA LeastNatural ==
    ASSUME NEW T \in SUBSET Nat, T # {}
    PROVE  \E x \in T : \A y \in T : x <= y
<1> DEFINE R == {ss \in Nat \X Nat : ss[1] < ss[2]}
<1>1. OpToRel(<, Nat) = R
  BY DEF OpToRel
<1>2. IsWellFoundedOn(R, Nat)
  BY <1>1, NatLessThanWellFounded
<1>3. PICK x \in T : \A y \in T : ~ (<<y, x>> \in R)
  <2> HIDE DEF R
  <2> QED BY <1>2, WFMin
<1>4. ASSUME NEW y \in T PROVE x <= y
  <2>1. ~ (y < x)
    BY <1>3
  <2> QED BY <2>1
<1> QED BY <1>4

LEMMA GreatestNatural ==
    ASSUME NEW n \in Nat, NEW T \in SUBSET (1..n), T # {}
    PROVE  \E x \in T : \A y \in T : y <= x
<1> DEFINE D == {n - t : t \in T}
<1>1. D \in SUBSET Nat /\ D # {}
  <2>1. \A t \in T : n - t \in Nat
    OBVIOUS
  <2> QED BY <2>1
<1>2. PICK d \in D : \A e \in D : d <= e
  <2> HIDE DEF D
  <2> QED BY <1>1, LeastNatural
<1>3. PICK x \in T : d = n - x
  OBVIOUS
<1>4. ASSUME NEW y \in T PROVE y <= x
  <2>1. n - y \in D
    OBVIOUS
  <2>2. n - x <= n - y
    BY <1>2, <1>3, <2>1
  <2> QED BY <2>2
<1> QED BY <1>4

LEMMA FileTypes ==
    ASSUME NEW f \in Files
    PROVE  /\ Len(f) \in Nat /\ DOMAIN f = 1..Len(f)
           /\ Good(f) \subseteq 1..Len(f)
           /\ Parsed(f) \subseteq Good(f)
           /\ \A k \in Good(f) : f[k] \in Records
           /\ \A c : OfCode(f, c) \subseteq Good(f)
<1>1. f \in Seq(Records \cup {Rejected})
  BY AirportAssumption
<1> QED BY <1>1 DEF Good, Parsed, OfCode

\* An airport a file has good rows of has a row that is looked at.
LEMMA SomeParsed ==
    ASSUME NEW f \in Files, NEW c, OfCode(f, c) # {}
    PROVE  Parsed(f) \cap OfCode(f, c) # {}
<1>1. OfCode(f, c) \in SUBSET Nat
  BY FileTypes
<1>2. PICK k \in OfCode(f, c) : \A m \in OfCode(f, c) : k <= m
  BY <1>1, LeastNatural
<1>3. k \in Good(f) /\ f[k].code = c
  BY DEF OfCode
<1>4. k \notin Repeats(f)
  BY <1>1, <1>2, <1>3 DEF Repeats
<1> QED BY <1>3, <1>4 DEF Parsed

\* The last row of an airport that is looked at holds what its last good row
\* does: the rows skipped as repetitions after it equal it.
LEMMA LastParsed ==
    ASSUME NEW f \in Files, NEW c \in Codes, NEW k \in Parsed(f) \cap OfCode(f, c),
           \A m \in Parsed(f) \cap OfCode(f, c) : m <= k
    PROVE  Asked(f)[c] = f[k].row
<1> DEFINE O == OfCode(f, c)
<1>1. O \subseteq 1..Len(f) /\ Len(f) \in Nat /\ O # {}
  BY FileTypes
<1>2. PICK K \in O : \A m \in O : m <= K
  <2> HIDE DEF O
  <2> QED BY <1>1, GreatestNatural
<1> DEFINE S == {m \in O : \A l \in O : m <= l => f[l] = f[K]}
<1>3. S \in SUBSET Nat /\ K \in S
  <2>1. \A l \in O : K <= l => l = K
    BY <1>1, <1>2
  <2> QED BY <1>1, <2>1
<1>4. PICK s \in S : \A m \in S : s <= m
  <2> HIDE DEF S
  <2> QED BY <1>3, LeastNatural
<1>5. s \in Parsed(f) \cap O
  <2>1. s \in Good(f) /\ f[s].code = c
    BY DEF OfCode
  <2>2. ASSUME s \in Repeats(f) PROVE FALSE
    <3>1. PICK m \in O : /\ m < s /\ f[m] = f[s]
                         /\ \A l \in O : l < s => l <= m
      BY <2>1, <2>2 DEF Repeats
    <3>2. ASSUME NEW l \in O, m <= l PROVE f[l] = f[K]
      <4>1. CASE s <= l
        BY <4>1
      <4>2. CASE l < s
        BY <1>1, <3>1, <3>2, <4>2
      <4> QED BY <1>1, <1>3, <4>1, <4>2
    <3>3. m \in S
      BY <3>2
    <3> QED BY <1>1, <1>4, <3>1, <3>3
  <2> QED BY <2>1, <2>2 DEF Parsed
<1>6. s <= k
  BY <1>5
<1>7. f[k] = f[K]
  BY <1>6
<1>8. Asked(f)[c] = f[CHOOSE m \in O : \A l \in O : l <= m].row
  BY <1>1 DEF Asked
<1>9. (CHOOSE m \in O : \A l \in O : l <= m) = K
  <2>1. ASSUME NEW m \in O, \A l \in O : l <= m PROVE m = K
    BY <1>1, <1>2, <2>1
  <2> HIDE DEF O
  <2> QED BY <1>2, <2>1
<1> QED BY <1>7, <1>8, <1>9

LEMMA NotAsked ==
    ASSUME NEW f \in Files, NEW c \in Codes, Parsed(f) \cap OfCode(f, c) = {}
    PROVE  Asked(f)[c] = Absent
<1>1. OfCode(f, c) = {}
  BY SomeParsed
<1> QED BY <1>1 DEF Asked

LEMMA AskedTypes ==
    ASSUME NEW f \in Files
    PROVE  Asked(f) \in Objects
<1>1. ASSUME NEW c \in Codes PROVE Asked(f)[c] \in Rows \cup {Absent}
  <2>1. CASE Parsed(f) \cap OfCode(f, c) = {}
    BY <2>1, NotAsked
  <2>2. CASE Parsed(f) \cap OfCode(f, c) # {}
    <3>1. PICK k \in Parsed(f) \cap OfCode(f, c) :
              \A m \in Parsed(f) \cap OfCode(f, c) : m <= k
      <4>1. Parsed(f) \cap OfCode(f, c) \in SUBSET (1..Len(f)) /\ Len(f) \in Nat
        BY FileTypes
      <4> QED BY <2>2, <4>1, GreatestNatural
    <3>2. Asked(f)[c] = f[k].row
      BY <3>1, LastParsed
    <3>3. f[k] \in Records
      BY FileTypes
    <3> QED BY <3>2, <3>3 DEF Records
  <2> QED BY <2>1, <2>2
<1>2. Asked(f) = [c \in Codes |-> Asked(f)[c]]
  BY DEF Asked
<1> QED BY <1>1, <1>2 DEF Objects

-----------------------------------------------------------------------------
(* The invariant.                                                          *)

\* The rows a session has looked at, and those of them it found an airport for.
Handled(i) == Parsed(file[i]) \ left[i]
Kept(i) == Handled(i) \ added[i]

\* A session handles the rows of its file in order.  An airport it has an
\* object of is in the table, and is as it was loaded unless another import has
\* committed; the object is as the last row kept of its airport says.  What it
\* has inserted is not in the table, and is one row of each airport.
SessionOK(i) ==
    pc[i] \in InTransaction =>
    /\ \A p \in Handled(i), l \in left[i] : p < l
    /\ \A c \in Codes : loaded[i][c] # Absent =>
           airports[c] # Absent /\ (i \notin late => loaded[i][c] = airports[c])
    /\ \A c \in Codes : loaded[i][c] # Absent =>
           \E p \in Kept(i) : file[i][p].code = c
    /\ \A p \in Kept(i) :
           /\ loaded[i][file[i][p].code] # Absent
           /\ (\A q \in Kept(i) : file[i][q].code = file[i][p].code => q <= p)
              => now[i][file[i][p].code] = file[i][p].row
    /\ pc[i] = "flush" =>
           \A k, m \in added[i] \ inserts[i] :
               /\ airports[file[i][k].code] = Absent
               /\ file[i][k].code = file[i][m].code => k = m

\* No airport is inserted by two transactions.
InsertsApart ==
    \A i, j \in Importers : i # j => Staged(i) \cap Staged(j) = {}

IInv == /\ AirportTypeOK
        /\ \A i \in Importers : SessionOK(i)
        /\ InsertsApart

\* The part of the type invariant that says where the variables range.
Spaces ==
    /\ airports \in Objects
    /\ pc \in [Importers -> {"parse", "invalidate"} \cup InTransaction \cup Finished]
    /\ file \in [Importers -> Files \cup {NoFile}]
    /\ left \in [Importers -> SUBSET Nat] /\ added \in [Importers -> SUBSET Nat]
    /\ inserts \in [Importers -> SUBSET Nat]
    /\ updates \in [Importers -> SUBSET Codes]
    /\ loaded \in [Importers -> Objects] /\ now \in [Importers -> Objects]
    /\ report \in [Importers -> [inserted: Nat, updated: Nat, skipped: Nat,
                                 rejected: Nat]]
    /\ late \subseteq Importers

LEMMA TypeParts == AirportTypeOK <=> Spaces /\ \A i \in Importers : SessionTypes(i)
BY DEF AirportTypeOK, Spaces

\* A step of another import that leaves the table alone.
Same(j) ==
    /\ pc'[j] = pc[j] /\ file'[j] = file[j] /\ left'[j] = left[j]
    /\ loaded'[j] = loaded[j] /\ now'[j] = now[j] /\ added'[j] = added[j]
    /\ updates'[j] = updates[j] /\ inserts'[j] = inserts[j]
    /\ j \in late' <=> j \in late

LEMMA SameStaged ==
    ASSUME NEW j, Same(j)
    PROVE  Staged(j)' = Staged(j)
BY DEF Same, Staged

LEMMA SameTypes ==
    ASSUME NEW j, Same(j), SessionTypes(j)
    PROVE  SessionTypes(j)'
BY DEF Same, SessionTypes, Changed

LEMMA SameSession ==
    ASSUME NEW j, Same(j), SessionOK(j), airports' = airports
    PROVE  SessionOK(j)'
<1>1. Handled(j)' = Handled(j) /\ Kept(j)' = Kept(j)
  BY DEF Same, Handled, Kept
<1> QED BY <1>1 DEF Same, SessionOK

\* What is to show of a step of one import that leaves the table alone.
LEMMA OwnStep ==
    ASSUME IInv, NEW i \in Importers, Spaces', SessionTypes(i)', SessionOK(i)',
           airports' = airports,
           \A j \in Importers \ {i} : Same(j),
           \A j \in Importers \ {i} : Staged(i)' \cap Staged(j) = {}
    PROVE  IInv'
<1>1. AirportTypeOK'
  <2>1. \A j \in Importers : SessionTypes(j)'
    BY SameTypes, TypeParts DEF IInv
  <2> QED BY <2>1 DEF AirportTypeOK, Spaces
<1>2. \A j \in Importers : SessionOK(j)'
  BY SameSession DEF IInv
<1>3. InsertsApart'
  <2>1. \A j \in Importers \ {i} : Staged(j)' = Staged(j)
    BY SameStaged
  <2> QED BY <2>1 DEF IInv, InsertsApart
<1> QED BY <1>1, <1>2, <1>3 DEF IInv

-----------------------------------------------------------------------------
(* Each action keeps the invariant.                                        *)

LEMMA ReportTypes ==
    ASSUME IInv, NEW f \in Files
    PROVE  Cardinality(Repeats(f)) \in Nat /\ Cardinality(DOMAIN f \ Good(f)) \in Nat
<1>1. IsFiniteSet(1..Len(f))
  BY FileTypes, FS_Interval
<1>2. Repeats(f) \subseteq 1..Len(f) /\ DOMAIN f \ Good(f) \subseteq 1..Len(f)
  BY FileTypes DEF Repeats
<1>3. IsFiniteSet(Repeats(f)) /\ IsFiniteSet(DOMAIN f \ Good(f))
  BY <1>1, <1>2, FS_Subset
<1> QED BY <1>3, FS_CardinalityType

LEMMA NoSession ==
    ASSUME NEW i \in Importers, SessionTypes(i), pc[i] \notin InTransaction
    PROVE  Staged(i) = {} /\ SessionOK(i)
BY DEF SessionOK, Staged, InTransaction

\* A call that leaves its transaction leaves no session behind.
LEMMA Leaves ==
    ASSUME IInv, NEW i \in Importers, LeaveSession(i),
           NEW step, step \notin InTransaction, Goto(i, step), i \notin late'
    PROVE  SessionTypes(i)' /\ SessionOK(i)' /\ Staged(i)' = {}
<1>1. pc'[i] = step
  BY DEF IInv, AirportTypeOK, Goto
<1>2. /\ file'[i] = NoFile /\ left'[i] = {} /\ loaded'[i] = NoObjects
      /\ now'[i] = NoObjects /\ added'[i] = {} /\ updates'[i] = {}
      /\ inserts'[i] = {}
  BY DEF IInv, AirportTypeOK, LeaveSession
<1> QED BY <1>1, <1>2 DEF SessionTypes, SessionOK, Staged, InTransaction

LEMMA RaiseStep ==
    ASSUME IInv, NEW i \in Importers, NEW step \in {"failed", "crashed"},
           Raise(i, step)
    PROVE  IInv'
<1>1. LeaveSession(i) /\ Goto(i, step) /\ i \notin late'
  BY DEF Raise
<1>2. step \notin InTransaction
  BY DEF InTransaction
<1>3. SessionTypes(i)' /\ SessionOK(i)' /\ Staged(i)' = {}
  BY <1>1, <1>2, Leaves
<1>4. \A j \in Importers \ {i} : Same(j)
  BY DEF Raise, LeaveSession, Goto, Same, IInv, AirportTypeOK
<1>5. NoObjects \in Objects
  BY DEF NoObjects, Objects
<1>6. NoReport \in [inserted: Nat, updated: Nat, skipped: Nat, rejected: Nat]
  BY DEF NoReport
<1>7. Spaces'
  BY <1>5, <1>6 DEF Spaces, IInv, AirportTypeOK, Raise, LeaveSession, Goto, Finished
<1> QED BY <1>3, <1>4, <1>7, OwnStep DEF Raise

LEMMA ParseStep ==
    ASSUME IInv, NEW i \in Importers, Parse(i)
    PROVE  IInv'
<1>1. PICK f \in Files :
          /\ file' = [file EXCEPT ![i] = f]
          /\ left' = [left EXCEPT ![i] = Parsed(f)]
          /\ report' = [report EXCEPT
                 ![i].skipped = Cardinality(Repeats(f)),
                 ![i].rejected = Cardinality(DOMAIN f \ Good(f))]
  BY DEF Parse
<1>2. /\ pc[i] = "parse" /\ pc' = [pc EXCEPT ![i] = "get"]
      /\ UNCHANGED <<airports, loaded, now, added, updates, inserts, late>>
  BY DEF Parse, Goto
<1>3. Spaces
  BY TypeParts DEF IInv
<1>4. SessionTypes(i) /\ pc[i] \notin InTransaction
  BY <1>2 DEF IInv, AirportTypeOK, InTransaction
<1>5. /\ loaded[i] = NoObjects /\ now[i] = NoObjects /\ added[i] = {}
      /\ updates[i] = {} /\ inserts[i] = {}
  BY <1>4 DEF SessionTypes
<1>6. /\ pc'[i] = "get" /\ file'[i] = f /\ left'[i] = Parsed(f)
      /\ loaded'[i] = NoObjects /\ now'[i] = NoObjects /\ added'[i] = {}
      /\ updates'[i] = {} /\ inserts'[i] = {}
  BY <1>1, <1>2, <1>3, <1>5 DEF Spaces
<1>7. \A c \in Codes : NoObjects[c] = Absent
  BY DEF NoObjects
<1>8. SessionTypes(i)'
  BY <1>6, <1>7 DEF SessionTypes, InTransaction
<1>9. SessionOK(i)'
  <2>1. Handled(i)' = {} /\ Kept(i)' = {}
    BY <1>6 DEF Handled, Kept
  <2> QED BY <1>6, <1>7, <2>1 DEF SessionOK
<1>10. Staged(i)' = {}
  BY <1>6 DEF Staged
<1>11. \A j \in Importers \ {i} : Same(j)
  BY <1>1, <1>2, <1>3 DEF Spaces, Same
<1>12. Spaces'
  <2>1. Parsed(f) \in SUBSET Nat
    BY FileTypes
  <2>2. report' \in [Importers -> [inserted: Nat, updated: Nat, skipped: Nat,
                                   rejected: Nat]]
    BY <1>1, <1>3, ReportTypes DEF Spaces
  <2> QED BY <1>1, <1>2, <1>3, <2>1, <2>2 DEF Spaces, InTransaction
<1> QED BY <1>2, <1>8, <1>9, <1>10, <1>11, <1>12, OwnStep

\* What a step that looks at row k does to the session: the row is handled,
\* and is added, or its airport was found and is now as the row says.
Looks(i, k, existing) ==
    /\ pc[i] = "get" /\ First(left[i], k)
    /\ Upsert(i, k, existing)
    /\ UNCHANGED <<airports, pc, file, updates, inserts, late>>

LEMMA LooksFrame ==
    ASSUME IInv, NEW i \in Importers, NEW k, NEW existing \in Rows \cup {Absent},
           Looks(i, k, existing),
           loaded' \in [Importers -> Objects],
           \A j \in Importers \ {i} : loaded'[j] = loaded[j]
    PROVE  /\ Spaces'
           /\ \A j \in Importers \ {i} : Same(j) /\ Staged(i)' \cap Staged(j) = {}
           /\ file[i] \in Files /\ k \in Parsed(file[i]) /\ k \in left[i]
           /\ file[i][k].code \in Codes /\ file[i][k].row \in Rows
           /\ \A l \in left[i] : k <= l
<1>1. Spaces /\ SessionTypes(i)
  BY TypeParts DEF IInv
<1>2. file[i] \in Files /\ left[i] \subseteq Parsed(file[i])
  BY <1>1 DEF SessionTypes, Looks, InTransaction
<1>3. k \in left[i] /\ \A l \in left[i] : k <= l
  BY DEF Looks, First
<1>4. k \in Parsed(file[i]) /\ file[i][k] \in Records /\ k \in Nat
  BY <1>2, <1>3, FileTypes
<1>5. file[i][k].code \in Codes /\ file[i][k].row \in Rows
  BY <1>4 DEF Records
<1>6. \A j \in Importers \ {i} : Same(j)
  BY <1>1 DEF Looks, Upsert, Same, Spaces
<1>7. Staged(i)' = {}
  BY DEF Looks, Staged
<1>8. left' \in [Importers -> SUBSET Nat] /\ added' \in [Importers -> SUBSET Nat]
  BY <1>1, <1>4 DEF Looks, Upsert, Spaces
<1>9. now' \in [Importers -> Objects]
  <2>1. \/ now' = now
        \/ now' = [now EXCEPT ![i] = [@ EXCEPT ![file[i][k].code] = file[i][k].row]]
    BY DEF Looks, Upsert
  <2>2. now \in [Importers -> [Codes -> Rows \cup {Absent}]]
    BY <1>1 DEF Spaces, Objects
  <2>3. [now[i] EXCEPT ![file[i][k].code] = file[i][k].row]
            \in [Codes -> Rows \cup {Absent}]
    BY <1>5, <2>2
  <2> QED BY <2>1, <2>2, <2>3 DEF Objects
<1>10. report' \in [Importers -> [inserted: Nat, updated: Nat, skipped: Nat,
                                 rejected: Nat]]
  <2>1. \/ report' = [report EXCEPT ![i].inserted = @ + 1]
        \/ report' = [report EXCEPT ![i].updated = @ + 1]
        \/ report' = [report EXCEPT ![i].skipped = @ + 1]
    BY DEF Looks, Upsert
  <2>2. report \in [Importers -> [inserted: Nat, updated: Nat, skipped: Nat,
                                 rejected: Nat]]
    BY <1>1 DEF Spaces
  <2> QED BY <2>1, <2>2
<1>11. Spaces'
  BY <1>1, <1>8, <1>9, <1>10 DEF Looks, Spaces
<1> QED BY <1>2, <1>3, <1>4, <1>5, <1>6, <1>7, <1>11

\* No airport was found: the row is added.
LEMMA LooksAdds ==
    ASSUME IInv, NEW i \in Importers, NEW k, Looks(i, k, Absent),
           loaded' = [loaded EXCEPT ![i] = [@ EXCEPT ![file[i][k].code] = Absent]],
           airports[file[i][k].code] = Absent
    PROVE  IInv'
<1> DEFINE c == file[i][k].code
<1>1. Spaces /\ SessionTypes(i) /\ SessionOK(i)
  BY TypeParts DEF IInv
<1>2. pc[i] = "get" /\ k \in left[i] /\ pc[i] \in InTransaction
  BY DEF Looks, First, InTransaction
<1>3. file[i] \in Files /\ k \in Parsed(file[i])
  BY <1>1, <1>2 DEF SessionTypes
<1>4. c \in Codes /\ file[i][k].row \in Rows
  <2>1. file[i][k] \in Records
    BY <1>3, FileTypes
  <2> QED BY <2>1 DEF Records
<1>5. loaded[i][c] = Absent
  BY <1>1, <1>2, <1>4 DEF SessionOK
<1>6. loaded' = loaded
  BY <1>1, <1>4, <1>5 DEF Spaces, Objects
<1>7. now' = now /\ added'[i] = added[i] \cup {k} /\ left'[i] = left[i] \ {k}
  BY <1>1, <1>4, AirportAssumption DEF Looks, Upsert, Spaces
<1>8. /\ Spaces' /\ \A l \in left[i] : k <= l
      /\ \A j \in Importers \ {i} : Same(j) /\ Staged(i)' \cap Staged(j) = {}
  <2>1. loaded' \in [Importers -> Objects]
    BY <1>1, <1>6 DEF Spaces
  <2> QED BY <1>6, <2>1, LooksFrame
<1>9. pc'[i] = "get" /\ UNCHANGED <<airports, file, updates, inserts, late>>
  BY <1>2 DEF Looks
<1>10. SessionTypes(i)'
  BY <1>1, <1>2, <1>3, <1>6, <1>7, <1>9 DEF SessionTypes, Changed, InTransaction
<1>11. Handled(i)' = Handled(i) \cup {k} /\ Kept(i)' = Kept(i)
  BY <1>1, <1>2, <1>3, <1>7, <1>9 DEF Handled, Kept, SessionTypes
<1>12. SessionOK(i)'
  <2>1. \A p \in Handled(i)', l \in left[i]' : p < l
    <3>1. left[i] \in SUBSET Nat
      BY <1>1 DEF Spaces
    <3> QED BY <1>1, <1>2, <1>7, <1>8, <1>11, <3>1 DEF SessionOK
  <2> QED BY <1>1, <1>2, <1>6, <1>7, <1>9, <1>11, <2>1 DEF SessionOK
<1> QED BY <1>8, <1>9, <1>10, <1>12, OwnStep

\* An airport was found, or the session has it: it is now as the row says.
LEMMA LooksKeeps ==
    ASSUME IInv, NEW i \in Importers, NEW k, NEW existing \in Rows,
           Looks(i, k, existing), NEW was \in Rows,
           loaded' = [loaded EXCEPT ![i] = [@ EXCEPT ![file[i][k].code] = was]],
           airports[file[i][k].code] # Absent,
           i \in late \/ was = airports[file[i][k].code]
    PROVE  IInv'
<1> DEFINE c == file[i][k].code
           row == file[i][k].row
<1>1. Spaces /\ SessionTypes(i) /\ SessionOK(i)
  BY TypeParts DEF IInv
<1>2. pc[i] = "get" /\ k \in left[i] /\ pc[i] \in InTransaction
  BY DEF Looks, First, InTransaction
<1>3. file[i] \in Files /\ k \in Parsed(file[i])
  BY <1>1, <1>2 DEF SessionTypes
<1>4. c \in Codes /\ row \in Rows
  <2>1. file[i][k] \in Records
    BY <1>3, FileTypes
  <2> QED BY <2>1 DEF Records
<1>5. loaded'[i] = [loaded[i] EXCEPT ![c] = was]
  BY <1>1 DEF Spaces
<1>6. /\ now'[i] = [now[i] EXCEPT ![c] = row]
      /\ added' = added /\ left'[i] = left[i] \ {k}
  BY <1>1, AirportAssumption DEF Looks, Upsert, Spaces
<1>7. /\ Spaces' /\ \A l \in left[i] : k <= l
      /\ \A j \in Importers \ {i} : Same(j) /\ Staged(i)' \cap Staged(j) = {}
  <2>1. loaded' \in [Importers -> Objects]
    <3>1. [loaded[i] EXCEPT ![c] = was] \in Objects
      BY <1>1, <1>4 DEF Spaces, Objects
    <3> QED BY <1>1, <3>1 DEF Spaces
  <2> QED BY <1>1, <2>1, LooksFrame DEF Spaces
<1>8. pc'[i] = "get" /\ UNCHANGED <<airports, file, updates, inserts, late>>
  BY <1>2 DEF Looks
<1>9. /\ loaded'[i][c] = was /\ was # Absent
      /\ now'[i][c] = row /\ row # Absent
      /\ \A d \in Codes \ {c} : loaded'[i][d] = loaded[i][d] /\ now'[i][d] = now[i][d]
  BY <1>1, <1>4, <1>5, <1>6, AirportAssumption DEF Spaces, Objects
<1>10. SessionTypes(i)'
  <2>1. \A d \in Codes : loaded'[i][d] = Absent <=> now'[i][d] = Absent
    BY <1>1, <1>2, <1>9 DEF SessionTypes
  <2> QED BY <1>1, <1>2, <1>3, <1>6, <1>8, <2>1 DEF SessionTypes, Changed, InTransaction
<1>11. Handled(i)' = Handled(i) \cup {k} /\ Kept(i)' = Kept(i) \cup {k}
  BY <1>1, <1>2, <1>3, <1>6, <1>8 DEF Handled, Kept, SessionTypes
<1>12. left[i] \in SUBSET Nat /\ \A p \in Handled(i) : p < k
  BY <1>1, <1>2 DEF Spaces, SessionOK
<1>13. \A p \in Kept(i) : file[i][p].code \in Codes
  <2>1. \A p \in Kept(i) : file[i][p] \in Records
    BY <1>3, FileTypes DEF Kept, Handled
  <2> QED BY <2>1 DEF Records
<1>14. SessionOK(i)'
  <2>1. \A p \in Handled(i)', l \in left[i]' : p < l
    BY <1>1, <1>2, <1>6, <1>7, <1>11, <1>12 DEF SessionOK
  <2>2. \A d \in Codes : loaded'[i][d] # Absent =>
            airports[d] # Absent /\ (i \notin late => loaded'[i][d] = airports[d])
    BY <1>1, <1>2, <1>9 DEF SessionOK
  <2>3. \A d \in Codes : loaded'[i][d] # Absent =>
            \E p \in Kept(i)' : file[i][p].code = d
    BY <1>1, <1>2, <1>9, <1>11 DEF SessionOK
  <2>4. ASSUME NEW p \in Kept(i)' PROVE loaded'[i][file[i][p].code] # Absent
    BY <1>1, <1>2, <1>9, <1>11, <1>13 DEF SessionOK
  <2>5. ASSUME NEW p \in Kept(i)',
               \A q \in Kept(i)' : file[i][q].code = file[i][p].code => q <= p
        PROVE  now'[i][file[i][p].code] = file[i][p].row
    <3>1. CASE p = k
      BY <1>9, <3>1
    <3>2. CASE p \in Kept(i)
      <4>1. p < k /\ p \in Nat
        <5>1. p \in Parsed(file[i])
          BY <3>2 DEF Kept, Handled
        <5> QED BY <1>3, <1>12, <3>2, <5>1, FileTypes DEF Kept
      <4>2. k \in Nat
        BY <1>2, <1>12
      <4>3. file[i][p].code # c
        BY <1>11, <2>5, <4>1, <4>2
      <4>4. now'[i][file[i][p].code] = now[i][file[i][p].code]
        BY <1>9, <1>13, <3>2, <4>3
      <4> QED BY <1>1, <1>2, <1>11, <2>5, <3>2, <4>4 DEF SessionOK
    <3> QED BY <1>11, <3>1, <3>2
  <2> QED BY <1>8, <2>1, <2>2, <2>3, <2>4, <2>5 DEF SessionOK
<1> QED BY <1>7, <1>8, <1>10, <1>14, OwnStep

\* A row that is looked at is a record of the file.
LEMMA LookedAt ==
    ASSUME IInv, NEW i \in Importers, NEW k, pc[i] = "get", First(left[i], k)
    PROVE  /\ pc[i] \in InTransaction /\ SessionOK(i)
           /\ file[i][k].code \in Codes
           /\ loaded[i] \in Objects /\ now[i] \in Objects /\ airports \in Objects
           /\ \A c \in Codes : loaded[i][c] = Absent <=> now[i][c] = Absent
<1>1. Spaces /\ SessionTypes(i) /\ SessionOK(i)
  BY TypeParts DEF IInv
<1>2. pc[i] \in InTransaction
  BY DEF InTransaction
<1>3. file[i] \in Files /\ k \in Parsed(file[i])
  BY <1>1, <1>2 DEF SessionTypes, First
<1>4. file[i][k] \in Records
  BY <1>3, FileTypes
<1> QED BY <1>1, <1>2, <1>4 DEF Records, Spaces, SessionTypes

LEMMA SelectStep ==
    ASSUME IInv, NEW i \in Importers, NEW k \in left[i], Select(i, k)
    PROVE  IInv'
<1> DEFINE c == file[i][k].code
<1>1. pc[i] = "get" /\ First(left[i], k) /\ Looks(i, k, airports[c])
  BY DEF Select, Looks
<1>2. c \in Codes /\ airports[c] \in Rows \cup {Absent}
  BY <1>1, LookedAt DEF Objects
<1>3. loaded' = [loaded EXCEPT ![i] = [@ EXCEPT ![c] = airports[c]]]
  BY DEF Select
<1>4. CASE airports[c] = Absent
  BY <1>1, <1>3, <1>4, LooksAdds
<1>5. CASE airports[c] # Absent
  BY <1>1, <1>2, <1>3, <1>5, LooksKeeps
<1> QED BY <1>4, <1>5

LEMMA RecallStep ==
    ASSUME IInv, NEW i \in Importers, NEW k \in left[i], Recall(i, k)
    PROVE  IInv'
<1> DEFINE c == file[i][k].code
<1>1. /\ pc[i] = "get" /\ First(left[i], k) /\ Looks(i, k, now[i][c])
      /\ now[i][c] # Absent /\ loaded' = loaded
  BY DEF Recall, Looks
<1>2. c \in Codes /\ now[i][c] \in Rows /\ loaded[i][c] \in Rows
  BY <1>1, LookedAt DEF Objects
<1>3. airports[c] # Absent /\ (i \in late \/ loaded[i][c] = airports[c])
  BY <1>1, <1>2, LookedAt, AirportAssumption DEF SessionOK
<1>4. loaded' = [loaded EXCEPT ![i] = [@ EXCEPT ![c] = loaded[i][c]]]
  <2>1. Spaces
    BY TypeParts DEF IInv
  <2> QED BY <1>1, <1>2, <2>1 DEF Spaces, Objects
<1> QED BY <1>1, <1>2, <1>3, <1>4, LooksKeeps

LEMMA FlushStep ==
    ASSUME IInv, NEW i \in Importers, Flush(i)
    PROVE  IInv'
<1>1. Spaces /\ SessionTypes(i) /\ SessionOK(i)
  BY TypeParts DEF IInv
<1>2. /\ pc[i] = "get" /\ left[i] = {} /\ pc' = [pc EXCEPT ![i] = "flush"]
      /\ updates' = [updates EXCEPT ![i] = Changed(i)]
      /\ inserts' = [inserts EXCEPT ![i] = added[i]]
      /\ UNCHANGED <<airports, file, left, loaded, now, added, report, late>>
  BY DEF Flush, Goto
<1>3. pc'[i] = "flush" /\ updates'[i] = Changed(i) /\ inserts'[i] = added[i]
  BY <1>1, <1>2 DEF Spaces
<1>4. pc[i] \in InTransaction /\ pc'[i] \in InTransaction
  BY <1>2, <1>3 DEF InTransaction
<1>5. Changed(i)' = Changed(i) /\ Handled(i)' = Handled(i) /\ Kept(i)' = Kept(i)
  BY <1>2 DEF Changed, Handled, Kept
<1>6. Spaces'
  BY <1>1, <1>2 DEF Spaces, InTransaction, Changed
<1>7. SessionTypes(i)'
  BY <1>1, <1>2, <1>3, <1>4, <1>5 DEF SessionTypes
<1>8. SessionOK(i)'
  BY <1>1, <1>2, <1>3, <1>4, <1>5 DEF SessionOK
<1>9. Staged(i)' = {}
  BY <1>2, <1>3 DEF Staged
<1>10. \A j \in Importers \ {i} : Same(j)
  BY <1>1, <1>2 DEF Spaces, Same
<1> QED BY <1>2, <1>6, <1>7, <1>8, <1>9, <1>10, OwnStep

LEMMA UpdateRowStep ==
    ASSUME IInv, NEW i \in Importers, UpdateRow(i)
    PROVE  IInv'
<1>1. Spaces /\ SessionTypes(i) /\ SessionOK(i)
  BY TypeParts DEF IInv
<1>2. PICK c \in updates[i] : NextUpdate(i, c) /\ updates' = [updates EXCEPT ![i] = @ \ {c}]
  BY DEF UpdateRow
<1>3. pc[i] = "flush" /\ pc[i] \in InTransaction
  BY <1>2 DEF NextUpdate, InTransaction
<1>4. UNCHANGED <<airports, pc, file, left, loaded, now, added, inserts, report, late>>
  BY DEF UpdateRow
<1>5. updates'[i] \subseteq updates[i]
  BY <1>1, <1>2 DEF Spaces
<1>6. /\ Changed(i)' = Changed(i) /\ Handled(i)' = Handled(i) /\ Kept(i)' = Kept(i)
      /\ Staged(i)' = Staged(i)
  BY <1>4 DEF Changed, Handled, Kept, Staged
<1>7. Spaces'
  BY <1>1, <1>2, <1>4 DEF Spaces
<1>8. SessionTypes(i)'
  BY <1>1, <1>3, <1>4, <1>5, <1>6 DEF SessionTypes
<1>9. SessionOK(i)'
  BY <1>1, <1>4, <1>6 DEF SessionOK
<1>10. \A j \in Importers \ {i} : Same(j)
  BY <1>1, <1>2, <1>4 DEF Spaces, Same
<1>11. \A j \in Importers \ {i} : Staged(i)' \cap Staged(j) = {}
  BY <1>6 DEF IInv, InsertsApart
<1> QED BY <1>4, <1>7, <1>8, <1>9, <1>10, <1>11, OwnStep

LEMMA InsertRowStep ==
    ASSUME IInv, NEW i \in Importers, InsertRow(i)
    PROVE  IInv'
<1>1. Spaces /\ SessionTypes(i) /\ SessionOK(i)
  BY TypeParts DEF IInv
<1>2. PICK k \in inserts[i] :
          /\ NextInsert(i, k) /\ airports[file[i][k].code] = Absent
          /\ \A j \in Importers : file[i][k].code \notin Staged(j)
          /\ inserts' = [inserts EXCEPT ![i] = @ \ {k}]
  BY DEF InsertRow
<1>3. pc[i] = "flush" /\ pc[i] \in InTransaction
  BY <1>2 DEF NextInsert, InTransaction
<1>4. UNCHANGED <<airports, pc, file, left, loaded, now, added, updates, report, late>>
  BY DEF InsertRow
<1>5. inserts'[i] = inserts[i] \ {k} /\ k \in added[i]
  BY <1>1, <1>2, <1>3 DEF Spaces, SessionTypes
<1>6. Changed(i)' = Changed(i) /\ Handled(i)' = Handled(i) /\ Kept(i)' = Kept(i)
  BY <1>4 DEF Changed, Handled, Kept
<1>7. added[i] \ inserts'[i] = (added[i] \ inserts[i]) \cup {k}
  BY <1>5
<1>8. /\ Staged(i) = {file[i][m].code : m \in added[i] \ inserts[i]}
      /\ Staged(i)' = Staged(i) \cup {file[i][k].code}
  BY <1>3, <1>4, <1>7 DEF Staged
<1>9. Spaces'
  BY <1>1, <1>2, <1>4 DEF Spaces
<1>10. SessionTypes(i)'
  BY <1>1, <1>3, <1>4, <1>5, <1>6 DEF SessionTypes
<1>11. \A m, n \in added[i] \ inserts'[i] :
           /\ airports[file[i][m].code] = Absent
           /\ file[i][m].code = file[i][n].code => m = n
  <2>1. \A m \in added[i] \ inserts[i] : file[i][m].code # file[i][k].code
    BY <1>2, <1>8
  <2> QED BY <1>1, <1>2, <1>3, <1>7, <2>1 DEF SessionOK
<1>12. SessionOK(i)'
  BY <1>1, <1>3, <1>4, <1>6, <1>11 DEF SessionOK
<1>13. \A j \in Importers \ {i} : Same(j)
  BY <1>1, <1>2, <1>4 DEF Spaces, Same
<1>14. \A j \in Importers \ {i} : Staged(i)' \cap Staged(j) = {}
  BY <1>2, <1>8 DEF IInv, InsertsApart
<1> QED BY <1>4, <1>9, <1>10, <1>12, <1>13, <1>14, OwnStep

-----------------------------------------------------------------------------
(* What a commit writes.                                                   *)

\* The statements of a session have all been sent.
AllSent(i) == pc[i] = "flush" /\ updates[i] = {} /\ inserts[i] = {}

\* The row of an airport of which the last row was added was not there, and is
\* then as the file says; no row of the airport was kept.
LEMMA WritesAdded ==
    ASSUME IInv, NEW i \in Importers, AllSent(i), NEW k \in added[i],
           \A m \in Parsed(file[i]) \cap OfCode(file[i], file[i][k].code) : m <= k
    PROVE  /\ file[i][k].code \in Staged(i) /\ airports[file[i][k].code] = Absent
           /\ Written(i)[file[i][k].code] = Asked(file[i])[file[i][k].code]
<1> DEFINE c == file[i][k].code
<1>1. Spaces /\ SessionTypes(i) /\ SessionOK(i) /\ pc[i] \in InTransaction
  BY TypeParts DEF IInv, AllSent, InTransaction
<1>2. file[i] \in Files /\ k \in Parsed(file[i]) /\ added[i] \ inserts[i] = added[i]
  BY <1>1 DEF SessionTypes, AllSent
<1>3. file[i][k] \in Records /\ k \in Good(file[i])
  BY <1>2, FileTypes
<1>4. c \in Codes /\ k \in OfCode(file[i], c)
  BY <1>3 DEF Records, OfCode
<1>5. Staged(i) = {file[i][m].code : m \in added[i]} /\ c \in Staged(i)
  BY <1>2 DEF Staged, AllSent
<1>6. airports[c] = Absent /\ \A m \in added[i] : file[i][m].code = c => m = k
  BY <1>1, <1>2 DEF SessionOK, AllSent
<1>7. (CHOOSE m \in added[i] : file[i][m].code = c) = k
  BY <1>6
<1>8. Written(i)[c] = file[i][k].row
  BY <1>4, <1>5, <1>7 DEF Written
<1>9. Asked(file[i])[c] = file[i][k].row
  BY <1>2, <1>4, LastParsed
<1> QED BY <1>5, <1>6, <1>8, <1>9

\* The row of an airport whose last row was kept was there, and is then, in
\* each column, as the file says or as it was.
LEMMA WritesKept ==
    ASSUME IInv, NEW i \in Importers, AllSent(i), NEW k \in Kept(i),
           \A m \in Parsed(file[i]) \cap OfCode(file[i], file[i][k].code) : m <= k
    PROVE  LET c == file[i][k].code
               asked == Asked(file[i])[c]
           IN /\ c \notin Staged(i) /\ airports[c] \in Rows /\ asked \in Rows
              /\ Written(i)[c] \in Rows
              /\ \A col \in Columns : Written(i)[c][col] \in {airports[c][col], asked[col]}
              /\ i \notin late => Written(i)[c] = asked
              /\ Written(i)[c] # airports[c] => c \in Locked(i)
<1> DEFINE c == file[i][k].code
           asked == Asked(file[i])[c]
           was == loaded[i][c]
<1>1. Spaces /\ SessionTypes(i) /\ SessionOK(i) /\ pc[i] \in InTransaction
  BY TypeParts DEF IInv, AllSent, InTransaction
<1>2. /\ file[i] \in Files /\ k \in Parsed(file[i]) /\ left[i] = {}
      /\ added[i] \ inserts[i] = added[i]
  BY <1>1 DEF SessionTypes, AllSent, Kept, Handled
<1>3. file[i][k] \in Records /\ k \in Good(file[i])
  BY <1>2, FileTypes
<1>4. c \in Codes /\ k \in OfCode(file[i], c) /\ file[i][k].row \in Rows
  BY <1>3 DEF Records, OfCode
<1>5. asked = file[i][k].row
  BY <1>2, <1>4, LastParsed
<1>6. was \in Rows /\ airports[c] \in Rows /\ (i \notin late => was = airports[c])
  BY <1>1, <1>4 DEF SessionOK, Spaces, Objects
<1>7. now[i][c] = asked
  <2>1. ASSUME NEW q \in Kept(i), file[i][q].code = c PROVE q <= k
    <3>1. q \in Parsed(file[i])
      BY DEF Kept, Handled
    <3>2. q \in OfCode(file[i], c)
      BY <1>2, <2>1, <3>1, FileTypes DEF OfCode
    <3> QED BY <3>1, <3>2
  <2> QED BY <1>1, <1>5, <2>1 DEF SessionOK
<1>8. c \notin Staged(i)
  <2>1. \A m \in added[i] : airports[file[i][m].code] = Absent
    BY <1>1, <1>2 DEF SessionOK, AllSent
  <2> QED BY <1>2, <1>6, <2>1, AirportAssumption DEF Staged
<1>9. Locked(i) = Changed(i) /\ (c \in Changed(i) <=> asked # was)
  BY <1>4, <1>7 DEF Locked, Changed, AllSent
<1>10. CASE asked = was
  <2>1. Written(i)[c] = airports[c]
    BY <1>4, <1>8, <1>9, <1>10 DEF Written
  <2> QED BY <1>4, <1>5, <1>6, <1>8, <1>10, <2>1
<1>11. CASE asked # was
  <2>1. Written(i)[c] = [col \in Columns |-> IF asked[col] # was[col]
                                             THEN asked[col] ELSE airports[c][col]]
    BY <1>4, <1>7, <1>8, <1>9, <1>11 DEF Written
  <2>2. Written(i)[c] \in Rows
    BY <1>4, <1>5, <1>6, <2>1 DEF Rows
  <2>3. ASSUME i \notin late PROVE Written(i)[c] = asked
    BY <1>4, <1>5, <1>6, <2>1, <2>3 DEF Rows
  <2> QED BY <1>4, <1>5, <1>6, <1>8, <1>9, <1>11, <2>1, <2>2, <2>3
<1> QED BY <1>10, <1>11

\* An airport of which the file has no row is left alone.
LEMMA WritesNothingElse ==
    ASSUME IInv, NEW i \in Importers, AllSent(i), NEW c \in Codes,
           Parsed(file[i]) \cap OfCode(file[i], c) = {}
    PROVE  /\ c \notin Staged(i) /\ Asked(file[i])[c] = Absent
           /\ Written(i)[c] = airports[c]
<1>1. Spaces /\ SessionTypes(i) /\ SessionOK(i) /\ pc[i] \in InTransaction
  BY TypeParts DEF IInv, AllSent, InTransaction
<1>2. file[i] \in Files /\ added[i] \subseteq Parsed(file[i])
  BY <1>1 DEF SessionTypes
<1>3. \A m \in Parsed(file[i]) : file[i][m].code # c
  BY <1>2, FileTypes DEF OfCode
<1>4. c \notin Staged(i)
  BY <1>2, <1>3 DEF Staged
<1>5. loaded[i][c] = Absent /\ now[i][c] = Absent
  BY <1>1, <1>3 DEF SessionOK, SessionTypes, Kept, Handled
<1>6. c \notin Locked(i)
  BY <1>5 DEF Locked, Changed
<1> QED BY <1>2, <1>4, <1>6, NotAsked DEF Written

\* The rows after a commit: none is lost, and none appears that was not
\* inserted.  Those asked for are written whole, or, after another commit, at
\* least column by column.
LEMMA Writes ==
    ASSUME IInv, NEW i \in Importers, AllSent(i), NEW c \in Codes
    PROVE  LET asked == Asked(file[i])[c]
               row == Written(i)[c]
           IN /\ row \in Rows \cup {Absent}
              /\ airports[c] # Absent => row # Absent
              /\ c \notin Staged(i) /\ airports[c] = Absent => row = Absent
              /\ i \notin late => row = IF asked = Absent THEN airports[c] ELSE asked
              /\ \/ row = airports[c]
                 \/ asked # Absent /\ airports[c] = Absent /\ row = asked
                 \/ /\ asked # Absent /\ airports[c] # Absent /\ row \in Rows
                    /\ \A col \in Columns : row[col] \in {airports[c][col], asked[col]}
<1> DEFINE P == Parsed(file[i]) \cap OfCode(file[i], c)
<1>1. SessionTypes(i) /\ airports[c] \in Rows \cup {Absent}
  BY TypeParts DEF IInv, Spaces, Objects
<1>2. /\ file[i] \in Files /\ added[i] \subseteq Parsed(file[i])
      /\ Kept(i) = Parsed(file[i]) \ added[i]
  BY <1>1 DEF SessionTypes, AllSent, InTransaction, Kept, Handled
<1>3. CASE P = {}
  BY <1>1, <1>3, WritesNothingElse
<1>4. CASE P # {}
  <2>1. P \in SUBSET (1..Len(file[i])) /\ Len(file[i]) \in Nat
    BY <1>2, FileTypes
  <2>2. PICK k \in P : \A m \in P : m <= k
    <3> HIDE DEF P
    <3> QED BY <1>4, <2>1, GreatestNatural
  <2>3. file[i][k].code = c
    BY DEF OfCode
  <2>4. Asked(file[i])[c] \in Rows \cup {Absent}
    BY <1>2, AskedTypes DEF Objects
  <2>5. CASE k \in added[i]
    <3>1. c \in Staged(i) /\ airports[c] = Absent /\ Written(i)[c] = Asked(file[i])[c]
      BY <2>2, <2>3, <2>5, WritesAdded
    <3> QED BY <2>4, <3>1
  <2>6. CASE k \in Kept(i)
    BY <2>2, <2>3, <2>6, WritesKept, AirportAssumption
  <2> QED BY <1>2, <2>5, <2>6
<1> QED BY <1>3, <1>4

LEMMA CommitStep ==
    ASSUME IInv, NEW i \in Importers, NEW step \in {"invalidate", "failed"},
           CommitRows(i, step),
           report' \in [Importers -> [inserted: Nat, updated: Nat, skipped: Nat,
                                      rejected: Nat]]
    PROVE  IInv'
<1>1. Spaces /\ \A j \in Importers : SessionTypes(j) /\ SessionOK(j)
  BY TypeParts DEF IInv
<1>2. /\ AllSent(i) /\ airports' = Written(i) /\ Goto(i, step) /\ LeaveSession(i)
      /\ late' = {j \in Importers : pc'[j] \in InTransaction}
  BY DEF CommitRows, AllSent
<1>3. step \notin InTransaction /\ pc'[i] = step
  BY <1>1, <1>2 DEF InTransaction, Goto, Spaces
<1>4. SessionTypes(i)' /\ SessionOK(i)' /\ Staged(i)' = {}
  BY <1>2, <1>3, Leaves
<1>5. \A j \in Importers \ {i} :
          /\ pc'[j] = pc[j] /\ file'[j] = file[j] /\ left'[j] = left[j]
          /\ loaded'[j] = loaded[j] /\ now'[j] = now[j] /\ added'[j] = added[j]
          /\ updates'[j] = updates[j] /\ inserts'[j] = inserts[j]
  BY <1>1, <1>2 DEF Goto, LeaveSession, Spaces
<1>6. ASSUME NEW j \in Importers \ {i} PROVE SessionTypes(j)'
  BY <1>1, <1>2, <1>5 DEF SessionTypes, Changed
<1>7. ASSUME NEW j \in Importers \ {i}, pc[j] \in InTransaction PROVE SessionOK(j)'
  <2>1. j \in late' /\ Handled(j)' = Handled(j) /\ Kept(j)' = Kept(j)
    BY <1>2, <1>5, <1>7 DEF Handled, Kept
  <2>2. \A c \in Codes : loaded[j][c] # Absent => airports'[c] # Absent
    BY <1>1, <1>2, <1>7, Writes DEF SessionOK
  <2>3. ASSUME pc[j] = "flush", NEW k \in added[j] \ inserts[j]
        PROVE  airports'[file[j][k].code] = Absent
    <3>1. k \in Parsed(file[j]) /\ file[j] \in Files
      BY <1>1, <1>7, <2>3 DEF SessionTypes
    <3>2. file[j][k] \in Records
      BY <3>1, FileTypes
    <3>3. file[j][k].code \in Codes
      BY <3>2 DEF Records
    <3>4. file[j][k].code \in Staged(j)
      BY <2>3 DEF Staged
    <3>5. file[j][k].code \notin Staged(i) /\ airports[file[j][k].code] = Absent
      BY <1>1, <1>7, <2>3, <3>4 DEF IInv, InsertsApart, SessionOK
    <3> QED BY <1>2, <3>3, <3>5, Writes
  <2> QED BY <1>1, <1>5, <1>7, <2>1, <2>2, <2>3 DEF SessionOK
<1>8. ASSUME NEW j \in Importers \ {i}, pc[j] \notin InTransaction PROVE SessionOK(j)'
  BY <1>5, <1>8 DEF SessionOK
<1>9. InsertsApart'
  <2>1. ASSUME NEW j \in Importers \ {i} PROVE Staged(j)' = Staged(j)
    <3>1. /\ pc'[j] = pc[j] /\ file'[j] = file[j]
          /\ added'[j] = added[j] /\ inserts'[j] = inserts[j]
      BY <1>5
    <3> QED BY <3>1 DEF Staged
  <2> QED BY <1>4, <2>1 DEF IInv, InsertsApart
<1>10. Spaces'
  <2>1. airports' \in Objects
    <3>1. Written(i) = [c \in Codes |-> Written(i)[c]]
      BY DEF Written
    <3> QED BY <1>2, <3>1, Writes DEF Objects
  <2>2. NoObjects \in Objects
    BY DEF NoObjects, Objects
  <2> QED BY <1>1, <1>2, <2>1, <2>2 DEF Spaces, Goto, LeaveSession, Finished
<1>11. AirportTypeOK'
  <2>1. \A j \in Importers : SessionTypes(j)'
    BY <1>4, <1>6
  <2> QED BY <1>10, <2>1 DEF AirportTypeOK, Spaces
<1>12. \A j \in Importers : SessionOK(j)'
  BY <1>4, <1>7, <1>8
<1> QED BY <1>9, <1>11, <1>12 DEF IInv

LEMMA InvalidateStep ==
    ASSUME IInv, NEW i \in Importers, Invalidate(i)
    PROVE  IInv'
<1>1. Spaces /\ SessionTypes(i)
  BY TypeParts DEF IInv
<1>2. /\ pc[i] = "invalidate" /\ pc' = [pc EXCEPT ![i] = "done"]
      /\ UNCHANGED <<airports, file, left, loaded, now, added, updates, inserts,
                     report, late>>
  BY DEF Invalidate, Goto, sessionVars
<1>3. pc'[i] = "done" /\ pc[i] \notin InTransaction /\ pc'[i] \notin InTransaction
  BY <1>1, <1>2 DEF Spaces, InTransaction
<1>4. SessionTypes(i)' /\ SessionOK(i)' /\ Staged(i)' = {}
  BY <1>1, <1>2, <1>3 DEF SessionTypes, SessionOK, Staged
<1>5. \A j \in Importers \ {i} : Same(j)
  BY <1>1, <1>2 DEF Spaces, Same
<1>6. Spaces'
  BY <1>1, <1>2 DEF Spaces, Finished
<1> QED BY <1>2, <1>4, <1>5, <1>6, OwnStep

-----------------------------------------------------------------------------
(* The theorems.                                                           *)

LEMMA InitInvariant == AirportInit => IInv
<1> SUFFICES ASSUME AirportInit PROVE IInv
  OBVIOUS
<1>1. NoObjects \in Objects /\ \A c \in Codes : NoObjects[c] = Absent
  BY DEF NoObjects, Objects
<1>2. NoReport \in [inserted: Nat, updated: Nat, skipped: Nat, rejected: Nat]
  BY DEF NoReport
<1>3. Spaces
  BY <1>1, <1>2 DEF AirportInit, Spaces, Objects
<1>4. \A i \in Importers : pc[i] = "parse" /\ pc[i] \notin InTransaction
  BY DEF AirportInit, InTransaction
<1>5. \A i \in Importers : SessionTypes(i)
  BY <1>4 DEF AirportInit, SessionTypes
<1>6. \A i \in Importers : Staged(i) = {} /\ SessionOK(i)
  BY <1>4, <1>5, NoSession
<1> QED BY <1>3, <1>5, <1>6, TypeParts DEF IInv, InsertsApart

LEMMA NextInvariant == IInv /\ [AirportNext]_airportVars => IInv'
<1> SUFFICES ASSUME IInv, [AirportNext]_airportVars PROVE IInv'
  OBVIOUS
<1>1. ASSUME NEW i \in Importers, Run(i) PROVE IInv'
  <2>1. CASE Parse(i)
    BY <2>1, ParseStep
  <2>2. ASSUME NEW k \in left[i], Select(i, k) \/ Recall(i, k) PROVE IInv'
    BY <2>2, SelectStep, RecallStep
  <2>3. CASE Flush(i) \/ UpdateRow(i) \/ InsertRow(i)
    BY <2>3, FlushStep, UpdateRowStep, InsertRowStep
  <2>4. CASE InsertConflicts(i) \/ DeadlockDetected(i)
    BY <2>4, RaiseStep DEF InsertConflicts, DeadlockDetected
  <2>5. CASE Commit(i)
    <3>1. UNCHANGED report /\ CommitRows(i, "invalidate")
      BY <2>5 DEF Commit
    <3> QED BY <3>1, CommitStep DEF IInv, AirportTypeOK
  <2>6. CASE Invalidate(i)
    BY <2>6, InvalidateStep
  <2> QED BY <1>1, <2>1, <2>2, <2>3, <2>4, <2>5, <2>6 DEF Run
<1>2. ASSUME NEW i \in Importers, Fault(i) PROVE IInv'
  <2>1. CASE ParseFails(i) \/ DatabaseFails(i) \/ Crash(i)
    BY <2>1, RaiseStep DEF ParseFails, DatabaseFails, Crash
  <2>2. CASE CommitUnacknowledged(i)
    <3>1. CommitRows(i, "failed") /\ report' = [report EXCEPT ![i] = NoReport]
      BY <2>2 DEF CommitUnacknowledged
    <3>2. NoReport \in [inserted: Nat, updated: Nat, skipped: Nat, rejected: Nat]
      BY DEF NoReport
    <3> QED BY <3>1, <3>2, CommitStep DEF IInv, AirportTypeOK
  <2> QED BY <1>2, <2>1, <2>2 DEF Fault
<1>3. CASE UNCHANGED airportVars
  <2>1. UNCHANGED <<airports, pc, file, left, loaded, now, added, updates,
                    inserts, report, late>>
    BY <1>3 DEF airportVars, sessionVars
  <2>2. \A j : Same(j)
    BY <2>1 DEF Same
  <2>3. /\ \A j \in Importers : SessionTypes(j)' /\ SessionOK(j)'
        /\ \A j : Staged(j)' = Staged(j)
    BY <2>1, <2>2, SameTypes, SameSession, SameStaged, TypeParts DEF IInv
  <2> QED BY <2>1, <2>3 DEF IInv, AirportTypeOK, InsertsApart
<1> QED BY <1>1, <1>2, <1>3 DEF AirportNext, Terminating

THEOREM Invariant == AirportSpec => []IInv
BY InitInvariant, NextInvariant, PTL DEF AirportSpec

\* The objects a session has changed were loaded, its rows are its file's, and
\* a call out of its transaction has no session (sessions of import_csv).
THEOREM AirportTypes == AirportSpec => []AirportTypeOK
<1>1. IInv => AirportTypeOK
  BY DEF IInv
<1> QED BY <1>1, Invariant, PTL

-----------------------------------------------------------------------------
(* The refinement.                                                         *)

Asking(i) == IF pc[i] \in InTransaction THEN Asked(file[i]) ELSE NoImport

LEMMA NotNoImport ==
    ASSUME NEW f \in Files
    PROVE  Asked(f) # NoImport /\ Asked(f) \in Table!Tables
BY AskedTypes, AirportAssumption DEF Objects, Table!Tables

LEMMA LooksStutters ==
    ASSUME IInv, NEW i \in Importers, NEW k, NEW existing, Looks(i, k, existing),
           \A j \in Importers : Asking(j)' = Asking(j)
    PROVE  UNCHANGED Table!tableVars
<1>1. [j \in Importers |-> Asking(j)]' = [j \in Importers |-> Asking(j)]
  OBVIOUS
<1> QED BY <1>1 DEF Table!tableVars, Asking, Looks

\* A transaction begins.
LEMMA ParseBegins ==
    ASSUME IInv, NEW i \in Importers, Parse(i)
    PROVE  Table!Next
<1>1. Spaces
  BY TypeParts DEF IInv
<1>2. PICK f \in Files : file' = [file EXCEPT ![i] = f]
  BY DEF Parse
<1>3. /\ pc[i] = "parse" /\ pc' = [pc EXCEPT ![i] = "get"]
      /\ UNCHANGED <<airports, late>>
  BY DEF Parse, Goto
<1>4. Asking(i) = NoImport /\ Asking(i)' = Asked(f)
  BY <1>1, <1>2, <1>3 DEF Spaces, Asking, InTransaction
<1>5. \A j \in Importers \ {i} : Asking(j)' = Asking(j)
  BY <1>1, <1>2, <1>3 DEF Spaces, Asking
<1>6. [j \in Importers |-> Asking(j)]' = [[j \in Importers |-> Asking(j)] EXCEPT ![i] = Asked(f)]
  BY <1>4, <1>5
<1>7. Table!Begin(i, Asked(f))
  BY <1>3, <1>4, <1>6 DEF Table!Begin, Asking
<1> QED BY <1>7, NotNoImport DEF Table!Next

\* A transaction is rolled back, or there was none.
LEMMA RaiseAbandons ==
    ASSUME IInv, NEW i \in Importers, NEW step \in {"failed", "crashed"},
           Raise(i, step)
    PROVE  Table!Next \/ UNCHANGED Table!tableVars
<1>1. Spaces /\ SessionTypes(i)
  BY TypeParts DEF IInv
<1>2. /\ pc' = [pc EXCEPT ![i] = step] /\ file' = [file EXCEPT ![i] = NoFile]
      /\ late' = late \ {i} /\ airports' = airports
  BY DEF Raise, Goto, LeaveSession
<1>3. Asking(i)' = NoImport
  BY <1>1, <1>2 DEF Spaces, Asking, InTransaction
<1>4. \A j \in Importers \ {i} : Asking(j)' = Asking(j)
  BY <1>1, <1>2 DEF Spaces, Asking
<1>5. [j \in Importers |-> Asking(j)]' = [[j \in Importers |-> Asking(j)] EXCEPT ![i] = NoImport]
  BY <1>3, <1>4
<1>6. CASE pc[i] \in InTransaction
  <2>1. Asking(i) # NoImport
    BY <1>1, <1>6, NotNoImport DEF Asking, SessionTypes
  <2>2. Table!Abandon(i)
    BY <1>2, <1>5, <2>1 DEF Table!Abandon, Asking
  <2> QED BY <2>2 DEF Table!Next
<1>7. CASE pc[i] \notin InTransaction
  <2>1. late' = late /\ Asking(i) = NoImport
    BY <1>1, <1>2, <1>7 DEF SessionTypes, Asking
  <2>2. [j \in Importers |-> Asking(j)]' = [j \in Importers |-> Asking(j)]
    BY <1>3, <1>4, <2>1
  <2> QED BY <1>2, <2>1, <2>2 DEF Table!tableVars, Asking
<1> QED BY <1>6, <1>7

\* A commit writes what the import asked for.
LEMMA CommitCommits ==
    ASSUME IInv, NEW i \in Importers, NEW step \in {"invalidate", "failed"},
           CommitRows(i, step)
    PROVE  Table!Next
<1>1. Spaces /\ \A j \in Importers : SessionTypes(j)
  BY TypeParts DEF IInv
<1>2. /\ AllSent(i) /\ airports' = Written(i)
      /\ pc' = [pc EXCEPT ![i] = step] /\ file' = [file EXCEPT ![i] = NoFile]
      /\ late' = {j \in Importers : pc'[j] \in InTransaction}
  BY DEF CommitRows, AllSent, Goto, LeaveSession
<1>3. Asking(i)' = NoImport
  BY <1>1, <1>2 DEF Spaces, Asking, InTransaction
<1>4. \A j \in Importers \ {i} : Asking(j)' = Asking(j) /\ pc'[j] = pc[j]
  BY <1>1, <1>2 DEF Spaces, Asking
<1>5. [j \in Importers |-> Asking(j)]' = [[j \in Importers |-> Asking(j)] EXCEPT ![i] = NoImport]
  BY <1>3, <1>4
<1>6. pc[i] \in InTransaction /\ file[i] \in Files /\ Asking(i) = Asked(file[i])
  BY <1>1, <1>2 DEF AllSent, InTransaction, SessionTypes, Asking
<1>7. Asking(i) # NoImport
  BY <1>6, NotNoImport
<1>8. \A j \in Importers : Asking(j)' # NoImport <=> pc'[j] \in InTransaction
  <2>1. ASSUME NEW j \in Importers \ {i}
        PROVE  Asking(j)' # NoImport <=> pc'[j] \in InTransaction
    <3>1. Asking(j) # NoImport <=> pc[j] \in InTransaction
      BY <1>1, NotNoImport DEF Asking, SessionTypes
    <3> QED BY <1>4, <3>1
  <2>2. pc'[i] \notin InTransaction
    BY <1>1, <1>2 DEF Spaces, InTransaction
  <2> QED BY <1>3, <2>1, <2>2
<1>9. late' = {j \in Importers : [j_1 \in Importers |-> Asking(j_1)]'[j] # NoImport}
  BY <1>2, <1>8
<1>10. airports' \in Table!Tables
  <2>1. Written(i) = [c \in Codes |-> Written(i)[c]]
    BY DEF Written
  <2> QED BY <1>2, <2>1, Writes DEF Table!Tables
<1>11. ASSUME NEW c \in Codes, i \notin late PROVE Table!Whole(Asking(i), c)
  BY <1>2, <1>6, <1>11, Writes DEF Table!Whole
<1>12. ASSUME NEW c \in Codes PROVE Table!Merged(Asking(i), c)
  BY <1>2, <1>6, Writes DEF Table!Merged
<1>13. Table!Commit(i)
  BY <1>5, <1>7, <1>9, <1>10, <1>11, <1>12 DEF Table!Commit, Asking
<1> QED BY <1>13 DEF Table!Next

LEMMA InitRefines == AirportInit => Table!Init
<1> SUFFICES ASSUME AirportInit PROVE Table!Init
  OBVIOUS
<1>1. \A i \in Importers : Asking(i) = NoImport
  BY DEF AirportInit, Asking, InTransaction
<1>2. [i \in Importers |-> Asking(i)] = [i \in Importers |-> NoImport]
  BY <1>1
<1> QED BY <1>2 DEF Table!Init, Table!Tables, AirportInit, Asking

LEMMA NextRefines == IInv /\ [AirportNext]_airportVars => [Table!Next]_(Table!tableVars)
<1> SUFFICES ASSUME IInv, [AirportNext]_airportVars
             PROVE  Table!Next \/ UNCHANGED Table!tableVars
  OBVIOUS
<1>1. Spaces
  BY TypeParts DEF IInv
<1>2. ASSUME NEW i \in Importers, Run(i) PROVE Table!Next \/ UNCHANGED Table!tableVars
  <2>1. CASE Parse(i)
    BY <2>1, ParseBegins
  <2>2. ASSUME NEW k \in left[i], Select(i, k) \/ Recall(i, k)
        PROVE  UNCHANGED Table!tableVars
    <3>1. \E existing : Looks(i, k, existing)
      BY <2>2 DEF Select, Recall, Looks
    <3>2. \A j \in Importers : Asking(j)' = Asking(j)
      BY <2>2 DEF Select, Recall, Asking
    <3> QED BY <3>1, <3>2, LooksStutters
  <2>3. CASE Flush(i)
    <3>1. /\ pc[i] = "get" /\ pc' = [pc EXCEPT ![i] = "flush"]
          /\ UNCHANGED <<airports, file, late>>
      BY <2>3 DEF Flush, Goto
    <3>2. \A j \in Importers : Asking(j)' = Asking(j)
      BY <1>1, <3>1 DEF Spaces, Asking, InTransaction
    <3> QED BY <3>1, <3>2 DEF Table!tableVars, Asking
  <2>4. CASE UpdateRow(i) \/ InsertRow(i)
    <3>1. UNCHANGED <<airports, pc, file, late>>
      BY <2>4 DEF UpdateRow, InsertRow
    <3> QED BY <3>1 DEF Table!tableVars
  <2>5. CASE InsertConflicts(i) \/ DeadlockDetected(i)
    BY <2>5, RaiseAbandons DEF InsertConflicts, DeadlockDetected
  <2>6. CASE Commit(i)
    BY <2>6, CommitCommits DEF Commit
  <2>7. CASE Invalidate(i)
    <3>1. /\ pc[i] = "invalidate" /\ pc' = [pc EXCEPT ![i] = "done"]
          /\ UNCHANGED <<airports, file, late>>
      BY <2>7 DEF Invalidate, Goto, sessionVars
    <3>2. \A j \in Importers : Asking(j)' = Asking(j)
      BY <1>1, <3>1 DEF Spaces, Asking, InTransaction
    <3> QED BY <3>1, <3>2 DEF Table!tableVars, Asking
  <2> QED BY <1>2, <2>1, <2>2, <2>3, <2>4, <2>5, <2>6, <2>7 DEF Run
<1>3. ASSUME NEW i \in Importers, Fault(i) PROVE Table!Next \/ UNCHANGED Table!tableVars
  <2>1. CASE ParseFails(i) \/ DatabaseFails(i) \/ Crash(i)
    BY <2>1, RaiseAbandons DEF ParseFails, DatabaseFails, Crash
  <2>2. CASE CommitUnacknowledged(i)
    BY <2>2, CommitCommits DEF CommitUnacknowledged
  <2> QED BY <1>3, <2>1, <2>2 DEF Fault
<1>4. CASE UNCHANGED airportVars
  <2>1. UNCHANGED <<airports, pc, file, late>>
    BY <1>4 DEF airportVars, sessionVars
  <2> QED BY <2>1 DEF Table!tableVars
<1> QED BY <1>2, <1>3, <1>4 DEF AirportNext, Terminating

\* Overlapping, failing and crashing imports fill the table like imports that
\* take effect whole or not at all, and whose files win but for what another
\* import that committed meanwhile has changed (import_csv).
THEOREM Refines == AirportSpec => ImplementsAirportTable
<1>1. AirportInit => Table!Init
  BY InitRefines
<1>2. IInv /\ [AirportNext]_airportVars => [Table!Next]_(Table!tableVars)
  BY NextRefines
<1> QED BY <1>1, <1>2, Invariant, PTL DEF AirportSpec, ImplementsAirportTable, Table!Spec

-----------------------------------------------------------------------------
(* The report.                                                             *)

\* No airport has two rows of the file that are looked at.
Once(f) == \A c \in Codes : Cardinality(Parsed(f) \cap OfCode(f, c)) < 2

\* Each row of the file has been skipped or rejected as the file was read, is
\* counted as it was handled, or is left; what was added is counted as inserted,
\* and when no airport comes twice, what was changed is counted as updated.
Counts(i) ==
    LET r == report[i]
        f == file[i]
    IN /\ r.inserted = Cardinality(added[i])
       /\ r.inserted + r.updated + r.skipped + r.rejected =
              Cardinality(Handled(i)) + Cardinality(Repeats(f))
              + Cardinality(DOMAIN f \ Good(f))
       /\ Once(f) => /\ IsFiniteSet(Changed(i))
                     /\ r.updated = Cardinality(Changed(i))

ReportOK(i) ==
    /\ pc[i] = "parse" => report[i] = NoReport
    /\ pc[i] \in InTransaction => Counts(i)

Reports == [inserted: Nat, updated: Nat, skipped: Nat, rejected: Nat]

\* The places of a file, and what is made of them, are finitely many.
LEMMA FiniteFile ==
    ASSUME NEW f \in Files, NEW S, S \subseteq 1..Len(f)
    PROVE  IsFiniteSet(S) /\ Cardinality(S) \in Nat
<1>1. IsFiniteSet(1..Len(f))
  BY FileTypes, FS_Interval
<1>2. IsFiniteSet(S)
  BY <1>1, FS_Subset
<1> QED BY <1>2, FS_CardinalityType

\* The rows of a file are those that are looked at, the repeated and the rejected.
LEMMA FileParts ==
    ASSUME NEW f \in Files
    PROVE  Cardinality(Parsed(f)) + Cardinality(Repeats(f))
           + Cardinality(DOMAIN f \ Good(f)) = Len(f)
<1>1. /\ Len(f) \in Nat /\ DOMAIN f = 1..Len(f) /\ Good(f) \subseteq 1..Len(f)
      /\ Parsed(f) \subseteq Good(f) /\ Repeats(f) \subseteq Good(f)
  BY FileTypes DEF Repeats
<1>2. /\ IsFiniteSet(Parsed(f)) /\ Cardinality(Parsed(f)) \in Nat
      /\ IsFiniteSet(Repeats(f)) /\ Cardinality(Repeats(f)) \in Nat
      /\ IsFiniteSet(Good(f)) /\ Cardinality(Good(f)) \in Nat
      /\ IsFiniteSet(DOMAIN f) /\ Cardinality(DOMAIN f) = Len(f)
  <2>1. IsFiniteSet(1..Len(f)) /\ Cardinality(1..Len(f)) = Len(f)
    BY <1>1, FS_Interval
  <2>2. \A S \in SUBSET (1..Len(f)) : IsFiniteSet(S) /\ Cardinality(S) \in Nat
    BY FiniteFile
  <2>3. /\ Parsed(f) \in SUBSET (1..Len(f)) /\ Repeats(f) \in SUBSET (1..Len(f))
        /\ Good(f) \in SUBSET (1..Len(f))
    BY <1>1
  <2> QED BY <1>1, <2>1, <2>2, <2>3
<1>3. Parsed(f) \cup Repeats(f) = Good(f) /\ Parsed(f) \cap Repeats(f) = {}
  BY <1>1 DEF Parsed
<1>4. Cardinality(Good(f)) = Cardinality(Parsed(f)) + Cardinality(Repeats(f))
  <2>1. Cardinality(Parsed(f) \cap Repeats(f)) = 0
    BY <1>3, FS_EmptySet
  <2>2. Cardinality(Parsed(f) \cup Repeats(f)) =
            Cardinality(Parsed(f)) + Cardinality(Repeats(f))
            - Cardinality(Parsed(f) \cap Repeats(f))
    BY <1>2, FS_Union
  <2>3. Cardinality(Parsed(f) \cup Repeats(f)) = Cardinality(Good(f))
    BY <1>3, Zenon
  <2> QED BY <1>2, <2>1, <2>2, <2>3
<1>5. DOMAIN f \cap Good(f) = Good(f)
  BY <1>1
<1>6. Cardinality(DOMAIN f \ Good(f)) = Len(f) - Cardinality(Good(f))
  <2> DEFINE D == DOMAIN f
             G == Good(f)
  <2> HIDE DEF D, G
  <2>1. IsFiniteSet(D) /\ Cardinality(D) = Len(f)
    BY <1>2 DEF D
  <2>2. Cardinality(D \ G) = Cardinality(D) - Cardinality(D \cap G)
    BY <2>1, FS_Difference
  <2>3. Cardinality(D \cap G) = Cardinality(G)
    BY <1>5, Zenon DEF D, G
  <2>4. Cardinality(D \ G) = Len(f) - Cardinality(G)
    BY <2>1, <2>2, <2>3, Zenon
  <2> QED BY <2>4 DEF D, G
<1> QED BY <1>1, <1>2, <1>4, <1>6

LEMMA OnceMeans ==
    ASSUME NEW f \in Files, Once(f), NEW p \in Parsed(f), NEW q \in Parsed(f),
           f[p].code = f[q].code
    PROVE  p = q
<1> SUFFICES ASSUME p # q PROVE FALSE
  OBVIOUS
<1> DEFINE S == Parsed(f) \cap OfCode(f, f[p].code)
<1>1. p \in S /\ q \in S /\ f[p].code \in Codes
  <2>1. p \in Good(f) /\ q \in Good(f) /\ f[p] \in Records
    BY FileTypes
  <2> QED BY <2>1 DEF OfCode, Records
<1>2. IsFiniteSet(S) /\ Cardinality(S) \in Nat
  <2>1. S \subseteq 1..Len(f)
    BY FileTypes
  <2> QED BY <2>1, FiniteFile
<1> DEFINE P == {p}
           PQ == P \cup {q}
<1>3. IsFiniteSet(P) /\ Cardinality(P) = 1 /\ q \notin P
  BY FS_Singleton
<1>4. Cardinality(PQ) = 2
  <2> HIDE DEF P
  <2>1. Cardinality(PQ) = IF q \in P THEN Cardinality(P) ELSE Cardinality(P) + 1
    BY <1>3, FS_AddElement
  <2> QED BY <1>3, <2>1
<1>5. PQ \in SUBSET S
  BY <1>1
<1> HIDE DEF P, PQ
<1>6. Cardinality(PQ) <= Cardinality(S)
  BY <1>2, <1>5, FS_Subset
<1> QED BY <1>1, <1>2, <1>4, <1>6 DEF Once

\* The step of another import, or one that looks at no row.
LEMMA SameReport ==
    ASSUME NEW j, ReportOK(j),
           pc'[j] = pc[j] \/ (pc'[j] # "parse" /\ pc[j] \in InTransaction),
           /\ file'[j] = file[j] /\ left'[j] = left[j] /\ added'[j] = added[j]
           /\ loaded'[j] = loaded[j] /\ now'[j] = now[j] /\ report'[j] = report[j]
    PROVE  ReportOK(j)'
<1>1. /\ Handled(j)' = Handled(j) /\ Changed(j)' = Changed(j)
  BY DEF Handled, Changed
<1>2. Counts(j) => Counts(j)'
  BY <1>1 DEF Counts
<1> QED BY <1>2 DEF ReportOK

LEMMA ParseReport ==
    ASSUME IInv, NEW i \in Importers, ReportOK(i), Parse(i)
    PROVE  ReportOK(i)'
<1>1. PICK f \in Files :
          /\ file' = [file EXCEPT ![i] = f]
          /\ left' = [left EXCEPT ![i] = Parsed(f)]
          /\ report' = [report EXCEPT
                 ![i].skipped = Cardinality(Repeats(f)),
                 ![i].rejected = Cardinality(DOMAIN f \ Good(f))]
  BY DEF Parse
<1>2. /\ pc[i] = "parse" /\ pc' = [pc EXCEPT ![i] = "get"]
      /\ UNCHANGED <<airports, loaded, now, added, updates, inserts, late>>
  BY DEF Parse, Goto
<1>3. Spaces /\ SessionTypes(i)
  BY TypeParts DEF IInv
<1>4. /\ pc'[i] = "get" /\ file'[i] = f /\ left'[i] = Parsed(f) /\ added'[i] = {}
      /\ loaded'[i] = NoObjects /\ now'[i] = NoObjects
  BY <1>1, <1>2, <1>3 DEF Spaces, SessionTypes, InTransaction
<1>5. /\ report'[i].inserted = 0 /\ report'[i].updated = 0
      /\ report'[i].skipped = Cardinality(Repeats(f))
      /\ report'[i].rejected = Cardinality(DOMAIN f \ Good(f))
  BY <1>1, <1>2, <1>3 DEF Spaces, ReportOK, NoReport
<1>6. Handled(i)' = {} /\ Changed(i)' = {}
  BY <1>4 DEF Handled, Changed
<1>7. Cardinality(Repeats(f)) \in Nat /\ Cardinality(DOMAIN f \ Good(f)) \in Nat
  BY ReportTypes
<1>8. Counts(i)'
  BY <1>4, <1>5, <1>6, <1>7, FS_EmptySet DEF Counts
<1> QED BY <1>4, <1>8 DEF ReportOK

LEMMA LooksReport ==
    ASSUME IInv, NEW i \in Importers, ReportOK(i), NEW k,
           NEW existing \in Rows \cup {Absent}, Looks(i, k, existing),
           NEW was \in Rows \cup {Absent}, Once(file[i]) => was = existing,
           loaded' = [loaded EXCEPT ![i] = [@ EXCEPT ![file[i][k].code] = was]]
    PROVE  ReportOK(i)'
<1> DEFINE c == file[i][k].code
           row == file[i][k].row
           f == file[i]
<1>1. Spaces /\ SessionTypes(i) /\ SessionOK(i)
  BY TypeParts DEF IInv
<1>2. pc[i] = "get" /\ k \in left[i] /\ pc[i] \in InTransaction
  BY DEF Looks, First, InTransaction
<1>3. f \in Files /\ k \in Parsed(f) /\ left[i] \subseteq Parsed(f)
      /\ added[i] \subseteq Parsed(f) \ left[i]
  BY <1>1, <1>2 DEF SessionTypes
<1>4. c \in Codes /\ row \in Rows
  <2>1. file[i][k] \in Records
    BY <1>3, FileTypes
  <2> QED BY <2>1 DEF Records
<1>5. Counts(i)
  BY <1>2 DEF ReportOK
<1>6. pc'[i] = "get" /\ UNCHANGED file /\ left'[i] = left[i] \ {k}
  BY <1>1, <1>2 DEF Looks, Upsert, Spaces
<1>7. report[i] \in Reports
  BY <1>1 DEF Spaces, Reports
<1>8. /\ k \notin Handled(i) /\ Handled(i)' = Handled(i) \cup {k}
      /\ Cardinality(Handled(i)) \in Nat
      /\ Cardinality(Handled(i)') = Cardinality(Handled(i)) + 1
  <2>1. k \notin Handled(i) /\ Handled(i)' = Handled(i) \cup {k}
    BY <1>2, <1>3, <1>6 DEF Handled
  <2>2. Handled(i) \subseteq 1..Len(f)
    BY <1>3, FileTypes DEF Handled
  <2>3. IsFiniteSet(Handled(i)) /\ Cardinality(Handled(i)) \in Nat
    BY <1>3, <2>2, FiniteFile
  <2> QED BY <2>1, <2>3, FS_AddElement
<1>9. /\ k \notin added[i] /\ Cardinality(added[i]) \in Nat
      /\ Cardinality(added[i] \cup {k}) = Cardinality(added[i]) + 1
  <2>1. k \notin added[i]
    BY <1>2, <1>3
  <2>2. added[i] \subseteq 1..Len(f)
    BY <1>3, FileTypes
  <2>3. IsFiniteSet(added[i]) /\ Cardinality(added[i]) \in Nat
    BY <1>3, <2>2, FiniteFile
  <2> QED BY <2>1, <2>3, FS_AddElement
<1>10. Cardinality(Repeats(f)) \in Nat /\ Cardinality(DOMAIN f \ Good(f)) \in Nat
  BY <1>3, ReportTypes
<1>11. loaded'[i] = [loaded[i] EXCEPT ![c] = was]
  BY <1>1 DEF Spaces
<1>12. ASSUME Once(f) PROVE loaded[i][c] = Absent /\ now[i][c] = Absent /\ was = existing
  <2>1. ASSUME loaded[i][c] # Absent PROVE FALSE
    <3>1. PICK p \in Kept(i) : f[p].code = c
      BY <1>1, <1>2, <1>4, <2>1 DEF SessionOK
    <3>2. p \in Parsed(f) /\ p # k
      BY <1>2, <3>1 DEF Kept, Handled
    <3> QED BY <1>3, <1>12, <3>1, <3>2, OnceMeans
  <2> QED BY <1>1, <1>2, <1>4, <1>12, <2>1 DEF SessionTypes
<1>13. CASE /\ existing = Absent
            /\ added' = [added EXCEPT ![i] = @ \cup {k}]
            /\ report' = [report EXCEPT ![i].inserted = @ + 1]
            /\ UNCHANGED now
  <2>1. added'[i] = added[i] \cup {k} /\ now'[i] = now[i]
    BY <1>1, <1>13 DEF Spaces
  <2>2. /\ report'[i].inserted = report[i].inserted + 1
        /\ report'[i].updated = report[i].updated
        /\ report'[i].skipped = report[i].skipped
        /\ report'[i].rejected = report[i].rejected
    BY <1>1, <1>13 DEF Spaces
  <2>3. ASSUME Once(f) PROVE Changed(i)' = Changed(i)
    <3>1. loaded'[i] = loaded[i]
      BY <1>1, <1>4, <1>11, <1>12, <1>13, <2>3 DEF Spaces, Objects
    <3> QED BY <2>1, <3>1 DEF Changed
  <2>4. Counts(i)'
    BY <1>5, <1>6, <1>7, <1>8, <1>9, <1>10, <2>1, <2>2, <2>3 DEF Counts, Reports
  <2> QED BY <1>6, <2>4 DEF ReportOK
<1>14. CASE /\ existing \notin {Absent, row}
            /\ now' = [now EXCEPT ![i][c] = row]
            /\ report' = [report EXCEPT ![i].updated = @ + 1]
            /\ UNCHANGED added
  <2>1. added'[i] = added[i] /\ now'[i] = [now[i] EXCEPT ![c] = row]
    BY <1>1, <1>14 DEF Spaces
  <2>2. /\ report'[i].inserted = report[i].inserted
        /\ report'[i].updated = report[i].updated + 1
        /\ report'[i].skipped = report[i].skipped
        /\ report'[i].rejected = report[i].rejected
    BY <1>1, <1>14 DEF Spaces
  <2>3. ASSUME Once(f) PROVE Changed(i)' = Changed(i) \cup {c} /\ c \notin Changed(i)
    <3>1. /\ loaded'[i][c] = existing /\ now'[i][c] = row
          /\ \A d \in Codes \ {c} : loaded'[i][d] = loaded[i][d] /\ now'[i][d] = now[i][d]
      BY <1>1, <1>4, <1>11, <1>12, <2>1, <2>3 DEF Spaces, Objects
    <3> QED BY <1>4, <1>12, <1>14, <2>3, <3>1 DEF Changed
  <2>4. ASSUME Once(f)
        PROVE  /\ IsFiniteSet(Changed(i)')
               /\ report'[i].updated = Cardinality(Changed(i)')
    <3>1. IsFiniteSet(Changed(i)) /\ report[i].updated = Cardinality(Changed(i))
      BY <1>5, <2>4 DEF Counts
    <3> QED BY <2>2, <2>3, <2>4, <3>1, FS_AddElement
  <2>5. Counts(i)'
    BY <1>5, <1>6, <1>7, <1>8, <1>10, <2>1, <2>2, <2>4 DEF Counts, Reports
  <2> QED BY <1>6, <2>5 DEF ReportOK
<1>15. CASE /\ existing = row
            /\ now' = [now EXCEPT ![i][c] = row]
            /\ report' = [report EXCEPT ![i].skipped = @ + 1]
            /\ UNCHANGED added
  <2>1. added'[i] = added[i] /\ now'[i] = [now[i] EXCEPT ![c] = row]
    BY <1>1, <1>15 DEF Spaces
  <2>2. /\ report'[i].inserted = report[i].inserted
        /\ report'[i].updated = report[i].updated
        /\ report'[i].skipped = report[i].skipped + 1
        /\ report'[i].rejected = report[i].rejected
    BY <1>1, <1>15 DEF Spaces
  <2>3. ASSUME Once(f) PROVE Changed(i)' = Changed(i)
    <3>1. /\ loaded'[i][c] = row /\ now'[i][c] = row
          /\ \A d \in Codes \ {c} : loaded'[i][d] = loaded[i][d] /\ now'[i][d] = now[i][d]
      BY <1>1, <1>4, <1>11, <1>12, <1>15, <2>1, <2>3 DEF Spaces, Objects
    <3> QED BY <1>4, <1>12, <2>3, <3>1 DEF Changed
  <2>4. Counts(i)'
    BY <1>5, <1>6, <1>7, <1>8, <1>10, <2>1, <2>2, <2>3 DEF Counts, Reports
  <2> QED BY <1>6, <2>4 DEF ReportOK
<1> QED BY <1>13, <1>14, <1>15 DEF Looks, Upsert

LEMMA LookReport ==
    ASSUME IInv, NEW i \in Importers, ReportOK(i), NEW k \in left[i],
           Select(i, k) \/ Recall(i, k)
    PROVE  ReportOK(i)'
<1> DEFINE c == file[i][k].code
<1>1. CASE Select(i, k)
  <2>1. pc[i] = "get" /\ First(left[i], k) /\ Looks(i, k, airports[c])
    BY <1>1 DEF Select, Looks
  <2>2. c \in Codes /\ airports[c] \in Rows \cup {Absent}
    BY <2>1, LookedAt DEF Objects
  <2>3. loaded' = [loaded EXCEPT ![i] = [@ EXCEPT ![c] = airports[c]]]
    BY <1>1 DEF Select
  <2> QED BY <2>1, <2>2, <2>3, LooksReport
<1>2. CASE Recall(i, k)
  <2>1. /\ pc[i] = "get" /\ First(left[i], k) /\ Looks(i, k, now[i][c])
        /\ now[i][c] # Absent /\ loaded' = loaded
    BY <1>2 DEF Recall, Looks
  <2>2. c \in Codes /\ now[i][c] \in Rows /\ loaded[i][c] \in Rows
    BY <2>1, LookedAt DEF Objects
  <2>3. loaded' = [loaded EXCEPT ![i] = [@ EXCEPT ![c] = loaded[i][c]]]
    <3>1. Spaces
      BY TypeParts DEF IInv
    <3> QED BY <2>1, <2>2, <3>1 DEF Spaces, Objects
  <2>4. ~Once(file[i])
    <3>1. file[i] \in Files /\ k \in Parsed(file[i])
      BY <2>1 DEF IInv, AirportTypeOK, SessionTypes, InTransaction
    <3>2. PICK p \in Kept(i) : file[i][p].code = c
      BY <2>1, <2>2, LookedAt, AirportAssumption DEF SessionOK
    <3>3. p \in Parsed(file[i]) /\ p # k
      BY <3>2 DEF Kept, Handled
    <3> QED BY <3>1, <3>2, <3>3, OnceMeans
  <2> QED BY <2>1, <2>2, <2>3, <2>4, LooksReport
<1> QED BY <1>1, <1>2

\* The steps of the transaction that look at no row.
LEMMA FlushReport ==
    ASSUME IInv, NEW i \in Importers, ReportOK(i),
           Flush(i) \/ UpdateRow(i) \/ InsertRow(i)
    PROVE  ReportOK(i)'
<1>1. pc[i] \in InTransaction /\ pc'[i] # "parse"
  <2>1. Spaces
    BY TypeParts DEF IInv
  <2> QED BY <2>1 DEF Flush, UpdateRow, InsertRow, NextUpdate, NextInsert, Goto,
                      InTransaction, Spaces
<1>2. UNCHANGED <<file, left, added, loaded, now, report>>
  BY DEF Flush, UpdateRow, InsertRow
<1> QED BY <1>1, <1>2, SameReport

\* A step of an import leaves the report of another as it is.
LEMMA OthersReport ==
    ASSUME IInv, NEW i \in Importers, NEW j \in Importers \ {i}, Run(i) \/ Fault(i)
    PROVE  /\ pc'[j] = pc[j] /\ file'[j] = file[j] /\ left'[j] = left[j]
           /\ added'[j] = added[j] /\ loaded'[j] = loaded[j] /\ now'[j] = now[j]
           /\ report'[j] = report[j]
<1>1. Spaces
  BY TypeParts DEF IInv
<1>2. ASSUME NEW step, Raise(i, step) \/ CommitRows(i, step)
      PROVE  /\ pc'[j] = pc[j] /\ file'[j] = file[j] /\ left'[j] = left[j]
             /\ added'[j] = added[j] /\ loaded'[j] = loaded[j] /\ now'[j] = now[j]
  BY <1>1, <1>2 DEF Raise, CommitRows, LeaveSession, Goto, Spaces
<1>3. ASSUME NEW step, Raise(i, step) PROVE report'[j] = report[j]
  BY <1>1, <1>3 DEF Raise, Spaces
<1>4. CASE Parse(i)
  BY <1>1, <1>4 DEF Parse, Goto, Spaces
<1>5. ASSUME NEW k \in left[i], Select(i, k) \/ Recall(i, k)
      PROVE  /\ pc'[j] = pc[j] /\ file'[j] = file[j] /\ left'[j] = left[j]
             /\ added'[j] = added[j] /\ loaded'[j] = loaded[j] /\ now'[j] = now[j]
             /\ report'[j] = report[j]
  BY <1>1, <1>5 DEF Select, Recall, Upsert, Spaces
<1>6. CASE Flush(i) \/ UpdateRow(i) \/ InsertRow(i) \/ Invalidate(i)
  BY <1>1, <1>6 DEF Flush, UpdateRow, InsertRow, Invalidate, Goto, Spaces, sessionVars
<1>7. CASE Commit(i) \/ CommitUnacknowledged(i)
  BY <1>1, <1>2, <1>7 DEF Commit, CommitUnacknowledged, Spaces
<1> QED BY <1>2, <1>3, <1>4, <1>5, <1>6, <1>7
           DEF Run, Fault, InsertConflicts, DeadlockDetected, ParseFails, DatabaseFails, Crash

LEMMA NextReport ==
    IInv /\ (\A i \in Importers : ReportOK(i)) /\ [AirportNext]_airportVars
    => \A i \in Importers : ReportOK(i)'
<1> SUFFICES ASSUME IInv, \A i \in Importers : ReportOK(i), [AirportNext]_airportVars
             PROVE  \A i \in Importers : ReportOK(i)'
  OBVIOUS
<1>1. ASSUME NEW i \in Importers, Run(i) \/ Fault(i), NEW j \in Importers
      PROVE  ReportOK(j)'
  <2>1. CASE j # i
    BY <1>1, <2>1, OthersReport, SameReport
  <2>2. CASE j = i
    <3>1. Spaces
      BY TypeParts DEF IInv
    <3>2. ASSUME pc'[i] \notin InTransaction \cup {"parse"} PROVE ReportOK(i)'
      BY <3>2 DEF ReportOK
    <3>3. ASSUME NEW step \in {"failed", "crashed", "invalidate", "done"}, Goto(i, step)
          PROVE  ReportOK(i)'
      BY <3>1, <3>2, <3>3 DEF Goto, Spaces, InTransaction
    <3>4. ASSUME \/ InsertConflicts(i) \/ DeadlockDetected(i) \/ Commit(i)
                 \/ Invalidate(i) \/ Fault(i)
          PROVE  ReportOK(i)'
      BY <3>3, <3>4 DEF InsertConflicts, DeadlockDetected, Commit, Invalidate, Fault,
          ParseFails, DatabaseFails, Crash, CommitUnacknowledged, Raise, CommitRows
    <3>5. ASSUME Parse(i) PROVE ReportOK(i)'
      BY <3>5, ParseReport
    <3>6. ASSUME NEW k \in left[i], Select(i, k) \/ Recall(i, k) PROVE ReportOK(i)'
      BY <3>6, LookReport
    <3>7. ASSUME Flush(i) \/ UpdateRow(i) \/ InsertRow(i) PROVE ReportOK(i)'
      BY <3>7, FlushReport
    <3> QED BY <1>1, <2>2, <3>4, <3>5, <3>6, <3>7 DEF Run
  <2> QED BY <2>1, <2>2
<1>2. CASE UNCHANGED airportVars
  <2>1. UNCHANGED <<pc, file, left, added, loaded, now, report>>
    BY <1>2 DEF airportVars, sessionVars
  <2> QED BY <2>1, SameReport
<1> QED BY <1>1, <1>2 DEF AirportNext, Terminating

\* A commit adds an airport for each row that was added.
LEMMA InsertedAreNew ==
    ASSUME IInv, NEW i \in Importers, AllSent(i)
    PROVE  LET new == {c \in Codes : airports[c] = Absent /\ Written(i)[c] # Absent}
           IN new = Staged(i) /\ Cardinality(new) = Cardinality(added[i])
<1> DEFINE new == {c \in Codes : airports[c] = Absent /\ Written(i)[c] # Absent}
           f == file[i]
<1>1. /\ Spaces /\ SessionTypes(i) /\ SessionOK(i) /\ pc[i] \in InTransaction
      /\ pc[i] = "flush"
  BY TypeParts DEF IInv, AllSent, InTransaction
<1>2. f \in Files /\ added[i] \subseteq Parsed(f) /\ added[i] \ inserts[i] = added[i]
  BY <1>1 DEF SessionTypes, AllSent
<1>3. \A k \in added[i] : f[k].code \in Codes
  <2>1. \A k \in added[i] : f[k] \in Records
    BY <1>2, FileTypes
  <2> QED BY <2>1 DEF Records
<1>4. Staged(i) = {f[k].code : k \in added[i]}
  BY <1>1, <1>2 DEF Staged
<1>5. \A k, m \in added[i] : /\ airports[f[k].code] = Absent
                             /\ f[k].code = f[m].code => k = m
  BY <1>1, <1>2 DEF SessionOK
<1>6. new = Staged(i)
  <2>1. ASSUME NEW c \in Staged(i) PROVE c \in Codes /\ airports[c] = Absent
    BY <1>3, <1>4, <1>5, <2>1
  <2>2. ASSUME NEW c \in Staged(i) PROVE Written(i)[c] # Absent
    <3>1. PICK k \in added[i] : f[k].code = c
      BY <1>4, <2>2
    <3>2. (CHOOSE m \in added[i] : f[m].code = c) \in added[i]
      BY <3>1
    <3>3. f[CHOOSE m \in added[i] : f[m].code = c] \in Records
      BY <1>2, <3>2, FileTypes
    <3>4. Written(i)[c] = f[CHOOSE m \in added[i] : f[m].code = c].row
      BY <2>1, <2>2 DEF Written
    <3> QED BY <3>3, <3>4, AirportAssumption DEF Records
  <2>3. ASSUME NEW c \in new PROVE c \in Staged(i)
    BY Writes
  <2> QED BY <2>1, <2>2, <2>3
<1>7. Cardinality(Staged(i)) = Cardinality(added[i])
  <2> DEFINE g == [k \in added[i] |-> f[k].code]
  <2>1. g \in Bijection(added[i], Staged(i))
    BY <1>4, <1>5 DEF Bijection, Injection, Surjection, IsInjective
  <2>2. ExistsBijection(added[i], Staged(i))
    BY <2>1 DEF ExistsBijection
  <2>3. added[i] \subseteq 1..Len(f)
    BY <1>2, FileTypes
  <2>4. IsFiniteSet(added[i])
    BY <1>2, <2>3, FiniteFile
  <2> QED BY <2>2, <2>4, FS_Bijection
<1> QED BY <1>6, <1>7, Zenon

\* When no other import came between, a commit changes what the session did.
LEMMA UpdatedAreChanged ==
    ASSUME IInv, NEW i \in Importers, AllSent(i), i \notin late
    PROVE  {c \in Codes : airports[c] # Written(i)[c]} \ Staged(i) = Changed(i)
<1>1. Spaces /\ SessionTypes(i) /\ SessionOK(i) /\ pc[i] \in InTransaction
  BY TypeParts DEF IInv, AllSent, InTransaction
<1>2. Locked(i) = Changed(i)
  BY DEF Locked, AllSent
<1>3. ASSUME NEW c \in Codes, c \notin Staged(i), c \notin Changed(i)
      PROVE  Written(i)[c] = airports[c]
  BY <1>2, <1>3 DEF Written
<1>4. ASSUME NEW c \in Changed(i)
      PROVE  c \in Codes /\ c \notin Staged(i) /\ airports[c] # Written(i)[c]
  <2>1. c \in Codes /\ now[i][c] # loaded[i][c] /\ loaded[i][c] # Absent
    BY <1>1 DEF Changed, SessionTypes
  <2>2. airports[c] = loaded[i][c] /\ airports[c] # Absent
    BY <1>1, <2>1 DEF SessionOK
  <2>3. PICK p \in Kept(i) : file[i][p].code = c
    BY <1>1, <2>1 DEF SessionOK
  <2>4. c \notin Staged(i)
    <3>1. \A m \in added[i] \ inserts[i] : airports[file[i][m].code] = Absent
      BY <1>1 DEF SessionOK, AllSent
    <3> QED BY <2>2, <3>1 DEF Staged
  <2>5. now[i][c] \in Rows /\ loaded[i][c] \in Rows
    BY <1>1, <2>1 DEF Spaces, Objects, SessionTypes
  <2>6. Written(i)[c] = [col \in Columns |-> IF now[i][c][col] # loaded[i][c][col]
                                             THEN now[i][c][col] ELSE airports[c][col]]
    BY <1>2, <2>1, <2>4 DEF Written
  <2>7. Written(i)[c] = now[i][c]
    BY <2>2, <2>5, <2>6 DEF Rows
  <2> QED BY <2>1, <2>2, <2>4, <2>7
<1>5. Changed(i) \subseteq Codes
  BY DEF Changed
<1> QED BY <1>3, <1>4, <1>5

ReportStep(i) ==
    pc[i] = "flush" /\ pc'[i] = "invalidate" =>
    LET r == report[i]
        f == file[i]
        new == {c \in Codes : airports[c] = Absent /\ airports'[c] # Absent}
        changed == {c \in Codes : airports[c] # airports'[c]} \ new
        once == \A c \in Codes : Cardinality(Parsed(f) \cap OfCode(f, c)) < 2
    IN /\ r.inserted + r.updated + r.skipped + r.rejected = Len(f)
       /\ r.inserted = Cardinality(new)
       /\ i \notin late /\ once => r.updated = Cardinality(changed)

LEMMA CommitReports ==
    ASSUME IInv, NEW i \in Importers, ReportOK(i), Commit(i)
    PROVE  ReportStep(i)
<1> DEFINE new == {c \in Codes : airports[c] = Absent /\ Written(i)[c] # Absent}
           f == file[i]
<1>1. AllSent(i) /\ airports' = Written(i)
  BY DEF Commit, CommitRows, AllSent
<1>2. pc[i] \in InTransaction /\ Counts(i)
  BY <1>1 DEF AllSent, InTransaction, ReportOK
<1>3. SessionTypes(i) /\ f \in Files /\ Handled(i) = Parsed(f)
  BY <1>1, <1>2, TypeParts DEF IInv, SessionTypes, AllSent, Handled
<1>4. report[i].inserted + report[i].updated + report[i].skipped + report[i].rejected
          = Len(f)
  BY <1>2, <1>3, FileParts DEF Counts
<1>5. new = Staged(i) /\ Cardinality(new) = Cardinality(added[i])
  BY <1>1, InsertedAreNew
<1>6. report[i].inserted = Cardinality(new)
  BY <1>2, <1>5 DEF Counts
<1>7. ASSUME i \notin late, Once(f)
      PROVE  report[i].updated = Cardinality({c \in Codes : airports[c] # Written(i)[c]} \ new)
  <2>1. {c \in Codes : airports[c] # Written(i)[c]} \ Staged(i) = Changed(i)
    BY <1>1, <1>7, UpdatedAreChanged
  <2>2. report[i].updated = Cardinality(Changed(i))
    BY <1>2, <1>7 DEF Counts
  <2> HIDE DEF new
  <2> QED BY <1>5, <2>1, <2>2, Zenon
<1> QED BY <1>1, <1>4, <1>6, <1>7 DEF ReportStep, Once

\* The report of a call that returns counts every row of its file once, the
\* airports its commit adds and, undisturbed, those it changes (import_csv).
THEOREM ReportsAreTrue == AirportSpec => ReportIsTrue
<1> DEFINE ReportInv == \A i \in Importers : ReportOK(i)
           Reported == \A i \in Importers : ReportStep(i)
<1>1. AirportInit => ReportInv
  BY DEF AirportInit, ReportOK, InTransaction
<1>2. IInv /\ ReportInv /\ [AirportNext]_airportVars => ReportInv'
  BY NextReport
<1>3. IInv /\ ReportInv /\ [AirportNext]_airportVars => [Reported]_airportVars
  <2> SUFFICES ASSUME IInv, ReportInv, AirportNext, NEW j \in Importers,
                      pc[j] = "flush", pc'[j] = "invalidate"
               PROVE  ReportStep(j)
    BY DEF ReportStep
  <2>1. Spaces
    BY TypeParts DEF IInv
  <2>2. ASSUME NEW i \in Importers, Run(i) \/ Fault(i) PROVE Commit(j)
    <3>1. i = j
      BY <2>2, OthersReport
    <3>2. ASSUME NEW step \in {"failed", "crashed"}, Goto(j, step) PROVE FALSE
      BY <2>1, <3>2 DEF Goto, Spaces
    <3> QED BY <2>2, <3>1, <3>2 DEF Run, Fault, Parse, Select, Recall, Flush, UpdateRow,
               InsertRow, InsertConflicts, DeadlockDetected, Invalidate, ParseFails,
               DatabaseFails, Crash, CommitUnacknowledged, Raise, CommitRows
  <2> QED BY <2>2, CommitReports DEF AirportNext, Terminating, airportVars
<1>4. AirportSpec => [][Reported]_airportVars
  <2> HIDE DEF ReportInv, Reported
  <2> QED BY <1>1, <1>2, <1>3, Invariant, PTL DEF AirportSpec
<1> QED BY <1>4 DEF ReportIsTrue, ReportStep
=============================================================================
